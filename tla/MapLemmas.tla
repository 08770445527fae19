----------------------------- MODULE MapLemmas ------------------------------
(***************************************************************************)
(* What the operations on JavaScript Maps preserve.                        *)
(***************************************************************************)
EXTENDS Maps, TLAPS

\* The empty Map is a Map of any type.
LEMMA EmptyMapType ==
    ASSUME NEW K, NEW V
    PROVE  IsMap(EmptyMap, K, V) /\ DOMAIN EmptyMap = {}
  BY DEF IsMap, EmptyMap

\* m.set(k, v) keeps the type.
LEMMA PutType ==
    ASSUME NEW K, NEW V, NEW m, IsMap(m, K, V), NEW k \in K, NEW v \in V
    PROVE  IsMap(Put(m, k, v), K, V)
  BY DEF IsMap, Put

\* m.set(k, v) adds the key k, with value v, and leaves the other entries alone.
LEMMA PutValue ==
    ASSUME NEW m, NEW k, NEW v
    PROVE  /\ DOMAIN Put(m, k, v) = DOMAIN m \cup {k}
           /\ Put(m, k, v)[k] = v
           /\ \A x \in DOMAIN m : x # k => Put(m, k, v)[x] = m[x]
  BY DEF Put

\* m.delete(k) keeps the type.
LEMMA DelType ==
    ASSUME NEW K, NEW V, NEW m, IsMap(m, K, V), NEW k
    PROVE  IsMap(Del(m, k), K, V)
  BY DEF IsMap, Del, Restrict

\* m.delete(k) removes the key k and leaves the other entries alone.
LEMMA DelValue ==
    ASSUME NEW m, NEW k
    PROVE  /\ DOMAIN Del(m, k) = DOMAIN m \ {k}
           /\ \A x \in DOMAIN m \ {k} : Del(m, k)[x] = m[x]
  BY DEF Del, Restrict

\* Deleting a set of entries at once.
LEMMA RestrictType ==
    ASSUME NEW K, NEW V, NEW m, IsMap(m, K, V), NEW S \in SUBSET DOMAIN m
    PROVE  IsMap(Restrict(m, S), K, V)
  BY DEF IsMap, Restrict

\* Ages stay in their range.
LEMMA OlderType ==
    ASSUME NEW limit \in Nat, NEW age \in Ages(limit)
    PROVE  Older(age, limit) \in Ages(limit)
  BY DEF Older, Ages
=============================================================================
