-------------------------------- MODULE Maps --------------------------------
(***************************************************************************)
(* The in-memory stores of both services are JavaScript Maps.  A Map is a  *)
(* function whose domain is the set of keys it holds.                      *)
(***************************************************************************)
EXTENDS Naturals, FiniteSets, Functions

\* The Map with no entry.
EmptyMap == [k \in {} |-> k]

\* m is a Map whose keys are taken from K and whose values are taken from V.
IsMap(m, K, V) ==
    /\ DOMAIN m \subseteq K
    /\ m \in [DOMAIN m -> V]

\* m.set(k, v)
Put(m, k, v) == [x \in DOMAIN m \cup {k} |-> IF x = k THEN v ELSE m[x]]

\* m.delete(k)
Del(m, k) == Restrict(m, DOMAIN m \ {k})

\* m.size
Size(m) == Cardinality(DOMAIN m)

(***************************************************************************)
(* Time.  Every stored time stamp is represented by the age Date.now() -   *)
(* stamp.  Code only ever compares an age with a TTL, so an age stops      *)
(* growing one tick past the limit it is compared with.                    *)
(***************************************************************************)
Ages(limit) == 0 .. limit + 1

Older(age, limit) == IF age > limit THEN age ELSE age + 1
=============================================================================
