-------------------------- MODULE StatusListProofs --------------------------
(***************************************************************************)
(* The status list is a set of indices, and no reader misses a revocation  *)
(* for longer than a token lives: for every size, lifetime and history.    *)
(***************************************************************************)
EXTENDS StatusList, MapLemmas

\* Two entries never share a bit.
LEMMA BitsApart ==
    ASSUME NEW i \in Nat, NEW j \in Nat, i \div 8 = j \div 8, Bit(i) = Bit(j)
    PROVE  i = j
  BY SMT DEF Bit

\* Every entry has a byte.
LEMMA ByteOf ==
    ASSUME NEW i \in Indices
    PROVE  i \in Nat /\ i \div 8 \in 0 .. NBytes - 1 /\ Bit(i) \in 0 .. 7
  BY ListAssumption DEF Indices, NBytes, Bit

\* Every step keeps the type.
LEMMA TypeNext == TypeOK /\ [Next]_vars => TypeOK'
  <1> SUFFICES ASSUME TypeOK, [Next]_vars PROVE TypeOK'
    OBVIOUS
  <1> USE ListAssumption DEF TypeOK
  <1>1. ASSUME NEW idx \in Touched, Revoke(idx) PROVE TypeOK'
    <2>1. idx \in Indices /\ bytes' \in Bytes /\ token' = token
      BY <1>1, ByteOf DEF Revoke, InRange, Bytes, ByteValues
    <2>2. 0 \in Ages(ttl)
      BY DEF Ages
    <2> QED
      BY <1>1, <2>1, <2>2, PutType DEF Revoke
  <1>2. ASSUME NEW idx \in Touched, Reinstate(idx) PROVE TypeOK'
    <2>1. bytes' \in Bytes /\ token' = token
      BY <1>2 DEF Reinstate, Bytes, ByteValues, Cleared
    <2> QED
      BY <1>2, <2>1, DelType DEF Reinstate
  <1>3. CASE Publish \/ ServeForeign
    <2>1. NoBytes \in Bytes /\ 0 \in Ages(ttl)
      BY DEF NoBytes, Bytes, ByteValues, Ages
    <2>2. token' \in Token
      <3>1. CASE Publish
        BY <2>1, <3>1 DEF Publish, Token
      <3>2. CASE ServeForeign
        BY <2>1, <3>2 DEF ServeForeign, Token
      <3> QED
        BY <1>3, <3>1, <3>2
    <2> QED
      BY <1>3, <2>2 DEF Publish, ServeForeign
  <1>4. CASE Tick
    <2>1. token' \in Token
      BY <1>4, OlderType DEF Tick, Token
    <2>2. IsMap(invalidFor', Indices, Ages(ttl))
      BY <1>4, OlderType DEF Tick, IsMap
    <2> QED
      BY <1>4, <2>1, <2>2 DEF Tick
  <1>5. CASE UNCHANGED vars
    BY <1>5 DEF vars
  <1> QED
    BY <1>1, <1>2, <1>3, <1>4, <1>5 DEF Next

\* The bytes, the token and the history keep their types, for any size of the list.
THEOREM TypeCorrect == Spec => []TypeOK
  <1>1. Init => TypeOK
    <2>1. NoBytes \in Bytes /\ 0 \in Ages(ttl)
      BY ListAssumption DEF NoBytes, Bytes, ByteValues, Ages
    <2> QED
      BY <2>1, EmptyMapType DEF Init, TypeOK, Token
  <1> QED
    BY <1>1, TypeNext, PTL DEF Spec
-----------------------------------------------------------------------------
\* The entry whose bit is written, and no other, changes its status.
LEMMA OthersUntouched ==
    ASSUME TypeOK, NEW idx \in Indices, NEW byte,
           bytes' = [bytes EXCEPT ![idx \div 8] = byte],
           byte \ {Bit(idx)} = bytes[idx \div 8] \ {Bit(idx)}
    PROVE  /\ \A i \in Indices : i # idx => (Get(i)' = "INVALID" <=> Get(i) = "INVALID")
           /\ Get(idx)' = "INVALID" <=> Bit(idx) \in byte
  <1>1. ASSUME NEW i \in Indices, i # idx
        PROVE  Bit(i) \in bytes'[i \div 8] <=> Bit(i) \in bytes[i \div 8]
    <2>1. CASE i \div 8 = idx \div 8
      <3>1. Bit(i) # Bit(idx)
        BY <1>1, <2>1, BitsApart, ByteOf
      <3> QED
        BY <2>1, <3>1, ByteOf DEF TypeOK, Bytes
    <2>2. CASE i \div 8 # idx \div 8
      BY <2>2, ByteOf DEF TypeOK, Bytes
    <2> QED
      BY <2>1, <2>2
  <1>2. bytes'[idx \div 8] = byte
    BY ByteOf DEF TypeOK, Bytes
  <1> QED
    BY <1>1, <1>2 DEF Get, StatusAt, InRange

\* The list implements the set of revoked indices, for any size, multiple of eight or
\* not.
THEOREM Refines == Spec => ImplementsRevocationSet
  <1>1. Init => Set!Init
    BY ByteOf DEF Init, Set!Init, Get, StatusAt, NoBytes
  <1>2. TypeOK /\ [Next]_vars => [Set!Next]_({i \in Indices : Get(i) = "INVALID"})
    <2> SUFFICES ASSUME TypeOK, [Next]_vars
                 PROVE  [Set!Next]_({i \in Indices : Get(i) = "INVALID"})
      OBVIOUS
    <2>1. ASSUME NEW idx \in Touched, Revoke(idx) PROVE Set!Next
      <3>1. idx \in Indices
        BY <2>1 DEF Revoke, InRange
      <3>2. PICK byte : byte = bytes[idx \div 8] \cup {Bit(idx)}
        OBVIOUS
      <3>3. /\ \A i \in Indices : i # idx => (Get(i)' = "INVALID" <=> Get(i) = "INVALID")
            /\ Get(idx)' = "INVALID"
        <4>1. bytes' = [bytes EXCEPT ![idx \div 8] = byte]
          BY <2>1, <3>2 DEF Revoke
        <4>2. byte \ {Bit(idx)} = bytes[idx \div 8] \ {Bit(idx)}
          BY <3>2
        <4>3. Bit(idx) \in byte
          BY <3>2
        <4> QED
          BY <3>1, <4>1, <4>2, <4>3, OthersUntouched
      <3>4. Set!Revoke(idx)
        BY <3>1, <3>3 DEF Set!Revoke
      <3> QED
        BY <3>1, <3>4 DEF Set!Next
    <2>2. ASSUME NEW idx \in Touched, Reinstate(idx) PROVE Set!Next
      <3>1. idx \in Indices
        BY <2>2 DEF Reinstate, InRange
      <3>2. PICK byte : byte = bytes[idx \div 8] \ {Bit(idx)}
        OBVIOUS
      <3>3. /\ \A i \in Indices : i # idx => (Get(i)' = "INVALID" <=> Get(i) = "INVALID")
            /\ Get(idx)' # "INVALID"
        <4>1. bytes' = [bytes EXCEPT ![idx \div 8] = byte]
          BY <2>2, <3>2 DEF Reinstate, Cleared
        <4>2. byte \ {Bit(idx)} = bytes[idx \div 8] \ {Bit(idx)}
          BY <3>2
        <4>3. Bit(idx) \notin byte
          BY <3>2
        <4> QED
          BY <3>1, <4>1, <4>2, <4>3, OthersUntouched
      <3>4. Set!Reinstate(idx)
        BY <3>1, <3>3 DEF Set!Reinstate
      <3> QED
        BY <3>1, <3>4 DEF Set!Next
    <2>3. CASE Publish \/ ServeForeign \/ Tick \/ UNCHANGED vars
      <3>1. bytes' = bytes
        BY <2>3 DEF Publish, ServeForeign, Tick, vars
      <3> QED
        BY <3>1 DEF Get, StatusAt
    <2> QED
      BY <2>1, <2>2, <2>3 DEF Next
  <1> QED
    BY <1>1, <1>2, TypeCorrect, PTL DEF Spec, ImplementsRevocationSet, Set!Spec
-----------------------------------------------------------------------------
\* The bit of a revoked index is set, and a sound token shows it if it is younger than
\* the revocation.
RevocationShows ==
    \A i \in DOMAIN invalidFor :
        /\ Bit(i) \in bytes[i \div 8]
        /\ token.sound /\ token.age < invalidFor[i] => Bit(i) \in token.lst[i \div 8]

\* Together with the type that is inductive.
LEMMA ShowsNext ==
    ASSUME TypeOK, RevocationShows, [Next]_vars
    PROVE  RevocationShows'
  <1> USE DEF RevocationShows
  <1>0. /\ \A i \in DOMAIN invalidFor : i \in Indices /\ invalidFor[i] \in Nat
        /\ token.age \in Nat
    BY DEF TypeOK, IsMap, Token, Ages
  <1>1. ASSUME NEW idx \in Touched, Revoke(idx) PROVE RevocationShows'
    <2>1. /\ idx \in Indices /\ token' = token
          /\ bytes' = [bytes EXCEPT ![idx \div 8] = @ \cup {Bit(idx)}]
          /\ DOMAIN invalidFor' = DOMAIN invalidFor \cup {idx}
          /\ \A i \in DOMAIN invalidFor : invalidFor'[i] = invalidFor[i]
          /\ idx \notin DOMAIN invalidFor => invalidFor'[idx] = 0
      BY <1>1 DEF Revoke, InRange, Put
    <2>2. \A b \in 0 .. NBytes - 1 : bytes[b] \subseteq bytes'[b]
      BY <2>1 DEF TypeOK, Bytes
    <2>3. Bit(idx) \in bytes'[idx \div 8]
      BY <2>1, ByteOf DEF TypeOK, Bytes
    <2> QED
      BY <1>0, <2>1, <2>2, <2>3, ByteOf
  <1>2. ASSUME NEW idx \in Touched, Reinstate(idx) PROVE RevocationShows'
    <2>1. /\ idx \in Indices /\ token' = token
          /\ bytes' = [bytes EXCEPT ![idx \div 8] = @ \ {Bit(idx)}]
          /\ DOMAIN invalidFor' = DOMAIN invalidFor \ {idx}
          /\ \A i \in DOMAIN invalidFor' : invalidFor'[i] = invalidFor[i]
      BY <1>2 DEF Reinstate, InRange, Cleared, Del, Restrict
    <2>2. ASSUME NEW i \in DOMAIN invalidFor' PROVE Bit(i) \in bytes'[i \div 8]
      <3>1. i \div 8 = idx \div 8 => Bit(i) # Bit(idx)
        BY <1>0, <2>1, BitsApart, ByteOf
      <3> QED
        BY <1>0, <2>1, <3>1, ByteOf DEF TypeOK, Bytes
    <2> QED
      BY <2>1, <2>2
  <1>3. CASE Publish \/ ServeForeign
    BY <1>3 DEF Publish, ServeForeign
  <1>4. CASE Tick
    <2>1. /\ bytes' = bytes /\ DOMAIN invalidFor' = DOMAIN invalidFor
          /\ \A i \in DOMAIN invalidFor : invalidFor'[i] = Older(invalidFor[i], ttl)
          /\ token'.age = Older(token.age, ttl)
          /\ token'.sound = token.sound /\ token'.lst = token.lst
      BY <1>4 DEF Tick, TypeOK, Token
    <2>2. ASSUME NEW i \in DOMAIN invalidFor, token'.age < invalidFor'[i]
          PROVE  token.age < invalidFor[i]
      BY <1>0, <2>1, <2>2, ListAssumption DEF Older, TypeOK, IsMap, Token, Ages
    <2> QED
      BY <2>1, <2>2
  <1>5. CASE UNCHANGED vars
    BY <1>5 DEF vars
  <1> QED
    BY <1>1, <1>2, <1>3, <1>4, <1>5 DEF Next

\* A reader is never told VALID of a credential that was revoked ttl ago or earlier.
THEOREM RevocationSeenCorrect == Spec => []RevocationSeen
  <1>1. Init => RevocationShows
    BY EmptyMapType DEF Init, RevocationShows
  <1>2. TypeOK /\ RevocationShows /\ [Next]_vars => RevocationShows'
    BY ShowsNext
  <1>3. TypeOK /\ RevocationShows => RevocationSeen
    <2> SUFFICES ASSUME TypeOK, RevocationShows, NEW i \in DOMAIN invalidFor,
                        ReadStatus(token, i) = "VALID"
                 PROVE  invalidFor[i] < ttl
      BY DEF RevocationSeen
    <2>1. token.sound /\ token.age < ttl /\ Bit(i) \notin token.lst[i \div 8]
      BY DEF ReadStatus, Accepted, StatusAt
    <2>2. ~(token.age < invalidFor[i])
      BY <2>1 DEF RevocationShows
    <2>3. invalidFor[i] \in Nat /\ token.age \in Nat
      BY DEF TypeOK, IsMap, Token, Ages
    <2> QED
      BY <2>1, <2>2, <2>3, ListAssumption
  <1> QED
    BY <1>1, <1>2, <1>3, TypeCorrect, PTL DEF Spec
=============================================================================
