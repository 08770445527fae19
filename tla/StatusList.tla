----------------------------- MODULE StatusList -----------------------------
(***************************************************************************)
(* The Token Status List, packages/core/src/status-list.ts: the list of    *)
(* one bit per entry, the token that publishes it and the reading of it.   *)
(*                                                                         *)
(* A byte is the set of the positions of its bits that are 1, so that |=   *)
(* of a bit adds a position and &= of its complement takes one away.       *)
(* DEFLATE and base64url carry the bytes, padding included, unchanged.     *)
(***************************************************************************)
EXTENDS Maps

CONSTANTS
    size,           \* entries of the list
    Touched,        \* bound: the indices that are set in a run
    ttl             \* lifetime of a token

ASSUME ListAssumption ==
    /\ size \in Nat \ {0} /\ ttl \in Nat \ {0}
    /\ Touched \subseteq Nat

VARIABLES
    bytes,
    token,          \* the token a reader holds
    invalidFor      \* history: how long each index has been INVALID

vars == <<bytes, token, invalidFor>>
-----------------------------------------------------------------------------
NBytes == (size + 7) \div 8     \* Math.ceil(size / 8)
Indices == 0 .. size - 1
ByteValues == SUBSET (0 .. 7)
Bytes == [0 .. NBytes - 1 -> ByteValues]

\* sound: signed with the issuer's key, with the type, iss and sub expected, and one
\* bit per entry.
Token == [lst : Bytes, sound : BOOLEAN, age : Ages(ttl)]

\* What the source calls STATUS_VALID and STATUS_INVALID, or an error.
Statuses == {"VALID", "INVALID", "throws"}
-----------------------------------------------------------------------------
\* idx & 7
Bit(idx) == idx % 8

MutClosedRange(idx) == idx \in 0 .. NBytes * 8

\* assertInRange
InRange(idx) == idx \in Indices

StatusAt(lst, idx) == IF Bit(idx) \in lst[idx \div 8] THEN "INVALID" ELSE "VALID"

\* get(idx)
Get(idx) == IF InRange(idx) THEN StatusAt(bytes, idx) ELSE "throws"

MutIgnoresAge(t) == t.sound

\* jwtVerify and the checks of the claims; exp is ttl after the signing.
Accepted(t) == t.sound /\ t.age < ttl

\* readStatus(t, idx): the range is that of the bytes.
ReadStatus(t, idx) ==
    IF Accepted(t) /\ idx \div 8 < NBytes THEN StatusAt(t.lst, idx) ELSE "throws"
-----------------------------------------------------------------------------
NoBytes == [b \in 0 .. NBytes - 1 |-> {}]

Init ==
    /\ bytes = NoBytes
    /\ token = [lst |-> NoBytes, sound |-> TRUE, age |-> 0]
    /\ invalidFor = EmptyMap

\* set(idx, STATUS_INVALID)
Revoke(idx) ==
    /\ InRange(idx)
    /\ bytes' = [bytes EXCEPT ![idx \div 8] = @ \cup {Bit(idx)}]
    /\ invalidFor' = IF idx \in DOMAIN invalidFor THEN invalidFor ELSE Put(invalidFor, idx, 0)
    /\ UNCHANGED token

MutClearsByte(byte, idx) == {}

\* &= ~(1 << bit)
Cleared(byte, idx) == byte \ {Bit(idx)}

\* set(idx, STATUS_VALID)
Reinstate(idx) ==
    /\ InRange(idx)
    /\ bytes' = [bytes EXCEPT ![idx \div 8] = Cleared(@, idx)]
    /\ invalidFor' = Del(invalidFor, idx)
    /\ UNCHANGED token

\* buildStatusListToken, and a reader fetches the token
Publish ==
    /\ token' = [lst |-> bytes, sound |-> TRUE, age |-> 0]
    /\ UNCHANGED <<bytes, invalidFor>>

\* A reader is served a token that is not the issuer's for this list.
ServeForeign ==
    /\ token' = [lst |-> NoBytes, sound |-> FALSE, age |-> 0]
    /\ UNCHANGED <<bytes, invalidFor>>

\* Date.now() advances.
Tick ==
    /\ token' = [token EXCEPT !.age = Older(@, ttl)]
    /\ invalidFor' = [i \in DOMAIN invalidFor |-> Older(invalidFor[i], ttl)]
    /\ UNCHANGED bytes

Next ==
    \/ \E idx \in Touched : Revoke(idx) \/ Reinstate(idx)
    \/ Publish \/ ServeForeign \/ Tick

Spec == Init /\ [][Next]_vars
-----------------------------------------------------------------------------
\* The type invariant.
TypeOK ==
    /\ bytes \in Bytes
    /\ token \in Token
    /\ IsMap(invalidFor, Indices, Ages(ttl))

\* The list, eight entries to a byte, is a set of revoked indices: setting one entry
\* leaves the others as they are.
Set == INSTANCE RevocationSet WITH invalid <- {i \in Indices : Get(i) = "INVALID"}

ImplementsRevocationSet == Set!Spec

\* A reader is told VALID of a revoked credential only if it was revoked less than
\* ttl ago, whichever token it holds and however long.
RevocationSeen ==
    \A i \in DOMAIN invalidFor :
        ReadStatus(token, i) = "VALID" => invalidFor[i] < ttl
=============================================================================
