--------------------------- MODULE RevocationSet ----------------------------
(***************************************************************************)
(* What a status list promises: to be a set of revoked indices.            *)
(***************************************************************************)
CONSTANT Indices

VARIABLE invalid

Init == invalid = {}

Revoke(idx) == invalid' = invalid \cup {idx}

Reinstate(idx) == invalid' = invalid \ {idx}

Next == \E idx \in Indices : Revoke(idx) \/ Reinstate(idx)

Spec == Init /\ [][Next]_invalid
=============================================================================
