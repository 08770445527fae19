---------------------------- MODULE OneTimeGrant ----------------------------
(***************************************************************************)
(* What the issuer promises about a grant: it moves forward through the    *)
(* stages of its flow, it may be given up at any of them, and it yields at *)
(* most one credential.  Nothing brings a settled grant back.              *)
(***************************************************************************)
CONSTANT Grants

VARIABLE stage

Live == {"granted", "approved", "tokened", "proving", "signing"}
Settled == {"issued", "void"}
Stages == {"fresh"} \cup Live \cup Settled

\* The stages that can follow a stage.  A pre-authorized grant is never
\* "approved": its code is exchanged for the token.
Successors(s) ==
    CASE s = "fresh"    -> {"granted"}
      [] s = "granted"  -> {"approved", "tokened"}
      [] s = "approved" -> {"tokened"}
      [] s = "tokened"  -> {"proving"}
      [] s = "proving"  -> {"signing"}
      [] s = "signing"  -> {"issued"}
      [] OTHER          -> {}

Init == stage = [g \in Grants |-> "fresh"]

Advance(g) == \E s \in Successors(stage[g]) : stage' = [stage EXCEPT ![g] = s]

\* Grants are given up together by a sweep and by a restart.
GiveUp(S) ==
    /\ \A g \in S : stage[g] \in Live
    /\ stage' = [g \in Grants |-> IF g \in S THEN "void" ELSE stage[g]]

Next ==
    \/ \E g \in Grants : Advance(g)
    \/ \E S \in SUBSET Grants : GiveUp(S)

Spec == Init /\ [][Next]_stage

\* Every grant that was created is settled in the end, and stays settled.
EverySettles == \A g \in Grants : stage[g] \in Live ~> [](stage[g] \in Settled)
=============================================================================
