--------------------------- MODULE OneShotSession ---------------------------
(***************************************************************************)
(* What the verifier promises about a presentation session: one submission *)
(* is admitted, it is judged at most once, and the judgement can be read   *)
(* at most once, while the session is kept.                                *)
(***************************************************************************)
CONSTANT Ids

VARIABLES
    judgement,  \* of the submission: none, under way, or what it came to
    mailbox     \* the session as the relying party may find it

vars == <<judgement, mailbox>>

Init ==
    /\ judgement = [s \in Ids |-> "none"]
    /\ mailbox = [s \in Ids |-> "unopened"]

Open(s) ==
    /\ mailbox[s] = "unopened"
    /\ mailbox' = [mailbox EXCEPT ![s] = "open"]
    /\ UNCHANGED judgement

\* A submission is admitted; it may be given up at once.
Admit(s) ==
    /\ mailbox[s] = "open"
    /\ mailbox' = [mailbox EXCEPT ![s] = "taken"]
    /\ judgement' = [judgement EXCEPT ![s] = "pending"] \/ UNCHANGED judgement

\* The judgement is put into the mailbox, if the session is still kept.
Judge(s) ==
    /\ judgement[s] = "pending"
    /\ \E j \in {"valid", "invalid"} : judgement' = [judgement EXCEPT ![s] = j]
    /\ mailbox' = [mailbox EXCEPT ![s] = IF @ = "closed" THEN @ ELSE "full"]

\* The submission comes to nothing; the session takes no other.
Fail(s) ==
    /\ judgement[s] = "pending"
    /\ judgement' = [judgement EXCEPT ![s] = "none"]
    /\ UNCHANGED mailbox

Read(s) ==
    /\ mailbox[s] = "full"
    /\ mailbox' = [mailbox EXCEPT ![s] = "read"]
    /\ UNCHANGED judgement

\* Sessions are closed together by a sweep.
Close(S) ==
    /\ \A s \in S : mailbox[s] \in {"open", "taken", "full", "read"}
    /\ mailbox' = [s \in Ids |-> IF s \in S THEN "closed" ELSE mailbox[s]]
    /\ UNCHANGED judgement

Next ==
    \/ \E s \in Ids : Open(s) \/ Admit(s) \/ Judge(s) \/ Fail(s) \/ Read(s)
    \/ \E S \in SUBSET Ids : Close(S)

Spec == Init /\ [][Next]_vars

\* Every session is closed in the end with nothing left to be judged.
EveryCloses ==
    \A s \in Ids : mailbox[s] = "open" ~> [](mailbox[s] = "closed" /\ judgement[s] # "pending")
=============================================================================
