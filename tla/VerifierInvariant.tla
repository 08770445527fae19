------------------------- MODULE VerifierInvariant --------------------------
(***************************************************************************)
(* What the safety properties of the verifier rest on: together with them  *)
(* these facts are inductive.                                              *)
(***************************************************************************)
EXTENDS VerifierProperties

\* A session that a submission was admitted for is drawn, and while it is in the
\* store it admits no other.
Taken(s) == s \in drawn /\ (s \in DOMAIN sessions => sessions[s].consumed)

SubmissionsTaken ==
    /\ DOMAIN sessions \subseteq drawn
    /\ \A h \in DOMAIN handlers : Taken(handlers[h].session)
    /\ \A v \in verdicts : Taken(v.session)

\* A handler fetches the status list only for a presentation that names its session
\* and the key resolved, and accepts no other.
NonceChecked ==
    /\ \A h \in DOMAIN handlers :
          handlers[h].pc \in {"fetchingStatus", "statusServed"} => Matches(handlers[h])
    /\ \A v \in verdicts : v.valid => v.vp.nonce = Nonce(v.session)

\* The issuer's list holds what was revoked under its present key.
ListComplete ==
    \A k \in Keys, i \in Indices :
        <<k, i>> \in everRevoked => k <= issuerKey /\ (k = issuerKey => i \in revoked)

\* What was outdated when it was submitted still is, and a list served with the key
\* of the credential shows it.
OutdatedShows ==
    \A h \in DOMAIN handlers :
        LET a == handlers[h]
        IN  /\ a.vp.key <= issuerKey
            /\ a.outdated =>
                  a.vp.key < issuerKey \/ <<a.vp.key, a.vp.idx>> \in everRevoked
            /\ a.pc = "statusServed" /\ a.outdated /\ a.listKey = a.vp.key => a.bit

\* What was delivered was judged.
DeliveredJudged == \A s \in delivered : \E v \in verdicts : v.session = s

\* The inductive invariant of the verifier.
VerifierInv ==
    /\ TypeOK
    /\ SubmissionsTaken /\ OneSubmission
    /\ NonceChecked /\ NoReplay
    /\ ListComplete /\ OutdatedShows /\ RevokedNeverAccepted
    /\ DeliveredJudged /\ ReadOnce
=============================================================================
