----------------------- MODULE PresentationInvariant ------------------------
(***************************************************************************)
(* The inductive invariant of presentations: how what was issued, what was *)
(* sent and the verdict were made.                                         *)
(***************************************************************************)
EXTENDS PresentationProperties

Body(key, type, claims, c, at) ==
    IF format = "mso_mdoc"
    THEN IssueMdoc(IssuerKey, key, type, Elements(claims), c, at, ExpiresIn)
    ELSE IssueSdJwtVc(IssuerKey, key, type, claims, c, at, ExpiresIn)

\* What is issued was made by the issuer, of claims and for a key.
Made ==
    \A c \in Credentials : issued[c] # Absent =>
        \E key \in HolderKeys, type \in Types, claims \in [Names -> Values], at \in 0 .. now :
            issued[c] = [key |-> key, type |-> type, claims |-> claims, at |-> at,
                         body |-> Body(key, type, claims, c, at)]

Presented(held, key, override, s, clock) ==
    IF format = "mso_mdoc"
    THEN CreateMdocPresentation(held, key, Reveal(override), VerifierUrl, s)
    ELSE CreatePresentation(held, key, ToReveal(override), VerifierUrl, s, clock)

\* What is sent was made of what is issued, for the session.
Sent ==
    \A s \in Sessions : sent[s] # Absent =>
        \E c \in Credentials, override \in Overrides \cup {Absent}, clock \in Nat :
            /\ issued[c] # Absent
            /\ sent[s] = [credential |-> c, override |-> override, clock |-> clock,
                          body |-> Presented(issued[c].body, issued[c].key, override, s, clock)]

\* The verdict is on something that may arrive, and follows from it.
Judged ==
    verdict # Absent =>
        \E s \in Sessions, body \in IF format = "mso_mdoc" THEN GarbledMdocs ELSE GarbledSdJwts :
            verdict = [session |-> s, body |-> body,
                       valid |-> Verifies(s, body) /\ Satisfies(body)]

Inv ==
    /\ now \in 0 .. MaxTime /\ format \in {"dc+sd-jwt", "mso_mdoc"}
    /\ issued = [c \in Credentials |-> issued[c]] /\ sent = [s \in Sessions |-> sent[s]]
    /\ Made /\ Sent /\ Judged
=============================================================================
