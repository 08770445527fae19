------------------------- MODULE VerifierProperties -------------------------
(***************************************************************************)
(* What makes the verifier correct.  See Verifier for the model.           *)
(***************************************************************************)
EXTENDS Verifier

\* The type invariant.
TypeOK ==
    /\ drawn \subseteq Sessions
    /\ IsMap(sessions, Sessions, Session)
    /\ IsMap(handlers, Handlers, Activation)
    /\ IsMap(cache, {TheIssuer}, CacheEntry)
    /\ issuerKey \in Keys
    /\ revoked \subseteq Indices
    /\ everRevoked \subseteq Keys \X Indices
    /\ verdicts \subseteq Verdict
    /\ delivered \subseteq Sessions
-----------------------------------------------------------------------------
\* One submission per session: however POSTs for one session interleave with the
\* awaits of the handler, no two of them are being verified and none is once a
\* verdict was reached (the flag set before the first await, line 185).
OneSubmission ==
    /\ \A g, h \in DOMAIN handlers : handlers[g].session = handlers[h].session => g = h
    /\ \A h \in DOMAIN handlers, v \in verdicts : handlers[h].session # v.session
    /\ \A v, w \in verdicts : v.session = w.session => v = w

\* A presentation is good for one session: nothing signed over one nonce is accepted
\* twice, in whatever sessions and however often it is sent (lines 192, 220).
NoReplay ==
    \A v, w \in verdicts : v.valid /\ w.valid /\ v.vp.nonce = w.vp.nonce => v = w

\* A credential with a status reference is not accepted if it was revoked before it
\* was submitted, nor if its issuer had by then restarted with another key and an
\* empty list - although the verifier caches the issuer's key, fetches the list
\* later, and the issuer may revoke and restart at any moment.
RevokedNeverAccepted ==
    \A v \in verdicts : v.valid /\ v.vp.idx # NoStatus => ~v.outdated

\* A result is handed out by polling at most once, and is the verdict reached for
\* that session: once read it is purged and never put back (lines 256-257).
ReadOnce ==
    /\ \A s \in delivered \cap DOMAIN sessions : sessions[s].result = "none"
    /\ \A s \in DOMAIN sessions : sessions[s].result # "none" =>
          \E v \in verdicts : v.session = s /\ (v.valid <=> sessions[s].result = "valid")
-----------------------------------------------------------------------------
\* Neither the sweep nor a request for one session closes another one that could
\* still be answered: only time does.
OthersKeepTheirSessions ==
    [][/\ ~Tick => \A s, t \in {x \in Sessions : Admits(x) /\ ~Admits(x)'} : s = t
       /\ Sweep => \A s \in Sessions : Admits(s) => Admits(s)']_vars
-----------------------------------------------------------------------------
JudgementOf(s) ==
    CASE \E h \in DOMAIN handlers : handlers[h].session = s -> "pending"
      [] \E v \in verdicts : v.session = s /\ v.valid       -> "valid"
      [] \E v \in verdicts : v.session = s /\ ~v.valid      -> "invalid"
      [] OTHER                                             -> "none"

MailboxOf(s) ==
    CASE s \notin drawn                                  -> "unopened"
      [] s \in drawn \ DOMAIN sessions                   -> "closed"
      [] s \in DOMAIN sessions /\ ~sessions[s].consumed  -> "open"
      [] s \in DOMAIN sessions /\ sessions[s].consumed   ->
            IF s \in delivered THEN "read"
            ELSE IF sessions[s].result = "none" THEN "taken" ELSE "full"

OneShot == INSTANCE OneShotSession
    WITH Ids <- Sessions,
         judgement <- [s \in Sessions |-> JudgementOf(s)],
         mailbox <- [s \in Sessions |-> MailboxOf(s)]

\* The verifier implements the one-shot session.
ImplementsOneShotSession == OneShot!Spec

\* Every session is swept or expires in the end, and every admitted submission is
\* judged or fails: nothing stays in the store or suspended for ever.
EverySessionCloses == OneShot!EveryCloses

\* When the issuer restarts no more, the cache ends up without any key but its
\* current one: a late answer may overwrite a newer key, but not for ever.
StaleKeyGoes ==
    <>[](CacheHit => cache[TheIssuer].key = issuerKey)
=============================================================================
