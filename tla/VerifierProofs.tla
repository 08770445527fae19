--------------------------- MODULE VerifierProofs ---------------------------
(***************************************************************************)
(* The type invariant and the safety properties of the verifier, for every *)
(* value of the constants.                                                 *)
(***************************************************************************)
EXTENDS VerifierInvariant, MapLemmas

\* The outcome of an activation is of the type of a session and of a verdict.
LEMMA ConcludeType ==
    ASSUME TypeOK, NEW h \in DOMAIN handlers, NEW valid \in BOOLEAN, Conclude(h, valid)
    PROVE  /\ IsMap(sessions', Sessions, Session)
           /\ verdicts' \subseteq Verdict
           /\ IsMap(handlers', Handlers, Activation)
  <1>1. handlers[h] \in Activation
    BY DEF TypeOK, IsMap
  <1>2. IsMap(sessions', Sessions, Session)
    BY DEF Conclude, StoreResult, ResultOf, Results, TypeOK, IsMap, Session
  <1>3. [session |-> handlers[h].session, vp |-> handlers[h].vp, valid |-> valid,
         outdated |-> handlers[h].outdated] \in Verdict
    BY <1>1 DEF Activation, Verdict
  <1> QED
    BY <1>2, <1>3 DEF Conclude, Del, Restrict, TypeOK, IsMap

\* Initially everything is empty.
LEMMA TypeInit == Init => TypeOK
  BY EmptyMapType, VerifierAssumption DEF Init, TypeOK, Keys

\* Every step keeps the type.
LEMMA TypeNext == TypeOK /\ [Next]_vars => TypeOK'
  <1> SUFFICES ASSUME TypeOK, [Next]_vars PROVE TypeOK'
    OBVIOUS
  <1>0. /\ drawn \subseteq Sessions
        /\ IsMap(sessions, Sessions, Session)
        /\ IsMap(handlers, Handlers, Activation)
        /\ IsMap(cache, {TheIssuer}, CacheEntry)
        /\ issuerKey \in Keys
        /\ revoked \subseteq Indices
        /\ everRevoked \subseteq Keys \X Indices
        /\ verdicts \subseteq Verdict
        /\ delivered \subseteq Sessions
    BY DEF TypeOK
  <1> USE VerifierAssumption DEF issuer
  <1>1. ASSUME NEW id \in Sessions, CreateRequest(id)
        PROVE  TypeOK'
    <2>1. [age |-> 0, consumed |-> FALSE, result |-> "none"] \in Session
      BY DEF Session, Ages, Results
    <2> QED
      BY <1>0, <1>1, <2>1, PutType DEF CreateRequest, TypeOK
  <1>2. ASSUME NEW id \in Sessions, ResponseExpired(id)
        PROVE  TypeOK'
    BY <1>0, <1>2, DelType DEF ResponseExpired, TypeOK
  <1>3. ASSUME NEW id \in DOMAIN sessions, MarkConsumed(id)
        PROVE  IsMap(sessions', Sessions, Session)
    BY <1>0, <1>3 DEF MarkConsumed, IsMap, Session
  <1>4. ASSUME NEW id \in Sessions, ResponseRejected(id)
        PROVE  TypeOK'
    BY <1>0, <1>3, <1>4 DEF ResponseRejected, Admits, TypeOK
  <1>5. ASSUME NEW id \in Sessions, Poll(id)
        PROVE  TypeOK'
    <2>1. IsMap(sessions', Sessions, Session)
      BY <1>0, <1>5 DEF Poll, Purged, IsMap, Session, Results
    <2> QED
      BY <1>0, <1>5, <2>1 DEF Poll, TypeOK
  <1>6. ASSUME NEW h \in Handlers, NEW id \in Sessions, NEW vp \in VpToken,
               ResponseStart(h, id, vp)
        PROVE  TypeOK'
    <2> DEFINE a == [pc |-> IF CacheHit THEN "verifying" ELSE "fetchingKey",
                     session |-> id, vp |-> vp, outdated |-> Outdated(vp),
                     issuerKey |-> IF CacheHit THEN cache[TheIssuer].key ELSE 0,
                     listKey |-> 0, bit |-> FALSE]
    <2>1. CacheHit => cache[TheIssuer].key \in Keys
      BY <1>0 DEF CacheHit, IsMap, CacheEntry
    <2>2. 0 \in Keys /\ Outdated(vp) \in BOOLEAN
      BY DEF Keys, Outdated
    <2>3. a \in Activation
      BY <2>1, <2>2 DEF Activation
    <2>4. handlers' = Put(handlers, h, a)
      BY <1>6 DEF ResponseStart
    <2> HIDE DEF a
    <2>5. IsMap(handlers', Handlers, Activation)
      BY <1>0, <2>3, <2>4, PutType
    <2>6. IsMap(sessions', Sessions, Session)
      BY <1>3, <1>6 DEF ResponseStart, Admits
    <2> QED
      BY <1>0, <1>6, <2>5, <2>6 DEF ResponseStart, TypeOK
  <1>7. ASSUME NEW h \in Handlers, KeyServed(h)
        PROVE  TypeOK'
    <2>1. IsMap(handlers', Handlers, Activation)
      BY <1>0, <1>7 DEF KeyServed, At, IsMap, Activation
    <2> QED
      BY <1>0, <1>7, <2>1 DEF KeyServed, TypeOK
  <1>8. ASSUME NEW h \in Handlers, KeyArrives(h)
        PROVE  TypeOK'
    <2>1. IsMap(handlers', Handlers, Activation)
      BY <1>0, <1>8 DEF KeyArrives, At, IsMap, Activation
    <2>2. [key |-> handlers[h].issuerKey, age |-> 0] \in CacheEntry
      BY <1>0, <1>8 DEF KeyArrives, At, IsMap, Activation, CacheEntry, Ages
    <2>3. IsMap(cache', {TheIssuer}, CacheEntry)
      BY <1>0, <1>8, <2>2, PutType DEF KeyArrives
    <2> QED
      BY <1>0, <1>8, <2>1, <2>3 DEF KeyArrives, TypeOK
  <1>9. ASSUME NEW h \in Handlers, VerifyPresentation(h)
        PROVE  TypeOK'
    <2>1. /\ IsMap(sessions', Sessions, Session)
          /\ verdicts' \subseteq Verdict
          /\ IsMap(handlers', Handlers, Activation)
      <3>1. h \in DOMAIN handlers
        BY <1>9 DEF VerifyPresentation, At
      <3>2. CASE \E valid \in BOOLEAN : Conclude(h, valid)
        BY <3>1, <3>2, ConcludeType
      <3>3. CASE /\ handlers' = [handlers EXCEPT ![h].pc = "fetchingStatus"]
                 /\ UNCHANGED <<sessions, verdicts>>
        BY <1>0, <3>1, <3>3 DEF IsMap, Activation
      <3> QED
        BY <1>9, <3>2, <3>3 DEF VerifyPresentation
    <2> QED
      BY <1>0, <1>9, <2>1 DEF VerifyPresentation, TypeOK
  <1>10. ASSUME NEW h \in Handlers, StatusServed(h)
         PROVE  TypeOK'
    <2>1. IsMap(handlers', Handlers, Activation)
      BY <1>0, <1>10 DEF StatusServed, At, IsMap, Activation
    <2> QED
      BY <1>0, <1>10, <2>1 DEF StatusServed, TypeOK
  <1>11. ASSUME NEW h \in Handlers, StatusArrives(h)
         PROVE  TypeOK'
    <2>1. h \in DOMAIN handlers /\ \E valid \in BOOLEAN : Conclude(h, valid)
      BY <1>11 DEF StatusArrives, At
    <2> QED
      BY <1>0, <1>11, <2>1, ConcludeType DEF StatusArrives, TypeOK
  <1>12. ASSUME NEW h \in Handlers, HandlerThrows(h)
         PROVE  TypeOK'
    BY <1>0, <1>12, DelType DEF HandlerThrows, TypeOK
  <1>13. ASSUME NEW idx \in Indices, IssuerRevokes(idx)
         PROVE  TypeOK'
    BY <1>0, <1>13 DEF IssuerRevokes, TypeOK
  <1>14. CASE IssuerRestarts
    BY <1>0, <1>14 DEF IssuerRestarts, TypeOK, Keys
  <1>15. CASE Sweep
    BY <1>0, <1>15, RestrictType DEF Sweep, Unexpired, TypeOK
  <1>16. CASE Tick
    <2>1. IsMap(sessions', Sessions, Session)
      BY <1>0, <1>16, OlderType DEF Tick, Aged, Session, IsMap
    <2>2. IsMap(cache', {TheIssuer}, CacheEntry)
      BY <1>0, <1>16, OlderType DEF Tick, Aged, CacheEntry, IsMap
    <2> QED
      BY <1>0, <1>16, <2>1, <2>2 DEF Tick, TypeOK
  <1>17. CASE UNCHANGED vars
    BY <1>0, <1>17 DEF vars, TypeOK
  <1> QED
    BY <1>1, <1>2, <1>4, <1>5, <1>6, <1>7, <1>8, <1>9, <1>10, <1>11, <1>12, <1>13,
       <1>14, <1>15, <1>16, <1>17 DEF Next, Proceed
-----------------------------------------------------------------------------
\* Sessions are drawn before they are stored, and a consumed one stays consumed.
SessionsCarried ==
    /\ drawn \subseteq drawn'
    /\ DOMAIN sessions' \subseteq DOMAIN sessions \cup (drawn' \ drawn)
    /\ \A s \in DOMAIN sessions \cap DOMAIN sessions' :
          sessions[s].consumed => sessions'[s].consumed

\* Handlers go on with their session and their presentation, or end.
HandlersCarried ==
    /\ DOMAIN handlers' \subseteq DOMAIN handlers
    /\ \A h \in DOMAIN handlers' :
          /\ handlers'[h].session = handlers[h].session
          /\ handlers'[h].vp = handlers[h].vp
          /\ handlers'[h].outdated = handlers[h].outdated

\* What the end of a handler does to the stores.
LEMMA ConcludeSteps ==
    ASSUME TypeOK, NEW h \in DOMAIN handlers, NEW valid \in BOOLEAN, Conclude(h, valid)
    PROVE  /\ DOMAIN sessions' = DOMAIN sessions
           /\ \A s \in DOMAIN sessions : sessions'[s].consumed = sessions[s].consumed
           /\ \A s \in DOMAIN sessions : s # handlers[h].session => sessions'[s] = sessions[s]
           /\ handlers[h].session \in DOMAIN sessions =>
                 sessions'[handlers[h].session].result = ResultOf(valid)
           /\ DOMAIN handlers' = DOMAIN handlers \ {h}
           /\ \A g \in DOMAIN handlers' : handlers'[g] = handlers[g]
  <1>1. /\ DOMAIN handlers' = DOMAIN handlers \ {h}
        /\ \A g \in DOMAIN handlers' : handlers'[g] = handlers[g]
    BY DEF Conclude, Del, Restrict
  <1>2. \A s \in DOMAIN sessions : sessions[s] \in Session
    BY DEF TypeOK, IsMap
  <1>3. PICK id : id = handlers[h].session
    OBVIOUS
  <1>4. sessions' = IF id \in DOMAIN sessions
                    THEN [sessions EXCEPT ![id].result = ResultOf(valid)] ELSE sessions
    BY <1>3 DEF Conclude, StoreResult
  <1>5. /\ DOMAIN sessions' = DOMAIN sessions
        /\ \A s \in DOMAIN sessions : sessions'[s].consumed = sessions[s].consumed
        /\ \A s \in DOMAIN sessions : s # id => sessions'[s] = sessions[s]
        /\ id \in DOMAIN sessions => sessions'[id].result = ResultOf(valid)
    BY <1>2, <1>4 DEF Session
  <1> QED
    BY <1>1, <1>3, <1>5

\* Every step carries the sessions on, and either the handlers with the verdicts, or
\* it admits a submission, or it judges one.
LEMMA Steps ==
    ASSUME TypeOK, DOMAIN sessions \subseteq drawn, [Next]_vars
    PROVE  /\ SessionsCarried
           /\ \/ HandlersCarried /\ verdicts' = verdicts
              \/ \E h \in Handlers, id \in Sessions, vp \in VpToken : ResponseStart(h, id, vp)
              \/ \E h \in DOMAIN handlers, valid \in BOOLEAN :
                    Conclude(h, valid) /\ (VerifyPresentation(h) \/ StatusArrives(h))
  <1>0. /\ \A s \in DOMAIN sessions : sessions[s] \in Session
        /\ \A h \in DOMAIN handlers : handlers[h] \in Activation
    BY DEF TypeOK, IsMap
  <1> USE DEF SessionsCarried, HandlersCarried, issuer
  <1>1. ASSUME NEW id \in Sessions, CreateRequest(id)
        PROVE  SessionsCarried /\ HandlersCarried /\ verdicts' = verdicts
    <2>1. /\ drawn' = drawn \cup {id} /\ id \notin drawn
          /\ DOMAIN sessions' = DOMAIN sessions \cup {id}
          /\ \A s \in DOMAIN sessions : s # id => sessions'[s] = sessions[s]
          /\ sessions'[id].consumed = FALSE
          /\ UNCHANGED <<handlers, verdicts>>
      BY <1>1 DEF CreateRequest, Put
    <2> QED
      BY <2>1
  <1>2. ASSUME NEW id \in Sessions, ResponseExpired(id)
        PROVE  SessionsCarried /\ HandlersCarried /\ verdicts' = verdicts
    BY <1>2 DEF ResponseExpired, Del, Restrict
  <1>3. ASSUME NEW id \in Sessions, MarkConsumed(id)
        PROVE  /\ DOMAIN sessions' = DOMAIN sessions
               /\ \A s \in DOMAIN sessions : sessions[s].consumed => sessions'[s].consumed
    BY <1>0, <1>3 DEF MarkConsumed, Session
  <1>4. ASSUME NEW id \in Sessions, ResponseRejected(id)
        PROVE  SessionsCarried /\ HandlersCarried /\ verdicts' = verdicts
    BY <1>3, <1>4 DEF ResponseRejected
  <1>5. ASSUME NEW id \in Sessions, Poll(id)
        PROVE  SessionsCarried /\ HandlersCarried /\ verdicts' = verdicts
    BY <1>0, <1>5 DEF Poll, Purged, Session
  <1>6. ASSUME NEW h \in Handlers, NEW id \in Sessions, NEW vp \in VpToken,
               ResponseStart(h, id, vp)
        PROVE  SessionsCarried
    BY <1>3, <1>6 DEF ResponseStart
  <1>7. ASSUME NEW h \in Handlers,
               KeyServed(h) \/ KeyArrives(h) \/ StatusServed(h) \/ HandlerThrows(h)
        PROVE  SessionsCarried /\ HandlersCarried /\ verdicts' = verdicts
    <2>1. CASE KeyServed(h)
      BY <1>0, <2>1 DEF KeyServed, At, Activation
    <2>2. CASE KeyArrives(h)
      BY <1>0, <2>2 DEF KeyArrives, At, Activation
    <2>3. CASE StatusServed(h)
      BY <1>0, <2>3 DEF StatusServed, At, Activation
    <2>4. CASE HandlerThrows(h)
      BY <2>4 DEF HandlerThrows, Del, Restrict
    <2> QED
      BY <1>7, <2>1, <2>2, <2>3, <2>4
  <1>8. ASSUME NEW h \in DOMAIN handlers, NEW valid \in BOOLEAN, Conclude(h, valid),
               drawn' = drawn
        PROVE  SessionsCarried
    BY <1>8, ConcludeSteps
  <1>9. ASSUME NEW h \in Handlers, VerifyPresentation(h)
        PROVE  /\ SessionsCarried
               /\ \/ HandlersCarried /\ verdicts' = verdicts
                  \/ h \in DOMAIN handlers /\ \E valid \in BOOLEAN : Conclude(h, valid)
    <2>1. h \in DOMAIN handlers /\ drawn' = drawn
      BY <1>9 DEF VerifyPresentation, At
    <2>2. CASE \E valid \in BOOLEAN : Conclude(h, valid)
      BY <1>8, <2>1, <2>2
    <2>3. CASE /\ handlers' = [handlers EXCEPT ![h].pc = "fetchingStatus"]
               /\ UNCHANGED <<sessions, verdicts>>
      BY <1>0, <2>1, <2>3 DEF Activation
    <2> QED
      BY <1>9, <2>2, <2>3 DEF VerifyPresentation
  <1>10. ASSUME NEW h \in Handlers, StatusArrives(h)
         PROVE  /\ SessionsCarried
                /\ h \in DOMAIN handlers /\ \E valid \in BOOLEAN : Conclude(h, valid)
    <2>1. /\ h \in DOMAIN handlers /\ drawn' = drawn
          /\ \E valid \in BOOLEAN : Conclude(h, valid)
      BY <1>10 DEF StatusArrives, At
    <2> QED
      BY <1>8, <2>1
  <1>11. CASE \/ \E idx \in Indices : IssuerRevokes(idx)
              \/ IssuerRestarts
    BY <1>11 DEF IssuerRevokes, IssuerRestarts
  <1>12. CASE Sweep
    BY <1>12 DEF Sweep, Unexpired, Restrict
  <1>13. CASE Tick
    BY <1>0, <1>13 DEF Tick, Aged, Session
  <1>14. CASE UNCHANGED vars
    BY <1>14 DEF vars
  <1> QED
    BY <1>1, <1>2, <1>4, <1>5, <1>6, <1>7, <1>9, <1>10, <1>11, <1>12, <1>13, <1>14
    DEF Next, Proceed

\* A session is marked before the first await, so its second submission finds it
\* consumed, whatever came of the first.
LEMMA SubmissionNext ==
    ASSUME TypeOK, SubmissionsTaken, OneSubmission, [Next]_vars
    PROVE  SubmissionsTaken' /\ OneSubmission'
  <1>0. /\ DOMAIN sessions \subseteq drawn
        /\ \A h \in DOMAIN handlers : Taken(handlers[h].session)
        /\ \A v \in verdicts : Taken(v.session)
    BY DEF SubmissionsTaken
  <1>1. SessionsCarried
    BY <1>0, Steps
  <1>2. \A s : Taken(s) => s \in drawn' /\ (s \in DOMAIN sessions' => sessions'[s].consumed)
    BY <1>1 DEF SessionsCarried, Taken
  <1>3. DOMAIN sessions' \subseteq drawn'
    BY <1>0, <1>1 DEF SessionsCarried
  <1>4. CASE HandlersCarried /\ verdicts' = verdicts
    <2>1. /\ DOMAIN handlers' \subseteq DOMAIN handlers
          /\ \A h \in DOMAIN handlers' : handlers'[h].session = handlers[h].session
          /\ verdicts' = verdicts
      BY <1>4 DEF HandlersCarried
    <2>2. SubmissionsTaken'
      BY <1>0, <1>2, <1>3, <2>1 DEF SubmissionsTaken, Taken
    <2> QED
      BY <2>1, <2>2 DEF OneSubmission
  <1>5. ASSUME NEW h \in Handlers, NEW id \in Sessions, NEW vp \in VpToken,
               ResponseStart(h, id, vp)
        PROVE  SubmissionsTaken' /\ OneSubmission'
    <2>1. /\ id \in DOMAIN sessions /\ ~sessions[id].consumed
          /\ DOMAIN handlers' = DOMAIN handlers \cup {h}
          /\ handlers'[h].session = id
          /\ \A g \in DOMAIN handlers : g # h => handlers'[g] = handlers[g]
          /\ UNCHANGED <<drawn, verdicts>>
      BY <1>5 DEF ResponseStart, Admits, Put
    <2>2. sessions'[id].consumed
      <3>1. sessions[id] \in Session
        BY <2>1 DEF TypeOK, IsMap
      <3> QED
        BY <1>5, <2>1, <3>1 DEF ResponseStart, MarkConsumed, Session
    <2>3. ~Taken(id) /\ id \in drawn
      BY <1>0, <2>1 DEF Taken
    <2>4. SubmissionsTaken'
      BY <1>0, <1>2, <1>3, <2>1, <2>2, <2>3 DEF SubmissionsTaken, Taken
    <2>5. /\ \A g \in DOMAIN handlers : handlers[g].session # id
          /\ \A v \in verdicts : v.session # id
      BY <1>0, <2>3
    <2>6. OneSubmission'
      BY <2>1, <2>5 DEF OneSubmission
    <2> QED
      BY <2>4, <2>6
  <1>6. ASSUME NEW h \in DOMAIN handlers, NEW valid \in BOOLEAN, Conclude(h, valid)
        PROVE  SubmissionsTaken' /\ OneSubmission'
    <2> DEFINE verdict == [session |-> handlers[h].session, vp |-> handlers[h].vp,
                           valid |-> valid, outdated |-> handlers[h].outdated]
    <2>1. /\ DOMAIN handlers' = DOMAIN handlers \ {h}
          /\ \A g \in DOMAIN handlers' : handlers'[g] = handlers[g]
      BY <1>6, ConcludeSteps
    <2>2. verdicts' = verdicts \cup {verdict} /\ verdict.session = handlers[h].session
      BY <1>6 DEF Conclude
    <2> HIDE DEF verdict
    <2>3. SubmissionsTaken'
      BY <1>0, <1>2, <1>3, <2>1, <2>2 DEF SubmissionsTaken, Taken
    <2>4. OneSubmission'
      BY <2>1, <2>2 DEF OneSubmission
    <2> QED
      BY <2>3, <2>4
  <1> QED
    BY <1>0, <1>4, <1>5, <1>6, Steps
-----------------------------------------------------------------------------
\* The points at which a handler asks for the status list.
AtStatus == {"fetchingStatus", "statusServed"}

\* b is the activation a at a later point, with what it was submitted with.
Later(a, b) == b.session = a.session /\ b.vp = a.vp /\ b.outdated = a.outdated

\* What a step does to one handler.
HandlerStep(h) ==
    \/ h \in DOMAIN handlers /\ handlers'[h] = handlers[h]
    \/ h \in DOMAIN handlers /\ Later(handlers[h], handlers'[h]) /\ handlers'[h].pc \notin AtStatus
    \/ /\ h \in DOMAIN handlers /\ Later(handlers[h], handlers'[h])
       /\ handlers'[h].pc = "fetchingStatus" /\ Matches(handlers[h])
       /\ handlers'[h].issuerKey = handlers[h].issuerKey
    \/ /\ h \in DOMAIN handlers /\ Later(handlers[h], handlers'[h])
       /\ handlers[h].pc = "fetchingStatus" /\ handlers'[h].pc = "statusServed"
       /\ handlers'[h].issuerKey = handlers[h].issuerKey
       /\ handlers'[h].listKey = issuerKey /\ issuerKey' = issuerKey
       /\ handlers'[h].bit = (handlers[h].vp.idx \in revoked)
    \/ /\ handlers'[h].pc \notin AtStatus /\ handlers'[h].vp.key <= issuerKey
       /\ handlers'[h].outdated = Outdated(handlers'[h].vp) /\ issuerKey' = issuerKey
       /\ UNCHANGED everRevoked

\* The steps of one activation are these.
LEMMA HandlerSteps ==
    ASSUME TypeOK, [Next]_vars, NEW g \in DOMAIN handlers'
    PROVE  HandlerStep(g)
  <1>0. \A h \in DOMAIN handlers : handlers[h] \in Activation
    BY DEF TypeOK, IsMap
  <1> USE DEF HandlerStep
  <1>1. ASSUME handlers' = handlers PROVE HandlerStep(g)
    BY <1>1
  <1>2. CASE \E id \in Sessions :
                CreateRequest(id) \/ ResponseExpired(id) \/ ResponseRejected(id) \/ Poll(id)
    BY <1>1, <1>2 DEF CreateRequest, ResponseExpired, ResponseRejected, Poll
  <1>3. ASSUME NEW h \in Handlers, NEW id \in Sessions, NEW vp \in VpToken,
               ResponseStart(h, id, vp)
        PROVE  HandlerStep(g)
    <2>1. /\ g = h \/ (g \in DOMAIN handlers /\ handlers'[g] = handlers[g])
          /\ handlers'[h].pc \in {"verifying", "fetchingKey"}
          /\ handlers'[h].vp = vp /\ handlers'[h].outdated = Outdated(vp)
          /\ vp.key <= issuerKey /\ UNCHANGED issuer
      BY <1>3 DEF ResponseStart, Put
    <2> QED
      BY <2>1 DEF AtStatus, issuer
  <1>4. ASSUME NEW h \in Handlers, KeyServed(h) PROVE HandlerStep(g)
    BY <1>0, <1>4 DEF KeyServed, At, AtStatus, Later, Activation
  <1>5. ASSUME NEW h \in Handlers, KeyArrives(h) PROVE HandlerStep(g)
    BY <1>0, <1>5 DEF KeyArrives, At, AtStatus, Later, Activation
  <1>6. ASSUME NEW h \in Handlers, VerifyPresentation(h) PROVE HandlerStep(g)
    <2>1. h \in DOMAIN handlers
      BY <1>6 DEF VerifyPresentation, At
    <2>2. CASE \E valid \in BOOLEAN : Conclude(h, valid)
      BY <2>1, <2>2 DEF Conclude, Del, Restrict
    <2>3. CASE Matches(handlers[h]) /\ handlers' = [handlers EXCEPT ![h].pc = "fetchingStatus"]
      BY <1>0, <2>1, <2>3 DEF Later, Activation
    <2> QED
      BY <1>6, <2>2, <2>3 DEF VerifyPresentation
  <1>7. ASSUME NEW h \in Handlers, StatusServed(h) PROVE HandlerStep(g)
    <2>1. /\ h \in DOMAIN handlers /\ handlers[h].pc = "fetchingStatus"
          /\ handlers' = [handlers EXCEPT ![h].pc = "statusServed", ![h].listKey = issuerKey,
                                          ![h].bit = handlers[h].vp.idx \in revoked]
          /\ issuerKey' = issuerKey
      BY <1>7 DEF StatusServed, At, issuer
    <2>2. CASE g = h
      BY <1>0, <2>1, <2>2 DEF Later, Activation
    <2>3. CASE g # h
      BY <2>1, <2>3
    <2> QED
      BY <2>2, <2>3
  <1>8. ASSUME NEW h \in Handlers, StatusArrives(h) PROVE HandlerStep(g)
    BY <1>8 DEF StatusArrives, Conclude, Del, Restrict
  <1>9. ASSUME NEW h \in Handlers, HandlerThrows(h) PROVE HandlerStep(g)
    BY <1>9 DEF HandlerThrows, Del, Restrict
  <1>10. CASE (\E idx \in Indices : IssuerRevokes(idx)) \/ IssuerRestarts \/ Sweep \/ Tick
    BY <1>1, <1>10 DEF IssuerRevokes, IssuerRestarts, Sweep, Tick
  <1>11. CASE UNCHANGED vars
    BY <1>1, <1>11 DEF vars
  <1> QED
    BY <1>2, <1>3, <1>4, <1>5, <1>6, <1>7, <1>8, <1>9, <1>10, <1>11 DEF Next, Proceed

\* A verdict comes from a handler, and a valid one from a presentation that matches and
\* either has no status reference or was compared with a list its issuer signed.
Judged(h, v) ==
    /\ v.session = handlers[h].session /\ v.vp = handlers[h].vp
    /\ v.outdated = handlers[h].outdated
    /\ v.valid => \/ Matches(handlers[h]) /\ v.vp.idx = NoStatus
                  \/ handlers[h].pc = "statusServed" /\ Readable(handlers[h]) /\ ~handlers[h].bit

\* Every verdict is reached in one of these ways.
LEMMA VerdictSteps ==
    ASSUME TypeOK, DOMAIN sessions \subseteq drawn, [Next]_vars
    PROVE  \/ verdicts' = verdicts
           \/ \E h \in DOMAIN handlers : \E v : Judged(h, v) /\ verdicts' = verdicts \cup {v}
  <1>1. ASSUME NEW h \in DOMAIN handlers, NEW valid \in BOOLEAN, Conclude(h, valid),
               valid => \/ Matches(handlers[h]) /\ handlers[h].vp.idx = NoStatus
                        \/ /\ handlers[h].pc = "statusServed" /\ Readable(handlers[h])
                           /\ ~handlers[h].bit
        PROVE  \E v : Judged(h, v) /\ verdicts' = verdicts \cup {v}
    <2> DEFINE v == [session |-> handlers[h].session, vp |-> handlers[h].vp,
                     valid |-> valid, outdated |-> handlers[h].outdated]
    <2>1. Judged(h, v)
      BY <1>1 DEF Judged
    <2>2. verdicts' = verdicts \cup {v}
      BY <1>1 DEF Conclude
    <2> QED
      BY <2>1, <2>2
  <1>2. ASSUME NEW h \in DOMAIN handlers, VerifyPresentation(h)
        PROVE  \/ verdicts' = verdicts
               \/ \E v : Judged(h, v) /\ verdicts' = verdicts \cup {v}
    BY <1>1, <1>2 DEF VerifyPresentation
  <1>3. ASSUME NEW h \in DOMAIN handlers, StatusArrives(h)
        PROVE  \E v : Judged(h, v) /\ verdicts' = verdicts \cup {v}
    BY <1>1, <1>3 DEF StatusArrives, At
  <1>4. ASSUME NEW h \in Handlers, NEW id \in Sessions, NEW vp \in VpToken,
               ResponseStart(h, id, vp)
        PROVE  verdicts' = verdicts
    BY <1>4 DEF ResponseStart
  <1> QED
    BY <1>2, <1>3, <1>4, Steps

\* A presentation is compared with the nonce of its session on every way to a verdict.
LEMMA NonceNext ==
    ASSUME TypeOK, DOMAIN sessions \subseteq drawn, NonceChecked, OneSubmission',
           [Next]_vars
    PROVE  NonceChecked' /\ NoReplay'
  <1>1. ASSUME NEW h \in DOMAIN handlers', handlers'[h].pc \in AtStatus
        PROVE  Matches(handlers'[h])
    BY <1>1, HandlerSteps DEF HandlerStep, NonceChecked, Later, Matches, AtStatus
  <1>2. ASSUME NEW v \in verdicts', v.valid
        PROVE  v.vp.nonce = Nonce(v.session)
    <2>1. CASE v \in verdicts
      BY <1>2, <2>1 DEF NonceChecked
    <2>2. ASSUME NEW h \in DOMAIN handlers, Judged(h, v)
          PROVE  v.vp.nonce = Nonce(v.session)
      BY <1>2, <2>2 DEF Judged, NonceChecked, Matches
    <2> QED
      BY <2>1, <2>2, VerdictSteps
  <1>3. NonceChecked'
    BY <1>1, <1>2 DEF NonceChecked, AtStatus
  <1>4. ASSUME NEW v \in verdicts', NEW w \in verdicts', v.valid, w.valid,
               v.vp.nonce = w.vp.nonce
        PROVE  v = w
    <2>1. Nonce(v.session) = Nonce(w.session)
      BY <1>2, <1>4
    <2> QED
      BY <2>1 DEF Nonce, OneSubmission
  <1> QED
    BY <1>3, <1>4 DEF NoReplay

\* What the issuer does: it revokes, or it restarts, or it does nothing.
LEMMA IssuerSteps ==
    ASSUME [Next]_vars
    PROVE  \/ UNCHANGED issuer
           \/ /\ \E idx \in Indices : /\ revoked' = revoked \cup {idx}
                                      /\ everRevoked' = everRevoked \cup {<<issuerKey, idx>>}
              /\ UNCHANGED <<issuerKey, handlers>>
           \/ /\ issuerKey' = issuerKey + 1
              /\ UNCHANGED <<everRevoked, handlers>>
  <1>1. CASE \E id \in Sessions :
                CreateRequest(id) \/ ResponseExpired(id) \/ ResponseRejected(id) \/ Poll(id)
    BY <1>1 DEF CreateRequest, ResponseExpired, ResponseRejected, Poll
  <1>2. CASE \E h \in Handlers, id \in Sessions, vp \in VpToken : ResponseStart(h, id, vp)
    BY <1>2 DEF ResponseStart
  <1>3. CASE \E h \in Handlers : Proceed(h)
    BY <1>3 DEF Proceed, KeyServed, KeyArrives, VerifyPresentation, StatusServed,
                StatusArrives, HandlerThrows
  <1>4. CASE \E idx \in Indices : IssuerRevokes(idx)
    BY <1>4 DEF IssuerRevokes
  <1>5. CASE IssuerRestarts
    BY <1>5 DEF IssuerRestarts
  <1>6. CASE Sweep \/ Tick
    BY <1>6 DEF Sweep, Tick
  <1>7. CASE UNCHANGED vars
    BY <1>7 DEF vars
  <1> QED
    BY <1>1, <1>2, <1>3, <1>4, <1>5, <1>6, <1>7 DEF Next

\* The issuer's present list is complete: a new key comes with an empty list, and no
\* revocation is on record under it.
LEMMA ListNext ==
    ASSUME TypeOK, ListComplete, [Next]_vars
    PROVE  ListComplete'
  <1>1. issuerKey \in Nat /\ Keys \subseteq Nat
    BY VerifierAssumption DEF TypeOK, Keys
  <1>2. CASE UNCHANGED issuer
    BY <1>2 DEF ListComplete, issuer
  <1>3. ASSUME NEW idx \in Indices,
               revoked' = revoked \cup {idx},
               everRevoked' = everRevoked \cup {<<issuerKey, idx>>},
               issuerKey' = issuerKey
        PROVE  ListComplete'
    BY <1>1, <1>3 DEF ListComplete
  <1>4. CASE issuerKey' = issuerKey + 1 /\ UNCHANGED everRevoked
    <2>1. ASSUME NEW k \in Keys, NEW i \in Indices, <<k, i>> \in everRevoked
          PROVE  k <= issuerKey' /\ k # issuerKey'
      <3>1. k <= issuerKey /\ k \in Nat
        BY <1>1, <2>1 DEF ListComplete
      <3> QED
        BY <1>1, <1>4, <3>1
    <2> QED
      BY <1>4, <2>1 DEF ListComplete
  <1> QED
    BY <1>2, <1>3, <1>4, IssuerSteps

\* A credential that was outdated when it was submitted is refused by the list served.
LEMMA OutdatedNext ==
    ASSUME TypeOK, DOMAIN sessions \subseteq drawn, NonceChecked, ListComplete,
           OutdatedShows, RevokedNeverAccepted, [Next]_vars
    PROVE  OutdatedShows' /\ RevokedNeverAccepted'
  <1>0. /\ issuerKey \in Nat /\ Keys \subseteq Nat
        /\ everRevoked \subseteq Keys \X Indices
        /\ \A h \in DOMAIN handlers :
              /\ handlers[h] \in Activation /\ handlers[h].vp.key \in Nat
              /\ handlers[h].vp.key \in Keys
    BY VerifierAssumption DEF TypeOK, Keys, IsMap, Activation, VpToken
  <1>1. ASSUME NEW h \in DOMAIN handlers'
        PROVE  LET a == handlers'[h]
               IN  /\ a.vp.key <= issuerKey'
                   /\ a.outdated => a.vp.key < issuerKey' \/ <<a.vp.key, a.vp.idx>> \in everRevoked'
                   /\ a.pc = "statusServed" /\ a.outdated /\ a.listKey = a.vp.key => a.bit
    <2>1. /\ issuerKey <= issuerKey' /\ issuerKey' \in Nat
          /\ everRevoked \subseteq everRevoked'
      BY <1>0, IssuerSteps DEF issuer
    <2>2. ASSUME h \in DOMAIN handlers
          PROVE  /\ handlers[h].vp.key <= issuerKey'
                 /\ handlers[h].outdated =>
                       \/ handlers[h].vp.key < issuerKey'
                       \/ <<handlers[h].vp.key, handlers[h].vp.idx>> \in everRevoked'
      BY <1>0, <2>1, <2>2 DEF OutdatedShows
    <2>3. CASE h \in DOMAIN handlers /\ handlers'[h] = handlers[h]
      BY <2>2, <2>3 DEF OutdatedShows
    <2>4. CASE /\ h \in DOMAIN handlers /\ Later(handlers[h], handlers'[h])
               /\ handlers'[h].pc # "statusServed"
      BY <2>2, <2>4 DEF Later
    <2>5. CASE /\ h \in DOMAIN handlers /\ Later(handlers[h], handlers'[h])
               /\ handlers'[h].listKey = issuerKey
               /\ handlers'[h].bit = (handlers[h].vp.idx \in revoked)
      <3>1. ASSUME handlers[h].outdated, handlers[h].vp.key = issuerKey
            PROVE  handlers[h].vp.idx \in revoked
        <4>1. <<handlers[h].vp.key, handlers[h].vp.idx>> \in everRevoked
          BY <1>0, <2>5, <3>1 DEF OutdatedShows
        <4> QED
          BY <1>0, <3>1, <4>1 DEF ListComplete
      <3> QED
        BY <2>2, <2>5, <3>1 DEF Later
    <2>6. CASE /\ handlers'[h].pc \notin AtStatus /\ handlers'[h].vp.key <= issuerKey
               /\ handlers'[h].outdated = Outdated(handlers'[h].vp) /\ issuerKey' = issuerKey
               /\ UNCHANGED everRevoked
      <3>1. IsMap(handlers', Handlers, Activation)
        BY TypeNext DEF TypeOK
      <3>2. handlers'[h].vp.key \in Nat
        BY <1>0, <3>1 DEF IsMap, Activation, VpToken
      <3>3. handlers'[h].outdated =>
               \/ <<handlers'[h].vp.key, handlers'[h].vp.idx>> \in everRevoked'
               \/ handlers'[h].vp.key # issuerKey
        BY <2>6 DEF Outdated
      <3>4. handlers'[h].outdated =>
               \/ handlers'[h].vp.key < issuerKey'
               \/ <<handlers'[h].vp.key, handlers'[h].vp.idx>> \in everRevoked'
        BY <1>0, <2>6, <3>2, <3>3
      <3>5. handlers'[h].pc # "statusServed"
        BY <2>6 DEF AtStatus
      <3> QED
        BY <2>6, <3>4, <3>5
    <2> QED
      BY <2>3, <2>4, <2>5, <2>6, HandlerSteps DEF HandlerStep, AtStatus
  <1>2. ASSUME NEW v \in verdicts', v.valid, v.vp.idx # NoStatus
        PROVE  ~v.outdated
    <2>1. CASE v \in verdicts
      BY <1>2, <2>1 DEF RevokedNeverAccepted
    <2>2. ASSUME NEW h \in DOMAIN handlers, Judged(h, v)
          PROVE  ~v.outdated
      <3>1. /\ handlers[h].pc = "statusServed" /\ Readable(handlers[h]) /\ ~handlers[h].bit
            /\ v.outdated = handlers[h].outdated
        BY <1>2, <2>2 DEF Judged
      <3>2. handlers[h].listKey = handlers[h].vp.key
        BY <3>1 DEF NonceChecked, Matches, Readable
      <3> QED
        BY <3>1, <3>2 DEF OutdatedShows
    <2> QED
      BY <2>1, <2>2, VerdictSteps
  <1> QED
    BY <1>1, <1>2 DEF OutdatedShows, RevokedNeverAccepted
-----------------------------------------------------------------------------
\* Results are only dropped.
ResultsOnlyDropped ==
    /\ UNCHANGED <<delivered, verdicts>>
    /\ \A s \in DOMAIN sessions' :
          \/ sessions'[s].result = "none"
          \/ s \in DOMAIN sessions /\ sessions'[s].result = sessions[s].result

\* A result is put by the end of a handler and taken by a poll.
LEMMA ResultSteps ==
    ASSUME TypeOK, [Next]_vars
    PROVE  \/ ResultsOnlyDropped
           \/ \E id \in Sessions : Poll(id)
           \/ \E h \in DOMAIN handlers, valid \in BOOLEAN : Conclude(h, valid) /\ UNCHANGED delivered
  <1>0. \A s \in DOMAIN sessions : sessions[s] \in Session
    BY DEF TypeOK, IsMap
  <1> USE DEF ResultsOnlyDropped
  <1>1. CASE \E id \in Sessions : CreateRequest(id)
    BY <1>1 DEF CreateRequest, Put
  <1>2. CASE \E id \in Sessions : ResponseExpired(id)
    BY <1>2 DEF ResponseExpired, Del, Restrict
  <1>3. ASSUME NEW id \in Sessions, MarkConsumed(id), UNCHANGED <<delivered, verdicts>>
        PROVE  ResultsOnlyDropped
    BY <1>0, <1>3 DEF MarkConsumed, Session
  <1>4. CASE \E id \in Sessions : ResponseRejected(id)
    BY <1>3, <1>4 DEF ResponseRejected
  <1>5. CASE \E h \in Handlers, id \in Sessions, vp \in VpToken : ResponseStart(h, id, vp)
    BY <1>3, <1>5 DEF ResponseStart
  <1>6. ASSUME NEW h \in Handlers, Proceed(h)
        PROVE  \/ ResultsOnlyDropped
               \/ /\ h \in DOMAIN handlers
                  /\ \E valid \in BOOLEAN : Conclude(h, valid) /\ UNCHANGED delivered
    <2>1. CASE VerifyPresentation(h)
      BY <2>1 DEF VerifyPresentation, At
    <2>2. CASE StatusArrives(h)
      BY <2>2 DEF StatusArrives, At
    <2>3. CASE KeyServed(h) \/ KeyArrives(h) \/ StatusServed(h) \/ HandlerThrows(h)
      BY <2>3 DEF KeyServed, KeyArrives, StatusServed, HandlerThrows
    <2> QED
      BY <1>6, <2>1, <2>2, <2>3 DEF Proceed
  <1>7. CASE (\E idx \in Indices : IssuerRevokes(idx)) \/ IssuerRestarts
    BY <1>7 DEF IssuerRevokes, IssuerRestarts
  <1>8. CASE Sweep
    BY <1>8 DEF Sweep, Unexpired, Restrict
  <1>9. CASE Tick
    BY <1>0, <1>9 DEF Tick, Aged, Session
  <1>10. CASE UNCHANGED vars
    BY <1>10 DEF vars
  <1> QED
    BY <1>1, <1>2, <1>4, <1>5, <1>6, <1>7, <1>8, <1>9, <1>10 DEF Next

\* A result that was read is not put back: its session was judged, so no handler has it.
LEMMA ReadNext ==
    ASSUME TypeOK, OneSubmission, DeliveredJudged, ReadOnce, [Next]_vars
    PROVE  DeliveredJudged' /\ ReadOnce'
  <1>1. CASE ResultsOnlyDropped
    BY <1>1 DEF ResultsOnlyDropped, DeliveredJudged, ReadOnce
  <1>2. ASSUME NEW id \in Sessions, Poll(id)
        PROVE  DeliveredJudged' /\ ReadOnce'
    <2>1. id \in DOMAIN sessions /\ sessions[id] \in Session
      BY <1>2 DEF Poll, TypeOK, IsMap
    <2>2. /\ DOMAIN sessions' = DOMAIN sessions
          /\ sessions'[id].result = "none"
          /\ \A s \in DOMAIN sessions : s # id => sessions'[s] = sessions[s]
          /\ delivered' = delivered \cup {id} /\ verdicts' = verdicts
      BY <1>2, <2>1 DEF Poll, Purged, Session
    <2>3. \E v \in verdicts : v.session = id
      BY <1>2 DEF Poll, ReadOnce
    <2>4. DeliveredJudged'
      BY <2>2, <2>3 DEF DeliveredJudged
    <2> QED
      BY <2>2, <2>4 DEF ReadOnce
  <1>3. ASSUME NEW h \in DOMAIN handlers, NEW valid \in BOOLEAN, Conclude(h, valid),
               UNCHANGED delivered
        PROVE  DeliveredJudged' /\ ReadOnce'
    <2> DEFINE verdict == [session |-> handlers[h].session, vp |-> handlers[h].vp,
                           valid |-> valid, outdated |-> handlers[h].outdated]
    <2>1. PICK id : id = handlers[h].session
      OBVIOUS
    <2>2. /\ verdicts' = verdicts \cup {verdict}
          /\ verdict.session = id /\ (verdict.valid <=> valid)
      BY <1>3, <2>1 DEF Conclude
    <2> HIDE DEF verdict
    <2>3. /\ DOMAIN sessions' = DOMAIN sessions
          /\ \A s \in DOMAIN sessions : s # id => sessions'[s] = sessions[s]
          /\ id \in DOMAIN sessions => sessions'[id].result = ResultOf(valid)
      BY <1>3, <2>1, ConcludeSteps
    <2>4. id \notin delivered
      BY <2>1 DEF DeliveredJudged, OneSubmission
    <2>5. DeliveredJudged'
      BY <1>3, <2>2 DEF DeliveredJudged
    <2>6. \A s \in delivered' \cap DOMAIN sessions' : sessions'[s].result = "none"
      BY <1>3, <2>3, <2>4 DEF ReadOnce
    <2>7. ASSUME NEW s \in DOMAIN sessions', sessions'[s].result # "none"
          PROVE  \E v \in verdicts' : v.session = s /\ (v.valid <=> sessions'[s].result = "valid")
      <3>1. CASE s = id
        <4>1. verdict.valid <=> sessions'[s].result = "valid"
          BY <2>2, <2>3, <2>7, <3>1 DEF ResultOf
        <4> QED
          BY <2>2, <3>1, <4>1
      <3>2. CASE s # id
        BY <2>2, <2>3, <2>7, <3>2 DEF ReadOnce
      <3> QED
        BY <3>1, <3>2
    <2> QED
      BY <2>5, <2>6, <2>7 DEF ReadOnce
  <1> QED
    BY <1>1, <1>2, <1>3, ResultSteps
-----------------------------------------------------------------------------
\* Initially there is nothing to get wrong.
LEMMA InvInit == Init => VerifierInv
  <1> SUFFICES ASSUME Init PROVE VerifierInv
    OBVIOUS
  <1>1. /\ DOMAIN sessions = {} /\ DOMAIN handlers = {}
        /\ verdicts = {} /\ delivered = {} /\ everRevoked = {}
    BY EmptyMapType DEF Init
  <1>2. TypeOK
    BY TypeInit
  <1>3. SubmissionsTaken /\ OneSubmission
    BY <1>1 DEF SubmissionsTaken, OneSubmission
  <1>4. NonceChecked /\ NoReplay
    BY <1>1 DEF NonceChecked, NoReplay
  <1>5. ListComplete /\ OutdatedShows /\ RevokedNeverAccepted
    BY <1>1 DEF ListComplete, OutdatedShows, RevokedNeverAccepted
  <1>6. DeliveredJudged /\ ReadOnce
    BY <1>1 DEF DeliveredJudged, ReadOnce
  <1> QED
    BY <1>2, <1>3, <1>4, <1>5, <1>6 DEF VerifierInv

\* Every step keeps the invariant.
LEMMA InvNext == VerifierInv /\ [Next]_vars => VerifierInv'
  <1> SUFFICES ASSUME VerifierInv, [Next]_vars PROVE VerifierInv'
    OBVIOUS
  <1>1. TypeOK'
    BY TypeNext DEF VerifierInv
  <1>2. DOMAIN sessions \subseteq drawn
    BY DEF VerifierInv, SubmissionsTaken
  <1>3. SubmissionsTaken' /\ OneSubmission'
    BY SubmissionNext DEF VerifierInv
  <1>4. NonceChecked' /\ NoReplay'
    BY <1>2, <1>3, NonceNext DEF VerifierInv
  <1>5. ListComplete'
    BY ListNext DEF VerifierInv
  <1>6. OutdatedShows' /\ RevokedNeverAccepted'
    BY <1>2, OutdatedNext DEF VerifierInv
  <1>7. DeliveredJudged' /\ ReadOnce'
    BY ReadNext DEF VerifierInv
  <1> QED
    BY <1>1, <1>3, <1>4, <1>5, <1>6, <1>7 DEF VerifierInv

\* The inductive invariant holds of the verifier.
THEOREM InvCorrect == Spec => []VerifierInv
  BY InvInit, InvNext, PTL DEF Spec

\* Sessions, suspended handlers, the key cache and the verdicts keep their types.
THEOREM TypeCorrect == Spec => []TypeOK
  <1>1. VerifierInv => TypeOK
    BY DEF VerifierInv
  <1> QED
    BY <1>1, InvCorrect, PTL

\* However many submissions to a session overlap, one is verified.
THEOREM OneSubmissionCorrect == Spec => []OneSubmission
  <1>1. VerifierInv => OneSubmission
    BY DEF VerifierInv
  <1> QED
    BY <1>1, InvCorrect, PTL

\* No presentation is accepted twice, in whatever sessions.
THEOREM NoReplayCorrect == Spec => []NoReplay
  <1>1. VerifierInv => NoReplay
    BY DEF VerifierInv
  <1> QED
    BY <1>1, InvCorrect, PTL

\* No credential that was revoked, or orphaned by a restart of its issuer, before it
\* was submitted is accepted, however stale the cached key and late the fetches.
THEOREM RevokedNeverAcceptedCorrect == Spec => []RevokedNeverAccepted
  <1>1. VerifierInv => RevokedNeverAccepted
    BY DEF VerifierInv
  <1> QED
    BY <1>1, InvCorrect, PTL

\* A result is read at most once and is the verdict of its session.
THEOREM ReadOnceCorrect == Spec => []ReadOnce
  <1>1. VerifierInv => ReadOnce
    BY DEF VerifierInv
  <1> QED
    BY <1>1, InvCorrect, PTL
-----------------------------------------------------------------------------
\* Every session but k that could be answered still can be.
AllAdmitBut(k) == \A s \in Sessions \ {k} : Admits(s) => Admits(s)'

\* A request closes no session but the one it names.
LEMMA RequestsKeep ==
    ASSUME TypeOK, [Next]_vars
    PROVE  (\E k : AllAdmitBut(k)) \/ Sweep \/ Tick
  <1>0. \A s \in DOMAIN sessions : sessions[s] \in Session
    BY DEF TypeOK, IsMap
  <1> USE DEF AllAdmitBut, Admits
  <1>1. ASSUME UNCHANGED sessions PROVE \A k : AllAdmitBut(k)
    BY <1>1
  <1>2. ASSUME NEW id \in Sessions, CreateRequest(id) PROVE AllAdmitBut(id)
    <2>1. /\ DOMAIN sessions' = DOMAIN sessions \cup {id}
          /\ \A s \in DOMAIN sessions : s # id => sessions'[s] = sessions[s]
      BY <1>2 DEF CreateRequest, Put
    <2> QED
      BY <2>1
  <1>3. ASSUME NEW id \in Sessions, ResponseExpired(id) PROVE AllAdmitBut(id)
    BY <1>3 DEF ResponseExpired, Del, Restrict
  <1>4. ASSUME NEW id \in Sessions, MarkConsumed(id) PROVE AllAdmitBut(id)
    BY <1>4 DEF MarkConsumed
  <1>5. ASSUME NEW id \in Sessions, Poll(id) PROVE AllAdmitBut(id)
    BY <1>5 DEF Poll, Purged
  <1>6. ASSUME NEW id \in Sessions, ResponseRejected(id) PROVE AllAdmitBut(id)
    BY <1>4, <1>6 DEF ResponseRejected
  <1>7. ASSUME NEW h \in Handlers, NEW id \in Sessions, NEW vp \in VpToken,
               ResponseStart(h, id, vp)
        PROVE  AllAdmitBut(id)
    BY <1>4, <1>7 DEF ResponseStart
  <1>8. ASSUME NEW h, NEW valid, Conclude(h, valid)
        PROVE  AllAdmitBut(handlers[h].session)
    BY <1>8 DEF Conclude, StoreResult
  <1>9. ASSUME NEW h \in Handlers, Proceed(h)
        PROVE  \E k : AllAdmitBut(k)
    <2>1. UNCHANGED sessions \/ \E valid \in BOOLEAN : Conclude(h, valid)
      BY <1>9 DEF Proceed, KeyServed, KeyArrives, VerifyPresentation, StatusServed,
                  StatusArrives, HandlerThrows
    <2> QED
      BY <1>1, <1>8, <2>1
  <1>10. CASE (\E idx \in Indices : IssuerRevokes(idx)) \/ IssuerRestarts
    BY <1>1, <1>10 DEF IssuerRevokes, IssuerRestarts
  <1>11. CASE UNCHANGED vars
    BY <1>1, <1>11 DEF vars
  <1> QED
    BY <1>2, <1>3, <1>5, <1>6, <1>7, <1>9, <1>10, <1>11 DEF Next

\* A sweep closes no session that could be answered.
LEMMA SweepKeeps ==
    ASSUME Sweep, NEW s, Admits(s)
    PROVE  Admits(s)'
  BY DEF Sweep, Unexpired, Restrict, Admits

\* No sweep and no request for another session closes one that could be answered.
THEOREM OthersKeepTheirSessionsCorrect == Spec => OthersKeepTheirSessions
  <1>1. ASSUME TypeOK, [Next]_vars
        PROVE  [/\ ~Tick => \A s, t \in {x \in Sessions : Admits(x) /\ ~Admits(x)'} : s = t
                /\ Sweep => \A s \in Sessions : Admits(s) => Admits(s)']_vars
    <2>1. ASSUME ~Tick, NEW s \in Sessions, NEW t \in Sessions,
                 Admits(s), ~Admits(s)', Admits(t), ~Admits(t)'
          PROVE  s = t
      <3>1. CASE Sweep
        BY <2>1, <3>1, SweepKeeps
      <3>2. ASSUME NEW k, AllAdmitBut(k) PROVE s = t
        BY <2>1, <3>2 DEF AllAdmitBut
      <3> QED
        BY <1>1, <2>1, <3>1, <3>2, RequestsKeep
    <2> QED
      BY <2>1, SweepKeeps
  <1> QED
    BY <1>1, TypeCorrect, PTL DEF Spec, OthersKeepTheirSessions
-----------------------------------------------------------------------------
(***************************************************************************)
(* The verifier implements the one-shot session: every step of the         *)
(* verifier is a step of OneShotSession or leaves it alone.                *)
(***************************************************************************)

\* A submission to session s is under way; one was judged with this outcome.
Pending(s) == \E h \in DOMAIN handlers : handlers[h].session = s
Judgement(s, valid) == \E v \in verdicts : v.session = s /\ (v.valid <=> valid)

\* The judgement of a session, read off its handler and its verdict.
LEMMA JudgementIs ==
    ASSUME OneSubmission, NEW s
    PROVE  /\ Pending(s) => JudgementOf(s) = "pending"
           /\ Judgement(s, TRUE) => JudgementOf(s) = "valid"
           /\ Judgement(s, FALSE) => JudgementOf(s) = "invalid"
           /\ ~Pending(s) /\ ~Judgement(s, TRUE) /\ ~Judgement(s, FALSE) =>
                 JudgementOf(s) = "none"
  <1>1. Pending(s) => ~Judgement(s, TRUE) /\ ~Judgement(s, FALSE)
    BY DEF OneSubmission, Pending, Judgement
  <1>2. Judgement(s, TRUE) => ~Judgement(s, FALSE)
    BY DEF OneSubmission, Judgement
  <1> QED
    BY <1>1, <1>2 DEF JudgementOf, Pending, Judgement

\* The same after a step.
LEMMA JudgementIsNext ==
    ASSUME OneSubmission', NEW s
    PROVE  /\ Pending(s)' => JudgementOf(s)' = "pending"
           /\ Judgement(s, TRUE)' => JudgementOf(s)' = "valid"
           /\ Judgement(s, FALSE)' => JudgementOf(s)' = "invalid"
           /\ ~Pending(s)' /\ ~Judgement(s, TRUE)' /\ ~Judgement(s, FALSE)' =>
                 JudgementOf(s)' = "none"
  <1>1. Pending(s)' => ~Judgement(s, TRUE)' /\ ~Judgement(s, FALSE)'
    BY DEF OneSubmission, Pending, Judgement
  <1>2. Judgement(s, TRUE)' => ~Judgement(s, FALSE)'
    BY DEF OneSubmission, Judgement
  <1> QED
    BY <1>1, <1>2 DEF JudgementOf, Pending, Judgement

\* It changes only with them.
LEMMA JudgementStays ==
    ASSUME OneSubmission, OneSubmission', NEW s, Pending(s)' <=> Pending(s),
           verdicts' = verdicts
    PROVE  JudgementOf(s)' = JudgementOf(s)
  <1>1. /\ Judgement(s, TRUE)' <=> Judgement(s, TRUE)
        /\ Judgement(s, FALSE)' <=> Judgement(s, FALSE)
    BY DEF Judgement
  <1> QED
    BY <1>1, JudgementIs, JudgementIsNext DEF Pending, Judgement

\* The mailbox of a session, read off the store and the results delivered.
LEMMA MailboxIs ==
    ASSUME TypeOK, DOMAIN sessions \subseteq drawn, NEW s
    PROVE  /\ s \notin drawn => MailboxOf(s) = "unopened"
           /\ s \in drawn \ DOMAIN sessions => MailboxOf(s) = "closed"
           /\ s \in DOMAIN sessions =>
                 /\ ~sessions[s].consumed => MailboxOf(s) = "open"
                 /\ sessions[s].consumed =>
                       MailboxOf(s) = IF s \in delivered THEN "read"
                                      ELSE IF sessions[s].result = "none" THEN "taken" ELSE "full"
  <1>1. s \in DOMAIN sessions => s \in drawn /\ sessions[s].consumed \in BOOLEAN
    BY DEF TypeOK, IsMap, Session
  <1> QED
    BY <1>1 DEF MailboxOf

\* The same after a step.
LEMMA MailboxIsNext ==
    ASSUME TypeOK', DOMAIN sessions' \subseteq drawn', NEW s
    PROVE  /\ s \notin drawn' => MailboxOf(s)' = "unopened"
           /\ s \in drawn' \ DOMAIN sessions' => MailboxOf(s)' = "closed"
           /\ s \in DOMAIN sessions' =>
                 /\ ~sessions'[s].consumed => MailboxOf(s)' = "open"
                 /\ sessions'[s].consumed =>
                       MailboxOf(s)' = IF s \in delivered' THEN "read"
                                       ELSE IF sessions'[s].result = "none" THEN "taken" ELSE "full"
  <1>1. s \in DOMAIN sessions' => s \in drawn' /\ sessions'[s].consumed \in BOOLEAN
    BY DEF TypeOK, IsMap, Session
  <1> QED
    BY <1>1 DEF MailboxOf

\* It changes only with what it is read off.
LEMMA MailboxStays ==
    ASSUME TypeOK, TypeOK', DOMAIN sessions \subseteq drawn, DOMAIN sessions' \subseteq drawn',
           NEW s, s \in drawn' <=> s \in drawn, s \in delivered' <=> s \in delivered,
           s \in DOMAIN sessions' <=> s \in DOMAIN sessions,
           s \in DOMAIN sessions =>
              /\ sessions'[s].consumed = sessions[s].consumed
              /\ sessions'[s].result = sessions[s].result
    PROVE  MailboxOf(s)' = MailboxOf(s)
  BY MailboxIs, MailboxIsNext

\* What the invariant says of one session.
LEMMA SessionFacts ==
    ASSUME VerifierInv
    PROVE  /\ TypeOK /\ OneSubmission /\ DOMAIN sessions \subseteq drawn
           /\ \A s \in DOMAIN sessions : sessions[s] \in Session
           /\ \A s \in DOMAIN sessions : s \in delivered => sessions[s].result = "none"
           /\ \A s \in DOMAIN sessions :
                 s \in delivered \/ sessions[s].result # "none" => sessions[s].consumed
           /\ \A h \in DOMAIN handlers :
                 LET s == handlers[h].session
                 IN  /\ s \in drawn /\ s \notin delivered
                     /\ s \in DOMAIN sessions => sessions[s].consumed /\ sessions[s].result = "none"
  <1>1. /\ TypeOK /\ OneSubmission /\ SubmissionsTaken /\ ReadOnce /\ DeliveredJudged
    BY DEF VerifierInv
  <1>2. \A s \in DOMAIN sessions : sessions[s] \in Session
    BY <1>1 DEF TypeOK, IsMap
  <1>3. DOMAIN sessions \subseteq drawn
    BY <1>1 DEF SubmissionsTaken
  <1>4. \A s \in DOMAIN sessions : s \in delivered => sessions[s].result = "none"
    BY <1>1 DEF ReadOnce
  <1>5. ASSUME NEW s \in DOMAIN sessions, s \in delivered \/ sessions[s].result # "none"
        PROVE  sessions[s].consumed
    <2>1. \E v \in verdicts : v.session = s
      BY <1>1, <1>5 DEF ReadOnce, DeliveredJudged
    <2> QED
      BY <1>1, <2>1 DEF SubmissionsTaken, Taken
  <1>6. ASSUME NEW h \in DOMAIN handlers, NEW s, s = handlers[h].session
        PROVE  /\ s \in drawn /\ s \notin delivered
               /\ s \in DOMAIN sessions => sessions[s].consumed /\ sessions[s].result = "none"
    <2>1. Taken(s)
      BY <1>1, <1>6 DEF SubmissionsTaken
    <2>2. \A v \in verdicts : v.session # s
      BY <1>1, <1>6 DEF OneSubmission
    <2>3. s \notin delivered
      BY <1>1, <2>2 DEF DeliveredJudged
    <2>4. s \in DOMAIN sessions => sessions[s].result = "none"
      BY <1>1, <2>2 DEF ReadOnce
    <2> QED
      BY <2>1, <2>3, <2>4 DEF Taken
  <1> QED
    BY <1>1, <1>2, <1>3, <1>4, <1>5, <1>6

\* The mapped variables, as functions.
JudgementsKept == \A s \in Sessions : JudgementOf(s)' = JudgementOf(s)
MailboxesKeptBut(id) == \A s \in Sessions \ {id} : MailboxOf(s)' = MailboxOf(s)

\* Steps that leave the handlers' sessions and the verdicts alone keep every judgement.
LEMMA JudgementsStay ==
    ASSUME OneSubmission, OneSubmission', verdicts' = verdicts,
           DOMAIN handlers' = DOMAIN handlers,
           \A h \in DOMAIN handlers : handlers'[h].session = handlers[h].session
    PROVE  JudgementsKept
  <1>1. \A s \in Sessions : Pending(s)' <=> Pending(s)
    BY DEF Pending
  <1> QED
    BY <1>1, JudgementStays DEF JudgementsKept

\* Steps that leave every session but one alone keep every mailbox but one.
LEMMA MailboxesStay ==
    ASSUME VerifierInv, VerifierInv', NEW id, delivered' \ {id} = delivered \ {id},
           drawn' \ {id} = drawn \ {id},
           DOMAIN sessions' \ {id} = DOMAIN sessions \ {id},
           \A s \in DOMAIN sessions \ {id} :
              /\ sessions'[s].consumed = sessions[s].consumed
              /\ sessions'[s].result = sessions[s].result
    PROVE  MailboxesKeptBut(id)
  <1>1. /\ TypeOK /\ DOMAIN sessions \subseteq drawn
        /\ TypeOK' /\ DOMAIN sessions' \subseteq drawn'
    BY DEF VerifierInv, SubmissionsTaken
  <1>2. ASSUME NEW s \in Sessions \ {id} PROVE MailboxOf(s)' = MailboxOf(s)
    BY <1>1, MailboxStays
  <1> QED
    BY <1>2 DEF MailboxesKeptBut

\* A request opens the mailbox of its session.
LEMMA OpenStep ==
    ASSUME VerifierInv, VerifierInv', NEW id \in Sessions, CreateRequest(id)
    PROVE  OneShot!Open(id)
  <1>1. /\ id \notin drawn /\ drawn' = drawn \cup {id}
        /\ DOMAIN sessions' = DOMAIN sessions \cup {id}
        /\ sessions'[id].consumed = FALSE
        /\ \A s \in DOMAIN sessions : s # id => sessions'[s] = sessions[s]
        /\ UNCHANGED <<handlers, verdicts, delivered>>
    BY DEF CreateRequest, Put
  <1>2. JudgementsKept
    BY <1>1, JudgementsStay DEF VerifierInv
  <1>3. MailboxesKeptBut(id)
    BY <1>1, MailboxesStay
  <1>4. MailboxOf(id) = "unopened" /\ MailboxOf(id)' = "open"
    BY <1>1, MailboxIs, MailboxIsNext DEF VerifierInv, SubmissionsTaken
  <1> QED
    BY <1>2, <1>3, <1>4 DEF OneShot!Open, JudgementsKept, MailboxesKeptBut

\* A submission is admitted, to be verified or to be rejected at once.
LEMMA AdmitStep ==
    ASSUME VerifierInv, VerifierInv', NEW id \in Sessions, Admits(id), MarkConsumed(id),
           UNCHANGED <<drawn, verdicts, delivered>>,
           \/ handlers' = handlers
           \/ \E h : /\ h \notin DOMAIN handlers
                     /\ DOMAIN handlers' = DOMAIN handlers \cup {h}
                     /\ handlers'[h].session = id
                     /\ \A g \in DOMAIN handlers : handlers'[g] = handlers[g]
    PROVE  OneShot!Admit(id)
  <1>1. /\ id \in DOMAIN sessions /\ ~sessions[id].consumed /\ sessions[id] \in Session
        /\ id \notin delivered /\ sessions[id].result = "none"
    BY SessionFacts DEF Admits
  <1>2. /\ DOMAIN sessions' = DOMAIN sessions
        /\ sessions'[id].consumed = TRUE /\ sessions'[id].result = "none"
        /\ \A s \in DOMAIN sessions : s # id => sessions'[s] = sessions[s]
    BY <1>1 DEF MarkConsumed, Session
  <1>3. MailboxesKeptBut(id)
    BY <1>2, MailboxesStay
  <1>4. MailboxOf(id) = "open" /\ MailboxOf(id)' = "taken"
    BY <1>1, <1>2, MailboxIs, MailboxIsNext DEF VerifierInv, SubmissionsTaken
  <1>5. CASE handlers' = handlers
    <2>1. JudgementsKept
      BY <1>5, JudgementsStay DEF VerifierInv
    <2> QED
      BY <1>3, <1>4, <2>1 DEF OneShot!Admit, JudgementsKept, MailboxesKeptBut
  <1>6. ASSUME NEW h, h \notin DOMAIN handlers,
               DOMAIN handlers' = DOMAIN handlers \cup {h}, handlers'[h].session = id,
               \A g \in DOMAIN handlers : handlers'[g] = handlers[g]
        PROVE  OneShot!Admit(id)
    <2>1. Pending(id)'
      BY <1>6 DEF Pending
    <2>2. JudgementOf(id)' = "pending"
      BY <2>1, JudgementIsNext DEF VerifierInv
    <2>3. ASSUME NEW s \in Sessions, s # id PROVE JudgementOf(s)' = JudgementOf(s)
      <3>1. Pending(s)' <=> Pending(s)
        BY <1>6, <2>3 DEF Pending
      <3> QED
        BY <3>1, JudgementStays DEF VerifierInv
    <2> QED
      BY <1>3, <1>4, <2>2, <2>3 DEF OneShot!Admit, MailboxesKeptBut
  <1> QED
    BY <1>5, <1>6

\* The end of a handler judges its submission.
LEMMA JudgeStep ==
    ASSUME VerifierInv, VerifierInv', NEW h \in DOMAIN handlers, NEW valid \in BOOLEAN,
           Conclude(h, valid), UNCHANGED <<drawn, delivered>>
    PROVE  OneShot!Judge(handlers[h].session)
  <1>0. PICK id : id = handlers[h].session
    OBVIOUS
  <1>1. /\ id \in Sessions /\ id \in drawn /\ id \notin delivered
        /\ id \in DOMAIN sessions => sessions[id].consumed /\ sessions[id].result = "none"
    BY <1>0, SessionFacts DEF TypeOK
  <1>2. /\ DOMAIN sessions' = DOMAIN sessions
        /\ \A s \in DOMAIN sessions : sessions'[s].consumed = sessions[s].consumed
        /\ \A s \in DOMAIN sessions : s # id => sessions'[s] = sessions[s]
        /\ id \in DOMAIN sessions => sessions'[id].result = ResultOf(valid)
        /\ DOMAIN handlers' = DOMAIN handlers \ {h}
        /\ \A g \in DOMAIN handlers' : handlers'[g] = handlers[g]
    BY <1>0, ConcludeSteps DEF VerifierInv
  <1> DEFINE verdict == [session |-> id, vp |-> handlers[h].vp,
                         valid |-> valid, outdated |-> handlers[h].outdated]
  <1>3. /\ verdicts' = verdicts \cup {verdict}
        /\ verdict.session = id /\ (verdict.valid <=> valid)
    BY <1>0 DEF Conclude
  <1> HIDE DEF verdict
  <1>4. JudgementOf(id) = "pending"
    <2>1. Pending(id)
      BY <1>0 DEF Pending
    <2> QED
      BY <2>1, JudgementIs DEF VerifierInv
  <1>5. JudgementOf(id)' \in {"valid", "invalid"}
    <2>1. CASE valid
      <3>1. Judgement(id, TRUE)'
        BY <1>3, <2>1 DEF Judgement
      <3> QED
        BY <3>1, JudgementIsNext DEF VerifierInv
    <2>2. CASE ~valid
      <3>1. Judgement(id, FALSE)'
        BY <1>3, <2>2 DEF Judgement
      <3> QED
        BY <3>1, JudgementIsNext DEF VerifierInv
    <2> QED
      BY <2>1, <2>2
  <1>6. ASSUME NEW s \in Sessions, s # id PROVE JudgementOf(s)' = JudgementOf(s)
    <2>1. Pending(s)' <=> Pending(s)
      BY <1>0, <1>2, <1>6 DEF Pending
    <2>2. /\ Judgement(s, TRUE)' <=> Judgement(s, TRUE)
          /\ Judgement(s, FALSE)' <=> Judgement(s, FALSE)
      BY <1>3, <1>6 DEF Judgement
    <2> QED
      BY <2>1, <2>2, JudgementIs, JudgementIsNext DEF VerifierInv, Pending, Judgement
  <1>7. MailboxesKeptBut(id)
    BY <1>2, MailboxesStay
  <1>8. MailboxOf(id)' = IF MailboxOf(id) = "closed" THEN "closed" ELSE "full"
    <2>1. CASE id \in DOMAIN sessions
      <3>1. MailboxOf(id) = "taken"
        BY <1>1, <2>1, MailboxIs DEF VerifierInv, SubmissionsTaken
      <3>2. sessions'[id].consumed /\ sessions'[id].result # "none"
        BY <1>1, <1>2, <2>1 DEF ResultOf
      <3>3. MailboxOf(id)' = "full"
        BY <1>1, <1>2, <2>1, <3>2, MailboxIsNext DEF VerifierInv, SubmissionsTaken
      <3> QED
        BY <3>1, <3>3
    <2>2. CASE id \notin DOMAIN sessions
      BY <1>1, <1>2, <2>2, MailboxIs, MailboxIsNext DEF VerifierInv, SubmissionsTaken
    <2> QED
      BY <2>1, <2>2
  <1> DEFINE J == [s \in Sessions |-> JudgementOf(s)]
             M == [s \in Sessions |-> MailboxOf(s)]
  <1>9. J[id] = "pending" /\ M[id] = MailboxOf(id)
    BY <1>1, <1>4
  <1>10. J' = [J EXCEPT ![id] = JudgementOf(id)']
    BY <1>1, <1>6
  <1>11. M' = [M EXCEPT ![id] = IF M[id] = "closed" THEN M[id] ELSE "full"]
    BY <1>1, <1>7, <1>8 DEF MailboxesKeptBut
  <1> QED
    BY <1>0, <1>5, <1>9, <1>10, <1>11 DEF OneShot!Judge

\* A handler that throws gives its submission up.
LEMMA FailStep ==
    ASSUME VerifierInv, VerifierInv', NEW h \in DOMAIN handlers, HandlerThrows(h)
    PROVE  OneShot!Fail(handlers[h].session)
  <1>0. PICK id : id = handlers[h].session
    OBVIOUS
  <1>1. /\ id \in Sessions
        /\ DOMAIN handlers' = DOMAIN handlers \ {h}
        /\ \A g \in DOMAIN handlers' : handlers'[g] = handlers[g]
        /\ UNCHANGED <<drawn, sessions, verdicts, delivered>>
    BY <1>0, SessionFacts DEF HandlerThrows, Del, Restrict, TypeOK
  <1>2. Pending(id) /\ ~Pending(id)'
    BY <1>0, <1>1 DEF Pending, VerifierInv, OneSubmission
  <1>3. ~Judgement(id, TRUE)' /\ ~Judgement(id, FALSE)'
    BY <1>0, <1>1 DEF Judgement, VerifierInv, OneSubmission
  <1>4. JudgementOf(id) = "pending" /\ JudgementOf(id)' = "none"
    BY <1>2, <1>3, JudgementIs, JudgementIsNext DEF VerifierInv
  <1>5. ASSUME NEW s \in Sessions, s # id PROVE JudgementOf(s)' = JudgementOf(s)
    <2>1. Pending(s)' <=> Pending(s)
      BY <1>0, <1>1, <1>5 DEF Pending
    <2> QED
      BY <1>1, <2>1, JudgementStays DEF VerifierInv
  <1>6. \A s \in Sessions : MailboxOf(s)' = MailboxOf(s)
    BY <1>1 DEF MailboxOf
  <1> QED
    BY <1>0, <1>1, <1>4, <1>5, <1>6 DEF OneShot!Fail

\* A poll reads the mailbox.
LEMMA ReadStep ==
    ASSUME VerifierInv, VerifierInv', NEW id \in Sessions, Poll(id)
    PROVE  OneShot!Read(id)
  <1>1. /\ id \in DOMAIN sessions /\ sessions[id] \in Session /\ sessions[id].consumed
        /\ sessions[id].result # "none" /\ id \notin delivered
    BY SessionFacts DEF Poll
  <1>2. /\ DOMAIN sessions' = DOMAIN sessions
        /\ sessions'[id].consumed
        /\ \A s \in DOMAIN sessions : s # id => sessions'[s] = sessions[s]
        /\ delivered' = delivered \cup {id}
        /\ UNCHANGED <<drawn, handlers, verdicts>>
    BY <1>1 DEF Poll, Purged, Session
  <1>3. MailboxesKeptBut(id)
    BY <1>2, MailboxesStay
  <1>4. MailboxOf(id) = "full" /\ MailboxOf(id)' = "read"
    BY <1>1, <1>2, MailboxIs, MailboxIsNext DEF VerifierInv, SubmissionsTaken
  <1>5. JudgementsKept
    BY <1>2, JudgementsStay DEF VerifierInv
  <1> QED
    BY <1>3, <1>4, <1>5 DEF OneShot!Read, JudgementsKept, MailboxesKeptBut

\* Dropping sessions from the store closes their mailboxes.
LEMMA CloseStep ==
    ASSUME VerifierInv, VerifierInv', NEW S \in SUBSET Sessions,
           sessions' = Restrict(sessions, DOMAIN sessions \ S), S \subseteq DOMAIN sessions,
           UNCHANGED <<drawn, handlers, verdicts, delivered>>
    PROVE  OneShot!Close(S)
  <1>1. /\ DOMAIN sessions' = DOMAIN sessions \ S
        /\ \A s \in DOMAIN sessions' : sessions'[s] = sessions[s]
    BY DEF Restrict
  <1>2. /\ TypeOK /\ DOMAIN sessions \subseteq drawn
        /\ TypeOK' /\ DOMAIN sessions' \subseteq drawn'
    BY DEF VerifierInv, SubmissionsTaken
  <1>3. ASSUME NEW s \in S
        PROVE  MailboxOf(s) \in {"open", "taken", "full", "read"} /\ MailboxOf(s)' = "closed"
    <2>1. sessions[s].consumed \in BOOLEAN
      BY <1>2 DEF TypeOK, IsMap, Session
    <2> QED
      BY <1>1, <1>2, <1>3, <2>1, MailboxIs, MailboxIsNext
  <1>4. ASSUME NEW s \in Sessions \ S PROVE MailboxOf(s)' = MailboxOf(s)
    BY <1>1, <1>2, MailboxStays
  <1>5. JudgementsKept
    BY JudgementsStay DEF VerifierInv
  <1> QED
    BY <1>3, <1>4, <1>5 DEF OneShot!Close, JudgementsKept

\* Steps that leave what the mapping reads alone are stutters.
LEMMA StutterStep ==
    ASSUME VerifierInv, VerifierInv', UNCHANGED <<drawn, verdicts, delivered>>,
           DOMAIN handlers' = DOMAIN handlers,
           \A h \in DOMAIN handlers : handlers'[h].session = handlers[h].session,
           DOMAIN sessions' = DOMAIN sessions,
           \A s \in DOMAIN sessions :
              /\ sessions'[s].consumed = sessions[s].consumed
              /\ sessions'[s].result = sessions[s].result
    PROVE  UNCHANGED OneShot!vars
  <1>1. JudgementsKept
    BY JudgementsStay DEF VerifierInv
  <1>2. \A s \in Sessions : MailboxOf(s)' = MailboxOf(s)
    BY MailboxStays DEF VerifierInv, SubmissionsTaken
  <1> QED
    BY <1>1, <1>2 DEF OneShot!vars, JudgementsKept

\* What the endpoints do to a session: the request opens, the response admits, or finds
\* it too old, and only polling reads.
SessionDoes(id) ==
    /\ CreateRequest(id) => OneShot!Open(id)
    /\ ResponseExpired(id) => OneShot!Close({id})
    /\ ResponseRejected(id) => OneShot!Admit(id)
    /\ (\E h \in Handlers, vp \in VpToken : ResponseStart(h, id, vp)) => OneShot!Admit(id)
    /\ Poll(id) => OneShot!Read(id)

\* What a suspended handler does to its session.
HandlerDoes(h) ==
    /\ HandlerThrows(h) => OneShot!Fail(handlers[h].session)
    /\ KeyServed(h) \/ KeyArrives(h) \/ StatusServed(h) => UNCHANGED OneShot!vars
    /\ VerifyPresentation(h) => OneShot!Judge(handlers[h].session) \/ UNCHANGED OneShot!vars
    /\ StatusArrives(h) => OneShot!Judge(handlers[h].session)

\* What happens without a request.
OthersDo ==
    /\ Sweep => \E S \in SUBSET Sessions : OneShot!Close(S)
    /\ (\E idx \in Indices : IssuerRevokes(idx)) \/ IssuerRestarts \/ Tick =>
           UNCHANGED OneShot!vars

\* Each endpoint, handler and timer takes its own step of a session and no other.
EndpointsTakeTheirStep ==
    [][/\ \A id \in Sessions : SessionDoes(id)
       /\ \A h \in Handlers : HandlerDoes(h)
       /\ OthersDo]_vars

\* The requests.
LEMMA SessionSteps ==
    ASSUME VerifierInv, VerifierInv', NEW id \in Sessions
    PROVE  SessionDoes(id)
  <1>1. CreateRequest(id) => OneShot!Open(id)
    BY OpenStep
  <1>2. ResponseExpired(id) => OneShot!Close({id})
    BY CloseStep DEF ResponseExpired, Del
  <1>3. ResponseRejected(id) => OneShot!Admit(id)
    BY AdmitStep DEF ResponseRejected
  <1>4. ASSUME NEW h \in Handlers, NEW vp \in VpToken, ResponseStart(h, id, vp)
        PROVE  OneShot!Admit(id)
    <2>1. /\ Admits(id) /\ MarkConsumed(id) /\ h \notin DOMAIN handlers
          /\ DOMAIN handlers' = DOMAIN handlers \cup {h}
          /\ handlers'[h].session = id
          /\ \A g \in DOMAIN handlers : handlers'[g] = handlers[g]
          /\ UNCHANGED <<drawn, verdicts, delivered>>
      BY <1>4 DEF ResponseStart, Put
    <2> QED
      BY <2>1, AdmitStep
  <1>5. Poll(id) => OneShot!Read(id)
    BY ReadStep
  <1> QED
    BY <1>1, <1>2, <1>3, <1>4, <1>5 DEF SessionDoes

\* The handlers.
LEMMA ActivationSteps ==
    ASSUME VerifierInv, VerifierInv', NEW h \in Handlers
    PROVE  HandlerDoes(h)
  <1>0. \A g \in DOMAIN handlers : handlers[g] \in Activation
    BY DEF VerifierInv, TypeOK, IsMap
  <1>1. ASSUME h \in DOMAIN handlers, NEW valid \in BOOLEAN, Conclude(h, valid),
               UNCHANGED <<drawn, delivered>>
        PROVE  OneShot!Judge(handlers[h].session)
    BY <1>0, <1>1, JudgeStep DEF Activation
  <1>2. HandlerThrows(h) => OneShot!Fail(handlers[h].session)
    BY FailStep DEF HandlerThrows
  <1>3. ASSUME h \in DOMAIN handlers, UNCHANGED <<drawn, sessions, verdicts, delivered>>,
               DOMAIN handlers' = DOMAIN handlers,
               \A g \in DOMAIN handlers : handlers'[g].session = handlers[g].session
        PROVE  UNCHANGED OneShot!vars
    BY <1>3, StutterStep
  <1>4. KeyServed(h) => UNCHANGED OneShot!vars
    BY <1>0, <1>3 DEF KeyServed, At, Activation
  <1>5. KeyArrives(h) => UNCHANGED OneShot!vars
    BY <1>0, <1>3 DEF KeyArrives, At, Activation
  <1>6. StatusServed(h) => UNCHANGED OneShot!vars
    BY <1>0, <1>3 DEF StatusServed, At, Activation
  <1>7. ASSUME VerifyPresentation(h)
        PROVE  OneShot!Judge(handlers[h].session) \/ UNCHANGED OneShot!vars
    <2>1. h \in DOMAIN handlers /\ UNCHANGED <<drawn, delivered>>
      BY <1>7 DEF VerifyPresentation, At
    <2>2. CASE \E valid \in BOOLEAN : Conclude(h, valid)
      BY <1>1, <2>1, <2>2
    <2>3. CASE /\ handlers' = [handlers EXCEPT ![h].pc = "fetchingStatus"]
               /\ UNCHANGED <<sessions, verdicts>>
      BY <1>0, <1>3, <2>1, <2>3 DEF Activation
    <2> QED
      BY <1>7, <2>2, <2>3 DEF VerifyPresentation
  <1>8. ASSUME StatusArrives(h) PROVE OneShot!Judge(handlers[h].session)
    <2>1. /\ h \in DOMAIN handlers /\ UNCHANGED <<drawn, delivered>>
          /\ \E valid \in BOOLEAN : Conclude(h, valid)
      BY <1>8 DEF StatusArrives, At
    <2> QED
      BY <1>1, <2>1
  <1> QED
    BY <1>2, <1>4, <1>5, <1>6, <1>7, <1>8 DEF HandlerDoes

\* The sweep, the issuer and the clock.
LEMMA OtherSteps ==
    ASSUME VerifierInv, VerifierInv'
    PROVE  OthersDo
  <1>0. /\ \A s \in DOMAIN sessions : sessions[s] \in Session
        /\ DOMAIN sessions \subseteq Sessions
    BY DEF VerifierInv, TypeOK, IsMap
  <1>1. ASSUME Sweep PROVE \E S \in SUBSET Sessions : OneShot!Close(S)
    <2>1. PICK S : S = DOMAIN sessions \ Unexpired
      OBVIOUS
    <2>2. sessions' = Restrict(sessions, DOMAIN sessions \ S)
      <3>1. DOMAIN sessions \ S = Unexpired
        BY <2>1 DEF Unexpired
      <3> QED
        BY <1>1, <3>1 DEF Sweep
    <2> QED
      BY <1>0, <1>1, <2>1, <2>2, CloseStep DEF Sweep
  <1>2. (\E idx \in Indices : IssuerRevokes(idx)) \/ IssuerRestarts => UNCHANGED OneShot!vars
    BY StutterStep DEF IssuerRevokes, IssuerRestarts
  <1>3. ASSUME Tick PROVE UNCHANGED OneShot!vars
    <2>1. /\ DOMAIN sessions' = DOMAIN sessions
          /\ \A s \in DOMAIN sessions :
                /\ sessions'[s].consumed = sessions[s].consumed
                /\ sessions'[s].result = sessions[s].result
          /\ UNCHANGED <<drawn, handlers, verdicts, delivered>>
      BY <1>0, <1>3 DEF Tick, Aged, Session
    <2> QED
      BY <2>1, StutterStep
  <1> QED
    BY <1>1, <1>2, <1>3 DEF OthersDo

\* Every endpoint keeps to its step, for any number of sessions and overlapping handlers:
\* what the model of the system takes a request to the verifier to do.
THEOREM EndpointsTakeTheirStepCorrect == Spec => EndpointsTakeTheirStep
  <1>1. ASSUME VerifierInv, VerifierInv'
        PROVE  /\ \A id \in Sessions : SessionDoes(id)
               /\ \A h \in Handlers : HandlerDoes(h)
               /\ OthersDo
    BY <1>1, SessionSteps, ActivationSteps, OtherSteps
  <1> QED
    BY <1>1, InvCorrect, PTL DEF Spec, EndpointsTakeTheirStep

\* Every step of the verifier is one of the one-shot session.
LEMMA StepRefines ==
    ASSUME VerifierInv, VerifierInv', [Next]_vars
    PROVE  OneShot!Next \/ UNCHANGED OneShot!vars
  <1>0. \A h \in DOMAIN handlers : handlers[h].session \in Sessions
    BY DEF VerifierInv, TypeOK, IsMap, Activation
  <1>1. ASSUME NEW id \in Sessions,
               \/ CreateRequest(id) \/ ResponseExpired(id) \/ ResponseRejected(id) \/ Poll(id)
               \/ \E h \in Handlers, vp \in VpToken : ResponseStart(h, id, vp)
        PROVE  OneShot!Next
    <2>1. OneShot!Open(id) \/ OneShot!Close({id}) \/ OneShot!Admit(id) \/ OneShot!Read(id)
      BY <1>1, SessionSteps DEF SessionDoes
    <2> QED
      BY <2>1 DEF OneShot!Next
  <1>2. ASSUME NEW h \in Handlers, Proceed(h)
        PROVE  OneShot!Next \/ UNCHANGED OneShot!vars
    <2>1. handlers[h].session \in Sessions
      BY <1>0, <1>2 DEF Proceed, KeyServed, KeyArrives, VerifyPresentation, StatusServed,
                        StatusArrives, HandlerThrows, At
    <2>2. \/ OneShot!Judge(handlers[h].session) \/ OneShot!Fail(handlers[h].session)
          \/ UNCHANGED OneShot!vars
      BY <1>2, ActivationSteps DEF HandlerDoes, Proceed
    <2> QED
      BY <2>1, <2>2 DEF OneShot!Next
  <1>3. CASE (\E idx \in Indices : IssuerRevokes(idx)) \/ IssuerRestarts \/ Sweep \/ Tick
    BY <1>3, OtherSteps DEF OthersDo, OneShot!Next
  <1>4. CASE UNCHANGED vars
    BY <1>4, StutterStep DEF vars
  <1> QED
    BY <1>1, <1>2, <1>3, <1>4 DEF Next

\* The initial states correspond.
LEMMA InitRefines ==
    ASSUME Init
    PROVE  OneShot!Init
  <1>1. drawn = {} /\ DOMAIN handlers = {} /\ verdicts = {} /\ DOMAIN sessions = {}
    BY EmptyMapType DEF Init
  <1>2. \A s \in Sessions : JudgementOf(s) = "none"
    BY <1>1 DEF JudgementOf
  <1>3. \A s \in Sessions : MailboxOf(s) = "unopened"
    BY <1>1 DEF MailboxOf
  <1> QED
    BY <1>2, <1>3 DEF OneShot!Init

\* A presentation session takes one submission, is judged at most once and read at most
\* once, for any number of sessions, overlapping handlers, revocations and restarts.
THEOREM Refines == Spec => ImplementsOneShotSession
  <1>1. Init => OneShot!Init
    BY InitRefines
  <1>2. VerifierInv /\ VerifierInv' /\ [Next]_vars => [OneShot!Next]_(OneShot!vars)
    BY StepRefines
  <1> QED
    BY <1>1, <1>2, InvCorrect, PTL DEF Spec, ImplementsOneShotSession, OneShot!Spec
-----------------------------------------------------------------------------
(***************************************************************************)
(* A key that the issuer has given up: what brings it into the cache, and  *)
(* how long it can stay there.                                             *)
(***************************************************************************)

\* The handlers that were served a key which is no longer the issuer's.
Bringers ==
    {h \in DOMAIN handlers : handlers[h].pc = "keyServed" /\ handlers[h].issuerKey # issuerKey}

StaleCached == TheIssuer \in DOMAIN cache /\ cache[TheIssuer].key # issuerKey

\* While the issuer does not restart, no handler comes to hold a stale key, and such a key
\* gets into the cache, or is renewed there, only by using up one that holds it.  A stale
\* key thus ages, and comes back no more often than handlers were suspended with it.
StaleKeysDwindle ==
    [][issuerKey' = issuerKey =>
          /\ Bringers' \subseteq Bringers
          /\ StaleCached' => \/ Bringers' # Bringers
                             \/ /\ StaleCached
                                /\ cache'[TheIssuer].key = cache[TheIssuer].key
                                /\ cache'[TheIssuer].age >= cache[TheIssuer].age]_vars

\* Only the two steps of a fetch change which handlers hold a key just served, and only
\* the second puts it into the cache; else the cache ages, or stays.
LEMMA KeySteps ==
    ASSUME TypeOK, [Next]_vars
    PROVE  \/ \E h \in Handlers : KeyServed(h)
           \/ \E h \in Handlers : KeyArrives(h)
           \/ /\ \A h \in DOMAIN handlers' :
                    handlers'[h].pc = "keyServed" =>
                        h \in DOMAIN handlers /\ handlers'[h] = handlers[h]
              /\ cache' = cache \/ cache' = Aged(cache, TRUST_CACHE_TTL)
  <1>0. \A h \in DOMAIN handlers : handlers[h] \in Activation
    BY DEF TypeOK, IsMap
  <1> DEFINE Kept == \A h \in DOMAIN handlers' :
                        handlers'[h].pc = "keyServed" =>
                            h \in DOMAIN handlers /\ handlers'[h] = handlers[h]
  <1>1. ASSUME handlers' = handlers PROVE Kept
    BY <1>1
  <1>2. CASE \E id \in Sessions :
                CreateRequest(id) \/ ResponseExpired(id) \/ ResponseRejected(id) \/ Poll(id)
    BY <1>1, <1>2 DEF CreateRequest, ResponseExpired, ResponseRejected, Poll
  <1>3. ASSUME NEW h \in Handlers, NEW id \in Sessions, NEW vp \in VpToken,
               ResponseStart(h, id, vp)
        PROVE  Kept /\ cache' = cache
    <2>1. /\ \A g \in DOMAIN handlers' : g = h \/ g \in DOMAIN handlers
          /\ \A g \in DOMAIN handlers : handlers'[g] = handlers[g]
          /\ handlers'[h].pc # "keyServed" /\ cache' = cache
      BY <1>3 DEF ResponseStart, Put
    <2> QED
      BY <2>1
  <1>4. ASSUME NEW h \in Handlers, HandlerThrows(h) PROVE Kept /\ cache' = cache
    BY <1>4 DEF HandlerThrows, Del, Restrict
  <1>5. ASSUME NEW h \in Handlers, VerifyPresentation(h) PROVE Kept /\ cache' = cache
    <2>1. h \in DOMAIN handlers /\ cache' = cache
      BY <1>5 DEF VerifyPresentation, At
    <2>2. CASE \E valid \in BOOLEAN : Conclude(h, valid)
      BY <2>1, <2>2 DEF Conclude, Del, Restrict
    <2>3. CASE handlers' = [handlers EXCEPT ![h].pc = "fetchingStatus"]
      BY <1>0, <2>1, <2>3 DEF Activation
    <2> QED
      BY <1>5, <2>1, <2>2, <2>3 DEF VerifyPresentation
  <1>6. ASSUME NEW h \in Handlers, StatusServed(h) PROVE Kept /\ cache' = cache
    BY <1>0, <1>6 DEF StatusServed, At, Activation
  <1>7. ASSUME NEW h \in Handlers, StatusArrives(h) PROVE Kept /\ cache' = cache
    BY <1>7 DEF StatusArrives, Conclude, Del, Restrict
  <1>8. CASE (\E idx \in Indices : IssuerRevokes(idx)) \/ IssuerRestarts \/ Sweep \/ Tick
    BY <1>1, <1>8 DEF IssuerRevokes, IssuerRestarts, Sweep, Tick
  <1>9. CASE UNCHANGED vars
    BY <1>1, <1>9 DEF vars
  <1> QED
    BY <1>2, <1>3, <1>4, <1>5, <1>6, <1>7, <1>8, <1>9 DEF Next, Proceed

\* Growing older makes no entry younger.
LEMMA OlderIsNoYounger ==
    ASSUME NEW a \in Nat, NEW limit \in Nat, a \in Ages(limit)
    PROVE  Older(a, limit) >= a
  BY DEF Older, Ages

\* A stale key leaves the verifier in the end: it is out of reach once every handler that
\* holds it has brought it and the entry has aged past its TTL.  That these things happen
\* is the fairness of the run that checks StaleKeyGoes.
THEOREM StaleKeysDwindleCorrect == Spec => StaleKeysDwindle
  <1> SUFFICES ASSUME TypeOK, TypeOK', [Next]_vars, issuerKey' = issuerKey
               PROVE  /\ Bringers' \subseteq Bringers
                      /\ StaleCached' =>
                            \/ Bringers' # Bringers
                            \/ /\ StaleCached
                               /\ cache'[TheIssuer].key = cache[TheIssuer].key
                               /\ cache'[TheIssuer].age >= cache[TheIssuer].age
    BY TypeCorrect, PTL DEF Spec, StaleKeysDwindle
  <1>0. /\ \A h \in DOMAIN handlers : handlers[h] \in Activation
        /\ \A k \in DOMAIN cache : cache[k] \in CacheEntry
    BY DEF TypeOK, IsMap
  <1>1. \A k \in DOMAIN cache : cache[k].age \in Nat /\ cache[k].age \in Ages(TRUST_CACHE_TTL)
    BY <1>0, VerifierAssumption DEF CacheEntry, Ages
  <1>2. ASSUME NEW h \in Handlers, KeyServed(h)
        PROVE  Bringers' \subseteq Bringers /\ cache' = cache
    BY <1>0, <1>2 DEF KeyServed, At, Bringers, Activation
  <1>3. ASSUME NEW h \in Handlers, KeyArrives(h)
        PROVE  /\ Bringers' = Bringers \ {h}
               /\ StaleCached' => h \in Bringers
    <2>1. /\ h \in DOMAIN handlers /\ handlers[h].pc = "keyServed"
          /\ handlers' = [handlers EXCEPT ![h].pc = "verifying"]
          /\ cache'[TheIssuer].key = handlers[h].issuerKey
      BY <1>3 DEF KeyArrives, At, Put
    <2>2. Bringers' = Bringers \ {h}
      BY <1>0, <2>1 DEF Bringers, Activation
    <2> QED
      BY <2>1, <2>2 DEF StaleCached, Bringers
  <1>4. ASSUME /\ \A h \in DOMAIN handlers' :
                    handlers'[h].pc = "keyServed" =>
                        h \in DOMAIN handlers /\ handlers'[h] = handlers[h]
               /\ cache' = cache \/ cache' = Aged(cache, TRUST_CACHE_TTL)
        PROVE  /\ Bringers' \subseteq Bringers
               /\ StaleCached' =>
                      /\ StaleCached
                      /\ cache'[TheIssuer].key = cache[TheIssuer].key
                      /\ cache'[TheIssuer].age >= cache[TheIssuer].age
    <2>1. Bringers' \subseteq Bringers
      BY <1>4 DEF Bringers
    <2>2. CASE cache' = cache
      BY <1>1, <2>1, <2>2 DEF StaleCached
    <2>3. CASE cache' = Aged(cache, TRUST_CACHE_TTL)
      <3>1. \A k \in DOMAIN cache :
                /\ cache'[k].key = cache[k].key
                /\ cache'[k].age = Older(cache[k].age, TRUST_CACHE_TTL)
        BY <1>0, <2>3 DEF Aged, CacheEntry
      <3>2. \A k \in DOMAIN cache : Older(cache[k].age, TRUST_CACHE_TTL) >= cache[k].age
        BY <1>1, OlderIsNoYounger, VerifierAssumption
      <3>3. DOMAIN cache' = DOMAIN cache
        BY <2>3 DEF Aged
      <3> QED
        BY <2>1, <3>1, <3>2, <3>3 DEF StaleCached
    <2> QED
      BY <1>4, <2>2, <2>3
  <1>5. ASSUME cache' = cache, StaleCached'
        PROVE  /\ StaleCached
               /\ cache'[TheIssuer].key = cache[TheIssuer].key
               /\ cache'[TheIssuer].age >= cache[TheIssuer].age
    BY <1>1, <1>5 DEF StaleCached
  <1> QED
    BY <1>2, <1>3, <1>4, <1>5, KeySteps
=============================================================================
