-------------------------- MODULE SafeFetchProofs ---------------------------
(***************************************************************************)
(* The safety of safeFetch, for any origins, any limits and any servers.   *)
(***************************************************************************)
EXTENDS SafeFetch, TLAPS

\* A call that has not begun has sent nothing.
Unsent == pc = "idle" => sent = {} /\ visited = {} /\ total = 0

\* While a request is out it is at a safe origin, which is among those visited, and
\* every request went to one of these.
OnTheWay ==
    /\ pc = "fetching" => current \in SafeOrigins /\ current \in visited
    /\ \A r \in sent : r.origin \in visited

\* A hop that is under way was allowed.
HopInRange == pc = "fetching" => hop <= MAX_REDIRECTS

\* An init that still carries a secret has not left home.
AtHome ==
    pc = "fetching" /\ (currentInit.credentials \/ currentInit.body) => visited = {current}

\* Until it throws, a text keeps every byte it counts, and it counts from zero.
Counted ==
    /\ pc \in {"idle", "fetching"} => total = 0
    /\ pc # "threw" => buffered = total
    /\ total = served

\* The inductive invariant of a call.
FetchInv ==
    /\ TypeOK /\ Unsent /\ OnTheWay /\ HopInRange /\ AtHome /\ Counted
    /\ OnlySafeContacted /\ SecretsStayHome /\ WholeWithinCap

\* A call without an init is a plain GET.
LEMMA NoInitType == NoInit \in RequestInit
  BY DEF NoInit, RequestInit

\* What an init becomes is an init; off its origin it has no secret.
LEMMA ForwardedInit ==
    ASSUME NEW from, NEW to, NEW status, NEW init \in RequestInit
    PROVE  /\ Forwarded(from, to, status, init) \in RequestInit
           /\ from = to => Forwarded(from, to, status, init) = init
           /\ from # to => /\ ~Forwarded(from, to, status, init).credentials
                           /\ ~Forwarded(from, to, status, init).body
  BY DEF Forwarded, RequestInit

\* A request that goes out keeps the invariant, whatever it carries: off home no secret.
LEMMA LoopKeeps ==
    ASSUME FetchInv, NEW h \in 0 .. MAX_REDIRECTS + 1, NEW url \in SafeOrigins,
           NEW init \in RequestInit, Loop(h, url, init),
           current' = url, currentInit' = init, text' \in BOOLEAN,
           pc \in {"idle", "fetching"}, UNCHANGED counters,
           init.credentials \/ init.body => visited \subseteq {url}
    PROVE  FetchInv'
  <1>0. url \in Origins /\ counters' = counters
    BY FetchAssumption
  <1>1. TypeOK'
    BY <1>0 DEF FetchInv, TypeOK, Loop, Throw, Sent, counters
  <1>2. CASE pc' = "threw" /\ UNCHANGED <<sent, visited>>
    BY <1>1, <1>2
    DEF FetchInv, Unsent, OnTheWay, HopInRange, AtHome, Counted, OnlySafeContacted,
        SecretsStayHome, WholeWithinCap, counters
  <1>3. ASSUME NEW r, r = [origin |-> url, init |-> init, before |-> visited],
               h <= MAX_REDIRECTS, hop' = h, pc' = "fetching",
               sent' = sent \cup {r}, visited' = visited \cup {url}
        PROVE  FetchInv'
    <2>1. r.origin = url /\ r.init = init /\ r.before = visited
      BY <1>3
    <2>2. Unsent' /\ HopInRange' /\ AtHome' /\ Counted' /\ WholeWithinCap'
      BY <1>3 DEF FetchInv, Unsent, HopInRange, AtHome, Counted, WholeWithinCap, counters
    <2>3. OnTheWay' /\ OnlySafeContacted'
      BY <1>3, <2>1 DEF FetchInv, OnTheWay, OnlySafeContacted
    <2>4. ASSUME NEW p \in sent', NEW s \in sent', p.init.credentials \/ p.init.body
          PROVE  p.before \subseteq {p.origin} /\ (s.before = {} => s.origin = p.origin)
      <3>1. CASE p = r
        <4>1. visited \subseteq {url}
          BY <2>1, <2>4, <3>1
        <4>2. s.origin = url
          BY <1>3, <2>1, <4>1 DEF FetchInv, OnTheWay
        <4> QED
          BY <2>1, <3>1, <4>1, <4>2
      <3>2. CASE p \in sent /\ s \in sent
        BY <2>4, <3>2 DEF FetchInv, SecretsStayHome
      <3>3. CASE p \in sent /\ s = r
        <4>1. r.before # {}
          BY <2>1, <3>3 DEF FetchInv, OnTheWay
        <4>2. p.before \subseteq {p.origin}
          BY <2>4, <3>3 DEF FetchInv, SecretsStayHome
        <4> QED
          BY <3>3, <4>1, <4>2
      <3> QED
        BY <1>3, <3>1, <3>2, <3>3
    <2>5. SecretsStayHome'
      BY <2>4 DEF SecretsStayHome
    <2> QED
      BY <1>1, <2>2, <2>3, <2>5 DEF FetchInv
  <1> QED
    BY <1>2, <1>3 DEF Loop, Throw, HopAllowed

\* A step that sends nothing and reads nothing keeps it.
LEMMA QuietKeeps ==
    ASSUME FetchInv, pc' \in {"reading", "returned", "threw"}, pc # "threw",
           pc' = "threw" \/ pc # "idle", text' \in BOOLEAN,
           UNCHANGED <<hop, current, currentInit, counters, sent, visited>>
    PROVE  FetchInv'
  BY DEF FetchInv, TypeOK, Unsent, OnTheWay, HopInRange, AtHome, Counted, OnlySafeContacted,
         SecretsStayHome, WholeWithinCap, counters

\* Every step keeps the invariant.
LEMMA InvNext == FetchInv /\ [Next]_vars => FetchInv'
  <1> SUFFICES ASSUME FetchInv, [Next]_vars PROVE FetchInv'
    OBVIOUS
  <1>1. ASSUME NEW url \in Origins, NEW init \in Inits, NEW isText \in BOOLEAN,
               Call(url, init, isText)
        PROVE  FetchInv'
    <2>1. CASE ~Safe(url)
      BY <1>1, <2>1, QuietKeeps DEF Call, Throw
    <2>2. CASE Safe(url)
      <3>1. init \in RequestInit
        BY NoInitType DEF Inits
      <3>0. 0 \in 0 .. MAX_REDIRECTS + 1
        BY FetchAssumption
      <3>2. visited = {} /\ pc = "idle"
        BY <1>1 DEF Call, FetchInv, Unsent
      <3>3. /\ Loop(0, url, init) /\ current' = url /\ currentInit' = init
            /\ text' \in BOOLEAN /\ counters' = counters
        BY <1>1, <2>2 DEF Call
      <3> QED
        BY <1>1, <2>2, <3>0, <3>1, <3>2, <3>3, LoopKeeps DEF Safe
    <2> QED
      BY <2>1, <2>2
  <1>2. ASSUME NEW status \in Redirects, NEW url \in Origins, Redirect(status, url)
        PROVE  FetchInv'
    <2>0. pc = "fetching" /\ text' = text /\ text \in BOOLEAN
      BY <1>2 DEF Redirect, FetchInv, TypeOK
    <2>1. CASE ~Safe(url)
      BY <1>2, <2>0, <2>1, QuietKeeps DEF Redirect, Throw
    <2>2. CASE Safe(url)
      <3>1. PICK init : init = Forwarded(current, url, status, currentInit)
        OBVIOUS
      <3>2. /\ init \in RequestInit
            /\ init.credentials \/ init.body =>
                  current = url /\ (currentInit.credentials \/ currentInit.body)
        BY <3>1, ForwardedInit DEF FetchInv, TypeOK
      <3>3. init.credentials \/ init.body => visited \subseteq {url}
        BY <2>0, <3>2 DEF FetchInv, AtHome
      <3>4. PICK h : h = hop + 1
        OBVIOUS
      <3>5. /\ Loop(h, url, init) /\ current' = url /\ currentInit' = init
            /\ counters' = counters
        BY <1>2, <2>2, <3>1, <3>4 DEF Redirect, NextHop
      <3>6. h \in 0 .. MAX_REDIRECTS + 1
        BY <2>0, <3>4, FetchAssumption DEF FetchInv, TypeOK, HopInRange
      <3> QED
        BY <2>0, <2>2, <3>2, <3>3, <3>5, <3>6, LoopKeeps DEF Safe
    <2> QED
      BY <2>1, <2>2
  <1>3. CASE FetchFails \/ FetchSucceeds \/ BodyEnds
    <2>1. /\ pc' \in {"reading", "returned", "threw"} /\ pc \in {"fetching", "reading"}
          /\ text' = text
          /\ UNCHANGED <<hop, current, currentInit, counters, sent, visited>>
      BY <1>3 DEF FetchFails, FetchSucceeds, BodyEnds, Throw
    <2> QED
      BY <2>1, QuietKeeps DEF FetchInv, TypeOK
  <1>4. ASSUME NEW n \in 1 .. MaxChunk, Chunk(n) PROVE FetchInv'
    <2>1. /\ pc = "reading" /\ served' = served + n /\ total' = total + n
          /\ UNCHANGED <<text, hop, current, currentInit, sent, visited>>
          /\ \/ pc' = "threw" /\ buffered' = buffered
             \/ ~(total + n > MAX_BODY_BYTES) /\ buffered' = buffered + n /\ pc' = pc
      BY <1>4 DEF Chunk, TooLarge, Throw
    <2>2. n \in Nat /\ total \in Nat /\ served \in Nat /\ buffered \in Nat
      BY DEF FetchInv, TypeOK
    <2>3. TypeOK'
      BY <2>1, <2>2 DEF FetchInv, TypeOK
    <2>4. buffered = total /\ total = served /\ buffered <= MAX_BODY_BYTES
      BY <2>1 DEF FetchInv, Counted, WholeWithinCap
    <2>5. Counted' /\ WholeWithinCap'
      BY <2>1, <2>2, <2>4, FetchAssumption DEF Counted, WholeWithinCap
    <2>6. Unsent' /\ OnTheWay' /\ HopInRange' /\ AtHome' /\ OnlySafeContacted' /\ SecretsStayHome'
      BY <2>1
      DEF FetchInv, Unsent, OnTheWay, HopInRange, AtHome, OnlySafeContacted, SecretsStayHome
    <2> QED
      BY <2>3, <2>5, <2>6 DEF FetchInv
  <1>5. CASE UNCHANGED vars
    BY <1>5 DEF vars, counters, FetchInv, TypeOK, Unsent, OnTheWay, HopInRange, AtHome, Counted,
                OnlySafeContacted, SecretsStayHome, WholeWithinCap
  <1> QED
    BY <1>1, <1>2, <1>3, <1>4, <1>5 DEF Next, Answer, Read

\* The inductive invariant holds of a call.
THEOREM InvCorrect == Spec => []FetchInv
  <1>1. Init => FetchInv
    <2> SUFFICES ASSUME Init PROVE FetchInv
      OBVIOUS
    <2>1. TypeOK
      <3>1. hop \in 0 .. MAX_REDIRECTS + 1 /\ total \in Nat /\ buffered \in Nat /\ served \in Nat
        BY FetchAssumption DEF Init
      <3>2. currentInit \in RequestInit
        BY NoInitType DEF Init
      <3>3. /\ pc \in {"idle", "fetching", "reading", "returned", "threw"} /\ text \in BOOLEAN
            /\ current \in Origins \cup {NoOrigin}
            /\ sent \subseteq Sent /\ visited \subseteq Origins
        BY DEF Init
      <3> QED
        BY <3>1, <3>2, <3>3 DEF TypeOK
    <2>2. Unsent /\ OnTheWay /\ HopInRange /\ AtHome
      BY DEF Init, Unsent, OnTheWay, HopInRange, AtHome
    <2>3. Counted /\ WholeWithinCap
      BY FetchAssumption DEF Init, Counted, WholeWithinCap
    <2>4. OnlySafeContacted /\ SecretsStayHome
      BY DEF Init, OnlySafeContacted, SecretsStayHome
    <2> QED
      BY <2>1, <2>2, <2>3, <2>4 DEF FetchInv
  <1> QED
    BY <1>1, InvNext, PTL DEF Spec

\* The state of a call keeps its type; the hop never exceeds the limit by more than the
\* one that ends the loop.
THEOREM TypeCorrect == Spec => []TypeOK
  <1>1. FetchInv => TypeOK
    BY DEF FetchInv
  <1> QED
    BY <1>1, InvCorrect, PTL

\* No server can redirect a call to an origin that assertSafeUrl refuses.
THEOREM OnlySafeContactedCorrect == Spec => []OnlySafeContacted
  <1>1. FetchInv => OnlySafeContacted
    BY DEF FetchInv
  <1> QED
    BY <1>1, InvCorrect, PTL

\* Credentials and bodies never leave the origin of the call, nor come back to it once
\* they were stripped.
THEOREM SecretsStayHomeCorrect == Spec => []SecretsStayHome
  <1>1. FetchInv => SecretsStayHome
    BY DEF FetchInv
  <1> QED
    BY <1>1, InvCorrect, PTL

\* A text is whole and within the cap, for any cap and any chunks.
THEOREM WholeWithinCapCorrect == Spec => []WholeWithinCap
  <1>1. FetchInv => WholeWithinCap
    BY DEF FetchInv
  <1> QED
    BY <1>1, InvCorrect, PTL
-----------------------------------------------------------------------------
\* What a call has before it at most: hops while it follows redirects, then the bytes up
\* to the cap.
StepsLeft ==
    CASE pc = "idle"     -> MAX_REDIRECTS + MAX_BODY_BYTES + 4
      [] pc = "fetching" -> (MAX_REDIRECTS - hop) + MAX_BODY_BYTES + 3
      [] pc = "reading"  -> (MAX_BODY_BYTES - total) + 1
      [] OTHER           -> 0

\* Whatever the servers answer, each answer and each chunk brings the call closer to its
\* end: no circle of redirects and no trickle of bytes keeps it going (http.ts:122-168
\* and 174-195).
EveryStepSpends == [][StepsLeft' \in Nat /\ StepsLeft' < StepsLeft]_vars

\* The hops and the bytes that are left are a number, now and after a step.
LEMMA LeftIsNatural ==
    /\ FetchInv => StepsLeft \in Nat
    /\ FetchInv' => StepsLeft' \in Nat
  BY FetchAssumption
  DEF FetchInv, TypeOK, HopInRange, Counted, WholeWithinCap, StepsLeft

\* A call takes no more steps than it has left when it begins, for any servers and limits.
\* With the fairness that the runtime ends what is silent it ends, as the run checks.
THEOREM EveryStepSpendsCorrect == Spec => EveryStepSpends
  <1>1. ASSUME FetchInv, [Next]_vars
        PROVE  [StepsLeft' \in Nat /\ StepsLeft' < StepsLeft]_vars
    <2>1. StepsLeft \in Nat /\ StepsLeft' \in Nat /\ FetchInv'
      BY <1>1, InvNext, LeftIsNatural
    <2>2. MAX_REDIRECTS \in Nat /\ MAX_BODY_BYTES \in Nat
      BY FetchAssumption
    <2>3. hop \in Nat /\ total \in Nat /\ (pc = "fetching" => hop <= MAX_REDIRECTS)
      BY <1>1 DEF FetchInv, TypeOK, HopInRange
    <2>4. pc' = "reading" => total' <= MAX_BODY_BYTES /\ total' \in Nat
      BY <2>1 DEF FetchInv, TypeOK, Counted, WholeWithinCap
    <2>5. ASSUME NEW url \in Origins, NEW init \in Inits, NEW isText \in BOOLEAN,
                 Call(url, init, isText)
          PROVE  StepsLeft' < StepsLeft
      <3>1. pc = "idle" /\ (pc' = "threw" \/ (pc' = "fetching" /\ hop' = 0))
        BY <2>5 DEF Call, Loop, Throw
      <3> QED
        BY <2>2, <3>1 DEF StepsLeft
    <2>6. ASSUME NEW status \in Redirects, NEW url \in Origins, Redirect(status, url)
          PROVE  StepsLeft' < StepsLeft
      <3>1. pc = "fetching" /\ (pc' = "threw" \/ (pc' = "fetching" /\ hop' = hop + 1))
        BY <2>6 DEF Redirect, Loop, Throw, NextHop
      <3> QED
        BY <2>2, <2>3, <3>1 DEF StepsLeft
    <2>7. CASE FetchFails \/ FetchSucceeds
      <3>1. pc = "fetching" /\ pc' \in {"reading", "returned", "threw"}
        BY <2>7 DEF FetchFails, FetchSucceeds, Throw
      <3> QED
        BY <2>2, <2>3, <2>4, <3>1 DEF StepsLeft
    <2>8. ASSUME NEW n \in 1 .. MaxChunk, Chunk(n)
          PROVE  StepsLeft' < StepsLeft
      <3>1. pc = "reading" /\ total' = total + n /\ pc' \in {"reading", "threw"} /\ n \in Nat
                /\ n > 0
        BY <2>8 DEF Chunk, Throw
      <3>2. total <= MAX_BODY_BYTES
        BY <1>1, <3>1 DEF FetchInv, Counted, WholeWithinCap
      <3> QED
        BY <2>2, <2>3, <3>1, <3>2 DEF StepsLeft
    <2>9. CASE BodyEnds
      <3>1. pc = "reading" /\ pc' \in {"returned", "threw"}
        BY <2>9 DEF BodyEnds
      <3>2. total <= MAX_BODY_BYTES
        BY <1>1, <3>1 DEF FetchInv, Counted, WholeWithinCap
      <3> QED
        BY <2>2, <2>3, <3>1, <3>2 DEF StepsLeft
    <2>10. CASE UNCHANGED vars
      BY <2>10
    <2> QED
      BY <1>1, <2>1, <2>5, <2>6, <2>7, <2>8, <2>9, <2>10 DEF Next, Answer, Read
  <1> QED
    BY <1>1, InvCorrect, PTL DEF Spec, EveryStepSpends
=============================================================================
