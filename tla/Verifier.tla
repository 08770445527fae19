------------------------------ MODULE Verifier ------------------------------
(***************************************************************************)
(* The OpenID4VP verifier, apps/verifier/src/server.ts, with the resolver  *)
(* of issuer keys (packages/core/src/trust.ts) and the reading of the      *)
(* Status List Token (packages/core/src/status-list.ts) it calls.          *)
(*                                                                         *)
(* POST /presentation/response suspends while it fetches the issuer's key, *)
(* while it verifies and while it fetches the status list; each of these   *)
(* is a program point of an activation, and a fetch is split into the      *)
(* moment the issuer answers and the moment the answer arrives.  The SD-JWT *)
(* and the mdoc path take the same steps.  The issuer is the environment:  *)
(* it may revoke credentials and restart with a new key and an empty list. *)
(***************************************************************************)
EXTENDS Maps

CONSTANTS
    Sessions,           \* UUIDs that /presentation/request can draw
    Handlers,           \* activations of /presentation/response that can overlap
    Indices,            \* status indices of credentials
    NoStatus,           \* stands for a credential without a status reference
    ListSize,           \* entries in the issuer's status list
    SESSION_TTL, TRUST_CACHE_TTL, MAX_MAP_SIZE,
    MaxRotations        \* bound on the restarts of the issuer

ASSUME VerifierAssumption ==
    /\ SESSION_TTL \in Nat /\ TRUST_CACHE_TTL \in Nat
    /\ MAX_MAP_SIZE \in Nat \ {0} /\ ListSize \in Nat /\ MaxRotations \in Nat
    /\ Indices \subseteq Nat /\ NoStatus \notin Nat
    /\ IsFiniteSet(Sessions)

VARIABLES
    drawn,          \* UUIDs returned so far
    sessions,       \* request id -> age, consumed, result
    handlers,       \* activation -> where it is suspended and what it holds
    cache,          \* the resolver's entry for the issuer: at most one
    issuerKey,      \* the issuer's current key, counted by restarts
    revoked,        \* indices revoked in the issuer's current list
    everRevoked,    \* history: <<key, idx>> revoked so far
    verdicts,       \* history: the verdicts reached
    delivered       \* history: sessions whose result was read by polling

issuer == <<issuerKey, revoked, everRevoked>>
vars == <<drawn, sessions, handlers, cache, issuer, verdicts, delivered>>
-----------------------------------------------------------------------------
Keys == 0 .. MaxRotations
Results == {"none", "valid", "invalid"}

\* The nonce of a session is drawn with its id, so the id names it.
Nonce(id) == <<"nonce", id>>

\* What a vp_token claims: the key its credential is signed with, the index of its
\* status reference, and the nonce its holder signed.
VpToken == [key : Keys, idx : Indices \cup {NoStatus}, nonce : {Nonce(s) : s \in Sessions}]

Session == [age : Ages(SESSION_TTL), consumed : BOOLEAN, result : Results]
\* outdated is history: whether, when it was submitted, the credential was revoked or
\* signed with a key the issuer had given up.
Activation == [pc : {"fetchingKey", "keyServed", "verifying", "fetchingStatus", "statusServed"},
               session : Sessions, vp : VpToken, outdated : BOOLEAN,
               issuerKey : Keys,      \* the key resolved, once it is
               listKey : Keys,        \* the key that signed the status list served
               bit : BOOLEAN]         \* the bit at the index in that list
CacheEntry == [key : Keys, age : Ages(TRUST_CACHE_TTL)]
Verdict == [session : Sessions, vp : VpToken, valid : BOOLEAN, outdated : BOOLEAN]

TheIssuer == "issuer"     \* the one key of the cache
-----------------------------------------------------------------------------
Init ==
    /\ drawn = {} /\ sessions = EmptyMap /\ handlers = EmptyMap /\ cache = EmptyMap
    /\ issuerKey = 0 /\ revoked = {} /\ everRevoked = {}
    /\ verdicts = {} /\ delivered = {}

\* POST /presentation/request by a registered RP
CreateRequest(id) ==
    /\ Size(sessions) < MAX_MAP_SIZE
    /\ id \notin drawn
    /\ drawn' = drawn \cup {id}
    /\ sessions' = Put(sessions, id, [age |-> 0, consumed |-> FALSE, result |-> "none"])
    /\ UNCHANGED <<handlers, cache, issuer, verdicts, delivered>>

\* POST /presentation/response for a session past its TTL
ResponseExpired(id) ==
    /\ id \in DOMAIN sessions
    /\ sessions[id].age > SESSION_TTL
    /\ sessions' = Del(sessions, id)
    /\ UNCHANGED <<drawn, handlers, cache, issuer, verdicts, delivered>>

\* The synchronous checks that admit a submission.
Admits(id) ==
    /\ id \in DOMAIN sessions
    /\ sessions[id].age <= SESSION_TTL
    /\ ~sessions[id].consumed

MutMarksNothing(id) == UNCHANGED sessions

\* session.consumed = true, before the first await
MarkConsumed(id) == sessions' = [sessions EXCEPT ![id].consumed = TRUE]

\* POST /presentation/response with a vp_token that names no trusted issuer or does
\* not parse: the session is consumed and no result will come.
ResponseRejected(id) ==
    /\ Admits(id)
    /\ MarkConsumed(id)
    /\ UNCHANGED <<drawn, handlers, cache, issuer, verdicts, delivered>>

MutCachesForEver == TheIssuer \in DOMAIN cache

\* The cached key that resolveIssuerKey returns without fetching
CacheHit == TheIssuer \in DOMAIN cache /\ cache[TheIssuer].age < TRUST_CACHE_TTL

Outdated(vp) == <<vp.key, vp.idx>> \in everRevoked \/ vp.key # issuerKey

\* POST /presentation/response up to the first await, which is in resolveIssuerKey:
\* a cached key lets the handler go on to verify, otherwise the metadata is fetched.
ResponseStart(h, id, vp) ==
    /\ Admits(id)
    /\ h \notin DOMAIN handlers
    /\ vp.key <= issuerKey
    /\ \E s \in drawn : vp.nonce = Nonce(s)
    /\ MarkConsumed(id)
    /\ handlers' = Put(handlers, h,
           [pc |-> IF CacheHit THEN "verifying" ELSE "fetchingKey",
            session |-> id, vp |-> vp, outdated |-> Outdated(vp),
            issuerKey |-> IF CacheHit THEN cache[TheIssuer].key ELSE 0,
            listKey |-> 0, bit |-> FALSE])
    /\ UNCHANGED <<drawn, cache, issuer, verdicts, delivered>>

At(h, pc) == h \in DOMAIN handlers /\ handlers[h].pc = pc

\* The issuer answers the request for its metadata with its current key.
KeyServed(h) ==
    /\ At(h, "fetchingKey")
    /\ handlers' = [handlers EXCEPT ![h].pc = "keyServed", ![h].issuerKey = issuerKey]
    /\ UNCHANGED <<drawn, sessions, cache, issuer, verdicts, delivered>>

\* The rest of resolveIssuerKey: the answer goes into the cache, whatever is there.
KeyArrives(h) ==
    /\ At(h, "keyServed")
    /\ cache' = Put(cache, TheIssuer, [key |-> handlers[h].issuerKey, age |-> 0])
    /\ handlers' = [handlers EXCEPT ![h].pc = "verifying"]
    /\ UNCHANGED <<drawn, sessions, issuer, verdicts, delivered>>

\* A fetch fails, its answer is unusable, or an mdoc is too large: the handler throws.
HandlerThrows(h) ==
    /\ h \in DOMAIN handlers
    /\ handlers' = Del(handlers, h)
    /\ UNCHANGED <<drawn, sessions, cache, issuer, verdicts, delivered>>

ResultOf(valid) == IF valid THEN "valid" ELSE "invalid"

MutRecreates(id, valid) ==
    sessions' = Put(sessions, id, [consumed |-> TRUE, result |-> ResultOf(valid)])

\* session.result = result.  The session object may meanwhile have been swept, and
\* is then out of reach.
StoreResult(id, valid) ==
    sessions' = IF id \in DOMAIN sessions
                THEN [sessions EXCEPT ![id].result = ResultOf(valid)]
                ELSE sessions

\* The end of POST /presentation/response
Conclude(h, valid) ==
    /\ StoreResult(handlers[h].session, valid)
    /\ verdicts' = verdicts \cup
           {[session |-> handlers[h].session, vp |-> handlers[h].vp, valid |-> valid,
             outdated |-> handlers[h].outdated]}
    /\ handlers' = Del(handlers, h)

MutAnyNonce(a) == a.vp.key = a.issuerKey

\* What verifyPresentation and verifyMdocPresentation compare with the session and
\* with the issuer's key.  All else they check is data of the vp_token alone.
Matches(a) == a.vp.key = a.issuerKey /\ a.vp.nonce = Nonce(a.session)

\* A valid presentation with a status reference goes on to the status list; without
\* one, only the DCQL check remains.
VerifyPresentation(h) ==
    /\ At(h, "verifying")
    /\ \/ Conclude(h, FALSE)
       \/ /\ Matches(handlers[h])
          /\ handlers[h].vp.idx = NoStatus
          /\ Conclude(h, TRUE)
       \/ /\ Matches(handlers[h])
          /\ handlers[h].vp.idx # NoStatus
          /\ handlers' = [handlers EXCEPT ![h].pc = "fetchingStatus"]
          /\ UNCHANGED <<sessions, verdicts>>
    /\ UNCHANGED <<drawn, cache, issuer, delivered>>

\* The issuer answers /statuslist: its list as it is now, signed with its key.
StatusServed(h) ==
    /\ At(h, "fetchingStatus")
    /\ handlers' = [handlers EXCEPT ![h].pc = "statusServed", ![h].listKey = issuerKey,
                                    ![h].bit = handlers[h].vp.idx \in revoked]
    /\ UNCHANGED <<drawn, sessions, cache, issuer, verdicts, delivered>>

MutUnsignedList(a) == a.vp.idx < ListSize

\* readStatus returns: the token is signed by the credential's issuer and the index
\* lies in the list.
Readable(a) == a.listKey = a.issuerKey /\ a.vp.idx < ListSize

\* The status list token arrives and is readable; then the DCQL check.
StatusArrives(h) ==
    /\ At(h, "statusServed")
    /\ Readable(handlers[h])
    /\ \/ Conclude(h, FALSE)
       \/ ~handlers[h].bit /\ Conclude(h, TRUE)
    /\ UNCHANGED <<drawn, cache, issuer, delivered>>

MutKeepsResult(id) == sessions

\* session.result = undefined
Purged(id) == [sessions EXCEPT ![id].result = "none"]

\* GET /presentation/result/:resultToken.  The token is known to the RP only.
Poll(id) ==
    /\ id \in DOMAIN sessions
    /\ sessions[id].result # "none"
    /\ sessions' = Purged(id)
    /\ delivered' = delivered \cup {id}
    /\ UNCHANGED <<drawn, handlers, cache, issuer, verdicts>>

MutSweepsEarly == {id \in DOMAIN sessions : sessions[id].age < SESSION_TTL}

MutSweepsNothing == DOMAIN sessions

\* The sessions that a sweep keeps.
Unexpired == {id \in DOMAIN sessions : sessions[id].age <= SESSION_TTL}

\* sweepVerifier, every minute
Sweep ==
    /\ sessions' = Restrict(sessions, Unexpired)
    /\ UNCHANGED <<drawn, handlers, cache, issuer, verdicts, delivered>>

Aged(m, limit) == [k \in DOMAIN m |-> [m[k] EXCEPT !.age = Older(@, limit)]]

\* Date.now() advances.
Tick ==
    /\ sessions' = Aged(sessions, SESSION_TTL)
    /\ cache' = Aged(cache, TRUST_CACHE_TTL)
    /\ UNCHANGED <<drawn, handlers, issuer, verdicts, delivered>>
-----------------------------------------------------------------------------
\* The issuer's administrator revokes a credential.
IssuerRevokes(idx) ==
    /\ idx < ListSize
    /\ revoked' = revoked \cup {idx}
    /\ everRevoked' = everRevoked \cup {<<issuerKey, idx>>}
    /\ UNCHANGED <<drawn, sessions, handlers, cache, issuerKey, verdicts, delivered>>

\* The issuer restarts: a new key and an empty list.
IssuerRestarts ==
    /\ issuerKey < MaxRotations
    /\ issuerKey' = issuerKey + 1
    /\ revoked' = {}
    /\ UNCHANGED <<drawn, sessions, handlers, cache, everRevoked, verdicts, delivered>>
-----------------------------------------------------------------------------
Proceed(h) ==
    \/ KeyServed(h) \/ KeyArrives(h) \/ VerifyPresentation(h)
    \/ StatusServed(h) \/ StatusArrives(h) \/ HandlerThrows(h)

Next ==
    \/ \E id \in Sessions :
          CreateRequest(id) \/ ResponseExpired(id) \/ ResponseRejected(id) \/ Poll(id)
    \/ \E h \in Handlers, id \in Sessions, vp \in VpToken : ResponseStart(h, id, vp)
    \/ \E h \in Handlers : Proceed(h)
    \/ \E idx \in Indices : IssuerRevokes(idx)
    \/ IssuerRestarts \/ Sweep \/ Tick

\* The clock runs, the interval timer fires, and every fetch is answered or aborted:
\* safeFetch bounds the wait for a response and the runtime the wait for its body.
Fairness ==
    /\ WF_vars(Tick) /\ WF_vars(Sweep)
    /\ \A h \in Handlers : WF_vars(Proceed(h))

Spec == Init /\ [][Next]_vars
FairSpec == Spec /\ Fairness
=============================================================================
