------------------------------- MODULE Issuer -------------------------------
(***************************************************************************)
(* The OpenID4VCI issuer, apps/issuer/src/server.ts.                       *)
(*                                                                         *)
(* Handlers run to completion on one event loop, so a handler without an   *)
(* await is one action.  /credential suspends: its handler is an action    *)
(* for the code before the first await and one for the code after each     *)
(* await whose surroundings touch shared state.  Requests that the code    *)
(* answers with an error without changing any store are stuttering steps.  *)
(*                                                                         *)
(* A UUID is a value never returned before.  Each grant is followed from   *)
(* its origin, the pre-authorized code of /offer or the request_uri of     *)
(* /par, to the credential it leads to.                                    *)
(***************************************************************************)
EXTENDS Maps

CONSTANTS
    PreAuthCodes,   \* UUIDs that /offer can draw
    RequestUris,    \* UUIDs that /par can draw
    AuthCodes,      \* UUIDs that /authorize can draw
    Tokens,         \* UUIDs that /token can draw as access tokens
    Requests,       \* handler activations of /credential that can overlap
    Clients,        \* client_id values
    Verifiers,      \* PKCE code_verifier values
    PRE_AUTH_CODE_TTL, AUTH_CODE_TTL, PAR_TTL, ACCESS_TOKEN_TTL, C_NONCE_TTL,
    MAX_MAP_SIZE,
    ListSize,       \* entries of the status list
    MaxRestarts     \* bound on the restarts of the process

ASSUME TTLAssumption ==
    /\ PRE_AUTH_CODE_TTL \in Nat /\ AUTH_CODE_TTL \in Nat /\ PAR_TTL \in Nat
    /\ ACCESS_TOKEN_TTL \in Nat /\ C_NONCE_TTL \in Nat

ASSUME SizeAssumption ==
    MAX_MAP_SIZE \in Nat \ {0} /\ ListSize \in Nat \ {0} /\ MaxRestarts \in Nat

ASSUME OriginAssumption ==
    /\ PreAuthCodes \cap RequestUris = {}
    /\ (PreAuthCodes \cup RequestUris) \cap (AuthCodes \cup Tokens) = {}

ASSUME FinitenessAssumption ==
    /\ IsFiniteSet(PreAuthCodes) /\ IsFiniteSet(RequestUris)
    /\ IsFiniteSet(AuthCodes) /\ IsFiniteSet(Tokens)

VARIABLES
    drawn,          \* UUIDs returned so far by randomUUID()
    offers, parRequests, authCodes, accessTokens,
    verifying,      \* /credential activations awaiting importJWK and jwtVerify
    signing,        \* /credential activations awaiting issueMdoc or issueSdJwtVc
    nextStatusIdx, issuedRecords,
    revoked,        \* the indices whose bit of statusList is INVALID
    key,            \* which issuerKeys: the number of restarts so far
    credentials,    \* credentials sent in a response of /credential
    pushed,         \* history: request_uri -> client_id and challenge pushed with it
    redeemed        \* history: request_uri -> who exchanged its code for a token

stores == <<offers, parRequests, authCodes, accessTokens>>
status == <<nextStatusIdx, issuedRecords, revoked, key>>
history == <<pushed, redeemed>>
vars == <<drawn, stores, verifying, signing, status, credentials, history>>
-----------------------------------------------------------------------------
ConfigIds == {"PID", "mDL"}
Origins == PreAuthCodes \cup RequestUris

\* The c_nonce is drawn together with the access token, so the token names it.
Nonce(token) == <<"c_nonce", token>>
Nonces == {Nonce(t) : t \in Tokens}

\* pkceS256Challenge: a hash is an injection into values that are no verifiers.
S256(verifier) == <<"S256", verifier>>
Challenges == {S256(v) : v \in Verifiers}

\* How long the code lets pass from the creation of a grant to the check that
\* precedes its status index.
Lifetime(origin) ==
    IF origin \in PreAuthCodes THEN PRE_AUTH_CODE_TTL + C_NONCE_TTL
                               ELSE PAR_TTL + AUTH_CODE_TTL + C_NONCE_TTL
MaxLife == PRE_AUTH_CODE_TTL + PAR_TTL + AUTH_CODE_TTL + C_NONCE_TTL
TokenLimit ==  \* the age past which no check tells two ages of a token apart
    IF ACCESS_TOKEN_TTL > C_NONCE_TTL THEN ACCESS_TOKEN_TTL ELSE C_NONCE_TTL

Offer == [configId : ConfigIds, age : Ages(PRE_AUTH_CODE_TTL)]
ParRequest == [clientId : Clients, codeChallenge : Challenges, age : Ages(PAR_TTL)]
\* origin and life (age of the grant since its origin was drawn) are history.
AuthCode == [codeChallenge : Challenges, clientId : Clients, age : Ages(AUTH_CODE_TTL),
             origin : RequestUris, life : Ages(MaxLife)]
Pending == [configId : ConfigIds, cNonce : Nonces, age : Ages(TokenLimit),
            origin : Origins, life : Ages(MaxLife)]
\* garbled: the header does not parse or has no jwk; forged: importJWK, jwtVerify
\* or the aud check refuses it; sound: only its nonce is still to be compared.
Proof == [kind : {"garbled", "forged", "sound"}, nonce : Nonces]
Verification == [pending : Pending, proof : Proof]
Issuance == [origin : Origins, configId : ConfigIds, nonce : Nonces, idx : Nat,
             life : Ages(MaxLife)]
Credential == [issuance : Issuance, key : Nat]
IssuedRecord == [idx : Nat, subject : ConfigIds]
Party == [clientId : Clients, codeVerifier : Verifiers]
-----------------------------------------------------------------------------
Init ==
    /\ offers = EmptyMap /\ parRequests = EmptyMap
    /\ authCodes = EmptyMap /\ accessTokens = EmptyMap
    /\ verifying = EmptyMap /\ signing = EmptyMap
    /\ nextStatusIdx = 0 /\ issuedRecords = {} /\ revoked = {}
    /\ drawn = {} /\ key = 0 /\ credentials = {}
    /\ pushed = EmptyMap /\ redeemed = EmptyMap

\* randomUUID()
Draw(uuid) == uuid \notin drawn /\ drawn' = drawn \cup {uuid}
-----------------------------------------------------------------------------
\* POST /offer
CreateOffer(code, configId) ==
    /\ Size(offers) < MAX_MAP_SIZE
    /\ Draw(code)
    /\ offers' = Put(offers, code, [configId |-> configId, age |-> 0])
    /\ UNCHANGED <<parRequests, authCodes, accessTokens, verifying, signing,
                   status, credentials, history>>

\* POST /par
PushPar(uri, clientId, codeChallenge) ==
    /\ Size(parRequests) < MAX_MAP_SIZE
    /\ Draw(uri)
    /\ parRequests' = Put(parRequests, uri,
           [clientId |-> clientId, codeChallenge |-> codeChallenge, age |-> 0])
    /\ pushed' = Put(pushed, uri,
           [clientId |-> clientId, codeChallenge |-> codeChallenge])
    /\ UNCHANGED <<offers, authCodes, accessTokens, verifying, signing,
                   status, credentials, redeemed>>

\* GET /authorize with a request_uri past its TTL
AuthorizeExpired(uri) ==
    /\ uri \in DOMAIN parRequests
    /\ parRequests[uri].age > PAR_TTL
    /\ parRequests' = Del(parRequests, uri)
    /\ UNCHANGED <<drawn, offers, authCodes, accessTokens, verifying, signing,
                   status, credentials, history>>

\* GET /authorize, the approval being automatic.  When authCodes is full the
\* request is refused and the PAR stays.
Authorize(uri, code) ==
    /\ uri \in DOMAIN parRequests
    /\ parRequests[uri].age <= PAR_TTL
    /\ Size(authCodes) < MAX_MAP_SIZE
    /\ Draw(code)
    /\ authCodes' = Put(authCodes, code,
           [codeChallenge |-> parRequests[uri].codeChallenge,
            clientId |-> parRequests[uri].clientId, age |-> 0,
            origin |-> uri, life |-> parRequests[uri].age])
    /\ parRequests' = Del(parRequests, uri)
    /\ UNCHANGED <<offers, accessTokens, verifying, signing, status,
                   credentials, history>>
-----------------------------------------------------------------------------
\* The end of POST /token: the grant is already spent when a full store refuses
\* the token.
StoreToken(token, configId, origin, life) ==
    \/ /\ Size(accessTokens) >= MAX_MAP_SIZE
       /\ UNCHANGED <<drawn, accessTokens>>
    \/ /\ Size(accessTokens) < MAX_MAP_SIZE
       /\ Draw(token)
       /\ accessTokens' = Put(accessTokens, token,
              [configId |-> configId, cNonce |-> Nonce(token), age |-> 0,
               origin |-> origin, life |-> life])

\* POST /token, authorization_code grant: a code past its TTL or presented with
\* another client_id is deleted.
TokenCodeRefused(code, clientId) ==
    /\ code \in DOMAIN authCodes
    /\ authCodes[code].age > AUTH_CODE_TTL \/ clientId # authCodes[code].clientId
    /\ authCodes' = Del(authCodes, code)
    /\ UNCHANGED <<drawn, offers, parRequests, accessTokens, verifying, signing,
                   status, credentials, history>>

MutIgnoresClient(entry, clientId, codeVerifier) ==
    S256(codeVerifier) = entry.codeChallenge

\* The client_id check and verifyPkce.
PresentedBy(entry, clientId, codeVerifier) ==
    /\ clientId = entry.clientId
    /\ S256(codeVerifier) = entry.codeChallenge

\* POST /token, authorization_code grant.  verifyPkce throws on a mismatch and
\* leaves the code where it is.
TokenByCode(code, clientId, codeVerifier, token) ==
    /\ code \in DOMAIN authCodes
    /\ authCodes[code].age <= AUTH_CODE_TTL
    /\ PresentedBy(authCodes[code], clientId, codeVerifier)
    /\ authCodes' = Del(authCodes, code)
    /\ StoreToken(token, "PID", authCodes[code].origin, authCodes[code].life)
    /\ redeemed' = Put(redeemed, authCodes[code].origin,
           [clientId |-> clientId, codeVerifier |-> codeVerifier])
    /\ UNCHANGED <<offers, parRequests, verifying, signing, status, credentials,
                   pushed>>

\* POST /token, pre-authorized_code grant: the code is deleted before its TTL is
\* checked.
TokenByOffer(code, token) ==
    /\ code \in DOMAIN offers
    /\ offers' = Del(offers, code)
    /\ \/ /\ offers[code].age > PRE_AUTH_CODE_TTL
          /\ UNCHANGED <<drawn, accessTokens>>
       \/ /\ offers[code].age <= PRE_AUTH_CODE_TTL
          /\ StoreToken(token, offers[code].configId, code, offers[code].age)
    /\ UNCHANGED <<parRequests, authCodes, verifying, signing, status, credentials,
                   history>>
-----------------------------------------------------------------------------
\* POST /credential with a token past its TTL
CredentialExpired(token) ==
    /\ token \in DOMAIN accessTokens
    /\ accessTokens[token].age > ACCESS_TOKEN_TTL
    /\ accessTokens' = Del(accessTokens, token)
    /\ UNCHANGED <<drawn, offers, parRequests, authCodes, verifying, signing,
                   status, credentials, history>>

MutKeepsToken(token) == UNCHANGED accessTokens

Consume(token) == accessTokens' = Del(accessTokens, token)

\* POST /credential up to the first await: the token is consumed; a garbled
\* proof ends the activation there.
CredentialStart(r, token, proof) ==
    /\ r \notin DOMAIN verifying \cup DOMAIN signing
    /\ token \in DOMAIN accessTokens
    /\ accessTokens[token].age <= ACCESS_TOKEN_TTL
    /\ Consume(token)
    /\ verifying' = IF proof.kind = "garbled" THEN verifying
                    ELSE Put(verifying, r,
                             [pending |-> accessTokens[token], proof |-> proof])
    /\ UNCHANGED <<drawn, offers, parRequests, authCodes, signing, status,
                   credentials, history>>

MutAnyNonce(v) == v.proof.kind = "sound" /\ v.pending.age <= C_NONCE_TTL

MutUntimedNonce(v) == v.proof.kind = "sound" /\ v.proof.nonce = v.pending.cNonce

\* The checks after importJWK and jwtVerify; c_nonce is timed anew.
ProofAccepted(v) ==
    /\ v.proof.kind = "sound"
    /\ v.proof.nonce = v.pending.cNonce
    /\ v.pending.age <= C_NONCE_TTL

\* POST /credential: importJWK or jwtVerify rejects, or a later check fails.
ProofRefused(r) ==
    /\ r \in DOMAIN verifying
    /\ ~ProofAccepted(verifying[r])
    /\ verifying' = Del(verifying, r)
    /\ UNCHANGED <<drawn, stores, signing, status, credentials, history>>

MutCountsRecords == Cardinality(issuedRecords)

\* The index that nextStatusIdx++ yields.
AssignedIdx == nextStatusIdx

\* A PID is recorded before it is signed, an mDL when it has been signed.
RecordedFirst(idx, configId) ==
    IF configId = "PID" THEN {[idx |-> idx, subject |-> configId]} ELSE {}

MutNeverRecorded(idx, configId) == {}

RecordedLast(idx, configId) ==
    IF configId = "mDL" THEN {[idx |-> idx, subject |-> configId]} ELSE {}

\* POST /credential after the proof: a status index is assigned.
StartIssuance(r) ==
    /\ r \in DOMAIN verifying
    /\ ProofAccepted(verifying[r])
    /\ LET p == verifying[r].pending
       IN  /\ signing' = Put(signing, r,
                  [origin |-> p.origin, configId |-> p.configId,
                   nonce |-> verifying[r].proof.nonce, idx |-> AssignedIdx,
                   life |-> p.life])
           /\ issuedRecords' = issuedRecords \cup RecordedFirst(AssignedIdx, p.configId)
    /\ nextStatusIdx' = nextStatusIdx + 1
    /\ verifying' = Del(verifying, r)
    /\ UNCHANGED <<drawn, stores, revoked, key, credentials, history>>

\* POST /credential: the credential is signed and sent.
FinishIssuance(r) ==
    /\ r \in DOMAIN signing
    /\ issuedRecords' =
           issuedRecords \cup RecordedLast(signing[r].idx, signing[r].configId)
    /\ credentials' = credentials \cup {[issuance |-> signing[r], key |-> key]}
    /\ signing' = Del(signing, r)
    /\ UNCHANGED <<drawn, stores, verifying, nextStatusIdx, revoked, key, history>>

\* POST /credential: issueMdoc or issueSdJwtVc rejects; its index stays used.
IssuanceFails(r) ==
    /\ r \in DOMAIN signing
    /\ signing' = Del(signing, r)
    /\ UNCHANGED <<drawn, stores, verifying, status, credentials, history>>
-----------------------------------------------------------------------------
MutInclusiveRange(idx) == idx <= ListSize

\* assertInRange
InRange(idx) == idx < ListSize

\* POST /admin/revoke; an index outside the list throws.
Revoke(idx) ==
    /\ InRange(idx)
    /\ revoked' = revoked \cup {idx}
    /\ UNCHANGED <<drawn, stores, verifying, signing, nextStatusIdx, issuedRecords,
                   key, credentials, history>>

MutSweepsEarly(m, ttl) == Restrict(m, {k \in DOMAIN m : m[k].age < ttl})

MutSweepsNothing(m, ttl) == m

\* The entries of a store that a sweep keeps.
Unexpired(m, ttl) == Restrict(m, {k \in DOMAIN m : m[k].age <= ttl})

\* sweepIssuer, every minute
Sweep ==
    /\ offers' = Unexpired(offers, PRE_AUTH_CODE_TTL)
    /\ parRequests' = Unexpired(parRequests, PAR_TTL)
    /\ authCodes' = Unexpired(authCodes, AUTH_CODE_TTL)
    /\ accessTokens' = Unexpired(accessTokens, ACCESS_TOKEN_TTL)
    /\ UNCHANGED <<drawn, verifying, signing, status, credentials, history>>

Aged(m, limit) == [k \in DOMAIN m |-> [m[k] EXCEPT !.age = Older(@, limit)]]
AgedCode(c) == [c EXCEPT !.age = Older(@, AUTH_CODE_TTL), !.life = Older(@, MaxLife)]
AgedPending(p) == [p EXCEPT !.age = Older(@, TokenLimit), !.life = Older(@, MaxLife)]

\* Date.now() advances.
Tick ==
    /\ offers' = Aged(offers, PRE_AUTH_CODE_TTL)
    /\ parRequests' = Aged(parRequests, PAR_TTL)
    /\ authCodes' = [c \in DOMAIN authCodes |-> AgedCode(authCodes[c])]
    /\ accessTokens' = [t \in DOMAIN accessTokens |-> AgedPending(accessTokens[t])]
    /\ verifying' = [r \in DOMAIN verifying |->
                        [verifying[r] EXCEPT !.pending = AgedPending(@)]]
    /\ UNCHANGED <<drawn, signing, status, credentials, history>>

\* The process is restarted: every store is in memory and the signing key is new.
Restart ==
    /\ key < MaxRestarts
    /\ key' = key + 1
    /\ offers' = EmptyMap /\ parRequests' = EmptyMap
    /\ authCodes' = EmptyMap /\ accessTokens' = EmptyMap
    /\ verifying' = EmptyMap /\ signing' = EmptyMap
    /\ nextStatusIdx' = 0 /\ issuedRecords' = {} /\ revoked' = {}
    /\ UNCHANGED <<drawn, credentials, history>>
-----------------------------------------------------------------------------
Grant ==
    \/ \E code \in PreAuthCodes, configId \in ConfigIds : CreateOffer(code, configId)
    \/ \E uri \in RequestUris, c \in Clients, ch \in Challenges : PushPar(uri, c, ch)
    \/ \E uri \in RequestUris : AuthorizeExpired(uri)
    \/ \E uri \in RequestUris, code \in AuthCodes : Authorize(uri, code)

Exchange ==
    \/ \E code \in AuthCodes, c \in Clients : TokenCodeRefused(code, c)
    \/ \E code \in AuthCodes, c \in Clients, v \in Verifiers, t \in Tokens :
          TokenByCode(code, c, v, t)
    \/ \E code \in PreAuthCodes, t \in Tokens : TokenByOffer(code, t)

Settle(r) == ProofRefused(r) \/ StartIssuance(r) \/ FinishIssuance(r) \/ IssuanceFails(r)

Issue ==
    \/ \E t \in Tokens : CredentialExpired(t)
    \/ \E r \in Requests, t \in Tokens, proof \in Proof : CredentialStart(r, t, proof)
    \/ \E r \in Requests : Settle(r)

Next ==
    \/ Grant \/ Exchange \/ Issue
    \/ \E idx \in 0 .. ListSize : Revoke(idx)
    \/ Sweep \/ Tick \/ Restart

\* The clock runs, the interval timer fires and every awaited promise settles.
Fairness ==
    /\ WF_vars(Tick) /\ WF_vars(Sweep)
    /\ \A r \in Requests : WF_vars(Settle(r))

Spec == Init /\ [][Next]_vars
FairSpec == Spec /\ Fairness
=============================================================================
