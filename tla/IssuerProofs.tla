---------------------------- MODULE IssuerProofs ----------------------------
(***************************************************************************)
(* The type invariant and the safety properties of the issuer, for every   *)
(* value of the constants.  Each part of IssuerInv is kept by every step,  *)
(* given the others.                                                       *)
(***************************************************************************)
EXTENDS IssuerInvariant, MapLemmas

\* The bounds of all ages are natural numbers.
LEMMA Limits == MaxLife \in Nat /\ TokenLimit \in Nat
  BY TTLAssumption DEF MaxLife, TokenLimit

\* /token either leaves accessTokens alone or adds a well-formed entry to it.
LEMMA StoreTokenType ==
    ASSUME IsMap(accessTokens, Tokens, Pending), NEW token \in Tokens,
           NEW configId \in ConfigIds, NEW origin \in Origins,
           NEW life \in Ages(MaxLife), StoreToken(token, configId, origin, life)
    PROVE  /\ IsMap(accessTokens', Tokens, Pending)
           /\ drawn' \subseteq drawn \cup {token}
  <1> DEFINE entry == [configId |-> configId, cNonce |-> Nonce(token), age |-> 0,
                       origin |-> origin, life |-> life]
  <1>1. entry \in Pending
    BY Limits DEF Pending, Nonces, Ages
  <1> QED
    BY <1>1, PutType DEF StoreToken, Draw

\* The initial state has the type.
LEMMA TypeInit == Init => TypeOK
  BY EmptyMapType, SizeAssumption DEF Init, TypeOK

\* Every step keeps the type.
LEMMA TypeNext == TypeOK /\ [Next]_vars => TypeOK'
  <1> SUFFICES ASSUME TypeOK, [Next]_vars PROVE TypeOK'
    OBVIOUS
  <1> USE TTLAssumption, SizeAssumption, Limits DEF TypeOK, stores, status, history
  <1>1. ASSUME NEW code \in PreAuthCodes, NEW configId \in ConfigIds,
               CreateOffer(code, configId)
        PROVE  TypeOK'
    <2>1. [configId |-> configId, age |-> 0] \in Offer
      BY DEF Offer, Ages
    <2> QED
      BY <1>1, <2>1, PutType DEF CreateOffer, Draw
  <1>2. ASSUME NEW uri \in RequestUris, NEW c \in Clients, NEW ch \in Challenges,
               PushPar(uri, c, ch)
        PROVE  TypeOK'
    <2>1. [clientId |-> c, codeChallenge |-> ch, age |-> 0] \in ParRequest
      BY DEF ParRequest, Ages
    <2> QED
      BY <1>2, <2>1, PutType DEF PushPar, Draw
  <1>3. ASSUME NEW uri \in RequestUris, AuthorizeExpired(uri)
        PROVE  TypeOK'
    BY <1>3, DelType DEF AuthorizeExpired
  <1>4. ASSUME NEW uri \in RequestUris, NEW code \in AuthCodes, Authorize(uri, code)
        PROVE  TypeOK'
    <2> DEFINE entry == [codeChallenge |-> parRequests[uri].codeChallenge,
                         clientId |-> parRequests[uri].clientId, age |-> 0,
                         origin |-> uri, life |-> parRequests[uri].age]
    <2>1. parRequests[uri] \in ParRequest
      BY <1>4 DEF Authorize, IsMap
    <2>2. entry \in AuthCode
      BY <2>1 DEF ParRequest, AuthCode, Ages, MaxLife
    <2> QED
      BY <1>4, <2>2, PutType, DelType DEF Authorize, Draw
  <1>5. ASSUME NEW code \in AuthCodes, NEW c \in Clients, TokenCodeRefused(code, c)
        PROVE  TypeOK'
    BY <1>5, DelType DEF TokenCodeRefused
  <1>6. ASSUME NEW code \in AuthCodes, NEW c \in Clients, NEW v \in Verifiers,
               NEW t \in Tokens, TokenByCode(code, c, v, t)
        PROVE  TypeOK'
    <2>1. authCodes[code] \in AuthCode
      BY <1>6 DEF TokenByCode, IsMap
    <2>2. IsMap(authCodes', AuthCodes, AuthCode)
      BY <1>6, DelType DEF TokenByCode
    <2>3. IsMap(redeemed', RequestUris, Party)
      <3>1. [clientId |-> c, codeVerifier |-> v] \in Party
        BY DEF Party
      <3>2. authCodes[code].origin \in RequestUris
        BY <2>1 DEF AuthCode
      <3> QED
        BY <1>6, <3>1, <3>2, PutType DEF TokenByCode
    <2>4. StoreToken(t, "PID", authCodes[code].origin, authCodes[code].life)
      BY <1>6 DEF TokenByCode
    <2>5. authCodes[code].origin \in Origins /\ authCodes[code].life \in Ages(MaxLife)
      BY <2>1 DEF AuthCode, Origins
    <2>6. IsMap(accessTokens', Tokens, Pending) /\ drawn' \subseteq drawn \cup {t}
      BY <2>4, <2>5, StoreTokenType DEF ConfigIds
    <2> QED
      BY <1>6, <2>2, <2>3, <2>6 DEF TokenByCode
  <1>7. ASSUME NEW code \in PreAuthCodes, NEW t \in Tokens, TokenByOffer(code, t)
        PROVE  TypeOK'
    <2>1. offers[code] \in Offer
      BY <1>7 DEF TokenByOffer, IsMap
    <2>2. IsMap(offers', PreAuthCodes, Offer)
      BY <1>7, DelType DEF TokenByOffer
    <2>3. IsMap(accessTokens', Tokens, Pending) /\ drawn' \subseteq drawn \cup {t}
      <3>1. CASE UNCHANGED <<drawn, accessTokens>>
        BY <3>1
      <3>2. CASE StoreToken(t, offers[code].configId, code, offers[code].age)
        <4>1. offers[code].configId \in ConfigIds /\ offers[code].age \in Ages(MaxLife)
          BY <2>1 DEF Offer, Ages, MaxLife
        <4>2. code \in Origins
          BY DEF Origins
        <4> QED
          BY <3>2, <4>1, <4>2, StoreTokenType
      <3> QED
        BY <1>7, <3>1, <3>2 DEF TokenByOffer
    <2> QED
      BY <1>7, <2>2, <2>3 DEF TokenByOffer
  <1>8. ASSUME NEW t \in Tokens, CredentialExpired(t)
        PROVE  TypeOK'
    BY <1>8, DelType DEF CredentialExpired
  <1>9. ASSUME NEW r \in Requests, NEW t \in Tokens, NEW proof \in Proof,
               CredentialStart(r, t, proof)
        PROVE  TypeOK'
    <2>1. accessTokens[t] \in Pending
      BY <1>9 DEF CredentialStart, IsMap
    <2>2. [pending |-> accessTokens[t], proof |-> proof] \in Verification
      BY <2>1 DEF Verification
    <2> QED
      BY <1>9, <2>2, PutType, DelType DEF CredentialStart, Consume
  <1>10. ASSUME NEW r \in Requests, ProofRefused(r)
         PROVE  TypeOK'
    BY <1>10, DelType DEF ProofRefused
  <1>11. ASSUME NEW r \in Requests, StartIssuance(r)
         PROVE  TypeOK'
    <2> DEFINE p == verifying[r].pending
    <2> DEFINE issuance == [origin |-> p.origin, configId |-> p.configId,
                            nonce |-> verifying[r].proof.nonce, idx |-> nextStatusIdx,
                            life |-> p.life]
    <2>1. verifying[r] \in Verification
      BY <1>11 DEF StartIssuance, IsMap
    <2>2. issuance \in Issuance
      BY <2>1 DEF Verification, Pending, Proof, Issuance
    <2>3. RecordedFirst(nextStatusIdx, p.configId) \subseteq IssuedRecord
      BY <2>1 DEF Verification, Pending, RecordedFirst, IssuedRecord
    <2>4. /\ signing' = Put(signing, r, issuance)
          /\ issuedRecords' = issuedRecords \cup RecordedFirst(nextStatusIdx, p.configId)
          /\ nextStatusIdx' = nextStatusIdx + 1
          /\ verifying' = Del(verifying, r)
          /\ UNCHANGED <<drawn, stores, revoked, key, credentials, history>>
      BY <1>11 DEF StartIssuance, AssignedIdx
    <2> HIDE DEF issuance, p
    <2> QED
      BY <2>2, <2>3, <2>4, PutType, DelType
  <1>12. ASSUME NEW r \in Requests, FinishIssuance(r)
         PROVE  TypeOK'
    <2>1. signing[r] \in Issuance
      BY <1>12 DEF FinishIssuance, IsMap
    <2>2. [issuance |-> signing[r], key |-> key] \in Credential
      BY <2>1 DEF Credential
    <2>3. RecordedLast(signing[r].idx, signing[r].configId) \subseteq IssuedRecord
      BY <2>1 DEF Issuance, RecordedLast, IssuedRecord
    <2> QED
      BY <1>12, <2>2, <2>3, DelType DEF FinishIssuance
  <1>13. ASSUME NEW r \in Requests, IssuanceFails(r)
         PROVE  TypeOK'
    BY <1>13, DelType DEF IssuanceFails
  <1>14. ASSUME NEW idx \in 0 .. ListSize, Revoke(idx)
         PROVE  TypeOK'
    BY <1>14 DEF Revoke, InRange
  <1>15. ASSUME Sweep
         PROVE  TypeOK'
    BY <1>15, RestrictType DEF Sweep, Unexpired
  <1>16. ASSUME Tick
         PROVE  TypeOK'
    <2>1. IsMap(offers', PreAuthCodes, Offer)
      BY <1>16, OlderType DEF Tick, Aged, Offer, IsMap
    <2>2. IsMap(parRequests', RequestUris, ParRequest)
      BY <1>16, OlderType DEF Tick, Aged, ParRequest, IsMap
    <2>3. IsMap(authCodes', AuthCodes, AuthCode)
      BY <1>16, OlderType DEF Tick, AgedCode, AuthCode, IsMap
    <2>4. \A p \in Pending : AgedPending(p) \in Pending
      BY OlderType DEF AgedPending, Pending
    <2>5. IsMap(accessTokens', Tokens, Pending)
      BY <1>16, <2>4 DEF Tick, IsMap
    <2>6. IsMap(verifying', Requests, Verification)
      BY <1>16, <2>4 DEF Tick, Verification, IsMap
    <2> QED
      BY <1>16, <2>1, <2>2, <2>3, <2>5, <2>6 DEF Tick
  <1>17. ASSUME Restart
         PROVE  TypeOK'
    BY <1>17, EmptyMapType DEF Restart
  <1>18. ASSUME UNCHANGED vars
         PROVE  TypeOK'
    BY <1>18 DEF vars
  <1> QED
    BY <1>1, <1>2, <1>3, <1>4, <1>5, <1>6, <1>7, <1>8, <1>9, <1>10, <1>11, <1>12,
       <1>13, <1>14, <1>15, <1>16, <1>17, <1>18
    DEF Next, Grant, Exchange, Issue, Settle

\* The stores, the suspended handlers and the history keep their types: no handler
\* stores an undefined field, no age escapes its range and no bit outside the status
\* list is ever set, for any number of wallets, tokens and restarts.
THEOREM TypeCorrect == Spec => []TypeOK
  <1>1. Init => TypeOK
    BY TypeInit
  <1>2. TypeOK /\ [Next]_vars => TypeOK'
    BY TypeNext
  <1> QED
    BY <1>1, <1>2, PTL DEF Spec
-----------------------------------------------------------------------------
\* The steps that touch an issuance, the records or the counter.
LEMMA IssuanceSteps ==
    ASSUME [Next]_vars
    PROVE  \/ UNCHANGED <<signing, nextStatusIdx, issuedRecords, key, credentials>>
           \/ \E r \in Requests : StartIssuance(r) \/ FinishIssuance(r) \/ IssuanceFails(r)
           \/ Restart
  <1> USE DEF status
  <1>1. CASE Grant
    BY <1>1 DEF Grant, CreateOffer, PushPar, AuthorizeExpired, Authorize
  <1>2. CASE Exchange
    BY <1>2 DEF Exchange, TokenCodeRefused, TokenByCode, TokenByOffer
  <1>3. CASE Issue
    BY <1>3 DEF Issue, Settle, CredentialExpired, CredentialStart, ProofRefused
  <1>4. CASE \E idx \in 0 .. ListSize : Revoke(idx)
    BY <1>4 DEF Revoke
  <1>5. CASE Sweep \/ Tick
    BY <1>5 DEF Sweep, Tick
  <1>6. CASE UNCHANGED vars
    BY <1>6 DEF vars
  <1> QED
    BY <1>1, <1>2, <1>3, <1>4, <1>5, <1>6 DEF Next

\* An index is taken from the counter once, and recorded by the time its credential
\* is sent.
LEMMA IndexNext ==
    ASSUME TypeOK, IndexInUse, UniqueStatusIndex, CredentialRecorded, [Next]_vars
    PROVE  IndexInUse' /\ UniqueStatusIndex' /\ CredentialRecorded'
  <1> USE DEF IndexInUse, UniqueStatusIndex, CredentialRecorded
  <1>1. CASE UNCHANGED <<signing, nextStatusIdx, issuedRecords, key, credentials>>
    BY <1>1
  <1>2. ASSUME NEW r \in Requests, StartIssuance(r)
        PROVE  IndexInUse' /\ UniqueStatusIndex' /\ CredentialRecorded'
    <2> DEFINE p == verifying[r].pending
    <2> DEFINE issuance == [origin |-> p.origin, configId |-> p.configId,
                            nonce |-> verifying[r].proof.nonce, idx |-> nextStatusIdx,
                            life |-> p.life]
    <2>1. /\ signing' = Put(signing, r, issuance)
          /\ issuedRecords' = issuedRecords \cup RecordedFirst(nextStatusIdx, p.configId)
          /\ nextStatusIdx' = nextStatusIdx + 1
          /\ UNCHANGED <<key, credentials>>
      BY <1>2 DEF StartIssuance, AssignedIdx, status
    <2>2. issuance.idx = nextStatusIdx /\ issuance.configId = p.configId
      OBVIOUS
    <2> HIDE DEF issuance
    <2>a. /\ DOMAIN signing' = DOMAIN signing \cup {r}
          /\ signing'[r] = issuance
          /\ \A s \in DOMAIN signing : s # r => signing'[s] = signing[s]
      BY <2>1 DEF Put
    <2>3. /\ nextStatusIdx \in Nat
          /\ \A s \in DOMAIN signing : signing[s].idx \in Nat
          /\ \A c \in credentials : c.issuance.idx \in Nat /\ c.key \in Nat
          /\ key \in Nat
      BY DEF TypeOK, IsMap, Issuance, Credential
    <2>4. p.configId = "PID" =>
             [idx |-> nextStatusIdx, subject |-> "PID"] \in issuedRecords'
      BY <2>1 DEF RecordedFirst
    <2>5. issuedRecords \subseteq issuedRecords'
      BY <2>1
    <2> HIDE DEF issuance, p
    <2>6. IndexInUse'
      <3>1. ASSUME NEW s \in DOMAIN signing'
            PROVE  /\ signing'[s].idx < nextStatusIdx'
                   /\ signing'[s].configId = "PID" =>
                         [idx |-> signing'[s].idx, subject |-> "PID"] \in issuedRecords'
        <4>1. CASE s = r
          BY <4>1, <2>1, <2>2, <2>a, <2>3, <2>4
        <4>2. CASE s # r
          BY <4>2, <2>1, <2>2, <2>a, <2>3, <2>5
        <4> QED
          BY <4>1, <4>2
      <3>2. ASSUME NEW c \in credentials'
            PROVE  c.key <= key' /\ (c.key = key' => c.issuance.idx < nextStatusIdx')
        BY <2>1, <2>3
      <3> QED
        BY <3>1, <3>2
    <2>7. UniqueStatusIndex'
      <3>1. ASSUME NEW s \in DOMAIN signing
            PROVE  signing[s].idx # nextStatusIdx
        <4>1. signing[s].idx < nextStatusIdx /\ signing[s].idx \in Nat
          BY <2>3
        <4> QED
          BY <4>1, <2>3
      <3>2. \A c \in credentials : c.key = key => c.issuance.idx # nextStatusIdx
        BY <2>3
      <3>3. ASSUME NEW s \in DOMAIN signing', NEW q \in DOMAIN signing',
                   signing'[s].idx = signing'[q].idx
            PROVE  s = q
        BY <3>1, <3>3, <2>2, <2>a
      <3>4. ASSUME NEW s \in DOMAIN signing', NEW c \in credentials', c.key = key'
            PROVE  c.issuance.idx # signing'[s].idx
        BY <3>2, <3>4, <2>1, <2>2, <2>a
      <3> QED
        BY <3>3, <3>4, <2>1
    <2>8. CredentialRecorded'
      BY <2>1
    <2> QED
      BY <2>6, <2>7, <2>8
  <1>3. ASSUME NEW r \in Requests, FinishIssuance(r)
        PROVE  IndexInUse' /\ UniqueStatusIndex' /\ CredentialRecorded'
    <2> DEFINE sent == [issuance |-> signing[r], key |-> key]
    <2>1. /\ r \in DOMAIN signing
          /\ signing' = Del(signing, r)
          /\ credentials' = credentials \cup {sent}
          /\ issuedRecords \subseteq issuedRecords'
          /\ UNCHANGED <<nextStatusIdx, key>>
      BY <1>3 DEF FinishIssuance
    <2>a. /\ DOMAIN signing' = DOMAIN signing \ {r}
          /\ \A s \in DOMAIN signing' : signing'[s] = signing[s]
      BY <2>1 DEF Del, Restrict
    <2>2. signing[r] \in Issuance /\ key \in Nat
      BY <2>1 DEF TypeOK, IsMap
    <2>3. [idx |-> signing[r].idx, subject |-> signing[r].configId] \in issuedRecords'
      <3>1. CASE signing[r].configId = "PID"
        BY <3>1, <2>1
      <3>2. CASE signing[r].configId = "mDL"
        BY <3>2, <1>3 DEF FinishIssuance, RecordedLast
      <3> QED
        BY <3>1, <3>2, <2>2 DEF Issuance, ConfigIds
    <2>4. sent.issuance = signing[r] /\ sent.key = key
      OBVIOUS
    <2> HIDE DEF sent
    <2>5. IndexInUse'
      <3>1. ASSUME NEW c \in credentials'
            PROVE  c.key <= key' /\ (c.key = key' => c.issuance.idx < nextStatusIdx')
        <4>1. CASE c = sent
          <5>1. c.issuance.idx = signing[r].idx /\ c.key = key
            BY <4>1, <2>4
          <5>2. signing[r].idx < nextStatusIdx
            BY <2>1
          <5>3. key <= key
            BY <2>2
          <5> QED
            BY <5>1, <5>2, <5>3, <2>1
        <4>2. CASE c # sent
          BY <4>2, <2>1
        <4> QED
          BY <4>1, <4>2
      <3>2. \A s \in DOMAIN signing' :
               /\ signing'[s].idx < nextStatusIdx'
               /\ signing'[s].configId = "PID" =>
                     [idx |-> signing'[s].idx, subject |-> "PID"] \in issuedRecords'
        BY <2>1, <2>a
      <3> QED
        BY <3>1, <3>2
    <2>6. UniqueStatusIndex'
      BY <2>1, <2>a, <2>4
    <2>7. CredentialRecorded'
      BY <2>1, <2>3, <2>4
    <2> QED
      BY <2>5, <2>6, <2>7
  <1>4. ASSUME NEW r \in Requests, IssuanceFails(r)
        PROVE  IndexInUse' /\ UniqueStatusIndex' /\ CredentialRecorded'
    <2>1. /\ signing' = Del(signing, r)
          /\ UNCHANGED <<nextStatusIdx, issuedRecords, key, credentials>>
      BY <1>4 DEF IssuanceFails, status
    <2>2. /\ DOMAIN signing' \subseteq DOMAIN signing
          /\ \A s \in DOMAIN signing' : signing'[s] = signing[s]
      BY <2>1 DEF Del, Restrict
    <2>3. IndexInUse'
      BY <2>1, <2>2
    <2>4. UniqueStatusIndex'
      BY <2>1, <2>2
    <2>5. CredentialRecorded'
      BY <2>1
    <2> QED
      BY <2>3, <2>4, <2>5
  <1>5. CASE Restart
    <2>1. DOMAIN signing' = {} /\ key' = key + 1 /\ credentials' = credentials
      BY <1>5, EmptyMapType DEF Restart
    <2>2. \A c \in credentials' : c.key <= key' /\ c.key # key'
      BY <2>1 DEF TypeOK, Credential
    <2> QED
      BY <2>1, <2>2
  <1> QED
    BY <1>1, <1>2, <1>3, <1>4, <1>5, IssuanceSteps
-----------------------------------------------------------------------------
\* c_nonces are only dropped, UUIDs only drawn.
NoncesOnlyDropped ==
    /\ drawn \subseteq drawn'
    /\ DOMAIN accessTokens' \subseteq DOMAIN accessTokens
    /\ \A t \in DOMAIN accessTokens' : accessTokens'[t].cNonce = accessTokens[t].cNonce
    /\ DOMAIN verifying' \subseteq DOMAIN verifying
    /\ \A r \in DOMAIN verifying' :
          verifying'[r].pending.cNonce = verifying[r].pending.cNonce
    /\ DOMAIN signing' \subseteq DOMAIN signing
    /\ \A r \in DOMAIN signing' : signing'[r].nonce = signing[r].nonce
    /\ credentials' = credentials

\* Dropping them keeps the others where they are.
LEMMA DropKeeps ==
    ASSUME NonceInOnePlace, NoProofReplay, NoncesOnlyDropped
    PROVE  NonceInOnePlace' /\ NoProofReplay'
  <1>1. /\ \A t \in DOMAIN accessTokens' :
              t \in drawn' /\ accessTokens'[t].cNonce = Nonce(t)
        /\ \A r \in DOMAIN verifying' : Spent(verifying[r].pending.cNonce)'
        /\ \A r \in DOMAIN signing' : Spent(signing[r].nonce)'
        /\ \A c \in credentials' : Spent(c.issuance.nonce)'
    BY DEF NonceInOnePlace, Spent, NoncesOnlyDropped
  <1>2. /\ \A r, s \in DOMAIN verifying' :
              verifying'[r].pending.cNonce = verifying'[s].pending.cNonce => r = s
        /\ \A r \in DOMAIN verifying', s \in DOMAIN signing' :
              signing'[s].nonce # verifying'[r].pending.cNonce
        /\ \A r \in DOMAIN verifying', c \in credentials' :
              c.issuance.nonce # verifying'[r].pending.cNonce
    BY DEF NonceInOnePlace, NoncesOnlyDropped
  <1>3. NonceInOnePlace'
    BY <1>1, <1>2 DEF NonceInOnePlace
  <1>4. NoProofReplay'
    BY DEF NoProofReplay, NoncesOnlyDropped
  <1> QED
    BY <1>3, <1>4

\* /token adds the c_nonce of a fresh token.
LEMMA StoreTokenNonce ==
    ASSUME NonceInOnePlace, NoProofReplay, NEW token \in Tokens, NEW configId,
           NEW origin, NEW life, StoreToken(token, configId, origin, life),
           UNCHANGED <<verifying, signing, credentials>>
    PROVE  NonceInOnePlace' /\ NoProofReplay'
  <1>1. CASE UNCHANGED <<drawn, accessTokens>>
    BY <1>1, DropKeeps DEF NoncesOnlyDropped
  <1>2. CASE Draw(token) /\ accessTokens' = Put(accessTokens, token,
              [configId |-> configId, cNonce |-> Nonce(token), age |-> 0,
               origin |-> origin, life |-> life])
    <2>1. /\ token \notin drawn /\ drawn' = drawn \cup {token}
          /\ DOMAIN accessTokens' = DOMAIN accessTokens \cup {token}
          /\ accessTokens'[token].cNonce = Nonce(token)
          /\ \A t \in DOMAIN accessTokens : t # token => accessTokens'[t] = accessTokens[t]
      BY <1>2 DEF Draw, Put
    <2>2. /\ \A t \in DOMAIN accessTokens' :
                t \in drawn' /\ accessTokens'[t].cNonce = Nonce(t)
          /\ \A r \in DOMAIN verifying' : Spent(verifying[r].pending.cNonce)'
          /\ \A r \in DOMAIN signing' : Spent(signing[r].nonce)'
          /\ \A c \in credentials' : Spent(c.issuance.nonce)'
      BY <2>1 DEF NonceInOnePlace, Spent
    <2>3. NonceInOnePlace'
      BY <2>2 DEF NonceInOnePlace
    <2> QED
      BY <2>3 DEF NoProofReplay
  <1> QED
    BY <1>1, <1>2 DEF StoreToken

\* Every step but those of an issuance and of /token only drops c_nonces.
LEMMA NonceDropSteps ==
    ASSUME TypeOK, [Next]_vars
    PROVE  \/ NoncesOnlyDropped
           \/ Exchange
           \/ \E r \in Requests, t \in Tokens, proof \in Proof : CredentialStart(r, t, proof)
           \/ \E r \in Requests : StartIssuance(r) \/ FinishIssuance(r)
  <1> USE DEF NoncesOnlyDropped, stores, Draw
  <1>1. CASE Grant
    BY <1>1 DEF Grant, CreateOffer, PushPar, AuthorizeExpired, Authorize
  <1>2. CASE \E t \in Tokens : CredentialExpired(t)
    BY <1>2 DEF CredentialExpired, Del, Restrict
  <1>3. CASE \E r \in Requests : ProofRefused(r) \/ IssuanceFails(r)
    BY <1>3 DEF ProofRefused, IssuanceFails, Del, Restrict
  <1>4. CASE \E idx \in 0 .. ListSize : Revoke(idx)
    BY <1>4 DEF Revoke
  <1>5. CASE Sweep
    BY <1>5 DEF Sweep, Unexpired, Restrict
  <1>6. CASE Tick
    <2>1. \A p \in Pending : AgedPending(p).cNonce = p.cNonce
      BY DEF Pending, AgedPending
    <2>2. /\ \A t \in DOMAIN accessTokens : accessTokens[t] \in Pending
          /\ \A r \in DOMAIN verifying : verifying[r] \in Verification
      BY DEF TypeOK, IsMap
    <2>3. /\ DOMAIN accessTokens' = DOMAIN accessTokens
          /\ \A t \in DOMAIN accessTokens' : accessTokens'[t] = AgedPending(accessTokens[t])
      BY <1>6 DEF Tick
    <2>4. /\ DOMAIN verifying' = DOMAIN verifying
          /\ \A r \in DOMAIN verifying' :
                verifying'[r].pending = AgedPending(verifying[r].pending)
      BY <1>6, <2>2 DEF Tick, Verification
    <2> QED
      BY <1>6, <2>1, <2>2, <2>3, <2>4 DEF Tick, Verification
  <1>7. CASE Restart
    BY <1>7, EmptyMapType DEF Restart
  <1>8. CASE UNCHANGED vars
    BY <1>8 DEF vars
  <1> QED
    BY <1>1, <1>2, <1>3, <1>4, <1>5, <1>6, <1>7, <1>8 DEF Next, Issue, Settle

\* A c_nonce leaves its token for one proof, that for one issuance and that for one
\* credential.
LEMMA NonceNext ==
    ASSUME TypeOK, NonceInOnePlace, NoProofReplay, [Next]_vars
    PROVE  NonceInOnePlace' /\ NoProofReplay'
  <1>1. CASE NoncesOnlyDropped
    BY <1>1, DropKeeps
  <1>2. ASSUME NEW code \in AuthCodes, NEW c \in Clients, TokenCodeRefused(code, c)
        PROVE  NoncesOnlyDropped
    BY <1>2 DEF TokenCodeRefused, NoncesOnlyDropped
  <1>3. ASSUME NEW code \in AuthCodes, NEW c \in Clients, NEW v \in Verifiers,
               NEW t \in Tokens, TokenByCode(code, c, v, t)
        PROVE  NonceInOnePlace' /\ NoProofReplay'
    BY <1>3, StoreTokenNonce DEF TokenByCode
  <1>4. ASSUME NEW code \in PreAuthCodes, NEW t \in Tokens, TokenByOffer(code, t)
        PROVE  NonceInOnePlace' /\ NoProofReplay'
    <2>1. UNCHANGED <<verifying, signing, credentials>>
      BY <1>4 DEF TokenByOffer
    <2>2. CASE UNCHANGED <<drawn, accessTokens>>
      BY <2>1, <2>2, DropKeeps DEF NoncesOnlyDropped
    <2>3. CASE StoreToken(t, offers[code].configId, code, offers[code].age)
      BY <2>1, <2>3, StoreTokenNonce
    <2> QED
      BY <1>4, <2>2, <2>3 DEF TokenByOffer
  <1>5. ASSUME NEW r \in Requests, NEW t \in Tokens, NEW proof \in Proof,
               CredentialStart(r, t, proof)
        PROVE  NonceInOnePlace' /\ NoProofReplay'
    <2>1. /\ t \in DOMAIN accessTokens
          /\ DOMAIN accessTokens' = DOMAIN accessTokens \ {t}
          /\ \A u \in DOMAIN accessTokens' : accessTokens'[u] = accessTokens[u]
          /\ UNCHANGED <<drawn, signing, credentials>>
      BY <1>5 DEF CredentialStart, Consume, Del, Restrict
    <2>2. /\ DOMAIN verifying' \subseteq DOMAIN verifying \cup {r}
          /\ \A s \in DOMAIN verifying' :
                \/ s = r /\ verifying'[s].pending = accessTokens[t]
                \/ s \in DOMAIN verifying /\ verifying'[s] = verifying[s] /\ s # r
      BY <1>5 DEF CredentialStart, Put
    <2>3. /\ t \in drawn /\ accessTokens[t].cNonce = Nonce(t)
          /\ \A u \in Tokens : Nonce(u) = Nonce(t) => u = t
      BY <2>1 DEF NonceInOnePlace, Nonce
    <2>4. \A n : Spent(n) => n # Nonce(t)
      BY <2>1 DEF Spent
    <2>5. /\ \A u \in DOMAIN accessTokens' :
                u \in drawn' /\ accessTokens'[u].cNonce = Nonce(u)
          /\ \A s \in DOMAIN verifying' : Spent(verifying[s].pending.cNonce)'
          /\ \A s \in DOMAIN signing' : Spent(signing[s].nonce)'
          /\ \A c \in credentials' : Spent(c.issuance.nonce)'
      BY <2>1, <2>2, <2>3 DEF NonceInOnePlace, Spent
    <2>6. /\ \A s, q \in DOMAIN verifying' :
                verifying'[s].pending.cNonce = verifying'[q].pending.cNonce => s = q
          /\ \A s \in DOMAIN verifying', q \in DOMAIN signing' :
                signing'[q].nonce # verifying'[s].pending.cNonce
          /\ \A s \in DOMAIN verifying', c \in credentials' :
                c.issuance.nonce # verifying'[s].pending.cNonce
      BY <2>1, <2>2, <2>3, <2>4 DEF NonceInOnePlace
    <2>7. NonceInOnePlace'
      BY <2>5, <2>6 DEF NonceInOnePlace
    <2> QED
      BY <2>1, <2>7 DEF NoProofReplay
  <1>6. ASSUME NEW r \in Requests, StartIssuance(r)
        PROVE  NonceInOnePlace' /\ NoProofReplay'
    <2> DEFINE n == verifying[r].pending.cNonce
    <2>1. /\ r \in DOMAIN verifying
          /\ DOMAIN verifying' = DOMAIN verifying \ {r}
          /\ \A s \in DOMAIN verifying' : verifying'[s] = verifying[s]
          /\ UNCHANGED <<drawn, accessTokens, credentials>>
      BY <1>6 DEF StartIssuance, Del, Restrict, stores
    <2>2. /\ DOMAIN signing' = DOMAIN signing \cup {r}
          /\ signing'[r].nonce = n
          /\ \A s \in DOMAIN signing : s # r => signing'[s] = signing[s]
      BY <1>6 DEF StartIssuance, ProofAccepted, Put
    <2>3. /\ Spent(n)
          /\ \A s \in DOMAIN signing : signing[s].nonce # n
          /\ \A c \in credentials : c.issuance.nonce # n
          /\ \A s \in DOMAIN verifying' : verifying'[s].pending.cNonce # n
      BY <2>1 DEF NonceInOnePlace
    <2> HIDE DEF n
    <2>4. /\ \A t \in DOMAIN accessTokens' :
                t \in drawn' /\ accessTokens'[t].cNonce = Nonce(t)
          /\ \A s \in DOMAIN verifying' : Spent(verifying[s].pending.cNonce)'
          /\ \A s \in DOMAIN signing' : Spent(signing[s].nonce)'
          /\ \A c \in credentials' : Spent(c.issuance.nonce)'
      BY <2>1, <2>2, <2>3 DEF NonceInOnePlace, Spent
    <2>5. /\ \A s, q \in DOMAIN verifying' :
                verifying'[s].pending.cNonce = verifying'[q].pending.cNonce => s = q
          /\ \A s \in DOMAIN verifying', q \in DOMAIN signing' :
                signing'[q].nonce # verifying'[s].pending.cNonce
          /\ \A s \in DOMAIN verifying', c \in credentials' :
                c.issuance.nonce # verifying'[s].pending.cNonce
      BY <2>1, <2>2, <2>3 DEF NonceInOnePlace
    <2>6. NonceInOnePlace'
      BY <2>4, <2>5 DEF NonceInOnePlace
    <2>7. NoProofReplay'
      BY <2>1, <2>2, <2>3 DEF NoProofReplay
    <2> QED
      BY <2>6, <2>7
  <1>7. ASSUME NEW r \in Requests, FinishIssuance(r)
        PROVE  NonceInOnePlace' /\ NoProofReplay'
    <2> DEFINE sent == [issuance |-> signing[r], key |-> key]
    <2>1. /\ r \in DOMAIN signing
          /\ DOMAIN signing' = DOMAIN signing \ {r}
          /\ \A s \in DOMAIN signing' : signing'[s] = signing[s]
          /\ credentials' = credentials \cup {sent}
          /\ UNCHANGED <<drawn, accessTokens, verifying>>
      BY <1>7 DEF FinishIssuance, Del, Restrict, stores
    <2>2. sent.issuance = signing[r]
      OBVIOUS
    <2> HIDE DEF sent
    <2>3. /\ \A t \in DOMAIN accessTokens' :
                t \in drawn' /\ accessTokens'[t].cNonce = Nonce(t)
          /\ \A s \in DOMAIN verifying' : Spent(verifying[s].pending.cNonce)'
          /\ \A s \in DOMAIN signing' : Spent(signing[s].nonce)'
          /\ \A c \in credentials' : Spent(c.issuance.nonce)'
      BY <2>1, <2>2 DEF NonceInOnePlace, Spent
    <2>4. /\ \A s, q \in DOMAIN verifying' :
                verifying'[s].pending.cNonce = verifying'[q].pending.cNonce => s = q
          /\ \A s \in DOMAIN verifying', q \in DOMAIN signing' :
                signing'[q].nonce # verifying'[s].pending.cNonce
          /\ \A s \in DOMAIN verifying', c \in credentials' :
                c.issuance.nonce # verifying'[s].pending.cNonce
      BY <2>1, <2>2 DEF NonceInOnePlace
    <2>5. NonceInOnePlace'
      BY <2>3, <2>4 DEF NonceInOnePlace
    <2>6. NoProofReplay'
      BY <2>1, <2>2 DEF NoProofReplay
    <2> QED
      BY <2>5, <2>6
  <1> QED
    BY <1>1, <1>2, <1>3, <1>4, <1>5, <1>6, <1>7, NonceDropSteps DEF Exchange
-----------------------------------------------------------------------------
\* The entries with a life are only dropped.
LivesOnlyDropped ==
    /\ DOMAIN authCodes' \subseteq DOMAIN authCodes
    /\ \A c \in DOMAIN authCodes' : authCodes'[c] = authCodes[c]
    /\ DOMAIN accessTokens' \subseteq DOMAIN accessTokens
    /\ \A t \in DOMAIN accessTokens' : accessTokens'[t] = accessTokens[t]
    /\ DOMAIN verifying' \subseteq DOMAIN verifying
    /\ \A r \in DOMAIN verifying' : verifying'[r] = verifying[r]
    /\ DOMAIN signing' \subseteq DOMAIN signing
    /\ \A r \in DOMAIN signing' : signing'[r] = signing[r]
    /\ credentials' = credentials

\* The steps that carry a life on.
LEMMA LifeSteps ==
    ASSUME [Next]_vars
    PROVE  \/ LivesOnlyDropped
           \/ \E uri \in RequestUris, code \in AuthCodes : Authorize(uri, code)
           \/ Exchange
           \/ \E r \in Requests, t \in Tokens, proof \in Proof : CredentialStart(r, t, proof)
           \/ \E r \in Requests : StartIssuance(r) \/ FinishIssuance(r)
           \/ Tick
  <1> USE DEF LivesOnlyDropped, stores
  <1>1. CASE \E code \in PreAuthCodes, configId \in ConfigIds : CreateOffer(code, configId)
    BY <1>1 DEF CreateOffer
  <1>2. CASE \E uri \in RequestUris, c \in Clients, ch \in Challenges : PushPar(uri, c, ch)
    BY <1>2 DEF PushPar
  <1>3. CASE \E uri \in RequestUris : AuthorizeExpired(uri)
    BY <1>3 DEF AuthorizeExpired
  <1>4. CASE \E t \in Tokens : CredentialExpired(t)
    BY <1>4 DEF CredentialExpired, Del, Restrict
  <1>5. CASE \E r \in Requests : ProofRefused(r) \/ IssuanceFails(r)
    BY <1>5 DEF ProofRefused, IssuanceFails, Del, Restrict
  <1>6. CASE \E idx \in 0 .. ListSize : Revoke(idx)
    BY <1>6 DEF Revoke
  <1>7. CASE Sweep
    BY <1>7 DEF Sweep, Unexpired, Restrict
  <1>8. CASE Restart
    BY <1>8, EmptyMapType DEF Restart
  <1>9. CASE UNCHANGED vars
    BY <1>9 DEF vars
  <1> QED
    BY <1>1, <1>2, <1>3, <1>4, <1>5, <1>6, <1>7, <1>8, <1>9 DEF Next, Grant, Issue, Settle

\* An age never runs behind the life it is part of.
LEMMA LifeAges ==
    ASSUME NEW limit \in Nat, NEW maxLife \in Nat, NEW age \in Nat, NEW life \in Nat,
           NEW slack \in Int, age <= limit => life <= slack + age,
           Older(age, limit) <= limit
    PROVE  Older(life, maxLife) <= slack + Older(age, limit)
  BY DEF Older

\* A c_nonce is good for as long as its token's flow has left.
LEMMA InTimeAges ==
    ASSUME NEW p \in Pending, InTime(p)
    PROVE  InTime(AgedPending(p))
  <1>1. /\ AgedPending(p).age = Older(p.age, TokenLimit)
        /\ AgedPending(p).life = Older(p.life, MaxLife)
        /\ AgedPending(p).origin = p.origin
    BY DEF AgedPending, Pending
  <1>2. p.age \in Nat /\ p.life \in Nat
    BY DEF Pending, Ages
  <1>3. Lifetime(p.origin) \in Nat /\ C_NONCE_TTL \in Nat
    BY TTLAssumption DEF Lifetime
  <1>4. TokenLimit \in Nat /\ C_NONCE_TTL <= TokenLimit
    BY TTLAssumption DEF TokenLimit
  <1> QED
    BY <1>1, <1>2, <1>3, <1>4 DEF InTime, Older

\* /token passes the life of the grant on.
LEMMA StoreTokenLife ==
    ASSUME \A t \in DOMAIN accessTokens : InTime(accessTokens[t]),
           NEW token, NEW configId, NEW origin, NEW life \in Nat,
           life + C_NONCE_TTL <= Lifetime(origin),
           StoreToken(token, configId, origin, life)
    PROVE  \A t \in DOMAIN accessTokens' : InTime(accessTokens'[t])
  <1> DEFINE entry == [configId |-> configId, cNonce |-> Nonce(token), age |-> 0,
                       origin |-> origin, life |-> life]
  <1>1. Lifetime(origin) \in Nat
    BY TTLAssumption DEF Lifetime
  <1>2. InTime(entry)
    BY <1>1, TTLAssumption DEF InTime
  <1>3. CASE accessTokens' = accessTokens
    BY <1>3
  <1>4. CASE accessTokens' = Put(accessTokens, token, entry)
    BY <1>2, <1>4 DEF Put
  <1> QED
    BY <1>3, <1>4 DEF StoreToken

\* Every check of a TTL that the code makes, in whatever handler, keeps the sum.
LEMMA LifeNext ==
    ASSUME TypeOK, LifeBounded, BoundedLifetime, [Next]_vars
    PROVE  LifeBounded' /\ BoundedLifetime'
  <1>0. /\ \A c \in DOMAIN authCodes : authCodes[c] \in AuthCode
        /\ \A t \in DOMAIN accessTokens : accessTokens[t] \in Pending
        /\ \A r \in DOMAIN verifying : verifying[r] \in Verification
    BY DEF TypeOK, IsMap
  <1>1. CASE LivesOnlyDropped
    <2>1. LifeBounded'
      BY <1>1 DEF LifeBounded, LivesOnlyDropped
    <2> QED
      BY <1>1, <2>1 DEF BoundedLifetime, LivesOnlyDropped
  <1>2. ASSUME NEW uri \in RequestUris, NEW code \in AuthCodes, Authorize(uri, code)
        PROVE  LifeBounded' /\ BoundedLifetime'
    <2>1. /\ DOMAIN authCodes' = DOMAIN authCodes \cup {code}
          /\ authCodes'[code].age = 0 /\ authCodes'[code].life = parRequests[uri].age
          /\ \A c \in DOMAIN authCodes : c # code => authCodes'[c] = authCodes[c]
          /\ parRequests[uri].age <= PAR_TTL
          /\ UNCHANGED <<accessTokens, verifying, signing, credentials>>
      BY <1>2 DEF Authorize, Put
    <2>2. parRequests[uri].age \in Nat
      BY <1>2 DEF Authorize, TypeOK, IsMap, ParRequest, Ages
    <2>3. ASSUME NEW c \in DOMAIN authCodes', authCodes'[c].age <= AUTH_CODE_TTL
          PROVE  authCodes'[c].life <= PAR_TTL + authCodes'[c].age
      BY <2>1, <2>2, <2>3, TTLAssumption DEF LifeBounded
    <2> QED
      BY <2>1, <2>3 DEF LifeBounded, BoundedLifetime
  <1>3. ASSUME NEW code \in AuthCodes, NEW c \in Clients, TokenCodeRefused(code, c)
        PROVE  LivesOnlyDropped
    BY <1>3 DEF TokenCodeRefused, LivesOnlyDropped, Del, Restrict
  <1>4. ASSUME NEW code \in AuthCodes, NEW c \in Clients, NEW v \in Verifiers,
               NEW t \in Tokens, TokenByCode(code, c, v, t)
        PROVE  LifeBounded' /\ BoundedLifetime'
    <2> DEFINE entry == authCodes[code]
    <2>1. /\ code \in DOMAIN authCodes
          /\ DOMAIN authCodes' \subseteq DOMAIN authCodes
          /\ \A x \in DOMAIN authCodes' : authCodes'[x] = authCodes[x]
          /\ entry.age <= AUTH_CODE_TTL
          /\ StoreToken(t, "PID", entry.origin, entry.life)
          /\ UNCHANGED <<verifying, signing, credentials>>
      BY <1>4 DEF TokenByCode, Del, Restrict
    <2>2. entry \in AuthCode /\ entry.age \in Nat /\ entry.life \in Nat
      BY <1>0, <2>1 DEF AuthCode, Ages
    <2>3. entry.life <= PAR_TTL + entry.age
      BY <2>1 DEF LifeBounded
    <2>4. Lifetime(entry.origin) = PAR_TTL + AUTH_CODE_TTL + C_NONCE_TTL
      BY <2>2, OriginAssumption DEF AuthCode, Lifetime
    <2>5. entry.life + C_NONCE_TTL <= Lifetime(entry.origin)
      BY <2>1, <2>2, <2>3, <2>4, TTLAssumption
    <2>6. \A x \in DOMAIN accessTokens : InTime(accessTokens[x])
      BY DEF LifeBounded
    <2> HIDE DEF entry
    <2>7. \A x \in DOMAIN accessTokens' : InTime(accessTokens'[x])
      BY <2>1, <2>2, <2>5, <2>6, StoreTokenLife
    <2> QED
      BY <2>1, <2>7 DEF LifeBounded, BoundedLifetime
  <1>5. ASSUME NEW code \in PreAuthCodes, NEW t \in Tokens, TokenByOffer(code, t)
        PROVE  LifeBounded' /\ BoundedLifetime'
    <2>1. UNCHANGED <<authCodes, verifying, signing, credentials>> /\ code \in DOMAIN offers
      BY <1>5 DEF TokenByOffer
    <2>2. offers[code].age \in Nat
      BY <2>1 DEF TypeOK, IsMap, Offer, Ages
    <2>3. \A x \in DOMAIN accessTokens : InTime(accessTokens[x])
      BY DEF LifeBounded
    <2>4. CASE UNCHANGED accessTokens
      BY <2>1, <2>4 DEF LifeBounded, BoundedLifetime
    <2>5. CASE /\ offers[code].age <= PRE_AUTH_CODE_TTL
               /\ StoreToken(t, offers[code].configId, code, offers[code].age)
      <3>1. offers[code].age + C_NONCE_TTL <= Lifetime(code)
        BY <2>2, <2>5, TTLAssumption DEF Lifetime
      <3>2. \A x \in DOMAIN accessTokens' : InTime(accessTokens'[x])
        BY <2>2, <2>3, <2>5, <3>1, StoreTokenLife
      <3> QED
        BY <2>1, <3>2 DEF LifeBounded, BoundedLifetime
    <2> QED
      BY <1>5, <2>4, <2>5 DEF TokenByOffer
  <1>6. ASSUME NEW r \in Requests, NEW t \in Tokens, NEW proof \in Proof,
               CredentialStart(r, t, proof)
        PROVE  LifeBounded' /\ BoundedLifetime'
    <2>1. /\ t \in DOMAIN accessTokens
          /\ DOMAIN accessTokens' \subseteq DOMAIN accessTokens
          /\ \A u \in DOMAIN accessTokens' : accessTokens'[u] = accessTokens[u]
          /\ UNCHANGED <<authCodes, signing, credentials>>
      BY <1>6 DEF CredentialStart, Consume, Del, Restrict
    <2>2. \A s \in DOMAIN verifying' :
             \/ verifying'[s].pending = accessTokens[t]
             \/ s \in DOMAIN verifying /\ verifying'[s] = verifying[s]
      BY <1>6 DEF CredentialStart, Put
    <2>3. \A s \in DOMAIN verifying' : InTime(verifying'[s].pending)
      BY <2>1, <2>2 DEF LifeBounded
    <2> QED
      BY <2>1, <2>3 DEF LifeBounded, BoundedLifetime
  <1>7. ASSUME NEW r \in Requests, StartIssuance(r)
        PROVE  LifeBounded' /\ BoundedLifetime'
    <2> DEFINE p == verifying[r].pending
    <2>1. /\ r \in DOMAIN verifying /\ p.age <= C_NONCE_TTL
          /\ DOMAIN verifying' \subseteq DOMAIN verifying
          /\ \A s \in DOMAIN verifying' : verifying'[s] = verifying[s]
          /\ UNCHANGED <<authCodes, accessTokens, credentials>>
      BY <1>7 DEF StartIssuance, ProofAccepted, Del, Restrict, stores
    <2>2. /\ DOMAIN signing' = DOMAIN signing \cup {r}
          /\ signing'[r].life = p.life /\ signing'[r].origin = p.origin
          /\ \A s \in DOMAIN signing : s # r => signing'[s] = signing[s]
      BY <1>7 DEF StartIssuance, Put
    <2>3. p.age \in Nat /\ p.life \in Nat /\ Lifetime(p.origin) \in Nat
      BY <1>0, <2>1, TTLAssumption DEF Verification, Pending, Ages, Lifetime
    <2>4. p.life + C_NONCE_TTL <= Lifetime(p.origin) + p.age
      BY <2>1 DEF LifeBounded, InTime
    <2>5. p.life <= Lifetime(p.origin)
      BY <2>1, <2>3, <2>4, TTLAssumption
    <2>6. \A s \in DOMAIN signing' : signing'[s].life <= Lifetime(signing'[s].origin)
      BY <2>2, <2>5 DEF BoundedLifetime
    <2>7. LifeBounded'
      BY <2>1 DEF LifeBounded
    <2> QED
      BY <2>1, <2>6, <2>7 DEF BoundedLifetime
  <1>8. ASSUME NEW r \in Requests, FinishIssuance(r)
        PROVE  LifeBounded' /\ BoundedLifetime'
    <2> DEFINE sent == [issuance |-> signing[r], key |-> key]
    <2>1. /\ r \in DOMAIN signing
          /\ DOMAIN signing' \subseteq DOMAIN signing
          /\ \A s \in DOMAIN signing' : signing'[s] = signing[s]
          /\ credentials' = credentials \cup {sent}
          /\ UNCHANGED <<authCodes, accessTokens, verifying>>
      BY <1>8 DEF FinishIssuance, Del, Restrict, stores
    <2>2. sent.issuance = signing[r]
      OBVIOUS
    <2> HIDE DEF sent
    <2>3. LifeBounded'
      BY <2>1 DEF LifeBounded
    <2> QED
      BY <2>1, <2>2, <2>3 DEF BoundedLifetime
  <1>9. ASSUME Tick
        PROVE  LifeBounded' /\ BoundedLifetime'
    <2>1. \A t \in DOMAIN accessTokens' : InTime(accessTokens'[t])
      BY <1>0, <1>9, InTimeAges DEF Tick, LifeBounded
    <2>2. \A r \in DOMAIN verifying' : InTime(verifying'[r].pending)
      <3>1. /\ DOMAIN verifying' = DOMAIN verifying
            /\ \A r \in DOMAIN verifying' :
                  verifying'[r].pending = AgedPending(verifying[r].pending)
        BY <1>0, <1>9 DEF Tick, Verification
      <3>2. \A r \in DOMAIN verifying : verifying[r].pending \in Pending
        BY <1>0 DEF Verification
      <3> QED
        BY <3>1, <3>2, InTimeAges DEF LifeBounded
    <2>3. ASSUME NEW c \in DOMAIN authCodes', authCodes'[c].age <= AUTH_CODE_TTL
          PROVE  authCodes'[c].life <= PAR_TTL + authCodes'[c].age
      <3>1. /\ c \in DOMAIN authCodes
            /\ authCodes'[c].age = Older(authCodes[c].age, AUTH_CODE_TTL)
            /\ authCodes'[c].life = Older(authCodes[c].life, MaxLife)
        BY <1>0, <1>9 DEF Tick, AgedCode, AuthCode
      <3>2. authCodes[c].age \in Nat /\ authCodes[c].life \in Nat
        BY <1>0, <3>1 DEF AuthCode, Ages
      <3>3. authCodes[c].age <= AUTH_CODE_TTL => authCodes[c].life <= PAR_TTL + authCodes[c].age
        BY <3>1 DEF LifeBounded
      <3> QED
        BY <2>3, <3>1, <3>2, <3>3, LifeAges, Limits, TTLAssumption
    <2>4. UNCHANGED <<signing, credentials>>
      BY <1>9 DEF Tick
    <2> QED
      BY <2>1, <2>2, <2>3, <2>4 DEF LifeBounded, BoundedLifetime
  <1> QED
    BY <1>1, <1>2, <1>3, <1>4, <1>5, <1>6, <1>7, <1>8, <1>9, LifeSteps DEF Exchange
-----------------------------------------------------------------------------
\* What was pushed stays, requests and codes are only dropped.
RequestsOnlyDropped ==
    /\ drawn \subseteq drawn'
    /\ UNCHANGED <<pushed, redeemed>>
    /\ DOMAIN parRequests' \subseteq DOMAIN parRequests
    /\ \A u \in DOMAIN parRequests' :
          /\ parRequests'[u].clientId = parRequests[u].clientId
          /\ parRequests'[u].codeChallenge = parRequests[u].codeChallenge
    /\ DOMAIN authCodes' \subseteq DOMAIN authCodes
    /\ \A c \in DOMAIN authCodes' :
          /\ authCodes'[c].clientId = authCodes[c].clientId
          /\ authCodes'[c].codeChallenge = authCodes[c].codeChallenge
          /\ authCodes'[c].origin = authCodes[c].origin

\* The steps of the authorization code flow are those of /par, /authorize and /token.
LEMMA RequestSteps ==
    ASSUME TypeOK, [Next]_vars
    PROVE  \/ RequestsOnlyDropped
           \/ \E uri \in RequestUris, c \in Clients, ch \in Challenges : PushPar(uri, c, ch)
           \/ \E uri \in RequestUris, code \in AuthCodes : Authorize(uri, code)
           \/ \E code \in AuthCodes, c \in Clients, v \in Verifiers, t \in Tokens :
                 TokenByCode(code, c, v, t)
  <1> USE DEF RequestsOnlyDropped, stores, history
  <1>1. CASE \E code \in PreAuthCodes, configId \in ConfigIds : CreateOffer(code, configId)
    BY <1>1 DEF CreateOffer, Draw
  <1>2. CASE \E uri \in RequestUris : AuthorizeExpired(uri)
    BY <1>2 DEF AuthorizeExpired, Del, Restrict
  <1>3. CASE \E code \in AuthCodes, c \in Clients : TokenCodeRefused(code, c)
    BY <1>3 DEF TokenCodeRefused, Del, Restrict
  <1>4. CASE \E code \in PreAuthCodes, t \in Tokens : TokenByOffer(code, t)
    BY <1>4 DEF TokenByOffer, StoreToken, Draw
  <1>5. CASE Issue
    BY <1>5 DEF Issue, Settle, CredentialExpired, CredentialStart, ProofRefused,
                StartIssuance, FinishIssuance, IssuanceFails
  <1>6. CASE \E idx \in 0 .. ListSize : Revoke(idx)
    BY <1>6 DEF Revoke
  <1>7. CASE Sweep
    BY <1>7 DEF Sweep, Unexpired, Restrict
  <1>8. CASE Tick
    <2>1. /\ \A u \in DOMAIN parRequests : parRequests[u] \in ParRequest
          /\ \A c \in DOMAIN authCodes : authCodes[c] \in AuthCode
      BY DEF TypeOK, IsMap
    <2> QED
      BY <1>8, <2>1 DEF Tick, Aged, AgedCode, ParRequest, AuthCode
  <1>9. CASE Restart
    BY <1>9, EmptyMapType DEF Restart
  <1>10. CASE UNCHANGED vars
    BY <1>10 DEF vars
  <1> QED
    BY <1>1, <1>2, <1>3, <1>4, <1>5, <1>6, <1>7, <1>8, <1>9, <1>10
    DEF Next, Grant, Exchange

\* The client and the challenge of /par reach /token unchanged.
LEMMA BoundNext ==
    ASSUME TypeOK, BoundOnTheWay, CodeBoundToClient, [Next]_vars
    PROVE  BoundOnTheWay' /\ CodeBoundToClient'
  <1>1. CASE RequestsOnlyDropped
    <2>1. BoundOnTheWay'
      BY <1>1 DEF BoundOnTheWay, AsPushed, RequestsOnlyDropped
    <2> QED
      BY <1>1, <2>1 DEF CodeBoundToClient, RequestsOnlyDropped
  <1>2. ASSUME NEW uri \in RequestUris, NEW c \in Clients, NEW ch \in Challenges,
               PushPar(uri, c, ch)
        PROVE  BoundOnTheWay' /\ CodeBoundToClient'
    <2>1. /\ uri \notin DOMAIN pushed
          /\ drawn' = drawn \cup {uri}
          /\ DOMAIN pushed' = DOMAIN pushed \cup {uri}
          /\ pushed'[uri].clientId = c /\ pushed'[uri].codeChallenge = ch
          /\ \A u \in DOMAIN pushed : pushed'[u] = pushed[u]
          /\ DOMAIN parRequests' = DOMAIN parRequests \cup {uri}
          /\ parRequests'[uri].clientId = c /\ parRequests'[uri].codeChallenge = ch
          /\ \A u \in DOMAIN parRequests : u # uri => parRequests'[u] = parRequests[u]
          /\ UNCHANGED <<authCodes, redeemed>>
      BY <1>2 DEF PushPar, Put, Draw, BoundOnTheWay
    <2>2. BoundOnTheWay'
      BY <2>1 DEF BoundOnTheWay, AsPushed
    <2> QED
      BY <2>1, <2>2 DEF CodeBoundToClient
  <1>3. ASSUME NEW uri \in RequestUris, NEW code \in AuthCodes, Authorize(uri, code)
        PROVE  BoundOnTheWay' /\ CodeBoundToClient'
    <2>1. /\ uri \in DOMAIN parRequests
          /\ drawn \subseteq drawn'
          /\ DOMAIN authCodes' = DOMAIN authCodes \cup {code}
          /\ authCodes'[code].clientId = parRequests[uri].clientId
          /\ authCodes'[code].codeChallenge = parRequests[uri].codeChallenge
          /\ authCodes'[code].origin = uri
          /\ \A c \in DOMAIN authCodes : c # code => authCodes'[c] = authCodes[c]
          /\ DOMAIN parRequests' \subseteq DOMAIN parRequests
          /\ \A u \in DOMAIN parRequests' : parRequests'[u] = parRequests[u]
          /\ UNCHANGED <<pushed, redeemed>>
      BY <1>3 DEF Authorize, Put, Draw, Del, Restrict, history
    <2>2. BoundOnTheWay'
      BY <2>1 DEF BoundOnTheWay, AsPushed
    <2> QED
      BY <2>1, <2>2 DEF CodeBoundToClient
  <1>4. ASSUME NEW code \in AuthCodes, NEW c \in Clients, NEW v \in Verifiers,
               NEW t \in Tokens, TokenByCode(code, c, v, t)
        PROVE  BoundOnTheWay' /\ CodeBoundToClient'
    <2> DEFINE uri == authCodes[code].origin
    <2>1. /\ code \in DOMAIN authCodes
          /\ PresentedBy(authCodes[code], c, v)
          /\ DOMAIN authCodes' \subseteq DOMAIN authCodes
          /\ \A x \in DOMAIN authCodes' : authCodes'[x] = authCodes[x]
          /\ DOMAIN redeemed' = DOMAIN redeemed \cup {uri}
          /\ redeemed'[uri].clientId = c /\ redeemed'[uri].codeVerifier = v
          /\ \A u \in DOMAIN redeemed : u # uri => redeemed'[u] = redeemed[u]
          /\ drawn \subseteq drawn'
          /\ UNCHANGED <<pushed, parRequests>>
      BY <1>4 DEF TokenByCode, StoreToken, Draw, Put, Del, Restrict
    <2>2. BoundOnTheWay'
      BY <2>1 DEF BoundOnTheWay, AsPushed
    <2>3. /\ uri \in DOMAIN pushed /\ c = pushed[uri].clientId
          /\ S256(v) = pushed[uri].codeChallenge
      BY <2>1 DEF BoundOnTheWay, AsPushed, PresentedBy
    <2> HIDE DEF uri
    <2>4. CodeBoundToClient'
      BY <2>1, <2>3 DEF CodeBoundToClient
    <2> QED
      BY <2>2, <2>4
  <1> QED
    BY <1>1, <1>2, <1>3, <1>4, RequestSteps
-----------------------------------------------------------------------------
\* The grant stays where it is or is given up.
Stays(o) == Places(o)' \subseteq Places(o)

\* The grant leaves one place for another.
Moves(o) == \E x \in Places(o) : \E y : Places(o)' \subseteq (Places(o) \ {x}) \cup {y}

\* The grant is drawn.
Appears(o) ==
    o \notin drawn /\ o \in drawn' /\ \E y : Places(o)' \subseteq Places(o) \cup {y}

\* UUIDs are never given back.
LEMMA DrawnGrows ==
    ASSUME [Next]_vars
    PROVE  drawn \subseteq drawn'
  <1> USE DEF Draw, StoreToken
  <1>1. CASE Grant
    BY <1>1 DEF Grant, CreateOffer, PushPar, AuthorizeExpired, Authorize
  <1>2. CASE Exchange
    BY <1>2 DEF Exchange, TokenCodeRefused, TokenByCode, TokenByOffer
  <1>3. CASE Issue
    BY <1>3 DEF Issue, Settle, CredentialExpired, CredentialStart, ProofRefused,
                StartIssuance, FinishIssuance, IssuanceFails
  <1>4. CASE \E idx \in 0 .. ListSize : Revoke(idx)
    BY <1>4 DEF Revoke
  <1>5. CASE Sweep \/ Tick \/ Restart
    BY <1>5 DEF Sweep, Tick, Restart
  <1>6. CASE UNCHANGED vars
    BY <1>6 DEF vars
  <1> QED
    BY <1>1, <1>2, <1>3, <1>4, <1>5, <1>6 DEF Next

\* No step puts an entry over another: UUIDs are fresh, and an activation starts where
\* none is suspended and goes from one await to the next.
LEMMA OverwriteNext ==
    ASSUME NothingOverwritten, [Next]_vars
    PROVE  NothingOverwritten'
  <1> USE DEF NothingOverwritten
  <1>1. CASE Grant
    BY <1>1 DEF Grant, CreateOffer, PushPar, AuthorizeExpired, Authorize, Draw, Put
  <1>2. CASE Exchange
    <2>1. UNCHANGED <<verifying, signing>> /\ DOMAIN authCodes' \subseteq DOMAIN authCodes
      BY <1>2 DEF Exchange, TokenCodeRefused, TokenByCode, TokenByOffer, Del, Restrict
    <2> QED
      BY <1>2, <2>1, DrawnGrows
  <1>3. CASE \E t \in Tokens : CredentialExpired(t)
    BY <1>3 DEF CredentialExpired
  <1>4. ASSUME NEW r \in Requests, NEW t \in Tokens, NEW proof \in Proof,
               CredentialStart(r, t, proof)
        PROVE  NothingOverwritten'
    BY <1>4 DEF CredentialStart, Put
  <1>5. ASSUME NEW r \in Requests, Settle(r) PROVE NothingOverwritten'
    BY <1>5 DEF Settle, ProofRefused, StartIssuance, FinishIssuance, IssuanceFails,
                stores, Put, Del, Restrict
  <1>6. CASE \E idx \in 0 .. ListSize : Revoke(idx)
    BY <1>6 DEF Revoke, stores
  <1>7. CASE Sweep
    BY <1>7 DEF Sweep, Unexpired, Restrict
  <1>8. CASE Tick
    BY <1>8 DEF Tick
  <1>9. CASE Restart
    BY <1>9, EmptyMapType DEF Restart
  <1>10. CASE UNCHANGED vars
    BY <1>10 DEF vars, stores
  <1> QED
    BY <1>1, <1>2, <1>3, <1>4, <1>5, <1>6, <1>7, <1>8, <1>9, <1>10 DEF Next, Issue

\* A grant that moves one place at a time is in one place.
LEMMA OnePlaceKept ==
    ASSUME PlacesDrawn, SingleUse, drawn \subseteq drawn',
           \A o \in Origins : Stays(o) \/ Moves(o) \/ Appears(o)
    PROVE  PlacesDrawn' /\ SingleUse'
  <1> SUFFICES ASSUME NEW o \in Origins
               PROVE  /\ Places(o)' # {} => o \in drawn'
                      /\ \A p, q \in Places(o)' : p = q
    BY DEF PlacesDrawn, SingleUse
  <1>0. /\ Places(o) # {} => o \in drawn
        /\ \A p, q \in Places(o) : p = q
    BY DEF PlacesDrawn, SingleUse
  <1>1. CASE Stays(o)
    BY <1>0, <1>1 DEF Stays
  <1>2. CASE Moves(o)
    BY <1>0, <1>2 DEF Moves
  <1>3. CASE Appears(o)
    BY <1>0, <1>3 DEF Appears
  <1> QED
    BY <1>1, <1>2, <1>3

\* The steps of /offer, /par and /authorize.
LEMMA GrantMoves ==
    ASSUME Grant, NEW o \in Origins
    PROVE  Stays(o) \/ Moves(o) \/ Appears(o)
  <1>1. ASSUME NEW code \in PreAuthCodes, NEW configId \in ConfigIds,
               CreateOffer(code, configId)
        PROVE  Stays(o) \/ Appears(o)
    <2>1. /\ code \notin drawn /\ drawn' = drawn \cup {code}
          /\ DOMAIN offers' = DOMAIN offers \cup {code}
          /\ UNCHANGED <<parRequests, authCodes, accessTokens, verifying, signing,
                         credentials>>
      BY <1>1 DEF CreateOffer, Draw, Put
    <2>2. ASSUME NEW p \in Places(o)'
          PROVE  p \in Places(o) \/ (o = code /\ p = <<"offer", code>>)
      BY <2>1 DEF Places
    <2> QED
      BY <2>1, <2>2 DEF Stays, Appears
  <1>2. ASSUME NEW uri \in RequestUris, NEW c \in Clients, NEW ch \in Challenges,
               PushPar(uri, c, ch)
        PROVE  Stays(o) \/ Appears(o)
    <2>1. /\ uri \notin drawn /\ drawn' = drawn \cup {uri}
          /\ DOMAIN parRequests' = DOMAIN parRequests \cup {uri}
          /\ UNCHANGED <<offers, authCodes, accessTokens, verifying, signing,
                         credentials>>
      BY <1>2 DEF PushPar, Draw, Put
    <2>2. ASSUME NEW p \in Places(o)'
          PROVE  p \in Places(o) \/ (o = uri /\ p = <<"par", uri>>)
      BY <2>1 DEF Places
    <2> QED
      BY <2>1, <2>2 DEF Stays, Appears
  <1>3. ASSUME NEW uri \in RequestUris, AuthorizeExpired(uri)
        PROVE  Stays(o)
    BY <1>3 DEF AuthorizeExpired, Del, Restrict, Stays, Places
  <1>4. ASSUME NEW uri \in RequestUris, NEW code \in AuthCodes, Authorize(uri, code)
        PROVE  Stays(o) \/ Moves(o)
    <2>1. /\ uri \in DOMAIN parRequests
          /\ DOMAIN parRequests' = DOMAIN parRequests \ {uri}
          /\ DOMAIN authCodes' = DOMAIN authCodes \cup {code}
          /\ authCodes'[code].origin = uri
          /\ \A c \in DOMAIN authCodes : c # code => authCodes'[c] = authCodes[c]
          /\ UNCHANGED <<offers, accessTokens, verifying, signing, credentials>>
      BY <1>4 DEF Authorize, Put, Del, Restrict
    <2>2. ASSUME NEW p \in Places(o)'
          PROVE  p \in Places(o) \/ (o = uri /\ p = <<"code", code>>)
      BY <2>1 DEF Places
    <2>3. <<"par", uri>> \in Places(uri) /\ <<"par", uri>> \notin Places(uri)'
      BY <2>1 DEF Places
    <2> QED
      BY <2>2, <2>3 DEF Stays, Moves
  <1> QED
    BY <1>1, <1>2, <1>3, <1>4 DEF Grant

\* /token adds at most one place, for the grant that is exchanged.
LEMMA StoreTokenPlace ==
    ASSUME NEW token, NEW configId, NEW origin, NEW life,
           StoreToken(token, configId, origin, life)
    PROVE  \A t \in DOMAIN accessTokens' :
              \/ t \in DOMAIN accessTokens /\ accessTokens'[t] = accessTokens[t]
              \/ t = token /\ accessTokens'[t].origin = origin
  BY DEF StoreToken, Put

\* The steps of /token.
LEMMA ExchangeMoves ==
    ASSUME Exchange, NEW o \in Origins
    PROVE  Stays(o) \/ Moves(o)
  <1>1. ASSUME NEW code \in AuthCodes, NEW c \in Clients, TokenCodeRefused(code, c)
        PROVE  Stays(o)
    BY <1>1 DEF TokenCodeRefused, Del, Restrict, Stays, Places
  <1>2. ASSUME NEW code \in AuthCodes, NEW c \in Clients, NEW v \in Verifiers,
               NEW t \in Tokens, TokenByCode(code, c, v, t)
        PROVE  Stays(o) \/ Moves(o)
    <2>0. PICK origin : origin = authCodes[code].origin
      OBVIOUS
    <2>1. /\ code \in DOMAIN authCodes
          /\ DOMAIN authCodes' = DOMAIN authCodes \ {code}
          /\ \A x \in DOMAIN authCodes' : authCodes'[x] = authCodes[x]
          /\ UNCHANGED <<offers, parRequests, verifying, signing, credentials>>
      BY <1>2 DEF TokenByCode, Del, Restrict
    <2>2. \A x \in DOMAIN accessTokens' :
             \/ x \in DOMAIN accessTokens /\ accessTokens'[x] = accessTokens[x]
             \/ x = t /\ accessTokens'[x].origin = origin
      BY <1>2, <2>0, StoreTokenPlace DEF TokenByCode
    <2>3. <<"code", code>> \in Places(origin) /\ <<"code", code>> \notin Places(origin)'
      BY <2>0, <2>1 DEF Places
    <2>4. ASSUME NEW p \in Places(o)'
          PROVE  p \in Places(o) \/ (o = origin /\ p = <<"token", t>>)
      BY <2>1, <2>2 DEF Places
    <2> QED
      BY <2>3, <2>4 DEF Stays, Moves
  <1>3. ASSUME NEW code \in PreAuthCodes, NEW t \in Tokens, TokenByOffer(code, t)
        PROVE  Stays(o) \/ Moves(o)
    <2>1. /\ code \in DOMAIN offers
          /\ DOMAIN offers' = DOMAIN offers \ {code}
          /\ UNCHANGED <<parRequests, authCodes, verifying, signing, credentials>>
      BY <1>3 DEF TokenByOffer, Del, Restrict
    <2>2. \A x \in DOMAIN accessTokens' :
             \/ x \in DOMAIN accessTokens /\ accessTokens'[x] = accessTokens[x]
             \/ x = t /\ accessTokens'[x].origin = code
      <3>1. CASE UNCHANGED accessTokens
        BY <3>1
      <3>2. CASE StoreToken(t, offers[code].configId, code, offers[code].age)
        BY <3>2, StoreTokenPlace
      <3> QED
        BY <1>3, <3>1, <3>2 DEF TokenByOffer
    <2>3. <<"offer", code>> \in Places(code) /\ <<"offer", code>> \notin Places(code)'
      BY <2>1 DEF Places
    <2>4. ASSUME NEW p \in Places(o)'
          PROVE  p \in Places(o) \/ (o = code /\ p = <<"token", t>>)
      BY <2>1, <2>2 DEF Places
    <2> QED
      BY <2>3, <2>4 DEF Stays, Moves
  <1> QED
    BY <1>1, <1>2, <1>3 DEF Exchange

\* The steps of /credential.
LEMMA IssueMoves ==
    ASSUME Issue, NEW o \in Origins
    PROVE  Stays(o) \/ Moves(o)
  <1>1. ASSUME NEW t \in Tokens, CredentialExpired(t)
        PROVE  Stays(o)
    BY <1>1 DEF CredentialExpired, Del, Restrict, Stays, Places
  <1>2. ASSUME NEW r \in Requests, NEW t \in Tokens, NEW proof \in Proof,
               CredentialStart(r, t, proof)
        PROVE  Stays(o) \/ Moves(o)
    <2>0. PICK origin : origin = accessTokens[t].origin
      OBVIOUS
    <2>1. /\ t \in DOMAIN accessTokens
          /\ DOMAIN accessTokens' = DOMAIN accessTokens \ {t}
          /\ \A x \in DOMAIN accessTokens' : accessTokens'[x] = accessTokens[x]
          /\ UNCHANGED <<offers, parRequests, authCodes, signing, credentials>>
      BY <1>2 DEF CredentialStart, Consume, Del, Restrict
    <2>2. \A s \in DOMAIN verifying' :
             \/ s \in DOMAIN verifying /\ verifying'[s] = verifying[s]
             \/ s = r /\ verifying'[s].pending.origin = origin
      BY <1>2, <2>0 DEF CredentialStart, Put
    <2>3. <<"token", t>> \in Places(origin) /\ <<"token", t>> \notin Places(origin)'
      BY <2>0, <2>1 DEF Places
    <2>4. ASSUME NEW p \in Places(o)'
          PROVE  p \in Places(o) \/ (o = origin /\ p = <<"verifying", r>>)
      BY <2>1, <2>2 DEF Places
    <2> QED
      BY <2>3, <2>4 DEF Stays, Moves
  <1>3. ASSUME NEW r \in Requests, ProofRefused(r) \/ IssuanceFails(r)
        PROVE  Stays(o)
    BY <1>3 DEF ProofRefused, IssuanceFails, Del, Restrict, Stays, Places, stores
  <1>4. ASSUME NEW r \in Requests, StartIssuance(r)
        PROVE  Stays(o) \/ Moves(o)
    <2>0. PICK origin : origin = verifying[r].pending.origin
      OBVIOUS
    <2>1. /\ r \in DOMAIN verifying
          /\ DOMAIN verifying' = DOMAIN verifying \ {r}
          /\ \A s \in DOMAIN verifying' : verifying'[s] = verifying[s]
          /\ UNCHANGED <<stores, credentials>>
      BY <1>4 DEF StartIssuance, Del, Restrict
    <2>2. \A s \in DOMAIN signing' :
             \/ s \in DOMAIN signing /\ signing'[s] = signing[s]
             \/ s = r /\ signing'[s].origin = origin
      BY <1>4, <2>0 DEF StartIssuance, Put
    <2>3. <<"verifying", r>> \in Places(origin) /\ <<"verifying", r>> \notin Places(origin)'
      BY <2>0, <2>1 DEF Places
    <2>4. ASSUME NEW p \in Places(o)'
          PROVE  p \in Places(o) \/ (o = origin /\ p = <<"signing", r>>)
      BY <2>1, <2>2 DEF Places, stores
    <2> QED
      BY <2>3, <2>4 DEF Stays, Moves
  <1>5. ASSUME NEW r \in Requests, FinishIssuance(r)
        PROVE  Stays(o) \/ Moves(o)
    <2> DEFINE sent == [issuance |-> signing[r], key |-> key]
    <2>0. PICK origin : origin = signing[r].origin
      OBVIOUS
    <2>1. /\ r \in DOMAIN signing
          /\ DOMAIN signing' = DOMAIN signing \ {r}
          /\ \A s \in DOMAIN signing' : signing'[s] = signing[s]
          /\ credentials' = credentials \cup {sent}
          /\ UNCHANGED <<stores, verifying>>
      BY <1>5 DEF FinishIssuance, Del, Restrict
    <2>2. sent.issuance.origin = origin
      BY <2>0
    <2>3. <<"signing", r>> \in Places(origin) /\ <<"signing", r>> \notin Places(origin)'
      BY <2>0, <2>1 DEF Places
    <2> HIDE DEF sent
    <2>4. ASSUME NEW p \in Places(o)'
          PROVE  p \in Places(o) \/ (o = origin /\ p = <<"credential", sent>>)
      BY <2>1, <2>2 DEF Places, stores
    <2> QED
      BY <2>3, <2>4 DEF Stays, Moves
  <1> QED
    BY <1>1, <1>2, <1>3, <1>4, <1>5 DEF Issue, Settle

\* Revocations, sweeps, ticks and restarts take no grant anywhere.
LEMMA StaysElsewhere ==
    ASSUME TypeOK, NEW o \in Origins,
           (\E idx \in 0 .. ListSize : Revoke(idx)) \/ Sweep \/ Tick \/ Restart
              \/ UNCHANGED vars
    PROVE  Stays(o)
  <1>1. CASE \E idx \in 0 .. ListSize : Revoke(idx)
    BY <1>1 DEF Revoke, stores, Stays, Places
  <1>2. CASE Sweep
    <2>1. /\ DOMAIN offers' \subseteq DOMAIN offers
          /\ DOMAIN parRequests' \subseteq DOMAIN parRequests
          /\ DOMAIN authCodes' \subseteq DOMAIN authCodes
          /\ \A c \in DOMAIN authCodes' : authCodes'[c] = authCodes[c]
          /\ DOMAIN accessTokens' \subseteq DOMAIN accessTokens
          /\ \A t \in DOMAIN accessTokens' : accessTokens'[t] = accessTokens[t]
          /\ UNCHANGED <<verifying, signing, credentials>>
      BY <1>2 DEF Sweep, Unexpired, Restrict
    <2>2. ASSUME NEW p \in Places(o)'
          PROVE  p \in Places(o)
      BY <2>1 DEF Places
    <2> QED
      BY <2>2 DEF Stays
  <1>3. CASE Tick
    <2>1. /\ DOMAIN offers' = DOMAIN offers /\ DOMAIN parRequests' = DOMAIN parRequests
          /\ DOMAIN authCodes' = DOMAIN authCodes
          /\ \A c \in DOMAIN authCodes' : authCodes'[c].origin = authCodes[c].origin
      BY <1>3 DEF Tick, Aged, AgedCode, TypeOK, IsMap, AuthCode
    <2>2. \A p \in Pending : AgedPending(p).origin = p.origin
      BY DEF AgedPending, Pending
    <2>3. /\ DOMAIN accessTokens' = DOMAIN accessTokens
          /\ \A t \in DOMAIN accessTokens' : accessTokens'[t].origin = accessTokens[t].origin
      BY <1>3, <2>2 DEF Tick, TypeOK, IsMap
    <2>4. /\ DOMAIN verifying' = DOMAIN verifying
          /\ \A r \in DOMAIN verifying' :
                verifying'[r].pending.origin = verifying[r].pending.origin
      BY <1>3, <2>2 DEF Tick, TypeOK, IsMap, Verification
    <2>5. UNCHANGED <<signing, credentials>>
      BY <1>3 DEF Tick
    <2>6. ASSUME NEW p \in Places(o)'
          PROVE  p \in Places(o)
      BY <2>1, <2>3, <2>4, <2>5 DEF Places
    <2> QED
      BY <2>6 DEF Stays
  <1>4. CASE Restart
    BY <1>4, EmptyMapType DEF Restart, Stays, Places
  <1>5. CASE UNCHANGED vars
    BY <1>5 DEF vars, stores, Stays, Places
  <1> QED
    BY <1>1, <1>2, <1>3, <1>4, <1>5

\* A grant is in one place at a time, whoever moves it.
LEMMA PlacesNext ==
    ASSUME TypeOK, PlacesDrawn, SingleUse, [Next]_vars
    PROVE  PlacesDrawn' /\ SingleUse'
  <1> SUFFICES ASSUME NEW o \in Origins
               PROVE  Stays(o) \/ Moves(o) \/ Appears(o)
    BY DrawnGrows, OnePlaceKept
  <1> QED
    BY StaysElsewhere, GrantMoves, ExchangeMoves, IssueMoves DEF Next
-----------------------------------------------------------------------------
\* Initially there is nothing to get wrong.
LEMMA InvInit == Init => IssuerInv
  <1> SUFFICES ASSUME Init PROVE IssuerInv
    OBVIOUS
  <1>1. /\ DOMAIN offers = {} /\ DOMAIN parRequests = {} /\ DOMAIN authCodes = {}
        /\ DOMAIN accessTokens = {} /\ DOMAIN verifying = {} /\ DOMAIN signing = {}
        /\ DOMAIN pushed = {} /\ DOMAIN redeemed = {} /\ credentials = {}
    BY EmptyMapType DEF Init
  <1>2. TypeOK /\ NothingOverwritten
    BY <1>1, TypeInit DEF NothingOverwritten
  <1>3. PlacesDrawn /\ SingleUse
    BY <1>1 DEF PlacesDrawn, SingleUse, Places
  <1>4. IndexInUse /\ UniqueStatusIndex /\ CredentialRecorded
    BY <1>1 DEF IndexInUse, UniqueStatusIndex, CredentialRecorded
  <1>5. NonceInOnePlace /\ NoProofReplay
    BY <1>1 DEF NonceInOnePlace, NoProofReplay
  <1>6. LifeBounded /\ BoundedLifetime
    BY <1>1 DEF LifeBounded, BoundedLifetime
  <1>7. BoundOnTheWay /\ CodeBoundToClient
    BY <1>1 DEF BoundOnTheWay, CodeBoundToClient
  <1> QED
    BY <1>2, <1>3, <1>4, <1>5, <1>6, <1>7 DEF IssuerInv

\* Every step keeps the invariant.
LEMMA InvNext == IssuerInv /\ [Next]_vars => IssuerInv'
  <1> SUFFICES ASSUME IssuerInv, [Next]_vars PROVE IssuerInv'
    OBVIOUS
  <1>1. TypeOK' /\ NothingOverwritten'
    BY TypeNext, OverwriteNext DEF IssuerInv
  <1>2. PlacesDrawn' /\ SingleUse'
    BY PlacesNext DEF IssuerInv
  <1>3. IndexInUse' /\ UniqueStatusIndex' /\ CredentialRecorded'
    BY IndexNext DEF IssuerInv
  <1>4. NonceInOnePlace' /\ NoProofReplay'
    BY NonceNext DEF IssuerInv
  <1>5. LifeBounded' /\ BoundedLifetime'
    BY LifeNext DEF IssuerInv
  <1>6. BoundOnTheWay' /\ CodeBoundToClient'
    BY BoundNext DEF IssuerInv
  <1> QED
    BY <1>1, <1>2, <1>3, <1>4, <1>5, <1>6 DEF IssuerInv

\* The inductive invariant holds of the issuer.
THEOREM InvCorrect == Spec => []IssuerInv
  BY InvInit, InvNext, PTL DEF Spec

\* However many requests for one offer, PAR, code or token interleave, and wherever
\* the process stops and restarts, its grant yields at most one credential.
THEOREM SingleUseCorrect == Spec => []SingleUse
  <1>1. IssuerInv => SingleUse
    BY DEF IssuerInv
  <1> QED
    BY <1>1, InvCorrect, PTL

\* No two credentials of one key share a status index.
THEOREM UniqueStatusIndexCorrect == Spec => []UniqueStatusIndex
  <1>1. IssuerInv => UniqueStatusIndex
    BY DEF IssuerInv
  <1> QED
    BY <1>1, InvCorrect, PTL

\* Every credential of the running process is in the administrator's records.
THEOREM CredentialRecordedCorrect == Spec => []CredentialRecorded
  <1>1. IssuerInv => CredentialRecorded
    BY DEF IssuerInv
  <1> QED
    BY <1>1, InvCorrect, PTL

\* A proof of possession is never good for two credentials.
THEOREM NoProofReplayCorrect == Spec => []NoProofReplay
  <1>1. IssuerInv => NoProofReplay
    BY DEF IssuerInv
  <1> QED
    BY <1>1, InvCorrect, PTL

\* No issuance begins after the TTLs of its flow, whatever their values.
THEOREM BoundedLifetimeCorrect == Spec => []BoundedLifetime
  <1>1. IssuerInv => BoundedLifetime
    BY DEF IssuerInv
  <1> QED
    BY <1>1, InvCorrect, PTL

\* A code is exchanged by the client that pushed its request, with the verifier of
\* the challenge it pushed.
THEOREM CodeBoundToClientCorrect == Spec => []CodeBoundToClient
  <1>1. IssuerInv => CodeBoundToClient
    BY DEF IssuerInv
  <1> QED
    BY <1>1, InvCorrect, PTL
-----------------------------------------------------------------------------
\* Store n keeps what store m has, but for the entry k; a fresh entry has age 0.
Kept(m, n, k) ==
    \A x \in DOMAIN m \ {k} : x \in DOMAIN n /\ (n[x] = m[x] \/ n[x].age = 0)

\* The stores keep all but the entry k.
StoresKept(k) ==
    /\ Kept(offers, offers', k) /\ Kept(parRequests, parRequests', k)
    /\ Kept(authCodes, authCodes', k) /\ Kept(accessTokens, accessTokens', k)

\* What a store keeps stays usable.
LEMMA KeptUsable ==
    ASSUME NEW k, StoresKept(k)
    PROVE  Usable \ Usable' \subseteq {k}
  <1>1. ASSUME NEW x \in Usable, x # k PROVE x \in Usable'
    BY <1>1, TTLAssumption DEF StoresKept, Kept, Usable
  <1> QED
    BY <1>1

\* A request ends the use of the entry it names, and of no other.
LEMMA RequestsKeep ==
    ASSUME [Next]_vars
    PROVE  (\E k : StoresKept(k)) \/ Sweep \/ Tick \/ Restart
  <1> USE DEF StoresKept, Kept, stores, Put, Del, Restrict
  <1>0. ASSUME UNCHANGED stores PROVE \A k : StoresKept(k)
    BY <1>0
  <1>1. ASSUME NEW code \in PreAuthCodes, NEW configId \in ConfigIds,
               CreateOffer(code, configId)
        PROVE  StoresKept(code)
    BY <1>1 DEF CreateOffer
  <1>2. ASSUME NEW uri \in RequestUris, NEW c \in Clients, NEW ch \in Challenges,
               PushPar(uri, c, ch)
        PROVE  StoresKept(uri)
    BY <1>2 DEF PushPar
  <1>3. ASSUME NEW uri \in RequestUris, AuthorizeExpired(uri)
        PROVE  StoresKept(uri)
    BY <1>3 DEF AuthorizeExpired
  <1>4. ASSUME NEW uri \in RequestUris, NEW code \in AuthCodes, Authorize(uri, code)
        PROVE  StoresKept(uri)
    BY <1>4 DEF Authorize
  <1>5. ASSUME NEW code \in AuthCodes, NEW c \in Clients, TokenCodeRefused(code, c)
        PROVE  StoresKept(code)
    BY <1>5 DEF TokenCodeRefused
  <1>6. ASSUME NEW code \in AuthCodes, NEW c \in Clients, NEW v \in Verifiers,
               NEW t \in Tokens, TokenByCode(code, c, v, t)
        PROVE  StoresKept(code)
    BY <1>6 DEF TokenByCode, StoreToken
  <1>7. ASSUME NEW code \in PreAuthCodes, NEW t \in Tokens, TokenByOffer(code, t)
        PROVE  StoresKept(code)
    BY <1>7 DEF TokenByOffer, StoreToken
  <1>8. ASSUME NEW t \in Tokens, CredentialExpired(t)
        PROVE  StoresKept(t)
    BY <1>8 DEF CredentialExpired
  <1>9. ASSUME NEW r \in Requests, NEW t \in Tokens, NEW proof \in Proof,
               CredentialStart(r, t, proof)
        PROVE  StoresKept(t)
    BY <1>9 DEF CredentialStart, Consume
  <1>10. CASE \E r \in Requests : Settle(r)
    BY <1>0, <1>10 DEF Settle, ProofRefused, StartIssuance, FinishIssuance, IssuanceFails
  <1>11. CASE \E idx \in 0 .. ListSize : Revoke(idx)
    BY <1>0, <1>11 DEF Revoke
  <1>12. CASE UNCHANGED vars
    BY <1>0, <1>12 DEF vars
  <1> QED
    BY <1>1, <1>2, <1>3, <1>4, <1>5, <1>6, <1>7, <1>8, <1>9, <1>10, <1>11, <1>12
    DEF Next, Grant, Exchange, Issue

\* A sweep ends the use of nothing.
LEMMA SweepKeeps ==
    ASSUME Sweep
    PROVE  Usable \subseteq Usable'
  BY DEF Sweep, Unexpired, Restrict, Usable

\* No sweep and no request for another grant takes away what a handler would accept.
THEOREM OthersKeepTheirGrantsCorrect == Spec => OthersKeepTheirGrants
  <1>1. ASSUME [Next]_vars
        PROVE  [/\ ~Tick /\ ~Restart => \A x, y \in Usable \ Usable' : x = y
                /\ Sweep => Usable \subseteq Usable']_vars
    <2>1. ASSUME ~Tick, ~Restart, NEW x \in Usable \ Usable', NEW y \in Usable \ Usable'
          PROVE  x = y
      <3>1. CASE Sweep
        BY <2>1, <3>1, SweepKeeps
      <3>2. ASSUME NEW k, StoresKept(k) PROVE x = y
        BY <2>1, <3>2, KeptUsable
      <3> QED
        BY <1>1, <2>1, <3>1, <3>2, RequestsKeep
    <2> QED
      BY <2>1, SweepKeeps
  <1> QED
    BY <1>1, PTL DEF Spec, OthersKeepTheirGrants
-----------------------------------------------------------------------------
(***************************************************************************)
(* The issuer implements the one-time grant: every step of the issuer      *)
(* advances one grant, gives some up, or leaves them all where they are.   *)
(***************************************************************************)

\* The stage that goes with a place.
StageAt(p) ==
    CASE p[1] \in {"offer", "par"} -> "granted"
      [] p[1] = "code"             -> "approved"
      [] p[1] = "token"            -> "tokened"
      [] p[1] = "verifying"        -> "proving"
      [] p[1] = "signing"          -> "signing"
      [] p[1] = "credential"       -> "issued"

\* The stage of a grant is that of its place.
StageReadOff(o) ==
    /\ \A p \in Places(o) : Stage(o) = StageAt(p)
    /\ Places(o) = {} => Stage(o) = IF o \in drawn THEN "void" ELSE "fresh"

\* A grant in one place has the stage of that place.
LEMMA StageIs ==
    SingleUse => \A o \in Origins : StageReadOff(o)
  <1> SUFFICES ASSUME SingleUse, NEW o \in Origins
               PROVE  /\ \A p \in Places(o) : Stage(o) = StageAt(p)
                      /\ Places(o) = {} => Stage(o) = IF o \in drawn THEN "void" ELSE "fresh"
    BY DEF StageReadOff
  <1> DEFINE Granted == o \in DOMAIN offers \cup DOMAIN parRequests
             Approved == \E c \in DOMAIN authCodes : authCodes[c].origin = o
             Tokened == \E t \in DOMAIN accessTokens : accessTokens[t].origin = o
             Proving == \E r \in DOMAIN verifying : verifying[r].pending.origin = o
             Signing == \E r \in DOMAIN signing : signing[r].origin = o
             Issued == \E c \in credentials : c.issuance.origin = o
  <1>1. /\ Granted <=> \E p \in Places(o) : p[1] \in {"offer", "par"}
        /\ Approved <=> \E p \in Places(o) : p[1] = "code"
        /\ Tokened <=> \E p \in Places(o) : p[1] = "token"
        /\ Proving <=> \E p \in Places(o) : p[1] = "verifying"
        /\ Signing <=> \E p \in Places(o) : p[1] = "signing"
        /\ Issued <=> \E p \in Places(o) : p[1] = "credential"
    <2>1. Granted <=> \E p \in Places(o) : p[1] \in {"offer", "par"}
      <3>1. Granted => <<"offer", o>> \in Places(o) \/ <<"par", o>> \in Places(o)
        BY DEF Places
      <3>2. ASSUME NEW p \in Places(o), p[1] \in {"offer", "par"} PROVE Granted
        BY <3>2 DEF Places
      <3> QED
        BY <3>1, <3>2
    <2>2. Approved <=> \E p \in Places(o) : p[1] = "code"
      <3>1. ASSUME NEW c \in DOMAIN authCodes, authCodes[c].origin = o
            PROVE  <<"code", c>> \in Places(o)
        BY <3>1 DEF Places
      <3>2. ASSUME NEW p \in Places(o), p[1] = "code" PROVE Approved
        BY <3>2 DEF Places
      <3> QED
        BY <3>1, <3>2
    <2>3. Tokened <=> \E p \in Places(o) : p[1] = "token"
      <3>1. ASSUME NEW t \in DOMAIN accessTokens, accessTokens[t].origin = o
            PROVE  <<"token", t>> \in Places(o)
        BY <3>1 DEF Places
      <3>2. ASSUME NEW p \in Places(o), p[1] = "token" PROVE Tokened
        BY <3>2 DEF Places
      <3> QED
        BY <3>1, <3>2
    <2>4. Proving <=> \E p \in Places(o) : p[1] = "verifying"
      <3>1. ASSUME NEW r \in DOMAIN verifying, verifying[r].pending.origin = o
            PROVE  <<"verifying", r>> \in Places(o)
        BY <3>1 DEF Places
      <3>2. ASSUME NEW p \in Places(o), p[1] = "verifying" PROVE Proving
        BY <3>2 DEF Places
      <3> QED
        BY <3>1, <3>2
    <2>5. Signing <=> \E p \in Places(o) : p[1] = "signing"
      <3>1. ASSUME NEW r \in DOMAIN signing, signing[r].origin = o
            PROVE  <<"signing", r>> \in Places(o)
        BY <3>1 DEF Places
      <3>2. ASSUME NEW p \in Places(o), p[1] = "signing" PROVE Signing
        BY <3>2 DEF Places
      <3> QED
        BY <3>1, <3>2
    <2>6. Issued <=> \E p \in Places(o) : p[1] = "credential"
      <3>1. ASSUME NEW c \in credentials, c.issuance.origin = o
            PROVE  <<"credential", c>> \in Places(o)
        BY <3>1 DEF Places
      <3>2. ASSUME NEW p \in Places(o), p[1] = "credential" PROVE Issued
        BY <3>2 DEF Places
      <3> QED
        BY <3>1, <3>2
    <2> QED
      BY <2>1, <2>2, <2>3, <2>4, <2>5, <2>6
  <1>2. \A p \in Places(o) : p[1] \in {"offer", "par", "code", "token", "verifying",
                                       "signing", "credential"}
    BY DEF Places
  <1>3. \A p, q \in Places(o) : p = q
    BY DEF SingleUse
  <1>4. Stage(o) = CASE Granted -> "granted" [] Approved -> "approved"
                     [] Tokened -> "tokened" [] Proving -> "proving"
                     [] Signing -> "signing" [] Issued -> "issued"
                     [] OTHER -> IF o \in drawn THEN "void" ELSE "fresh"
    BY DEF Stage
  <1> HIDE DEF Granted, Approved, Tokened, Proving, Signing, Issued
  <1>5. ASSUME NEW p \in Places(o) PROVE Stage(o) = StageAt(p)
    BY <1>1, <1>2, <1>3, <1>4, <1>5 DEF StageAt
  <1>6. Places(o) = {} => Stage(o) = IF o \in drawn THEN "void" ELSE "fresh"
    BY <1>1, <1>4
  <1> QED
    BY <1>5, <1>6

\* The same after a step.
LEMMA StageIsNext ==
    (SingleUse => \A o \in Origins : StageReadOff(o))'
  BY StageIs, PTL

\* The grants where nothing happens.
Rests(o) == Places(o)' = Places(o) /\ (o \in drawn' <=> o \in drawn)

\* They keep their stage.
LEMMA RestingStage ==
    ASSUME IssuerInv, IssuerInv', NEW o \in Origins, Rests(o)
    PROVE  Stage(o)' = Stage(o)
  <1>1. StageReadOff(o)
    BY StageIs DEF IssuerInv
  <1>2. StageReadOff(o)'
    BY StageIsNext DEF IssuerInv
  <1>3. /\ \A p \in Places(o) : Stage(o) = StageAt(p)
        /\ Places(o) = {} => Stage(o) = IF o \in drawn THEN "void" ELSE "fresh"
    BY <1>1 DEF StageReadOff
  <1>4. /\ \A p \in Places(o)' : Stage(o)' = StageAt(p)
        /\ Places(o)' = {} => Stage(o)' = IF o \in drawn' THEN "void" ELSE "fresh"
    BY <1>2 DEF StageReadOff
  <1>5. CASE Places(o) = {}
    BY <1>3, <1>4, <1>5 DEF Rests
  <1>6. CASE Places(o) # {}
    BY <1>3, <1>4, <1>6 DEF Rests
  <1> QED
    BY <1>5, <1>6

\* The grant that goes to place y, from place x or newly drawn.
Goes(o, y) ==
    /\ y \in Places(o)'
    /\ \/ o \notin drawn /\ StageAt(y) = "granted"
       \/ \E x \in Places(o) : StageAt(y) \in Lifecycle!Successors(StageAt(x))
    /\ \A q \in Origins : q # o => Rests(q)

\* It advances.
LEMMA AdvanceStep ==
    ASSUME IssuerInv, IssuerInv', NEW o \in Origins, NEW y, Goes(o, y)
    PROVE  Lifecycle!Next
  <1>1. Stage(o)' = StageAt(y)
    BY StageIsNext DEF IssuerInv, StageReadOff, Goes
  <1>2. StageAt(y) \in Lifecycle!Successors(Stage(o))
    <2>1. CASE o \notin drawn /\ StageAt(y) = "granted"
      <3>1. Places(o) = {} /\ StageReadOff(o)
        BY <2>1, StageIs DEF IssuerInv, PlacesDrawn
      <3>2. Stage(o) = "fresh"
        BY <2>1, <3>1 DEF StageReadOff
      <3> QED
        BY <2>1, <3>2 DEF Lifecycle!Successors
    <2>2. ASSUME NEW x \in Places(o), StageAt(y) \in Lifecycle!Successors(StageAt(x))
          PROVE  StageAt(y) \in Lifecycle!Successors(Stage(o))
      <3>1. Stage(o) = StageAt(x)
        BY StageIs DEF IssuerInv, StageReadOff
      <3> QED
        BY <2>2, <3>1
    <2> QED
      BY <2>1, <2>2 DEF Goes
  <1>3. \A q \in Origins : q # o => Stage(q)' = Stage(q)
    BY RestingStage DEF Goes
  <1> DEFINE S == [q \in Origins |-> Stage(q)]
  <1>4. S' = [S EXCEPT ![o] = StageAt(y)] /\ S[o] = Stage(o)
    BY <1>1, <1>3
  <1>5. Lifecycle!Advance(o)
    BY <1>2, <1>4 DEF Lifecycle!Advance
  <1> QED
    BY <1>5 DEF Lifecycle!Next

\* Steps that move no grant forward.
NoneForward ==
    /\ \A o \in Origins : Stays(o) /\ (o \in drawn' <=> o \in drawn)
    /\ credentials' = credentials

\* Some grants, or none, are given up.
LEMMA GiveUpStep ==
    ASSUME IssuerInv, IssuerInv', NoneForward
    PROVE  Lifecycle!Next
  <1> DEFINE Lost == {o \in Origins : Places(o)' # Places(o)}
             S == [o \in Origins |-> Stage(o)]
  <1>1. ASSUME NEW o \in Lost
        PROVE  Stage(o) \in Lifecycle!Live /\ Stage(o)' = "void"
    <2>1. PICK p \in Places(o) : p \notin Places(o)'
      BY <1>1 DEF NoneForward, Stays
    <2>2. Places(o)' = {}
      <3>1. \A q \in Places(o) : q = p
        BY <2>1 DEF IssuerInv, SingleUse
      <3> QED
        BY <1>1, <2>1, <3>1 DEF NoneForward, Stays
    <2>3. Stage(o)' = "void"
      <3>1. o \in drawn'
        BY <1>1, <2>1 DEF NoneForward, IssuerInv, PlacesDrawn
      <3>2. StageReadOff(o)'
        BY <1>1, StageIsNext DEF IssuerInv
      <3> QED
        BY <2>2, <3>1, <3>2 DEF StageReadOff
    <2>4. p[1] # "credential"
      BY <2>1 DEF NoneForward, Places
    <2>5. p[1] \in {"offer", "par", "code", "token", "verifying", "signing"}
      BY <2>1, <2>4 DEF Places
    <2>6. StageAt(p) \in Lifecycle!Live
      BY <2>5 DEF StageAt, Lifecycle!Live
    <2>7. Stage(o) = StageAt(p)
      BY <1>1, <2>1, StageIs DEF IssuerInv, StageReadOff
    <2> QED
      BY <2>3, <2>6, <2>7
  <1>2. ASSUME NEW o \in Origins \ Lost PROVE Stage(o)' = Stage(o)
    BY <1>2, RestingStage DEF NoneForward, Rests
  <1>3. PICK L : L = Lost
    OBVIOUS
  <1>4. L \in SUBSET Origins /\ \A o \in L : S[o] \in Lifecycle!Live
    BY <1>1, <1>3
  <1>5. S' = [o \in Origins |-> IF o \in L THEN "void" ELSE S[o]]
    BY <1>1, <1>2, <1>3
  <1>6. Lifecycle!GiveUp(L)
    BY <1>4, <1>5 DEF Lifecycle!GiveUp
  <1> QED
    BY <1>4, <1>6 DEF Lifecycle!Next
-----------------------------------------------------------------------------
\* An offer grants its pre-authorized code.
LEMMA OfferGoes ==
    ASSUME IssuerInv, NEW code \in PreAuthCodes, NEW configId, CreateOffer(code, configId)
    PROVE  Goes(code, <<"offer", code>>)
  <1>1. /\ code \notin drawn /\ drawn' = drawn \cup {code}
        /\ DOMAIN offers' = DOMAIN offers \cup {code}
        /\ UNCHANGED <<parRequests, authCodes, accessTokens, verifying, signing,
                       credentials>>
    BY DEF CreateOffer, Draw, Put
  <1>2. \A q \in Origins : q # code => Rests(q)
    BY <1>1 DEF Rests, Places
  <1>3. <<"offer", code>> \in Places(code)'
    BY <1>1 DEF Places
  <1> QED
    BY <1>1, <1>2, <1>3 DEF Goes, StageAt

\* A push grants its request_uri.
LEMMA PushGoes ==
    ASSUME IssuerInv, NEW uri \in RequestUris, NEW c, NEW ch, PushPar(uri, c, ch)
    PROVE  Goes(uri, <<"par", uri>>)
  <1>1. /\ uri \notin drawn /\ drawn' = drawn \cup {uri}
        /\ DOMAIN parRequests' = DOMAIN parRequests \cup {uri}
        /\ UNCHANGED <<offers, authCodes, accessTokens, verifying, signing, credentials>>
    BY DEF PushPar, Draw, Put
  <1>2. \A q \in Origins : q # uri => Rests(q)
    BY <1>1 DEF Rests, Places
  <1>3. <<"par", uri>> \in Places(uri)'
    BY <1>1 DEF Places
  <1> QED
    BY <1>1, <1>2, <1>3 DEF Goes, StageAt

\* The approval takes the grant from its request_uri to its code.
LEMMA AuthorizeGoes ==
    ASSUME IssuerInv, NEW uri \in RequestUris, NEW code \in AuthCodes, Authorize(uri, code)
    PROVE  Goes(uri, <<"code", code>>)
  <1>1. /\ uri \in DOMAIN parRequests
        /\ DOMAIN parRequests' = DOMAIN parRequests \ {uri}
        /\ code \notin DOMAIN authCodes
        /\ DOMAIN authCodes' = DOMAIN authCodes \cup {code}
        /\ authCodes'[code].origin = uri
        /\ \A c \in DOMAIN authCodes : authCodes'[c] = authCodes[c]
        /\ drawn' = drawn \cup {code}
        /\ UNCHANGED <<offers, accessTokens, verifying, signing, credentials>>
    BY DEF Authorize, Put, Del, Restrict, Draw, IssuerInv, NothingOverwritten
  <1>2. ASSUME NEW q \in Origins, q # uri PROVE Rests(q)
    <2>1. q # code
      BY OriginAssumption DEF Origins
    <2> QED
      BY <1>1, <1>2, <2>1 DEF Rests, Places
  <1>3. <<"par", uri>> \in Places(uri) /\ <<"code", code>> \in Places(uri)'
    BY <1>1 DEF Places
  <1>4. StageAt(<<"code", code>>) \in Lifecycle!Successors(StageAt(<<"par", uri>>))
    BY DEF StageAt, Lifecycle!Successors
  <1> QED
    BY <1>2, <1>3, <1>4 DEF Goes

\* A token is stored under a fresh name, or not at all.
LEMMA TokenStored ==
    ASSUME IssuerInv, NEW token \in Tokens, NEW configId, NEW origin, NEW life,
           StoreToken(token, configId, origin, life)
    PROVE  \/ UNCHANGED <<drawn, accessTokens>>
           \/ /\ drawn' = drawn \cup {token} /\ token \notin Origins
              /\ token \notin DOMAIN accessTokens
              /\ DOMAIN accessTokens' = DOMAIN accessTokens \cup {token}
              /\ accessTokens'[token].origin = origin
              /\ \A t \in DOMAIN accessTokens : accessTokens'[t] = accessTokens[t]
  <1>1. token \notin drawn => token \notin DOMAIN accessTokens
    BY DEF IssuerInv, NonceInOnePlace
  <1>2. token \notin Origins
    BY OriginAssumption DEF Origins
  <1> QED
    BY <1>1, <1>2 DEF StoreToken, Draw, Put

\* The exchange takes the grant from its code to its token.
LEMMA ByCodeGoes ==
    ASSUME IssuerInv, NEW code \in AuthCodes, NEW c, NEW v, NEW token \in Tokens,
           TokenByCode(code, c, v, token)
    PROVE  NoneForward \/ (\E o \in Origins : Goes(o, <<"token", token>>))
  <1>0. PICK origin : origin = authCodes[code].origin
    OBVIOUS
  <1>1. /\ code \in DOMAIN authCodes
        /\ DOMAIN authCodes' = DOMAIN authCodes \ {code}
        /\ \A x \in DOMAIN authCodes' : authCodes'[x] = authCodes[x]
        /\ UNCHANGED <<offers, parRequests, verifying, signing, credentials>>
    BY DEF TokenByCode, Del, Restrict
  <1>2. \E life : StoreToken(token, "PID", origin, life)
    BY <1>0 DEF TokenByCode
  <1>3. CASE UNCHANGED <<drawn, accessTokens>>
    BY <1>1, <1>3 DEF NoneForward, Stays, Places
  <1>4. CASE /\ drawn' = drawn \cup {token} /\ token \notin Origins
             /\ token \notin DOMAIN accessTokens
             /\ DOMAIN accessTokens' = DOMAIN accessTokens \cup {token}
             /\ accessTokens'[token].origin = origin
             /\ \A t \in DOMAIN accessTokens : accessTokens'[t] = accessTokens[t]
    <2>1. \A q \in Origins : q # origin => Rests(q)
      BY <1>0, <1>1, <1>4 DEF Rests, Places
    <2>2. <<"code", code>> \in Places(origin) /\ <<"token", token>> \in Places(origin)'
      BY <1>0, <1>1, <1>4 DEF Places
    <2>3. StageAt(<<"token", token>>) \in Lifecycle!Successors(StageAt(<<"code", code>>))
      BY DEF StageAt, Lifecycle!Successors
    <2>4. origin \in Origins
      BY <1>0, <1>1 DEF IssuerInv, TypeOK, IsMap, AuthCode, Origins
    <2> QED
      BY <2>1, <2>2, <2>3, <2>4 DEF Goes
  <1> QED
    BY <1>2, <1>3, <1>4, TokenStored

\* The exchange takes the grant from its offer to its token.
LEMMA ByOfferGoes ==
    ASSUME IssuerInv, NEW code \in PreAuthCodes, NEW token \in Tokens,
           TokenByOffer(code, token)
    PROVE  NoneForward \/ Goes(code, <<"token", token>>)
  <1>1. /\ code \in DOMAIN offers
        /\ DOMAIN offers' = DOMAIN offers \ {code}
        /\ UNCHANGED <<parRequests, authCodes, verifying, signing, credentials>>
    BY DEF TokenByOffer, Del, Restrict
  <1>2. CASE UNCHANGED <<drawn, accessTokens>>
    BY <1>1, <1>2 DEF NoneForward, Stays, Places
  <1>3. CASE /\ drawn' = drawn \cup {token} /\ token \notin Origins
             /\ token \notin DOMAIN accessTokens
             /\ DOMAIN accessTokens' = DOMAIN accessTokens \cup {token}
             /\ accessTokens'[token].origin = code
             /\ \A t \in DOMAIN accessTokens : accessTokens'[t] = accessTokens[t]
    <2>1. \A q \in Origins : q # code => Rests(q)
      BY <1>1, <1>3 DEF Rests, Places
    <2>2. <<"offer", code>> \in Places(code) /\ <<"token", token>> \in Places(code)'
      BY <1>1, <1>3 DEF Places
    <2>3. StageAt(<<"token", token>>) \in Lifecycle!Successors(StageAt(<<"offer", code>>))
      BY DEF StageAt, Lifecycle!Successors
    <2> QED
      BY <2>1, <2>2, <2>3 DEF Goes
  <1>4. UNCHANGED <<drawn, accessTokens>>
        \/ \E configId, life : StoreToken(token, configId, code, life)
    BY DEF TokenByOffer
  <1> QED
    BY <1>2, <1>3, <1>4, TokenStored
-----------------------------------------------------------------------------
\* /credential takes the grant from its token to the proof being verified.
LEMMA StartGoes ==
    ASSUME IssuerInv, NEW r \in Requests, NEW t \in Tokens, NEW proof \in Proof,
           CredentialStart(r, t, proof)
    PROVE  NoneForward \/ (\E o \in Origins : Goes(o, <<"verifying", r>>))
  <1>0. PICK origin : origin = accessTokens[t].origin
    OBVIOUS
  <1>1. /\ t \in DOMAIN accessTokens
        /\ DOMAIN accessTokens' = DOMAIN accessTokens \ {t}
        /\ \A x \in DOMAIN accessTokens' : accessTokens'[x] = accessTokens[x]
        /\ r \notin DOMAIN verifying
        /\ UNCHANGED <<drawn, offers, parRequests, authCodes, signing, credentials>>
    BY DEF CredentialStart, Consume, Del, Restrict
  <1>2. CASE verifying' = verifying
    BY <1>1, <1>2 DEF NoneForward, Stays, Places
  <1>3. CASE verifying' = Put(verifying, r, [pending |-> accessTokens[t], proof |-> proof])
    <2>1. /\ DOMAIN verifying' = DOMAIN verifying \cup {r}
          /\ verifying'[r].pending.origin = origin
          /\ \A s \in DOMAIN verifying : verifying'[s] = verifying[s]
      BY <1>0, <1>1, <1>3 DEF Put
    <2>2. \A q \in Origins : q # origin => Rests(q)
      BY <1>0, <1>1, <2>1 DEF Rests, Places
    <2>3. <<"token", t>> \in Places(origin) /\ <<"verifying", r>> \in Places(origin)'
      BY <1>0, <1>1, <2>1 DEF Places
    <2>4. StageAt(<<"verifying", r>>) \in Lifecycle!Successors(StageAt(<<"token", t>>))
      BY DEF StageAt, Lifecycle!Successors
    <2>5. origin \in Origins
      BY <1>0, <1>1 DEF IssuerInv, TypeOK, IsMap, Pending
    <2> QED
      BY <2>2, <2>3, <2>4, <2>5 DEF Goes
  <1> QED
    BY <1>2, <1>3 DEF CredentialStart

\* An accepted proof takes the grant to the credential being signed.
LEMMA IssuanceGoes ==
    ASSUME IssuerInv, NEW r \in Requests, StartIssuance(r)
    PROVE  \E o \in Origins : Goes(o, <<"signing", r>>)
  <1>0. PICK origin : origin = verifying[r].pending.origin
    OBVIOUS
  <1>1. /\ r \in DOMAIN verifying /\ r \notin DOMAIN signing
        /\ DOMAIN verifying' = DOMAIN verifying \ {r}
        /\ \A s \in DOMAIN verifying' : verifying'[s] = verifying[s]
        /\ UNCHANGED <<drawn, stores, credentials>>
    BY DEF StartIssuance, Del, Restrict, IssuerInv, NothingOverwritten
  <1>2. /\ DOMAIN signing' = DOMAIN signing \cup {r}
        /\ signing'[r].origin = origin
        /\ \A s \in DOMAIN signing : signing'[s] = signing[s]
    BY <1>0, <1>1 DEF StartIssuance, Put
  <1>3. \A q \in Origins : q # origin => Rests(q)
    BY <1>0, <1>1, <1>2 DEF Rests, Places, stores
  <1>4. <<"verifying", r>> \in Places(origin) /\ <<"signing", r>> \in Places(origin)'
    BY <1>0, <1>1, <1>2 DEF Places
  <1>5. StageAt(<<"signing", r>>) \in Lifecycle!Successors(StageAt(<<"verifying", r>>))
    BY DEF StageAt, Lifecycle!Successors
  <1>6. origin \in Origins
    BY <1>0, <1>1 DEF IssuerInv, TypeOK, IsMap, Verification, Pending
  <1> QED
    BY <1>3, <1>4, <1>5, <1>6 DEF Goes

\* The signed credential settles the grant.
LEMMA FinishGoes ==
    ASSUME IssuerInv, NEW r \in Requests, FinishIssuance(r)
    PROVE  \E o \in Origins : \E c : Goes(o, <<"credential", c>>)
  <1>0. PICK origin, sent :
            /\ origin = signing[r].origin
            /\ sent = [issuance |-> signing[r], key |-> key]
    OBVIOUS
  <1>1. /\ r \in DOMAIN signing
        /\ DOMAIN signing' = DOMAIN signing \ {r}
        /\ \A s \in DOMAIN signing' : signing'[s] = signing[s]
        /\ credentials' = credentials \cup {sent}
        /\ UNCHANGED <<drawn, stores, verifying>>
    BY <1>0 DEF FinishIssuance, Del, Restrict
  <1>2. sent.issuance.origin = origin
    BY <1>0
  <1>3. \A q \in Origins : q # origin => Rests(q)
    BY <1>0, <1>1, <1>2 DEF Rests, Places, stores
  <1>4. <<"signing", r>> \in Places(origin) /\ <<"credential", sent>> \in Places(origin)'
    BY <1>0, <1>1, <1>2 DEF Places
  <1>5. StageAt(<<"credential", sent>>) \in Lifecycle!Successors(StageAt(<<"signing", r>>))
    BY DEF StageAt, Lifecycle!Successors
  <1>6. origin \in Origins
    BY <1>0, <1>1 DEF IssuerInv, TypeOK, IsMap, Issuance
  <1> QED
    BY <1>3, <1>4, <1>5, <1>6 DEF Goes

\* Entries that are only dropped take no grant forward.
LEMMA StoresShrink ==
    ASSUME UNCHANGED <<drawn, credentials>>,
           DOMAIN offers' \subseteq DOMAIN offers,
           DOMAIN parRequests' \subseteq DOMAIN parRequests,
           DOMAIN authCodes' \subseteq DOMAIN authCodes,
           \A c \in DOMAIN authCodes' : authCodes'[c] = authCodes[c],
           DOMAIN accessTokens' \subseteq DOMAIN accessTokens,
           \A t \in DOMAIN accessTokens' : accessTokens'[t] = accessTokens[t],
           DOMAIN verifying' \subseteq DOMAIN verifying,
           \A r \in DOMAIN verifying' : verifying'[r] = verifying[r],
           DOMAIN signing' \subseteq DOMAIN signing,
           \A r \in DOMAIN signing' : signing'[r] = signing[r]
    PROVE  NoneForward
  <1>1. ASSUME NEW o, NEW p \in Places(o)' PROVE p \in Places(o)
    BY <1>1 DEF Places
  <1> QED
    BY <1>1 DEF NoneForward, Stays

\* So do refusals, and requests that find their grant expired.
LEMMA RefusalsDrop ==
    /\ \A uri : AuthorizeExpired(uri) => NoneForward
    /\ \A code, c : TokenCodeRefused(code, c) => NoneForward
    /\ \A t : CredentialExpired(t) => NoneForward
    /\ \A r : ProofRefused(r) \/ IssuanceFails(r) => NoneForward
  <1>1. ASSUME NEW uri, AuthorizeExpired(uri) PROVE NoneForward
    <2>1. /\ DOMAIN parRequests' \subseteq DOMAIN parRequests
          /\ UNCHANGED <<drawn, credentials, offers, authCodes, accessTokens, verifying, signing>>
      BY <1>1 DEF AuthorizeExpired, Del, Restrict
    <2> QED
      BY <2>1, StoresShrink
  <1>2. ASSUME NEW code, NEW c, TokenCodeRefused(code, c) PROVE NoneForward
    <2>1. /\ DOMAIN authCodes' \subseteq DOMAIN authCodes
          /\ \A x \in DOMAIN authCodes' : authCodes'[x] = authCodes[x]
          /\ UNCHANGED <<drawn, credentials, offers, parRequests, accessTokens, verifying,
                         signing>>
      BY <1>2 DEF TokenCodeRefused, Del, Restrict
    <2> QED
      BY <2>1, StoresShrink
  <1>3. ASSUME NEW t, CredentialExpired(t) PROVE NoneForward
    <2>1. /\ DOMAIN accessTokens' \subseteq DOMAIN accessTokens
          /\ \A x \in DOMAIN accessTokens' : accessTokens'[x] = accessTokens[x]
          /\ UNCHANGED <<drawn, credentials, offers, parRequests, authCodes, verifying, signing>>
      BY <1>3 DEF CredentialExpired, Del, Restrict
    <2> QED
      BY <2>1, StoresShrink
  <1>4. ASSUME NEW r, ProofRefused(r) PROVE NoneForward
    <2>1. /\ DOMAIN verifying' \subseteq DOMAIN verifying
          /\ \A x \in DOMAIN verifying' : verifying'[x] = verifying[x]
          /\ UNCHANGED <<drawn, credentials, offers, parRequests, authCodes, accessTokens,
                         signing>>
      BY <1>4 DEF ProofRefused, Del, Restrict, stores
    <2> QED
      BY <2>1, StoresShrink
  <1>5. ASSUME NEW r, IssuanceFails(r) PROVE NoneForward
    <2>1. /\ DOMAIN signing' \subseteq DOMAIN signing
          /\ \A x \in DOMAIN signing' : signing'[x] = signing[x]
          /\ UNCHANGED <<drawn, credentials, offers, parRequests, authCodes, accessTokens,
                         verifying>>
      BY <1>5 DEF IssuanceFails, Del, Restrict, stores
    <2> QED
      BY <2>1, StoresShrink
  <1> QED
    BY <1>1, <1>2, <1>3, <1>4, <1>5

\* Every step advances one grant or moves none forward.
LEMMA StepMoves ==
    ASSUME IssuerInv, [Next]_vars
    PROVE  NoneForward \/ \E o \in Origins : \E y : Goes(o, y)
  <1>1. CASE Grant
    <2>1. ASSUME NEW code \in PreAuthCodes, NEW configId \in ConfigIds,
                 CreateOffer(code, configId)
          PROVE  \E o \in Origins : \E y : Goes(o, y)
      BY <2>1, OfferGoes DEF Origins
    <2>2. ASSUME NEW uri \in RequestUris, NEW c \in Clients, NEW ch \in Challenges,
                 PushPar(uri, c, ch)
          PROVE  \E o \in Origins : \E y : Goes(o, y)
      BY <2>2, PushGoes DEF Origins
    <2>3. ASSUME NEW uri \in RequestUris, AuthorizeExpired(uri) PROVE NoneForward
      BY <2>3, RefusalsDrop
    <2>4. ASSUME NEW uri \in RequestUris, NEW code \in AuthCodes, Authorize(uri, code)
          PROVE  \E o \in Origins : \E y : Goes(o, y)
      BY <2>4, AuthorizeGoes DEF Origins
    <2> QED
      BY <1>1, <2>1, <2>2, <2>3, <2>4 DEF Grant
  <1>2. CASE Exchange
    <2>1. ASSUME NEW code \in AuthCodes, NEW c \in Clients, TokenCodeRefused(code, c)
          PROVE  NoneForward
      BY <2>1, RefusalsDrop
    <2>2. ASSUME NEW code \in AuthCodes, NEW c \in Clients, NEW v \in Verifiers,
                 NEW t \in Tokens, TokenByCode(code, c, v, t)
          PROVE  NoneForward \/ \E o \in Origins : \E y : Goes(o, y)
      BY <2>2, ByCodeGoes
    <2>3. ASSUME NEW code \in PreAuthCodes, NEW t \in Tokens, TokenByOffer(code, t)
          PROVE  NoneForward \/ \E o \in Origins : \E y : Goes(o, y)
      BY <2>3, ByOfferGoes DEF Origins
    <2> QED
      BY <1>2, <2>1, <2>2, <2>3 DEF Exchange
  <1>3. CASE Issue
    <2>1. ASSUME NEW t \in Tokens, CredentialExpired(t) PROVE NoneForward
      BY <2>1, RefusalsDrop
    <2>2. ASSUME NEW r \in Requests, NEW t \in Tokens, NEW proof \in Proof,
                 CredentialStart(r, t, proof)
          PROVE  NoneForward \/ \E o \in Origins : \E y : Goes(o, y)
      BY <2>2, StartGoes
    <2>3. ASSUME NEW r \in Requests, ProofRefused(r) \/ IssuanceFails(r)
          PROVE  NoneForward
      BY <2>3, RefusalsDrop
    <2>4. ASSUME NEW r \in Requests, StartIssuance(r) \/ FinishIssuance(r)
          PROVE  \E o \in Origins : \E y : Goes(o, y)
      BY <2>4, IssuanceGoes, FinishGoes
    <2> QED
      BY <1>3, <2>1, <2>2, <2>3, <2>4 DEF Issue, Settle
  <1>4. CASE (\E idx \in 0 .. ListSize : Revoke(idx)) \/ Sweep \/ Tick \/ Restart
             \/ UNCHANGED vars
    <2>1. drawn' = drawn /\ credentials' = credentials
      BY <1>4 DEF Revoke, Sweep, Tick, Restart, vars
    <2>2. \A o \in Origins : Stays(o)
      BY <1>4, StaysElsewhere DEF IssuerInv
    <2> QED
      BY <2>1, <2>2 DEF NoneForward
  <1> QED
    BY <1>1, <1>2, <1>3, <1>4 DEF Next
-----------------------------------------------------------------------------
\* The initial states correspond.
LEMMA InitRefines ==
    ASSUME Init
    PROVE  Lifecycle!Init
  <1>1. /\ DOMAIN offers = {} /\ DOMAIN parRequests = {} /\ DOMAIN authCodes = {}
        /\ DOMAIN accessTokens = {} /\ DOMAIN verifying = {} /\ DOMAIN signing = {}
        /\ credentials = {} /\ drawn = {}
    BY EmptyMapType DEF Init
  <1>2. \A o \in Origins : Stage(o) = "fresh"
    BY <1>1 DEF Stage
  <1> QED
    BY <1>2 DEF Lifecycle!Init

\* A grant goes forward through the stages of its flow, is given up for good at any of
\* them, and is issued at most once, for any number of grants, overlapping requests of
\* /credential, sweeps and restarts.
THEOREM Refines == Spec => ImplementsOneTimeGrant
  <1>1. Init => Lifecycle!Init
    BY InitRefines
  <1>2. IssuerInv /\ IssuerInv' /\ [Next]_vars =>
            [Lifecycle!Next]_([o \in Origins |-> Stage(o)])
    BY StepMoves, GiveUpStep, AdvanceStep
  <1> QED
    BY <1>1, <1>2, InvCorrect, PTL DEF Spec, ImplementsOneTimeGrant, Lifecycle!Spec
-----------------------------------------------------------------------------
(***************************************************************************)
(* Which endpoint takes a grant how far.  A client of the issuer relies on *)
(* it: it takes its next step when an endpoint has answered.               *)
(***************************************************************************)

\* The endpoints, with the outcomes that only drop what was asked for.
Offered ==
    \/ \E code \in PreAuthCodes, configId \in ConfigIds : CreateOffer(code, configId)
    \/ \E uri \in RequestUris, c \in Clients, ch \in Challenges : PushPar(uri, c, ch)

Approved ==
    \E uri \in RequestUris :
        AuthorizeExpired(uri) \/ \E code \in AuthCodes : Authorize(uri, code)

Redeemed ==
    \E t \in Tokens :
        \/ CredentialExpired(t)
        \/ \E r \in Requests, proof \in Proof : CredentialStart(r, t, proof)

Proved == \E r \in Requests : ProofRefused(r) \/ StartIssuance(r)
Signed == \E r \in Requests : FinishIssuance(r) \/ IssuanceFails(r)

\* What no client asks for.
Unasked == (\E idx \in 0 .. ListSize : Revoke(idx)) \/ Sweep \/ Tick \/ Restart

\* A step takes grants only to stage s, or gives them up.
MovesOnlyTo(s) == \A o \in Origins : Stage(o)' \in {Stage(o), s, "void"}

\* A grant reaches a stage at one endpoint only: /offer and /par grant, /authorize
\* approves, /token exchanges, /credential takes the token, then starts to sign, then
\* issues.  Revocations, sweeps, the clock and restarts bring no grant any further.
EndpointsKeepToTheirStage ==
    [][/\ Offered => MovesOnlyTo("granted")
       /\ Approved => MovesOnlyTo("approved")
       /\ Exchange => MovesOnlyTo("tokened")
       /\ Redeemed => MovesOnlyTo("proving")
       /\ Proved => MovesOnlyTo("signing")
       /\ Signed => MovesOnlyTo("issued")
       /\ Unasked => MovesOnlyTo("void")]_vars

\* A grant that goes to a place takes its stage, and the others keep theirs.
LEMMA GoingStage ==
    ASSUME IssuerInv, IssuerInv', NEW o \in Origins, NEW y, Goes(o, y)
    PROVE  MovesOnlyTo(StageAt(y))
  <1>1. Stage(o)' = StageAt(y)
    BY StageIsNext DEF IssuerInv, StageReadOff, Goes
  <1>2. \A q \in Origins : q # o => Stage(q)' = Stage(q)
    BY RestingStage DEF Goes
  <1> QED
    BY <1>1, <1>2 DEF MovesOnlyTo

\* A step that moves no grant forward takes none to any stage.
LEMMA DroppingStage ==
    ASSUME IssuerInv, IssuerInv', NoneForward, NEW s
    PROVE  MovesOnlyTo(s)
  <1> SUFFICES ASSUME NEW o \in Origins PROVE Stage(o)' \in {Stage(o), "void"}
    BY DEF MovesOnlyTo
  <1>1. CASE Places(o)' = Places(o)
    BY <1>1, RestingStage DEF NoneForward, Rests
  <1>2. CASE Places(o)' # Places(o)
    <2>1. PICK p \in Places(o) : p \notin Places(o)'
      BY <1>2 DEF NoneForward, Stays
    <2>2. Places(o)' = {}
      BY <2>1 DEF NoneForward, Stays, IssuerInv, SingleUse
    <2>3. o \in drawn'
      BY <2>1 DEF NoneForward, IssuerInv, PlacesDrawn
    <2>4. StageReadOff(o)'
      BY StageIsNext DEF IssuerInv
    <2> QED
      BY <2>2, <2>3, <2>4 DEF StageReadOff
  <1> QED
    BY <1>1, <1>2

\* No endpoint takes a grant past its own stage, for any number of grants and
\* overlapping requests: what the model of the system takes an answer to mean.
THEOREM EndpointsKeepToTheirStageCorrect == Spec => EndpointsKeepToTheirStage
  <1> SUFFICES ASSUME IssuerInv, IssuerInv', [Next]_vars
               PROVE  /\ Offered => MovesOnlyTo("granted")
                      /\ Approved => MovesOnlyTo("approved")
                      /\ Exchange => MovesOnlyTo("tokened")
                      /\ Redeemed => MovesOnlyTo("proving")
                      /\ Proved => MovesOnlyTo("signing")
                      /\ Signed => MovesOnlyTo("issued")
                      /\ Unasked => MovesOnlyTo("void")
    BY InvCorrect, PTL DEF Spec, EndpointsKeepToTheirStage
  <1>1. ASSUME Offered PROVE MovesOnlyTo("granted")
    <2>1. ASSUME NEW code \in PreAuthCodes, NEW configId, CreateOffer(code, configId)
          PROVE  MovesOnlyTo("granted")
      <3>1. Goes(code, <<"offer", code>>) /\ code \in Origins
        BY <2>1, OfferGoes DEF Origins
      <3>2. StageAt(<<"offer", code>>) = "granted"
        BY DEF StageAt
      <3> QED
        BY <3>1, <3>2, GoingStage
    <2>2. ASSUME NEW uri \in RequestUris, NEW c, NEW ch, PushPar(uri, c, ch)
          PROVE  MovesOnlyTo("granted")
      <3>1. Goes(uri, <<"par", uri>>) /\ uri \in Origins
        BY <2>2, PushGoes DEF Origins
      <3>2. StageAt(<<"par", uri>>) = "granted"
        BY DEF StageAt
      <3> QED
        BY <3>1, <3>2, GoingStage
    <2> QED
      BY <1>1, <2>1, <2>2 DEF Offered
  <1>2. ASSUME Approved PROVE MovesOnlyTo("approved")
    <2>1. ASSUME NEW uri \in RequestUris, AuthorizeExpired(uri) PROVE MovesOnlyTo("approved")
      BY <2>1, RefusalsDrop, DroppingStage
    <2>2. ASSUME NEW uri \in RequestUris, NEW code \in AuthCodes, Authorize(uri, code)
          PROVE  MovesOnlyTo("approved")
      <3>1. Goes(uri, <<"code", code>>) /\ uri \in Origins
        BY <2>2, AuthorizeGoes DEF Origins
      <3>2. StageAt(<<"code", code>>) = "approved"
        BY DEF StageAt
      <3> QED
        BY <3>1, <3>2, GoingStage
    <2> QED
      BY <1>2, <2>1, <2>2 DEF Approved
  <1>3. ASSUME Exchange PROVE MovesOnlyTo("tokened")
    <2>1. ASSUME NEW t \in Tokens,
                 NoneForward \/ \E o \in Origins : Goes(o, <<"token", t>>)
          PROVE  MovesOnlyTo("tokened")
      <3>1. StageAt(<<"token", t>>) = "tokened"
        BY DEF StageAt
      <3> QED
        BY <2>1, <3>1, GoingStage, DroppingStage
    <2>2. ASSUME NEW code \in AuthCodes, NEW c \in Clients, TokenCodeRefused(code, c)
          PROVE  MovesOnlyTo("tokened")
      BY <2>2, RefusalsDrop, DroppingStage
    <2>3. ASSUME NEW code \in AuthCodes, NEW c \in Clients, NEW v \in Verifiers,
                 NEW t \in Tokens, TokenByCode(code, c, v, t)
          PROVE  MovesOnlyTo("tokened")
      BY <2>1, <2>3, ByCodeGoes
    <2>4. ASSUME NEW code \in PreAuthCodes, NEW t \in Tokens, TokenByOffer(code, t)
          PROVE  MovesOnlyTo("tokened")
      BY <2>1, <2>4, ByOfferGoes DEF Origins
    <2> QED
      BY <1>3, <2>2, <2>3, <2>4 DEF Exchange
  <1>4. ASSUME Redeemed PROVE MovesOnlyTo("proving")
    <2>1. ASSUME NEW t \in Tokens, CredentialExpired(t) PROVE MovesOnlyTo("proving")
      BY <2>1, RefusalsDrop, DroppingStage
    <2>2. ASSUME NEW r \in Requests, NEW t \in Tokens, NEW proof \in Proof,
                 CredentialStart(r, t, proof)
          PROVE  MovesOnlyTo("proving")
      <3>1. NoneForward \/ \E o \in Origins : Goes(o, <<"verifying", r>>)
        BY <2>2, StartGoes
      <3>2. StageAt(<<"verifying", r>>) = "proving"
        BY DEF StageAt
      <3> QED
        BY <3>1, <3>2, GoingStage, DroppingStage
    <2> QED
      BY <1>4, <2>1, <2>2 DEF Redeemed
  <1>5. ASSUME NEW r \in Requests, ProofRefused(r) \/ IssuanceFails(r), NEW s
        PROVE  MovesOnlyTo(s)
    BY <1>5, RefusalsDrop, DroppingStage
  <1>6. ASSUME Proved PROVE MovesOnlyTo("signing")
    <2>1. ASSUME NEW r \in Requests, StartIssuance(r) PROVE MovesOnlyTo("signing")
      <3>1. \E o \in Origins : Goes(o, <<"signing", r>>)
        BY <2>1, IssuanceGoes
      <3>2. StageAt(<<"signing", r>>) = "signing"
        BY DEF StageAt
      <3> QED
        BY <3>1, <3>2, GoingStage
    <2> QED
      BY <1>5, <1>6, <2>1 DEF Proved
  <1>7. ASSUME Signed PROVE MovesOnlyTo("issued")
    <2>1. ASSUME NEW r \in Requests, FinishIssuance(r) PROVE MovesOnlyTo("issued")
      <3>0. PICK o \in Origins : \E c : Goes(o, <<"credential", c>>)
        BY <2>1, FinishGoes
      <3>1. PICK c : Goes(o, <<"credential", c>>)
        BY <3>0
      <3>2. StageAt(<<"credential", c>>) = "issued"
        BY DEF StageAt
      <3> QED
        BY <3>1, <3>2, GoingStage
    <2> QED
      BY <1>5, <1>7, <2>1 DEF Signed
  <1>8. ASSUME Unasked PROVE MovesOnlyTo("void")
    <2>1. drawn' = drawn /\ credentials' = credentials
      BY <1>8 DEF Unasked, Revoke, Sweep, Tick, Restart
    <2>2. \A o \in Origins : Stays(o)
      BY <1>8, StaysElsewhere DEF IssuerInv, Unasked
    <2>3. NoneForward
      BY <2>1, <2>2 DEF NoneForward
    <2> QED
      BY <2>3, DroppingStage
  <1> QED
    BY <1>1, <1>2, <1>3, <1>4, <1>6, <1>7, <1>8
=============================================================================
