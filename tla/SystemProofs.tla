---------------------------- MODULE SystemProofs ----------------------------
(***************************************************************************)
(* What the wallet can rely on and what it cannot, for any number of       *)
(* attempts and of faults.                                                 *)
(***************************************************************************)
EXTENDS SystemInvariant, TLAPS

AttemptType == [Attempts -> [format : Formats, status : {"unused", "running", "ok", "error"}]]
WireType == [Attempts -> Wires \cup {None}]
PageType == [get : BOOLEAN, present : SUBSET Formats, awaits : SUBSET Attempts]

\* A service answers: of the requests only that one changes, and goes nowhere else.
LEMMA AnswerWire ==
    ASSUME wire \in WireType, NEW a \in Attempts, wire[a] # None,
           NEW how \in {"serving", "answered", "refused"}, Answer(a, how)
    PROVE  /\ wire' \in WireType
           /\ wire'[a] \in Wires /\ wire'[a].to = wire[a].to /\ wire'[a].is = how
           /\ \A b \in Attempts : b # a => wire'[b] = wire[b]
  <1>1. wire[a] \in Wires
    BY DEF WireType
  <1>2. [wire[a] EXCEPT !.is = how] \in Wires
    BY <1>1 DEF Wires
  <1> QED
    BY <1>1, <1>2 DEF Answer, WireType, Wires

\* The wallet sends the next request.
LEMMA SendWire ==
    ASSUME wire \in WireType, NEW a \in Attempts, NEW e \in Endpoints,
           wire' = [wire EXCEPT ![a] = Sent(e)]
    PROVE  /\ wire' \in WireType
           /\ wire'[a].to = e /\ wire'[a].is = "sent"
           /\ \A b \in Attempts : b # a => wire'[b] = wire[b]
  <1>1. Sent(e) \in Wires
    BY DEF Sent, Wires
  <1> QED
    BY <1>1 DEF WireType, Sent

\* An attempt starts.
LEMMA StartAttempt ==
    ASSUME attempt \in AttemptType, wire \in WireType, NEW a \in Attempts, NEW f \in Formats,
           NEW e \in Endpoints, Start(a, f, e)
    PROVE  /\ attempt' \in AttemptType /\ wire' \in WireType
           /\ attempt[a].status = "unused"
           /\ attempt'[a].format = f /\ attempt'[a].status = "running"
           /\ \A b \in Attempts : b # a => attempt'[b] = attempt[b]
           /\ wire'[a].to = e /\ wire'[a].is = "sent"
           /\ \A b \in Attempts : b # a => wire'[b] = wire[b]
  <1>1. [format |-> f, status |-> "running"]
            \in [format : Formats, status : {"unused", "running", "ok", "error"}]
    OBVIOUS
  <1>2. attempt' \in AttemptType
    BY <1>1 DEF Start, AttemptType
  <1>3. /\ attempt[a].status = "unused"
        /\ attempt'[a].format = f /\ attempt'[a].status = "running"
        /\ \A b \in Attempts : b # a => attempt'[b] = attempt[b]
    BY DEF Start, AttemptType
  <1>4. wire' = [wire EXCEPT ![a] = Sent(e)]
    BY DEF Start
  <1> QED
    BY <1>2, <1>3, <1>4, SendWire

\* Attempts end.
LEMMA FinishAttempts ==
    ASSUME TypeOK, NEW A \in SUBSET Attempts, NEW status \in {"ok", "error"}, Finish(A, status)
    PROVE  /\ attempt' \in AttemptType
           /\ request' \in [Presents -> RequestObjects \cup {None}]
           /\ jwks' \in [Presents -> VerifierKeys \cup {None}]
           /\ wire' = wire
           /\ \A a \in Attempts : attempt'[a].format = attempt[a].format
           /\ \A a \in A : attempt'[a].status = status
           /\ \A a \in Attempts \ A : attempt'[a] = attempt[a]
           /\ \A p \in Presents \ A : request'[p] = request[p] /\ jwks'[p] = jwks[p]
           /\ \A p \in Presents \cap A : request'[p] = None /\ jwks'[p] = None
  <1>0. /\ attempt \in AttemptType
        /\ request \in [Presents -> RequestObjects \cup {None}]
        /\ jwks \in [Presents -> VerifierKeys \cup {None}]
    BY DEF TypeOK, AttemptType
  <1>1. \A a \in Attempts : [attempt[a] EXCEPT !.status = status]
            \in [format : Formats, status : {"unused", "running", "ok", "error"}]
    BY <1>0 DEF AttemptType
  <1>2. attempt' \in AttemptType
    BY <1>0, <1>1 DEF Finish, AttemptType
  <1>3. \A a \in Attempts : attempt'[a].format = attempt[a].format
    BY <1>0 DEF Finish, AttemptType
  <1>4. \A a \in A : attempt'[a].status = status
    BY <1>0 DEF Finish, AttemptType
  <1>5. \A a \in Attempts \ A : attempt'[a] = attempt[a]
    BY <1>0 DEF Finish, AttemptType
  <1> QED
    BY <1>0, <1>2, <1>3, <1>4, <1>5 DEF Finish

\* The page after the end of an attempt.
LEMMA EndPage ==
    ASSUME TypeOK, NEW a \in Attempts, NEW status \in {"ok", "error"}, End(a, status)
    PROVE  /\ page' \in PageType
           /\ page'.present \subseteq page.present \cup PresentAgain(a, status)
  <1>0. page \in PageType /\ attempt[a].format \in Formats
    BY DEF TypeOK, PageType
  <1>1. PresentAgain(a, status) \subseteq Formats
    BY <1>0 DEF PresentAgain
  <1>2. CASE a \notin page.awaits
    BY <1>0, <1>2 DEF End
  <1>3. CASE a \in page.awaits
    <2>1. page' = [get |-> page.get \/ a \in Gets,
                   present |-> page.present \cup PresentAgain(a, status),
                   awaits |-> page.awaits \ {a}]
      BY <1>3 DEF End
    <2>2. (page.get \/ a \in Gets) \in BOOLEAN
      OBVIOUS
    <2> QED
      BY <1>0, <1>1, <2>1, <2>2 DEF PageType
  <1> QED
    BY <1>2, <1>3

\* Initially nothing has happened.
LEMMA TypeInit == Init => TypeOK
  <1> SUFFICES ASSUME Init PROVE TypeOK
    OBVIOUS
  <1> USE SystemAssumption DEF Init, WalletInit
  <1>1. attempt \in AttemptType
    BY DEF AttemptType, Formats
  <1>2. credentials \in Seq(StoredCredentials)
    OBVIOUS
  <1>3. page \in PageType
    BY DEF NewPage, PageType
  <1>4. stage \in [Gets -> Issuer!Stages]
    BY DEF Issuer!Init, Issuer!Stages
  <1>5. /\ judgement \in [Sessions -> {"none", "pending", "valid", "invalid"}]
        /\ mailbox \in [Sessions -> {"unopened", "open", "taken", "full", "read", "closed"}]
        /\ submission \in [Sessions -> Presents \cup {None}]
        /\ outdated \in [Sessions -> SUBSET Gets]
    BY DEF Verifier!Init
  <1> QED
    BY <1>1, <1>2, <1>3, <1>4, <1>5 DEF TypeOK, AttemptType, PageType

\* What the services have is of its type.
ServiceType ==
    /\ stage \in [Gets -> Issuer!Stages] /\ revoked \subseteq Gets
    /\ judgement \in [Sessions -> {"none", "pending", "valid", "invalid"}]
    /\ mailbox \in [Sessions -> {"unopened", "open", "taken", "full", "read", "closed"}]
    /\ submission \in [Sessions -> Presents \cup {None}]
    /\ outdated \in [Sessions -> SUBSET Gets]
    /\ verifierKey \in 0 .. MaxFaults

\* What the wallet has besides its attempts and their requests is of its type.
ExchangeType ==
    /\ request \in [Presents -> RequestObjects \cup {None}]
    /\ jwks \in [Presents -> VerifierKeys \cup {None}]
    /\ vpToken \in [Presents -> VpTokens \cup {None}]
    /\ credentials \in Seq(StoredCredentials)
    /\ page \in PageType /\ process \in Nat

\* The type invariant, in parts.
PartsOK ==
    /\ attempt \in AttemptType /\ wire \in WireType /\ ExchangeType /\ ServiceType
    /\ faults \in 0 .. MaxFaults

\* The parts are the type invariant.
LEMMA TypeParts == (TypeOK <=> PartsOK) /\ (TypeOK' <=> PartsOK')
  BY DEF TypeOK, PartsOK, AttemptType, WireType, PageType, ExchangeType, ServiceType

\* A fault is counted within the bound.
LEMMA FaultCount ==
    ASSUME faults \in 0 .. MaxFaults, Fault \/ UNCHANGED faults
    PROVE  faults' \in 0 .. MaxFaults /\ faults <= faults' /\ (Fault => faults < faults')
  BY SystemAssumption DEF Fault

\* The issuer moves a grant on: it was not issued yet.
LEMMA AdvanceStage ==
    ASSUME stage \in [Gets -> Issuer!Stages], NEW g \in Gets, Issuer!Advance(g)
    PROVE  /\ stage' \in [Gets -> Issuer!Stages] /\ stage[g] # "issued"
           /\ \A h \in Gets : h # g => stage'[h] = stage[h]
  <1>1. PICK s \in Issuer!Successors(stage[g]) : stage' = [stage EXCEPT ![g] = s]
    BY DEF Issuer!Advance
  <1>2. s \in Issuer!Stages /\ stage[g] # "issued"
    BY <1>1 DEF Issuer!Successors, Issuer!Stages, Issuer!Live, Issuer!Settled
  <1> QED
    BY <1>1, <1>2

\* The issuer gives up grants, but none that was issued.
LEMMA GiveUpStage ==
    ASSUME stage \in [Gets -> Issuer!Stages], NEW S \in SUBSET Gets, Issuer!GiveUp(S)
    PROVE  /\ stage' \in [Gets -> Issuer!Stages]
           /\ \A h \in Gets : stage[h] = "issued" => stage'[h] = "issued"
  BY DEF Issuer!GiveUp, Issuer!Stages, Issuer!Live, Issuer!Settled

\* What the wallet knows of itself when it waits for an answer.
LEMMA Awaiting ==
    ASSUME NEW a \in Attempts, NEW e, NEW how, Awaits(a, e, how)
    PROVE  attempt[a].status = "running" /\ wire[a] # None /\ wire[a].to = e /\ wire[a].is = how
  BY DEF Awaits, Running

\* Who waits for the answer of which endpoint.
LEMMA WiredAs ==
    ASSUME Wiring, NEW a \in Attempts, wire[a] # None
    PROVE  /\ wire[a].to \in GetEndpoints => a \in Gets
           /\ wire[a].to \notin GetEndpoints => a \in Presents
  BY DEF Wiring, Attempts

\* A present attempt that has the key has a request that it trusts, and the key is one
\* of the verifier's.
LEMMA KeyKnown ==
    ASSUME Inv, NEW a \in Attempts, Awaits(a, "/jwks.json", "answered")
    PROVE  /\ a \in Presents /\ request[a] \in RequestObjects /\ TrustedClient(request[a])
           /\ request[a] # None /\ jwks[a] \in 0 .. verifierKey
  <1>1. wire[a] # None /\ wire[a].to = "/jwks.json" /\ wire[a].is = "answered" /\ a \in Running
    BY DEF Awaits
  <1>2. a \in Presents
    BY <1>1, WiredAs DEF Inv, GetEndpoints
  <1>3. request[a] \in RequestObjects \cup {None}
    BY <1>2 DEF Inv, TypeOK
  <1>4. request[a] # None /\ TrustedClient(request[a]) /\ jwks[a] # None
    BY <1>1, <1>2 DEF Inv, Requested, Has
  <1>5. jwks[a] \in 0 .. verifierKey
    BY <1>2, <1>4 DEF Inv, Requested
  <1> QED
    BY <1>2, <1>3, <1>4, <1>5

\* An attempt goes on to another endpoint.
LEMMA NextIsEndpoint ==
    ASSUME NEW e \in {"/offer", "/par", "/authorize", "/token", "/presentation/request"}
    PROVE  NextEndpoint(e) \in Endpoints
  BY DEF NextEndpoint, Endpoints

\* Every step of the wallet keeps the type.
LEMMA TypeWallet == Inv /\ WalletNext =>
                        attempt' \in AttemptType /\ wire' \in WireType
                            /\ ExchangeType' /\ faults' \in 0 .. MaxFaults
  <1> SUFFICES ASSUME Inv, WalletNext
               PROVE  attempt' \in AttemptType /\ wire' \in WireType
                          /\ ExchangeType' /\ faults' \in 0 .. MaxFaults
    OBVIOUS
  <1>0. /\ attempt \in AttemptType /\ wire \in WireType /\ faults \in 0 .. MaxFaults
        /\ request \in [Presents -> RequestObjects \cup {None}]
        /\ jwks \in [Presents -> VerifierKeys \cup {None}]
        /\ vpToken \in [Presents -> VpTokens \cup {None}]
        /\ credentials \in Seq(StoredCredentials)
        /\ page \in PageType /\ process \in Nat /\ TypeOK /\ Wiring
    BY TypeParts DEF PartsOK, ExchangeType, Inv
  <1> DEFINE Kept == attempt' \in AttemptType /\ wire' \in WireType
                         /\ ExchangeType' /\ faults' \in 0 .. MaxFaults
  <1>1. ASSUME NEW a \in Gets, Get(a) PROVE Kept
    <2>1. \E f \in Formats, e \in Endpoints : Start(a, f, e)
      BY <1>1 DEF Get, FormatFor, Formats, Endpoints
    <2>2. attempt' \in AttemptType /\ wire' \in WireType
      BY <1>0, <2>1, StartAttempt DEF Attempts
    <2>3. UNCHANGED <<request, jwks, vpToken, credentials, process, faults>>
      BY <2>1 DEF Start
    <2>4. page' \in PageType
      BY <1>0, <1>1 DEF Get, PageType, Attempts
    <2> QED
      BY <1>0, <2>2, <2>3, <2>4 DEF ExchangeType
  <1>2. ASSUME NEW a \in Presents, Present(a) PROVE Kept
    <2>1. PICK f \in page.present : /\ Start(a, f, "/presentation/request")
                                    /\ page' = [page EXCEPT !.present = @ \ {f}, !.awaits = @ \cup {a}]
      BY <1>2 DEF Present
    <2>2. attempt' \in AttemptType /\ wire' \in WireType
      BY <1>0, <2>1, StartAttempt DEF Attempts, PageType, Endpoints
    <2>3. UNCHANGED <<request, jwks, vpToken, credentials, process, faults>>
      BY <2>1 DEF Start
    <2>4. page' \in PageType
      BY <1>0, <2>1 DEF PageType, Attempts
    <2> QED
      BY <1>0, <2>2, <2>3, <2>4 DEF ExchangeType
  <1>3. ASSUME NEW a \in Attempts, Continue(a) PROVE Kept
    <2>1. \E e \in Endpoints : wire' = [wire EXCEPT ![a] = Sent(e)]
      BY <1>3, NextIsEndpoint DEF Continue, Proceed
    <2>2. UNCHANGED <<attempt, request, jwks, page, vpToken, credentials, process, faults>>
      BY <1>3 DEF Continue, Proceed
    <2> QED
      BY <1>0, <2>1, <2>2, SendWire DEF ExchangeType
  <1>4. ASSUME NEW a \in Attempts, NEW status \in {"ok", "error"}, End(a, status)
        PROVE  /\ attempt' \in AttemptType /\ wire' \in WireType
               /\ request' \in [Presents -> RequestObjects \cup {None}]
               /\ jwks' \in [Presents -> VerifierKeys \cup {None}]
               /\ page' \in PageType
    <2>1. Finish({a}, status) /\ {a} \in SUBSET Attempts
      BY <1>4 DEF End
    <2> QED
      BY <1>0, <1>4, <2>1, FinishAttempts, EndPage
  <1>5. ASSUME NEW a \in Attempts, StoreCredential(a) PROVE Kept
    <2>1. a \in Gets
      BY <1>0, <1>5, Awaiting, WiredAs DEF StoreCredential, GetEndpoints
    <2>2. [format |-> attempt[a].format, grant |-> a] \in StoredCredentials
      BY <1>0, <2>1 DEF AttemptType, StoredCredentials
    <2>3. credentials' \in Seq(StoredCredentials)
      BY <1>0, <1>5, <2>2 DEF StoreCredential
    <2> QED
      BY <1>0, <1>4, <1>5, <2>3 DEF StoreCredential, ExchangeType
  <1>6. ASSUME NEW a \in Attempts, ObjectArrives(a) PROVE Kept
    <2>1. UNCHANGED <<vpToken, credentials, process, faults>>
      BY <1>6 DEF ObjectArrives
    <2>2. CASE Proceed(a, "/jwks.json")
      BY <1>0, <2>1, <2>2, SendWire DEF Proceed, ExchangeType, Endpoints
    <2>3. CASE End(a, "error")
      BY <1>0, <1>4, <2>1, <2>3 DEF ExchangeType
    <2> QED
      BY <1>6, <2>2, <2>3 DEF ObjectArrives
  <1>7. ASSUME NEW a \in Attempts, KeyArrives(a) PROVE Kept
    <2>1. UNCHANGED <<credentials, process, faults>>
      BY <1>7 DEF KeyArrives
    <2>2. CASE Acceptable(a) /\ Proceed(a, "response_uri")
      <3>1. PICK i \in Found(request[a].format) : vpToken' = [vpToken EXCEPT ![a] =
                     [format |-> request[a].format, grant |-> credentials[i].grant,
                      process |-> process, request |-> request[a]]]
        BY <1>7, <2>2 DEF KeyArrives
      <3>2. a \in Presents /\ request[a] \in RequestObjects
        BY <1>7, KeyKnown DEF KeyArrives
      <3>3. credentials[i] \in StoredCredentials
        BY <1>0, <3>1 DEF Found, Matching
      <3>4. [format |-> request[a].format, grant |-> credentials[i].grant,
             process |-> process, request |-> request[a]] \in VpTokens
        BY <1>0, <3>2, <3>3 DEF VpTokens, StoredCredentials, RequestObjects
      <3>5. vpToken' \in [Presents -> VpTokens \cup {None}]
        BY <1>0, <3>1, <3>4
      <3> QED
        BY <1>0, <2>1, <2>2, <3>5, SendWire DEF Proceed, ExchangeType, Endpoints
    <2>3. CASE End(a, "error") /\ UNCHANGED vpToken
      BY <1>0, <1>4, <2>1, <2>3 DEF ExchangeType
    <2> QED
      BY <1>7, <2>2, <2>3 DEF KeyArrives
  <1>8. ASSUME NEW a \in Attempts, ResultArrives(a) PROVE Kept
    BY <1>0, <1>4, <1>8 DEF ResultArrives, ExchangeType
  <1>9. ASSUME NEW a \in Attempts, RefusalArrives(a) PROVE Kept
    BY <1>0, <1>4, <1>9 DEF RefusalArrives, ExchangeType
  <1>10. ASSUME NEW a \in Attempts, TimesOut(a) PROVE Kept
    BY <1>0, <1>4, <1>10, FaultCount DEF TimesOut, ExchangeType
  <1>11. CASE Restart
    <2>1. Running \in SUBSET Attempts
      BY DEF Running
    <2>2. page' \in PageType
      BY <1>0, <1>11 DEF Restart, PageType
    <2>3. credentials' \in Seq(StoredCredentials) /\ process' \in Nat /\ faults' \in 0 .. MaxFaults
      BY <1>0, <1>11, FaultCount DEF Restart
    <2> QED
      BY <1>0, <1>11, <2>1, <2>2, <2>3, FinishAttempts DEF Restart, ExchangeType
  <1>12. CASE Reload
    <2>1. page' \in PageType
      BY <1>12 DEF Reload, NewPage, PageType
    <2> QED
      BY <1>0, <1>12, <2>1, FaultCount DEF Reload, ExchangeType
  <1> QED
    BY <1>1, <1>2, <1>3, <1>5, <1>6, <1>7, <1>8, <1>9, <1>10, <1>11, <1>12
       DEF WalletNext, Resume

\* A request object names a session, unless it is signed with another key.
LEMMA ObjectTypes ==
    ASSUME NEW p \in Presents, attempt \in AttemptType, verifierKey \in 0 .. MaxFaults
    PROVE  /\ OwnRequest(p) \in RequestObjects
           /\ \A r \in ForeignRequests(p) :
                  /\ r \in RequestObjects
                  /\ r.key = OtherKey \/ (r.key \in 0 .. verifierKey /\ r.nonce \in Sessions)
  <1>1. /\ \A k \in 0 .. verifierKey : k \in VerifierKeys
        /\ OtherKey \in VerifierKeys /\ verifierKey \in 0 .. verifierKey
        /\ VerifierUrl \in Origins /\ OtherUrl \in Origins
        /\ None \in Nonces /\ \A s \in Sessions : s \in Nonces
    BY SystemAssumption
  <1>2. /\ p \in Sessions /\ attempt[p].format \in Formats
        /\ \A s \in Sessions : AskedFor(s) \subseteq Formats
    BY DEF Sessions, AttemptType, Attempts, AskedFor
  <1>3. /\ OwnRequest(p) \in RequestObjects
        /\ OwnRequest(p).key = verifierKey /\ OwnRequest(p).nonce = p
    BY <1>1, <1>2 DEF OwnRequest, SignRequestObject, RequestObjects
  <1>4. OthersRequest(p) \in RequestObjects /\ OthersRequest(p).key = OtherKey
    BY <1>1, <1>2 DEF OthersRequest, SignRequestObject, RequestObjects
  <1> DEFINE Fits(r) == /\ r \in RequestObjects
                        /\ r.key = OtherKey \/ (r.key \in 0 .. verifierKey /\ r.nonce \in Sessions)
  <1>5. ASSUME NEW r \in ForeignRequests(p) PROVE Fits(r)
    <2>1. \/ r = OthersRequest(p)
          \/ r \in {[OthersRequest(p) EXCEPT !.client_id = VerifierUrl, !.response_uri = u] :
                        u \in Origins}
          \/ r \in UNION {SignedFor(s) : s \in Sessions}
          \/ r = [OwnRequest(p) EXCEPT !.signed = FALSE]
          \/ r = [OwnRequest(p) EXCEPT !.aud = OtherAudience]
          \/ r = [OwnRequest(p) EXCEPT !.response_uri = OtherUrl]
          \/ r \in {[OwnRequest(p) EXCEPT !.exp = e] : e \in {"past", "absent"}}
      BY <1>5, Zenon DEF ForeignRequests
    <2>2. CASE r = OthersRequest(p)
      BY <1>4, <2>2
    <2>3. CASE r \in {[OthersRequest(p) EXCEPT !.client_id = VerifierUrl, !.response_uri = u] :
                          u \in Origins}
      <3>1. PICK u \in Origins :
                r = [OthersRequest(p) EXCEPT !.client_id = VerifierUrl, !.response_uri = u]
        BY <2>3
      <3> QED
        BY <1>1, <1>4, <3>1 DEF RequestObjects
    <2>4. CASE r \in UNION {SignedFor(s) : s \in Sessions}
      <3>1. PICK s \in Sessions : r \in SignedFor(s)
        BY <2>4, Zenon
      <3>2. PICK k \in 0 .. verifierKey :
                r \in {SignRequestObject(k, VerifierUrl, s, f) : f \in AskedFor(s)}
        BY <3>1, Zenon DEF SignedFor
      <3>3. PICK f \in AskedFor(s) : r = SignRequestObject(k, VerifierUrl, s, f)
        BY <3>2, Zenon
      <3>4. k \in VerifierKeys /\ s \in Nonces /\ f \in Formats
        BY <1>1, <1>2
      <3>5. r.key = k /\ r.nonce = s
        BY <3>3 DEF SignRequestObject
      <3>6. r \in RequestObjects
        BY <1>1, <3>3, <3>4 DEF SignRequestObject, RequestObjects
      <3> QED
        BY <3>5, <3>6
    <2>5. CASE r = [OwnRequest(p) EXCEPT !.signed = FALSE]
      BY <1>1, <1>2, <1>3, <2>5 DEF RequestObjects
    <2>6. CASE r = [OwnRequest(p) EXCEPT !.aud = OtherAudience]
      BY <1>2, <1>3, <2>6 DEF RequestObjects
    <2>7. CASE r = [OwnRequest(p) EXCEPT !.response_uri = OtherUrl]
      BY <1>1, <1>2, <1>3, <2>7 DEF RequestObjects
    <2>8. CASE r \in {[OwnRequest(p) EXCEPT !.exp = e] : e \in {"past", "absent"}}
      <3>1. PICK e \in {"past", "absent"} : r = [OwnRequest(p) EXCEPT !.exp = e]
        BY <2>8
      <3> QED
        BY <1>1, <1>2, <1>3, <3>1 DEF RequestObjects
    <2> QED
      BY <2>1, <2>2, <2>3, <2>4, <2>5, <2>6, <2>7, <2>8
  <1> QED
    BY <1>3, <1>5

\* One session takes a step of its own.
SessionStep(s) ==
    \/ Verifier!Open(s) \/ Verifier!Admit(s) \/ Verifier!Judge(s) \/ Verifier!Fail(s)
    \/ Verifier!Read(s)

\* The verifier deals with one session at a time.
LEMMA SessionTypes ==
    ASSUME ServiceType, NEW s \in Sessions, SessionStep(s)
    PROVE  /\ judgement' \in [Sessions -> {"none", "pending", "valid", "invalid"}]
           /\ mailbox' \in [Sessions -> {"unopened", "open", "taken", "full", "read", "closed"}]
           /\ mailbox[s] # "unopened" => mailbox'[s] # "unopened"
           /\ \A q \in Sessions : q # s => judgement'[q] = judgement[q] /\ mailbox'[q] = mailbox[q]
  <1>0. /\ judgement \in [Sessions -> {"none", "pending", "valid", "invalid"}]
        /\ mailbox \in [Sessions -> {"unopened", "open", "taken", "full", "read", "closed"}]
    BY DEF ServiceType
  <1>1. CASE Verifier!Open(s)
    BY <1>0, <1>1 DEF Verifier!Open
  <1>2. CASE Verifier!Admit(s)
    BY <1>0, <1>2 DEF Verifier!Admit
  <1>3. CASE Verifier!Judge(s)
    BY <1>0, <1>3 DEF Verifier!Judge
  <1>4. CASE Verifier!Fail(s)
    BY <1>0, <1>4 DEF Verifier!Fail
  <1>5. CASE Verifier!Read(s)
    BY <1>0, <1>5 DEF Verifier!Read
  <1> QED
    BY <1>1, <1>2, <1>3, <1>4, <1>5 DEF SessionStep

\* What was posted names a session of the verifier.
LEMMA SessionKnown ==
    ASSUME Inv, NEW p \in Presents, wire[p] # None, wire[p].to = "response_uri"
    PROVE  vpToken[p] # None /\ vpToken[p] \in VpTokens /\ Session(p) \in Sessions
  <1>1. vpToken[p] # None
    BY DEF Inv, Presented
  <1>2. vpToken[p] \in VpTokens
    BY <1>1 DEF Inv, TypeOK
  <1> QED
    BY <1>1, <1>2 DEF Inv, Presented, Genuine, Known, Session

\* Serving an attempt is a step of one session, if of any.
LEMMA ServingSteps ==
    ASSUME Inv, NEW p \in Presents, VerifierServes(p)
    PROVE  (UNCHANGED <<judgement, mailbox>>) \/ \E s \in Sessions : SessionStep(s)
  <1>1. CASE VerifierOpens(p)
    BY <1>1 DEF VerifierOpens, SessionStep, Sessions
  <1>2. CASE ObjectServed(p)
    BY <1>2 DEF ObjectServed, Named, SessionStep, Sessions
  <1>3. CASE KeyServed(p)
    BY <1>3 DEF KeyServed, verifierVars
  <1>4. CASE VerifierAdmits(p) \/ VerifierJudges(p) \/ VerifierFails(p)
    <2>1. wire[p] # None /\ wire[p].to = "response_uri"
      BY <1>4 DEF VerifierAdmits, VerifierJudges, VerifierFails, Has
    <2>2. Session(p) \in Sessions
      BY <2>1, SessionKnown
    <2> QED
      BY <1>4, <2>2 DEF VerifierAdmits, VerifierJudges, VerifierFails, SessionStep
  <1> QED
    BY <1>1, <1>2, <1>3, <1>4 DEF VerifierServes

\* What may happen to the sessions.
LEMMA SessionMoves ==
    ASSUME Inv, [Next]_vars
    PROVE  \/ UNCHANGED <<judgement, mailbox>>
           \/ \E s \in Sessions : SessionStep(s)
           \/ \E S \in SUBSET Sessions : Verifier!Close(S)
           \/ VerifierRestarts
  <1>1. CASE SessionsMove
    BY <1>1 DEF SessionsMove, SessionStep, Sessions
  <1>2. CASE \E p \in Presents : VerifierServes(p)
    BY <1>2, ServingSteps
  <1>3. CASE IssuerNext
    BY <1>3 DEF IssuerNext, IssuerServes, IssuerIssues, IssuerRevokes, IssuerGivesUp, verifierVars
  <1> QED
    BY <1>1, <1>2, <1>3 DEF Next, VerifierNext, ServiceRefuses, verifierVars, vars

\* Every step of the services keeps the type.
LEMMA TypeServices ==
    ASSUME Inv, IssuerNext \/ VerifierNext \/ \E a \in Attempts : ServiceRefuses(a)
    PROVE  TypeOK'
  <1>0. /\ attempt \in AttemptType /\ wire \in WireType /\ faults \in 0 .. MaxFaults
        /\ ExchangeType /\ ServiceType
    BY TypeParts DEF Inv, PartsOK
  <1>1. ASSUME NEW a \in Attempts, NEW how \in {"serving", "answered", "refused"},
               wire[a] # None, Answer(a, how)
        PROVE  wire' \in WireType
    BY <1>0, <1>1, AnswerWire
  <1>2. ASSUME attempt' = attempt, wire' \in WireType, UNCHANGED exchange,
               Fault \/ UNCHANGED faults, ServiceType'
        PROVE  TypeOK'
    BY <1>0, <1>2, FaultCount, TypeParts DEF PartsOK, exchange, ExchangeType
  <1>3. ASSUME NEW g \in Gets, IssuerServes(g)
        PROVE  TypeOK'
    <2>1. wire' \in WireType
      BY <1>1, <1>3 DEF IssuerServes, Has, Attempts
    <2>2. ServiceType'
      BY <1>0, <1>3, AdvanceStage DEF IssuerServes, ServiceType, verifierVars, admitted
    <2> QED
      BY <1>2, <1>3, <2>1, <2>2 DEF IssuerServes
  <1>4. ASSUME NEW g \in Gets, IssuerIssues(g)
        PROVE  TypeOK'
    <2>1. wire' \in WireType
      BY <1>1, <1>4 DEF IssuerIssues, CredentialAt, Has, Attempts
    <2>2. ServiceType'
      BY <1>0, <1>4, AdvanceStage DEF IssuerIssues, ServiceType, verifierVars, admitted
    <2> QED
      BY <1>2, <1>4, <2>1, <2>2 DEF IssuerIssues
  <1>5. ASSUME NEW g \in Gets, IssuerRevokes(g)
        PROVE  TypeOK'
    <2>1. ServiceType'
      BY <1>0, <1>5 DEF IssuerRevokes, ServiceType, verifierVars, admitted
    <2> QED
      BY <1>0, <1>2, <1>5, <2>1 DEF IssuerRevokes, walletVars, exchange
  <1>6. ASSUME NEW S \in SUBSET Gets, IssuerGivesUp(S)
        PROVE  TypeOK'
    <2>1. ServiceType'
      BY <1>0, <1>6, GiveUpStage DEF IssuerGivesUp, ServiceType, verifierVars, admitted
    <2> QED
      BY <1>0, <1>2, <1>6, <2>1 DEF IssuerGivesUp
  <1>7. ASSUME NEW p \in Presents,
               VerifierOpens(p) \/ VerifierAdmits(p) \/ VerifierJudges(p) \/ VerifierFails(p)
        PROVE  TypeOK'
    <2>1. wire' \in WireType
      BY <1>1, <1>7 DEF VerifierOpens, VerifierAdmits, VerifierJudges, VerifierFails, Has, Attempts
    <2>2. /\ judgement' \in [Sessions -> {"none", "pending", "valid", "invalid"}]
          /\ mailbox' \in [Sessions -> {"unopened", "open", "taken", "full", "read", "closed"}]
      BY <1>0, <1>7, ServingSteps, SessionTypes DEF VerifierServes, ServiceType
    <2>3. /\ submission' \in [Sessions -> Presents \cup {None}]
          /\ outdated' \in [Sessions -> SUBSET Gets]
      BY <1>0, <1>7
         DEF VerifierOpens, VerifierAdmits, VerifierJudges, VerifierFails, ServiceType, admitted
    <2>4. UNCHANGED <<stage, revoked, verifierKey>>
      BY <1>7 DEF VerifierOpens, VerifierAdmits, VerifierJudges, VerifierFails, issuerVars
    <2>5. ServiceType'
      BY <1>0, <2>2, <2>3, <2>4 DEF ServiceType
    <2> QED
      BY <1>2, <1>7, <2>1, <2>5 DEF VerifierOpens, VerifierAdmits, VerifierJudges, VerifierFails
  <1>8. ASSUME NEW p \in Presents, ObjectServed(p)
        PROVE  TypeOK'
    <2>1. wire' \in WireType
      BY <1>1, <1>8 DEF ObjectServed, Has, Attempts
    <2>2. \E r \in RequestObjects : request' = [request EXCEPT ![p] = r]
      BY <1>0, <1>8, ObjectTypes DEF ObjectServed, ServiceType
    <2>3. request' \in [Presents -> RequestObjects \cup {None}]
      BY <1>0, <2>2 DEF ExchangeType
    <2>4. /\ judgement' \in [Sessions -> {"none", "pending", "valid", "invalid"}]
          /\ mailbox' \in [Sessions -> {"unopened", "open", "taken", "full", "read", "closed"}]
      BY <1>0, <1>8, ServingSteps, SessionTypes DEF VerifierServes, ServiceType
    <2>5. ServiceType'
      BY <1>0, <1>8, <2>4 DEF ObjectServed, ServiceType, issuerVars, admitted
    <2> QED
      BY <1>0, <1>8, <2>1, <2>3, <2>5, FaultCount, TypeParts
         DEF ObjectServed, PartsOK, ExchangeType
  <1>9. ASSUME NEW p \in Presents, KeyServed(p)
        PROVE  TypeOK'
    <2>1. wire' \in WireType
      BY <1>1, <1>9 DEF KeyServed, Has, Attempts
    <2>2. KeyAt(request[p].client_id) \in VerifierKeys
      BY <1>0, SystemAssumption DEF KeyAt, ServiceType
    <2>3. jwks' \in [Presents -> VerifierKeys \cup {None}]
      BY <1>0, <1>9, <2>2 DEF KeyServed, ExchangeType
    <2> QED
      BY <1>0, <1>9, <2>1, <2>3, TypeParts
         DEF KeyServed, PartsOK, ExchangeType, ServiceType, issuerVars, verifierVars, admitted
  <1>10. CASE SessionsMove
    <2>1. \/ \E s \in Sessions : SessionStep(s)
          \/ \E S \in SUBSET Sessions : Verifier!Close(S)
      BY <1>10 DEF SessionsMove, SessionStep, Sessions
    <2>2. /\ judgement' \in [Sessions -> {"none", "pending", "valid", "invalid"}]
          /\ mailbox' \in [Sessions -> {"unopened", "open", "taken", "full", "read", "closed"}]
      BY <1>0, <2>1, SessionTypes DEF Verifier!Close, ServiceType
    <2>3. ServiceType'
      BY <1>0, <1>10, <2>2 DEF SessionsMove, ServiceType, issuerVars, admitted
    <2> QED
      BY <1>0, <1>2, <1>10, <2>3 DEF SessionsMove, walletVars, exchange
  <1>11. CASE VerifierRestarts
    <2>1. verifierKey' \in 0 .. MaxFaults
      <3>1. verifierKey <= faults /\ verifierKey \in Nat
        BY <1>0 DEF Inv, ServiceType
      <3> QED
        BY <1>0, <1>11, <3>1, SystemAssumption DEF VerifierRestarts, Fault
    <2>2. ServiceType'
      BY <1>0, <1>11, <2>1 DEF VerifierRestarts, ServiceType, issuerVars, admitted
    <2> QED
      BY <1>0, <1>2, <1>11, <2>2 DEF VerifierRestarts
  <1>12. ASSUME NEW a \in Attempts, ServiceRefuses(a)
         PROVE  TypeOK'
    <2>1. wire' \in WireType
      BY <1>1, <1>12 DEF ServiceRefuses
    <2>2. ServiceType'
      BY <1>0, <1>12 DEF ServiceRefuses, ServiceType, issuerVars, verifierVars, admitted
    <2> QED
      BY <1>2, <1>12, <2>1, <2>2 DEF ServiceRefuses
  <1> QED
    BY <1>3, <1>4, <1>5, <1>6, <1>7, <1>8, <1>9, <1>10, <1>11, <1>12
       DEF IssuerNext, VerifierNext, VerifierServes

\* Every step keeps the type.
LEMMA TypeNext == Inv /\ [Next]_vars => TypeOK'
  <1> SUFFICES ASSUME Inv, [Next]_vars PROVE TypeOK'
    OBVIOUS
  <1>1. CASE WalletNext /\ UNCHANGED <<issuerVars, verifierVars>>
    <2>1. ServiceType'
      BY <1>1, TypeParts DEF Inv, PartsOK, ServiceType, issuerVars, verifierVars, admitted
    <2> QED
      BY <1>1, <2>1, TypeWallet, TypeParts DEF PartsOK
  <1>2. CASE UNCHANGED vars
    BY <1>2 DEF Inv, TypeOK, vars, walletVars, issuerVars, verifierVars, admitted
  <1> QED
    BY <1>1, <1>2, TypeServices DEF Next
-----------------------------------------------------------------------------
\* An attempt that ended stays as it is, and one that runs is about the same format.
LEMMA AttemptsLast ==
    ASSUME Inv, [Next]_vars, NEW a \in Attempts, attempt[a].status # "unused"
    PROVE  /\ attempt'[a].format = attempt[a].format
           /\ attempt[a].status # "running" => attempt'[a] = attempt[a]
           /\ attempt'[a].status # "unused"
  <1> DEFINE Lasts == /\ attempt'[a].format = attempt[a].format
                      /\ attempt[a].status # "running" => attempt'[a] = attempt[a]
                      /\ attempt'[a].status # "unused"
  <1>0. TypeOK /\ attempt \in AttemptType /\ wire \in WireType
    BY TypeParts DEF Inv, PartsOK
  <1>1. ASSUME NEW b \in Attempts, NEW f \in Formats, NEW e \in Endpoints, Start(b, f, e)
        PROVE  Lasts
    BY <1>0, <1>1, StartAttempt
  <1>2. ASSUME NEW A \in SUBSET Attempts, NEW status \in {"ok", "error"}, Finish(A, status),
               \A b \in A : attempt[b].status = "running"
        PROVE  Lasts
    BY <1>0, <1>2, FinishAttempts
  <1>3. ASSUME NEW b \in Attempts, NEW status \in {"ok", "error"}, End(b, status),
               attempt[b].status = "running"
        PROVE  Lasts
    BY <1>2, <1>3 DEF End
  <1>4. CASE UNCHANGED attempt
    BY <1>4
  <1>5. ASSUME NEW b \in Gets, Get(b) PROVE Lasts
    BY <1>1, <1>5 DEF Get, FormatFor, Formats, Endpoints, Attempts
  <1>6. ASSUME NEW b \in Presents, Present(b) PROVE Lasts
    BY <1>0, <1>1, <1>6 DEF Present, TypeOK, Endpoints, Attempts
  <1>7. ASSUME NEW b \in Attempts, Resume(b) PROVE Lasts
    BY <1>3, <1>4, <1>7, Awaiting
       DEF Resume, Continue, Proceed, StoreCredential, ObjectArrives, KeyArrives,
           ResultArrives, RefusalArrives
  <1>8. ASSUME NEW b \in Attempts, TimesOut(b) PROVE Lasts
    BY <1>3, <1>8 DEF TimesOut, Running
  <1>9. CASE Restart
    BY <1>2, <1>9 DEF Restart, Running
  <1>10. CASE Reload
    BY <1>4, <1>10 DEF Reload
  <1>11. CASE IssuerNext \/ VerifierNext \/ \E b \in Attempts : ServiceRefuses(b)
    BY <1>4, <1>11
       DEF IssuerNext, IssuerServes, IssuerIssues, IssuerRevokes, IssuerGivesUp,
           VerifierNext, VerifierServes, VerifierOpens, ObjectServed, KeyServed,
           VerifierAdmits, VerifierJudges, VerifierFails, SessionsMove, VerifierRestarts,
           ServiceRefuses, walletVars
  <1>12. CASE UNCHANGED vars
    BY <1>4, <1>12 DEF vars, walletVars
  <1> QED
    BY <1>5, <1>6, <1>7, <1>8, <1>9, <1>10, <1>11, <1>12 DEF Next, WalletNext

\* The wallet stores credentials one at a time, and loses them when it is restarted.
LEMMA CredentialsMove ==
    ASSUME Inv, [Next]_vars
    PROVE  \/ UNCHANGED <<credentials, process>>
           \/ \E a \in Attempts : StoreCredential(a) /\ UNCHANGED process
           \/ credentials' = <<>> /\ process' = process + 1
  <1>1. CASE WalletNext
    BY <1>1 DEF WalletNext, Get, Present, Start, Resume, Continue, StoreCredential,
                ObjectArrives, KeyArrives, ResultArrives, RefusalArrives, TimesOut,
                Restart, Reload
  <1>2. CASE IssuerNext \/ VerifierNext \/ \E b \in Attempts : ServiceRefuses(b)
    BY <1>2
       DEF IssuerNext, IssuerServes, IssuerIssues, IssuerRevokes, IssuerGivesUp,
           VerifierNext, VerifierServes, VerifierOpens, ObjectServed, KeyServed,
           VerifierAdmits, VerifierJudges, VerifierFails, SessionsMove, VerifierRestarts,
           ServiceRefuses, walletVars, exchange
  <1>3. CASE UNCHANGED vars
    BY <1>3 DEF vars, walletVars
  <1> QED
    BY <1>1, <1>2, <1>3 DEF Next

\* What was issued, opened or judged stays so, and the keys of the verifier count up.
LEMMA ServicesLast ==
    ASSUME Inv, [Next]_vars
    PROVE  /\ \A g \in Gets : stage[g] = "issued" => stage'[g] = "issued"
           /\ \A s \in Sessions :
                  /\ mailbox[s] # "unopened" => mailbox'[s] # "unopened"
                  /\ mailbox[s] \notin {"unopened", "open"} =>
                         mailbox'[s] \notin {"unopened", "open"}
                  /\ judgement[s] \in {"valid", "invalid"} => judgement'[s] = judgement[s]
           /\ verifierKey <= verifierKey'
  <1>0. ServiceType /\ verifierKey \in Nat /\ Answers
    BY TypeParts DEF Inv, PartsOK, ServiceType
  <1>1. \A g \in Gets : stage[g] = "issued" => stage'[g] = "issued"
    <2>1. \/ \E g \in Gets : Issuer!Advance(g)
          \/ \E S \in SUBSET Gets : Issuer!GiveUp(S)
          \/ UNCHANGED stage
      BY DEF Next, IssuerNext, IssuerServes, IssuerIssues, IssuerGivesUp, IssuerRevokes,
             VerifierNext, VerifierServes, VerifierOpens, ObjectServed, KeyServed,
             VerifierAdmits, VerifierJudges, VerifierFails, SessionsMove, VerifierRestarts,
             ServiceRefuses, issuerVars, vars
    <2> QED
      BY <1>0, <2>1, AdvanceStage, GiveUpStage DEF ServiceType
  <1>2. ASSUME NEW s \in Sessions
        PROVE  /\ mailbox[s] # "unopened" => mailbox'[s] # "unopened"
               /\ mailbox[s] \notin {"unopened", "open"} =>
                      mailbox'[s] \notin {"unopened", "open"}
               /\ judgement[s] \in {"valid", "invalid"} => judgement'[s] = judgement[s]
    <2> DEFINE Lasts ==
                 /\ mailbox[s] # "unopened" => mailbox'[s] # "unopened"
                 /\ mailbox[s] \notin {"unopened", "open"} =>
                        mailbox'[s] \notin {"unopened", "open"}
                 /\ judgement[s] \in {"valid", "invalid"} => judgement'[s] = judgement[s]
    <2>0. judgement[s] # "none" => mailbox[s] \notin {"unopened", "open"}
      BY <1>0 DEF Answers
    <2>1. CASE UNCHANGED <<judgement, mailbox>>
      BY <2>1
    <2>2. ASSUME NEW q \in Sessions, SessionStep(q) PROVE Lasts
      <3>1. CASE q # s
        BY <1>0, <2>2, <3>1, SessionTypes
      <3>2. CASE q = s
        BY <1>0, <2>0, <2>2, <3>2
           DEF SessionStep, Verifier!Open, Verifier!Admit, Verifier!Judge, Verifier!Fail,
               Verifier!Read, ServiceType
      <3> QED
        BY <3>1, <3>2
    <2>3. ASSUME NEW S \in SUBSET Sessions, Verifier!Close(S) PROVE Lasts
      BY <1>0, <2>3 DEF Verifier!Close, ServiceType
    <2>4. CASE VerifierRestarts
      BY <1>0, <2>4 DEF VerifierRestarts, ServiceType
    <2> QED
      BY <2>1, <2>2, <2>3, <2>4, SessionMoves
  <1>3. verifierKey <= verifierKey'
    <2>1. verifierKey' = verifierKey \/ verifierKey' = verifierKey + 1
      BY DEF Next, IssuerNext, IssuerServes, IssuerIssues, IssuerGivesUp, IssuerRevokes,
             VerifierNext, VerifierServes, VerifierOpens, ObjectServed, KeyServed,
             VerifierAdmits, VerifierJudges, VerifierFails, SessionsMove, VerifierRestarts,
             ServiceRefuses, verifierVars, vars
    <2> QED
      BY <1>0, <2>1
  <1> QED
    BY <1>1, <1>2, <1>3

\* What is presented is what KeyArrives puts together, once.
LEMMA VpTokenMoves ==
    ASSUME Inv, [Next]_vars, NEW p \in Presents
    PROVE  \/ vpToken'[p] = vpToken[p]
           \/ /\ KeyArrives(p) /\ Acceptable(p)
              /\ \E i \in Found(request[p].format) : vpToken'[p] =
                     [format |-> request[p].format, grant |-> credentials[i].grant,
                      process |-> process, request |-> request[p]]
  <1>0. ExchangeType
    BY TypeParts DEF Inv, PartsOK
  <1>1. ASSUME NEW a \in Attempts, KeyArrives(a)
        PROVE  \/ vpToken'[p] = vpToken[p]
               \/ /\ KeyArrives(p) /\ Acceptable(p)
                  /\ \E i \in Found(request[p].format) : vpToken'[p] =
                         [format |-> request[p].format, grant |-> credentials[i].grant,
                          process |-> process, request |-> request[p]]
    BY <1>0, <1>1 DEF KeyArrives, ExchangeType
  <1>2. CASE WalletNext
    BY <1>1, <1>2
       DEF WalletNext, Get, Present, Start, Resume, Continue, StoreCredential, ObjectArrives,
           ResultArrives, RefusalArrives, TimesOut, Restart, Reload
  <1>3. CASE IssuerNext \/ VerifierNext \/ \E b \in Attempts : ServiceRefuses(b)
    BY <1>3
       DEF IssuerNext, IssuerServes, IssuerIssues, IssuerRevokes, IssuerGivesUp,
           VerifierNext, VerifierServes, VerifierOpens, ObjectServed, KeyServed,
           VerifierAdmits, VerifierJudges, VerifierFails, SessionsMove, VerifierRestarts,
           ServiceRefuses, walletVars, exchange
  <1>4. CASE UNCHANGED vars
    BY <1>4 DEF vars, walletVars
  <1> QED
    BY <1>2, <1>3, <1>4 DEF Next

\* What was posted stays as it is: an attempt posts once.
LEMMA PostedLasts ==
    ASSUME Inv, [Next]_vars, NEW p \in Presents, vpToken[p] # None
    PROVE  vpToken'[p] = vpToken[p] /\ Session(p) \in Sessions /\ Session(p)' = Session(p)
  <1>1. wire[p] # None /\ wire[p].to = "response_uri"
    BY DEF Inv, Presented
  <1>2. ~KeyArrives(p)
    BY <1>1, Awaiting DEF KeyArrives, Attempts
  <1>3. vpToken'[p] = vpToken[p]
    BY <1>2, VpTokenMoves
  <1> QED
    BY <1>1, <1>3, SessionKnown DEF Session

\* A session admits one attempt, for good.
LEMMA SubmissionMoves ==
    ASSUME Inv, [Next]_vars, NEW s \in Sessions
    PROVE  \/ submission'[s] = submission[s] /\ outdated'[s] = outdated[s]
           \/ /\ submission[s] = None
              /\ \E p \in Presents : /\ VerifierAdmits(p) /\ Session(p) = s
                                     /\ submission'[s] = p
  <1>0. ServiceType /\ Answers
    BY TypeParts DEF Inv, PartsOK
  <1>1. ASSUME NEW p \in Presents, VerifierAdmits(p)
        PROVE  \/ submission'[s] = submission[s] /\ outdated'[s] = outdated[s]
               \/ submission[s] = None /\ Session(p) = s /\ submission'[s] = p
    <2>1. /\ submission' = [submission EXCEPT ![Session(p)] = p]
          /\ outdated' = [outdated EXCEPT ![Session(p)] = revoked]
          /\ Verifier!Admit(Session(p))
      BY <1>1 DEF VerifierAdmits
    <2>2. CASE Session(p) # s
      BY <1>0, <2>1, <2>2 DEF ServiceType
    <2>3. CASE Session(p) = s
      <3>1. submission[s] = None
        BY <1>0, <2>1, <2>3 DEF Verifier!Admit, Answers
      <3>2. submission'[s] = p
        BY <1>0, <2>1, <2>3 DEF ServiceType
      <3> QED
        BY <2>3, <3>1, <3>2
    <2> QED
      BY <2>2, <2>3
  <1>2. CASE UNCHANGED admitted
    BY <1>2 DEF admitted
  <1>3. UNCHANGED admitted \/ \E p \in Presents : VerifierAdmits(p)
    BY DEF Next, IssuerNext, IssuerServes, IssuerIssues, IssuerGivesUp, IssuerRevokes,
           VerifierNext, VerifierServes, VerifierOpens, ObjectServed, KeyServed,
           VerifierJudges, VerifierFails, SessionsMove, VerifierRestarts,
           ServiceRefuses, verifierVars, vars
  <1> QED
    BY <1>1, <1>2, <1>3

-----------------------------------------------------------------------------
\* Gets go on talking to the issuer, and presents to the verifier.
LEMMA WiringNext == Inv /\ [Next]_vars => Wiring'
  <1> SUFFICES ASSUME Inv, [Next]_vars PROVE Wiring'
    OBVIOUS
  <1>0. wire \in WireType /\ attempt \in AttemptType /\ TypeOK /\ Wiring /\ Gets \cap Presents = {}
    BY TypeParts, SystemAssumption DEF Inv, PartsOK
  <1>1. CASE UNCHANGED wire
    BY <1>0, <1>1 DEF Wiring
  <1>2. ASSUME NEW a \in Attempts, wire[a] # None,
               NEW how \in {"serving", "answered", "refused"}, Answer(a, how)
        PROVE  Wiring'
    <2>1. wire'[a].to = wire[a].to /\ \A b \in Attempts : b # a => wire'[b] = wire[b]
      BY <1>0, <1>2, AnswerWire
    <2> QED
      BY <1>0, <1>2, <2>1 DEF Wiring, Attempts
  <1>3. ASSUME NEW a \in Attempts, NEW e \in Endpoints, wire' = [wire EXCEPT ![a] = Sent(e)],
               a \in Gets => e \in GetEndpoints, a \in Presents => e \notin GetEndpoints
        PROVE  Wiring'
    <2>1. wire'[a].to = e /\ \A b \in Attempts : b # a => wire'[b] = wire[b]
      BY <1>0, <1>3, SendWire
    <2> QED
      BY <1>0, <1>3, <2>1 DEF Wiring, Attempts
  <1>4. ASSUME NEW a \in Gets, Get(a) PROVE Wiring'
    <2>1. \E e \in {"/offer", "/par"} : wire' = [wire EXCEPT ![a] = Sent(e)]
      BY <1>4 DEF Get, Start
    <2> QED
      BY <1>0, <1>3, <2>1 DEF GetEndpoints, Endpoints, Attempts
  <1>5. ASSUME NEW a \in Presents, Present(a) PROVE Wiring'
    <2>1. wire' = [wire EXCEPT ![a] = Sent("/presentation/request")]
      BY <1>5 DEF Present, Start
    <2> QED
      BY <1>0, <1>3, <2>1 DEF GetEndpoints, Endpoints, Attempts
  <1>6. ASSUME NEW a \in Attempts, Continue(a) PROVE Wiring'
    <2>1. PICK e \in {"/offer", "/par", "/authorize", "/token", "/presentation/request"} :
              Awaits(a, e, "answered") /\ wire' = [wire EXCEPT ![a] = Sent(NextEndpoint(e))]
      BY <1>6 DEF Continue, Proceed
    <2>2. /\ a \in Gets => e \in GetEndpoints
          /\ a \in Presents => e \notin GetEndpoints
      BY <1>0, <2>1, Awaiting DEF Wiring
    <2>3. e \in GetEndpoints <=> NextEndpoint(e) \in GetEndpoints
      BY <2>1 DEF NextEndpoint, GetEndpoints
    <2> QED
      BY <1>3, <2>1, <2>2, <2>3, NextIsEndpoint
  <1>7. ASSUME NEW a \in Attempts, ObjectArrives(a) PROVE Wiring'
    <2>1. a \in Presents
      BY <1>0, <1>7, Awaiting, WiredAs DEF ObjectArrives, GetEndpoints
    <2>2. CASE wire' = [wire EXCEPT ![a] = Sent("/jwks.json")]
      BY <1>0, <1>3, <2>1, <2>2 DEF GetEndpoints, Endpoints
    <2> QED
      BY <1>1, <1>7, <2>2 DEF ObjectArrives, Proceed, End, Finish
  <1>8. ASSUME NEW a \in Attempts, KeyArrives(a) PROVE Wiring'
    <2>1. a \in Presents
      BY <1>0, <1>8, Awaiting, WiredAs DEF KeyArrives, GetEndpoints
    <2>2. CASE wire' = [wire EXCEPT ![a] = Sent("response_uri")]
      BY <1>0, <1>3, <2>1, <2>2 DEF GetEndpoints, Endpoints
    <2> QED
      BY <1>1, <1>8, <2>2 DEF KeyArrives, Proceed, End, Finish
  <1>9. ASSUME NEW a \in Attempts,
               StoreCredential(a) \/ ResultArrives(a) \/ RefusalArrives(a) \/ TimesOut(a)
        PROVE  Wiring'
    BY <1>1, <1>9 DEF StoreCredential, ResultArrives, RefusalArrives, TimesOut, End, Finish
  <1>10. CASE Restart \/ Reload
    BY <1>1, <1>10 DEF Restart, Reload, Finish
  <1>11. CASE IssuerNext
    BY <1>1, <1>2, <1>11
       DEF IssuerNext, IssuerServes, IssuerIssues, IssuerRevokes, IssuerGivesUp, CredentialAt,
           Has, walletVars, Attempts
  <1>12. ASSUME NEW p \in Presents, VerifierServes(p) PROVE Wiring'
    BY <1>2, <1>12
       DEF VerifierServes, VerifierOpens, ObjectServed, KeyServed, VerifierAdmits,
           VerifierJudges, VerifierFails, Has, Attempts
  <1>13. CASE SessionsMove \/ VerifierRestarts
    BY <1>1, <1>13 DEF SessionsMove, VerifierRestarts, walletVars
  <1>14. ASSUME NEW a \in Attempts, ServiceRefuses(a) PROVE Wiring'
    BY <1>2, <1>14 DEF ServiceRefuses
  <1>15. CASE UNCHANGED vars
    BY <1>1, <1>15 DEF vars, walletVars
  <1> QED
    BY <1>4, <1>5, <1>6, <1>7, <1>8, <1>9, <1>10, <1>11, <1>12, <1>13, <1>14, <1>15
       DEF Next, WalletNext, Resume, VerifierNext

\* A service takes a request up, or refuses it.
Given(a) ==
    /\ wire[a] # None /\ wire'[a] \in Wires /\ wire'[a].to = wire[a].to
    /\ wire'[a].is = "serving" => a \in Presents /\ VerifierAdmits(a)
    /\ \/ wire[a].is = "sent" /\ wire'[a].is \in {"serving", "refused"}
       \/ wire[a].is = "serving" /\ wire'[a].is = "refused"

\* What may become of the request of an attempt.
LEMMA WireMoves ==
    ASSUME Inv, [Next]_vars, NEW a \in Attempts
    PROVE  \/ wire'[a] = wire[a]
           \/ Given(a)
           \/ a \in Gets /\ (IssuerServes(a) \/ IssuerIssues(a))
           \/ a \in Presents /\ (VerifierOpens(a) \/ ObjectServed(a) \/ KeyServed(a)
                                    \/ VerifierJudges(a))
           \/ a \in Gets /\ Get(a)
           \/ a \in Presents /\ Present(a)
           \/ Continue(a)
           \/ ObjectArrives(a) /\ Proceed(a, "/jwks.json")
           \/ KeyArrives(a) /\ Proceed(a, "response_uri")
  <1>0. wire \in WireType
    BY TypeParts DEF Inv, PartsOK
  <1>1. ASSUME NEW b \in Attempts, b # a,
               \/ \E e : wire' = [wire EXCEPT ![b] = Sent(e)]
               \/ \E how : Answer(b, how)
        PROVE  wire'[a] = wire[a]
    BY <1>0, <1>1 DEF Answer, WireType
  <1>2. ASSUME WalletNext
        PROVE  \/ wire'[a] = wire[a]
               \/ a \in Gets /\ Get(a)
               \/ a \in Presents /\ Present(a)
               \/ Continue(a)
               \/ ObjectArrives(a) /\ Proceed(a, "/jwks.json")
               \/ KeyArrives(a) /\ Proceed(a, "response_uri")
    <2>1. ASSUME NEW b \in Gets, Get(b)
          PROVE  wire'[a] = wire[a] \/ (a \in Gets /\ Get(a))
      BY <1>1, <2>1 DEF Get, Start, Attempts
    <2>2. ASSUME NEW b \in Presents, Present(b)
          PROVE  wire'[a] = wire[a] \/ (a \in Presents /\ Present(a))
      BY <1>1, <2>2 DEF Present, Start, Attempts
    <2>3. ASSUME NEW b \in Attempts, Continue(b)
          PROVE  wire'[a] = wire[a] \/ Continue(a)
      BY <1>1, <2>3 DEF Continue, Proceed
    <2>4. ASSUME NEW b \in Attempts, ObjectArrives(b)
          PROVE  wire'[a] = wire[a] \/ (ObjectArrives(a) /\ Proceed(a, "/jwks.json"))
      BY <1>1, <2>4 DEF ObjectArrives, Proceed, End, Finish
    <2>5. ASSUME NEW b \in Attempts, KeyArrives(b)
          PROVE  wire'[a] = wire[a] \/ (KeyArrives(a) /\ Proceed(a, "response_uri"))
      BY <1>1, <2>5 DEF KeyArrives, Proceed, End, Finish
    <2>6. ASSUME NEW b \in Attempts,
                 StoreCredential(b) \/ ResultArrives(b) \/ RefusalArrives(b) \/ TimesOut(b)
          PROVE  wire' = wire
      BY <2>6 DEF StoreCredential, ResultArrives, RefusalArrives, TimesOut, End, Finish
    <2>7. ASSUME Restart \/ Reload
          PROVE  wire' = wire
      BY <2>7 DEF Restart, Reload, Finish
    <2> QED
      BY <1>2, <2>1, <2>2, <2>3, <2>4, <2>5, <2>6, <2>7 DEF WalletNext, Resume
  <1>3. ASSUME NEW b \in Attempts, wire[b] # None, NEW how \in {"serving", "refused"},
               wire[b].is = "sent" \/ (wire[b].is = "serving" /\ how = "refused"),
               Answer(b, how), how = "serving" => b \in Presents /\ VerifierAdmits(b)
        PROVE  \/ wire'[a] = wire[a]
               \/ Given(a)
    BY <1>0, <1>1, <1>3, AnswerWire DEF Given
  <1>4. ASSUME IssuerNext
        PROVE  wire'[a] = wire[a] \/ (a \in Gets /\ (IssuerServes(a) \/ IssuerIssues(a)))
    <2>1. ASSUME NEW b \in Gets, IssuerServes(b) \/ IssuerIssues(b)
          PROVE  wire'[a] = wire[a] \/ (a \in Gets /\ (IssuerServes(a) \/ IssuerIssues(a)))
      BY <1>1, <2>1 DEF IssuerServes, IssuerIssues, Attempts
    <2> QED
      BY <1>4, <2>1 DEF IssuerNext, IssuerRevokes, IssuerGivesUp, walletVars
  <1>5. ASSUME NEW b \in Presents,
               VerifierOpens(b) \/ ObjectServed(b) \/ KeyServed(b) \/ VerifierJudges(b)
        PROVE  \/ wire'[a] = wire[a]
               \/ a \in Presents /\ (VerifierOpens(a) \/ ObjectServed(a) \/ KeyServed(a)
                                        \/ VerifierJudges(a))
    BY <1>1, <1>5 DEF VerifierOpens, ObjectServed, KeyServed, VerifierJudges, Attempts
  <1>6. ASSUME NEW b \in Presents, VerifierAdmits(b) \/ VerifierFails(b)
        PROVE  \/ wire'[a] = wire[a]
               \/ Given(a)
    BY <1>3, <1>6 DEF VerifierAdmits, VerifierFails, Has, Attempts
  <1>7. ASSUME NEW b \in Attempts, ServiceRefuses(b)
        PROVE  \/ wire'[a] = wire[a]
               \/ Given(a)
    BY <1>3, <1>7 DEF ServiceRefuses
  <1>8. CASE SessionsMove \/ VerifierRestarts \/ UNCHANGED vars
    BY <1>8 DEF SessionsMove, VerifierRestarts, vars, walletVars
  <1> QED
    BY <1>2, <1>4, <1>5, <1>6, <1>7, <1>8 DEF Next, VerifierNext, VerifierServes

\* Who may tell that /credential or the response_uri has answered.
LEMMA AnswersNext == Inv /\ [Next]_vars => Answers'
  <1> SUFFICES ASSUME Inv, [Next]_vars PROVE Answers'
    OBVIOUS
  <1>0. /\ wire \in WireType /\ attempt \in AttemptType /\ ServiceType /\ TypeOK /\ Answers
        /\ Wiring /\ Gets \cap Presents = {}
    BY TypeParts, SystemAssumption DEF Inv, PartsOK
  <1>1. ASSUME NEW a \in Attempts, wire'[a] # None, wire'[a].is = "answered",
               wire'[a].to \in {"/credential", "response_uri"}
        PROVE  wire'[a] = wire[a] \/ (a \in Gets /\ IssuerIssues(a))
                                  \/ (a \in Presents /\ VerifierJudges(a))
    <2>1. ASSUME \E e : wire' = [wire EXCEPT ![a] = Sent(e)] PROVE FALSE
      BY <1>0, <1>1, <2>1 DEF Sent, WireType
    <2>2. ~(Get(a) \/ Present(a) \/ Continue(a) \/ Proceed(a, "/jwks.json")
                \/ Proceed(a, "response_uri"))
      BY <2>1 DEF Get, Present, Start, Continue, Proceed
    <2>3. ASSUME a \in Gets, IssuerServes(a) PROVE FALSE
      <3>1. PICK e \in {"/offer", "/par", "/authorize", "/token", "/credential"} :
                /\ wire[a] # None /\ wire[a].to = e
                /\ Answer(a, IF e = "/credential" THEN "serving" ELSE "answered")
        BY <2>3 DEF IssuerServes, Has
      <3> QED
        BY <1>0, <1>1, <3>1, AnswerWire
    <2>4. ASSUME a \in Presents, VerifierOpens(a) \/ ObjectServed(a) \/ KeyServed(a)
          PROVE  FALSE
      <3>1. /\ wire[a] # None /\ Answer(a, "answered")
            /\ wire[a].to \in {"/presentation/request", "request_uri", "/jwks.json"}
        BY <2>4 DEF VerifierOpens, ObjectServed, KeyServed, Has
      <3> QED
        BY <1>0, <1>1, <3>1, AnswerWire
    <2> QED
      BY <1>1, <2>2, <2>3, <2>4, WireMoves DEF Given
  <1>2. ASSUME NEW g \in Gets, Has(g, "/credential", "answered")'
        PROVE  stage'[g] = "issued"
    <2>1. CASE wire'[g] = wire[g]
      BY <1>0, <1>2, <2>1, ServicesLast DEF Answers, Has
    <2>2. CASE IssuerIssues(g)
      BY <1>0, <1>2, <2>2, AnswerWire DEF IssuerIssues, CredentialAt, Has, Attempts
    <2> QED
      BY <1>0, <1>1, <1>2, <2>1, <2>2 DEF Has, Attempts
  <1>3. ASSUME NEW p \in Presents, Has(p, "response_uri", "answered")'
        PROVE  (judgement[Session(p)] \in {"valid", "invalid"})'
    <2>1. wire'[p] # None /\ wire'[p].to = "response_uri" /\ wire'[p].is = "answered"
      BY <1>3 DEF Has
    <2>2. ASSUME Has(p, "response_uri", "serving") \/ Has(p, "response_uri", "answered")
          PROVE  Session(p) \in Sessions /\ Session(p)' = Session(p)
      BY <2>2, SessionKnown, PostedLasts DEF Has
    <2>3. CASE wire'[p] = wire[p]
      <3>1. Has(p, "response_uri", "answered")
        BY <2>1, <2>3 DEF Has
      <3>2. judgement[Session(p)] \in {"valid", "invalid"}
        BY <1>0, <3>1 DEF Answers
      <3> QED
        BY <2>2, <3>1, <3>2, ServicesLast
    <2>4. CASE VerifierJudges(p)
      <3>1. Has(p, "response_uri", "serving") /\ judgement'[Session(p)] \in Findings(p)
        BY <2>4 DEF VerifierJudges
      <3>2. judgement'[Session(p)] \in {"valid", "invalid"}
        BY <3>1 DEF Findings
      <3> QED
        BY <2>2, <3>1, <3>2
    <2> QED
      BY <1>0, <1>1, <2>1, <2>3, <2>4 DEF Attempts
  <1>4. ASSUME NEW s \in Sessions, judgement'[s] # "none" \/ submission'[s] # None
        PROVE  mailbox'[s] \notin {"unopened", "open"}
    <2>1. judgement[s] # "none" \/ submission[s] # None => mailbox[s] \notin {"unopened", "open"}
      BY <1>0 DEF Answers
    <2>2. CASE judgement[s] # "none" \/ submission[s] # None
      BY <2>1, <2>2, ServicesLast
    <2>3. ASSUME NEW p \in Presents, VerifierAdmits(p), Session(p) = s
          PROVE  mailbox'[s] \notin {"unopened", "open"}
      BY <1>0, <2>3 DEF VerifierAdmits, Verifier!Admit, ServiceType
    <2>4. ASSUME NEW q \in Sessions, SessionStep(q), judgement[s] = "none", judgement'[s] # "none"
          PROVE  mailbox'[s] \notin {"unopened", "open"}
      <3>1. q = s
        BY <1>0, <2>4, SessionTypes
      <3> QED
        BY <1>0, <2>4, <3>1
           DEF SessionStep, Verifier!Open, Verifier!Admit, Verifier!Judge, Verifier!Fail,
               Verifier!Read, ServiceType
    <2>5. ASSUME judgement[s] = "none", judgement'[s] # "none"
          PROVE  \E q \in Sessions : SessionStep(q)
      <3>1. ~VerifierRestarts
        BY <1>0, <2>5 DEF VerifierRestarts, ServiceType
      <3>2. ~\E S \in SUBSET Sessions : Verifier!Close(S)
        BY <2>5 DEF Verifier!Close
      <3> QED
        BY <2>5, <3>1, <3>2, SessionMoves
    <2>6. CASE judgement[s] = "none" /\ judgement'[s] # "none"
      BY <2>4, <2>5, <2>6
    <2>7. CASE submission[s] = None /\ submission'[s] # None
      BY <2>3, <2>7, SubmissionMoves
    <2> QED
      BY <1>4, <2>2, <2>6, <2>7
  <1> QED
    BY <1>2, <1>3, <1>4 DEF Answers

\* A session is asked about when it was opened.
LEMMA OpenedNext == Inv /\ [Next]_vars => Opened'
  <1> SUFFICES ASSUME Inv, [Next]_vars, NEW p \in Presents, wire'[p] # None,
                      wire'[p].to = "/presentation/request" => wire'[p].is = "answered"
               PROVE  mailbox'[p] # "unopened"
    BY DEF Opened
  <1>0. /\ wire \in WireType /\ attempt \in AttemptType /\ ServiceType /\ TypeOK /\ Opened
        /\ Wiring /\ p \notin Gets /\ p \in Attempts
    BY TypeParts, SystemAssumption DEF Inv, PartsOK, Attempts
  <1>1. ASSUME wire[p] # None,
               wire[p].to = "/presentation/request" => wire[p].is = "answered"
        PROVE  mailbox'[p] # "unopened"
    BY <1>0, <1>1, ServicesLast DEF Opened, Sessions
  <1>2. CASE wire'[p] = wire[p]
    BY <1>1, <1>2
  <1>3. CASE /\ wire[p] # None
             /\ wire'[p].to = wire[p].to /\ wire'[p].is \in {"serving", "refused"}
    BY <1>1, <1>3
  <1>4. CASE VerifierOpens(p)
    BY <1>0, <1>4 DEF VerifierOpens, Verifier!Open, ServiceType, Sessions
  <1>5. CASE ObjectServed(p) \/ KeyServed(p) \/ VerifierJudges(p)
    BY <1>1, <1>5 DEF ObjectServed, KeyServed, VerifierJudges, Has
  <1>6. CASE Present(p)
    BY <1>0, <1>6, SendWire DEF Present, Start, Endpoints
  <1>7. CASE Continue(p)
    <2>1. PICK e \in {"/offer", "/par", "/authorize", "/token", "/presentation/request"} :
              Awaits(p, e, "answered")
      BY <1>7 DEF Continue
    <2> QED
      BY <1>0, <1>1, <2>1, Awaiting
  <1>8. CASE ObjectArrives(p) \/ KeyArrives(p)
    BY <1>0, <1>1, <1>8, Awaiting DEF ObjectArrives, KeyArrives
  <1> QED
    BY <1>0, <1>2, <1>3, <1>4, <1>5, <1>6, <1>7, <1>8, WireMoves DEF Given
-----------------------------------------------------------------------------
\* How an attempt goes on.
LEMMA AttemptMoves ==
    ASSUME Inv, [Next]_vars, NEW a \in Attempts
    PROVE  \/ attempt'[a] = attempt[a]
           \/ attempt[a].status = "unused" /\ attempt'[a].status = "running"
                  /\ ((a \in Gets /\ Get(a)) \/ (a \in Presents /\ Present(a)))
           \/ attempt[a].status = "running" /\ attempt'[a].status = "error"
           \/ attempt'[a].status = "ok" /\ (StoreCredential(a) \/ ResultArrives(a))
  <1> DEFINE Moves ==
           \/ attempt'[a] = attempt[a]
           \/ attempt[a].status = "unused" /\ attempt'[a].status = "running"
                  /\ ((a \in Gets /\ Get(a)) \/ (a \in Presents /\ Present(a)))
           \/ attempt[a].status = "running" /\ attempt'[a].status = "error"
           \/ attempt'[a].status = "ok" /\ (StoreCredential(a) \/ ResultArrives(a))
  <1>0. TypeOK /\ attempt \in AttemptType /\ wire \in WireType
    BY TypeParts DEF Inv, PartsOK
  <1>1. CASE UNCHANGED attempt
    BY <1>1
  <1>2. ASSUME NEW b \in Attempts, NEW status \in {"ok", "error"}, End(b, status),
               attempt[b].status = "running"
        PROVE  \/ attempt'[a] = attempt[a]
               \/ a = b /\ attempt[a].status = "running" /\ attempt'[a].status = status
    BY <1>0, <1>2, FinishAttempts DEF End
  <1>3. ASSUME NEW b \in Gets, Get(b) PROVE Moves
    <2>1. \E f \in Formats, e \in Endpoints : Start(b, f, e)
      BY <1>3 DEF Get, FormatFor, Formats, Endpoints
    <2>2. CASE b = a
      BY <1>0, <1>3, <2>1, <2>2, StartAttempt
    <2>3. CASE b # a
      BY <1>0, <2>1, <2>3, StartAttempt DEF Attempts
    <2> QED
      BY <2>2, <2>3
  <1>4. ASSUME NEW b \in Presents, Present(b) PROVE Moves
    <2>1. \E f \in Formats, e \in Endpoints : Start(b, f, e)
      BY <1>0, <1>4 DEF Present, TypeOK, Endpoints
    <2>2. CASE b = a
      BY <1>0, <1>4, <2>1, <2>2, StartAttempt
    <2>3. CASE b # a
      BY <1>0, <2>1, <2>3, StartAttempt DEF Attempts
    <2> QED
      BY <2>2, <2>3
  <1>5. ASSUME NEW b \in Attempts, StoreCredential(b) PROVE Moves
    BY <1>2, <1>5, Awaiting DEF StoreCredential
  <1>6. ASSUME NEW b \in Attempts, ResultArrives(b) PROVE Moves
    BY <1>2, <1>6, Awaiting DEF ResultArrives
  <1>7. ASSUME NEW b \in Attempts,
               \/ Continue(b) \/ ObjectArrives(b) \/ KeyArrives(b) \/ RefusalArrives(b)
               \/ TimesOut(b)
        PROVE  Moves
    BY <1>1, <1>2, <1>7, Awaiting
       DEF Continue, ObjectArrives, KeyArrives, Proceed, RefusalArrives, TimesOut, Running
  <1>8. CASE Restart
    <2>1. /\ Finish(Running, "error") /\ Running \in SUBSET Attempts
          /\ \A b \in Running : attempt[b].status = "running"
      BY <1>8 DEF Restart, Running
    <2> QED
      BY <1>0, <2>1, FinishAttempts
  <1>9. CASE Reload
    BY <1>1, <1>9 DEF Reload
  <1>10. CASE IssuerNext \/ VerifierNext \/ \E b \in Attempts : ServiceRefuses(b)
    BY <1>1, <1>10
       DEF IssuerNext, IssuerServes, IssuerIssues, IssuerRevokes, IssuerGivesUp,
           VerifierNext, VerifierServes, VerifierOpens, ObjectServed, KeyServed,
           VerifierAdmits, VerifierJudges, VerifierFails, SessionsMove, VerifierRestarts,
           ServiceRefuses, walletVars
  <1>11. CASE UNCHANGED vars
    BY <1>1, <1>11 DEF vars, walletVars
  <1> QED
    BY <1>3, <1>4, <1>5, <1>6, <1>7, <1>8, <1>9, <1>10, <1>11 DEF Next, WalletNext, Resume

\* A grant moves when the issuer serves the attempt that it is for, or when it is live.
LEMMA StageMoves ==
    ASSUME Inv, [Next]_vars, NEW g \in Gets
    PROVE  stage'[g] = stage[g] \/ wire[g] # None \/ stage[g] \in Issuer!Live
  <1>0. stage \in [Gets -> Issuer!Stages]
    BY DEF Inv, TypeOK
  <1>1. ASSUME NEW h \in Gets, IssuerServes(h) \/ IssuerIssues(h)
        PROVE  stage'[g] = stage[g] \/ wire[g] # None
    <2>1. Issuer!Advance(h) /\ wire[h] # None
      BY <1>1 DEF IssuerServes, IssuerIssues, Has
    <2> QED
      BY <1>0, <2>1, AdvanceStage
  <1>2. ASSUME NEW S \in SUBSET Gets, Issuer!GiveUp(S)
        PROVE  stage'[g] = stage[g] \/ stage[g] \in Issuer!Live
    BY <1>0, <1>2 DEF Issuer!GiveUp
  <1>3. CASE IssuerNext
    BY <1>1, <1>2, <1>3 DEF IssuerNext, IssuerGivesUp, IssuerRevokes
  <1>4. CASE ~IssuerNext
    BY <1>4
       DEF Next, VerifierNext, VerifierServes, VerifierOpens, ObjectServed, KeyServed,
           VerifierAdmits, VerifierJudges, VerifierFails, SessionsMove, VerifierRestarts,
           ServiceRefuses, issuerVars, vars
  <1> QED
    BY <1>3, <1>4

\* Nothing is done for an attempt that has not begun.
LEMMA UntouchedNext == Inv /\ [Next]_vars => Untouched'
  <1> SUFFICES ASSUME Inv, [Next]_vars, NEW a \in Attempts, attempt'[a].status = "unused"
               PROVE  wire'[a] = None /\ (a \in Gets => stage'[a] = "fresh")
    BY DEF Untouched
  <1>1. attempt[a].status = "unused"
    BY AttemptsLast
  <1>2. wire[a] = None /\ (a \in Gets => stage[a] = "fresh")
    BY <1>1 DEF Inv, Untouched
  <1>3. wire'[a] = None
    <2>1. ~((a \in Gets /\ Get(a)) \/ (a \in Presents /\ Present(a)))
      <3>1. attempt \in AttemptType /\ wire \in WireType /\ TypeOK
        BY TypeParts DEF Inv, PartsOK
      <3>2. ASSUME NEW f, NEW e, Start(a, f, e) PROVE FALSE
        BY <3>1, <3>2 DEF Start, AttemptType
      <3> QED
        BY <3>2 DEF Get, Present
    <2> QED
      BY <1>2, <2>1, WireMoves, Awaiting
         DEF Given, IssuerServes, IssuerIssues, VerifierOpens, ObjectServed, KeyServed,
             VerifierJudges, Has, Continue, ObjectArrives, KeyArrives
  <1>4. a \in Gets => stage'[a] = "fresh"
    BY <1>2, StageMoves DEF Issuer!Live
  <1> QED
    BY <1>3, <1>4

\* What a present attempt knows of a request comes from the services, and goes when the
\* attempt ends.
LEMMA RequestMoves ==
    ASSUME Inv, [Next]_vars, NEW p \in Presents
    PROVE  \/ request'[p] = request[p] /\ jwks'[p] = jwks[p]
           \/ ObjectServed(p) /\ jwks'[p] = jwks[p]
           \/ KeyServed(p) /\ request'[p] = request[p]
           \/ /\ attempt'[p].status \in {"ok", "error"}
              /\ request'[p] = None /\ jwks'[p] = None
  <1> DEFINE Moves ==
           \/ request'[p] = request[p] /\ jwks'[p] = jwks[p]
           \/ ObjectServed(p) /\ jwks'[p] = jwks[p]
           \/ KeyServed(p) /\ request'[p] = request[p]
           \/ /\ attempt'[p].status \in {"ok", "error"}
              /\ request'[p] = None /\ jwks'[p] = None
  <1>0. TypeOK /\ ExchangeType /\ p \in Attempts
    BY TypeParts DEF Inv, PartsOK, Attempts
  <1>1. CASE UNCHANGED <<request, jwks>>
    BY <1>1
  <1>2. ASSUME NEW A \in SUBSET Attempts, NEW status \in {"ok", "error"}, Finish(A, status)
        PROVE  Moves
    BY <1>0, <1>2, FinishAttempts
  <1>3. ASSUME NEW b \in Attempts, NEW status \in {"ok", "error"}, End(b, status)
        PROVE  Moves
    BY <1>2, <1>3 DEF End
  <1>4. CASE WalletNext
    <2>1. CASE Restart
      BY <1>2, <2>1 DEF Restart, Running
    <2>2. CASE Reload \/ (\E a \in Gets : Get(a)) \/ (\E a \in Presents : Present(a))
      BY <1>1, <2>2 DEF Reload, Get, Present, Start
    <2>3. CASE \E a \in Attempts : Resume(a) \/ TimesOut(a)
      BY <1>1, <1>3, <2>3
         DEF Resume, Continue, StoreCredential, ObjectArrives, KeyArrives, Proceed,
             ResultArrives, RefusalArrives, TimesOut
    <2> QED
      BY <1>4, <2>1, <2>2, <2>3 DEF WalletNext
  <1>5. ASSUME NEW q \in Presents, ObjectServed(q) PROVE Moves
    BY <1>0, <1>5 DEF ObjectServed, ExchangeType
  <1>6. ASSUME NEW q \in Presents, KeyServed(q) PROVE Moves
    BY <1>0, <1>6 DEF KeyServed, ExchangeType
  <1>7. CASE \/ IssuerNext \/ SessionsMove \/ VerifierRestarts
             \/ \E a \in Attempts : ServiceRefuses(a)
             \/ \E q \in Presents : VerifierOpens(q) \/ VerifierAdmits(q) \/ VerifierJudges(q)
                                        \/ VerifierFails(q)
    BY <1>1, <1>7
       DEF IssuerNext, IssuerServes, IssuerIssues, IssuerRevokes, IssuerGivesUp,
           VerifierOpens, VerifierAdmits, VerifierJudges, VerifierFails, SessionsMove,
           VerifierRestarts, ServiceRefuses, walletVars, exchange
  <1>8. CASE UNCHANGED vars
    BY <1>1, <1>8 DEF vars, walletVars
  <1> QED
    BY <1>4, <1>5, <1>6, <1>7, <1>8 DEF Next, VerifierNext, VerifierServes

\* An object of the verifier stays one, and what passed the checks would pass them again.
LEMMA GenuineLasts ==
    ASSUME Inv, [Next]_vars, NEW r
    PROVE  /\ Known(r) => Known(r)'
           /\ Genuine(r) => Genuine(r)'
  <1>1. verifierKey <= verifierKey' /\ verifierKey \in Nat /\ verifierKey' \in Nat
    BY ServicesLast, TypeNext DEF Inv, TypeOK
  <1>2. Known(r) => Known(r)'
    BY <1>1, ServicesLast DEF Known
  <1> QED
    BY <1>2 DEF Genuine

\* What a running present attempt knows when its next request goes out or is answered.
LEMMA RequestedNext == Inv /\ [Next]_vars => Requested'
  <1> SUFFICES ASSUME Inv, [Next]_vars, NEW p \in Presents
               PROVE  (/\ request[p] # None => request[p].key = OtherKey \/ Known(request[p])
                       /\ p \in Running /\ Has(p, "request_uri", "answered") =>
                              request[p] # None
                       /\ p \in Running /\ wire[p] # None /\ wire[p].to = "/jwks.json" =>
                              request[p] # None /\ TrustedClient(request[p])
                       /\ p \in Running /\ Has(p, "/jwks.json", "answered") =>
                              jwks[p] # None
                       /\ jwks[p] # None => jwks[p] \in 0 .. verifierKey)'
    BY DEF Requested
  <1>0. /\ wire \in WireType /\ ServiceType /\ ExchangeType /\ TypeOK
        /\ Wiring /\ p \notin Gets /\ p \in Attempts /\ attempt \in AttemptType
    BY TypeParts, SystemAssumption DEF Inv, PartsOK, Attempts
  <1>1. /\ request[p] # None => request[p].key = OtherKey \/ Known(request[p])
        /\ p \in Running /\ Has(p, "request_uri", "answered") => request[p] # None
        /\ p \in Running /\ wire[p] # None /\ wire[p].to = "/jwks.json" =>
               request[p] # None /\ TrustedClient(request[p])
        /\ p \in Running /\ Has(p, "/jwks.json", "answered") => jwks[p] # None
        /\ jwks[p] # None => jwks[p] \in 0 .. verifierKey
    BY DEF Inv, Requested
  <1>2. ASSUME ObjectServed(p), NEW r, r = request'[p]
        PROVE  /\ r \in RequestObjects /\ r # None
               /\ r.key = OtherKey \/ Known(r)'
               /\ wire'[p].to = "request_uri"
    <2>1. /\ wire[p] # None /\ wire[p].to = "request_uri" /\ Answer(p, "answered")
          /\ verifierKey' = verifierKey
      BY <1>2 DEF ObjectServed, Has
    <2>2. attempt[p].format \in Formats /\ verifierKey \in 0 .. MaxFaults
      BY <1>0 DEF AttemptType, ServiceType
    <2>3. \/ /\ r = OwnRequest(p)
             /\ mailbox' = mailbox
          \/ r \in ForeignRequests(p) /\ Named(r.nonce)
      BY <1>0, <1>2 DEF ObjectServed, ExchangeType
    <2>4. CASE /\ r = OwnRequest(p)
               /\ mailbox' = mailbox
      <3>1. r \in RequestObjects
        BY <1>0, <2>2, <2>4, ObjectTypes
      <3>2. mailbox[p] # "unopened"
        BY <2>1 DEF Inv, Opened
      <3>3. r.key = verifierKey /\ r.nonce = p /\ p \in Sessions
        BY <2>4 DEF OwnRequest, SignRequestObject, Sessions
      <3>4. Known(r)'
        BY <2>1, <2>2, <2>4, <3>2, <3>3 DEF Known
      <3> QED
        BY <1>0, <2>1, <3>1, <3>4, AnswerWire, NoneAssumption
    <2>5. CASE r \in ForeignRequests(p) /\ Named(r.nonce)
      <3>1. /\ r \in RequestObjects
            /\ r.key = OtherKey \/ (r.key \in 0 .. verifierKey /\ r.nonce \in Sessions)
        BY <1>0, <2>2, <2>5, ObjectTypes
      <3>2. r.nonce \in Sessions => mailbox'[r.nonce] # "unopened"
        BY <1>0, <2>5, SystemAssumption DEF Named, Verifier!Open, ServiceType
      <3>3. r.key = OtherKey \/ Known(r)'
        BY <2>1, <3>1, <3>2 DEF Known
      <3> QED
        BY <1>0, <2>1, <3>1, <3>3, AnswerWire, NoneAssumption
    <2> QED
      BY <2>3, <2>4, <2>5
  <1>3. ASSUME KeyServed(p)
        PROVE  /\ jwks'[p] = verifierKey /\ verifierKey' = verifierKey
               /\ verifierKey \in VerifierKeys
               /\ wire'[p].to = "/jwks.json"
    <2>1. /\ wire[p] # None /\ wire[p].to = "/jwks.json" /\ p \in Running
          /\ jwks' = [jwks EXCEPT ![p] = KeyAt(request[p].client_id)]
          /\ verifierKey' = verifierKey /\ Answer(p, "answered")
      BY <1>3 DEF KeyServed, Has, verifierVars
    <2>2. KeyAt(request[p].client_id) = verifierKey /\ verifierKey \in VerifierKeys
      BY <1>0, <1>1, <2>1, SystemAssumption DEF TrustedClient, KeyAt, ServiceType
    <2>3. jwks'[p] = verifierKey
      BY <1>0, <2>1, <2>2 DEF ExchangeType
    <2> QED
      BY <1>0, <2>1, <2>2, <2>3, AnswerWire
  <1>4. ASSUME NEW r, r = request'[p], r # None
        PROVE  r.key = OtherKey \/ Known(r)'
    BY <1>1, <1>2, <1>4, RequestMoves, GenuineLasts
  <1>5. jwks'[p] # None => jwks'[p] \in 0 .. verifierKey'
    <2>1. verifierKey <= verifierKey' /\ verifierKey \in Nat /\ verifierKey' \in Nat
      BY ServicesLast, TypeNext DEF Inv, TypeOK
    <2>2. CASE jwks'[p] = jwks[p]
      BY <1>1, <2>1, <2>2
    <2>3. CASE KeyServed(p)
      BY <1>3, <2>1, <2>3
    <2> QED
      BY <2>2, <2>3, RequestMoves
  <1>6. ASSUME p \in Running', wire'[p] # None, wire'[p].to # "/presentation/request"
        PROVE  p \in Running
    <2>1. ~Present(p)
      BY <1>0, <1>6, SendWire DEF Present, Start, Endpoints
    <2> QED
      BY <1>0, <1>6, <2>1, AttemptMoves DEF Running
  <1>7. ASSUME p \in Running', wire'[p] # None, wire'[p].is = "answered",
               wire'[p].to \in {"request_uri", "/jwks.json"}
        PROVE  \/ wire'[p] = wire[p] /\ p \in Running
               \/ ObjectServed(p) \/ KeyServed(p)
    <2>1. ASSUME \E e : wire' = [wire EXCEPT ![p] = Sent(e)] PROVE FALSE
      BY <1>0, <1>7, <2>1 DEF Sent, WireType
    <2>2. ~(Present(p) \/ Continue(p) \/ Proceed(p, "/jwks.json") \/ Proceed(p, "response_uri"))
      BY <2>1 DEF Present, Start, Continue, Proceed
    <2>3. ASSUME VerifierOpens(p) \/ VerifierJudges(p) PROVE FALSE
      <3>1. /\ wire[p] # None /\ Answer(p, "answered")
            /\ wire[p].to \in {"/presentation/request", "response_uri"}
        BY <2>3 DEF VerifierOpens, VerifierJudges, Has
      <3> QED
        BY <1>0, <1>7, <3>1, AnswerWire
    <2> QED
      BY <1>0, <1>6, <1>7, <2>2, <2>3, WireMoves DEF Given
  \* Its knowledge stays as long as it runs, but for what the services tell it.
  <1>8. ASSUME p \in Running', ~ObjectServed(p)
        PROVE  request'[p] = request[p] /\ (~KeyServed(p) => jwks'[p] = jwks[p])
    BY <1>8, RequestMoves DEF Running
  <1>9. ASSUME p \in Running', Has(p, "request_uri", "answered")'
        PROVE  request'[p] # None
    <2>1. wire'[p] # None /\ wire'[p].to = "request_uri" /\ wire'[p].is = "answered"
      BY <1>9 DEF Has
    <2>2. CASE ObjectServed(p)
      BY <1>2, <2>2
    <2>3. CASE wire'[p] = wire[p] /\ p \in Running /\ ~ObjectServed(p)
      BY <1>1, <1>8, <1>9, <2>1, <2>3 DEF Has
    <2> QED
      BY <1>3, <1>7, <1>9, <2>1, <2>2, <2>3
  <1>10. ASSUME p \in Running', wire'[p] # None, wire'[p].to = "/jwks.json"
         PROVE  request'[p] # None /\ TrustedClient(request'[p])
    <2>1. p \in Running /\ ~ObjectServed(p)
      BY <1>2, <1>6, <1>10
    <2>2. CASE wire[p] # None /\ wire[p].to = "/jwks.json"
      BY <1>1, <1>8, <1>10, <2>1, <2>2
    <2>3. CASE ObjectArrives(p) /\ Proceed(p, "/jwks.json")
      <3>1. Has(p, "request_uri", "answered")
        BY <2>3 DEF ObjectArrives, Awaits, Has
      <3>2. TrustedClient(request[p])
        <4>1. ASSUME End(p, "error") PROVE FALSE
          BY <1>0, <1>10, <4>1, FinishAttempts DEF End, Running
        <4> QED
          BY <2>3, <4>1 DEF ObjectArrives
      <3> QED
        BY <1>1, <1>8, <1>10, <2>1, <3>1, <3>2
    <2>4. ASSUME NEW e \in Endpoints, e # "/jwks.json", wire' = [wire EXCEPT ![p] = Sent(e)]
          PROVE  FALSE
      BY <1>0, <1>10, <2>4, SendWire
    <2>5. ~(Present(p) \/ Continue(p) \/ Proceed(p, "response_uri"))
      <3>1. \A e \in {"/offer", "/par", "/authorize", "/token", "/presentation/request"} :
                NextEndpoint(e) # "/jwks.json"
        BY DEF NextEndpoint
      <3> QED
        BY <2>4, <3>1, NextIsEndpoint DEF Present, Start, Continue, Proceed, Endpoints
    <2>6. ASSUME VerifierOpens(p) \/ VerifierJudges(p) \/ KeyServed(p)
          PROVE  wire[p] # None /\ wire[p].to = wire'[p].to
      <3>1. wire[p] # None /\ Answer(p, "answered")
        BY <2>6 DEF VerifierOpens, VerifierJudges, KeyServed, Has
      <3> QED
        BY <1>0, <3>1, AnswerWire
    <2> QED
      BY <1>0, <1>10, <2>1, <2>2, <2>3, <2>5, <2>6, WireMoves DEF Given
  <1>11. ASSUME p \in Running', Has(p, "/jwks.json", "answered")'
         PROVE  jwks'[p] # None
    <2>1. wire'[p] # None /\ wire'[p].to = "/jwks.json" /\ wire'[p].is = "answered"
      BY <1>11 DEF Has
    <2>2. ~ObjectServed(p)
      BY <1>2, <2>1
    <2>3. CASE KeyServed(p)
      BY <1>3, <2>3, NoneAssumption
    <2>4. CASE wire'[p] = wire[p] /\ p \in Running /\ ~KeyServed(p)
      BY <1>1, <1>8, <1>11, <2>1, <2>2, <2>4 DEF Has
    <2> QED
      BY <1>7, <1>11, <2>1, <2>2, <2>3, <2>4
  <1> QED
    BY <1>4, <1>5, <1>9, <1>10, <1>11 DEF Known
-----------------------------------------------------------------------------
\* A credential that is stored comes after those that are there.
LEMMA Appended ==
    ASSUME TypeOK, NEW a \in Attempts, StoreCredential(a)
    PROVE  /\ Len(credentials') = Len(credentials) + 1
           /\ \A i \in 1 .. Len(credentials) : credentials'[i] = credentials[i]
           /\ credentials'[Len(credentials) + 1] = [format |-> attempt[a].format, grant |-> a]
  BY DEF TypeOK, StoreCredential

\* As long as the wallet is not restarted, what matches stays, and so does what is found.
LEMMA FoundLasts ==
    ASSUME Inv, [Next]_vars, process' = process, NEW f
    PROVE  /\ Matching(f) # {} => Matching(f)' # {}
           /\ \A i \in Found(f) : i \in Found(f)' /\ credentials'[i] = credentials[i]
  <1>0. TypeOK /\ process \in Nat /\ credentials \in Seq(StoredCredentials)
    BY DEF Inv, TypeOK
  <1>1. CASE UNCHANGED credentials
    BY <1>1 DEF Found, Matching
  <1>2. ASSUME NEW a \in Attempts, StoreCredential(a)
        PROVE  /\ Matching(f) # {} => Matching(f)' # {}
               /\ \A i \in Found(f) : i \in Found(f)' /\ credentials'[i] = credentials[i]
    <2>0. PICK n \in Nat : n = Len(credentials)
      BY <1>0
    <2>1. Len(credentials') = n + 1 /\ \A i \in 1 .. n : credentials'[i] = credentials[i]
      BY <1>0, <1>2, <2>0, Appended
    <2>2. \A i \in Matching(f) : i \in Matching(f)'
      BY <2>0, <2>1 DEF Matching
    <2>3. \A i \in Matching(f)' : i \in Matching(f) \/ i = n + 1
      BY <2>0, <2>1 DEF Matching
    <2>4. ASSUME NEW i \in Found(f) PROVE i \in Found(f)' /\ credentials'[i] = credentials[i]
      <3>1. i \in Matching(f) /\ i \in 1 .. n /\ \A j \in Matching(f) : i <= j
        BY <2>0 DEF Found, Matching
      <3>2. i <= n + 1
        BY <2>0, <3>1
      <3>3. \A j \in Matching(f)' : i <= j
        BY <2>3, <3>1, <3>2
      <3> QED
        BY <2>1, <2>2, <3>1, <3>3 DEF Found
    <2> QED
      BY <2>2, <2>4
  <1> QED
    BY <1>0, <1>1, <1>2, CredentialsMove

\* For a format that can be presented there is a credential.
LEMMA PresentableNext == Inv /\ [Next]_vars => Presentable'
  <1> SUFFICES ASSUME Inv, [Next]_vars, process' = 0
               PROVE  (/\ \A p \in Presents : attempt[p].status # "unused" =>
                              Matching(attempt[p].format) # {}
                       /\ \A f \in page.present : Matching(f) # {})'
    BY DEF Presentable
  <1>0. /\ TypeOK /\ attempt \in AttemptType /\ page \in PageType /\ process \in Nat
        /\ wire \in WireType /\ credentials \in Seq(StoredCredentials)
        /\ Wiring /\ Gets \cap Presents = {}
    BY TypeParts, SystemAssumption DEF Inv, PartsOK, ExchangeType
  <1>1. process = 0 /\ process' = process
    BY <1>0, CredentialsMove
  <1>2. /\ \A p \in Presents : attempt[p].status # "unused" => Matching(attempt[p].format) # {}
        /\ \A f \in page.present : Matching(f) # {}
    BY <1>1 DEF Inv, Presentable
  <1>3. \A f : Matching(f) # {} => Matching(f)' # {}
    BY <1>1, FoundLasts
  <1>4. ASSUME NEW p \in Presents, attempt'[p].status # "unused", NEW f, f = attempt'[p].format
        PROVE  Matching(f)' # {}
    <2>0. p \in Attempts /\ p \notin Gets
      BY <1>0 DEF Attempts
    <2>1. CASE attempt[p].status # "unused"
      BY <1>2, <1>3, <1>4, <2>0, <2>1, AttemptsLast
    <2>2. CASE attempt[p].status = "unused"
      <3>1. ASSUME Present(p) PROVE Matching(f)' # {}
        <4>1. PICK g \in page.present : Start(p, g, "/presentation/request") /\ g \in Formats
          BY <1>0, <3>1 DEF Present, PageType
        <4>2. f = g
          BY <1>0, <1>4, <2>0, <4>1, StartAttempt DEF Endpoints
        <4> QED
          BY <1>2, <1>3, <4>1, <4>2
      <3>2. ASSUME StoreCredential(p) \/ ResultArrives(p) PROVE FALSE
        BY <2>0, <2>2, <3>2, Awaiting DEF StoreCredential, ResultArrives
      <3> QED
        BY <1>4, <2>0, <2>2, <3>1, <3>2, AttemptMoves
    <2> QED
      BY <2>1, <2>2
  \* The buttons.
  <1>5. ASSUME NEW f \in page'.present PROVE Matching(f)' # {}
    <2>1. CASE f \in page.present
      BY <1>2, <1>3, <2>1
    <2>2. ASSUME NEW a \in Attempts, StoreCredential(a) PROVE Matching(f)' # {}
      <3>1. f \in page.present \/ f = attempt[a].format
        BY <1>0, <2>2, EndPage DEF StoreCredential, PresentAgain
      <3>2. CASE f = attempt[a].format
        <4>1. PICK n \in Nat : n = Len(credentials)
          BY <1>0
        <4>2. /\ Len(credentials') = n + 1
              /\ credentials'[n + 1] = [format |-> attempt[a].format, grant |-> a]
          BY <1>0, <2>2, <4>1, Appended
        <4>3. n + 1 \in Matching(f)'
          BY <3>2, <4>2 DEF Matching
        <4> QED
          BY <4>3
      <3> QED
        BY <2>1, <3>1, <3>2
    <2>3. ASSUME NEW a \in Attempts, NEW status \in {"ok", "error"}, End(a, status),
                 attempt[a].status = "running", status = "ok" => a \in Presents
          PROVE  Matching(f)' # {}
      <3>1. f \in page.present \/ (a \in Presents /\ f = attempt[a].format)
        BY <1>0, <2>3, EndPage DEF PresentAgain
      <3> QED
        BY <1>2, <1>3, <2>1, <2>3, <3>1
    <2>4. CASE page' = page \/ page'.present \subseteq page.present
      BY <2>1, <2>4
    <2>5. CASE WalletNext
      <3>1. CASE \E a \in Gets : Get(a)
        BY <1>0, <2>4, <3>1 DEF Get, PageType
      <3>2. CASE \E a \in Presents : Present(a)
        BY <1>0, <2>4, <3>2 DEF Present, PageType
      <3>3. ASSUME NEW a \in Attempts, Continue(a) PROVE Matching(f)' # {}
        BY <2>4, <3>3 DEF Continue, Proceed
      <3>4. ASSUME NEW a \in Attempts, ResultArrives(a) PROVE Matching(f)' # {}
        <4>1. a \in Presents /\ attempt[a].status = "running"
          BY <1>0, <3>4, Awaiting, WiredAs DEF ResultArrives, GetEndpoints
        <4> QED
          BY <2>3, <3>4, <4>1 DEF ResultArrives
      <3>5. ASSUME NEW a \in Attempts,
                   ObjectArrives(a) \/ KeyArrives(a) \/ RefusalArrives(a) \/ TimesOut(a)
            PROVE  Matching(f)' # {}
        <4>1. attempt[a].status = "running"
          BY <3>5, Awaiting DEF ObjectArrives, KeyArrives, RefusalArrives, TimesOut, Running
        <4>2. page' = page \/ End(a, "error")
          BY <3>5 DEF ObjectArrives, KeyArrives, Proceed, RefusalArrives, TimesOut
        <4> QED
          BY <2>3, <2>4, <4>1, <4>2
      <3>6. CASE Restart
        BY <1>0, <2>4, <3>6 DEF Restart, PageType
      <3>7. CASE Reload
        BY <1>5, <3>7 DEF Reload, NewPage
      <3> QED
        BY <2>2, <2>5, <3>1, <3>2, <3>3, <3>4, <3>5, <3>6, <3>7 DEF WalletNext, Resume
    <2>6. CASE IssuerNext \/ VerifierNext \/ \E b \in Attempts : ServiceRefuses(b)
      BY <2>4, <2>6
         DEF IssuerNext, IssuerServes, IssuerIssues, IssuerRevokes, IssuerGivesUp,
             VerifierNext, VerifierServes, VerifierOpens, ObjectServed, KeyServed,
             VerifierAdmits, VerifierJudges, VerifierFails, SessionsMove, VerifierRestarts,
             ServiceRefuses, walletVars, exchange
    <2>7. CASE UNCHANGED vars
      BY <2>4, <2>7 DEF vars, walletVars
    <2> QED
      BY <2>5, <2>6, <2>7 DEF Next
  <1> QED
    BY <1>4, <1>5

\* What the wallet answers is genuine: it has checked all that tells it from the rest, the
\* origin of the answer included.
LEMMA AcceptedIsGenuine ==
    ASSUME Inv, NEW p \in Presents, KeyArrives(p), Acceptable(p)
    PROVE  Genuine(request[p])
  <1>1. /\ p \in Presents /\ request[p] \in RequestObjects /\ TrustedClient(request[p])
        /\ request[p] # None /\ jwks[p] \in 0 .. verifierKey
    BY KeyKnown DEF KeyArrives, Attempts
  <1>2. verifierKey \in 0 .. MaxFaults
    BY DEF Inv, TypeOK
  <1>3. request[p].key # OtherKey /\ request[p].aud = WalletAudience
    BY <1>1, <1>2, SystemAssumption DEF Acceptable, VerifyPresentationRequest
  <1>4. Known(request[p])
    BY <1>1, <1>3 DEF Inv, Requested
  <1>5. request[p].response_uri = VerifierUrl
    BY <1>1, SystemAssumption DEF Acceptable, SameOrigin, TrustedClient
  <1> QED
    BY <1>3, <1>4, <1>5 DEF Genuine

\* And what it presents has the type of a presentation.
LEMMA PresentedType ==
    ASSUME Inv, NEW p \in Presents, KeyArrives(p), NEW i \in Found(request[p].format)
    PROVE  [format |-> request[p].format, grant |-> credentials[i].grant,
            process |-> process, request |-> request[p]] \in VpTokens
  <1>1. request[p] \in RequestObjects
    BY KeyKnown DEF KeyArrives, Attempts
  <1>2. credentials \in Seq(StoredCredentials) /\ process \in Nat
    BY DEF Inv, TypeOK
  <1>3. credentials[i] \in StoredCredentials
    BY <1>2 DEF Found, Matching
  <1> QED
    BY <1>1, <1>2, <1>3 DEF VpTokens, StoredCredentials, RequestObjects

\* The request that carries the presentation is the last one of its attempt, and is sent
\* when the presentation is put together.
LEMMA PostedNext ==
    ASSUME Inv, [Next]_vars, NEW p \in Presents
    PROVE  (vpToken[p] # None <=> (wire[p] # None /\ wire[p].to = "response_uri"))'
  <1>0. /\ wire \in WireType /\ ExchangeType /\ p \notin Gets /\ p \in Attempts
    BY TypeParts, SystemAssumption DEF Inv, PartsOK, Attempts
  <1>1. vpToken[p] # None <=> (wire[p] # None /\ wire[p].to = "response_uri")
    BY DEF Inv, Presented
  <1>2. ASSUME KeyArrives(p), Acceptable(p)
        PROVE  vpToken'[p] # None /\ wire'[p] # None /\ wire'[p].to = "response_uri"
    <2>1. PICK i \in Found(request[p].format) : vpToken' = [vpToken EXCEPT ![p] =
                   [format |-> request[p].format, grant |-> credentials[i].grant,
                    process |-> process, request |-> request[p]]]
      BY <1>2 DEF KeyArrives
    <2>2. [format |-> request[p].format, grant |-> credentials[i].grant,
           process |-> process, request |-> request[p]] \in VpTokens
      BY <1>2, <2>1, PresentedType
    <2>3. vpToken'[p] # None
      BY <1>0, <2>1, <2>2, NoneAssumption DEF ExchangeType
    <2>4. wire' = [wire EXCEPT ![p] = Sent("response_uri")]
      BY <1>2 DEF KeyArrives, Proceed
    <2>5. wire'[p] = Sent("response_uri") /\ Sent("response_uri") \in Wires
      BY <1>0, <2>4 DEF WireType, Sent, Wires, Endpoints
    <2> QED
      BY <2>3, <2>5, NoneAssumption DEF Sent
  <1>3. ASSUME ~(KeyArrives(p) /\ Acceptable(p))
        PROVE  /\ vpToken'[p] = vpToken[p]
               /\ (wire[p] # None /\ wire[p].to = "response_uri")
                      <=> (wire'[p] # None /\ wire'[p].to = "response_uri")
    <2>1. vpToken'[p] = vpToken[p]
      BY <1>3, VpTokenMoves
    <2> SUFFICES (wire[p] # None /\ wire[p].to = "response_uri")
                     <=> (wire'[p] # None /\ wire'[p].to = "response_uri")
      BY <2>1
    <2>2. CASE wire'[p] = wire[p]
      BY <2>2
    <2>3. CASE Given(p)
      BY <2>3, NoneAssumption DEF Given
    <2>4. CASE VerifierOpens(p) \/ ObjectServed(p) \/ KeyServed(p) \/ VerifierJudges(p)
      <3>1. wire[p] # None /\ Answer(p, "answered")
        BY <2>4 DEF VerifierOpens, ObjectServed, KeyServed, VerifierJudges, Has
      <3> QED
        BY <1>0, <3>1, AnswerWire, NoneAssumption
    <2>5. ASSUME NEW e \in Endpoints, e # "response_uri", wire' = [wire EXCEPT ![p] = Sent(e)]
          PROVE  wire'[p].to # "response_uri"
      BY <1>0, <2>5, SendWire
    <2>6. CASE Present(p)
      <3>1. PICK f \in page.present : Start(p, f, "/presentation/request")
        BY <2>6 DEF Present
      <3>2. attempt[p].status = "unused" /\ wire' = [wire EXCEPT ![p] = Sent("/presentation/request")]
        BY <3>1 DEF Start
      <3>3. wire[p] = None
        BY <1>0, <3>2 DEF Inv, Untouched
      <3> QED
        BY <2>5, <3>2, <3>3 DEF Endpoints
    <2>7. CASE Continue(p)
      <3>1. PICK e \in {"/offer", "/par", "/authorize", "/token", "/presentation/request"} :
                Awaits(p, e, "answered") /\ Proceed(p, NextEndpoint(e))
        BY <2>7 DEF Continue
      <3>2. wire[p].to # "response_uri"
        BY <1>0, <3>1, Awaiting
      <3>3. NextEndpoint(e) # "response_uri" /\ NextEndpoint(e) \in Endpoints
        BY NextIsEndpoint DEF NextEndpoint
      <3> QED
        BY <2>5, <3>1, <3>2, <3>3 DEF Proceed
    <2>8. CASE ObjectArrives(p) /\ Proceed(p, "/jwks.json")
      <3>1. wire[p].to # "response_uri"
        BY <1>0, <2>8, Awaiting DEF ObjectArrives
      <3> QED
        BY <2>5, <2>8, <3>1 DEF Proceed, Endpoints
    <2>9. ASSUME KeyArrives(p), Proceed(p, "response_uri"), wire'[p] # wire[p] PROVE FALSE
      BY <1>3, <2>9 DEF KeyArrives, End, Finish
    <2> QED
      BY <1>0, <2>2, <2>3, <2>4, <2>6, <2>7, <2>8, <2>9, WireMoves
  <1> QED
    BY <1>1, <1>2, <1>3

\* Who is being served has been admitted.
LEMMA ServedNext ==
    ASSUME Inv, [Next]_vars, NEW p \in Presents,
           (Has(p, "response_uri", "serving") \/ Has(p, "response_uri", "answered"))'
    PROVE  (submission[Session(p)] = p)'
  <1>0. /\ wire \in WireType /\ ServiceType /\ p \notin Gets /\ p \in Attempts /\ p # None
    BY TypeParts, SystemAssumption DEF Inv, PartsOK, Attempts, Sessions
  <1>1. wire'[p] # None /\ wire'[p].to = "response_uri" /\ wire'[p].is \in {"serving", "answered"}
    BY DEF Has
  <1>2. ASSUME Has(p, "response_uri", "serving") \/ Has(p, "response_uri", "answered")
        PROVE  (submission[Session(p)] = p)'
    <2>1. submission[Session(p)] = p
      BY <1>2 DEF Inv, Presented
    <2>2. Session(p) \in Sessions /\ Session(p)' = Session(p)
      BY <1>2, SessionKnown, PostedLasts DEF Has
    <2> QED
      BY <1>0, <2>1, <2>2, SubmissionMoves
  <1>3. CASE VerifierAdmits(p)
    <2>1. Session(p) \in Sessions /\ Session(p)' = Session(p)
      BY <1>3, SessionKnown, PostedLasts DEF VerifierAdmits, Has
    <2> QED
      BY <1>0, <1>3, <2>1 DEF VerifierAdmits, ServiceType
  <1>4. CASE wire'[p] = wire[p]
    BY <1>1, <1>2, <1>4 DEF Has
  <1>5. CASE Given(p)
    BY <1>1, <1>3, <1>5 DEF Given
  <1>6. CASE VerifierJudges(p)
    BY <1>2, <1>6 DEF VerifierJudges
  <1>7. ~(VerifierOpens(p) \/ ObjectServed(p) \/ KeyServed(p))
    <2>1. ASSUME VerifierOpens(p) \/ ObjectServed(p) \/ KeyServed(p)
          PROVE  wire[p] # None /\ wire[p].to # "response_uri" /\ Answer(p, "answered")
      BY <2>1 DEF VerifierOpens, ObjectServed, KeyServed, Has
    <2> QED
      BY <1>0, <1>1, <2>1, AnswerWire
  <1>8. ~(Present(p) \/ Continue(p) \/ Proceed(p, "/jwks.json") \/ Proceed(p, "response_uri"))
    <2>1. ASSUME \E e : wire' = [wire EXCEPT ![p] = Sent(e)] PROVE FALSE
      BY <1>0, <1>1, <2>1 DEF Sent, WireType
    <2> QED
      BY <2>1 DEF Present, Start, Continue, Proceed
  <1> QED
    BY <1>0, <1>4, <1>5, <1>6, <1>7, <1>8, WireMoves

\* What was presented stays the first credential of its format.
LEMMA PresentedNext == Inv /\ [Next]_vars => Presented'
  <1> SUFFICES ASSUME Inv, [Next]_vars, NEW p \in Presents, NEW v, v = vpToken'[p], v # None
               PROVE  /\ Genuine(v.request)'
                      /\ v.process <= process'
                      /\ v.process = process' =>
                             \E i \in Found(v.format)' : credentials'[i].grant = v.grant
    BY PostedNext, ServedNext DEF Presented, Genuine, Known, Found, Matching
  <1>0. ExchangeType /\ process \in Nat /\ process' \in Nat
    BY TypeParts, TypeNext DEF Inv, PartsOK, ExchangeType
  <1>1. process' = process \/ process' = process + 1
    BY CredentialsMove
  <1>2. CASE v = vpToken[p]
    <2>1. /\ Genuine(v.request) /\ v.process <= process /\ v.process \in Nat
          /\ v.process = process => \E i \in Found(v.format) : credentials[i].grant = v.grant
      BY <1>0, <1>2 DEF Inv, Presented, ExchangeType, VpTokens
    <2>2. Genuine(v.request)'
      BY <2>1, GenuineLasts
    <2>3. v.process <= process'
      BY <1>0, <1>1, <2>1
    <2>4. ASSUME v.process = process'
          PROVE  \E i \in Found(v.format)' : credentials'[i].grant = v.grant
      <3>1. process' = process
        BY <1>0, <1>1, <2>1, <2>4
      <3> QED
        BY <2>1, <2>4, <3>1, FoundLasts
    <2> QED
      BY <2>2, <2>3, <2>4
  <1>3. CASE v # vpToken[p]
    <2>1. PICK i \in Found(request[p].format) :
              v = [format |-> request[p].format, grant |-> credentials[i].grant,
                   process |-> process, request |-> request[p]]
      BY <1>3, VpTokenMoves
    <2>2. KeyArrives(p) /\ Acceptable(p) /\ process' = process
      BY <1>3, VpTokenMoves DEF KeyArrives
    <2>3. /\ v.request = request[p] /\ v.process = process /\ v.format = request[p].format
          /\ v.grant = credentials[i].grant
      BY <2>1
    <2>4. Genuine(v.request)'
      BY <2>2, <2>3, AcceptedIsGenuine, GenuineLasts
    <2>5. i \in Found(v.format)' /\ credentials'[i].grant = v.grant
      BY <2>2, <2>3, FoundLasts
    <2> QED
      BY <1>0, <2>2, <2>3, <2>4, <2>5
  <1> QED
    BY <1>2, <1>3

\* What the wallet has and reports is the case.
LEMMA ReportedNext == Inv /\ [Next]_vars => Reported'
  <1> SUFFICES ASSUME Inv, [Next]_vars PROVE Reported'
    OBVIOUS
  <1>0. /\ TypeOK /\ wire \in WireType /\ attempt \in AttemptType /\ process \in Nat
        /\ credentials \in Seq(StoredCredentials) /\ Wiring /\ Gets \cap Presents = {}
    BY TypeParts, SystemAssumption DEF Inv, PartsOK, ExchangeType
  <1>1. /\ \A i, j \in 1 .. Len(credentials) :
               credentials[i].grant = credentials[j].grant => i = j
        /\ \A i \in 1 .. Len(credentials) :
               /\ credentials[i].grant \in Gets
               /\ stage[credentials[i].grant] = "issued"
               /\ attempt[credentials[i].grant].status = "ok"
        /\ process = 0 => \A g \in Gets : attempt[g].status = "ok" => Stored(g)
        /\ \A p \in Presents : attempt[p].status = "ok" =>
               /\ vpToken[p] # None /\ submission[Session(p)] = p
               /\ judgement[Session(p)] \in {"valid", "invalid"}
    <2>1. \A i \in 1 .. Len(credentials) : credentials[i] \in StoredCredentials
      BY <1>0
    <2>2. \A c \in StoredCredentials : c.grant \in Gets
      BY DEF StoredCredentials
    <2> QED
      BY <2>1, <2>2 DEF Inv, Reported
  <1>2. ASSUME NEW g \in Gets, stage[g] = "issued", attempt[g].status = "ok"
        PROVE  stage'[g] = "issued" /\ attempt'[g].status = "ok"
    BY <1>2, ServicesLast, AttemptsLast DEF Attempts
  <1>3. ASSUME NEW p \in Presents, attempt'[p].status = "ok"
        PROVE  (/\ vpToken[p] # None /\ submission[Session(p)] = p
                /\ judgement[Session(p)] \in {"valid", "invalid"})'
    <2>0. p \in Attempts /\ p \notin Gets /\ p # None
      BY <1>0, SystemAssumption DEF Attempts, Sessions
    <2>1. ASSUME vpToken[p] # None, submission[Session(p)] = p,
                 judgement[Session(p)] \in {"valid", "invalid"}
          PROVE  (/\ vpToken[p] # None /\ submission[Session(p)] = p
                  /\ judgement[Session(p)] \in {"valid", "invalid"})'
      <3>1. vpToken'[p] = vpToken[p] /\ Session(p) \in Sessions /\ Session(p)' = Session(p)
        BY <2>1, PostedLasts
      <3>2. submission'[Session(p)] = p
        BY <2>0, <2>1, <3>1, SubmissionMoves
      <3>3. judgement'[Session(p)] \in {"valid", "invalid"}
        BY <2>1, <3>1, ServicesLast
      <3> QED
        BY <2>1, <3>1, <3>2, <3>3
    <2>2. CASE attempt'[p] = attempt[p]
      BY <1>1, <1>3, <2>1, <2>2
    <2>3. ~StoreCredential(p)
      BY <1>0, <2>0, Awaiting DEF StoreCredential, Wiring, GetEndpoints
    <2>4. CASE ResultArrives(p)
      <3>1. Has(p, "response_uri", "answered")
        BY <2>4 DEF ResultArrives, Awaits, Has
      <3>2. vpToken[p] # None
        BY <3>1, SessionKnown DEF Has
      <3>3. submission[Session(p)] = p
        BY <3>1 DEF Inv, Presented
      <3>4. judgement[Session(p)] \in {"valid", "invalid"}
        BY <3>1 DEF Inv, Answers
      <3> QED
        BY <2>1, <3>2, <3>3, <3>4
    <2> QED
      BY <1>3, <2>0, <2>2, <2>3, <2>4, AttemptMoves
  <1>4. CASE UNCHANGED <<credentials, process>>
    <2>1. ASSUME NEW g \in Gets, attempt'[g].status = "ok", process = 0
          PROVE  Stored(g)
      <3>1. ASSUME StoreCredential(g) PROVE FALSE
        <4>1. PICK n \in Nat : n = Len(credentials)
          BY <1>0
        <4>2. Len(credentials') = n
          BY <1>4, <4>1
        <4>3. Len(credentials') = n + 1
          BY <1>0, <3>1, <4>1, Appended DEF Attempts
        <4> QED
          BY <4>1, <4>2, <4>3
      <3>2. ~ResultArrives(g)
        BY <1>0, Awaiting DEF ResultArrives, Wiring, GetEndpoints, Attempts
      <3> QED
        BY <1>1, <2>1, <3>1, <3>2, AttemptMoves DEF Attempts
    <2> QED
      BY <1>1, <1>2, <1>3, <1>4, <2>1 DEF Reported, Stored
  <1>5. ASSUME NEW a \in Attempts, StoreCredential(a), UNCHANGED process
        PROVE  Reported'
    <2>0. a \in Gets /\ stage[a] = "issued" /\ attempt[a].status = "running"
      <3>1. Awaits(a, "/credential", "answered")
        BY <1>5 DEF StoreCredential
      <3>2. a \in Gets
        BY <1>0, <3>1, Awaiting, WiredAs DEF GetEndpoints
      <3> QED
        BY <3>1, <3>2, Awaiting DEF Inv, Answers, Has
    <2>1. attempt'[a].status = "ok" /\ stage'[a] = "issued"
      <3>1. Finish({a}, "ok")
        BY <1>5 DEF StoreCredential, End
      <3> QED
        BY <1>0, <2>0, <3>1, FinishAttempts, ServicesLast
    <2>2. PICK n \in Nat : n = Len(credentials)
      BY <1>0
    <2>3. /\ Len(credentials') = n + 1
          /\ \A i \in 1 .. n : credentials'[i] = credentials[i]
          /\ credentials'[n + 1].grant = a
      <3>1. /\ Len(credentials') = n + 1
            /\ \A i \in 1 .. n : credentials'[i] = credentials[i]
            /\ credentials'[n + 1] = [format |-> attempt[a].format, grant |-> a]
        BY <1>0, <1>5, <2>2, Appended
      <3> QED
        BY <3>1
    <2>4. \A i \in 1 .. n : credentials'[i].grant \in Gets \ {a}
      BY <1>1, <2>0, <2>2, <2>3
    <2>5. \A i \in 1 .. n + 1 : i \in 1 .. n \/ i = n + 1
      BY <2>2
    <2>6. \A i, j \in 1 .. n + 1 : credentials'[i].grant = credentials'[j].grant => i = j
      BY <1>1, <2>2, <2>3, <2>4, <2>5
    <2>7. \A i \in 1 .. n + 1 : /\ stage'[credentials'[i].grant] = "issued"
                                /\ attempt'[credentials'[i].grant].status = "ok"
      BY <1>1, <1>2, <2>1, <2>2, <2>3, <2>5
    <2>8. ASSUME NEW g \in Gets, attempt'[g].status = "ok", process = 0
          PROVE  Stored(g)'
      <3>1. CASE g = a
        BY <2>2, <2>3, <3>1 DEF Stored
      <3>2. CASE attempt[g].status = "ok"
        <4>1. PICK i \in 1 .. n : credentials[i].grant = g
          BY <1>1, <2>2, <2>8, <3>2 DEF Stored
        <4>2. i \in 1 .. n + 1 /\ credentials'[i].grant = g
          BY <2>2, <2>3, <4>1
        <4> QED
          BY <2>3, <4>2 DEF Stored
      <3>3. CASE g # a /\ attempt[g].status # "ok"
        <4>1. Finish({a}, "ok")
          BY <1>5 DEF StoreCredential, End
        <4> QED
          BY <1>0, <2>0, <2>8, <3>3, <4>1, FinishAttempts DEF Attempts
      <3> QED
        BY <3>1, <3>2, <3>3
    <2> QED
      BY <1>3, <1>5, <2>3, <2>6, <2>7, <2>8 DEF Reported
  <1>6. CASE credentials' = <<>> /\ process' = process + 1
    <2>1. Len(credentials') = 0 /\ process' # 0
      BY <1>0, <1>6
    <2> QED
      BY <1>3, <2>1 DEF Reported
  <1> QED
    BY <1>4, <1>5, <1>6, CredentialsMove
-----------------------------------------------------------------------------
\* A judgement begins when the verifier admits what was posted.
LEMMA JudgementMoves ==
    ASSUME Inv, [Next]_vars, NEW s \in Sessions
    PROVE  \/ judgement'[s] = judgement[s]
           \/ judgement[s] # "none"
           \/ \E p \in Presents : VerifierAdmits(p) /\ Session(p) = s
  <1>0. judgement \in [Sessions -> {"none", "pending", "valid", "invalid"}]
    BY DEF Inv, TypeOK
  <1> DEFINE Begins == \/ judgement'[s] = judgement[s] \/ judgement[s] # "none"
                       \/ \E p \in Presents : VerifierAdmits(p) /\ Session(p) = s
  <1>1. ASSUME NEW p \in Presents, VerifierAdmits(p)
        PROVE  Begins
    BY <1>0, <1>1 DEF VerifierAdmits, Verifier!Admit
  <1>2. ASSUME NEW q,
               Verifier!Open(q) \/ Verifier!Judge(q) \/ Verifier!Fail(q) \/ Verifier!Read(q)
        PROVE  Begins
    BY <1>0, <1>2 DEF Verifier!Open, Verifier!Judge, Verifier!Fail, Verifier!Read
  <1>3. CASE VerifierRestarts
    BY <1>0, <1>3 DEF VerifierRestarts
  <1>4. CASE SessionsMove
    BY <1>2, <1>4 DEF SessionsMove, Verifier!Close
  <1>5. ASSUME NEW p \in Presents, VerifierServes(p)
        PROVE  Begins
    BY <1>1, <1>2, <1>5
       DEF VerifierServes, VerifierOpens, ObjectServed, Named, KeyServed, VerifierJudges,
           VerifierFails, verifierVars
  <1>6. CASE UNCHANGED judgement
    BY <1>6
  <1> QED
    BY <1>3, <1>4, <1>5, <1>6
       DEF Next, IssuerNext, IssuerServes, IssuerIssues, IssuerRevokes, IssuerGivesUp,
           VerifierNext, ServiceRefuses, verifierVars, vars

\* What is presented is a credential that the wallet has, and it stays issued; and a
\* session goes on with the presentation that it has admitted.
LEMMA BackedNext == Inv /\ [Next]_vars => Backed'
  <1> SUFFICES ASSUME Inv, [Next]_vars PROVE Backed'
    OBVIOUS
  <1>0. /\ vpToken \in [Presents -> VpTokens \cup {None}] /\ ServiceType
        /\ credentials \in Seq(StoredCredentials)
    BY TypeParts DEF Inv, TypeOK, PartsOK
  <1>1. ASSUME NEW v \in VpTokens, Honest(v)
        PROVE  Honest(v)'
    <2>1. v.grant \in Gets /\ stage[v.grant] = "issued" /\ attempt[v.grant].status = "ok"
      BY <1>1 DEF VpTokens, Honest
    <2>2. stage'[v.grant] = "issued" /\ attempt'[v.grant].status = "ok"
      BY <2>1, ServicesLast, AttemptsLast DEF Attempts
    <2> QED
      BY <2>2 DEF Honest
  <1>2. ASSUME NEW p \in Presents, NEW w, w = vpToken'[p], w # None
        PROVE  Honest(w)'
    <2>1. CASE w = vpToken[p]
      BY <1>0, <1>1, <1>2, <2>1 DEF Inv, Backed
    <2>2. CASE w # vpToken[p]
      <3>1. KeyArrives(p) /\ Acceptable(p)
        BY <1>2, <2>2, VpTokenMoves
      <3>2. PICK i \in Found(request[p].format) :
                w = [format |-> request[p].format, grant |-> credentials[i].grant,
                     process |-> process, request |-> request[p]]
        BY <1>2, <2>2, VpTokenMoves
      <3>3. w \in VpTokens
        BY <3>1, <3>2, PresentedType
      <3>4. w.grant = credentials[i].grant /\ i \in 1 .. Len(credentials)
        BY <3>2 DEF Found, Matching
      <3>5. Honest(w)
        BY <3>4 DEF Inv, Reported, Honest
      <3> QED
        BY <1>1, <3>3, <3>5
    <2> QED
      BY <2>1, <2>2
  <1>3. ASSUME NEW s \in Sessions, judgement'[s] # "none"
        PROVE  submission'[s] # None
    <2>1. judgement[s] # "none" => submission[s] # None
      BY DEF Inv, Backed
    <2>2. submission[s] # None => submission'[s] # None
      BY SubmissionMoves
    <2>3. ASSUME NEW p \in Presents, VerifierAdmits(p), Session(p) = s
          PROVE  submission'[s] # None
      BY <1>0, <2>3, SystemAssumption DEF VerifierAdmits, ServiceType, Sessions
    <2> QED
      BY <1>3, <2>1, <2>2, <2>3, JudgementMoves
  <1>4. ASSUME NEW s \in Sessions, NEW q, q = submission'[s], q # None
        PROVE  vpToken'[q] # None /\ vpToken'[q].request.nonce = s
    <2>1. CASE submission'[s] = submission[s]
      <3>1. q \in Presents /\ vpToken[q] # None /\ Session(q) = s
        BY <1>0, <1>4, <2>1 DEF Inv, Backed, ServiceType
      <3>2. vpToken'[q] = vpToken[q]
        BY <3>1, PostedLasts
      <3> QED
        BY <3>1, <3>2 DEF Session
    <2>2. ASSUME NEW p \in Presents, VerifierAdmits(p), Session(p) = s, q = p
          PROVE  vpToken'[q] # None /\ vpToken'[q].request.nonce = s
      <3>1. vpToken[p] # None
        BY <2>2, SessionKnown DEF VerifierAdmits, Has
      <3>2. vpToken'[p] = vpToken[p]
        BY <3>1, PostedLasts
      <3> QED
        BY <2>2, <3>1, <3>2 DEF Session
    <2> QED
      BY <1>4, <2>1, <2>2, SubmissionMoves
  <1> QED
    BY <1>2, <1>3, <1>4 DEF Backed, Honest, Session

\* Initially the invariant holds.
LEMMA InvInit == Init => Inv
  <1> SUFFICES ASSUME Init PROVE Inv
    OBVIOUS
  <1>1. TypeOK
    BY TypeInit
  <1>2. verifierKey <= faults
    BY DEF Init, WalletInit
  <1>3. Wiring /\ Answers /\ Opened
    BY DEF Init, WalletInit, Wiring, Answers, Opened, Has, Attempts, Sessions, Verifier!Init
  <1>4. Presentable
    BY DEF Init, WalletInit, Presentable, NewPage, Attempts
  <1>5. Requested
    BY DEF Init, WalletInit, Requested, Running, Attempts
  <1>6. Presented
    BY DEF Init, WalletInit, Presented, Has, Attempts
  <1>7. Reported
    BY DEF Init, WalletInit, Reported, Attempts
  <1>8. Untouched /\ Backed
    BY DEF Init, WalletInit, Issuer!Init, Verifier!Init, Untouched, Backed
  <1> QED
    BY <1>1, <1>2, <1>3, <1>4, <1>5, <1>6, <1>7, <1>8 DEF Inv

\* Every key of the verifier but the first costs a restart, which is a fault.
LEMMA KeysAreFaults ==
    ASSUME Inv, [Next]_vars
    PROVE  verifierKey' <= faults'
  <1>1. /\ verifierKey \in Nat /\ faults \in Nat /\ verifierKey <= faults
        /\ verifierKey' \in Nat /\ faults' \in Nat
    BY TypeNext, SystemAssumption DEF Inv, TypeOK
  <1>2. \/ VerifierRestarts \/ (verifierKey' = verifierKey /\ (Fault \/ UNCHANGED faults))
    BY DEF Next, WalletNext, Get, Present, Start, Resume, Continue, StoreCredential,
           ObjectArrives, KeyArrives, ResultArrives, RefusalArrives, TimesOut, Restart,
           Reload, IssuerNext, IssuerServes, IssuerIssues, IssuerRevokes, IssuerGivesUp,
           VerifierNext, VerifierServes, VerifierOpens, ObjectServed, KeyServed,
           VerifierAdmits, VerifierJudges, VerifierFails, SessionsMove, ServiceRefuses,
           verifierVars, walletVars, exchange, vars
  <1> QED
    BY <1>1, <1>2 DEF VerifierRestarts, Fault

\* Every step keeps the invariant.
LEMMA InvNext == Inv /\ [Next]_vars => Inv'
  BY TypeNext, KeysAreFaults, WiringNext, AnswersNext, OpenedNext, PresentableNext,
     RequestedNext, PresentedNext, ReportedNext, UntouchedNext, BackedNext DEF Inv

\* The invariant of the system.
THEOREM Invariance == Spec => []Inv
  BY InvInit, InvNext, PTL DEF Spec

\* The type invariant.
THEOREM TypeCorrect == Spec => []TypeOK
  <1>1. Inv => TypeOK
    BY DEF Inv
  <1> QED
    BY <1>1, Invariance, PTL

\* Whatever is lost on the way, the wallet stores what was issued to it on grants of
\* their own, and has what it reports and offers to present (wallet.ts:126-133).
THEOREM WhatIsStoredWasIssued == Spec => []StoredIsIssued
  <1>1. Inv => StoredIsIssued
    BY DEF Inv, Reported, Presentable, StoredIsIssued, Stored
  <1> QED
    BY <1>1, Invariance, PTL

\* Whatever a request URI serves, the wallet answers only the verifier, and reports as
\* answered what the session named in the object has admitted and judged, so that no two
\* attempts are answered by one session (wallet.ts:146-157 and 173-204).
THEOREM TheVerifierIsAnswered == Spec => []OnlyVerifierAnswered
  <1>1. Inv => OnlyVerifierAnswered
    BY DEF Inv, Presented, Genuine, Known, Session, Reported, OnlyVerifierAnswered
  <1> QED
    BY <1>1, Invariance, PTL

\* Behind every judgement there is a presentation that names the session, of a credential
\* that the issuer issued and the wallet had reported as stored, however many restarts
\* there were in between (wallet.ts:126-133 and 208-219).
THEOREM WhatIsJudgedWasIssued == Spec => []Backed
  <1>1. Inv => Backed
    BY DEF Inv
  <1> QED
    BY <1>1, Invariance, PTL

\* No one brings a credential into the wallet whose answer was lost (wallet.ts:120-126).
THEOREM WhatIsLostIsLost == Spec => LostIsLost
  <1>1. ASSUME Inv, [Next]_vars, NEW g \in Gets, stage[g] = "issued",
               attempt[g].status = "error"
        PROVE  ~Stored(g)'
    <2>1. attempt'[g].status = "error"
      BY <1>1, AttemptsLast DEF Attempts
    <2> QED
      BY <1>1, <2>1, ReportedNext DEF Reported, Stored
  <1>2. Inv /\ [Next]_vars =>
            [\A g \in Gets : (stage[g] = "issued" /\ attempt[g].status = "error")
                                 => ~Stored(g)']_vars
    BY <1>1
  <1> QED
    BY <1>2, Invariance, PTL DEF Spec, LostIsLost

\* What is presented when the first credential of its format is revoked never becomes
\* valid, until the wallet is restarted (wallet.ts:208 and 216).
THEOREM ARevokedFirstBlocks == Spec => RevokedFirstBlocks
  <1>1. ASSUME Inv, [Next]_vars, NEW s \in Sessions, BecomesValid(s)
        PROVE  \E p \in Presents : VerifierJudges(p) /\ Session(p) = s
    <2>0. judgement \in [Sessions -> {"none", "pending", "valid", "invalid"}]
      BY <1>1 DEF Inv, TypeOK
    <2>1. CASE UNCHANGED judgement
      BY <1>1, <2>1 DEF BecomesValid
    <2>2. ASSUME NEW q, \/ Verifier!Open(q) \/ Verifier!Admit(q) \/ Verifier!Fail(q)
                        \/ Verifier!Read(q)
          PROVE  FALSE
      BY <1>1, <2>0, <2>2
         DEF BecomesValid, Verifier!Open, Verifier!Admit, Verifier!Fail, Verifier!Read
    <2>3. ASSUME NEW p \in Presents, VerifierJudges(p) PROVE Session(p) = s
      BY <1>1, <2>0, <2>3 DEF VerifierJudges, Verifier!Judge, BecomesValid
    <2>4. ~VerifierRestarts
      BY <1>1, <2>0 DEF VerifierRestarts, BecomesValid
    <2>5. CASE SessionsMove
      BY <2>1, <2>2, <2>5 DEF SessionsMove, Verifier!Close
    <2>6. ASSUME NEW p \in Presents, VerifierServes(p), ~VerifierJudges(p) PROVE FALSE
      BY <1>1, <2>2, <2>6
         DEF VerifierServes, VerifierOpens, ObjectServed, Named, KeyServed, VerifierAdmits,
             VerifierFails, verifierVars, BecomesValid
    <2> QED
      BY <1>1, <2>1, <2>3, <2>4, <2>5, <2>6
         DEF Next, IssuerNext, IssuerServes, IssuerIssues, IssuerRevokes, IssuerGivesUp,
             VerifierNext, ServiceRefuses, verifierVars, vars
  <1>2. ASSUME Inv, [Next]_vars, NEW s \in Sessions, BecomesValid(s),
               NEW presented, presented = vpToken[submission[s]], presented.process = process
        PROVE  \E i \in Matching(presented.format) :
                   /\ \A j \in Matching(presented.format) : i <= j
                   /\ credentials[i].grant \notin outdated[s]
    <2>1. PICK p \in Presents : VerifierJudges(p) /\ Session(p) = s
      BY <1>1, <1>2
    <2>2. Has(p, "response_uri", "serving")
      BY <2>1 DEF VerifierJudges
    <2>3. vpToken[p] # None /\ submission[s] = p
      <3>1. vpToken[p] # None
        BY <1>2, <2>2, SessionKnown DEF Has
      <3>2. submission[Session(p)] = p
        BY <1>2, <2>2 DEF Inv, Presented
      <3> QED
        BY <2>1, <3>1, <3>2
    <2>4. presented = vpToken[p] /\ presented.grant \notin outdated[s]
      BY <1>2, <2>1, <2>3 DEF VerifierJudges, Findings, BecomesValid
    <2>5. PICK i \in Found(presented.format) : credentials[i].grant = presented.grant
      BY <1>2, <2>3, <2>4 DEF Inv, Presented
    <2> QED
      BY <2>4, <2>5 DEF Found
  <1>3. Inv /\ [Next]_vars =>
            [\A s \in Sessions : BecomesValid(s) =>
                 LET presented == vpToken[submission[s]]
                 IN  presented.process = process =>
                         \E i \in Matching(presented.format) :
                             /\ \A j \in Matching(presented.format) : i <= j
                             /\ credentials[i].grant \notin outdated[s]]_vars
    BY <1>2
  <1> QED
    BY <1>3, Invariance, PTL DEF Spec, RevokedFirstBlocks
-----------------------------------------------------------------------------
\* What a request has before it at most: to be served, to be answered, and three requests
\* after it; a grant: its stages; and an attempt: both, and its own end.
Place(endpoint) ==
    CASE endpoint \in {"/offer", "/par", "/presentation/request"} -> 1
      [] endpoint \in {"/authorize", "request_uri"}               -> 2
      [] endpoint \in {"/token", "/jwks.json"}                    -> 3
      [] OTHER                                                    -> 4

RequestLeft(a) ==
    IF wire[a] = None THEN 15
    ELSE (4 - Place(wire[a].to)) * 3
             + (CASE wire[a].is = "sent" -> 2 [] wire[a].is = "serving" -> 1 [] OTHER -> 0)

GrantLeft(g) ==
    CASE stage[g] = "fresh"    -> 6
      [] stage[g] = "granted"  -> 5
      [] stage[g] = "approved" -> 4
      [] stage[g] = "tokened"  -> 3
      [] stage[g] = "proving"  -> 2
      [] stage[g] = "signing"  -> 1
      [] OTHER                 -> 0

ServiceLeft(a) == RequestLeft(a) + (IF a \in Gets THEN GrantLeft(a) ELSE 0)

StepsLeft(a) ==
    CASE attempt[a].status = "unused"  -> 23
      [] attempt[a].status = "running" -> ServiceLeft(a) + 1
      [] OTHER                         -> ServiceLeft(a)

\* Something about an attempt changes: how it stands, its request, or its grant.
Moves(a) ==
    \/ attempt'[a] # attempt[a] \/ wire'[a] # wire[a]
    \/ a \in Gets /\ stage'[a] # stage[a]

\* Whatever the wallet, the services, losses and restarts do, what changes about an
\* attempt brings it closer to its end, and every step that is taken for it does so:
\* no request is sent twice, no grant goes back, no attempt is taken up again
\* (wallet.ts:95-157 and 173-219).
EveryStepSpends ==
    [][\A a \in Attempts :
           /\ StepsLeft(a)' \in 0 .. 23
           /\ StepsLeft(a)' <= StepsLeft(a)
           /\ Moves(a) => StepsLeft(a)' < StepsLeft(a)
           /\ Resume(a) \/ TimesOut(a) \/ Served(a) => Moves(a)]_vars

\* The request that is sent after another one.
LEMMA PlaceAfter ==
    /\ \A e \in {"/offer", "/par", "/authorize", "/token", "/presentation/request"} :
           Place(e) \in 1 .. 3 /\ Place(NextEndpoint(e)) \in Place(e) + 1 .. 4
    /\ Place("request_uri") = 2 /\ Place("/jwks.json") = 3 /\ Place("response_uri") = 4
  BY DEF Place, NextEndpoint

\* The wallet sends the next request when it has the answer to one.
LEMMA RequestGoesOn ==
    ASSUME wire \in WireType, NEW a \in Attempts, NEW e, NEW f \in Endpoints,
           Awaits(a, e, "answered"), Proceed(a, f), Place(e) \in 1 .. 3,
           Place(f) \in Place(e) + 1 .. 4
    PROVE  RequestLeft(a)' < RequestLeft(a) /\ wire'[a] # wire[a]
  <1>1. wire[a] # None /\ wire[a].to = e /\ wire[a].is = "answered"
    BY Awaiting
  <1>2. wire' \in WireType /\ wire'[a].to = f /\ wire'[a].is = "sent"
    BY SendWire DEF Proceed
  <1>3. RequestLeft(a) = (4 - Place(e)) * 3
    BY <1>1 DEF RequestLeft
  <1>4. wire'[a] # None
    <2>1. wire'[a] = Sent(f) /\ Sent(f) \in Wires
      BY DEF Proceed, Sent, Wires, WireType
    <2> QED
      BY <2>1, NoneAssumption
  <1>5. RequestLeft(a)' = (4 - Place(f)) * 3 + 2
    BY <1>2, <1>4 DEF RequestLeft
  <1> QED
    BY <1>1, <1>2, <1>3, <1>5

\* A request that is served, answered or refused has less before it.
LEMMA RequestAnswered ==
    ASSUME wire \in WireType, NEW a \in Attempts, wire[a] # None, wire'[a] \in Wires,
           wire'[a].to = wire[a].to,
           \/ wire[a].is = "sent" /\ wire'[a].is \in {"serving", "answered", "refused"}
           \/ wire[a].is = "serving" /\ wire'[a].is \in {"answered", "refused"}
    PROVE  RequestLeft(a)' < RequestLeft(a) /\ wire'[a] # wire[a]
  <1>1. Place(wire[a].to) \in 1 .. 4
    BY DEF Place
  <1>2. wire'[a] # None /\ Place(wire'[a].to) = Place(wire[a].to)
    BY NoneAssumption
  <1> QED
    BY <1>1, <1>2 DEF RequestLeft

\* The request of an attempt that has begun only goes on.
LEMMA RequestSpends ==
    ASSUME Inv, [Next]_vars, NEW a \in Attempts, attempt[a].status # "unused"
    PROVE  wire'[a] = wire[a] \/ RequestLeft(a)' < RequestLeft(a)
  <1>0. wire \in WireType /\ wire' \in WireType
    BY TypeNext, TypeParts DEF Inv, PartsOK
  <1> DEFINE Spends == wire'[a] = wire[a] \/ RequestLeft(a)' < RequestLeft(a)
  <1>1. CASE Given(a)
    BY <1>0, <1>1, RequestAnswered DEF Given
  <1>2. ASSUME wire[a] # None, wire[a].is \in {"sent", "serving"},
               NEW how \in {"serving", "answered", "refused"}, Answer(a, how)
        PROVE  Spends
    <2>1. /\ wire'[a] \in Wires /\ wire'[a].to = wire[a].to /\ wire'[a].is = how
          /\ wire'[a] = [wire[a] EXCEPT !.is = how]
      BY <1>0, <1>2, AnswerWire DEF Answer, WireType
    <2>2. CASE wire[a].is = how
      BY <1>0, <1>2, <2>1, <2>2 DEF WireType, Wires
    <2>3. CASE wire[a].is # how
      <3>1. CASE wire[a].is = "serving" /\ how = "sent"
        BY <1>2, <3>1
      <3> QED
        BY <1>0, <1>2, <2>1, <2>3, RequestAnswered
    <2> QED
      BY <2>2, <2>3
  <1>3. CASE a \in Gets /\ (IssuerServes(a) \/ IssuerIssues(a))
    BY <1>2, <1>3 DEF IssuerServes, IssuerIssues, CredentialAt, Has
  <1>4. CASE a \in Presents /\ (VerifierOpens(a) \/ ObjectServed(a) \/ KeyServed(a)
                                   \/ VerifierJudges(a))
    BY <1>2, <1>4 DEF VerifierOpens, ObjectServed, KeyServed, VerifierJudges, Has
  <1>5. CASE (a \in Gets /\ Get(a)) \/ (a \in Presents /\ Present(a))
    BY <1>5 DEF Get, Present, Start
  <1>6. CASE Continue(a)
    BY <1>0, <1>6, PlaceAfter, NextIsEndpoint, RequestGoesOn DEF Continue
  <1>7. CASE ObjectArrives(a) /\ Proceed(a, "/jwks.json")
    <2>1. Awaits(a, "request_uri", "answered") /\ "/jwks.json" \in Endpoints
      BY <1>7 DEF ObjectArrives, Endpoints
    <2> QED
      BY <1>0, <1>7, <2>1, PlaceAfter, RequestGoesOn
  <1>8. CASE KeyArrives(a) /\ Proceed(a, "response_uri")
    <2>1. Awaits(a, "/jwks.json", "answered") /\ "response_uri" \in Endpoints
      BY <1>8 DEF KeyArrives, Endpoints
    <2> QED
      BY <1>0, <1>8, <2>1, PlaceAfter, RequestGoesOn
  <1> QED
    BY <1>1, <1>3, <1>4, <1>5, <1>6, <1>7, <1>8, WireMoves

\* A grant only goes on.
LEMMA GrantSpends ==
    ASSUME Inv, [Next]_vars, NEW g \in Gets
    PROVE  /\ GrantLeft(g) \in 0 .. 6 /\ GrantLeft(g)' \in 0 .. 6
           /\ stage'[g] = stage[g] \/ GrantLeft(g)' < GrantLeft(g)
  <1>0. /\ stage \in [Gets -> Issuer!Stages]
        /\ GrantLeft(g) \in 0 .. 6 /\ GrantLeft(g)' \in 0 .. 6
    BY DEF Inv, TypeOK, GrantLeft
  <1>1. CASE \E h \in Gets : Issuer!Advance(h)
    <2>1. PICK h \in Gets : Issuer!Advance(h)
      BY <1>1
    <2>2. CASE h # g
      BY <1>0, <2>1, <2>2, AdvanceStage
    <2>3. CASE h = g
      <3>1. stage'[g] \in Issuer!Successors(stage[g])
        BY <1>0, <2>1, <2>3 DEF Issuer!Advance
      <3> QED
        BY <1>0, <3>1 DEF Issuer!Successors, GrantLeft
    <2> QED
      BY <2>2, <2>3
  <1>2. CASE \E S \in SUBSET Gets : Issuer!GiveUp(S)
    <2>1. PICK S \in SUBSET Gets : Issuer!GiveUp(S)
      BY <1>2
    <2>2. g \in S => stage[g] \in Issuer!Live /\ stage'[g] = "void"
      BY <1>0, <2>1 DEF Issuer!GiveUp
    <2>3. g \notin S => stage'[g] = stage[g]
      BY <1>0, <2>1 DEF Issuer!GiveUp
    <2> QED
      BY <1>0, <2>2, <2>3 DEF Issuer!Live, GrantLeft
  <1>3. CASE UNCHANGED stage
    BY <1>0, <1>3
  <1>4. \/ \E h \in Gets : Issuer!Advance(h)
        \/ \E S \in SUBSET Gets : Issuer!GiveUp(S)
        \/ UNCHANGED stage
    BY DEF Next, IssuerNext, IssuerServes, IssuerIssues, IssuerGivesUp, IssuerRevokes,
           VerifierNext, VerifierServes, VerifierOpens, ObjectServed, KeyServed,
           VerifierAdmits, VerifierJudges, VerifierFails, SessionsMove, VerifierRestarts,
           ServiceRefuses, issuerVars, vars
  <1> QED
    BY <1>1, <1>2, <1>3, <1>4

\* A step that is taken for an attempt changes something about it.
LEMMA StepsMove ==
    ASSUME Inv, [Next]_vars, NEW a \in Attempts, Resume(a) \/ TimesOut(a) \/ Served(a)
    PROVE  Moves(a)
  <1>0. TypeOK /\ wire \in WireType /\ wire' \in WireType /\ stage \in [Gets -> Issuer!Stages]
    BY TypeNext, TypeParts DEF Inv, PartsOK, TypeOK
  <1>1. ASSUME NEW status \in {"ok", "error"}, End(a, status), attempt[a].status = "running"
        PROVE  Moves(a)
    BY <1>0, <1>1, FinishAttempts DEF End, Moves
  <1>2. ASSUME NEW e, NEW f \in Endpoints, Awaits(a, e, "answered"), Proceed(a, f)
        PROVE  Moves(a)
    <2>1. wire[a].is = "answered"
      BY <1>2, Awaiting
    <2>2. wire'[a].is = "sent"
      BY <1>0, <1>2, SendWire DEF Proceed
    <2> QED
      BY <2>1, <2>2 DEF Moves
  <1>3. ASSUME wire[a] # None, NEW how \in {"serving", "answered", "refused"}, Answer(a, how),
               wire[a].is # how
        PROVE  Moves(a)
    BY <1>0, <1>3, AnswerWire DEF Moves
  <1>4. CASE Continue(a)
    BY <1>2, <1>4, NextIsEndpoint DEF Continue
  <1>5. CASE StoreCredential(a) \/ ResultArrives(a) \/ RefusalArrives(a)
    BY <1>1, <1>5, Awaiting DEF StoreCredential, ResultArrives, RefusalArrives
  <1>6. CASE ObjectArrives(a) \/ KeyArrives(a)
    <2>1. "/jwks.json" \in Endpoints /\ "response_uri" \in Endpoints
      BY DEF Endpoints
    <2> QED
      BY <1>1, <1>2, <1>6, <2>1, Awaiting DEF ObjectArrives, KeyArrives
  <1>7. CASE TimesOut(a)
    BY <1>1, <1>7 DEF TimesOut, Running
  <1>8. CASE a \in Gets /\ IssuerServes(a)
    BY <1>3, <1>8 DEF IssuerServes, Has
  <1>9. CASE a \in Gets /\ IssuerIssues(a)
    <2>1. stage'[a] \in Issuer!Successors(stage[a])
      BY <1>0, <1>9 DEF IssuerIssues, Issuer!Advance
    <2> QED
      BY <1>9, <2>1 DEF Issuer!Successors, Moves
  <1>10. CASE a \in Presents /\ VerifierServes(a)
    BY <1>3, <1>10
       DEF VerifierServes, VerifierOpens, ObjectServed, KeyServed, VerifierAdmits,
           VerifierJudges, VerifierFails, Has
  <1>11. CASE ServiceRefuses(a)
    BY <1>3, <1>11 DEF ServiceRefuses
  <1> QED
    BY <1>4, <1>5, <1>6, <1>7, <1>8, <1>9, <1>10, <1>11 DEF Resume, Served

\* A step brings every attempt closer to its end that it changes.
LEMMA AttemptSpends ==
    ASSUME Inv, [Next]_vars, NEW a \in Attempts
    PROVE  /\ StepsLeft(a)' \in 0 .. 23 /\ StepsLeft(a)' <= StepsLeft(a)
           /\ Moves(a) => StepsLeft(a)' < StepsLeft(a)
  <1>0. TypeOK /\ TypeOK' /\ wire \in WireType /\ wire' \in WireType
    BY TypeNext, TypeParts DEF Inv, PartsOK
  <1>1. /\ attempt[a].status \in {"unused", "running", "ok", "error"}
        /\ attempt'[a].status \in {"unused", "running", "ok", "error"}
    BY <1>0 DEF TypeOK
  <1>2. RequestLeft(a) \in 0 .. 15 /\ RequestLeft(a)' \in 0 .. 15
    <2>1. /\ wire[a] # None => Place(wire[a].to) \in 1 .. 4
          /\ wire'[a] # None => Place(wire'[a].to) \in 1 .. 4
      BY DEF Place
    <2> QED
      BY <2>1 DEF RequestLeft
  <1> DEFINE grant == IF a \in Gets THEN GrantLeft(a) ELSE 0
  <1>3. grant \in 0 .. 6 /\ grant' \in 0 .. 6 /\ grant' <= grant
            /\ (a \in Gets /\ stage'[a] # stage[a] => grant' < grant)
    <2>1. CASE a \in Gets
      <3>1. grant = GrantLeft(a) /\ grant' = GrantLeft(a)'
        BY <2>1
      <3>2. stage'[a] = stage[a] => GrantLeft(a)' = GrantLeft(a)
        BY DEF GrantLeft
      <3> QED
        BY <2>1, <3>1, <3>2, GrantSpends
    <2>2. CASE a \notin Gets
      BY <2>2
    <2> QED
      BY <2>1, <2>2
  <1>4. ServiceLeft(a) = RequestLeft(a) + grant /\ ServiceLeft(a)' = RequestLeft(a)' + grant'
    BY DEF ServiceLeft
  <1>5. CASE attempt[a].status = "unused"
    <2>1. StepsLeft(a) = 23 /\ wire[a] = None /\ (a \in Gets => stage[a] = "fresh")
      BY <1>5 DEF StepsLeft, Inv, Untouched
    <2>2. CASE attempt'[a].status = "unused"
      <3>1. attempt'[a] = attempt[a]
        BY <1>5, <2>2, AttemptMoves
      <3>2. wire'[a] = None /\ (a \in Gets => stage'[a] = "fresh")
        BY <2>2, UntouchedNext DEF Untouched
      <3>3. StepsLeft(a)' = 23
        BY <2>2 DEF StepsLeft
      <3> QED
        BY <2>1, <3>1, <3>2, <3>3 DEF Moves
    <2>3. CASE attempt'[a].status # "unused"
      <3>1. StepsLeft(a)' \in 0 .. 22
        BY <1>1, <1>2, <1>3, <1>4, <2>3 DEF StepsLeft
      <3> QED
        BY <2>1, <3>1
    <2> QED
      BY <2>2, <2>3
  <1>6. CASE attempt[a].status # "unused"
    <2>1. wire'[a] = wire[a] => RequestLeft(a)' = RequestLeft(a)
      BY DEF RequestLeft
    <2>2. RequestLeft(a)' <= RequestLeft(a)
              /\ (wire'[a] # wire[a] => RequestLeft(a)' < RequestLeft(a))
      BY <1>2, <1>6, <2>1, RequestSpends
    <2>3. ServiceLeft(a) \in 0 .. 21 /\ ServiceLeft(a)' \in 0 .. 21
      BY <1>2, <1>3, <1>4
    <2>4. ServiceLeft(a)' <= ServiceLeft(a)
      BY <1>2, <1>3, <1>4, <2>2
    <2>5. (wire'[a] # wire[a] \/ (a \in Gets /\ stage'[a] # stage[a]))
              => ServiceLeft(a)' < ServiceLeft(a)
      BY <1>2, <1>3, <1>4, <2>2
    <2> HIDE DEF grant
    <2>6. CASE attempt'[a] = attempt[a]
      <3>1. StepsLeft(a)' - ServiceLeft(a)' = StepsLeft(a) - ServiceLeft(a)
        BY <1>1, <1>6, <2>3, <2>6 DEF StepsLeft
      <3>2. StepsLeft(a)' \in 0 .. 23
        BY <1>1, <1>6, <2>3, <2>6 DEF StepsLeft
      <3>3. StepsLeft(a) \in 0 .. 23
        BY <1>1, <1>6, <2>3, <2>6 DEF StepsLeft
      <3> QED
        BY <2>3, <2>4, <2>5, <2>6, <3>1, <3>2, <3>3 DEF Moves
    <2>7. CASE attempt'[a] # attempt[a]
      <3>1. attempt[a].status = "running" /\ attempt'[a].status \in {"ok", "error"}
        BY <1>0, <1>6, <2>7, AttemptMoves, AttemptsLast, <1>1
      <3>2. StepsLeft(a) = ServiceLeft(a) + 1 /\ StepsLeft(a)' = ServiceLeft(a)'
        BY <3>1 DEF StepsLeft
      <3> QED
        BY <2>3, <2>4, <3>2
    <2> QED
      BY <2>6, <2>7
  <1> QED
    BY <1>5, <1>6

\* Every step that is taken for an attempt, and whatever else changes about it, brings it
\* closer to its end, of which no attempt is more than 23 steps away: the half of
\* EveryAttemptEnds that needs no fairness (wallet.ts:95-157 and 173-219).
THEOREM AttemptsOnlyMoveOn == Spec => EveryStepSpends
  <1>1. Inv /\ [Next]_vars =>
            [\A a \in Attempts :
                 /\ StepsLeft(a)' \in 0 .. 23
                 /\ StepsLeft(a)' <= StepsLeft(a)
                 /\ Moves(a) => StepsLeft(a)' < StepsLeft(a)
                 /\ Resume(a) \/ TimesOut(a) \/ Served(a) => Moves(a)]_vars
    BY AttemptSpends, StepsMove
  <1> QED
    BY <1>1, Invariance, PTL DEF Spec, EveryStepSpends
=============================================================================
