------------------------------- MODULE System -------------------------------
(***************************************************************************)
(* The wallet together with an issuer and a verifier.  Of the issuer and   *)
(* the verifier no more is known here than what they promise: the steps of *)
(* OneTimeGrant and of OneShotSession, which modules Issuer and Verifier   *)
(* implement.  The grant and the session that an attempt of the wallet     *)
(* asks for are named after the attempt: their ids are drawn for it.  Which *)
(* session it answers is up to the request object that it gets to see.     *)
(*                                                                         *)
(* A request is lost when it is never answered, an answer is lost when the *)
(* attempt has ended before it arrives, and a request is late when the     *)
(* service deals with it after that.                                       *)
(***************************************************************************)
EXTENDS Wallet

CONSTANTS
    Elsewhere,          \* sessions that others ask the verifier for
    VerifierUrl,        \* the origin of the verifier
    OtherUrl,           \* some other origin
    OtherKey            \* a key that is not the verifier's

Sessions == Presents \cup Elsewhere

ASSUME SystemAssumption ==
    /\ Origins = {VerifierUrl, OtherUrl} /\ TrustedVerifierOrigins = {VerifierUrl}
    /\ VerifierUrl # OtherUrl
    /\ VerifierKeys = 0 .. MaxFaults \cup {OtherKey} /\ OtherKey \notin 0 .. MaxFaults
    /\ Nonces = Sessions \cup {None} /\ None \notin Sessions
    /\ Gets \cap Presents = {} /\ Elsewhere \cap Attempts = {}
    /\ MaxFaults \in Nat

VARIABLES
    stage,          \* of each grant, as in OneTimeGrant
    revoked,        \* the grants whose credentials the issuer revoked
    judgement,      \* of each session, as in OneShotSession
    mailbox,
    submission,     \* the attempt whose presentation a session has admitted
    outdated,       \* and the credentials that were revoked by then
    verifierKey     \* what the verifier signs its requests with: one per process

Issuer == INSTANCE OneTimeGrant WITH Grants <- Gets
Verifier == INSTANCE OneShotSession WITH Ids <- Sessions

issuerVars == <<stage, revoked>>
admitted == <<submission, outdated>>
verifierVars == <<judgement, mailbox, admitted, verifierKey>>
vars == <<walletVars, issuerVars, verifierVars>>

Init ==
    /\ WalletInit
    /\ Issuer!Init /\ revoked = {}
    /\ Verifier!Init /\ verifierKey = 0
    /\ submission = [s \in Sessions |-> None] /\ outdated = [s \in Sessions |-> {}]
-----------------------------------------------------------------------------
\* A service has the request; it may hold it for a while.
Has(a, endpoint, how) == wire[a] # None /\ wire[a].to = endpoint /\ wire[a].is = how

\* The service answers, or goes on serving.
Answer(a, how) == wire' = [wire EXCEPT ![a].is = how]

\* The stage to which a request takes its grant.
Granted(endpoint) ==
    CASE endpoint \in {"/offer", "/par"} -> "granted"
      [] endpoint = "/authorize"         -> "approved"
      [] endpoint = "/token"             -> "tokened"
      [] endpoint = "/credential"        -> "proving"

\* The issuer serves a request.  /credential answers when the credential is signed.
IssuerServes(g) ==
    /\ \E e \in {"/offer", "/par", "/authorize", "/token", "/credential"} :
          /\ Has(g, e, "sent")
          /\ Issuer!Advance(g) /\ stage'[g] = Granted(e)
          /\ Answer(g, IF e = "/credential" THEN "serving" ELSE "answered")
    /\ UNCHANGED <<attempt, exchange, faults, revoked, verifierVars>>

MutTooEarly(s) == "answered"

\* How /credential stands when its grant has reached a stage.
CredentialAt(s) == IF s = "issued" THEN "answered" ELSE "serving"

IssuerIssues(g) ==
    /\ Has(g, "/credential", "serving")
    /\ Issuer!Advance(g)
    /\ Answer(g, CredentialAt(stage'[g]))
    /\ UNCHANGED <<attempt, exchange, faults, revoked, verifierVars>>

\* Grants expire, or are lost in a restart.
IssuerGivesUp(S) ==
    /\ S # {} /\ Issuer!GiveUp(S)
    /\ Fault
    /\ UNCHANGED <<attempt, wire, exchange, revoked, verifierVars>>

IssuerRevokes(g) ==
    /\ stage[g] = "issued"
    /\ revoked' = revoked \cup {g}
    /\ UNCHANGED <<walletVars, stage, verifierVars>>
-----------------------------------------------------------------------------
\* POST /presentation/request
VerifierOpens(p) ==
    /\ Has(p, "/presentation/request", "sent")
    /\ Verifier!Open(p)
    /\ Answer(p, "answered")
    /\ UNCHANGED <<attempt, exchange, faults, issuerVars, admitted, verifierKey>>

\* The right object for an attempt, and one that is signed with another key.
OwnRequest(p) == SignRequestObject(verifierKey, VerifierUrl, p, attempt[p].format)
OthersRequest(p) == SignRequestObject(OtherKey, OtherUrl, None, attempt[p].format)

\* The formats that a session may have been opened for.
AskedFor(s) == IF s \in Elsewhere THEN Formats ELSE {attempt[s].format}

\* What the verifier has ever signed for a session.
SignedFor(s) ==
    UNION {{SignRequestObject(k, VerifierUrl, s, f) : f \in AskedFor(s)} : k \in 0 .. verifierKey}

\* What a request URI may serve besides, as present() takes any URI: objects signed with
\* another key, in the name of the verifier or not; objects that the verifier signed for
\* whatever session; and the right one, but not signed, for another wallet, to be answered
\* elsewhere, or for another time.
ForeignRequests(p) ==
    {OthersRequest(p)}
        \cup {[OthersRequest(p) EXCEPT !.client_id = VerifierUrl, !.response_uri = u] :
                  u \in Origins}
        \cup (UNION {SignedFor(s) : s \in Sessions})
        \cup {[OwnRequest(p) EXCEPT !.signed = FALSE],
              [OwnRequest(p) EXCEPT !.aud = OtherAudience],
              [OwnRequest(p) EXCEPT !.response_uri = OtherUrl]}
        \cup {[OwnRequest(p) EXCEPT !.exp = e] : e \in {"past", "absent"}}

\* An object names a session that was opened: for that, others may have asked.
Named(s) ==
    \/ s \in Elsewhere /\ Verifier!Open(s)
    \/ (s # None => mailbox[s] # "unopened") /\ UNCHANGED <<judgement, mailbox>>

\* GET /presentation/request/:id signs the object afresh at every call.
ObjectServed(p) ==
    /\ Has(p, "request_uri", "sent") /\ p \in Running
    /\ \/ /\ mailbox[p] # "closed"
          /\ request' = [request EXCEPT ![p] = OwnRequest(p)]
          /\ UNCHANGED <<faults, judgement, mailbox>>
       \/ /\ \E r \in ForeignRequests(p) :
                 request' = [request EXCEPT ![p] = r] /\ Named(r.nonce)
          /\ Fault
    /\ Answer(p, "answered")
    /\ UNCHANGED <<attempt, jwks, vpToken, credentials, page, process, issuerVars,
                   admitted, verifierKey>>

\* GET /jwks.json at the origin that the wallet trusts
KeyAt(origin) == IF origin = VerifierUrl THEN verifierKey ELSE OtherKey

KeyServed(p) ==
    /\ Has(p, "/jwks.json", "sent") /\ p \in Running
    /\ jwks' = [jwks EXCEPT ![p] = KeyAt(request[p].client_id)]
    /\ Answer(p, "answered")
    /\ UNCHANGED <<attempt, request, vpToken, credentials, page, process, faults, issuerVars,
                   verifierVars>>

\* The session that the posted vp_token is for, and whether the verifier keeps it open.
Session(p) == vpToken[p].request.nonce
Addressed(p) ==
    vpToken[p].request.response_uri = VerifierUrl /\ mailbox[Session(p)] = "open"

\* POST /presentation/response: the handler uses up the session; it may throw at once.
VerifierAdmits(p) ==
    /\ Has(p, "response_uri", "sent") /\ Addressed(p)
    /\ Verifier!Admit(Session(p))
    /\ submission' = [submission EXCEPT ![Session(p)] = p]
    /\ outdated' = [outdated EXCEPT ![Session(p)] = revoked]
    /\ Answer(p, IF judgement'[Session(p)] = "pending" THEN "serving" ELSE "refused")
    /\ UNCHANGED <<attempt, exchange, faults, issuerVars, verifierKey>>

\* The list is fetched after the submission: it shows what was revoked by then, and what
\* is revoked later it may show or not.  Any other credential may be refused for what
\* it discloses.
Findings(p) ==
    IF vpToken[p].grant \in outdated[Session(p)] THEN {"invalid"} ELSE {"valid", "invalid"}

VerifierJudges(p) ==
    /\ Has(p, "response_uri", "serving")
    /\ Verifier!Judge(Session(p)) /\ judgement'[Session(p)] \in Findings(p)
    /\ Answer(p, "answered")
    /\ UNCHANGED <<attempt, exchange, faults, issuerVars, admitted, verifierKey>>

\* The response handler throws later.
VerifierFails(p) ==
    /\ Has(p, "response_uri", "serving")
    /\ Verifier!Fail(Session(p))
    /\ Answer(p, "refused")
    /\ UNCHANGED <<attempt, exchange, faults, issuerVars, admitted, verifierKey>>

\* Others answer the sessions they opened, whatever that comes to; the relying party
\* polls; sessions expire.
SessionsMove ==
    /\ \/ \E s \in Elsewhere : Verifier!Admit(s) /\ judgement' = judgement
       \/ \E s \in Sessions : Verifier!Read(s)
       \/ \E S \in SUBSET Sessions \ {{}} : Verifier!Close(S)
    /\ UNCHANGED <<walletVars, issuerVars, admitted, verifierKey>>

\* The verifier is restarted: a new key, and no session is left.
VerifierRestarts ==
    /\ verifierKey' = verifierKey + 1
    /\ mailbox' = [s \in Sessions |-> IF mailbox[s] = "unopened" THEN "unopened" ELSE "closed"]
    /\ judgement' = [s \in Sessions |->
           IF judgement[s] = "pending" THEN "none" ELSE judgement[s]]
    /\ Fault
    /\ UNCHANGED <<attempt, wire, exchange, issuerVars, admitted>>
-----------------------------------------------------------------------------
MutNoAnswer(a) ==
    \/ a \in Presents /\ Has(a, "request_uri", "sent") /\ mailbox[a] = "closed"
    \/ a \in Presents /\ Has(a, "response_uri", "sent") /\ ~Addressed(a)
    \/ a \in Presents /\ Has(a, "response_uri", "serving") /\ judgement[Session(a)] # "pending"

\* A service cannot serve a request: the grant is void, the session is gone or used, or
\* the wallet has not even waited for it.
Hopeless(a) ==
    \/ a \in Gets /\ stage[a] = "void"
    \/ a \in Presents /\ Has(a, "request_uri", "sent") /\ mailbox[a] = "closed"
    \/ a \in Presents /\ Has(a, "response_uri", "sent") /\ ~Addressed(a)
    \/ a \in Presents /\ Has(a, "response_uri", "serving") /\ judgement[Session(a)] # "pending"

\* An error answer, for that reason or another: a full store, a status 500, ...
ServiceRefuses(a) ==
    /\ wire[a] # None /\ wire[a].is \in {"sent", "serving"}
    /\ \/ Hopeless(a) /\ UNCHANGED faults
       \/ wire[a].is = "sent" /\ Fault
    /\ Answer(a, "refused")
    /\ UNCHANGED <<attempt, exchange, issuerVars, verifierVars>>

IssuerNext ==
    \/ \E g \in Gets : IssuerServes(g) \/ IssuerIssues(g) \/ IssuerRevokes(g)
    \/ \E S \in SUBSET Gets : IssuerGivesUp(S)

VerifierServes(p) ==
    \/ VerifierOpens(p) \/ ObjectServed(p) \/ KeyServed(p) \/ VerifierAdmits(p)
    \/ VerifierJudges(p) \/ VerifierFails(p)

VerifierNext ==
    (\E p \in Presents : VerifierServes(p)) \/ SessionsMove \/ VerifierRestarts

Next ==
    \/ WalletNext /\ UNCHANGED <<issuerVars, verifierVars>>
    \/ IssuerNext
    \/ VerifierNext
    \/ \E a \in Attempts : ServiceRefuses(a)

Spec == Init /\ [][Next]_vars

\* What was sent is served or refused in the end, unless the attempt gives it up.
Served(a) ==
    \/ a \in Gets /\ (IssuerServes(a) \/ IssuerIssues(a))
    \/ a \in Presents /\ VerifierServes(a)
    \/ ServiceRefuses(a)

\* The user tries again as long as the wallet has no credential, and reloads the page
\* when it is stuck.
Retry ==
    /\ credentials = <<>>
    /\ (\E g \in Gets : Get(g)) \/ (Stuck /\ Reload)
    /\ UNCHANGED <<issuerVars, verifierVars>>

Fairness ==
    /\ \A a \in Attempts :
           WF_vars(Resume(a) /\ UNCHANGED <<issuerVars, verifierVars>>) /\ WF_vars(Served(a))
    /\ WF_vars(Retry)

FairSpec == Spec /\ Fairness
=============================================================================
