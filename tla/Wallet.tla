------------------------------- MODULE Wallet -------------------------------
(***************************************************************************)
(* The wallet service: the routes of apps/wallet/src/server.ts, which run  *)
(* the flows of apps/wallet/src/wallet.ts.  A call of a route is an        *)
(* attempt.  It sends one request after the other, suspended in between,   *)
(* and the attempts share nothing but the credentials.  The page with the  *)
(* buttons, whose script calls the routes, is the page that the same       *)
(* server serves.  The services that are asked, and what becomes of        *)
(* requests, are in module System.                                         *)
(***************************************************************************)
EXTENDS Naturals, Sequences, FiniteSets, RequestObject

CONSTANTS
    Gets,           \* calls of /api/get-credential, -mdl and -authcode
    Presents,       \* calls of /api/present
    None,           \* nothing there
    MaxFaults       \* bound on timeouts, refusals, expiries, restarts and reloads

Attempts == Gets \cup Presents

VARIABLES
    attempt,        \* of each attempt: the format it is for, and how it stands
    wire,           \* its last request
    request,        \* the request object that a present attempt is about
    jwks,           \* the key that it fetched
    vpToken,        \* what it posted to the response_uri
    credentials,    \* the array of the wallet
    page,           \* the buttons that can be pressed, the calls that are awaited
    process,        \* which process of the wallet runs: its holder key
    faults          \* how many faults there were

walletVars == <<attempt, wire, request, jwks, vpToken, credentials, page, process,
                faults>>
exchange == <<request, jwks, vpToken, credentials, page, process>>

Endpoints ==
    {"/offer", "/par", "/authorize", "/token", "/credential",
     "/presentation/request", "request_uri", "/jwks.json", "response_uri"}

Wires == [to : Endpoints, is : {"sent", "serving", "answered", "refused"}]

\* A stored credential is known by the grant it was issued on.
StoredCredentials == [format : Formats, grant : Gets]

\* A presentation: the credential, the holder key, the request it answers.
VpTokens == [format : Formats, grant : Gets, process : Nat, request : RequestObjects]

ASSUME NoneAssumption == None \notin Wires \cup VerifierKeys \cup RequestObjects \cup VpTokens

\* A page just loaded: one can get a credential but not present one.
NewPage == [get |-> TRUE, present |-> {}, awaits |-> {}]

WalletInit ==
    /\ attempt = [a \in Attempts |-> [format |-> "dc+sd-jwt", status |-> "unused"]]
    /\ wire = [a \in Attempts |-> None]
    /\ request = [p \in Presents |-> None]
    /\ jwks = [p \in Presents |-> None]
    /\ vpToken = [p \in Presents |-> None]
    /\ credentials = <<>> /\ page = NewPage
    /\ process = 0 /\ faults = 0
-----------------------------------------------------------------------------
Running == {a \in Attempts : attempt[a].status = "running"}

Sent(endpoint) == [to |-> endpoint, is |-> "sent"]

MutHearsLate(a, endpoint, outcome) ==
    wire[a] # None /\ wire[a].to = endpoint /\ wire[a].is = outcome

\* The attempt waits for the answer of the endpoint, and there it is.  An answer that
\* comes after the timeout is dropped: the fetch was aborted.
Awaits(a, endpoint, outcome) ==
    a \in Running /\ wire[a] # None /\ wire[a].to = endpoint /\ wire[a].is = outcome

MutConfigurationId(configId) == configId

\* The format of what an offer is for.
FormatFor(configId) ==
    IF configId = "org.iso.18013.5.1.mDL" THEN "mso_mdoc" ELSE "dc+sd-jwt"

\* A button is pressed, a route called, and its first request goes out.
Start(a, format, endpoint) ==
    /\ attempt[a].status = "unused"
    /\ attempt' = [attempt EXCEPT ![a] = [format |-> format, status |-> "running"]]
    /\ wire' = [wire EXCEPT ![a] = Sent(endpoint)]
    /\ UNCHANGED <<request, jwks, vpToken, credentials, process, faults>>

\* The three buttons of getCredential: two ask for an offer, the authorization code flow
\* begins at /par and is for the PID.
Get(a) ==
    /\ page.get
    /\ \/ \E configId \in {"PID", "org.iso.18013.5.1.mDL"} :
              Start(a, FormatFor(configId), "/offer")
       \/ Start(a, "dc+sd-jwt", "/par")
    /\ page' = [page EXCEPT !.get = FALSE, !.awaits = @ \cup {a}]

\* The two buttons of present: the route asks the verifier for a session of its own.
Present(a) ==
    \E f \in page.present :
        /\ Start(a, f, "/presentation/request")
        /\ page' = [page EXCEPT !.present = @ \ {f}, !.awaits = @ \cup {a}]

\* The next request of acceptOffer, of acceptViaAuthCode, or of /api/present.
NextEndpoint(endpoint) ==
    CASE endpoint \in {"/offer", "/authorize"}   -> "/token"
      [] endpoint = "/par"                       -> "/authorize"
      [] endpoint = "/token"                     -> "/credential"
      [] endpoint = "/presentation/request"      -> "request_uri"

Proceed(a, endpoint) ==
    /\ wire' = [wire EXCEPT ![a] = Sent(endpoint)]
    /\ UNCHANGED <<attempt, request, jwks, page>>

\* Attempts are over.  Their local variables are gone; a request on its way may still
\* reach the service.
Finish(A, status) ==
    /\ attempt' = [a \in Attempts |->
           IF a \in A THEN [attempt[a] EXCEPT !.status = status] ELSE attempt[a]]
    /\ request' = [p \in Presents |-> IF p \in A THEN None ELSE request[p]]
    /\ jwks' = [p \in Presents |-> IF p \in A THEN None ELSE jwks[p]]
    /\ UNCHANGED wire

\* The button to present a format can be pressed from the first credential on, and again
\* when a presentation has come to its end.
PresentAgain(a, status) ==
    IF a \in Presents \/ status = "ok" THEN {attempt[a].format} ELSE {}

\* The route answers, and the page shows it if it is still the one that asked.
End(a, status) ==
    /\ Finish({a}, status)
    /\ page' = IF a \notin page.awaits THEN page ELSE
           [get |-> page.get \/ a \in Gets,
            present |-> page.present \cup PresentAgain(a, status),
            awaits |-> page.awaits \ {a}]

Continue(a) ==
    /\ \E e \in {"/offer", "/par", "/authorize", "/token", "/presentation/request"} :
           Awaits(a, e, "answered") /\ Proceed(a, NextEndpoint(e))
    /\ UNCHANGED <<vpToken, credentials, process, faults>>
-----------------------------------------------------------------------------
\* fetchCredential ends: the credential is stored and the attempt reported as ok.
StoreCredential(a) ==
    /\ Awaits(a, "/credential", "answered")
    /\ credentials' = Append(credentials, [format |-> attempt[a].format, grant |-> a])
    /\ End(a, "ok")
    /\ UNCHANGED <<vpToken, process, faults>>

\* resolveRequest has the answer at the request URI.
ObjectArrives(a) ==
    /\ Awaits(a, "request_uri", "answered")
    /\ \/ TrustedClient(request[a]) /\ Proceed(a, "/jwks.json")
       \/ ~TrustedClient(request[a]) /\ End(a, "error")
    /\ UNCHANGED <<vpToken, credentials, process, faults>>

Matching(format) == {i \in 1 .. Len(credentials) : credentials[i].format = format}

MutNewest(format) == {i \in Matching(format) : \A j \in Matching(format) : j <= i}

\* credentials.find(...): the first that matches, if one does.
Found(format) == {i \in Matching(format) : \A j \in Matching(format) : i <= j}

\* What present() requires, once the key has arrived.
Acceptable(a) ==
    /\ VerifyPresentationRequest(request[a], jwks[a])
    /\ Found(request[a].format) # {}
    /\ SameOrigin(request[a])

\* The key arrives: the request is verified, the presentation built and posted.
KeyArrives(a) ==
    /\ Awaits(a, "/jwks.json", "answered")
    /\ \/ /\ Acceptable(a)
          /\ \E i \in Found(request[a].format) :
                 vpToken' = [vpToken EXCEPT ![a] =
                     [format |-> request[a].format, grant |-> credentials[i].grant,
                      process |-> process, request |-> request[a]]]
          /\ Proceed(a, "response_uri")
       \/ ~Acceptable(a) /\ End(a, "error") /\ UNCHANGED vpToken
    /\ UNCHANGED <<credentials, process, faults>>

\* The result is reported, whether the presentation was found valid or not.
ResultArrives(a) ==
    /\ Awaits(a, "response_uri", "answered")
    /\ End(a, "ok")
    /\ UNCHANGED <<vpToken, credentials, process, faults>>

\* safeFetch throws on an error answer.
RefusalArrives(a) ==
    /\ \E e \in Endpoints : Awaits(a, e, "refused")
    /\ End(a, "error")
    /\ UNCHANGED <<vpToken, credentials, process, faults>>

Fault == faults < MaxFaults /\ faults' = faults + 1

\* safeFetch gives up: the request may have been lost, or its answer, or it is late.
TimesOut(a) ==
    /\ a \in Running /\ wire[a].is # "refused"
    /\ End(a, "error")
    /\ Fault
    /\ UNCHANGED <<vpToken, credentials, process>>

\* The wallet is restarted: a new key, no credentials, no attempt survives.  The page is
\* left as it was: the script has thrown at the calls it awaited.
Restart ==
    /\ Finish(Running, "error")
    /\ page' = [page EXCEPT !.awaits = {}]
    /\ credentials' = <<>>
    /\ process' = process + 1
    /\ Fault
    /\ UNCHANGED vpToken

\* No credential can be asked for any more: the buttons wait for a call that has failed.
Stuck == ~page.get /\ page.awaits \cap Gets = {}

\* The user reloads the page.  The attempts of the old one go on.
Reload ==
    /\ page # NewPage
    /\ page' = NewPage
    /\ (Stuck /\ UNCHANGED faults) \/ Fault
    /\ UNCHANGED <<attempt, wire, request, jwks, vpToken, credentials, process>>
-----------------------------------------------------------------------------
\* The wallet takes up the answer to the request of an attempt.
Resume(a) ==
    \/ Continue(a) \/ StoreCredential(a) \/ ObjectArrives(a) \/ KeyArrives(a)
    \/ ResultArrives(a) \/ RefusalArrives(a)

WalletNext ==
    \/ \E a \in Gets : Get(a)
    \/ \E a \in Presents : Present(a)
    \/ \E a \in Attempts : Resume(a) \/ TimesOut(a)
    \/ Restart \/ Reload
=============================================================================
