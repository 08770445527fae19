-------------------------- MODULE SystemInvariant ---------------------------
(***************************************************************************)
(* The inductive invariant of the system: what the attempts, what is on    *)
(* the wire, and what the services know have to do with each other.        *)
(***************************************************************************)
EXTENDS SystemProperties

GetEndpoints == {"/offer", "/par", "/authorize", "/token", "/credential"}

\* Gets talk to the issuer and presents to the verifier.
Wiring ==
    /\ \A g \in Gets : wire[g] # None => wire[g].to \in GetEndpoints
    /\ \A p \in Presents : wire[p] # None => wire[p].to \notin GetEndpoints

\* An answer of /credential, or of the response_uri, comes when there is something to tell.
Answers ==
    /\ \A g \in Gets : Has(g, "/credential", "answered") => stage[g] = "issued"
    /\ \A p \in Presents : Has(p, "response_uri", "answered") =>
           judgement[Session(p)] \in {"valid", "invalid"}
    /\ \A s \in Sessions :
           judgement[s] # "none" \/ submission[s] # None => mailbox[s] \notin {"unopened", "open"}

\* A session is asked about only when it was opened.
Opened ==
    \A p \in Presents :
        wire[p] # None /\ (wire[p].to = "/presentation/request" => wire[p].is = "answered")
            => mailbox[p] # "unopened"

\* As long as the wallet is not restarted, there is something to present for an attempt
\* to present it.
Presentable ==
    process = 0 =>
        /\ \A p \in Presents : attempt[p].status # "unused" => Matching(attempt[p].format) # {}
        /\ \A f \in page.present : Matching(f) # {}

\* An object of the verifier is about a session that was opened.
Known(r) == r.key \in 0 .. verifierKey /\ r.nonce \in Sessions /\ mailbox[r.nonce] # "unopened"

\* What a present attempt knows at each of its requests.
Requested ==
    \A p \in Presents :
        /\ request[p] # None => request[p].key = OtherKey \/ Known(request[p])
        /\ p \in Running /\ Has(p, "request_uri", "answered") => request[p] # None
        /\ p \in Running /\ wire[p] # None /\ wire[p].to = "/jwks.json" =>
               request[p] # None /\ TrustedClient(request[p])
        /\ p \in Running /\ Has(p, "/jwks.json", "answered") => jwks[p] # None
        /\ jwks[p] # None => jwks[p] \in 0 .. verifierKey

\* What passed the checks of the wallet is the verifier's, for this wallet, and to be
\* answered to the verifier.
Genuine(r) == Known(r) /\ r.aud = WalletAudience /\ r.response_uri = VerifierUrl

\* What was presented is the first credential of its format until a restart; and who is
\* being served is who was admitted.
Presented ==
    \A p \in Presents :
        /\ vpToken[p] # None =>
              /\ Genuine(vpToken[p].request)
              /\ vpToken[p].process <= process
              /\ vpToken[p].process = process =>
                     \E i \in Found(vpToken[p].format) : credentials[i].grant = vpToken[p].grant
        /\ vpToken[p] # None <=> (wire[p] # None /\ wire[p].to = "response_uri")
        /\ Has(p, "response_uri", "serving") \/ Has(p, "response_uri", "answered") =>
               submission[Session(p)] = p

\* What is reported is the case.
Reported ==
    /\ \A i, j \in 1 .. Len(credentials) :
           credentials[i].grant = credentials[j].grant => i = j
    /\ \A i \in 1 .. Len(credentials) :
           /\ stage[credentials[i].grant] = "issued"
           /\ attempt[credentials[i].grant].status = "ok"
    /\ process = 0 => \A g \in Gets : attempt[g].status = "ok" => Stored(g)
    /\ \A p \in Presents : attempt[p].status = "ok" =>
           /\ vpToken[p] # None /\ submission[Session(p)] = p
           /\ judgement[Session(p)] \in {"valid", "invalid"}

\* For an attempt that has not begun nothing was sent, and no grant made.
Untouched ==
    \A a \in Attempts : attempt[a].status = "unused" =>
        wire[a] = None /\ (a \in Gets => stage[a] = "fresh")

\* What is presented was issued, and the attempt that got it reported it; and only what
\* was presented for a session is admitted to it and judged.
Honest(v) == stage[v.grant] = "issued" /\ attempt[v.grant].status = "ok"

Backed ==
    /\ \A p \in Presents : vpToken[p] # None => Honest(vpToken[p])
    /\ \A s \in Sessions :
           /\ judgement[s] # "none" => submission[s] # None
           /\ submission[s] # None =>
                  vpToken[submission[s]] # None /\ Session(submission[s]) = s

Inv ==
    /\ TypeOK /\ verifierKey <= faults
    /\ Wiring /\ Answers /\ Opened /\ Presentable /\ Requested /\ Presented /\ Reported
    /\ Untouched /\ Backed
=============================================================================
