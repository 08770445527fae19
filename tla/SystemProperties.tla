-------------------------- MODULE SystemProperties --------------------------
(***************************************************************************)
(* What the wallet can rely on and what it cannot, when requests and       *)
(* answers are lost and the services forget.                               *)
(***************************************************************************)
EXTENDS System

\* The type invariant.
TypeOK ==
    /\ attempt \in [Attempts -> [format : Formats,
                                 status : {"unused", "running", "ok", "error"}]]
    /\ wire \in [Attempts -> Wires \cup {None}]
    /\ request \in [Presents -> RequestObjects \cup {None}]
    /\ jwks \in [Presents -> VerifierKeys \cup {None}]
    /\ vpToken \in [Presents -> VpTokens \cup {None}]
    /\ credentials \in Seq(StoredCredentials)
    /\ page \in [get : BOOLEAN, present : SUBSET Formats, awaits : SUBSET Attempts]
    /\ process \in Nat /\ faults \in 0 .. MaxFaults
    /\ stage \in [Gets -> Issuer!Stages] /\ revoked \subseteq Gets
    /\ judgement \in [Sessions -> {"none", "pending", "valid", "invalid"}]
    /\ mailbox \in [Sessions -> {"unopened", "open", "taken", "full", "read", "closed"}]
    /\ submission \in [Sessions -> Presents \cup {None}]
    /\ outdated \in [Sessions -> SUBSET Gets]
    /\ verifierKey \in 0 .. MaxFaults

Stored(g) == \E i \in 1 .. Len(credentials) : credentials[i].grant = g

\* What the wallet has was issued to it, on grants of their own, and reported to the
\* user as stored; and as long as the wallet is not restarted, what it reported it has,
\* and there is a credential for every button that can be pressed to present one
\* (wallet.ts:126-133, after three or four requests any of which may go wrong).
StoredIsIssued ==
    /\ \A i, j \in 1 .. Len(credentials) :
           credentials[i].grant = credentials[j].grant => i = j
    /\ \A g \in Gets : Stored(g) =>
           stage[g] = "issued" /\ attempt[g].status = "ok"
    /\ process = 0 =>
           /\ \A g \in Gets : attempt[g].status = "ok" => Stored(g)
           /\ \A f \in page.present : Matching(f) # {}

\* A credential whose answer was lost is lost: the issuer has issued it, the attempt has
\* failed, and no later step of anyone brings it into the wallet (wallet.ts:120-126).
\* Trying again is a new grant.
LostIsLost ==
    [][\A g \in Gets :
           (stage[g] = "issued" /\ attempt[g].status = "error") => ~Stored(g)']_vars

\* What the wallet posts answers an object that the verifier signed for this wallet, about
\* a session that was opened, and goes to the verifier; and what it reports as answered is
\* what it has posted, and what that session has admitted and judged, so that no two
\* attempts, nor a stranger, are answered by one session (wallet.ts:146-157 and 173-204).
\* Whose session it is, nothing in the wallet decides.
OnlyVerifierAnswered ==
    /\ \A p \in Presents : vpToken[p] # None =>
           /\ vpToken[p].request.key \in 0 .. verifierKey
           /\ vpToken[p].request.aud = WalletAudience
           /\ vpToken[p].request.response_uri = VerifierUrl
           /\ mailbox[Session(p)] # "unopened"
    /\ \A p \in Presents : attempt[p].status = "ok" =>
           /\ vpToken[p] # None /\ submission[Session(p)] = p
           /\ judgement[Session(p)] \in {"valid", "invalid"}

BecomesValid(s) == judgement[s] # "valid" /\ judgement'[s] = "valid"

\* The wallet presents the first credential of a format for good: what it submits when
\* that is revoked never becomes valid, whatever newer credentials it has, until it is
\* restarted (wallet.ts:208 and 216).  What is revoked only after the submission may
\* still be found valid.
RevokedFirstBlocks ==
    [][\A s \in Sessions : BecomesValid(s) =>
           LET presented == vpToken[submission[s]]
           IN  presented.process = process =>
                   \E i \in Matching(presented.format) :
                       /\ \A j \in Matching(presented.format) : i <= j
                       /\ credentials[i].grant \notin outdated[s]]_vars

\* Every attempt comes to an end, whatever is lost on the way.
EveryAttemptEnds == \A a \in Attempts : a \in Running ~> a \notin Running

\* Whoever tries again after timeouts, refusals and restarts has a credential in the end.
RetryGetsCredential == <>(credentials # <<>>)
=============================================================================
