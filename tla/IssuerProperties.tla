-------------------------- MODULE IssuerProperties --------------------------
(***************************************************************************)
(* What makes the issuer correct.  See Issuer for the model.               *)
(***************************************************************************)
EXTENDS Issuer

\* The type invariant: what each store of the process and each history variable
\* holds, with every UUID in use drawn before.
TypeOK ==
    /\ drawn \subseteq PreAuthCodes \cup RequestUris \cup AuthCodes \cup Tokens
    /\ IsMap(offers, PreAuthCodes, Offer)
    /\ IsMap(parRequests, RequestUris, ParRequest)
    /\ IsMap(authCodes, AuthCodes, AuthCode)
    /\ IsMap(accessTokens, Tokens, Pending)
    /\ IsMap(verifying, Requests, Verification)
    /\ IsMap(signing, Requests, Issuance)
    /\ nextStatusIdx \in Nat
    /\ issuedRecords \subseteq IssuedRecord
    /\ revoked \subseteq 0 .. ListSize - 1
    /\ key \in 0 .. MaxRestarts
    /\ credentials \subseteq Credential
    /\ IsMap(pushed, RequestUris, [clientId : Clients, codeChallenge : Challenges])
    /\ IsMap(redeemed, RequestUris, Party)
-----------------------------------------------------------------------------
\* Where the grant with this origin can still be continued, or what came of it.
Places(o) ==
         {<<"offer", c>> : c \in {x \in DOMAIN offers : x = o}}
    \cup {<<"par", u>> : u \in {x \in DOMAIN parRequests : x = o}}
    \cup {<<"code", c>> : c \in {x \in DOMAIN authCodes : authCodes[x].origin = o}}
    \cup {<<"token", t>> : t \in {x \in DOMAIN accessTokens : accessTokens[x].origin = o}}
    \cup {<<"verifying", r>> : r \in {x \in DOMAIN verifying : verifying[x].pending.origin = o}}
    \cup {<<"signing", r>> : r \in {x \in DOMAIN signing : signing[x].origin = o}}
    \cup {<<"credential", c>> : c \in {x \in credentials : x.issuance.origin = o}}

\* Codes, request_uris and access tokens are single-use, from the offer or the PAR
\* to the credential: however the requests of several wallets interleave with the
\* awaits of /credential, a grant is never in two places, so it never yields two
\* tokens, two issuances or two credentials (lines 225, 256, 263, 303).
SingleUse == \A o \in Origins : \A p, q \in Places(o) : p = q

\* Two credentials signed with one key never share a status index, also while they
\* are being signed: revoking one never touches another (lines 325, 333).
UniqueStatusIndex ==
    /\ \A r, s \in DOMAIN signing : signing[r].idx = signing[s].idx => r = s
    /\ \A r \in DOMAIN signing, c \in credentials :
          c.key = key => c.issuance.idx # signing[r].idx
    /\ \A c, d \in credentials :
          c.key = d.key /\ c.issuance.idx = d.issuance.idx => c = d

\* The administrator can find every credential of the running process: its index is
\* in the records served by /admin/issued, under its own subject, when the response
\* leaves, although an mDL is recorded after the await and a PID before it.
CredentialRecorded ==
    \A c \in credentials : c.key = key =>
        [idx |-> c.issuance.idx, subject |-> c.issuance.configId] \in issuedRecords

\* A proof of possession is good for one credential: no two issuances or
\* credentials, of whatever grants and clients, rest on a proof over one c_nonce.
NoProofReplay ==
    /\ \A r, s \in DOMAIN signing : signing[r].nonce = signing[s].nonce => r = s
    /\ \A r \in DOMAIN signing, c \in credentials : c.issuance.nonce # signing[r].nonce
    /\ \A c, d \in credentials : c.issuance.nonce = d.issuance.nonce => c = d

\* No issuance begins later than the TTLs of its flow add up to, counted from the
\* creation of the offer or of the PAR, however long /credential was suspended on
\* the proof and whether or not a sweep came by.
BoundedLifetime ==
    /\ \A r \in DOMAIN signing : signing[r].life <= Lifetime(signing[r].origin)
    /\ \A c \in credentials : c.issuance.life <= Lifetime(c.issuance.origin)

\* Who exchanges a code is who pushed the request it stems from: the client_id is
\* the one of /par and the verifier is the preimage of its challenge, although both
\* travelled through two stores.
CodeBoundToClient ==
    \A u \in DOMAIN redeemed :
        /\ u \in DOMAIN pushed
        /\ redeemed[u].clientId = pushed[u].clientId
        /\ S256(redeemed[u].codeVerifier) = pushed[u].codeChallenge

\* Every credential of the running process can be revoked: its index is one that
\* /admin/revoke accepts.  The code assigns the index "so it can later be revoked"
\* (line 331); the run that checks this fails, nextStatusIdx being unbounded.
EveryCredentialRevocable ==
    \A c \in credentials : c.key = key => InRange(c.issuance.idx)
-----------------------------------------------------------------------------
\* The entries a handler would accept now.
Usable ==
         {c \in DOMAIN offers : offers[c].age <= PRE_AUTH_CODE_TTL}
    \cup {u \in DOMAIN parRequests : parRequests[u].age <= PAR_TTL}
    \cup {c \in DOMAIN authCodes : authCodes[c].age <= AUTH_CODE_TTL}
    \cup {t \in DOMAIN accessTokens : accessTokens[t].age <= ACCESS_TOKEN_TTL}

\* Neither the periodic sweep nor a request for another grant takes away what a
\* handler would still accept: a step that is no clock tick and no restart ends the
\* use of one entry at most, and a sweep of none.
OthersKeepTheirGrants ==
    [][/\ ~Tick /\ ~Restart => \A x, y \in Usable \ Usable' : x = y
       /\ Sweep => Usable \subseteq Usable']_vars
-----------------------------------------------------------------------------
\* The stage of a grant, from where it is.
Stage(o) ==
    CASE o \in DOMAIN offers \cup DOMAIN parRequests               -> "granted"
      [] \E c \in DOMAIN authCodes : authCodes[c].origin = o       -> "approved"
      [] \E t \in DOMAIN accessTokens : accessTokens[t].origin = o -> "tokened"
      [] \E r \in DOMAIN verifying : verifying[r].pending.origin = o -> "proving"
      [] \E r \in DOMAIN signing : signing[r].origin = o           -> "signing"
      [] \E c \in credentials : c.issuance.origin = o              -> "issued"
      [] OTHER -> IF o \in drawn THEN "void" ELSE "fresh"

Lifecycle == INSTANCE OneTimeGrant
    WITH Grants <- Origins, stage <- [o \in Origins |-> Stage(o)]

\* The issuer implements the one-time grant.
ImplementsOneTimeGrant == Lifecycle!Spec

\* Every offer and every PAR is redeemed, refused or swept in the end: nothing stays
\* in a store or in a suspended handler for ever, and nothing comes back.
EveryGrantSettles == Lifecycle!EverySettles
=============================================================================
