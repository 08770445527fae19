-------------------------- MODULE IssuerInvariant ---------------------------
(***************************************************************************)
(* What the safety properties of the issuer rest on: together with them    *)
(* these facts are inductive.                                              *)
(***************************************************************************)
EXTENDS IssuerProperties

\* Every grant that is somewhere was drawn, so that a fresh one is nowhere.
PlacesDrawn == \A o \in Origins : Places(o) # {} => o \in drawn

\* The counter is ahead of every index in use under the present key, no credential
\* is signed with a key to come, and a PID is recorded while it is signed.
IndexInUse ==
    /\ \A r \in DOMAIN signing :
          /\ signing[r].idx < nextStatusIdx
          /\ signing[r].configId = "PID" =>
                [idx |-> signing[r].idx, subject |-> "PID"] \in issuedRecords
    /\ \A c \in credentials :
          c.key <= key /\ (c.key = key => c.issuance.idx < nextStatusIdx)

\* A nonce that has left its token belongs to a token that was drawn and consumed.
Spent(nonce) == \A t \in Tokens : nonce = Nonce(t) => t \in drawn \ DOMAIN accessTokens

\* A c_nonce is in one place: with its own token, with the proof being verified, in
\* an issuance or in a credential.
NonceInOnePlace ==
    /\ \A t \in DOMAIN accessTokens : t \in drawn /\ accessTokens[t].cNonce = Nonce(t)
    /\ \A r \in DOMAIN verifying : Spent(verifying[r].pending.cNonce)
    /\ \A r \in DOMAIN signing : Spent(signing[r].nonce)
    /\ \A c \in credentials : Spent(c.issuance.nonce)
    /\ \A r, s \in DOMAIN verifying :
          verifying[r].pending.cNonce = verifying[s].pending.cNonce => r = s
    /\ \A r \in DOMAIN verifying, s \in DOMAIN signing :
          signing[s].nonce # verifying[r].pending.cNonce
    /\ \A r \in DOMAIN verifying, c \in credentials :
          c.issuance.nonce # verifying[r].pending.cNonce

\* The time a token has left before its flow exceeds its lifetime is at least the
\* time its c_nonce is still good for.
InTime(pending) ==
    pending.age <= C_NONCE_TTL =>
        pending.life + C_NONCE_TTL <= Lifetime(pending.origin) + pending.age

LifeBounded ==
    /\ \A c \in DOMAIN authCodes :
          authCodes[c].age <= AUTH_CODE_TTL => authCodes[c].life <= PAR_TTL + authCodes[c].age
    /\ \A t \in DOMAIN accessTokens : InTime(accessTokens[t])
    /\ \A r \in DOMAIN verifying : InTime(verifying[r].pending)

\* The request and the code carry what was pushed, and what was pushed stays.
AsPushed(entry, uri) ==
    /\ uri \in DOMAIN pushed
    /\ entry.clientId = pushed[uri].clientId
    /\ entry.codeChallenge = pushed[uri].codeChallenge

BoundOnTheWay ==
    /\ DOMAIN pushed \subseteq drawn
    /\ \A u \in DOMAIN parRequests : AsPushed(parRequests[u], u)
    /\ \A c \in DOMAIN authCodes : AsPushed(authCodes[c], authCodes[c].origin)

\* A fresh code is in no store and an activation is suspended at one await, so no
\* entry is ever overwritten.
NothingOverwritten ==
    /\ DOMAIN authCodes \subseteq drawn
    /\ DOMAIN verifying \cap DOMAIN signing = {}

\* The inductive invariant of the issuer.
IssuerInv ==
    /\ TypeOK /\ NothingOverwritten
    /\ PlacesDrawn /\ SingleUse
    /\ IndexInUse /\ UniqueStatusIndex /\ CredentialRecorded
    /\ NonceInOnePlace /\ NoProofReplay
    /\ LifeBounded /\ BoundedLifetime
    /\ BoundOnTheWay /\ CodeBoundToClient
=============================================================================
