------------------------------- MODULE SdJwt --------------------------------
(***************************************************************************)
(* SD-JWT VC: issuance, presentation and verification,                     *)
(* packages/core/src/sd-jwt.ts.                                            *)
(*                                                                         *)
(* A signature is the key that made it.  A salted digest is the disclosure *)
(* it is of, and sd_hash the pair of what it is computed over.             *)
(* Disclosures are a set: they are looked up by digest, and their order    *)
(* matters to sd_hash alone.  The Key Binding JWT is a set of at most one. *)
(***************************************************************************)
EXTENDS Integers

CONSTANTS KB_JWT_MAX_AGE_S, CLOCK_SKEW_S

\* issueSdJwtVc: a disclosure for every claim, digests and holder key in the JWS.
IssueSdJwtVc(issuerKey, holderKey, vct, claims, salt, now, expiresIn) ==
    LET disclosures == {[salt |-> salt, name |-> n, value |-> claims[n]] : n \in DOMAIN claims}
    IN  [jws |-> [key |-> issuerKey, vct |-> vct, sd |-> disclosures, cnf |-> holderKey,
                  exp |-> now + expiresIn],
         disclosures |-> disclosures, kb |-> {}]

\* createPresentation: what is not to be revealed is left out, and a Key Binding JWT by
\* the holder is added, over the nonce, the audience and all that is left.
CreatePresentation(issued, holderKey, claimsToReveal, audience, nonce, clock) ==
    LET kept == {d \in issued.disclosures : d.name \in claimsToReveal}
    IN  [jws |-> issued.jws, disclosures |-> kept,
         kb |-> {[key |-> holderKey, iat |-> clock, nonce |-> nonce, aud |-> audience,
                  sd_hash |-> <<issued.jws, kept>>]}]

\* jwtVerify of the JWS refuses at exp already; the comparison that follows in
\* verifyPresentation (exp < now) comes too late to find anything.
JwsVerifies(p, issuerKey, now) == p.jws.key = issuerKey /\ now < p.jws.exp

\* Every disclosure is in the digest set of the JWS.
DigestsMatch(p) == p.disclosures \subseteq p.jws.sd

\* The Key Binding JWT is neither older than five minutes nor from the future.
Fresh(kb, now) == now - kb.iat <= KB_JWT_MAX_AGE_S /\ kb.iat <= now + CLOCK_SKEW_S

MutNoHash(p, audience, nonce, now) ==
    \E kb \in p.kb : kb.key = p.jws.cnf /\ Fresh(kb, now) /\ kb.aud = audience /\ kb.nonce = nonce

\* The Key Binding JWT is by the holder of the credential, for this audience and nonce,
\* and commits to exactly what is presented.
KeyBound(p, audience, nonce, now) ==
    \E kb \in p.kb :
        /\ kb.key = p.jws.cnf /\ Fresh(kb, now)
        /\ kb.aud = audience /\ kb.nonce = nonce
        /\ kb.sd_hash = <<p.jws, p.disclosures>>

DisclosedClaims(p) ==
    LET known == p.disclosures \cap p.jws.sd
    IN  [n \in {d.name : d \in known} |-> (CHOOSE d \in known : d.name = n).value]

\* verifyPresentation: errors are collected, and it is valid when there are none.
VerifyPresentation(p, issuerKey, audience, nonce, now) ==
    JwsVerifies(p, issuerKey, now) /\ DigestsMatch(p) /\ KeyBound(p, audience, nonce, now)
=============================================================================
