--------------------------- MODULE RequestObject ----------------------------
(***************************************************************************)
(* Signed request objects, packages/core/src/request-object.ts, and what   *)
(* the wallet makes of the answer at a request URI before it trusts it     *)
(* (Wallet.resolveRequest, apps/wallet/src/wallet.ts).                     *)
(*                                                                         *)
(* A URL stands for its origin.  A signature is the key it was made with.  *)
(* client_id, response_uri and nonce are read from the same signed claims. *)
(***************************************************************************)
CONSTANTS
    Origins,                    \* origins of verifiers
    TrustedVerifierOrigins,     \* those in the configuration of the wallet
    WalletAudience,             \* the identifier of this wallet
    OtherAudience,              \* that of another wallet
    VerifierKeys,               \* keys that request objects are signed with
    Nonces                      \* a nonce stands for the session it was drawn for

ASSUME RequestAssumption ==
    TrustedVerifierOrigins \subseteq Origins /\ WalletAudience # OtherAudience

Formats == {"dc+sd-jwt", "mso_mdoc"}

\* The JSON at a request URI: the claims of the object, and whether it is signed.
RequestObjects ==
    [signed : BOOLEAN, key : VerifierKeys, client_id : Origins,
     aud : {WalletAudience, OtherAudience}, exp : {"ahead", "past", "absent"},
     response_uri : Origins, nonce : Nonces, format : Formats]

\* signRequestObject of the claims that GET /presentation/request/:id puts together
SignRequestObject(key, origin, nonce, format) ==
    [signed |-> TRUE, key |-> key, client_id |-> origin, aud |-> WalletAudience,
     exp |-> "ahead", response_uri |-> origin, nonce |-> nonce, format |-> format]

\* The answer is signed and its client_id, not verified yet, is one of ours.
TrustedClient(r) == r.signed /\ r.client_id \in TrustedVerifierOrigins

\* jwtVerify looks at exp when there is one.
NotExpired(r) == r.exp # "past"

\* verifyPresentationRequest(jwt, {client_id -> jwk}, ...): the map has the client_id
\* of the very object, so that what is left to check is the signature and the claims.
VerifyPresentationRequest(r, jwk) ==
    r.key = jwk /\ r.aud = WalletAudience /\ NotExpired(r)

MutAnyResponseUri(r) == r.response_uri \in Origins

\* response_uri shares the origin of client_id.
SameOrigin(r) == r.response_uri = r.client_id
=============================================================================
