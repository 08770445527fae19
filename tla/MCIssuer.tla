------------------------------ MODULE MCIssuer ------------------------------
(***************************************************************************)
(* Instances of Issuer for TLC.                                            *)
(***************************************************************************)
EXTENDS IssuerProperties, TLC

\* UUIDs, activations, clients and verifiers are interchangeable.  Only for runs
\* without a liveness property.
Symmetry ==
    UNION {Permutations(S) : S \in {PreAuthCodes, RequestUris, AuthCodes, Tokens,
                                    Requests, Clients, Verifiers}}
=============================================================================
