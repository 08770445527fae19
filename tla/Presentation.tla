---------------------------- MODULE Presentation ----------------------------
(***************************************************************************)
(* A presentation from the issuance of the credential to the verdict of    *)
(* the verifier, in either format: issueSdJwtVc and issueMdoc as POST      *)
(* /credential calls them, buildSdJwtPresentation and                      *)
(* buildMdocPresentation of the wallet, and the checks of POST             *)
(* /presentation/response.  What arrives at the verifier may be garbled:   *)
(* its parts may be of different presentations, an item may be missing or  *)
(* one too many.  Sessions and revocation are in module Verifier.          *)
(***************************************************************************)
EXTENDS SdJwt, Mdoc, Dcql, FiniteSets

CONSTANTS
    Absent,             \* stands for what is not there
    Credentials,        \* credentials that are issued
    Sessions,           \* presentation sessions; a session stands for its nonce
    HolderKeys,         \* keys of holders
    IssuerKey,          \* of the trusted issuer
    VerifierUrl,
    Types,              \* types of credential that the issuer has
    AskedType,          \* the one in the query
    Overrides,          \* choices of the user: sets of names
    ExpiresIn,          \* lifetime of a credential
    Drifts,             \* how far the holder's clock may be ahead
    MaxTime             \* bound on the clock

ASSUME PresentationAssumption ==
    /\ AskedType \in Types
    /\ KB_JWT_MAX_AGE_S \in Nat /\ CLOCK_SKEW_S \in Nat
    /\ ExpiresIn \in Nat /\ MaxTime \in Nat /\ Drifts \subseteq Nat

VARIABLES
    now,
    format,             \* of the credentials and of the sessions
    issued,             \* what the issuer made
    sent,               \* what the wallets made for each session, and of what
    verdict             \* what the verifier made of what it got last, until it is read

vars == <<now, format, issued, sent, verdict>>

Namespace == "org.iso.18013.5.1"

\* The attributes of a credential: two the verifier asks for and one that it does not.
Names == {"given_name", "age_over_18", "birthdate"}

REQUESTED_ATTRS == {"given_name", "age_over_18"}
RpRegistry == [client \in {VerifierUrl} |-> REQUESTED_ATTRS]

\* The queries DCQL and DCQL_MDL.
DcqlClaims == {<<"given_name">>, <<"age_over_18">>}
DcqlMdlClaims == {<<Namespace, "given_name">>, <<Namespace, "age_over_18">>}

Init ==
    /\ now = 0 /\ format \in {"dc+sd-jwt", "mso_mdoc"}
    /\ issued = [c \in Credentials |-> Absent]
    /\ sent = [s \in Sessions |-> Absent]
    /\ verdict = Absent
-----------------------------------------------------------------------------
\* The elements of an mdoc, namespace by namespace.
Elements(claims) ==
    <<[ns |-> Namespace, element |-> "given_name", value |-> claims["given_name"]],
      [ns |-> Namespace, element |-> "age_over_18", value |-> claims["age_over_18"]],
      [ns |-> "domestic", element |-> "birthdate", value |-> claims["birthdate"]]>>

\* POST /credential.  A holder's age may be below 18, or not on record.
Issue(c) ==
    /\ issued[c] = Absent
    /\ \E key \in HolderKeys, type \in Types, age \in {Scalar("false"), Null} :
          LET claims == [n \in Names |-> IF n = "age_over_18" THEN age ELSE Scalar(n)]
              body == IF format = "mso_mdoc"
                  THEN IssueMdoc(IssuerKey, key, type, Elements(claims), c, now, ExpiresIn)
                  ELSE IssueSdJwtVc(IssuerKey, key, type, claims, c, now, ExpiresIn)
          IN  issued' = [issued EXCEPT ![c] = [key |-> key, type |-> type, claims |-> claims,
                                               at |-> now, body |-> body]]
    /\ verdict' = Absent
    /\ UNCHANGED <<now, format, sent>>

\* What the wallet reveals: in an SD-JWT what the user chose, if he chose, and else what
\* was asked; in an mdoc what was asked, if he did not choose otherwise.
ToReveal(override) ==
    IF override = Absent THEN {path[Len(path)] : path \in DcqlClaims} ELSE override

Reveal(override) ==
    {path \in DcqlMdlClaims : override = Absent \/ path[2] \in override}

\* POST /api/present, for a session that the verifier was entitled to open.  This wallet
\* looks for a credential of the type asked; another wallet may present what it has.
Present(s, c) ==
    /\ sent[s] = Absent /\ issued[c] # Absent
    /\ AssertEntitled(RpRegistry, VerifierUrl, REQUESTED_ATTRS)
    /\ \E override \in Overrides \cup {Absent}, drift \in Drifts :
          LET held == issued[c].body
              key == issued[c].key
              body == IF format = "mso_mdoc"
                  THEN CreateMdocPresentation(held, key, Reveal(override), VerifierUrl, s)
                  ELSE CreatePresentation(held, key, ToReveal(override), VerifierUrl, s,
                                          now + drift)
          IN  sent' = [sent EXCEPT ![s] = [credential |-> c, override |-> override,
                                           clock |-> now + drift, body |-> body]]
    /\ verdict' = Absent
    /\ UNCHANGED <<now, format, issued>>
-----------------------------------------------------------------------------
Bodies == {sent[s].body : s \in {t \in Sessions : sent[t] # Absent}}

\* Parts of three presentations put together, an item lost, or one from each.
Mixed(parts) ==
    {parts} \cup {parts \ {x} : x \in parts} \cup {parts \cup b.disclosures : b \in Bodies}

GarbledSdJwts ==
    {[jws |-> a.jws, disclosures |-> ds, kb |-> k] :
        a \in Bodies, ds \in UNION {Mixed(b.disclosures) : b \in Bodies},
        k \in {b.kb : b \in Bodies} \cup {{}}}

MixedItems(items) ==
    {items} \cup {[ns \in DOMAIN items |-> items[ns] \ {x}] : x \in UNION {items[ns] : ns \in DOMAIN items}}
        \cup {[ns \in DOMAIN items |-> items[ns] \cup UNION {b.nameSpaces[n] : n \in DOMAIN b.nameSpaces}] :
                 b \in Bodies}

GarbledMdocs ==
    {[docType |-> t, issuerAuth |-> a.issuerAuth, nameSpaces |-> items, deviceAuth |-> d.deviceAuth] :
        t \in Types, a, d \in Bodies, items \in UNION {MixedItems(b.nameSpaces) : b \in Bodies}}

Claims(body) ==
    IF format = "mso_mdoc"
    THEN LET spaces == DisclosedElements(body)
         IN  Object([ns \in DOMAIN spaces |-> Object(spaces[ns])])
    ELSE Object(DisclosedClaims(body))

Verifies(s, body) ==
    IF format = "mso_mdoc"
    THEN VerifyMdocPresentation(body, IssuerKey, VerifierUrl, s, now)
    ELSE VerifyPresentation(body, IssuerKey, VerifierUrl, s, now)

Satisfies(body) ==
    {} = IF format = "mso_mdoc" THEN CheckDcqlSatisfied(DcqlMdlClaims, Claims(body))
                                ELSE CheckDcqlSatisfied(DcqlClaims, Claims(body))

\* POST /presentation/response
Respond(s) ==
    /\ verdict = Absent
    /\ \E body \in IF format = "mso_mdoc" THEN GarbledMdocs ELSE GarbledSdJwts :
           verdict' = [session |-> s, body |-> body, valid |-> Verifies(s, body) /\ Satisfies(body)]
    /\ UNCHANGED <<now, format, issued, sent>>

\* Time passes.
Tick ==
    /\ now < MaxTime
    /\ now' = now + 1 /\ verdict' = Absent
    /\ UNCHANGED <<format, issued, sent>>

Next ==
    \/ \E c \in Credentials : Issue(c)
    \/ \E s \in Sessions : (\E c \in Credentials : Present(s, c)) \/ Respond(s)
    \/ Tick

Spec == Init /\ [][Next]_vars
=============================================================================
