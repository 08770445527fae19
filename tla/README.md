# Digilompakko in TLA+

TLA+ models of the services in this repository, model-checked with TLC on small instances
and proved with TLAPS for every instance. Source paths are relative to the root
of the repository, which `PROJECT.json` calls `src/`.

1. [The system](#1-the-system)
2. [Modules](#2-modules)
3. [How the models correspond to the code](#3-how-the-models-correspond-to-the-code)
4. [Runs](#4-runs)
5. [Fairness](#5-fairness)
6. [Proofs](#6-proofs)
7. [What the checks found](#7-what-the-checks-found)
8. [What is not modelled](#8-what-is-not-modelled)
9. [Plan](#9-plan)

## 1. The system

Digilompakko is a digital identity wallet: an **issuer** gives credentials (a PID as SD-JWT
VC, an mDL as ISO mdoc) to **wallets** over OpenID4VCI, wallets present them to a
**verifier** over OpenID4VP, and the issuer revokes them through a Token Status List. Every
service is one Node process with its state in memory. It runs handlers on one event loop:
code between two `await`s is atomic, and everything between the two parts of a handler can
change while it is suspended.

| Component | State | Operations | Interacts with |
|---|---|---|---|
| Issuer service (`apps/issuer/src/server.ts`) | `offers`, `parRequests`, `authCodes`, `accessTokens` (each a Map with a TTL and a cap), `statusList`, `nextStatusIdx`, `issuedRecords`, the signing keys | `/offer`, `/par`, `/authorize`, `/token`, `/credential` (three awaits), `/admin/revoke`, `/statuslist`, metadata, a sweep every minute | wallets call it; the verifier fetches its keys and its list |
| Verifier service (`apps/verifier/src/server.ts`) | `sessions` (TTL and cap), result tokens | `/presentation/request`, `/presentation/request/:id`, `/presentation/response` (suspends on two fetches and on the verification), `/presentation/result/:resultToken`, sweep | wallets answer it, relying parties poll it |
| Issuer key resolver (`packages/core/src/trust.ts`) | a cache of issuer keys with a TTL | `resolveIssuerKey` | the verifier calls it; it calls the issuer |
| Token Status List (`packages/core/src/status-list.ts`) | bytes, one bit per credential | `get`, `set`, `encode`, `buildStatusListToken`, `readStatus` | issuer writes, verifier reads |
| Safe fetch (`packages/core/src/http.ts`) | of one call: hop, URL, init, bytes read | `assertSafeUrl`, `safeFetch`, `safeFetchText`, `safeFetchJson` | every outgoing request |
| Wallet holder logic (`apps/wallet/src/wallet.ts`) | stored credentials, holder key | `acceptOffer`, `acceptViaAuthCode`, `resolveRequest`, `present`: chains of requests with an await at each | issuer, verifier |
| Wallet server and page (`apps/wallet/src/server.ts`) | the one wallet of the process; in the page, which buttons are enabled | `/api/get-credential`, `/api/get-mdl`, `/api/get-credential-authcode`, `/api/present`; the script of the page | the user, the holder logic |
| Request objects and RP registry (`packages/core/src/request-object.ts`, `rp-registry.ts`) | the registry | sign and verify a request, check what an RP may ask | verifier signs, wallet verifies |
| Presentation formats (`sd-jwt.ts`, `mdoc.ts`, `dcql.ts`) | none | issue, present, verify, match a query | all three services |
| Android and iOS wallets (`mobile/`) | stored credentials, hardware keys | as the wallet | issuer, verifier |
| Keys, crypto, types, errors; demo script | none | - | - |

### What is hard about it

- *Suspended handlers.* `/credential` and `/presentation/response` read state, await, and
  then act on what they read. Single use rests on where the `delete` or the `consumed`
  flag stands relative to the first `await`.
- *Grants that travel through stores.* A PAR becomes a code, a code a token, a token a
  suspended handler; client, challenge and nonce are copied along. One store not cleared is
  a second live copy.
- *Time.* Five TTLs in the issuer and two in the verifier are compared by handlers and
  again by a sweep; the age that was in range at the lookup may not be after an await.
- *Lost and late answers.* An attempt of the wallet is a chain of three to six requests. Each
  may time out after the service did what was asked. Nothing is asked for twice: a retry is
  a new grant or a new session, and what the old one produced is nobody's.
- *Parts from several presentations.* The verifier gets claims, a signed credential and a
  proof of the holder as separate pieces, and must accept only what belongs together.
- *Restarts.* A restarted issuer has a new key and an empty list, gives status indices out
  again and has forgotten revocations, while old credentials are still in wallets and the
  old key may be in a verifier's cache.
- *Overlapping fetches.* Two key fetches can be answered in one order and arrive in another.
- *Limits.* Stores at their cap, a status list at its end, eight entries to a byte,
  redirects and bodies without end.

`PROJECT.json` lists each of these at its line with the properties that cover it.

### What makes each component correct

- Issuer: a grant is in one place at a time and yields one credential at most; a proof is
  good for one credential; indices are unique per key; every credential is on record and
  revocable; codes are exchanged by who asked for them; nothing lives longer than its TTLs;
  sweeps take nothing that is in use; everything settles.
- Verifier: one submission per session; no presentation accepted twice; no credential
  accepted that was revoked when it was submitted; a result read once; sessions close.
- Key resolver: a retired key leaves the cache.
- Status list: it behaves as a set of indices, and revocation reaches every reader within
  the lifetime of a token.
- Safe fetch: nothing unsafe is contacted, secrets stay at the origin they were meant for,
  a text is whole, a call ends.
- Wallet: what it stores was issued to it on a grant of its own; only signed requests of
  trusted verifiers that are meant for it are answered, to that verifier, and what it reports
  is what it posted; every attempt ends, and a user who tries again gets a credential.
- Presentation formats: what an accepted presentation tells was said by the issuer of one
  holder, in a credential in force, and that holder answered this session; a presentation
  that is in order is accepted.
- RP registry: no relying party gets a claim that it is not registered for and the user did
  not choose to tell.
- Address classification: no private address passes, in whichever way it is written, and no
  public IPv4 address is refused.

## 2. Modules

| Module | What it is |
|---|---|
| `Maps` | JavaScript Maps as functions, and ages |
| `Issuer` | the issuer service, one action per handler part |
| `IssuerProperties` | its type invariant, safety, action property; its refinement mapping |
| `OneTimeGrant` | abstract: what the issuer promises about one grant |
| `IssuerInvariant` | the inductive invariant |
| `IssuerProofs` | theorems on `Issuer`, and that it implements `OneTimeGrant` |
| `Verifier` | the verifier service with the key resolver, against an issuer that revokes and restarts |
| `VerifierProperties` | as above |
| `OneShotSession` | abstract: what the verifier promises about one session |
| `VerifierInvariant`, `VerifierProofs` | as above |
| `StatusList` | the bytes of the list, the token, the reader |
| `RevocationSet` | abstract: a set of indices |
| `StatusListProofs` | theorems on `StatusList` |
| `SafeFetch` | one call of `safeFetch` or `safeFetchText` |
| `SafeFetchProofs` | theorems on `SafeFetch` |
| `UrlGuard` | `assertSafeUrl`: the classification of hosts, and the address blocks it is about |
| `UrlGuardProofs` | theorems on `UrlGuard`, for every number that a host can contain |
| `RequestObject` | a signed request object: what is signed, what is accepted |
| `Wallet` | routes, flows and page of the web wallet, one action per answer that arrives |
| `System` | `Wallet` against the abstract issuer and verifier, and the network between them |
| `SystemProperties`, `SystemInvariant`, `SystemProofs` | type invariant, safety, action properties, liveness; the inductive invariant; theorems |
| `SdJwt`, `Mdoc` | issuance, selective disclosure and verification in the two formats |
| `Dcql` | `checkDcqlSatisfied` and `assertEntitled` |
| `Presentation` | one presentation from issuance to verdict, in either format, with parts mixed on the way |
| `PresentationProperties`, `PresentationInvariant`, `PresentationProofs` | as for `System` |
| `MapLemmas` | what the operators of `Maps` return |
| `MCIssuer`, `MCVerifier`, `MCPresentation`, `MCUrlGuard` | symmetry, or the sets of numbers, for the TLC instances |

How they fit together:

```
                    Maps, MapLemmas
                   /       |       \
             Issuer     Verifier    StatusList ==> RevocationSet
               ||          ||
               \/          \/                SdJwt  Mdoc  Dcql
         OneTimeGrant  OneShotSession             \    |    /
                   \      /                      Presentation
   RequestObject - Wallet - System
                                                SafeFetch   UrlGuard
```

`System` uses the services as `OneTimeGrant` and `OneShotSession`, which `Issuer` and
`Verifier` are proved to implement (double arrows), and matches their steps to the endpoints
as `EndpointsKeepToTheirStage` and `EndpointsTakeTheirStep` say of the services themselves.
`Issuer` and `Verifier` use the list as
a set of indices, which `StatusList` justifies; `Verifier` treats a fetch as answered or
failed, which is what `SafeFetch` returns, and leaves what the checks of a presentation find
to an arbitrary outcome, which `Presentation` replaces by the checks. `SafeFetch` takes the
accepted origins as a constant, which `UrlGuard` computes.

Operators whose name begins with `Mut` are deliberately wrong variants of the definition
below them. No specification uses them; they serve to check that each property notices
when its definition is replaced.

## 3. How the models correspond to the code

Conventions of all modules:

- **Atomicity.** A handler without `await` is one action. A handler with awaits is split at
  each await across which it relies on shared state; its local variables are the record it
  holds while suspended. Two awaits with nothing but local computation between them are one.
- **Error answers** that change no store are stuttering steps and have no action. Those that
  do change one (an expired code is deleted, a full token store loses the grant) have one.
- **UUIDs** come from finite pools and are never drawn twice. Two UUIDs drawn together (a
  token and its `c_nonce`, a session id and its nonce) are named after each other.
- **Time.** A time stamp is the age of what it stamps. The code only compares ages with
  TTLs, so an age stops growing at TTL + 1. `Tick` advances all of them at once; TTLs keep
  their names and their comparisons (`>` in handlers, `>` in sweeps, `<` in the key cache).
- **Cryptography.** A signature is the key it was made with, a hash an injection, a proof a
  record of what the checks look at.
- **History variables** (marked so at their declaration) record what happened for the
  properties. No guard of an action reads them; `origin` and `life` of `Issuer` and
  `outdated` of `Verifier` are history fields of records.

### Issuer

| State | Code |
|---|---|
| `offers`, `parRequests`, `authCodes`, `accessTokens` | the four Maps, with `createdAt` as `age` |
| `verifying`, `signing` | activations of `/credential` awaiting the proof, or the signature |
| `nextStatusIdx`, `issuedRecords`, `revoked` | the counter, the records of `/admin/issued`, the bits of `statusList` |
| `key` | which process, and so which `issuerKeys` |
| `credentials` | the credentials sent: what wallets have, across restarts |

| Action | Code |
|---|---|
| `CreateOffer`, `PushPar` | POST `/offer`, POST `/par` |
| `AuthorizeExpired`, `Authorize` | GET `/authorize`, by the age of the PAR |
| `TokenCodeRefused`, `TokenByCode`, `TokenByOffer` | POST `/token`, by grant type and outcome; `StoreToken` is its end |
| `CredentialExpired`, `CredentialStart` | POST `/credential` up to its first await |
| `ProofRefused`, `StartIssuance` | from there to the await on the signature; `importJWK` and `jwtVerify` touch nothing shared and are one await |
| `FinishIssuance`, `IssuanceFails` | the rest |
| `Revoke`, `Sweep`, `Tick`, `Restart` | POST `/admin/revoke`, `sweepIssuer`, the clock, the process |

The order in the code is kept where it matters: `/token` deletes an offer before it looks
at its age and deletes the grant before it finds the token store full; `verifyPkce` throws
and leaves the code; a PID is recorded before it is signed and an mDL afterwards.

### Verifier

| State | Code |
|---|---|
| `sessions` | the Map: age, `consumed`, `result` |
| `handlers` | activations of `/presentation/response`: program point, session, `vp_token`, key resolved, list served |
| `cache` | the cache of `resolveIssuerKey`, for the one issuer that is trusted |
| `issuerKey`, `revoked`, `everRevoked` | the environment: the issuer's key, its list, and what was ever revoked |
| `verdicts`, `delivered` | history |

| Action | Code |
|---|---|
| `CreateRequest`, `Poll` | POST `/presentation/request`, GET `/presentation/result/:resultToken` |
| `ResponseExpired`, `ResponseRejected`, `ResponseStart` | POST `/presentation/response` up to its first await |
| `KeyServed`, `KeyArrives` | the metadata fetch: the moment it is answered, the moment the answer is cached |
| `VerifyPresentation` | `verifyPresentation` or `verifyMdocPresentation`, and what follows up to the next await |
| `StatusServed`, `StatusArrives` | the status list fetch and the DCQL check |
| `HandlerThrows` | any rejection: the session stays consumed, without a result |
| `Sweep`, `Tick` | `sweepVerifier`, the clock |
| `IssuerRevokes`, `IssuerRestarts` | the environment |

A `vp_token` is what the verifier compares with its own state: the key, the status index
(or none) and the nonce. Any nonce that was ever drawn can be in it, so replays are inputs.
Everything else the checks look at is data of the token alone and is an arbitrary outcome.
The two formats take the same steps.

### StatusList

A byte is the set of positions of its 1 bits: `|= 1 << bit` adds, `&= ~(1 << bit)` takes
away, `idx >> 3` is `\div 8` and `idx & 7` is `% 8`. One token is enough for a reader's
property, since it is stated for whichever token the reader holds: `Publish` replaces it by
a fresh one at any time, or never. `invalidFor` (history) is how long an index has been
INVALID. `readStatus` checks the range by bytes, `set` by index; `size = 11` in the run
makes the two differ.

### SafeFetch

A URL stands for its origin. `Call` is `safeFetch` up to its first `fetch`, `Redirect` one
turn of the loop up to the next, `FetchFails` and `FetchSucceeds` the ways out of it,
`Chunk` and `BodyEnds` the loop of `safeFetchText`. The servers are the environment and may
answer anything. `Inits` are the options the wallet passes; credentials are the
`authorization` and cookie headers. Which origins `assertSafeUrl` accepts is a constant.

### UrlGuard

A host is what `URL.hostname` gives: four decimal numbers, or a bracketed IPv6 address in
shortest hexadecimal form, or a name. The code compares octets of the first and matches
patterns against the text of the rest. A pattern `^fe8` on a numeral of up to four digits
without leading zeros is `BeginsWith`: the group is the prefix, or the prefix with one or two
digits behind it. `InIPv4Block` and `InIPv6Block` define the blocks that the comments of the
code name by their fixed bits, independently of both. Only the first two octets and the
first group are looked at by the code, and so only they are in the model, besides what
distinguishes loopback. `::ffff:a.b.c.d` reaches the code as `::ffff:hi:lo`.

### Wallet and System

| State | Code |
|---|---|
| `attempt` | each call of one of the four routes: its format, and unused, running, ok or error |
| `wire` | the last request of an attempt: the endpoint, and sent, serving, answered or refused |
| `request`, `jwks` | locals of `resolveRequest` |
| `credentials`, `process` | the array of the `Wallet` object; which process, and so which holder key |
| `page` | the buttons that are enabled, and the calls that the script of the page awaits |
| `vpToken` | what was posted: the body of the request to the `response_uri`, kept |
| `stage`, `judgement`, `mailbox` | the state of `OneTimeGrant` and `OneShotSession` |
| `submission`, `outdated` | the posted presentation that a session has admitted, and what was revoked by then |
| `verifierKey`, `revoked` | which process of the verifier; the credentials revoked at the issuer |
| `faults` | how many faults there were, for the bound `MaxFaults` |

| Action | Code |
|---|---|
| `Get`, `Present` | a button is pressed: the script disables it and calls the route, which sends its first request |
| `Continue` | an answer whose handling is the next request, in `acceptOffer`, `acceptViaAuthCode` and `/api/present` |
| `StoreCredential` | the end of `fetchCredential`, the answer of the route, and what the page does with it |
| `ObjectArrives`, `KeyArrives` | `resolveRequest` in its two parts; the second with `present` up to the post |
| `ResultArrives`, `RefusalArrives`, `TimesOut` | the ways a call ends |
| `Restart`, `Reload` | the wallet process; the page |
| `IssuerServes`, `IssuerIssues`, `IssuerGivesUp`, `IssuerRevokes` | steps of `OneTimeGrant`, matched to the endpoint that is asked |
| `VerifierOpens`, `ObjectServed`, `KeyServed`, `VerifierAdmits`, `VerifierJudges`, `VerifierFails`, `SessionsMove`, `VerifierRestarts` | steps of `OneShotSession`, and the two GET routes, which have no state |
| `ServiceRefuses` | an error answer |

A request that nobody answers is lost; an answer to an attempt that has ended is lost; a
request that is served after that is late. None of these has an action of its own: they are
orders of `TimesOut` and of the steps of the services. A request is never sent twice,
because the code has no automatic retry. A grant and a session are named after the attempt
they were created for.

Which session an attempt answers is another matter. `present()` takes a request URI, and
nothing in the wallet ties the object that it gets there to the URI that it asked for: the
session is the one that the object names. So the verifier also has sessions that others asked
for (`Elsewhere`), and `ForeignRequests` puts in place of the right object whatever else may be
there: objects of another key, also in the name of the verifier; every object that the
verifier has ever signed for any session, with whichever of its keys; and the right one
unsigned, expired, without expiry, for another wallet, or with a `response_uri` elsewhere. The
last two the verifier does not sign as it is configured; they are there because the wallet
checks for them. A wrong object is counted as a fault, since `/api/present` takes the URI from the
verifier. Of what others post to sessions of their own, `SessionsMove` has that the session is
then taken; their verdicts are not modelled, so every judgement in the model is of a
presentation of this wallet.

The verdict is by a status list that is fetched after the submission. `Findings` says what
`Verifier` promises of it, and no more (`RevokedNeverAccepted`): a credential that was revoked when it
was submitted is not valid. One that is revoked later may be or not, as the list was served
before or after.

There is one page. Calls of an old page run on after a reload; a second tab would add
attempts whose page is never reported to, which is what those are.

### Presentation

| Definition | Code |
|---|---|
| `IssueSdJwtVc`, `IssueMdoc`, `Issue` | the functions of the same names as POST `/credential` calls them |
| `CreatePresentation`, `CreateMdocPresentation`, `ToReveal`, `Reveal`, `Present` | the functions of the same names as `buildSdJwtPresentation` and `buildMdocPresentation` call them |
| `VerifyPresentation`, `VerifyMdocPresentation`, `CheckDcqlSatisfied`, `Respond` | the checks of POST `/presentation/response` |
| `GarbledSdJwts`, `GarbledMdocs` | what may arrive: pieces of up to four presentations put together, an item lost, or items added |

A digest is what it is a digest of, a signature is the key. So a verification that compares
a digest compares the thing, and one that forgets to compare it accepts what was put in its
place. The optional Key Binding JWT of an SD-JWT is a set of at most one. `At` is the loop of
`checkDcqlSatisfied` along a path, as a function on the positions of the path. Time is a clock,
since issuance and verification read the clocks of two machines:
`Drifts` is how far ahead the holder's is. CBOR, base64url, COSE headers and the order of
disclosures are left out. A verdict is kept until the next step of anyone, so that "in force
now" is about the moment of the verification.

## 4. Runs

| Run | Instance | States | Shows |
|---|---|---|---|
| `issuer_safety` | 2 offers, 1 PAR, 2 codes, 2 tokens, 2 overlapping `/credential`, 2 clients, 2 PKCE verifiers, TTLs 1, list of 1, 1 restart | 545,284 | single use, unique indices, records, no proof replay, lifetimes, code bound to client, sweeps harmless |
| `issuer_lifecycle` | 1 offer, 1 PAR, stores of 1, 1 restart | 43,936 | the issuer implements `OneTimeGrant`; every grant settles |
| `issuer_list_full` | 2 offers, list of 1 | violation | see section 7 |
| `verifier_safety` | 2 sessions, 2 overlapping handlers, indices 0 and 1 with a list of 1, TTLs 1, 1 restart of the issuer | 1,352,447 | one submission, no replay, no revoked credential, results read once, sweeps harmless, implements `OneShotSession` |
| `verifier_lifecycle` | 2 sessions in a store of 1, 1 restart of the issuer | 515,030 | every session closes; a retired key leaves the cache |
| `status_list` | 11 entries in 2 bytes, indices at both ends of a byte, at the end of the list and past it, lifetime 2 | 25,558 | implements `RevocationSet`; revocations are seen |
| `safe_fetch` | 2 safe origins and 1 unsafe, 3 redirects, cap 3, chunks up to 2 | 1,469 | safe origins only, secrets stay home, texts whole, calls end |
| `wallet_system` | 2 attempts to get, 1 to present, 1 session of others, 1 fault | 209,373 | stored credentials are issued ones; only the verifier is answered; what is lost stays lost; what is revoked when it is submitted never becomes valid; attempts end; a retry succeeds |
| `presentation_verdicts` | 2 credentials, 2 sessions, 2 holders, both formats, choices that leave out and that add an attribute, clocks right and 2 ahead, times 0 to 3 with a lifetime and an age limit of 2 and a skew of 1 | 3,069,480 | what is accepted is vouched for and is what was made; what is in order is accepted |
| `presentation_type` | 1 credential, 1 session, an issuer with a second type | violation | see section 7 |
| `url_ranges` | every octet, every group, every beginning of a name that a pattern matches | 1,310,752 | no private address passes, no public IPv4 address is refused |
| `url_names` | names alone | violation | see section 7 |

Why these bounds are enough to be interesting, and that they are only bounds:

- Two of everything that can collide: two grants whose tokens or indices could be
  confused, two activations that overlap, two clients of whom either may redeem a code.
  With one PAR their codes never lie in the store together; `CodeBoundToClientCorrect`
  proves the property for any number of them.
  Symmetry is used in the two safety runs, which have no liveness property.
- A TTL of 1 gives an age inside, at and past the limit; 0 is used in the liveness runs
  where only expiry matters.
- One restart gives two keys, and so a stale one. The bounds on the restarts
  (`MaxRestarts`, `MaxRotations`) are the only guards that the code does not have.
- Caps of 1 in the lifecycle runs make stores full; the list of 1 entry makes it run out.
- Eleven entries are no multiple of eight, and 8 and 0 share a position in two bytes.
- Two attempts to get and one to present let a credential be lost and asked for again, let a
  newer one be stored behind a revoked one, and let both overlap with a presentation. One
  fault is a timeout, refusal, expiry, reload, restart or wrong request object at any point, of
  the wallet or of a service; the proofs have no bound on them. One session of others is
  enough for the wallet to answer what it did not ask for, and for a stranger to be there first.
- Two credentials, sessions and holders are what it takes to put a presentation together
  from parts of different ones. Ages of 0 to 3 against 2 reach both sides of each comparison
  by a clock, `exp` and `validUntil` at their last moment included.
- `url_ranges` has no bound on the numbers: it enumerates them all.
- The safety properties are proved without any of these bounds (section 6).

Symmetry in `presentation_verdicts` is sound: credentials, sessions and holders are compared
for equality alone, and only invariants are checked.

`CHECK_DEADLOCK FALSE` is set where a model may rightly stop: a call of `SafeFetch` that has
ended, a URL that was judged, attempts that are all used up, a clock at `MaxTime`.

## 5. Fairness

`Spec` has no fairness and is what the safety properties and refinements are about.
`FairSpec` adds, for the liveness properties:

- Issuer: `WF(Tick)`, `WF(Sweep)`: the clock runs and the `setInterval` timer fires.
  `WF(Settle(r))` for each activation: `importJWK`, `jwtVerify` and the signing settle, being
  computations. Nothing makes a client send a request or a process restart.
- Verifier: the clock, the timer, and `WF(Proceed(h))` for each activation: a fetch is
  answered or aborted. The timer of `safeFetch` bounds the wait for the headers. It is
  cleared then (`packages/core/src/http.ts:136`), so that the body is bounded by the runtime's own
  timeout, not by the code: this is an assumption on the runtime.
- SafeFetch: `WF(Answer)`, from the timer, and `WF(Read)`, the same assumption. That the
  loop ends is then no matter of fairness but of the hop counter and of the cap.
- System: `WF(Resume(a))`: the event loop takes up an answer that has arrived.
  `WF(Served(a))`: a service serves or refuses a request that it has, which is what
  `Issuer` and `Verifier` promise under their own fairness. `WF(Retry)`: a user without
  a credential tries again, and reloads a page whose buttons stay disabled; it is used by
  `RetryGetsCredential` alone, which says what a user gets who does. Timeouts, losses and
  restarts have no fairness and stop after `MaxFaults`. So `EveryAttemptEnds` rests on services
  that serve or refuse, and on the wallet for taking up their answers; `TimesOut`, the timer of
  `safeFetch`, is one more way to end, and the property would hold without it.

No property needs strong fairness.

## 6. Proofs

All theorems are checked by `tlapm` to the last leaf. They assume nothing but the named
assumptions on the constants, which TLC evaluates in the runs:

| Assumption | Says |
|---|---|
| `TTLAssumption`, `SizeAssumption` (`Issuer`) | TTLs are naturals; caps and list size are positive |
| `OriginAssumption` | UUIDs of different kinds differ |
| `FinitenessAssumption` | pools of UUIDs are finite sets |
| `VerifierAssumption` | the same for the verifier; the absent status index is no number |
| `ListAssumption` | size and lifetime of the status list are positive |
| `FetchAssumption` | safe origins are origins; limits are naturals |
| `NumberAssumption`, `NameAssumption` (`UrlGuard`) | octets are bytes, groups are 16-bit words; which beginnings of names are told apart |
| `RequestAssumption`, `NoneAssumption`, `SystemAssumption` | there is one trusted verifier and one other origin; the absent value is no key, object, presentation, message or session; keys of processes differ from the foreign one; the sessions of others are no attempts; a nonce is that of a session, or of none |
| `PresentationAssumption` | the type asked for exists; times and limits are naturals |

| Module | Theorems |
|---|---|
| `IssuerProofs` | `TypeCorrect`, `InvCorrect`, `SingleUseCorrect`, `UniqueStatusIndexCorrect`, `CredentialRecordedCorrect`, `NoProofReplayCorrect`, `BoundedLifetimeCorrect`, `CodeBoundToClientCorrect`, `OthersKeepTheirGrantsCorrect`, `Refines`: `Spec => ImplementsOneTimeGrant`, `EndpointsKeepToTheirStageCorrect` |
| `VerifierProofs` | `TypeCorrect`, `InvCorrect`, `OneSubmissionCorrect`, `NoReplayCorrect`, `RevokedNeverAcceptedCorrect`, `ReadOnceCorrect`, `OthersKeepTheirSessionsCorrect`, `Refines`: `Spec => ImplementsOneShotSession`, `EndpointsTakeTheirStepCorrect`, `StaleKeysDwindleCorrect` |
| `StatusListProofs` | `TypeCorrect`, `Refines`: `Spec => ImplementsRevocationSet`, `RevocationSeenCorrect` |
| `SafeFetchProofs` | `TypeCorrect`, `InvCorrect`, `OnlySafeContactedCorrect`, `SecretsStayHomeCorrect`, `WholeWithinCapCorrect`, `EveryStepSpendsCorrect` |
| `SystemProofs` | `Invariance`, `TypeCorrect`, `WhatIsStoredWasIssued`, `TheVerifierIsAnswered`, `WhatIsLostIsLost`, `ARevokedFirstBlocks`, `WhatIsJudgedWasIssued`, `AttemptsOnlyMoveOn` |
| `PresentationProofs` | `Invariance`, `TypeCorrect`, `WhatIsAcceptedWasMade`, `WhatIsAcceptedIsVouchedFor`, `WhatIsInOrderIsAccepted` |
| `UrlGuardProofs` | `NoPrivateIsFetched`, `PublicIPv4IsFetched`, `WhatIsRefused` |

### The inductive invariants

The properties are not inductive as they stand. What each of them needs besides:

`IssuerInv`
- *SingleUse* needs `PlacesDrawn`: a UUID that is fresh has its grant nowhere, so a new
  grant meets no old one; and `NothingOverwritten`: a code or an activation that is put into
  a store replaces none.
- *UniqueStatusIndex* and *CredentialRecorded* need `IndexInUse`: the counter is ahead of
  every index that was given out under the present key, no credential is signed by a
  process to come, and a PID being signed is on record already.
- *NoProofReplay* needs `NonceInOnePlace`: a nonce is with its token, in one verification,
  in one issuance or in one credential, and a nonce that left its token belongs to a token
  that is gone for good.
- *BoundedLifetime* needs `LifeBounded`: while an entry is within its TTL, its life is at
  most its age plus the TTLs of the stages before it.
- *CodeBoundToClient* needs `BoundOnTheWay`: PAR and code carry what was pushed.

`VerifierInv`
- *OneSubmission* needs `SubmissionsTaken`: a session for which there is an activation or a
  verdict was drawn, and while it is in the store it is consumed.
- *NoReplay* needs `NonceChecked`: past the verification, the nonce is the session's.
- *RevokedNeverAccepted* needs `ListComplete` (the list holds all that was revoked under
  the present key) and `OutdatedShows`: a list that is served under the credential's own
  key shows the bit, and under another key is unreadable. This is why a stale key in the
  cache is harmless for credentials with a status reference: the list is verified with the
  same cached key, and the issuer no longer signs with it.
- *ReadOnce* needs `DeliveredJudged`.

`RevocationShows` (`StatusListProofs`): the bit of a revoked index is set, and a sound token
younger than the revocation shows it. `BitsApart` is the arithmetic under the refinement.

`FetchInv` (`SafeFetchProofs`): the request under way is at a visited, safe origin
(`OnTheWay`); an init that still has a secret has visited nothing but the current origin
(`AtHome`); bytes counted are bytes kept until the call throws (`Counted`).

`Inv` of `SystemInvariant`
- *StoredIsIssued* needs `Answers`: `/credential` has answered only when the grant is at its
  last stage; and `Presentable` for the buttons: an enabled button had a credential, and the
  array only grows until a restart.
- *OnlyVerifierAnswered* needs `Requested`, along the chain of requests: an object that an
  attempt holds has the key of somebody else, or the verifier had opened the session that it
  names (`Known`); the key it fetched is one the verifier has had. The signature then leaves the
  second, and `aud` and `SameOrigin` make it `Genuine`, as `Presented` has it of what is posted.
  That an answer is to this very post needs that who is served was admitted (`Presented`), that
  the judgement is there when the answer is (`Answers`), and that a session once admitted is
  never open again.
- *LostIsLost* needs `Reported`: what is stored is reported as ok, so that an attempt that
  failed has stored nothing, and it is no longer running.
- *RevokedFirstBlocks* needs `Presented`: what an attempt of this process presented is still
  the first credential of its format, since the array only grows at its end; and `Backed`:
  what a session has admitted is what was posted for it, whenever the verdict comes. That the
  verifier finds nothing valid that was revoked at the submission is `Findings`, which rests on
  `RevokedNeverAcceptedCorrect`.
- *WhatIsJudgedWasIssued* (`Backed`) needs `Honest` of everything that is posted, also to a
  session that is gone: its credential was issued, and the attempt that got it has
  reported that for good. A judgement is of what was admitted, whoever was restarted since.
- *AttemptsOnlyMoveOn* needs `Untouched`: an attempt that was not begun has no request under
  way and a fresh grant, so that all of its steps are still before it.

`Inv` of `PresentationInvariant`: everything issued is `Made` by the issuer of claims and a key,
everything sent is `Presented` from something issued, and the verdict is on something that
can arrive and follows from it. For an SD-JWT the nonce in the Key Binding JWT then
picks the session and its `sd_hash` the rest, so the whole is what was sent. The device
signature of an mdoc names no items, so for it the argument goes item by item: each was
filtered from an issued mdoc (`FilteredIsHeld`), has its digest in the one MSO that is
presented (`DigestsAreOfClaims`), and that MSO names the key of who answered the session.
That everything asked for is told (`InvAskedIsTold`) and that what is in order is accepted go
through the DCQL check: `AtOne` and `AtTwo` unfold its loop for the two shapes of path that the
queries of this verifier have, a claim and a namespace with an element. For the second, a
presentation is followed through each check in turn (`InOrderSdJwt`, `InOrderMdoc`): what was
asked for is held (`AskedIsHeld`), revealed (`AskedIsRevealed`), and has its digest
(`ItemsHaveDigests`).

`UrlGuard` needs no invariant but that a verdict follows from the URL; the theorems are the
arithmetic that relates digits to bits. `WhatIsRefused` is exact: over HTTPS the guard refuses
the blocks and what `Mistaken` lists, and nothing else.

### The refinements

A step of the issuer moves one grant by one stage (`Advance`), gives several up (`GiveUp`,
for sweeps, restarts and refusals) or changes no stage. The stage is read off where the
grant is; that this is unambiguous is `SingleUse`. For the verifier a session has a
judgement and a mailbox; `VerifyPresentation` and `StatusArrives` judge, also when the
session was swept while the handler was suspended.

`System` relies on more than the two refinements: an answer of `/token` has to mean that the
grant was exchanged, not just that it moved. `EndpointsKeepToTheirStage` (on `Issuer`) and
`EndpointsTakeTheirStep` (on `Verifier`, whose refinement is proved by way of it) say which
step of the abstract specification each endpoint, suspended handler, timer and fault takes.
`IssuerServes`, `IssuerIssues` and `VerifierServes` of `System` are matched to them one by one.

### Model-checked only

`EveryGrantSettles`, `EverySessionCloses`, `StaleKeyGoes`, `CallEnds`, `EveryAttemptEnds` and
`RetryGetsCredential`: liveness under fairness is beyond the prover. For three of them the half
that needs no fairness is proved, as an action property:

- `CallEnds`: each step of a call leaves it fewer steps, of a number fixed by the limits
  (`EveryStepSpendsCorrect`).
- `EveryAttemptEnds`: no attempt is more than 23 steps from its end; no step takes it further
  away, and every step of the wallet or of a service for it takes it closer
  (`AttemptsOnlyMoveOn`).
- `StaleKeyGoes`: while the issuer does not restart, handlers that hold a stale key only
  become fewer, and the key gets into the cache, or becomes younger there, only through one of
  them (`StaleKeysDwindleCorrect`).

What is left to TLC is that the steps are taken. Every invariant and every action property of
the passing runs is stated by a theorem, and both refinements are.

What `checkDcqlSatisfied` returns for a path of any length is not proved, since that is an
induction over the path; the paths of this verifier have one and two keys.

## 7. What the checks found

- **The status list runs out** (`issuer_list_full`). `nextStatusIdx++` has no bound and the
  list has 1024 entries and does not grow, so from the 1025th issuance on a credential
  carries an index that `/admin/revoke` refuses. `apps/issuer/src/server.ts:331` assigns the entry
  "so it can later be revoked", and `packages/core/src/status-list.ts:26` calls the list "growable".

- **The type in a query is not enforced** (`presentation_type`). POST
  `/presentation/response` checks the claims that a query asks for, and neither
  `vct_values` nor `doctype_value` (`apps/verifier/src/server.ts:237`), so that a credential of
  another type of the same issuer is accepted if its claims have these names.
  `docs/COMPLIANCE.md:138` says "DCQL enforced against response (vct/doctype, required claims)".
  This issuer has one type for each format, so that it takes a second one to see it.
- **Names are taken for addresses** (`url_names`). `isPrivateIPv6` is asked for every host and its
  patterns match a DNS name that begins with `fc`, `fd` or `fe8` to `feb` as well
  (`packages/core/src/http.ts:66`), which the comment at `packages/core/src/http.ts:44` does
  not say. `https://fd...` is refused as a private address. The same patterns match a short
  first group of an IPv6 address (`fc`, `fe8`: leading zeros are not written), which is why
  `PublicIPv4Fetched` is about IPv4 alone. `WhatIsRefused` proves that it is no more than this.

Met while modelling, and true of the models by design:

- A credential whose answer was lost exists at the issuer and in no wallet; nothing asks for
  it again and nothing revokes it (`LostIsLost`).
- The wallet answers any live object of the trusted verifier that is addressed to it, also one
  that was signed for another session than the one asked for (`apps/wallet/src/wallet.ts:137`):
  all wallets of a deployment share one audience, and the 120 seconds of
  `packages/core/src/request-object.ts:20` only limit how long. Two attempts then compete for one
  session. It admits one of them, and the other is told so (`OnlyVerifierAnswered`).
- The wallet presents the first stored credential of a format for good: what it submits after
  a revocation is never valid, and a newer one is of no use until the wallet is restarted
  (`RevokedFirstBlocks`).
- A credential that is revoked after it was submitted may still be found valid, when the status
  list had been served before.
- After a restart of the wallet, or a call that never ends, the buttons of the page stay as
  they were, until the user reloads it (`Stuck`).
- `exp` of a request object is checked when it is there: `jwtVerify` does not insist, though
  `packages/core/src/request-object.ts:55` reads "exp present". The verifier always sets it.
- An SD-JWT is refused from the moment of `exp` on, an mdoc after the moment of `validUntil`.
  The comparison of `exp` in `verifyPresentation` comes after `jwtVerify` has refused already.
  `InOrderIsAccepted` asks for what both accept, the moments before.
- The address blocks of `NoPrivateFetched` are those that the comments of the guard name.
  IPv4-compatible (`::a.b.c.d`) and NAT64 addresses are in neither.
- A grant is lost when `/token` finds the token store full: the code is deleted already and
  the wallet has to start over. `OneTimeGrant` allows it (`GiveUp`).
- A handler of `/presentation/response` that throws leaves a consumed session without a
  result; polling says pending until the sweep. `OneShotSession` allows it (`Fail`).
- After a restart of the issuer, no older credential with a status reference is accepted any
  more, revoked or not: the new list is not signed with the old key.
- A credential without a status reference is accepted until the cached key expires, also
  after its issuer gave up the key: `RevokedNeverAccepted` is about the others.

## 8. What is not modelled

- *Android and iOS wallets*: implementations of their own, for the pre-authorized code flow
  and SD-JWT alone. Their checks on a request and their treatment of error answers differ
  from `wallet.ts`, and the user chooses what to present, so that the results on `Wallet` and
  `System` do not carry over; they would take a module each.
- *Requests before any state is read*: parsing, missing fields. Metadata,
  `/jwks.json` of the issuer and `/admin/issued` change no state.
- *Filling the RP registry*: it is constant after startup.
- *Encodings*: CBOR, COSE, base64url, JWT headers. What the properties distinguish of them is
  that a digest or signature fits one thing.
- *A second tab* of the wallet page, see section 3. *Two trusted verifiers*: the configuration
  has one.
- DNS: the source declares it out of scope of the guard.
- Indices of 2^31 and more, where `idx >> 3` turns negative in `readStatus`: no index that
  this issuer gives out comes near.
- HTML, logging, key generation, hashing, error classes, the demo script, CI: no state of
  their own, or clients whose calls are among the inputs of the models.

## 9. Plan

Done, in this order: issuer, verifier with key resolver, their abstract specifications,
proofs and refinements; status list; safe fetch; the wallet, and its composition with what
the services promise; the presentation formats with the checks of the verifier; the address
classification; proofs about all of them.

Left:

1. The mobile wallets, as variants of `Wallet` with their own `Acceptable` and their own handling
   of error answers.
2. A refinement from `Wallet`, `Issuer` and `Verifier` side by side to `System`. Today the
   composition rests on the proved refinements and on the two theorems about endpoints; that
   the requests `Wallet` sends carry the code, token or nonce of the attempt they are named
   after is by reading.
