------------------------- MODULE PresentationProofs -------------------------
(***************************************************************************)
(* What an accepted presentation tells, and which presentations are        *)
(* accepted, for any number of credentials, sessions and holders, and      *)
(* whatever is garbled on the way.                                         *)
(***************************************************************************)
EXTENDS PresentationInvariant, TLAPS

\* Initially nothing was made.
LEMMA InvInit == Init => Inv
  BY PresentationAssumption DEF Init, Inv, Made, Sent, Judged

\* How a credential and a presentation are made depends on the format alone.
LEMMA MakingIsTheSame ==
    ASSUME UNCHANGED format
    PROVE  /\ \A k, t, cl, c, at : Body(k, t, cl, c, at)' = Body(k, t, cl, c, at)
           /\ \A held, k, o, s, clock :
                 Presented(held, k, o, s, clock)' = Presented(held, k, o, s, clock)
  BY DEF Body, Presented

\* What the issuer made stays so while nothing is issued.
LEMMA MadeStays ==
    ASSUME Inv, UNCHANGED <<format, issued>>, now' \in Nat, now <= now'
    PROVE  Made'
  <1>1. now \in Nat /\ (0 .. now) \subseteq (0 .. now')
    BY PresentationAssumption DEF Inv
  <1>2. SUFFICES ASSUME NEW d \in Credentials, issued[d] # Absent
                 PROVE  \E k \in HolderKeys, t \in Types, cl \in [Names -> Values], at \in 0 .. now' :
                            issued[d] = [key |-> k, type |-> t, claims |-> cl, at |-> at,
                                         body |-> Body(k, t, cl, d, at)']
    BY DEF Made
  <1>3. PICK k \in HolderKeys, t \in Types, cl \in [Names -> Values], at \in 0 .. now :
            issued[d] = [key |-> k, type |-> t, claims |-> cl, at |-> at,
                         body |-> Body(k, t, cl, d, at)]
    BY <1>2 DEF Inv, Made
  <1>4. at \in 0 .. now' /\ Body(k, t, cl, d, at)' = Body(k, t, cl, d, at)
    BY <1>1, MakingIsTheSame
  <1> QED
    BY <1>3, <1>4, Zenon

\* A credential that is issued is made by the issuer; the others are as they were.
LEMMA IssueKeepsInv ==
    ASSUME Inv, NEW c \in Credentials, Issue(c)
    PROVE  Inv'
  <1>1. PICK key \in HolderKeys, type \in Types, age \in {Scalar("false"), Null} :
            LET claims == [n \in Names |-> IF n = "age_over_18" THEN age ELSE Scalar(n)]
            IN  issued' = [issued EXCEPT ![c] =
                    [key |-> key, type |-> type, claims |-> claims, at |-> now,
                     body |-> Body(key, type, claims, c, now)]]
    BY DEF Issue, Body
  <1> DEFINE claims == [n \in Names |-> IF n = "age_over_18" THEN age ELSE Scalar(n)]
             new == [key |-> key, type |-> type, claims |-> claims, at |-> now,
                     body |-> Body(key, type, claims, c, now)]
  <1>2. claims \in [Names -> Values]
    BY DEF Values, Names
  <1>3. /\ issued' = [issued EXCEPT ![c] = new] /\ issued[c] = Absent
        /\ verdict' = Absent /\ UNCHANGED <<now, format, sent>>
    BY <1>1 DEF Issue
  <1>4. PICK k \in HolderKeys, t \in Types, cl \in [Names -> Values] :
            new = [key |-> k, type |-> t, claims |-> cl, at |-> now,
                   body |-> Body(k, t, cl, c, now)]
    BY <1>2
  <1> HIDE DEF claims, new
  <1>5. now \in 0 .. MaxTime /\ now \in 0 .. now
    BY PresentationAssumption DEF Inv
  <1>6. issued' = [d \in Credentials |-> IF d = c THEN new ELSE issued[d]]
    BY <1>3 DEF Inv
  <1>7. Made'
    <2> SUFFICES ASSUME NEW d \in Credentials, issued'[d] # Absent
                 PROVE  \E key_1 \in HolderKeys, type_1 \in Types, cl_1 \in [Names -> Values],
                           at_1 \in 0 .. now' :
                            issued'[d] = [key |-> key_1, type |-> type_1, claims |-> cl_1,
                                          at |-> at_1, body |-> Body(key_1, type_1, cl_1, d, at_1)']
      BY DEF Made
    <2>1. \A k1, t1, cl1, d1, at1 : Body(k1, t1, cl1, d1, at1)' = Body(k1, t1, cl1, d1, at1)
      BY <1>3 DEF Body
    <2>2. CASE d = c
      <3>1. issued'[c] = new
        BY <1>6
      <3> QED
        BY <1>3, <1>4, <1>5, <2>1, <2>2, <3>1, Zenon
    <2>3. CASE d # c
      <3>1. issued'[d] = issued[d]
        BY <1>6, <2>3
      <3>2. \E k1 \in HolderKeys, t1 \in Types, cl1 \in [Names -> Values], at1 \in 0 .. now :
                issued[d] = [key |-> k1, type |-> t1, claims |-> cl1, at |-> at1,
                             body |-> Body(k1, t1, cl1, d, at1)]
        BY <3>1 DEF Inv, Made
      <3> QED
        BY <1>3, <2>1, <3>1, <3>2, Zenon
    <2> QED
      BY <2>2, <2>3
  <1>8. Sent'
    <2> SUFFICES ASSUME NEW s \in Sessions, sent'[s] # Absent
                 PROVE  (\E d \in Credentials, override \in Overrides \cup {Absent}, clock \in Nat :
                            /\ issued[d] # Absent
                            /\ sent[s] = [credential |-> d, override |-> override, clock |-> clock,
                                  body |-> Presented(issued[d].body, issued[d].key, override, s,
                                                     clock)])'
      BY DEF Sent
    <2>1. PICK d \in Credentials, override \in Overrides \cup {Absent}, clock \in Nat :
              /\ issued[d] # Absent
              /\ sent[s] = [credential |-> d, override |-> override, clock |-> clock,
                            body |-> Presented(issued[d].body, issued[d].key, override, s, clock)]
      BY <1>3 DEF Inv, Sent
    <2>2. issued'[d] = issued[d]
      BY <1>3, <1>6, <2>1
    <2> QED
      BY <1>3, <2>1, <2>2 DEF Presented
  <1> QED
    BY <1>3, <1>5, <1>6, <1>7, <1>8 DEF Inv, Judged

\* What is sent for a session is made of an issued credential; the rest is as it was.
LEMMA PresentKeepsInv ==
    ASSUME Inv, NEW s \in Sessions, NEW c \in Credentials, Present(s, c)
    PROVE  Inv'
  <1>1. PICK override \in Overrides \cup {Absent}, drift \in Drifts :
            sent' = [sent EXCEPT ![s] =
                [credential |-> c, override |-> override, clock |-> now + drift,
                 body |-> Presented(issued[c].body, issued[c].key, override, s, now + drift)]]
    BY DEF Present, Presented
  <1> DEFINE clock == now + drift
             new == [credential |-> c, override |-> override, clock |-> clock,
                     body |-> Presented(issued[c].body, issued[c].key, override, s, clock)]
  <1>2. /\ sent' = [sent EXCEPT ![s] = new] /\ issued[c] # Absent
        /\ verdict' = Absent /\ UNCHANGED <<now, format, issued>>
    BY <1>1 DEF Present
  <1>3. now \in 0 .. MaxTime /\ now \in Nat /\ clock \in Nat
    BY PresentationAssumption DEF Inv
  <1>4. PICK t \in Nat :
            new = [credential |-> c, override |-> override, clock |-> t,
                   body |-> Presented(issued[c].body, issued[c].key, override, s, t)]
    BY <1>3
  <1> HIDE DEF clock, new
  <1>5. sent' = [t_1 \in Sessions |-> IF t_1 = s THEN new ELSE sent[t_1]]
    BY <1>2 DEF Inv
  <1>6. Made'
    BY <1>2, <1>3, MadeStays
  <1>7. Sent'
    <2> SUFFICES ASSUME NEW r \in Sessions, sent'[r] # Absent
                 PROVE  (\E d \in Credentials, o \in Overrides \cup {Absent}, cl \in Nat :
                            /\ issued[d] # Absent
                            /\ sent[r] = [credential |-> d, override |-> o, clock |-> cl,
                                  body |-> Presented(issued[d].body, issued[d].key, o, r, cl)])'
      BY DEF Sent
    <2>1. CASE r = s
      <3>1. sent'[r] = new
        BY <1>5, <2>1
      <3>2. issued'[c] # Absent
        BY <1>2
      <3>3. sent'[r] = [credential |-> c, override |-> override, clock |-> t,
                body |-> Presented(issued[c].body, issued[c].key, override, r, t)]
        BY <1>4, <2>1, <3>1
      <3> QED
        BY <1>2, <3>2, <3>3 DEF Presented
    <2>2. CASE r # s
      <3>1. sent'[r] = sent[r]
        BY <1>5, <2>2
      <3>2. PICK d \in Credentials, o \in Overrides \cup {Absent}, cl \in Nat :
              /\ issued[d] # Absent
              /\ sent[r] = [credential |-> d, override |-> o, clock |-> cl,
                            body |-> Presented(issued[d].body, issued[d].key, o, r, cl)]
        BY <3>1 DEF Inv, Sent
      <3> QED
        BY <1>2, <3>1, <3>2 DEF Presented
    <2> QED
      BY <2>1, <2>2
  <1> QED
    BY <1>2, <1>3, <1>5, <1>6, <1>7 DEF Inv, Judged

\* What is sent stays as it was made when nothing that it was made of changes.
LEMMA SentStays ==
    ASSUME Sent, UNCHANGED <<format, issued, sent>>
    PROVE  Sent'
  <1> SUFFICES ASSUME NEW r \in Sessions, sent'[r] # Absent
               PROVE  (\E d \in Credentials, o \in Overrides \cup {Absent}, cl \in Nat :
                          /\ issued[d] # Absent
                          /\ sent[r] = [credential |-> d, override |-> o, clock |-> cl,
                                body |-> Presented(issued[d].body, issued[d].key, o, r, cl)])'
    BY DEF Sent
  <1>1. PICK d \in Credentials, o \in Overrides \cup {Absent}, cl \in Nat :
          /\ issued[d] # Absent
          /\ sent[r] = [credential |-> d, override |-> o, clock |-> cl,
                        body |-> Presented(issued[d].body, issued[d].key, o, r, cl)]
    BY DEF Sent
  <1> QED
    BY <1>1 DEF Presented

\* What may arrive depends on what was sent.
LEMMA ArrivesTheSame ==
    ASSUME UNCHANGED sent
    PROVE  GarbledMdocs' = GarbledMdocs /\ GarbledSdJwts' = GarbledSdJwts
  <1>1. Bodies' = Bodies
    BY DEF Bodies
  <1>2. \A parts : Mixed(parts)' = Mixed(parts)
    BY <1>1 DEF Mixed
  <1>3. \A items : MixedItems(items)' = MixedItems(items)
    BY <1>1 DEF MixedItems
  <1> QED
    BY <1>1 DEF GarbledMdocs, GarbledSdJwts, Mixed, MixedItems

\* A verdict is on what may arrive.
LEMMA RespondKeepsInv ==
    ASSUME Inv, NEW s \in Sessions, Respond(s)
    PROVE  Inv'
  <1>1. UNCHANGED <<now, format, issued, sent>>
    BY DEF Respond
  <1>2. now \in 0 .. MaxTime /\ now \in Nat
    BY PresentationAssumption DEF Inv
  <1>3. Made' /\ Sent'
    BY <1>1, <1>2, MadeStays, SentStays DEF Inv
  <1>4. Judged'
    <2>1. PICK body \in IF format = "mso_mdoc" THEN GarbledMdocs ELSE GarbledSdJwts :
              verdict' = [session |-> s, body |-> body,
                          valid |-> Verifies(s, body) /\ Satisfies(body)]
      BY DEF Respond
    <2>2. body \in (IF format = "mso_mdoc" THEN GarbledMdocs ELSE GarbledSdJwts)'
      BY <1>1, ArrivesTheSame
    <2>3. Verifies(s, body)' <=> Verifies(s, body)
      BY <1>1 DEF Verifies
    <2>4. Satisfies(body)' <=> Satisfies(body)
      BY <1>1 DEF Satisfies, Claims
    <2> QED
      BY <2>1, <2>2, <2>3, <2>4 DEF Judged
  <1> QED
    BY <1>1, <1>2, <1>3, <1>4 DEF Inv

\* As time passes only the verdict is forgotten.
LEMMA TickKeepsInv ==
    ASSUME Inv, Tick
    PROVE  Inv'
  <1>1. now \in Nat /\ now' = now + 1 /\ now' \in 0 .. MaxTime
    BY PresentationAssumption DEF Inv, Tick
  <1>2. Made' /\ Sent'
    BY <1>1, MadeStays, SentStays DEF Inv, Tick
  <1> QED
    BY <1>1, <1>2 DEF Inv, Judged, Tick

\* The invariant holds in every state.
THEOREM Invariance == Spec => []Inv
  <1>1. Inv /\ [Next]_vars => Inv'
    <2> SUFFICES ASSUME Inv, [Next]_vars
                 PROVE  Inv'
      OBVIOUS
    <2>1. ASSUME NEW c \in Credentials, Issue(c)
          PROVE  Inv'
      BY <2>1, IssueKeepsInv
    <2>2. ASSUME NEW s \in Sessions, NEW c \in Credentials, Present(s, c)
          PROVE  Inv'
      BY <2>2, PresentKeepsInv
    <2>3. ASSUME NEW s \in Sessions, Respond(s)
          PROVE  Inv'
      BY <2>3, RespondKeepsInv
    <2>4. CASE Tick
      BY <2>4, TickKeepsInv
    <2>5. CASE UNCHANGED vars
      <3>1. UNCHANGED <<now, format, issued, sent, verdict>>
        BY <2>5 DEF vars
      <3>2. now \in 0 .. MaxTime /\ now \in Nat
        BY PresentationAssumption DEF Inv
      <3>3. Made' /\ Sent'
        BY <3>1, <3>2, MadeStays, SentStays DEF Inv
      <3>4. Judged'
        <4>1. CASE verdict = Absent
          BY <3>1, <4>1 DEF Judged
        <4>2. CASE verdict # Absent
          <5>1. PICK s \in Sessions, body \in IF format = "mso_mdoc" THEN GarbledMdocs
                                                                  ELSE GarbledSdJwts :
                    verdict = [session |-> s, body |-> body,
                               valid |-> Verifies(s, body) /\ Satisfies(body)]
            BY <4>2 DEF Inv, Judged
          <5>2. body \in (IF format = "mso_mdoc" THEN GarbledMdocs ELSE GarbledSdJwts)'
            BY <3>1, ArrivesTheSame
          <5>3. Verifies(s, body)' <=> Verifies(s, body)
            BY <3>1 DEF Verifies
          <5>4. Satisfies(body)' <=> Satisfies(body)
            BY <3>1 DEF Satisfies, Claims
          <5> QED
            BY <3>1, <5>1, <5>2, <5>3, <5>4 DEF Judged
        <4> QED
          BY <4>1, <4>2
      <3> QED
        BY <3>1, <3>2, <3>3, <3>4 DEF Inv
    <2> QED
      BY <2>1, <2>2, <2>3, <2>4, <2>5 DEF Next
  <1> QED
    BY InvInit, <1>1, PTL DEF Spec
-----------------------------------------------------------------------------
\* What is left of an mdoc was in it and was to be revealed.
LEMMA FilteredIsHeld ==
    ASSUME NEW held, NEW reveal, NEW ns \in DOMAIN Filtered(held, reveal)
    PROVE  /\ Filtered(held, reveal)[ns] # {} /\ ns \in DOMAIN held.nameSpaces
           /\ \A it \in Filtered(held, reveal)[ns] :
                 it \in held.nameSpaces[ns] /\ <<ns, it.element>> \in reveal
  BY DEF Filtered, Kept

\* The invariant implies the type invariant.
LEMMA InvTypeOK == Inv => TypeOK
  <1> SUFFICES ASSUME Inv
               PROVE  TypeOK
    OBVIOUS
  <1>1. ASSUME NEW c \in Credentials, issued[c] # Absent
        PROVE  /\ issued[c].key \in HolderKeys /\ issued[c].type \in Types
               /\ issued[c].claims \in [Names -> Values] /\ issued[c].at \in 0 .. now
    <2>1. PICK k \in HolderKeys, t \in Types, cl \in [Names -> Values], at \in 0 .. now :
              issued[c] = [key |-> k, type |-> t, claims |-> cl, at |-> at,
                           body |-> Body(k, t, cl, c, at)]
      BY <1>1 DEF Inv, Made
    <2> QED
      BY <2>1
  <1>2. ASSUME NEW s \in Sessions, sent[s] # Absent
        PROVE  /\ sent[s].credential \in Credentials /\ issued[sent[s].credential] # Absent
               /\ sent[s].override \in Overrides \cup {Absent}
               /\ sent[s].clock \in Nat
               /\ format = "mso_mdoc" =>
                     \A ns \in DOMAIN sent[s].body.nameSpaces : sent[s].body.nameSpaces[ns] # {}
    <2>1. PICK c \in Credentials, o \in Overrides \cup {Absent}, cl \in Nat :
              /\ issued[c] # Absent
              /\ sent[s] = [credential |-> c, override |-> o, clock |-> cl,
                            body |-> Presented(issued[c].body, issued[c].key, o, s, cl)]
      BY <1>2 DEF Inv, Sent
    <2>2. ASSUME format = "mso_mdoc", NEW ns \in DOMAIN sent[s].body.nameSpaces
          PROVE  sent[s].body.nameSpaces[ns] # {}
      <3>1. sent[s].body.nameSpaces = Filtered(issued[c].body, Reveal(o))
        BY <2>1, <2>2 DEF Presented, CreateMdocPresentation
      <3> QED
        BY <2>2, <3>1, FilteredIsHeld
    <2> QED
      BY <2>1, <2>2
  <1>3. verdict # Absent => verdict.session \in Sessions /\ verdict.valid \in BOOLEAN
    <2> SUFFICES ASSUME verdict # Absent
                 PROVE  verdict.session \in Sessions /\ verdict.valid \in BOOLEAN
      OBVIOUS
    <2>1. PICK s \in Sessions, body \in IF format = "mso_mdoc" THEN GarbledMdocs
                                                          ELSE GarbledSdJwts :
              verdict = [session |-> s, body |-> body,
                         valid |-> Verifies(s, body) /\ Satisfies(body)]
      BY DEF Inv, Judged
    <2>2. verdict.session = s /\ verdict.valid = (Verifies(s, body) /\ Satisfies(body))
      BY <2>1, Zenon
    <2>3. (Verifies(s, body) /\ Satisfies(body)) \in BOOLEAN
      OBVIOUS
    <2> QED
      BY <2>2, <2>3
  <1> QED
    BY <1>1, <1>2, <1>3 DEF Inv, TypeOK

\* The type invariant holds in every state: what is issued and sent is well-formed, and
\* no mdoc that is sent has an empty namespace (mdoc.ts:206-222).
THEOREM TypeCorrect == Spec => []TypeOK
  BY InvTypeOK, Invariance, PTL
-----------------------------------------------------------------------------
\* A verdict is on something that may arrive, and follows from it.
LEMMA WasJudged ==
    ASSUME Inv, verdict # Absent
    PROVE  /\ verdict.session \in Sessions
           /\ verdict.body \in IF format = "mso_mdoc" THEN GarbledMdocs ELSE GarbledSdJwts
           /\ verdict.valid
                 <=> Verifies(verdict.session, verdict.body) /\ Satisfies(verdict.body)
  <1>1. PICK s \in Sessions, body \in IF format = "mso_mdoc" THEN GarbledMdocs
                                                        ELSE GarbledSdJwts :
            verdict = [session |-> s, body |-> body,
                       valid |-> Verifies(s, body) /\ Satisfies(body)]
    BY DEF Inv, Judged
  <1>2. verdict.session = s /\ verdict.body = body
            /\ verdict.valid = (Verifies(s, body) /\ Satisfies(body))
    BY <1>1, Zenon
  <1> QED
    BY <1>2

\* What was verified when a verdict is positive.
LEMMA AcceptedWasVerified ==
    ASSUME Inv, Accepted
    PROVE  /\ verdict.session \in Sessions
           /\ Verifies(verdict.session, verdict.body) /\ Satisfies(verdict.body)
           /\ verdict.body \in IF format = "mso_mdoc" THEN GarbledMdocs ELSE GarbledSdJwts
  BY WasJudged DEF Accepted

\* What was sent for a session in the SD-JWT format.
LEMMA SentSdJwt ==
    ASSUME Inv, format = "dc+sd-jwt", NEW s \in Sessions, sent[s] # Absent
    PROVE  \E c \in Credentials, o \in Overrides \cup {Absent}, cl \in Nat :
               /\ issued[c] # Absent /\ sent[s].credential = c /\ sent[s].override = o
               /\ sent[s].body =
                     CreatePresentation(issued[c].body, issued[c].key, ToReveal(o), VerifierUrl, s, cl)
  BY DEF Inv, Sent, Presented

\* What was sent for a session as an mdoc.
LEMMA SentMdoc ==
    ASSUME Inv, format = "mso_mdoc", NEW s \in Sessions, sent[s] # Absent
    PROVE  \E c \in Credentials, o \in Overrides \cup {Absent} :
               /\ issued[c] # Absent /\ sent[s].credential = c /\ sent[s].override = o
               /\ sent[s].body =
                     CreateMdocPresentation(issued[c].body, issued[c].key, Reveal(o), VerifierUrl, s)
  BY DEF Inv, Sent, Presented

\* An SD-JWT that is accepted is what the holder made for this session: the nonce of the
\* Key Binding JWT picks the session, and its sd_hash the rest.
LEMMA SdJwtAsMade ==
    ASSUME Inv, Accepted, format = "dc+sd-jwt"
    PROVE  /\ verdict.session \in Sessions /\ sent[verdict.session] # Absent
           /\ verdict.body = sent[verdict.session].body
  <1> DEFINE s == verdict.session
             p == verdict.body
  <1>1. s \in Sessions /\ p \in GarbledSdJwts
            /\ VerifyPresentation(p, IssuerKey, VerifierUrl, s, now)
    BY AcceptedWasVerified DEF Verifies
  <1> DEFINE Ds == UNION {Mixed(b.disclosures) : b \in Bodies}
             Ks == {b.kb : b \in Bodies} \cup {{}}
             Garbled == {[jws |-> a.jws, disclosures |-> ds, kb |-> k] :
                            a \in Bodies, ds \in Ds, k \in Ks}
  <1>2. PICK a \in Bodies, ds \in Ds, k \in Ks :
            p = [jws |-> a.jws, disclosures |-> ds, kb |-> k]
    <2>1. p \in Garbled
      BY <1>1 DEF GarbledSdJwts
    <2> HIDE DEF p, s, Ds, Ks
    <2> QED
      BY <2>1
  <1> HIDE DEF Ds, Garbled
  <1>3. PICK kb \in p.kb : kb.nonce = s /\ kb.sd_hash = <<p.jws, p.disclosures>>
    BY <1>1 DEF VerifyPresentation, KeyBound
  <1>4. PICK t \in Sessions : sent[t] # Absent /\ p.kb = sent[t].body.kb
    BY <1>2, <1>3 DEF Bodies
  <1>5. PICK c \in Credentials, o \in Overrides \cup {Absent}, cl \in Nat :
            /\ issued[c] # Absent
            /\ sent[t].body =
                 CreatePresentation(issued[c].body, issued[c].key, ToReveal(o), VerifierUrl, t, cl)
    BY <1>4, SentSdJwt
  <1> DEFINE kept == {d \in issued[c].body.disclosures : d.name \in ToReveal(o)}
             bound == [key |-> issued[c].key, iat |-> cl, nonce |-> t, aud |-> VerifierUrl,
                       sd_hash |-> <<issued[c].body.jws, kept>>]
  <1>6. sent[t].body = [jws |-> issued[c].body.jws, disclosures |-> kept, kb |-> {bound}]
    BY <1>5 DEF CreatePresentation
  <1>7. bound.nonce = t /\ bound.sd_hash = <<issued[c].body.jws, kept>>
    OBVIOUS
  <1> HIDE DEF kept, bound
  <1>8. kb = bound
    BY <1>3, <1>4, <1>6
  <1>9. t = s /\ <<p.jws, p.disclosures>> = <<issued[c].body.jws, kept>>
    BY <1>3, <1>7, <1>8
  <1>10. p.jws = issued[c].body.jws /\ p.disclosures = kept
    BY <1>9
  <1>11. p = [jws |-> p.jws, disclosures |-> p.disclosures, kb |-> p.kb]
    BY <1>2
  <1>12. p = sent[t].body
    BY <1>4, <1>6, <1>10, <1>11
  <1> QED
    BY <1>1, <1>4, <1>9, <1>12

\* Every disclosure that arrives is one that was sent.
LEMMA DisclosuresWereSent ==
    ASSUME NEW body \in GarbledSdJwts, NEW d \in body.disclosures
    PROVE  \E s \in Sessions : sent[s] # Absent /\ d \in sent[s].body.disclosures
  <1> DEFINE Ds == UNION {Mixed(b.disclosures) : b \in Bodies}
             Ks == {b.kb : b \in Bodies} \cup {{}}
             Garbled == {[jws |-> a.jws, disclosures |-> ds, kb |-> k] :
                            a \in Bodies, ds \in Ds, k \in Ks}
  <1>1. body \in Garbled
    BY DEF GarbledSdJwts
  <1>2. body.disclosures \in Ds
    <2> HIDE DEF Ds, Ks
    <2> QED
      BY <1>1
  <1>3. PICK b \in Bodies : body.disclosures \in Mixed(b.disclosures)
    BY <1>2
  <1>4. \E e \in Bodies : d \in e.disclosures
    BY <1>3 DEF Mixed
  <1> QED
    BY <1>4 DEF Bodies

\* Every item of an mdoc that arrives is one that was sent.
LEMMA ItemsWereSent ==
    ASSUME NEW body \in GarbledMdocs, NEW ns \in DOMAIN body.nameSpaces,
           NEW it \in body.nameSpaces[ns]
    PROVE  \E s \in Sessions : sent[s] # Absent /\
               \E n \in DOMAIN sent[s].body.nameSpaces : it \in sent[s].body.nameSpaces[n]
  <1>1. PICK b \in Bodies : body.nameSpaces \in MixedItems(b.nameSpaces)
    BY DEF GarbledMdocs
  <1>2. \E d \in Bodies : \E n \in DOMAIN d.nameSpaces : it \in d.nameSpaces[n]
    BY <1>1 DEF MixedItems
  <1> QED
    BY <1>2 DEF Bodies

\* What a presentation reveals is what was asked for, or chosen in its place.
LEMMA RevealedIsAskedOrChosen ==
    ASSUME NEW o
    PROVE  /\ \A n \in ToReveal(o) : n \in REQUESTED_ATTRS \/ (o # Absent /\ n \in o)
           /\ \A ns, n : <<ns, n>> \in Reveal(o) => n \in REQUESTED_ATTRS
  <1>1. \A path \in DcqlClaims : path[Len(path)] \in REQUESTED_ATTRS
    BY DEF DcqlClaims, REQUESTED_ATTRS
  <1>2. \A ns, n : <<ns, n>> \in DcqlMdlClaims => n \in REQUESTED_ATTRS
    BY DEF DcqlMdlClaims, REQUESTED_ATTRS
  <1>3. \A n \in ToReveal(o) : n \in REQUESTED_ATTRS \/ (o # Absent /\ n \in o)
    BY <1>1 DEF ToReveal
  <1>4. \A ns, n : <<ns, n>> \in Reveal(o) => <<ns, n>> \in DcqlMdlClaims
    BY DEF Reveal
  <1> QED
    BY <1>2, <1>3, <1>4

\* The verifier registered for what it asks.
LEMMA Registered == RpRegistry[VerifierUrl] = REQUESTED_ATTRS
  BY DEF RpRegistry

\* The invariant implies that an accepted presentation is as made.
LEMMA InvAcceptedAsMade == Inv => AcceptedAsMade
  <1> DEFINE MadeBy(s, told) ==
                 /\ sent[s] # Absent /\ told \in Told(sent[s].body)
                 /\ \/ told[1] \in RpRegistry[VerifierUrl]
                    \/ format = "dc+sd-jwt" /\ sent[s].override # Absent
                          /\ told[1] \in sent[s].override
  <1>1. ASSUME Inv, Accepted, format = "dc+sd-jwt"
        PROVE  verdict.body = sent[verdict.session].body
    BY <1>1, SdJwtAsMade
  <1>2. ASSUME Inv, verdict # Absent, NEW told \in Told(verdict.body)
        PROVE  \E s \in Sessions : MadeBy(s, told)
    <2>1. CASE format = "dc+sd-jwt"
      <3>1. verdict.body \in GarbledSdJwts
        BY <1>2, <2>1, WasJudged
      <3>2. PICK d \in verdict.body.disclosures : told = <<d.name, d.value>>
        BY <1>2, <2>1 DEF Told
      <3>3. PICK s \in Sessions : sent[s] # Absent /\ d \in sent[s].body.disclosures
        BY <3>1, <3>2, DisclosuresWereSent
      <3>4. PICK c \in Credentials, o \in Overrides \cup {Absent}, cl \in Nat :
                /\ issued[c] # Absent /\ sent[s].credential = c /\ sent[s].override = o
                /\ sent[s].body = CreatePresentation(issued[c].body, issued[c].key, ToReveal(o),
                                                     VerifierUrl, s, cl)
        BY <1>2, <2>1, <3>3, SentSdJwt
      <3>5. sent[s].body.disclosures
                = {e \in issued[c].body.disclosures : e.name \in ToReveal(o)}
        BY <3>4 DEF CreatePresentation
      <3>6. told[1] = d.name /\ d.name \in ToReveal(o)
        BY <3>2, <3>3, <3>5
      <3>7. told \in Told(sent[s].body)
        BY <2>1, <3>2, <3>3 DEF Told
      <3> QED
        BY <2>1, <3>3, <3>4, <3>6, <3>7, RevealedIsAskedOrChosen, Registered
    <2>2. CASE format = "mso_mdoc"
      <3>1. verdict.body \in GarbledMdocs
        BY <1>2, <2>2, WasJudged
      <3>2. PICK ns \in DOMAIN verdict.body.nameSpaces :
                \E it_1 \in verdict.body.nameSpaces[ns] : told = <<it_1.element, it_1.value>>
        BY <1>2, <2>2 DEF Told
      <3> PICK it \in verdict.body.nameSpaces[ns] : told = <<it.element, it.value>>
        BY <3>2
      <3>3. PICK s \in Sessions : sent[s] # Absent /\
                \E n \in DOMAIN sent[s].body.nameSpaces : it \in sent[s].body.nameSpaces[n]
        BY <3>1, <3>2, ItemsWereSent
      <3>4. PICK n \in DOMAIN sent[s].body.nameSpaces : it \in sent[s].body.nameSpaces[n]
        BY <3>3
      <3>5. PICK c \in Credentials, o \in Overrides \cup {Absent} :
                sent[s].body = CreateMdocPresentation(issued[c].body, issued[c].key, Reveal(o),
                                                      VerifierUrl, s)
        BY <1>2, <2>2, <3>3, SentMdoc
      <3>6. sent[s].body.nameSpaces = Filtered(issued[c].body, Reveal(o))
        BY <3>5 DEF CreateMdocPresentation
      <3>7. <<n, it.element>> \in Reveal(o)
        BY <3>4, <3>6, FilteredIsHeld
      <3>8. told[1] \in RpRegistry[VerifierUrl]
        BY <3>2, <3>7, RevealedIsAskedOrChosen, Registered
      <3>9. told \in Told(sent[s].body)
        BY <2>2, <3>2, <3>4 DEF Told
      <3> QED
        BY <3>3, <3>8, <3>9
    <2> QED
      BY <1>2, <2>1, <2>2 DEF Inv
  <1> QED
    BY <1>1, <1>2 DEF AcceptedAsMade

\* An accepted SD-JWT is what the holder made for this session, and every item of an
\* accepted mdoc one that a holder revealed; accepted or not, nothing that arrives tells
\* more than what the verifier registered for and, in an SD-JWT, what the user chose
\* (sd-jwt.ts:186-193, mdoc.ts:206-222, rp-registry.ts:46-60).
THEOREM WhatIsAcceptedWasMade == Spec => []AcceptedAsMade
  BY InvAcceptedAsMade, Invariance, PTL
-----------------------------------------------------------------------------
\* An issued mdoc has under each digest the element with the value of the claims.
LEMMA DigestsAreOfClaims ==
    ASSUME NEW key, NEW type, NEW claims, NEW salt, NEW at, NEW ns, NEW it,
           InDigests(IssueMdoc(IssuerKey, key, type, Elements(claims), salt, at,
                               ExpiresIn).issuerAuth, ns, it)
    PROVE  claims[it.element] = it.value
  <1> DEFINE elements == Elements(claims)
             Item(i) == [digestID |-> i - 1, random |-> salt, element |-> elements[i].element,
                         value |-> elements[i].value]
             In(n) == {i \in DOMAIN elements : elements[i].ns = n}
             spaces == {elements[i].ns : i \in DOMAIN elements}
             Digests(n) == [id \in {i - 1 : i \in In(n)} |-> Item(id + 1)]
             mso == IssueMdoc(IssuerKey, key, type, elements, salt, at, ExpiresIn).issuerAuth
  <1>1. mso.valueDigests = [n \in spaces |-> Digests(n)]
    BY DEF IssueMdoc
  <1>2. ns \in spaces /\ it.digestID \in DOMAIN mso.valueDigests[ns]
            /\ mso.valueDigests[ns][it.digestID] = it
    BY <1>1 DEF InDigests
  <1> HIDE DEF mso, spaces
  <1>3. mso.valueDigests[ns] = Digests(ns)
    BY <1>1, <1>2
  <1>4. it.digestID \in {i - 1 : i \in In(ns)} /\ it = Item(it.digestID + 1)
    BY <1>2, <1>3
  <1>5. DOMAIN elements = 1 .. 3
    BY DEF Elements
  <1>6. PICK i \in DOMAIN elements : it.digestID = i - 1
    BY <1>4
  <1>7. it.digestID + 1 = i
    BY <1>5, <1>6
  <1>8. it.element = elements[i].element /\ it.value = elements[i].value
    BY <1>4, <1>7
  <1>9. i = 1 \/ i = 2 \/ i = 3
    BY <1>5, <1>6
  <1> QED
    BY <1>8, <1>9 DEF Elements

\* The invariant implies that what is told is vouched for.
LEMMA InvToldIsVouchedFor == Inv => ToldIsVouchedFor
  <1> SUFFICES ASSUME Inv, Accepted
               PROVE  sent[verdict.session] # Absent /\ \E c \in Credentials : Vouched(c)
    BY DEF ToldIsVouchedFor
  <1> DEFINE s == verdict.session
             p == verdict.body
  <1>1. CASE format = "dc+sd-jwt"
    <2>1. s \in Sessions /\ sent[s] # Absent /\ p = sent[s].body
      BY <1>1, SdJwtAsMade
    <2>2. PICK c \in Credentials, o \in Overrides \cup {Absent}, cl \in Nat :
              /\ issued[c] # Absent /\ sent[s].credential = c
              /\ p = CreatePresentation(issued[c].body, issued[c].key, ToReveal(o), VerifierUrl,
                                        s, cl)
      BY <1>1, <2>1, SentSdJwt
    <2>3. PICK k \in HolderKeys, t \in Types, claims \in [Names -> Values], at \in 0 .. now :
              issued[c] = [key |-> k, type |-> t, claims |-> claims, at |-> at,
                           body |-> Body(k, t, claims, c, at)]
      BY <2>2 DEF Inv, Made
    <2>4. issued[c].body = IssueSdJwtVc(IssuerKey, k, t, claims, c, at, ExpiresIn)
      BY <1>1, <2>3 DEF Body
    <2>5. p.disclosures \subseteq issued[c].body.disclosures /\ p.jws = issued[c].body.jws
      BY <2>2 DEF CreatePresentation
    <2>6. p.disclosures \subseteq
              {[salt |-> c, name |-> n, value |-> claims[n]] : n \in DOMAIN claims}
      BY <2>4, <2>5 DEF IssueSdJwtVc
    <2>7. ASSUME NEW told \in Told(p)
          PROVE  issued[c].claims[told[1]] = told[2]
      <3>1. PICK d \in p.disclosures : told = <<d.name, d.value>>
        BY <1>1, <2>7 DEF Told
      <3>2. PICK n \in DOMAIN claims : d = [salt |-> c, name |-> n, value |-> claims[n]]
        BY <2>6, <3>1
      <3> QED
        BY <2>3, <3>1, <3>2
    <2>8. now <= issued[c].at + ExpiresIn
      <3>1. now < p.jws.exp
        BY <1>1, AcceptedWasVerified DEF Verifies, VerifyPresentation, JwsVerifies
      <3>2. p.jws.exp = at + ExpiresIn
        BY <2>4, <2>5 DEF IssueSdJwtVc
      <3>3. now \in Nat /\ at \in Nat /\ ExpiresIn \in Nat
        BY PresentationAssumption DEF Inv
      <3> QED
        BY <2>3, <3>1, <3>2, <3>3
    <2> QED
      BY <2>1, <2>2, <2>7, <2>8 DEF Vouched
  <1>2. CASE format = "mso_mdoc"
    <2>1. s \in Sessions /\ p \in GarbledMdocs
              /\ VerifyMdocPresentation(p, IssuerKey, VerifierUrl, s, now)
      BY <1>2, AcceptedWasVerified DEF Verifies
    <2>2. PICK a \in Bodies, b \in Bodies :
              p.issuerAuth = a.issuerAuth /\ p.deviceAuth = b.deviceAuth
      BY <2>1 DEF GarbledMdocs
    <2>3. PICK r \in Sessions, u \in Sessions :
              /\ sent[r] # Absent /\ sent[u] # Absent
              /\ p.issuerAuth = sent[r].body.issuerAuth /\ p.deviceAuth = sent[u].body.deviceAuth
      BY <2>2 DEF Bodies
    <2>4. PICK c \in Credentials, o \in Overrides \cup {Absent} :
              /\ issued[c] # Absent
              /\ sent[r].body = CreateMdocPresentation(issued[c].body, issued[c].key, Reveal(o),
                                                       VerifierUrl, r)
      BY <1>2, <2>3, SentMdoc
    <2>5. PICK d \in Credentials, q \in Overrides \cup {Absent} :
              /\ issued[d] # Absent /\ sent[u].credential = d
              /\ sent[u].body = CreateMdocPresentation(issued[d].body, issued[d].key, Reveal(q),
                                                       VerifierUrl, u)
      BY <1>2, <2>3, SentMdoc
    <2>6. PICK k \in HolderKeys, t \in Types, claims \in [Names -> Values], at \in 0 .. now :
              issued[c] = [key |-> k, type |-> t, claims |-> claims, at |-> at,
                           body |-> Body(k, t, claims, c, at)]
      BY <2>4 DEF Inv, Made
    <2> DEFINE mso == IssueMdoc(IssuerKey, k, t, Elements(claims), c, at, ExpiresIn).issuerAuth
    <2>7. p.issuerAuth = mso
      BY <1>2, <2>3, <2>4, <2>6 DEF CreateMdocPresentation, Body
    <2>8. mso.deviceKey = k /\ mso.validUntil = at + ExpiresIn
      BY DEF IssueMdoc
    <2>9. p.deviceAuth.key = issued[d].key /\ p.deviceAuth.nonce = u
      BY <2>3, <2>5 DEF CreateMdocPresentation
    <2>10. u = s /\ issued[d].key = k /\ now <= at + ExpiresIn
      BY <2>1, <2>7, <2>8, <2>9 DEF VerifyMdocPresentation, DeviceBound, InValidity
    <2>11. ASSUME NEW told \in Told(p)
           PROVE  issued[c].claims[told[1]] = told[2]
      <3>1. PICK ns \in DOMAIN p.nameSpaces :
                \E it_1 \in p.nameSpaces[ns] : told = <<it_1.element, it_1.value>>
        BY <1>2, <2>11 DEF Told
      <3> PICK it \in p.nameSpaces[ns] : told = <<it.element, it.value>>
        BY <3>1
      <3>2. InDigests(mso, ns, it)
        BY <2>1, <2>7, <3>1 DEF VerifyMdocPresentation, ItemsMatch
      <3>3. claims[it.element] = it.value
        BY <3>2, DigestsAreOfClaims
      <3> QED
        BY <2>6, <3>1, <3>3
    <2> QED
      BY <2>3, <2>4, <2>5, <2>6, <2>10, <2>11 DEF Vouched
  <1> QED
    BY <1>1, <1>2 DEF Inv
-----------------------------------------------------------------------------
\* The loop of checkDcqlSatisfied takes one step for a path of one key.
LEMMA AtOne ==
    ASSUME NEW json, NEW key
    PROVE  At(<<key>>, json) = Member(json, key)
  <1> DEFINE path == <<key>>
             Def(g) == [i \in 0 .. Len(path) |-> IF i = 0 THEN json ELSE Member(g[i - 1], path[i])]
             cur == CHOOSE g : g = Def(g)
  <1>1. At(path, json) = cur[Len(path)]
    BY DEF At
  <1>2. Len(path) = 1 /\ path[1] = key
    OBVIOUS
  <1>3. \E g : g = Def(g)
    <2> DEFINE h == [i \in 0 .. 1 |-> IF i = 0 THEN json ELSE Member(json, key)]
    <2>1. h[0] = json
      OBVIOUS
    <2>2. \A i \in 0 .. 1 : (IF i = 0 THEN json ELSE Member(json, key))
                              = IF i = 0 THEN json ELSE Member(h[i - 1], path[i])
      BY <1>2, <2>1
    <2>3. h = Def(h)
      BY <1>2, <2>2
    <2> QED
      BY <2>3
  <1>4. cur = Def(cur)
    BY <1>3, Zenon
  <1> HIDE DEF path, cur
  <1>5. cur[1] = Member(cur[0], key) /\ cur[0] = json
    BY <1>2, <1>4
  <1> QED
    BY <1>1, <1>2, <1>5 DEF path

\* It takes two for a path of two keys.
LEMMA AtTwo ==
    ASSUME NEW json, NEW k1, NEW k2
    PROVE  At(<<k1, k2>>, json) = Member(Member(json, k1), k2)
  <1> DEFINE path == <<k1, k2>>
             Def(g) == [i \in 0 .. Len(path) |-> IF i = 0 THEN json ELSE Member(g[i - 1], path[i])]
             cur == CHOOSE g : g = Def(g)
  <1>1. At(path, json) = cur[Len(path)]
    BY DEF At
  <1>2. Len(path) = 2 /\ path[1] = k1 /\ path[2] = k2
    OBVIOUS
  <1>3. \E g : g = Def(g)
    <2> DEFINE first == Member(json, k1)
               Value(i) == IF i = 0 THEN json ELSE IF i = 1 THEN first ELSE Member(first, k2)
               h == [i \in 0 .. 2 |-> Value(i)]
    <2>1. h[0] = json /\ h[1] = first
      OBVIOUS
    <2> HIDE DEF h
    <2>2. \A i \in 0 .. 2 : Value(i) = IF i = 0 THEN json ELSE Member(h[i - 1], path[i])
      <3> SUFFICES ASSUME NEW i \in 0 .. 2
                   PROVE  Value(i) = IF i = 0 THEN json ELSE Member(h[i - 1], path[i])
        OBVIOUS
      <3>1. i = 0 \/ i = 1 \/ i = 2
        OBVIOUS
      <3> QED
        BY <1>2, <2>1, <3>1
    <2>3. h = Def(h)
      BY <1>2, <2>2 DEF h
    <2> QED
      BY <2>3
  <1>4. cur = Def(cur)
    BY <1>3, Zenon
  <1> HIDE DEF path, cur
  <1>5. cur[1] = Member(cur[0], k1) /\ cur[0] = json /\ cur[2] = Member(cur[1], k2)
    BY <1>2, <1>4
  <1> QED
    BY <1>1, <1>2, <1>5 DEF path

\* What there is in an object; in what is not there, there is nothing.
LEMMA Members ==
    /\ \A f, n : Member(Object(f), n) = IF n \in DOMAIN f THEN f[n] ELSE Null
    /\ \A n : Member(Null, n) = Null
  BY DEF Member, Object, Null

\* An SD-JWT satisfies the query when a disclosure has something under each name.
LEMMA SatisfiedSdJwt ==
    ASSUME NEW body, format = "dc+sd-jwt"
    PROVE  Satisfies(body) <=>
               \A n \in REQUESTED_ATTRS :
                   n \in DOMAIN DisclosedClaims(body) /\ DisclosedClaims(body)[n] # Null
  <1> DEFINE claims == DisclosedClaims(body)
  <1>1. Satisfies(body) <=> \A path \in DcqlClaims : At(path, Object(claims)) # Null
    BY DEF Satisfies, Claims, CheckDcqlSatisfied
  <1>2. DcqlClaims = {<<n>> : n \in REQUESTED_ATTRS}
    BY DEF DcqlClaims, REQUESTED_ATTRS
  <1> HIDE DEF claims
  <1>3. ASSUME NEW n
        PROVE  At(<<n>>, Object(claims)) = IF n \in DOMAIN claims THEN claims[n] ELSE Null
    <2>1. At(<<n>>, Object(claims)) = Member(Object(claims), n)
      BY AtOne
    <2> QED
      BY <2>1, Members
  <1> QED
    BY <1>1, <1>2, <1>3 DEF claims

\* An mdoc satisfies the query when an element of the namespace has something under each
\* name.
LEMMA SatisfiedMdoc ==
    ASSUME NEW body, format = "mso_mdoc"
    PROVE  Satisfies(body) <=>
               \A n \in REQUESTED_ATTRS :
                   /\ Namespace \in DOMAIN DisclosedElements(body)
                   /\ n \in DOMAIN DisclosedElements(body)[Namespace]
                   /\ DisclosedElements(body)[Namespace][n] # Null
  <1> DEFINE spaces == DisclosedElements(body)
             json == Object([ns \in DOMAIN spaces |-> Object(spaces[ns])])
  <1>1. Satisfies(body) <=> \A path \in DcqlMdlClaims : At(path, json) # Null
    BY DEF Satisfies, Claims, CheckDcqlSatisfied
  <1>2. DcqlMdlClaims = {<<Namespace, n>> : n \in REQUESTED_ATTRS}
    BY DEF DcqlMdlClaims, REQUESTED_ATTRS
  <1>3. Member(json, Namespace)
            = IF Namespace \in DOMAIN spaces THEN Object(spaces[Namespace]) ELSE Null
    <2> HIDE DEF spaces
    <2> QED
      BY Members
  <1> HIDE DEF spaces, json
  <1>4. ASSUME NEW n
        PROVE  At(<<Namespace, n>>, json) # Null <=>
                   /\ Namespace \in DOMAIN spaces
                   /\ n \in DOMAIN spaces[Namespace] /\ spaces[Namespace][n] # Null
    <2>1. At(<<Namespace, n>>, json) = Member(Member(json, Namespace), n)
      BY AtTwo
    <2> QED
      BY <1>3, <2>1, Members
  <1> QED
    BY <1>1, <1>2, <1>4 DEF spaces

\* The invariant implies that everything is told that was asked for.
LEMMA InvAskedIsTold == Inv => AskedIsTold
  <1> SUFFICES ASSUME Inv, Accepted, NEW n \in REQUESTED_ATTRS
               PROVE  \E told \in Told(verdict.body) : told[1] = n /\ told[2] # Null
    BY DEF AskedIsTold
  <1> DEFINE body == verdict.body
  <1>1. Satisfies(body)
    BY AcceptedWasVerified
  <1>2. CASE format = "dc+sd-jwt"
    <2> DEFINE known == body.disclosures \cap body.jws.sd
               Of(m) == CHOOSE d \in known : d.name = m
               disclosed == [m \in {d.name : d \in known} |-> Of(m).value]
    <2>1. DisclosedClaims(body) = disclosed
      BY DEF DisclosedClaims
    <2>2. n \in DOMAIN disclosed /\ disclosed[n] # Null
      BY <1>1, <1>2, <2>1, SatisfiedSdJwt
    <2>3. \E d \in known : d.name = n
      BY <2>2
    <2>4. Of(n) \in known /\ Of(n).name = n
      BY <2>3
    <2>5. disclosed[n] = Of(n).value
      BY <2>2
    <2> HIDE DEF Of, disclosed
    <2>6. <<n, Of(n).value>> \in Told(body)
      BY <1>2, <2>4 DEF Told
    <2> QED
      BY <2>2, <2>5, <2>6
  <1>3. CASE format = "mso_mdoc"
    <2> DEFINE known == {it \in body.nameSpaces[Namespace] :
                            InDigests(body.issuerAuth, Namespace, it)}
               Of(m) == CHOOSE it \in known : it.element = m
               disclosed == [m \in {it.element : it \in known} |-> Of(m).value]
    <2>1. /\ Namespace \in DOMAIN DisclosedElements(body)
          /\ n \in DOMAIN DisclosedElements(body)[Namespace]
          /\ DisclosedElements(body)[Namespace][n] # Null
      BY <1>1, <1>3, SatisfiedMdoc
    <2>2. Namespace \in DOMAIN body.nameSpaces /\ DisclosedElements(body)[Namespace] = disclosed
      BY <2>1 DEF DisclosedElements
    <2>3. n \in DOMAIN disclosed /\ disclosed[n] # Null
      BY <2>1, <2>2
    <2>4. \E it \in known : it.element = n
      BY <2>3
    <2>5. Of(n) \in known /\ Of(n).element = n
      BY <2>4
    <2>6. disclosed[n] = Of(n).value
      BY <2>3
    <2> HIDE DEF Of, disclosed
    <2>7. <<n, Of(n).value>> \in Told(body)
      BY <1>3, <2>2, <2>5 DEF Told
    <2> QED
      BY <2>3, <2>6, <2>7
  <1> QED
    BY <1>2, <1>3 DEF Inv

\* An accepted presentation tells everything that was asked for, and that as the issuer
\* said it of one holder, who has answered this session, in a credential in force; and
\* null is not told as an answer (sd-jwt.ts:133-204, mdoc.ts:254-328, dcql.ts:24-38).
THEOREM WhatIsAcceptedIsVouchedFor == Spec => []AcceptedIsVouchedFor
  <1>1. Inv => AcceptedIsVouchedFor
    BY InvToldIsVouchedFor, InvAskedIsTold DEF AcceptedIsVouchedFor
  <1> QED
    BY <1>1, Invariance, PTL
-----------------------------------------------------------------------------
\* Every item of an mdoc has its digest in the MSO.
LEMMA ItemsHaveDigests ==
    ASSUME NEW key, NEW type, NEW claims, NEW salt, NEW at, NEW ns, NEW it,
           NEW held, held = IssueMdoc(IssuerKey, key, type, Elements(claims), salt, at, ExpiresIn),
           ns \in DOMAIN held.nameSpaces, it \in held.nameSpaces[ns]
    PROVE  InDigests(held.issuerAuth, ns, it)
  <1> DEFINE elements == Elements(claims)
             Item(i) == [digestID |-> i - 1, random |-> salt, element |-> elements[i].element,
                         value |-> elements[i].value]
             In(n) == {i \in DOMAIN elements : elements[i].ns = n}
             spaces == {elements[i].ns : i \in DOMAIN elements}
             Digests(n) == [id \in {i - 1 : i \in In(n)} |-> Item(id + 1)]
             mso == held.issuerAuth
  <1>1. /\ held.nameSpaces = [n \in spaces |-> {Item(i) : i \in In(n)}]
        /\ mso.valueDigests = [n \in spaces |-> Digests(n)]
    BY DEF IssueMdoc
  <1> HIDE DEF mso, spaces
  <1>2. ns \in spaces /\ it \in {Item(i) : i \in In(ns)} /\ mso.valueDigests[ns] = Digests(ns)
    BY <1>1
  <1>3. PICK i \in In(ns) : it = Item(i)
    BY <1>2
  <1>4. DOMAIN elements = 1 .. 3
    BY DEF Elements
  <1>5. i \in Int /\ it.digestID = i - 1 /\ (i - 1) + 1 = i
    BY <1>3, <1>4
  <1>6. it.digestID \in {j - 1 : j \in In(ns)} /\ it = Item(it.digestID + 1)
    BY <1>3, <1>5
  <1>7. it.digestID \in DOMAIN Digests(ns) /\ Digests(ns)[it.digestID] = it
    BY <1>6
  <1> HIDE DEF Digests, Item
  <1> QED
    BY <1>1, <1>2, <1>7 DEF InDigests, mso

\* What was asked for is in the namespace of the query, with the value of the claims.
LEMMA AskedIsHeld ==
    ASSUME NEW key, NEW type, NEW claims, NEW salt, NEW at, NEW n \in REQUESTED_ATTRS,
           NEW held, held = IssueMdoc(IssuerKey, key, type, Elements(claims), salt, at, ExpiresIn)
    PROVE  /\ Namespace \in DOMAIN held.nameSpaces
           /\ \E it \in held.nameSpaces[Namespace] : it.element = n
  <1> DEFINE elements == Elements(claims)
             Item(i) == [digestID |-> i - 1, random |-> salt, element |-> elements[i].element,
                         value |-> elements[i].value]
             In(m) == {i \in DOMAIN elements : elements[i].ns = m}
             spaces == {elements[i].ns : i \in DOMAIN elements}
  <1>1. held.nameSpaces = [m \in spaces |-> {Item(i) : i \in In(m)}]
    BY DEF IssueMdoc
  <1>2. PICK i \in DOMAIN elements : elements[i].ns = Namespace /\ elements[i].element = n
    <2>1. /\ 1 \in DOMAIN elements /\ elements[1].ns = Namespace
          /\ elements[1].element = "given_name"
      BY DEF Elements
    <2>2. /\ 2 \in DOMAIN elements /\ elements[2].ns = Namespace
          /\ elements[2].element = "age_over_18"
      BY DEF Elements
    <2> QED
      BY <2>1, <2>2 DEF REQUESTED_ATTRS
  <1>3. Namespace \in spaces /\ Item(i) \in {Item(j) : j \in In(Namespace)}
    BY <1>2
  <1>4. Item(i).element = n
    BY <1>2
  <1> HIDE DEF Item, In, spaces
  <1> QED
    BY <1>1, <1>3, <1>4

\* What was asked for is revealed, unless the user chose otherwise.
LEMMA AskedIsRevealed ==
    ASSUME NEW o, o # Absent => REQUESTED_ATTRS \subseteq o, NEW n \in REQUESTED_ATTRS
    PROVE  n \in ToReveal(o) /\ <<Namespace, n>> \in Reveal(o)
  <1>1. \A path \in DcqlClaims : path[Len(path)] = path[1]
    BY DEF DcqlClaims
  <1>2. <<n>> \in DcqlClaims /\ <<n>>[1] = n
    BY DEF DcqlClaims, REQUESTED_ATTRS
  <1>3. n \in {path[Len(path)] : path \in DcqlClaims}
    BY <1>1, <1>2
  <1>4. <<Namespace, n>> \in DcqlMdlClaims
    BY DEF DcqlMdlClaims, REQUESTED_ATTRS
  <1> QED
    BY <1>3, <1>4 DEF ToReveal, Reveal

\* An SD-JWT that is in order and arrives as it was sent verifies, and has what was asked.
LEMMA InOrderSdJwt ==
    ASSUME Inv, format = "dc+sd-jwt", NEW s \in Sessions, sent[s] # Absent, InOrder(s)
    PROVE  Verifies(s, sent[s].body) /\ Satisfies(sent[s].body)
  <1> DEFINE p == sent[s].body
  <1>1. PICK c \in Credentials, o \in Overrides \cup {Absent}, cl \in Nat :
            /\ issued[c] # Absent
            /\ sent[s] = [credential |-> c, override |-> o, clock |-> cl,
                          body |-> Presented(issued[c].body, issued[c].key, o, s, cl)]
    BY DEF Inv, Sent
  <1>2. PICK k \in HolderKeys, t \in Types, claims \in [Names -> Values], at \in 0 .. now :
            issued[c] = [key |-> k, type |-> t, claims |-> claims, at |-> at,
                         body |-> Body(k, t, claims, c, at)]
    BY <1>1 DEF Inv, Made
  <1> DEFINE held == IssueSdJwtVc(IssuerKey, k, t, claims, c, at, ExpiresIn)
             all == {[salt |-> c, name |-> n, value |-> claims[n]] : n \in DOMAIN claims}
             kept == {d \in all : d.name \in ToReveal(o)}
             bound == [key |-> k, iat |-> cl, nonce |-> s, aud |-> VerifierUrl,
                       sd_hash |-> <<held.jws, kept>>]
  <1>3. issued[c].key = k /\ issued[c].body = held /\ issued[c].claims = claims
            /\ issued[c].at = at
    BY <1>2 DEF Body
  <1>4. held.disclosures = all /\ held.jws.key = IssuerKey /\ held.jws.sd = all
            /\ held.jws.cnf = k /\ held.jws.exp = at + ExpiresIn
    BY DEF IssueSdJwtVc
  <1>5. p = CreatePresentation(held, k, ToReveal(o), VerifierUrl, s, cl)
    BY <1>1, <1>3 DEF Presented
  <1>6. p.jws = held.jws /\ p.disclosures = kept /\ p.kb = {bound}
    BY <1>4, <1>5 DEF CreatePresentation
  <1>7. /\ bound.key = k /\ bound.iat = cl /\ bound.nonce = s /\ bound.aud = VerifierUrl
        /\ bound.sd_hash = <<held.jws, kept>> /\ kept \subseteq all
    OBVIOUS
  <1>8. /\ sent[s].credential = c /\ sent[s].override = o /\ sent[s].clock = cl
    BY <1>1
  <1>9. /\ \A n \in REQUESTED_ATTRS : claims[n] # Null
        /\ o # Absent => REQUESTED_ATTRS \subseteq o
        /\ now < at + ExpiresIn
        /\ cl <= now + CLOCK_SKEW_S /\ now - cl <= KB_JWT_MAX_AGE_S
    BY <1>3, <1>8 DEF InOrder
  <1>10. \A n \in REQUESTED_ATTRS : \E d \in kept : d.name = n
    <2>1. DOMAIN claims = Names /\ REQUESTED_ATTRS \subseteq Names
      BY DEF REQUESTED_ATTRS, Names
    <2>2. ASSUME NEW n \in REQUESTED_ATTRS
          PROVE  \E d \in kept : d.name = n
      <3> DEFINE d == [salt |-> c, name |-> n, value |-> claims[n]]
      <3>1. n \in ToReveal(o)
        BY <1>9, AskedIsRevealed
      <3>2. d \in all /\ d.name = n
        BY <2>1
      <3> HIDE DEF d, all
      <3> QED
        BY <3>1, <3>2
    <2> QED
      BY <2>2
  <1>11. \A d \in kept : d.value = claims[d.name]
    OBVIOUS
  <1> HIDE DEF bound, kept, all, held, p
  <1>12. Verifies(s, p)
    <2>1. JwsVerifies(p, IssuerKey, now)
      BY <1>4, <1>6, <1>9 DEF JwsVerifies
    <2>2. DigestsMatch(p)
      BY <1>4, <1>6, <1>7 DEF DigestsMatch
    <2>3. KeyBound(p, VerifierUrl, s, now)
      BY <1>4, <1>6, <1>7, <1>9 DEF KeyBound, Fresh
    <2> QED
      BY <2>1, <2>2, <2>3 DEF Verifies, VerifyPresentation
  <1>13. Satisfies(p)
    <2> DEFINE known == p.disclosures \cap p.jws.sd
               Of(m) == CHOOSE d \in known : d.name = m
               disclosed == [m \in {d.name : d \in known} |-> Of(m).value]
    <2>1. known = kept
      BY <1>4, <1>6, <1>7
    <2>2. DisclosedClaims(p) = disclosed
      BY DEF DisclosedClaims
    <2> HIDE DEF known
    <2>3. ASSUME NEW n \in REQUESTED_ATTRS
          PROVE  n \in DOMAIN disclosed /\ disclosed[n] # Null
      <3>1. \E d \in known : d.name = n
        BY <1>10, <2>1
      <3>2. Of(n) \in kept /\ Of(n).name = n
        BY <2>1, <3>1
      <3>3. n \in DOMAIN disclosed /\ disclosed[n] = Of(n).value
        BY <3>1
      <3> QED
        BY <1>9, <1>11, <3>2, <3>3
    <2> QED
      BY <2>2, <2>3, SatisfiedSdJwt
  <1> QED
    BY <1>12, <1>13 DEF p

\* An mdoc that is in order and arrives as it was sent verifies, and has what was asked.
LEMMA InOrderMdoc ==
    ASSUME Inv, format = "mso_mdoc", NEW s \in Sessions, sent[s] # Absent, InOrder(s)
    PROVE  Verifies(s, sent[s].body) /\ Satisfies(sent[s].body)
  <1> DEFINE p == sent[s].body
  <1>1. PICK c \in Credentials, o \in Overrides \cup {Absent}, cl \in Nat :
            /\ issued[c] # Absent
            /\ sent[s] = [credential |-> c, override |-> o, clock |-> cl,
                          body |-> Presented(issued[c].body, issued[c].key, o, s, cl)]
    BY DEF Inv, Sent
  <1>2. PICK k \in HolderKeys, t \in Types, claims \in [Names -> Values], at \in 0 .. now :
            issued[c] = [key |-> k, type |-> t, claims |-> claims, at |-> at,
                         body |-> Body(k, t, claims, c, at)]
    BY <1>1 DEF Inv, Made
  <1> DEFINE held == IssueMdoc(IssuerKey, k, t, Elements(claims), c, at, ExpiresIn)
             shown == Filtered(held, Reveal(o))
  <1>3. issued[c].key = k /\ issued[c].body = held /\ issued[c].claims = claims
            /\ issued[c].at = at
    BY <1>2 DEF Body
  <1>4. /\ held.docType = t
        /\ held.issuerAuth.key = IssuerKey /\ held.issuerAuth.docType = t
        /\ held.issuerAuth.deviceKey = k
        /\ held.issuerAuth.validFrom = at /\ held.issuerAuth.validUntil = at + ExpiresIn
    BY DEF IssueMdoc
  <1>5. p = CreateMdocPresentation(held, k, Reveal(o), VerifierUrl, s)
    BY <1>1, <1>3 DEF Presented
  <1>6. /\ p.docType = t /\ p.issuerAuth = held.issuerAuth /\ p.nameSpaces = shown
        /\ p.deviceAuth.key = k /\ p.deviceAuth.aud = VerifierUrl /\ p.deviceAuth.nonce = s
    BY <1>4, <1>5 DEF CreateMdocPresentation
  <1>7. sent[s].credential = c /\ sent[s].override = o /\ sent[s].clock = cl
    BY <1>1
  <1>8. /\ \A n \in REQUESTED_ATTRS : claims[n] # Null
        /\ o # Absent => REQUESTED_ATTRS \subseteq o
        /\ now < at + ExpiresIn
    BY <1>3, <1>7 DEF InOrder
  <1> HIDE DEF p
  <1>9. \A ns \in DOMAIN shown : \A it \in shown[ns] : InDigests(held.issuerAuth, ns, it)
    <2> SUFFICES ASSUME NEW ns \in DOMAIN shown, NEW it \in shown[ns]
                 PROVE  InDigests(held.issuerAuth, ns, it)
      OBVIOUS
    <2> HIDE DEF held
    <2>1. ns \in DOMAIN held.nameSpaces /\ it \in held.nameSpaces[ns]
      BY FilteredIsHeld
    <2> QED
      BY <2>1, ItemsHaveDigests DEF held
  <1>10. Verifies(s, p)
    <2>1. ItemsMatch(p)
      BY <1>6, <1>9 DEF ItemsMatch
    <2>2. DeviceBound(p, VerifierUrl, s)
      BY <1>4, <1>6 DEF DeviceBound
    <2>3. InValidity(p.issuerAuth, now)
      <3>1. now \in Int /\ at \in Int /\ ExpiresIn \in Int /\ at <= now
        BY PresentationAssumption DEF Inv
      <3> QED
        BY <1>4, <1>6, <1>8, <3>1 DEF InValidity
    <2> QED
      BY <1>4, <1>6, <2>1, <2>2, <2>3 DEF Verifies, VerifyMdocPresentation
  <1>11. Satisfies(p)
    <2> SUFFICES ASSUME NEW n \in REQUESTED_ATTRS
                 PROVE  /\ Namespace \in DOMAIN DisclosedElements(p)
                        /\ n \in DOMAIN DisclosedElements(p)[Namespace]
                        /\ DisclosedElements(p)[Namespace][n] # Null
      BY SatisfiedMdoc
    <2>1. PICK it \in held.nameSpaces[Namespace] :
              Namespace \in DOMAIN held.nameSpaces /\ it.element = n
      BY AskedIsHeld
    <2> HIDE DEF held
    <2>2. it \in Kept(held, Namespace, Reveal(o))
      BY <1>8, <2>1, AskedIsRevealed DEF Kept
    <2>3. Namespace \in DOMAIN shown /\ it \in shown[Namespace]
      BY <2>1, <2>2 DEF Filtered
    <2> DEFINE known == {i \in p.nameSpaces[Namespace] : InDigests(p.issuerAuth, Namespace, i)}
               Of(m) == CHOOSE i \in known : i.element = m
               disclosed == [m \in {i.element : i \in known} |-> Of(m).value]
    <2> HIDE DEF shown
    <2>4. it \in known
      BY <1>6, <1>9, <2>3
    <2>5. Namespace \in DOMAIN DisclosedElements(p)
              /\ DisclosedElements(p)[Namespace] = disclosed
      BY <1>6, <2>3 DEF DisclosedElements
    <2>6. Of(n) \in known /\ Of(n).element = n
      BY <2>1, <2>4
    <2>7. n \in DOMAIN disclosed /\ disclosed[n] = Of(n).value
      BY <2>1, <2>4
    <2>8. InDigests(held.issuerAuth, Namespace, Of(n))
      BY <1>6, <2>6
    <2> HIDE DEF Of, disclosed
    <2>9. claims[n] = Of(n).value
      BY <2>6, <2>8, DigestsAreOfClaims DEF held
    <2> QED
      BY <1>8, <2>5, <2>7, <2>9
  <1> QED
    BY <1>10, <1>11 DEF p

\* A presentation that is in order and arrives as it was sent is accepted, in either
\* format, whatever the clocks within the skew and the choices of the user, and with false
\* for an answer too (sd-jwt.ts:133-204, mdoc.ts:254-328, dcql.ts:22-38).
THEOREM WhatIsInOrderIsAccepted == Spec => []InOrderIsAccepted
  <1>1. Inv => InOrderIsAccepted
    BY WasJudged, InOrderSdJwt, InOrderMdoc DEF InOrderIsAccepted, Inv
  <1> QED
    BY <1>1, Invariance, PTL
=============================================================================
