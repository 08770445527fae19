----------------------- MODULE PresentationProperties -----------------------
(***************************************************************************)
(* What an accepted presentation tells the relying party, and which        *)
(* presentations are accepted.                                             *)
(***************************************************************************)
EXTENDS Presentation

Values == {Null} \cup {Scalar(v) : v \in Names \cup {"false"}}

\* The type invariant.
TypeOK ==
    /\ now \in 0 .. MaxTime /\ format \in {"dc+sd-jwt", "mso_mdoc"}
    /\ \A c \in Credentials : issued[c] # Absent =>
          /\ issued[c].key \in HolderKeys /\ issued[c].type \in Types
          /\ issued[c].claims \in [Names -> Values] /\ issued[c].at \in 0 .. now
    /\ \A s \in Sessions : sent[s] # Absent =>
          /\ sent[s].credential \in Credentials /\ issued[sent[s].credential] # Absent
          /\ sent[s].override \in Overrides \cup {Absent}
          /\ sent[s].clock \in Nat
          /\ format = "mso_mdoc" =>
                \A ns \in DOMAIN sent[s].body.nameSpaces : sent[s].body.nameSpaces[ns] # {}
    /\ verdict # Absent => verdict.session \in Sessions /\ verdict.valid \in BOOLEAN

Accepted == verdict # Absent /\ verdict.valid

\* The claims in a body, as pairs of a name and a value.
Told(body) ==
    IF format = "mso_mdoc"
    THEN UNION {{<<it.element, it.value>> : it \in body.nameSpaces[ns]} : ns \in DOMAIN body.nameSpaces}
    ELSE {<<d.name, d.value>> : d \in body.disclosures}

\* What is told was said by the issuer of one holder, who has answered this very
\* session, in a credential that is in force now.
Vouched(c) ==
    /\ issued[c] # Absent /\ issued[c].key = issued[sent[verdict.session].credential].key
    /\ now <= issued[c].at + ExpiresIn
    /\ \A told \in Told(verdict.body) : issued[c].claims[told[1]] = told[2]

ToldIsVouchedFor ==
    Accepted => sent[verdict.session] # Absent /\ \E c \in Credentials : Vouched(c)

\* Everything is told that was asked for.
AskedIsTold ==
    Accepted => \A n \in REQUESTED_ATTRS : \E told \in Told(verdict.body) :
                    told[1] = n /\ told[2] # Null

\* An accepted presentation tells what the issuer said of one holder, who has answered
\* this very session: everything that was asked for, in force now, and nothing that is
\* not in a credential of his (sd-jwt.ts:133-204, mdoc.ts:254-328, dcql.ts:24-38).
AcceptedIsVouchedFor == ToldIsVouchedFor /\ AskedIsTold

\* An accepted SD-JWT is, as a whole, what the holder made for this session; in an mdoc
\* every item is one that the holder revealed in some session, which is all that a
\* signature over no item can give (sd-jwt.ts:186-193, mdoc.ts:210).  Accepted or not,
\* nothing that arrives tells more than what some holder revealed: what the verifier
\* registered for, and in an SD-JWT what the user chose to tell.
AcceptedAsMade ==
    /\ Accepted /\ format = "dc+sd-jwt" => verdict.body = sent[verdict.session].body
    /\ verdict # Absent =>
        \A told \in Told(verdict.body) : \E s \in Sessions :
            /\ sent[s] # Absent /\ told \in Told(sent[s].body)
            /\ \/ told[1] \in RpRegistry[VerifierUrl]
               \/ format = "dc+sd-jwt" /\ sent[s].override # Absent
                     /\ told[1] \in sent[s].override

\* The holder sent all that was asked for, on a credential that has it and is in force,
\* by a clock that is right within the skew, and it comes in time.
InOrder(s) ==
    LET c == issued[sent[s].credential]
    IN  /\ \A n \in REQUESTED_ATTRS : c.claims[n] # Null
        /\ sent[s].override # Absent => REQUESTED_ATTRS \subseteq sent[s].override
        /\ now < c.at + ExpiresIn
        /\ sent[s].clock <= now + CLOCK_SKEW_S /\ now - sent[s].clock <= KB_JWT_MAX_AGE_S

\* A presentation that is in order and arrives as it was sent is accepted, whatever
\* formats, clocks and choices were on the way (false is an answer, dcql.ts:22).
InOrderIsAccepted ==
    (verdict # Absent /\ sent[verdict.session] # Absent) =>
        (verdict.body = sent[verdict.session].body /\ InOrder(verdict.session) => verdict.valid)

\* docs/COMPLIANCE.md:138: "DCQL enforced against response (vct/doctype, required
\* claims)".  The type of an accepted presentation is the one that was asked for.
TypeEnforced ==
    Accepted =>
        AskedType = IF format = "mso_mdoc" THEN verdict.body.docType ELSE verdict.body.jws.vct
=============================================================================
