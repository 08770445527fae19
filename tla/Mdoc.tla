-------------------------------- MODULE Mdoc --------------------------------
(***************************************************************************)
(* ISO 18013-5 mdoc: issuance, presentation and verification,              *)
(* packages/core/src/mdoc.ts.  As in SdJwt, a signature is the key that    *)
(* made it and a digest what it is of; the items of a namespace are a set. *)
(***************************************************************************)
EXTENDS Integers, Sequences

\* issueMdoc.  The elements, in the order of their namespaces, are numbered by one
\* counter; the MSO has the digests by namespace and number.
IssueMdoc(issuerKey, deviceKey, docType, elements, salt, now, validity) ==
    LET Item(i) == [digestID |-> i - 1, random |-> salt, element |-> elements[i].element,
                    value |-> elements[i].value]
        spaces == {elements[i].ns : i \in DOMAIN elements}
        In(ns) == {i \in DOMAIN elements : elements[i].ns = ns}
    IN  [docType |-> docType,
         nameSpaces |-> [ns \in spaces |-> {Item(i) : i \in In(ns)}],
         issuerAuth |->
             [key |-> issuerKey, docType |-> docType, deviceKey |-> deviceKey,
              valueDigests |-> [ns \in spaces |-> [id \in {i - 1 : i \in In(ns)} |-> Item(id + 1)]],
              validFrom |-> now, validUntil |-> now + validity]]

Kept(issued, ns, reveal) == {it \in issued.nameSpaces[ns] : <<ns, it.element>> \in reveal}

MutEmptySpaces(issued, reveal) == [ns \in DOMAIN issued.nameSpaces |-> Kept(issued, ns, reveal)]

\* Items that are not to be revealed are left out, and namespaces of which nothing is left.
Filtered(issued, reveal) ==
    [ns \in {n \in DOMAIN issued.nameSpaces : Kept(issued, n, reveal) # {}} |->
        Kept(issued, ns, reveal)]

\* createMdocPresentation.  What the device signs names no item.
CreateMdocPresentation(issued, deviceKey, reveal, audience, nonce) ==
    [docType |-> issued.docType, issuerAuth |-> issued.issuerAuth,
     nameSpaces |-> Filtered(issued, reveal),
     deviceAuth |-> [key |-> deviceKey, aud |-> audience, nonce |-> nonce]]

\* An item has the digest that the MSO gives for its namespace and number.
InDigests(mso, ns, item) ==
    /\ ns \in DOMAIN mso.valueDigests
    /\ item.digestID \in DOMAIN mso.valueDigests[ns]
    /\ mso.valueDigests[ns][item.digestID] = item

MutAnyItem(p) == TRUE

ItemsMatch(p) ==
    \A ns \in DOMAIN p.nameSpaces : \A item \in p.nameSpaces[ns] :
        InDigests(p.issuerAuth, ns, item)

DeviceBound(p, audience, nonce) ==
    /\ p.deviceAuth.key = p.issuerAuth.deviceKey
    /\ p.deviceAuth.aud = audience /\ p.deviceAuth.nonce = nonce

\* The last moment of validUntil still counts, unlike that of exp in an SD-JWT.
InValidity(mso, now) == mso.validFrom <= now /\ now <= mso.validUntil

DisclosedElements(p) ==
    [ns \in DOMAIN p.nameSpaces |->
        LET known == {it \in p.nameSpaces[ns] : InDigests(p.issuerAuth, ns, it)}
        IN  [e \in {it.element : it \in known} |-> (CHOOSE it \in known : it.element = e).value]]

\* verifyMdocPresentation
VerifyMdocPresentation(p, issuerKey, audience, nonce, now) ==
    /\ p.issuerAuth.key = issuerKey /\ p.issuerAuth.docType = p.docType
    /\ ItemsMatch(p) /\ DeviceBound(p, audience, nonce) /\ InValidity(p.issuerAuth, now)
=============================================================================
