----------------------------- MODULE SafeFetch ------------------------------
(***************************************************************************)
(* safeFetch and safeFetchText, packages/core/src/http.ts: one call, to    *)
(* servers that may answer anything.                                       *)
(*                                                                         *)
(* A URL stands for its origin: assertSafeUrl looks at the protocol and    *)
(* the host alone, and a redirect is judged by the two origins.            *)
(***************************************************************************)
EXTENDS Naturals

CONSTANTS
    Origins,            \* origins of URLs
    SafeOrigins,        \* those that assertSafeUrl accepts
    NoOrigin,           \* stands for an unset URL
    MAX_REDIRECTS,
    MAX_BODY_BYTES,
    MaxChunk            \* bound on the size of a chunk of a body

ASSUME FetchAssumption ==
    /\ SafeOrigins \subseteq Origins /\ NoOrigin \notin Origins
    /\ MAX_REDIRECTS \in Nat /\ MAX_BODY_BYTES \in Nat /\ MaxChunk \in Nat

VARIABLES
    pc,             \* where the call is suspended, or how it ended
    text,           \* whether safeFetchText made it
    hop, current, currentInit,
    total,          \* bytes counted so far
    buffered,       \* bytes kept in chunks
    sent,           \* history: the requests sent
    visited,        \* history: the origins they went to
    served          \* history: bytes of the body that the server sent

counters == <<total, buffered, served>>
vars == <<pc, text, hop, current, currentInit, counters, sent, visited>>
-----------------------------------------------------------------------------
\* What an init carries: credentials are authorization and cookie headers.
RequestInit == [method : {"GET", "POST"}, credentials : BOOLEAN, body : BOOLEAN]

\* The inits the services and wallets pass; safeFetchText passes none.
NoInit == [method |-> "GET", credentials |-> FALSE, body |-> FALSE]
Inits == {NoInit} \cup {i \in RequestInit : i.method = "POST" /\ (i.credentials => i.body)}

\* The statuses that are followed when they come with a Location.
Redirects == 300 .. 399

\* A request, with the origins visited before it.
Sent == [origin : Origins, init : RequestInit, before : SUBSET Origins]
-----------------------------------------------------------------------------
Init ==
    /\ pc = "idle" /\ text = FALSE
    /\ hop = 0 /\ current = NoOrigin /\ currentInit = NoInit
    /\ total = 0 /\ buffered = 0 /\ served = 0
    /\ sent = {} /\ visited = {}

MutUnsafe(url) == TRUE

\* assertSafeUrl
Safe(url) == url \in SafeOrigins

Throw == pc' = "threw"

MutNextHop(h) == h

\* hop++
NextHop(h) == h + 1

MutOneHopMore(h) == h <= MAX_REDIRECTS + 1

\* The condition of the loop.
HopAllowed(h) == h <= MAX_REDIRECTS

\* The loop at hop h: the request goes out, or the redirects were too many.
Loop(h, url, init) ==
    /\ hop' = h
    /\ \/ /\ ~HopAllowed(h)
          /\ Throw
          /\ UNCHANGED <<sent, visited>>
       \/ /\ HopAllowed(h)
          /\ pc' = "fetching"
          /\ sent' = sent \cup {[origin |-> url, init |-> init, before |-> visited]}
          /\ visited' = visited \cup {url}

\* safeFetch(url, init), of its own or from safeFetchText
Call(url, init, isText) ==
    /\ pc = "idle"
    /\ isText => init = NoInit
    /\ text' = isText
    /\ \/ ~Safe(url) /\ Throw /\ UNCHANGED <<hop, current, currentInit, sent, visited>>
       \/ /\ Safe(url)
          /\ current' = url /\ currentInit' = init
          /\ Loop(0, url, init)
    /\ UNCHANGED counters

MutKeepsCredentials(from, to, status, init) ==
    IF from = to THEN init
    ELSE [method |-> IF status \in {301, 302, 303} THEN "GET" ELSE init.method,
          credentials |-> init.credentials, body |-> FALSE]

\* What the next hop carries.
Forwarded(from, to, status, init) ==
    IF from = to THEN init
    ELSE [method |-> IF status \in {301, 302, 303} THEN "GET" ELSE init.method,
          credentials |-> FALSE, body |-> FALSE]

\* The server redirects to a URL; it is checked before anything is sent there.
Redirect(status, url) ==
    /\ pc = "fetching"
    /\ \/ ~Safe(url) /\ Throw /\ UNCHANGED <<hop, current, currentInit, sent, visited>>
       \/ /\ Safe(url)
          /\ current' = url
          /\ currentInit' = Forwarded(current, url, status, currentInit)
          /\ Loop(NextHop(hop), url, currentInit')
    /\ UNCHANGED <<text, counters>>

\* A redirect without a usable Location, a status that is not 2xx, a network error,
\* or the abort of the timer.
FetchFails ==
    /\ pc = "fetching"
    /\ Throw
    /\ UNCHANGED <<text, hop, current, currentInit, counters, sent, visited>>

\* A 2xx response; safeFetchText throws when it has no body.
FetchSucceeds ==
    /\ pc = "fetching"
    /\ pc' \in IF text THEN {"reading", "threw"} ELSE {"returned"}
    /\ UNCHANGED <<text, hop, current, currentInit, counters, sent, visited>>
-----------------------------------------------------------------------------
MutTooLarge(bytes) == buffered > MAX_BODY_BYTES

\* Whether a body of this size is refused.
TooLarge(bytes) == bytes > MAX_BODY_BYTES

\* reader.read() yields a chunk of n bytes.
Chunk(n) ==
    /\ pc = "reading"
    /\ served' = served + n
    /\ total' = total + n
    /\ \/ TooLarge(total') /\ Throw /\ UNCHANGED buffered
       \/ ~TooLarge(total') /\ buffered' = buffered + n /\ UNCHANGED pc
    /\ UNCHANGED <<text, hop, current, currentInit, sent, visited>>

\* reader.read() yields done, or rejects.
BodyEnds ==
    /\ pc = "reading"
    /\ pc' \in {"returned", "threw"}
    /\ UNCHANGED <<text, hop, current, currentInit, counters, sent, visited>>
-----------------------------------------------------------------------------
Answer ==
    \/ \E status \in Redirects, url \in Origins : Redirect(status, url)
    \/ FetchFails \/ FetchSucceeds

Read == (\E n \in 1 .. MaxChunk : Chunk(n)) \/ BodyEnds

Next ==
    \/ \E url \in Origins, init \in Inits, isText \in BOOLEAN : Call(url, init, isText)
    \/ Answer \/ Read

\* The timer aborts a fetch that nobody answers, and the runtime ends a read on a
\* connection that went silent.
Fairness == WF_vars(Answer) /\ WF_vars(Read)

Spec == Init /\ [][Next]_vars
FairSpec == Spec /\ Fairness
-----------------------------------------------------------------------------
\* The type invariant.
TypeOK ==
    /\ pc \in {"idle", "fetching", "reading", "returned", "threw"}
    /\ text \in BOOLEAN
    /\ hop \in 0 .. MAX_REDIRECTS + 1
    /\ current \in Origins \cup {NoOrigin} /\ currentInit \in RequestInit
    /\ total \in Nat /\ buffered \in Nat /\ served \in Nat
    /\ sent \subseteq Sent /\ visited \subseteq Origins

\* No request goes to an origin that assertSafeUrl refuses, wherever the servers on
\* the way redirect to (lines 123 and 142).
OnlySafeContacted == \A r \in sent : r.origin \in SafeOrigins

\* Credentials and bodies go to the origin of the call alone, and only as long as no
\* other origin was visited: once stripped they are not sent again, not even when a
\* later hop leads back (lines 115-116).
SecretsStayHome ==
    \A r, s \in sent : r.init.credentials \/ r.init.body =>
        r.before \subseteq {r.origin} /\ (s.before = {} => s.origin = r.origin)

\* A text is returned whole or not at all, and no more than MAX_BODY_BYTES are ever
\* kept, whatever the sizes of the chunks.
WholeWithinCap ==
    /\ buffered <= MAX_BODY_BYTES
    /\ pc = "returned" => buffered = served

\* A call ends, even when the servers redirect in a circle or a body has no end.
CallEnds == pc \in {"fetching", "reading"} ~> pc \in {"returned", "threw"}
=============================================================================
