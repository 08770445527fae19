------------------------------ MODULE UrlGuard ------------------------------
(***************************************************************************)
(* assertSafeUrl, packages/core/src/http.ts: which URLs may be fetched.    *)
(* Of a URL count the protocol and the host, as URL.hostname writes it: an *)
(* IPv4 address as four decimal numbers, an IPv6 address in brackets as    *)
(* hexadecimal numerals without leading zeros, anything else as a name.    *)
(***************************************************************************)
EXTENDS Integers

CONSTANTS
    Octets,             \* numbers that occur in an IPv4 address
    Groups,             \* and in an IPv6 address
    Names               \* beginnings of the names that are not addresses

Byte == 0 .. 255
Word == 0 .. 65535

ASSUME NumberAssumption == Octets \subseteq Byte /\ Groups \subseteq Word

ASSUME NameAssumption ==
    Names \subseteq {"localhost", "fc", "fd", "fe8", "fe9", "fea", "feb", "else"}

VARIABLES
    url,
    verdict             \* whether it may be fetched, once it was looked at

vars == <<url, verdict>>

\* a.b, and whether it goes on with 0.1
V4Hosts == [kind : {"v4"}, a : Octets, b : Octets, ends : BOOLEAN]

\* The first group, and whether the address is ::1 if that is zero.
V6Hosts == [kind : {"v6"}, group : Groups, ends : BOOLEAN]

\* ::ffff:hi:lo, which is how an IPv4 address is embedded.
MappedHosts == [kind : {"mapped"}, hi : Groups]

NamedHosts == [kind : {"name"}, begins : Names]

Hosts == V4Hosts \cup V6Hosts \cup MappedHosts \cup NamedHosts

Urls == [host : Hosts, https : BOOLEAN]
-----------------------------------------------------------------------------
MutShortRange(a, b) ==
    \/ a = 10
    \/ a = 172 /\ 16 <= b /\ b < 31
    \/ a = 192 /\ b = 168
    \/ a = 169 /\ b = 254

MutOpenRange(a, b) ==
    \/ a = 10
    \/ a = 172 /\ 16 <= b
    \/ a = 192 /\ b = 168
    \/ a = 169 /\ b = 254

IsPrivateIPv4(a, b) ==
    \/ a = 10
    \/ a = 172 /\ 16 <= b /\ b <= 31
    \/ a = 192 /\ b = 168
    \/ a = 169 /\ b = 254

\* The numeral of a group begins with the digits of the prefix: up to two may follow.
BeginsWith(group, prefix) ==
    group = prefix \/ group \div 16 = prefix \/ group \div 256 = prefix

\* The patterns ^fc, ^fd, ^fe8, ^fe9, ^fea and ^feb, on an IPv6 address or on a name:
\* names are not excluded.
FirstDigits(host) ==
    \/ host.kind = "v6" /\ \E prefix \in {252, 253, 4072, 4073, 4074, 4075} :
                               BeginsWith(host.group, prefix)
    \/ host.kind = "name" /\ host.begins \in {"fc", "fd", "fe8", "fe9", "fea", "feb"}

\* An embedded address is decoded to the octets of its upper half.
IsPrivateIPv6(host) ==
    IF host.kind = "mapped" THEN IsPrivateIPv4(host.hi \div 256, host.hi % 256)
                            ELSE FirstDigits(host)

IsPrivate(host) ==
    \/ host.kind = "v4" /\ IsPrivateIPv4(host.a, host.b)
    \/ IsPrivateIPv6(host)

\* LOOPBACK_HOSTS
IsLoopback(host) ==
    \/ host.kind = "name" /\ host.begins = "localhost"
    \/ host.kind = "v4" /\ host.a = 127 /\ host.b = 0 /\ host.ends
    \/ host.kind = "v6" /\ host.group = 0 /\ host.ends

AssertSafeUrl(u) == ~IsPrivate(u.host) /\ (IsLoopback(u.host) \/ u.https)

Init == url \in Urls /\ verdict = "none"

Check ==
    /\ verdict = "none"
    /\ verdict' = IF AssertSafeUrl(url) THEN "safe" ELSE "refused"
    /\ UNCHANGED url

Next == Check

Spec == Init /\ [][Next]_vars
-----------------------------------------------------------------------------
\* An address is in a block when the bits that the block fixes are those of the block:
\* 10.0.0.0/8, 172.16.0.0/12, 192.168.0.0/16 and 169.254.0.0/16, by the upper half ...
InIPv4Block(half) ==
    \/ half \div 256 = 10
    \/ half \div 16 = 172 * 16 + 1
    \/ half = 192 * 256 + 168
    \/ half = 169 * 256 + 254

\* ... and fc00::/7 and fe80::/10 by the first group.
InIPv6Block(group) == group \div 512 = 126 \/ group \div 64 = 1018

InBlock(host) ==
    \/ host.kind = "v4" /\ InIPv4Block(host.a * 256 + host.b)
    \/ host.kind = "mapped" /\ InIPv4Block(host.hi)
    \/ host.kind = "v6" /\ InIPv6Block(host.group)

\* No private, link-local or unique local address is fetched, in whichever way it is
\* written, and nothing but the loopback without TLS (http.ts:72-108).
NoPrivateFetched ==
    verdict = "safe" => ~InBlock(url.host) /\ (url.https \/ IsLoopback(url.host))

\* Of IPv4 addresses no others are refused over HTTPS, embedded ones included
\* (http.ts:32-41 and 56-64).
PublicIPv4Fetched ==
    (verdict = "refused" /\ url.https /\ url.host.kind \in {"v4", "mapped"}) => InBlock(url.host)

\* http.ts:44: "Returns true if `hostname` is a ULA (fc00::/7), link-local (fe80::/10),
\* or IPv4-mapped IPv6 address": nothing else is refused over HTTPS.
OnlyPrivateRefused == (verdict = "refused" /\ url.https) => InBlock(url.host)
=============================================================================
