--------------------------- MODULE UrlGuardProofs ---------------------------
(***************************************************************************)
(* The guard of fetched URLs, for every set of addresses: what the code    *)
(* reads off octets and numerals is what the blocks say in bits.           *)
(***************************************************************************)
EXTENDS UrlGuard, TLAPS

\* Of two octets the code finds the four private blocks, neither more nor less.
LEMMA OctetsAreBlocks ==
    ASSUME NEW a \in Byte, NEW b \in Byte, NEW half, half = a * 256 + b
    PROVE  IsPrivateIPv4(a, b) <=> InIPv4Block(half)
  <1>1. half \div 256 = a
    BY SMT DEF Byte, Word
  <1>2. half \div 16 = 172 * 16 + 1 <=> a = 172 /\ 16 <= b /\ b <= 31
    BY SMT DEF Byte, Word
  <1>3. half = 192 * 256 + 168 <=> a = 192 /\ b = 168
    BY SMT DEF Byte, Word
  <1>4. half = 169 * 256 + 254 <=> a = 169 /\ b = 254
    BY SMT DEF Byte, Word
  <1> QED
    BY <1>1, <1>2, <1>3, <1>4 DEF IsPrivateIPv4, InIPv4Block

\* So it does of the octets that it decodes from a group.
LEMMA HalfIsBlocks ==
    ASSUME NEW hi \in Word
    PROVE  IsPrivateIPv4(hi \div 256, hi % 256) <=> InIPv4Block(hi)
  <1>1. PICK a \in Byte, b \in Byte : a = hi \div 256 /\ b = hi % 256
    <2>1. hi \div 256 \in Byte
      <3>1. hi \in Int /\ 0 <= hi /\ hi <= 65535
        BY SMT DEF Word
      <3>2. hi \div 256 \in Int /\ 0 <= hi \div 256 /\ hi \div 256 <= 255
        BY <3>1, SMT
      <3> QED
        BY <3>2, SMT DEF Byte
    <2>2. hi % 256 \in Byte
      BY SMT DEF Byte, Word
    <2> QED
      BY <2>1, <2>2, Zenon
  <1>2. hi = a * 256 + b
    BY <1>1, SMT DEF Byte, Word
  <1>3. IsPrivateIPv4(a, b) <=> InIPv4Block(hi)
    BY <1>2, OctetsAreBlocks
  <1> QED
    BY <1>1, <1>3

\* The numerals of the groups of both blocks begin with one of the prefixes.
LEMMA BlocksBegin ==
    ASSUME NEW group \in Word, InIPv6Block(group)
    PROVE  \E prefix \in {252, 253, 4072, 4073, 4074, 4075} : BeginsWith(group, prefix)
  <1>1. CASE group \div 512 = 126
    <2>1. group \div 256 = 252 \/ group \div 256 = 253
      BY <1>1, SMT DEF Word
    <2> QED
      BY <2>1 DEF BeginsWith
  <1>2. CASE group \div 64 = 1018
    <2>1. \/ group \div 16 = 4072 \/ group \div 16 = 4073
          \/ group \div 16 = 4074 \/ group \div 16 = 4075
      BY <1>2, SMT DEF Word
    <2> QED
      BY <2>1 DEF BeginsWith
  <1> QED
    BY <1>1, <1>2 DEF InIPv6Block

\* What the kind of a host says of its parts.
LEMMA HostParts ==
    ASSUME NEW host \in Hosts
    PROVE  /\ host.kind = "v4" => host.a \in Byte /\ host.b \in Byte
           /\ host.kind = "mapped" => host.hi \in Word
           /\ host.kind = "v6" => host.group \in Word
  <1>1. ASSUME host \in V4Hosts
        PROVE  host.kind = "v4" /\ host.a \in Byte /\ host.b \in Byte
    BY <1>1, NumberAssumption DEF V4Hosts
  <1>2. ASSUME host \in MappedHosts
        PROVE  host.kind = "mapped" /\ host.hi \in Word
    BY <1>2, NumberAssumption DEF MappedHosts
  <1>3. ASSUME host \in V6Hosts
        PROVE  host.kind = "v6" /\ host.group \in Word
    BY <1>3, NumberAssumption DEF V6Hosts
  <1>4. ASSUME host \in NamedHosts
        PROVE  host.kind = "name"
    BY <1>4 DEF NamedHosts
  <1> QED
    BY <1>1, <1>2, <1>3, <1>4 DEF Hosts

\* No address in a block passes the guard.
LEMMA BlocksArePrivate ==
    ASSUME NEW host \in Hosts, InBlock(host)
    PROVE  IsPrivate(host)
  <1>1. CASE host.kind = "v4"
    <2>1. host.a \in Byte /\ host.b \in Byte
      BY <1>1, HostParts
    <2> QED
      BY <1>1, <2>1, OctetsAreBlocks DEF InBlock, IsPrivate
  <1>2. CASE host.kind = "mapped"
    <2>1. host.hi \in Word
      BY <1>2, HostParts
    <2> QED
      BY <1>2, <2>1, HalfIsBlocks DEF InBlock, IsPrivate, IsPrivateIPv6
  <1>3. CASE host.kind = "v6"
    <2>1. host.group \in Word
      BY <1>3, HostParts
    <2> QED
      BY <1>3, <2>1, BlocksBegin DEF InBlock, IsPrivate, IsPrivateIPv6, FirstDigits
  <1> QED
    BY <1>1, <1>2, <1>3 DEF InBlock

\* An IPv4 address that does not pass is in a block.
LEMMA PrivateIPv4InBlocks ==
    ASSUME NEW host \in Hosts, host.kind \in {"v4", "mapped"}, IsPrivate(host)
    PROVE  InBlock(host)
  <1>1. CASE host.kind = "v4"
    <2>1. host.a \in Byte /\ host.b \in Byte
      BY <1>1, HostParts
    <2> QED
      BY <1>1, <2>1, OctetsAreBlocks DEF InBlock, IsPrivate, IsPrivateIPv6, FirstDigits
  <1>2. CASE host.kind = "mapped"
    <2>1. host.hi \in Word
      BY <1>2, HostParts
    <2> QED
      BY <1>2, <2>1, HalfIsBlocks DEF InBlock, IsPrivate, IsPrivateIPv6
  <1> QED
    BY <1>1, <1>2
-----------------------------------------------------------------------------
\* The verdict is that of the guard, and the URL is one of those that come.
Inv ==
    /\ url \in Urls /\ verdict \in {"none", "safe", "refused"}
    /\ verdict = "safe" => AssertSafeUrl(url)
    /\ verdict = "refused" => ~AssertSafeUrl(url)

\* Every step keeps it.
LEMMA Invariance == Spec => []Inv
  <1>1. Init => Inv
    BY DEF Init, Inv
  <1>2. Inv /\ [Next]_vars => Inv'
    BY DEF Inv, Next, Check, vars
  <1> QED
    BY <1>1, <1>2, PTL DEF Spec

\* assertSafeUrl lets no private, link-local or unique local address pass, for all the
\* numbers an address can have (http.ts:72-108).
THEOREM NoPrivateIsFetched == Spec => []NoPrivateFetched
  <1>1. Inv => NoPrivateFetched
    <2> SUFFICES ASSUME Inv, verdict = "safe"
                 PROVE  ~InBlock(url.host) /\ (url.https \/ IsLoopback(url.host))
      BY DEF NoPrivateFetched
    <2>1. url.host \in Hosts /\ ~IsPrivate(url.host) /\ (IsLoopback(url.host) \/ url.https)
      BY DEF Inv, Urls, AssertSafeUrl
    <2> QED
      BY <2>1, BlocksArePrivate
  <1> QED
    BY <1>1, Invariance, PTL

\* And it refuses no other IPv4 address over HTTPS (http.ts:32-41 and 56-64).
THEOREM PublicIPv4IsFetched == Spec => []PublicIPv4Fetched
  <1>1. Inv => PublicIPv4Fetched
    <2> SUFFICES ASSUME Inv, verdict = "refused", url.https, url.host.kind \in {"v4", "mapped"}
                 PROVE  InBlock(url.host)
      BY DEF PublicIPv4Fetched
    <2>1. url.host \in Hosts /\ IsPrivate(url.host)
      BY DEF Inv, Urls, AssertSafeUrl
    <2> QED
      BY <2>1, PrivateIPv4InBlocks
  <1> QED
    BY <1>1, Invariance, PTL
-----------------------------------------------------------------------------
\* The hosts that are taken for private and are not: the groups fc, fd, fc0 to fdf and fe8
\* to feb, whose numerals are shorter than those of the blocks, and the names that
\* begin like an address.
Mistaken(host) ==
    \/ host.kind = "v6" /\ host.group \in {252, 253} \cup 4032 .. 4063 \cup 4072 .. 4075
    \/ host.kind = "name" /\ host.begins \in {"fc", "fd", "fe8", "fe9", "fea", "feb"}

\* Over HTTPS the guard refuses the blocks and the hosts taken for them, and no others.
RefusedOnlySo ==
    verdict # "none" /\ url.https =>
        (verdict = "refused" <=> InBlock(url.host) \/ Mistaken(url.host))

\* A numeral that begins with a prefix is in a block, or too short to be.
LEMMA BeginningsAreBlocks ==
    ASSUME NEW group \in Word
    PROVE  (\E prefix \in {252, 253, 4072, 4073, 4074, 4075} : BeginsWith(group, prefix))
               <=> \/ InIPv6Block(group)
                   \/ group \in {252, 253} \cup 4032 .. 4063 \cup 4072 .. 4075
  <1>1. group \in Int /\ 0 <= group /\ group <= 65535
    BY SMT DEF Word
  <1>2. (BeginsWith(group, 252) \/ BeginsWith(group, 253))
            <=> group \div 512 = 126 \/ group \in {252, 253} \/ group \in 4032 .. 4063
    BY <1>1, SMT DEF BeginsWith
  <1>3. (\/ BeginsWith(group, 4072) \/ BeginsWith(group, 4073)
         \/ BeginsWith(group, 4074) \/ BeginsWith(group, 4075))
            <=> group \div 64 = 1018 \/ group \in 4072 .. 4075
    BY <1>1, SMT DEF BeginsWith
  <1> QED
    BY <1>2, <1>3 DEF InIPv6Block

\* What is private to the code.
LEMMA PrivateIs ==
    ASSUME NEW host \in Hosts
    PROVE  IsPrivate(host) <=> InBlock(host) \/ Mistaken(host)
  <1>1. CASE host.kind \in {"v4", "mapped"}
    BY <1>1, PrivateIPv4InBlocks, BlocksArePrivate DEF Mistaken
  <1>2. CASE host.kind = "v6"
    <2>1. host.group \in Word
      BY <1>2, HostParts
    <2> QED
      BY <1>2, <2>1, BeginningsAreBlocks
      DEF IsPrivate, IsPrivateIPv6, FirstDigits, InBlock, Mistaken
  <1>3. CASE host.kind = "name"
    BY <1>3 DEF IsPrivate, IsPrivateIPv6, FirstDigits, InBlock, Mistaken
  <1>4. host.kind \in {"v4", "mapped", "v6", "name"}
    BY DEF Hosts, V4Hosts, V6Hosts, MappedHosts, NamedHosts
  <1> QED
    BY <1>1, <1>2, <1>3, <1>4

\* The guard is exact but for short numerals and for names: how far it departs from the
\* comment on isPrivateIPv6 (http.ts:43-70).
THEOREM WhatIsRefused == Spec => []RefusedOnlySo
  <1>1. Inv => RefusedOnlySo
    <2> SUFFICES ASSUME Inv, verdict # "none", url.https
                 PROVE  verdict = "refused" <=> InBlock(url.host) \/ Mistaken(url.host)
      BY DEF RefusedOnlySo
    <2>1. url.host \in Hosts
      BY DEF Inv, Urls
    <2>2. IsPrivate(url.host) <=> InBlock(url.host) \/ Mistaken(url.host)
      BY <2>1, PrivateIs
    <2>3. verdict = "refused" <=> IsPrivate(url.host)
      BY DEF Inv, AssertSafeUrl
    <2> QED
      BY <2>2, <2>3
  <1> QED
    BY <1>1, Invariance, PTL
=============================================================================
