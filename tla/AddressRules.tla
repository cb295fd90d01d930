---------------------------- MODULE AddressRules ----------------------------
(***************************************************************************)
(* Which addresses src/url_validation.rs refuses: is_blocked_ip and what   *)
(* it is made of.  An IPv4 address is a record of four octets, an IPv6     *)
(* address one of eight 16-bit segments.                                   *)
(***************************************************************************)
EXTENDS Integers, Sequences, FiniteSets

V4(octets)   == [family |-> 4, parts |-> octets]
V6(segments) == [family |-> 6, parts |-> segments]

Octet   == 0 .. 255
Segment == {n \in Nat : n <= 65535}

IpAddr == [family : {4}, parts : [1 .. 4 -> Octet]]
            \cup [family : {6}, parts : [1 .. 8 -> Segment]]

\* Fault: the last octet a prefix ends in is compared as a whole.
InNetworkByOctets(octets, network, prefix) ==
    \A i \in 1 .. 4 : 8 * (i - 1) < prefix => octets[i] = network[i]

\* Ipv4Net::contains: the first prefix bits agree.
InNetwork(octets, network, prefix) ==
    \A i \in 1 .. 4 :
       LET free == 8 * i - prefix   \* bits of octet i the prefix leaves open
       IN  \/ free >= 8
           \/ free <= 0 /\ octets[i] = network[i]
           \/ free \in 1 .. 7 /\ octets[i] \div 2 ^ free = network[i] \div 2 ^ free

PrivateNetworks ==
    { << <<0, 0, 0, 0>>, 8 >>,       << <<10, 0, 0, 0>>, 8 >>,
      << <<100, 64, 0, 0>>, 10 >>,   << <<127, 0, 0, 0>>, 8 >>,
      << <<169, 254, 0, 0>>, 16 >>,  << <<172, 16, 0, 0>>, 12 >>,
      << <<192, 0, 0, 0>>, 24 >>,    << <<192, 0, 2, 0>>, 24 >>,
      << <<192, 168, 0, 0>>, 16 >>,  << <<198, 18, 0, 0>>, 15 >>,
      << <<198, 51, 100, 0>>, 24 >>, << <<203, 0, 113, 0>>, 24 >>,
      << <<224, 0, 0, 0>>, 4 >>,     << <<240, 0, 0, 0>>, 4 >> }

IsPrivateOrLoopback(octets) ==
    \E n \in PrivateNetworks : InNetwork(octets, n[1], n[2])

Octets(high, low) == <<high \div 256, high % 256, low \div 256, low % 256>>

\* Ipv6Addr::to_ipv4 knows ::a.b.c.d and ::ffff:a.b.c.d, and so ::1.
EmbedsIpv4(segments) ==
    (\A i \in 1 .. 5 : segments[i] = 0) /\ segments[6] \in {0, 65535}

EmbeddedIpv4(segments) == Octets(segments[7], segments[8])

\* fc00::/7, fe80::/10, multicast ff00::/8, 2001:db8::/32, and 2002::/16 with
\* a private address in it.
IsReservedIpv6(segments) ==
    LET first == segments[1] IN
    \/ first \div 2 ^ 9 = 64512 \div 2 ^ 9
    \/ first \div 2 ^ 6 = 65152 \div 2 ^ 6
    \/ first \div 2 ^ 8 = 255
    \/ first = 8193 /\ segments[2] = 3512
    \/ first = 8194 /\ IsPrivateOrLoopback(Octets(segments[2], segments[3]))

IsIpv6LoopbackOrMulticast(segments) ==
    IF EmbedsIpv4(segments) THEN IsPrivateOrLoopback(EmbeddedIpv4(segments))
    ELSE (\A i \in 1 .. 8 : segments[i] = 0) \/ IsReservedIpv6(segments)

IsBlockedIp(address) ==
    IF address.family = 4 THEN IsPrivateOrLoopback(address.parts)
    ELSE IsIpv6LoopbackOrMulticast(address.parts)

-----------------------------------------------------------------------------
\* The ranges the documentation lists, by their first and last addresses.
InternalRanges ==
    { << <<0, 0, 0, 0>>,      <<0, 255, 255, 255>> >>,
      << <<10, 0, 0, 0>>,     <<10, 255, 255, 255>> >>,
      << <<100, 64, 0, 0>>,   <<100, 127, 255, 255>> >>,
      << <<127, 0, 0, 0>>,    <<127, 255, 255, 255>> >>,
      << <<169, 254, 0, 0>>,  <<169, 254, 255, 255>> >>,
      << <<172, 16, 0, 0>>,   <<172, 31, 255, 255>> >>,
      << <<192, 0, 0, 0>>,    <<192, 0, 0, 255>> >>,
      << <<192, 0, 2, 0>>,    <<192, 0, 2, 255>> >>,
      << <<192, 168, 0, 0>>,  <<192, 168, 255, 255>> >>,
      << <<198, 18, 0, 0>>,   <<198, 19, 255, 255>> >>,
      << <<198, 51, 100, 0>>, <<198, 51, 100, 255>> >>,
      << <<203, 0, 113, 0>>,  <<203, 0, 113, 255>> >>,
      << <<224, 0, 0, 0>>,    <<255, 255, 255, 255>> >> }

AtMost(a, b) ==
    \/ a = b
    \/ \E i \in DOMAIN a : a[i] < b[i] /\ \A j \in 1 .. i - 1 : a[j] = b[j]

InInternalRange(octets) ==
    \E r \in InternalRanges : AtMost(r[1], octets) /\ AtMost(octets, r[2])

\* An address of either family that must not be reached: in a listed range, or
\* carrying an IPv4 address that is.
IsInternal(address) ==
    LET p == address.parts IN
    IF address.family = 4 THEN InInternalRange(p)
    ELSE \/ p[1] \in (64512 .. 65023) \cup (65152 .. 65215) \cup (65280 .. 65535)
         \/ SubSeq(p, 1, 2) = <<8193, 3512>>
         \/ p[1] = 8194 /\ InInternalRange(Octets(p[2], p[3]))
         \/ SubSeq(p, 1, 6) \in {<<0, 0, 0, 0, 0, 0>>, <<0, 0, 0, 0, 0, 65535>>}
               /\ InInternalRange(Octets(p[7], p[8]))
=============================================================================
