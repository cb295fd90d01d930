---------------------------- MODULE UrlRulesProofs ----------------------------
(***************************************************************************)
(* What the checks on a URL amount to, for every address, name and URL:    *)
(* the networks is_blocked_ip is made of are the ranges the documentation  *)
(* lists, a pattern matches the names it says label by label, and a list   *)
(* of checks refuses nothing only if none of them fails.                   *)
(***************************************************************************)
EXTENDS UrlRules, SequenceTheorems, FiniteSetTheorems, WellFoundedInduction, TLAPS

V4Octets == [1 .. 4 -> Octet]

\* Addresses are compared octet by octet.
LEMMA Lexicographic ==
    ASSUME NEW a \in V4Octets, NEW b \in V4Octets
    PROVE  AtMost(a, b) <=>
              \/ a[1] < b[1]
              \/ a[1] = b[1] /\ a[2] < b[2]
              \/ a[1] = b[1] /\ a[2] = b[2] /\ a[3] < b[3]
              \/ a[1] = b[1] /\ a[2] = b[2] /\ a[3] = b[3] /\ a[4] <= b[4]
<1>1. DOMAIN a = 1 .. 4 /\ \A i \in 1 .. 4 : a[i] \in Int /\ b[i] \in Int
  BY DEF V4Octets, Octet
<1>2. a = b <=> a[1] = b[1] /\ a[2] = b[2] /\ a[3] = b[3] /\ a[4] = b[4]
  BY DEF V4Octets
<1>3. ASSUME NEW i \in 1 .. 4
      PROVE  (\A j \in 1 .. i - 1 : a[j] = b[j]) <=>
                (i > 1 => a[1] = b[1]) /\ (i > 2 => a[2] = b[2]) /\ (i > 3 => a[3] = b[3])
  OBVIOUS
<1>4. AtMost(a, b) <=>
         \/ a = b
         \/ \E i \in 1 .. 4 :
               /\ a[i] < b[i]
               /\ (i > 1 => a[1] = b[1]) /\ (i > 2 => a[2] = b[2]) /\ (i > 3 => a[3] = b[3])
  BY <1>1, <1>3 DEF AtMost
<1> QED
  BY <1>1, <1>2, <1>4

Between(first, last, octets) == AtMost(first, octets) /\ AtMost(octets, last)

\* Each network, octet by octet.
LEMMA NetworkOctets ==
    ASSUME NEW o \in V4Octets
    PROVE  /\ InNetwork(o, <<0, 0, 0, 0>>, 8) <=> o[1] = 0
           /\ InNetwork(o, <<10, 0, 0, 0>>, 8) <=> o[1] = 10
           /\ InNetwork(o, <<100, 64, 0, 0>>, 10) <=> o[1] = 100 /\ o[2] \in 64 .. 127
           /\ InNetwork(o, <<127, 0, 0, 0>>, 8) <=> o[1] = 127
           /\ InNetwork(o, <<169, 254, 0, 0>>, 16) <=> o[1] = 169 /\ o[2] = 254
           /\ InNetwork(o, <<172, 16, 0, 0>>, 12) <=> o[1] = 172 /\ o[2] \in 16 .. 31
           /\ InNetwork(o, <<192, 0, 0, 0>>, 24) <=> o[1] = 192 /\ o[2] = 0 /\ o[3] = 0
           /\ InNetwork(o, <<192, 0, 2, 0>>, 24) <=> o[1] = 192 /\ o[2] = 0 /\ o[3] = 2
           /\ InNetwork(o, <<192, 168, 0, 0>>, 16) <=> o[1] = 192 /\ o[2] = 168
           /\ InNetwork(o, <<198, 18, 0, 0>>, 15) <=> o[1] = 198 /\ o[2] \in 18 .. 19
           /\ InNetwork(o, <<198, 51, 100, 0>>, 24) <=> o[1] = 198 /\ o[2] = 51 /\ o[3] = 100
           /\ InNetwork(o, <<203, 0, 113, 0>>, 24) <=> o[1] = 203 /\ o[2] = 0 /\ o[3] = 113
           /\ InNetwork(o, <<224, 0, 0, 0>>, 4) <=> o[1] \in 224 .. 239
           /\ InNetwork(o, <<240, 0, 0, 0>>, 4) <=> o[1] \in 240 .. 255
<1>1. InNetwork(o, <<0, 0, 0, 0>>, 8) <=> o[1] = 0
  BY SMTT(10) DEF InNetwork, V4Octets, Octet
<1>2. InNetwork(o, <<10, 0, 0, 0>>, 8) <=> o[1] = 10
  BY SMTT(10) DEF InNetwork, V4Octets, Octet
<1>3. InNetwork(o, <<100, 64, 0, 0>>, 10) <=> o[1] = 100 /\ o[2] \in 64 .. 127
  BY SMTT(10) DEF InNetwork, V4Octets, Octet
<1>4. InNetwork(o, <<127, 0, 0, 0>>, 8) <=> o[1] = 127
  BY SMTT(10) DEF InNetwork, V4Octets, Octet
<1>5. InNetwork(o, <<169, 254, 0, 0>>, 16) <=> o[1] = 169 /\ o[2] = 254
  BY SMTT(10) DEF InNetwork, V4Octets, Octet
<1>6. InNetwork(o, <<172, 16, 0, 0>>, 12) <=> o[1] = 172 /\ o[2] \in 16 .. 31
  BY SMTT(10) DEF InNetwork, V4Octets, Octet
<1>7. InNetwork(o, <<192, 0, 0, 0>>, 24) <=> o[1] = 192 /\ o[2] = 0 /\ o[3] = 0
  BY SMTT(10) DEF InNetwork, V4Octets, Octet
<1>8. InNetwork(o, <<192, 0, 2, 0>>, 24) <=> o[1] = 192 /\ o[2] = 0 /\ o[3] = 2
  BY SMTT(10) DEF InNetwork, V4Octets, Octet
<1>9. InNetwork(o, <<192, 168, 0, 0>>, 16) <=> o[1] = 192 /\ o[2] = 168
  BY SMTT(10) DEF InNetwork, V4Octets, Octet
<1>10. InNetwork(o, <<198, 18, 0, 0>>, 15) <=> o[1] = 198 /\ o[2] \in 18 .. 19
  BY SMTT(10) DEF InNetwork, V4Octets, Octet
<1>11. InNetwork(o, <<198, 51, 100, 0>>, 24) <=> o[1] = 198 /\ o[2] = 51 /\ o[3] = 100
  BY SMTT(10) DEF InNetwork, V4Octets, Octet
<1>12. InNetwork(o, <<203, 0, 113, 0>>, 24) <=> o[1] = 203 /\ o[2] = 0 /\ o[3] = 113
  BY SMTT(10) DEF InNetwork, V4Octets, Octet
<1>13. InNetwork(o, <<224, 0, 0, 0>>, 4) <=> o[1] \in 224 .. 239
  BY SMTT(10) DEF InNetwork, V4Octets, Octet
<1>14. InNetwork(o, <<240, 0, 0, 0>>, 4) <=> o[1] \in 240 .. 255
  BY SMTT(10) DEF InNetwork, V4Octets, Octet
<1> QED
  BY <1>1, <1>2, <1>3, <1>4, <1>5, <1>6, <1>7, <1>8, <1>9, <1>10, <1>11, <1>12, <1>13, <1>14

\* Each range, octet by octet.
LEMMA RangeOctets ==
    ASSUME NEW o \in V4Octets
    PROVE  /\ Between(<<0, 0, 0, 0>>, <<0, 255, 255, 255>>, o) <=> o[1] = 0
           /\ Between(<<10, 0, 0, 0>>, <<10, 255, 255, 255>>, o) <=> o[1] = 10
           /\ Between(<<100, 64, 0, 0>>, <<100, 127, 255, 255>>, o) <=> o[1] = 100 /\ o[2] \in 64 .. 127
           /\ Between(<<127, 0, 0, 0>>, <<127, 255, 255, 255>>, o) <=> o[1] = 127
           /\ Between(<<169, 254, 0, 0>>, <<169, 254, 255, 255>>, o) <=> o[1] = 169 /\ o[2] = 254
           /\ Between(<<172, 16, 0, 0>>, <<172, 31, 255, 255>>, o) <=> o[1] = 172 /\ o[2] \in 16 .. 31
           /\ Between(<<192, 0, 0, 0>>, <<192, 0, 0, 255>>, o) <=> o[1] = 192 /\ o[2] = 0 /\ o[3] = 0
           /\ Between(<<192, 0, 2, 0>>, <<192, 0, 2, 255>>, o) <=> o[1] = 192 /\ o[2] = 0 /\ o[3] = 2
           /\ Between(<<192, 168, 0, 0>>, <<192, 168, 255, 255>>, o) <=> o[1] = 192 /\ o[2] = 168
           /\ Between(<<198, 18, 0, 0>>, <<198, 19, 255, 255>>, o) <=> o[1] = 198 /\ o[2] \in 18 .. 19
           /\ Between(<<198, 51, 100, 0>>, <<198, 51, 100, 255>>, o) <=> o[1] = 198 /\ o[2] = 51 /\ o[3] = 100
           /\ Between(<<203, 0, 113, 0>>, <<203, 0, 113, 255>>, o) <=> o[1] = 203 /\ o[2] = 0 /\ o[3] = 113
           /\ Between(<<224, 0, 0, 0>>, <<255, 255, 255, 255>>, o) <=> o[1] \in 224 .. 255
<1>1. o[1] \in 0 .. 255 /\ o[2] \in 0 .. 255 /\ o[3] \in 0 .. 255 /\ o[4] \in 0 .. 255
  BY DEF V4Octets, Octet
<1>2. Between(<<0, 0, 0, 0>>, <<0, 255, 255, 255>>, o) <=> o[1] = 0
  <2>1. <<0, 0, 0, 0>> \in V4Octets /\ <<0, 255, 255, 255>> \in V4Octets
    BY DEF V4Octets, Octet
  <2> QED
    BY <1>1, <2>1, Lexicographic, SMTT(30) DEF Between
<1>3. Between(<<10, 0, 0, 0>>, <<10, 255, 255, 255>>, o) <=> o[1] = 10
  <2>1. <<10, 0, 0, 0>> \in V4Octets /\ <<10, 255, 255, 255>> \in V4Octets
    BY DEF V4Octets, Octet
  <2> QED
    BY <1>1, <2>1, Lexicographic, SMTT(30) DEF Between
<1>4. Between(<<100, 64, 0, 0>>, <<100, 127, 255, 255>>, o) <=> o[1] = 100 /\ o[2] \in 64 .. 127
  <2>1. <<100, 64, 0, 0>> \in V4Octets /\ <<100, 127, 255, 255>> \in V4Octets
    BY DEF V4Octets, Octet
  <2> QED
    BY <1>1, <2>1, Lexicographic, SMTT(30) DEF Between
<1>5. Between(<<127, 0, 0, 0>>, <<127, 255, 255, 255>>, o) <=> o[1] = 127
  <2>1. <<127, 0, 0, 0>> \in V4Octets /\ <<127, 255, 255, 255>> \in V4Octets
    BY DEF V4Octets, Octet
  <2> QED
    BY <1>1, <2>1, Lexicographic, SMTT(30) DEF Between
<1>6. Between(<<169, 254, 0, 0>>, <<169, 254, 255, 255>>, o) <=> o[1] = 169 /\ o[2] = 254
  <2>1. <<169, 254, 0, 0>> \in V4Octets /\ <<169, 254, 255, 255>> \in V4Octets
    BY DEF V4Octets, Octet
  <2> QED
    BY <1>1, <2>1, Lexicographic, SMTT(30) DEF Between
<1>7. Between(<<172, 16, 0, 0>>, <<172, 31, 255, 255>>, o) <=> o[1] = 172 /\ o[2] \in 16 .. 31
  <2>1. <<172, 16, 0, 0>> \in V4Octets /\ <<172, 31, 255, 255>> \in V4Octets
    BY DEF V4Octets, Octet
  <2> QED
    BY <1>1, <2>1, Lexicographic, SMTT(30) DEF Between
<1>8. Between(<<192, 0, 0, 0>>, <<192, 0, 0, 255>>, o) <=> o[1] = 192 /\ o[2] = 0 /\ o[3] = 0
  <2>1. <<192, 0, 0, 0>> \in V4Octets /\ <<192, 0, 0, 255>> \in V4Octets
    BY DEF V4Octets, Octet
  <2> QED
    BY <1>1, <2>1, Lexicographic, SMTT(30) DEF Between
<1>9. Between(<<192, 0, 2, 0>>, <<192, 0, 2, 255>>, o) <=> o[1] = 192 /\ o[2] = 0 /\ o[3] = 2
  <2>1. <<192, 0, 2, 0>> \in V4Octets /\ <<192, 0, 2, 255>> \in V4Octets
    BY DEF V4Octets, Octet
  <2> QED
    BY <1>1, <2>1, Lexicographic, SMTT(30) DEF Between
<1>10. Between(<<192, 168, 0, 0>>, <<192, 168, 255, 255>>, o) <=> o[1] = 192 /\ o[2] = 168
  <2>1. <<192, 168, 0, 0>> \in V4Octets /\ <<192, 168, 255, 255>> \in V4Octets
    BY DEF V4Octets, Octet
  <2> QED
    BY <1>1, <2>1, Lexicographic, SMTT(30) DEF Between
<1>11. Between(<<198, 18, 0, 0>>, <<198, 19, 255, 255>>, o) <=> o[1] = 198 /\ o[2] \in 18 .. 19
  <2>1. <<198, 18, 0, 0>> \in V4Octets /\ <<198, 19, 255, 255>> \in V4Octets
    BY DEF V4Octets, Octet
  <2> QED
    BY <1>1, <2>1, Lexicographic, SMTT(30) DEF Between
<1>12. Between(<<198, 51, 100, 0>>, <<198, 51, 100, 255>>, o) <=> o[1] = 198 /\ o[2] = 51 /\ o[3] = 100
  <2>1. <<198, 51, 100, 0>> \in V4Octets /\ <<198, 51, 100, 255>> \in V4Octets
    BY DEF V4Octets, Octet
  <2> QED
    BY <1>1, <2>1, Lexicographic, SMTT(30) DEF Between
<1>13. Between(<<203, 0, 113, 0>>, <<203, 0, 113, 255>>, o) <=> o[1] = 203 /\ o[2] = 0 /\ o[3] = 113
  <2>1. <<203, 0, 113, 0>> \in V4Octets /\ <<203, 0, 113, 255>> \in V4Octets
    BY DEF V4Octets, Octet
  <2> QED
    BY <1>1, <2>1, Lexicographic, SMTT(30) DEF Between
<1>14. Between(<<224, 0, 0, 0>>, <<255, 255, 255, 255>>, o) <=> o[1] \in 224 .. 255
  <2>1. <<224, 0, 0, 0>> \in V4Octets /\ <<255, 255, 255, 255>> \in V4Octets
    BY DEF V4Octets, Octet
  <2> QED
    BY <1>1, <2>1, Lexicographic, SMTT(30) DEF Between
<1> QED
  BY <1>2, <1>3, <1>4, <1>5, <1>6, <1>7, <1>8, <1>9, <1>10, <1>11, <1>12, <1>13, <1>14

\* The networks are the documented ranges (url_validation.rs:259-276).
LEMMA PrivateIsInternal ==
    ASSUME NEW o \in V4Octets
    PROVE  IsPrivateOrLoopback(o) <=> InInternalRange(o)
<1>1. o[1] \in 0 .. 255
  BY DEF V4Octets, Octet
<1>2. IsPrivateOrLoopback(o) <=>
         \/ InNetwork(o, <<0, 0, 0, 0>>, 8)
         \/ InNetwork(o, <<10, 0, 0, 0>>, 8)
         \/ InNetwork(o, <<100, 64, 0, 0>>, 10)
         \/ InNetwork(o, <<127, 0, 0, 0>>, 8)
         \/ InNetwork(o, <<169, 254, 0, 0>>, 16)
         \/ InNetwork(o, <<172, 16, 0, 0>>, 12)
         \/ InNetwork(o, <<192, 0, 0, 0>>, 24)
         \/ InNetwork(o, <<192, 0, 2, 0>>, 24)
         \/ InNetwork(o, <<192, 168, 0, 0>>, 16)
         \/ InNetwork(o, <<198, 18, 0, 0>>, 15)
         \/ InNetwork(o, <<198, 51, 100, 0>>, 24)
         \/ InNetwork(o, <<203, 0, 113, 0>>, 24)
         \/ InNetwork(o, <<224, 0, 0, 0>>, 4)
         \/ InNetwork(o, <<240, 0, 0, 0>>, 4)
  BY DEF IsPrivateOrLoopback, PrivateNetworks
<1>3. InInternalRange(o) <=>
         \/ Between(<<0, 0, 0, 0>>, <<0, 255, 255, 255>>, o)
         \/ Between(<<10, 0, 0, 0>>, <<10, 255, 255, 255>>, o)
         \/ Between(<<100, 64, 0, 0>>, <<100, 127, 255, 255>>, o)
         \/ Between(<<127, 0, 0, 0>>, <<127, 255, 255, 255>>, o)
         \/ Between(<<169, 254, 0, 0>>, <<169, 254, 255, 255>>, o)
         \/ Between(<<172, 16, 0, 0>>, <<172, 31, 255, 255>>, o)
         \/ Between(<<192, 0, 0, 0>>, <<192, 0, 0, 255>>, o)
         \/ Between(<<192, 0, 2, 0>>, <<192, 0, 2, 255>>, o)
         \/ Between(<<192, 168, 0, 0>>, <<192, 168, 255, 255>>, o)
         \/ Between(<<198, 18, 0, 0>>, <<198, 19, 255, 255>>, o)
         \/ Between(<<198, 51, 100, 0>>, <<198, 51, 100, 255>>, o)
         \/ Between(<<203, 0, 113, 0>>, <<203, 0, 113, 255>>, o)
         \/ Between(<<224, 0, 0, 0>>, <<255, 255, 255, 255>>, o)
  BY DEF InInternalRange, InternalRanges, Between
<1> QED
  BY <1>1, <1>2, <1>3, NetworkOctets, RangeOctets

\* A segment is a number of 16 bits.
LEMMA SegmentRange ==
    ASSUME NEW s \in Segment
    PROVE  s \in Int /\ 0 <= s /\ s <= 65535
BY DEF Segment

\* Two segments spell four octets.
LEMMA OctetsOfSegments ==
    ASSUME NEW high \in Segment, NEW low \in Segment
    PROVE  Octets(high, low) \in V4Octets
<1>1. ASSUME NEW s \in Segment
      PROVE  s \div 256 \in Octet /\ s % 256 \in Octet
  <2>1. s \in Int /\ 0 <= s /\ s <= 65535
    BY SegmentRange
  <2>2. s \div 256 \in Octet
    BY <2>1 DEF Octet
  <2>3. s % 256 \in Octet
    BY <2>1 DEF Octet
  <2> QED
    BY <2>2, <2>3
<1>2. ASSUME NEW a \in Octet, NEW b \in Octet, NEW c \in Octet, NEW d \in Octet
      PROVE  <<a, b, c, d>> \in V4Octets
  BY DEF V4Octets
<1>3. <<high \div 256, high % 256, low \div 256, low % 256>> \in V4Octets
  BY <1>1, <1>2
<1> QED
  BY <1>3 DEF Octets

\* The beginning of an IPv6 address, segment by segment.
LEMMA Beginnings ==
    ASSUME NEW p \in [1 .. 8 -> Segment]
    PROVE  /\ SubSeq(p, 1, 2) = <<8193, 3512>> <=> p[1] = 8193 /\ p[2] = 3512
           /\ SubSeq(p, 1, 6) \in {<<0, 0, 0, 0, 0, 0>>, <<0, 0, 0, 0, 0, 65535>>}
                 <=> EmbedsIpv4(p)
<1>1. ASSUME NEW n \in 1 .. 8
      PROVE  /\ SubSeq(p, 1, n) \in Seq(Segment) /\ Len(SubSeq(p, 1, n)) = n
             /\ \A i \in 1 .. n : SubSeq(p, 1, n)[i] = p[i]
  <2>1. \A i \in 1 .. n : p[i] \in Segment
    OBVIOUS
  <2>2. /\ SubSeq(p, 1, n) \in Seq(Segment)
        /\ Len(SubSeq(p, 1, n)) = IF 1 <= n THEN n - 1 + 1 ELSE 0
        /\ \A i \in 1 .. n - 1 + 1 : SubSeq(p, 1, n)[i] = p[1 + i - 1]
    BY <2>1, SubSeqProperties
  <2> QED
    BY <2>2
<1>2. \A q \in Seq(Segment) : Len(q) = 2 => (q = <<8193, 3512>> <=> q[1] = 8193 /\ q[2] = 3512)
  OBVIOUS
<1>3. \A q \in Seq(Segment) : \A x : Len(q) = 6 =>
         (q = <<0, 0, 0, 0, 0, x>> <=> (\A i \in 1 .. 5 : q[i] = 0) /\ q[6] = x)
  OBVIOUS
<1>4. SubSeq(p, 1, 2) = <<8193, 3512>> <=> p[1] = 8193 /\ p[2] = 3512
  <2> DEFINE q == SubSeq(p, 1, 2)
  <2>1. q \in Seq(Segment) /\ Len(q) = 2 /\ \A i \in 1 .. 2 : q[i] = p[i]
    BY <1>1
  <2> HIDE DEF q
  <2>2. q = <<8193, 3512>> <=> p[1] = 8193 /\ p[2] = 3512
    BY <1>2, <2>1
  <2> QED
    BY <2>2 DEF q
<1>5. ASSUME NEW x
      PROVE  SubSeq(p, 1, 6) = <<0, 0, 0, 0, 0, x>> <=> (\A i \in 1 .. 5 : p[i] = 0) /\ p[6] = x
  <2> DEFINE q == SubSeq(p, 1, 6)
  <2>1. q \in Seq(Segment) /\ Len(q) = 6 /\ \A i \in 1 .. 6 : q[i] = p[i]
    BY <1>1
  <2> HIDE DEF q
  <2>2. q = <<0, 0, 0, 0, 0, x>> <=> (\A i \in 1 .. 5 : q[i] = 0) /\ q[6] = x
    BY <1>3, <2>1
  <2>3. q = <<0, 0, 0, 0, 0, x>> <=> (\A i \in 1 .. 5 : p[i] = 0) /\ p[6] = x
    BY <2>1, <2>2
  <2> QED
    BY <2>3 DEF q
<1> QED
  BY <1>4, <1>5 DEF EmbedsIpv4

\* is_blocked_ip refuses the addresses that must not be reached, in either
\* family, and no other (url_validation.rs:199-256).
THEOREM BlockedIsInternal ==
    ASSUME NEW address \in IpAddr
    PROVE  IsBlockedIp(address) <=> IsInternal(address)
<1> DEFINE p == address.parts
<1>1. CASE address.family = 4 /\ p \in V4Octets
  BY <1>1, PrivateIsInternal DEF IsBlockedIp, IsInternal
<1>2. CASE address.family = 6 /\ p \in [1 .. 8 -> Segment]
  <2> HIDE DEF p
  <2>1. \A i \in 1 .. 8 : p[i] \in Segment
    BY <1>2
  <2>2. ASSUME NEW i \in 1 .. 7
        PROVE  IsPrivateOrLoopback(Octets(p[i], p[i + 1])) <=> InInternalRange(Octets(p[i], p[i + 1]))
    BY <2>1, OctetsOfSegments, PrivateIsInternal
  <2>3. /\ IsPrivateOrLoopback(Octets(p[2], p[3])) <=> InInternalRange(Octets(p[2], p[3]))
        /\ IsPrivateOrLoopback(Octets(p[7], p[8])) <=> InInternalRange(Octets(p[7], p[8]))
    BY <2>2
  <2>4. p[1] \in Int /\ 0 <= p[1] /\ p[1] <= 65535
    BY <2>1, SegmentRange
  <2>5. /\ p[1] \div 2 ^ 9 = 64512 \div 2 ^ 9 <=> p[1] \in 64512 .. 65023
        /\ p[1] \div 2 ^ 6 = 65152 \div 2 ^ 6 <=> p[1] \in 65152 .. 65215
        /\ p[1] \div 2 ^ 8 = 255 <=> p[1] \in 65280 .. 65535
    <3> DEFINE s == p[1]
    <3>1. s \in Int /\ 0 <= s /\ s <= 65535
      BY <2>4
    <3> HIDE DEF s
    <3>2. s \div 2 ^ 9 = 64512 \div 2 ^ 9 <=> s \in 64512 .. 65023
      BY <3>1
    <3>3. s \div 2 ^ 6 = 65152 \div 2 ^ 6 <=> s \in 65152 .. 65215
      BY <3>1
    <3>4. s \div 2 ^ 8 = 255 <=> s \in 65280 .. 65535
      BY <3>1
    <3> QED
      BY <3>2, <3>3, <3>4 DEF s
  <2>6. IsReservedIpv6(p) <=>
           \/ p[1] \in (64512 .. 65023) \cup (65152 .. 65215) \cup (65280 .. 65535)
           \/ p[1] = 8193 /\ p[2] = 3512
           \/ p[1] = 8194 /\ InInternalRange(Octets(p[2], p[3]))
    BY <2>3, <2>5 DEF IsReservedIpv6
  <2>7. IsInternal(address) <=>
           \/ p[1] \in (64512 .. 65023) \cup (65152 .. 65215) \cup (65280 .. 65535)
           \/ p[1] = 8193 /\ p[2] = 3512
           \/ p[1] = 8194 /\ InInternalRange(Octets(p[2], p[3]))
           \/ EmbedsIpv4(p) /\ InInternalRange(Octets(p[7], p[8]))
    BY <1>2, Beginnings DEF IsInternal, p
  <2>8. IsBlockedIp(address) <=>
           IF EmbedsIpv4(p) THEN IsPrivateOrLoopback(Octets(p[7], p[8]))
           ELSE (\A i \in 1 .. 8 : p[i] = 0) \/ IsReservedIpv6(p)
    BY <1>2 DEF IsBlockedIp, IsIpv6LoopbackOrMulticast, EmbeddedIpv4, p
  <2>9. EmbedsIpv4(p) => p[1] = 0
    BY DEF EmbedsIpv4
  <2>10. (\A i \in 1 .. 8 : p[i] = 0) => EmbedsIpv4(p)
    BY DEF EmbedsIpv4
  <2> QED
    BY <2>3, <2>6, <2>7, <2>8, <2>9, <2>10, SMTT(30)
<1> QED
  BY <1>1, <1>2 DEF IpAddr, V4Octets

-----------------------------------------------------------------------------
\* A set of positions has a first one.
LEMMA FirstOf ==
    ASSUME NEW S \in SUBSET Nat, S # {}
    PROVE  \E x \in S : \A y \in S : x <= y
<1> DEFINE Before == {pair \in Nat \X Nat : pair[1] < pair[2]}
<1>1. IsWellFoundedOn(Before, Nat)
  BY NatLessThanWellFounded DEF OpToRel
<1>2. \A x, y \in Nat : ~(<<y, x>> \in Before) => x <= y
  OBVIOUS
<1> HIDE DEF Before
<1>3. PICK x \in S : \A y \in S : ~(<<y, x>> \in Before)
  BY <1>1, WFMin
<1> QED
  BY <1>2, <1>3

\* The checks of a request or a hop; none of their errors is "ok".
CheckErrors == {"UrlError", "InvalidScheme", "InvalidPort", "InvalidHost", "MissingConfig",
                "PrivateNetworkAccess", "TooManyRedirects", "RedirectBlocked", "HostNotAllowed"}

Check == [fails : BOOLEAN, error : CheckErrors]

\* A list of checks refuses nothing only if none of them fails, and else with the
\* error of one that does.
LEMMA RefusesNothing ==
    ASSUME NEW checks \in Seq(Check)
    PROVE  /\ Refusal(checks) = "ok" <=> \A i \in 1 .. Len(checks) : ~checks[i].fails
           /\ Refusal(checks) # "ok" =>
                 /\ Refusal(checks) \in CheckErrors
                 /\ \E i \in 1 .. Len(checks) :
                       checks[i].fails /\ checks[i].error = Refusal(checks)
<1> DEFINE first(i) == checks[i].fails /\ \A j \in 1 .. i - 1 : ~checks[j].fails
<1>1. /\ DOMAIN checks = 1 .. Len(checks)
      /\ Len(checks) \in Nat
      /\ \A i \in 1 .. Len(checks) : checks[i] \in Check
  OBVIOUS
<1>2. ASSUME \E i \in 1 .. Len(checks) : checks[i].fails
      PROVE  \E i \in 1 .. Len(checks) : first(i)
  <2> DEFINE failed == {i \in 1 .. Len(checks) : checks[i].fails}
  <2>1. failed \in SUBSET Nat /\ failed # {}
    BY <1>1, <1>2
  <2>2. PICK x \in failed : \A y \in failed : x <= y
    BY <2>1, FirstOf
  <2>3. \A j \in 1 .. x - 1 : j \in 1 .. Len(checks) /\ ~(x <= j)
    BY <1>1, <2>2
  <2> QED
    BY <2>2, <2>3
<1>3. Refusal(checks) = IF \A i \in 1 .. Len(checks) : ~checks[i].fails THEN "ok"
                        ELSE checks[CHOOSE i \in 1 .. Len(checks) : first(i)].error
  BY <1>1 DEF Refusal
<1>4. \A i : first(i) => checks[i].fails
  OBVIOUS
<1> HIDE DEF first
<1>5. ASSUME \E i \in 1 .. Len(checks) : checks[i].fails
      PROVE  /\ Refusal(checks) # "ok" /\ Refusal(checks) \in CheckErrors
             /\ \E i \in 1 .. Len(checks) :
                   checks[i].fails /\ checks[i].error = Refusal(checks)
  <2>1. PICK i \in 1 .. Len(checks) : first(i) /\ Refusal(checks) = checks[i].error
    BY <1>2, <1>3, <1>5
  <2>2. checks[i].error \in CheckErrors
    BY <1>1, <2>1 DEF Check
  <2> QED
    BY <1>4, <2>1, <2>2 DEF CheckErrors
<1> QED
  BY <1>3, <1>5

\* One list after another.
LEMMA RefusalOfBoth ==
    ASSUME NEW a \in Seq(Check), NEW b \in Seq(Check)
    PROVE  /\ a \o b \in Seq(Check)
           /\ Refusal(a \o b) = "ok" <=> Refusal(a) = "ok" /\ Refusal(b) = "ok"
<1>1. /\ a \o b \in Seq(Check)
      /\ Len(a \o b) = Len(a) + Len(b) /\ Len(a) \in Nat /\ Len(b) \in Nat
      /\ \A i \in 1 .. Len(a) + Len(b) :
            (a \o b)[i] = IF i <= Len(a) THEN a[i] ELSE b[i - Len(a)]
  BY ConcatProperties, LenProperties
<1>2. (\A i \in 1 .. Len(a \o b) : ~(a \o b)[i].fails) <=>
         /\ \A i \in 1 .. Len(a) : ~a[i].fails
         /\ \A i \in 1 .. Len(b) : ~b[i].fails
  <2>1. ASSUME \A i \in 1 .. Len(a \o b) : ~(a \o b)[i].fails, NEW j \in 1 .. Len(b)
        PROVE  ~b[j].fails
    <3>1. /\ Len(a) + j \in 1 .. Len(a) + Len(b)
          /\ ~(Len(a) + j <= Len(a)) /\ Len(a) + j - Len(a) = j
      BY <1>1
    <3>2. (a \o b)[Len(a) + j] = b[j]
      BY <1>1, <3>1
    <3> QED
      BY <1>1, <2>1, <3>1, <3>2
  <2>2. ASSUME \A i \in 1 .. Len(a \o b) : ~(a \o b)[i].fails, NEW j \in 1 .. Len(a)
        PROVE  ~a[j].fails
    <3>1. j \in 1 .. Len(a) + Len(b) /\ j <= Len(a)
      BY <1>1
    <3> QED
      BY <1>1, <2>2, <3>1
  <2>3. ASSUME \A i \in 1 .. Len(a) : ~a[i].fails, \A i \in 1 .. Len(b) : ~b[i].fails,
               NEW j \in 1 .. Len(a \o b)
        PROVE  ~(a \o b)[j].fails
    <3>1. \/ j \in 1 .. Len(a) /\ j <= Len(a)
          \/ j - Len(a) \in 1 .. Len(b) /\ ~(j <= Len(a))
      BY <1>1
    <3> QED
      BY <1>1, <2>3, <3>1
  <2> QED
    BY <2>1, <2>2, <2>3
<1> QED
  BY <1>1, <1>2, RefusesNothing

\* What validate_url() lets pass (url_validation.rs:499-553).
LEMMA ValidUrl ==
    ASSUME NEW target, target.user \in BOOLEAN
    PROVE  /\ ValidateUrl(target) \in Seq(Check)
           /\ Refusal(ValidateUrl(target)) = "ok" <=>
                 /\ target.page \notin DangerousPages
                 /\ target.scheme \in {"http", "https"}
                 /\ ~target.user /\ target.port # 0
                 /\ target.host \notin InvalidDomains \cup ReservedDomains \cup BlockedLiterals
<1>1. /\ ValidateUrl(target) \in Seq(Check)
      /\ Len(ValidateUrl(target)) = 6
  BY DEF ValidateUrl, Check, CheckErrors
<1>2. /\ ValidateUrl(target)[1].fails <=> target.page \in DangerousPages
      /\ ValidateUrl(target)[2].fails <=> target.scheme \notin {"http", "https"}
      /\ ValidateUrl(target)[3].fails <=> target.user
      /\ ValidateUrl(target)[4].fails <=> target.port = 0
      /\ ValidateUrl(target)[5].fails <=> target.host \in InvalidDomains
      /\ ValidateUrl(target)[6].fails <=> target.host \in ReservedDomains \cup BlockedLiterals
  BY DEF ValidateUrl
<1>3. (\A i \in 1 .. 6 : ~ValidateUrl(target)[i].fails) <=>
         /\ ~ValidateUrl(target)[1].fails /\ ~ValidateUrl(target)[2].fails
         /\ ~ValidateUrl(target)[3].fails /\ ~ValidateUrl(target)[4].fails
         /\ ~ValidateUrl(target)[5].fails /\ ~ValidateUrl(target)[6].fails
  OBVIOUS
<1> QED
  BY <1>1, <1>2, <1>3, RefusesNothing

-----------------------------------------------------------------------------
\* Of a finite set of positions, each number up to its size is the rank of one,
\* and later positions rank higher.
LEMMA RanksCount ==
    ASSUME NEW S \in SUBSET Nat, IsFiniteSet(S)
    PROVE  /\ Cardinality(S) \in Nat
           /\ \A i \in S : Rank(S, i) \in 1 .. Cardinality(S)
           /\ \A i, j \in S : i < j => Rank(S, i) < Rank(S, j)
           /\ \A n \in 1 .. Cardinality(S) : \E i \in S : Rank(S, i) = n
<1> DEFINE upTo(i) == {j \in S : j <= i}
           rank == [i \in S |-> Rank(S, i)]
<1>1. Cardinality(S) \in Nat
  BY FS_CardinalityType
<1>2. ASSUME NEW i \in S
      PROVE  IsFiniteSet(upTo(i)) /\ Cardinality(upTo(i)) \in 1 .. Cardinality(S)
  <2>1. upTo(i) \in SUBSET S /\ upTo(i) # {}
    OBVIOUS
  <2>2. /\ IsFiniteSet(upTo(i)) /\ Cardinality(upTo(i)) <= Cardinality(S)
    BY <2>1, FS_Subset
  <2>3. Cardinality(upTo(i)) \in Nat /\ Cardinality(upTo(i)) # 0
    BY <2>1, <2>2, FS_CardinalityType, FS_EmptySet
  <2> QED
    BY <1>1, <2>2, <2>3
<1>3. ASSUME NEW i \in S, NEW j \in S, i < j
      PROVE  Rank(S, i) < Rank(S, j)
  <2>0. S \subseteq Nat /\ i \in Nat /\ j \in Nat
    OBVIOUS
  <2>1. upTo(i) \in SUBSET upTo(j) /\ j \in upTo(j) /\ j \notin upTo(i)
    <3>1. \A k \in Nat : k <= i => k <= j
      BY <1>3, <2>0
    <3>2. j <= j /\ ~(j <= i)
      BY <1>3, <2>0
    <3> QED
      BY <2>0, <3>1, <3>2
  <2>2. upTo(i) # upTo(j)
    BY <2>1
  <2>3. /\ Cardinality(upTo(i)) <= Cardinality(upTo(j))
        /\ Cardinality(upTo(i)) # Cardinality(upTo(j))
    BY <1>2, <2>1, <2>2, FS_Subset
  <2>4. Cardinality(upTo(i)) \in Int /\ Cardinality(upTo(j)) \in Int
    BY <1>1, <1>2
  <2> QED
    BY <2>3, <2>4 DEF Rank
<1>4. \A i \in S : Rank(S, i) \in 1 .. Cardinality(S)
  BY <1>2 DEF Rank
<1>5. rank \in Injection(S, 1 .. Cardinality(S))
  <2>1. rank \in [S -> 1 .. Cardinality(S)]
    BY <1>4
  <2>2. \A i, j \in S : i # j => rank[i] # rank[j]
    <3>1. ASSUME NEW i \in S, NEW j \in S, i < j
          PROVE  rank[i] # rank[j]
      BY <1>1, <1>3, <1>4, <3>1
    <3> QED
      BY <3>1
  <2> QED
    BY <2>1, <2>2 DEF Injection, IsInjective
<1>6. rank \in Surjection(S, 1 .. Cardinality(S))
  <2>1. /\ IsFiniteSet(1 .. Cardinality(S))
        /\ Cardinality(1 .. Cardinality(S)) = Cardinality(S)
    BY <1>1, FS_Interval
  <2> QED
    BY <1>5, <2>1, FS_Injection
<1>7. \A n \in 1 .. Cardinality(S) : \E i \in S : Rank(S, i) = n
  BY <1>6 DEF Surjection
<1> QED
  BY <1>1, <1>3, <1>4, <1>7

\* Nth() goes through a set of positions in order.
LEMMA NthInOrder ==
    ASSUME NEW S \in SUBSET Nat, IsFiniteSet(S)
    PROVE  /\ Cardinality(S) \in Nat
           /\ \A n \in 1 .. Cardinality(S) : Nth(S, n) \in S
           /\ \A m, n \in 1 .. Cardinality(S) : m < n => Nth(S, m) < Nth(S, n)
           /\ \A i \in S : Nth(S, Rank(S, i)) = i /\ Rank(S, i) \in 1 .. Cardinality(S)
<1> DEFINE size == Cardinality(S)
<1>1. /\ size \in Nat
      /\ \A i \in S : Rank(S, i) \in 1 .. size
      /\ \A i, j \in S : i < j => Rank(S, i) < Rank(S, j)
      /\ \A n \in 1 .. size : \E i \in S : Rank(S, i) = n
  BY RanksCount
<1> HIDE DEF size
<1>2. \A n \in 1 .. size : Nth(S, n) \in S /\ Rank(S, Nth(S, n)) = n
  BY <1>1 DEF Nth
<1>3. ASSUME NEW i \in S, NEW j \in S, Rank(S, i) <= Rank(S, j)
      PROVE  i <= j
  <2>1. i \in Nat /\ j \in Nat
    OBVIOUS
  <2>2. Rank(S, i) \in 1 .. size /\ Rank(S, j) \in 1 .. size
    BY <1>1
  <2>3. ~(j < i)
    BY <1>1, <1>3, <2>2
  <2> QED
    BY <2>1, <2>3
<1>4. \A i \in S : Nth(S, Rank(S, i)) = i
  <2> SUFFICES ASSUME NEW i \in S
               PROVE  Nth(S, Rank(S, i)) = i
    OBVIOUS
  <2> DEFINE other == Nth(S, Rank(S, i))
  <2>1. other \in S /\ Rank(S, other) = Rank(S, i) /\ Rank(S, i) \in 1 .. size
    BY <1>1, <1>2
  <2> HIDE DEF other
  <2>2. i <= other /\ other <= i
    BY <1>1, <1>3, <2>1
  <2>3. i \in Nat /\ other \in Nat
    BY <2>1
  <2> QED
    BY <2>2, <2>3 DEF other
<1>5. ASSUME NEW m \in 1 .. size, NEW n \in 1 .. size, m < n
      PROVE  Nth(S, m) < Nth(S, n)
  <2>1. Nth(S, m) \in S /\ Nth(S, n) \in S
    BY <1>2
  <2>2. Nth(S, m) \in Nat /\ Nth(S, n) \in Nat
    BY <2>1
  <2>3. ~(Nth(S, n) <= Nth(S, m))
    <3>1. Nth(S, n) <= Nth(S, m) => n <= m
      <4> SUFFICES ASSUME Nth(S, n) <= Nth(S, m)
                   PROVE  n <= m
        OBVIOUS
      <4>1. CASE Nth(S, n) = Nth(S, m)
        BY <1>2, <4>1
      <4>2. CASE Nth(S, n) < Nth(S, m)
        <5>1. Rank(S, Nth(S, n)) < Rank(S, Nth(S, m))
          BY <1>1, <2>1, <4>2
        <5>2. n < m
          BY <1>2, <5>1
        <5> QED
          BY <5>2
      <4> QED
        BY <2>2, <4>1, <4>2
    <3> QED
      BY <1>5, <3>1
  <2> QED
    BY <2>2, <2>3
<1> QED
  BY <1>1, <1>2, <1>4, <1>5 DEF size

\* Whatever goes through a set of positions in order does so as Nth() does.
LEMMA NthIsUnique ==
    ASSUME NEW S \in SUBSET Nat, NEW N \in Nat, NEW f \in [1 .. N -> S],
           \A m, n \in 1 .. N : m < n => f[m] < f[n],
           \A i \in S : \E n \in 1 .. N : f[n] = i
    PROVE  IsFiniteSet(S) /\ Cardinality(S) = N /\ \A n \in 1 .. N : Nth(S, n) = f[n]
<1>1. ASSUME NEW m \in 1 .. N, NEW n \in 1 .. N
      PROVE  (f[m] <= f[n] <=> m <= n) /\ (f[m] = f[n] => m = n)
  <2>1. f[m] \in S /\ f[n] \in S
    OBVIOUS
  <2>2. f[m] \in Nat /\ f[n] \in Nat
    BY <2>1
  <2>3. m < n \/ m = n \/ n < m
    OBVIOUS
  <2> QED
    BY <2>2, <2>3
<1>2. ASSUME NEW n \in 0 .. N
      PROVE  /\ IsFiniteSet({f[m] : m \in 1 .. n})
             /\ Cardinality({f[m] : m \in 1 .. n}) = n
  <2> DEFINE T == {f[m] : m \in 1 .. n}
             g == [m \in 1 .. n |-> f[m]]
  <2>1. \A m \in 1 .. n : m \in 1 .. N
    OBVIOUS
  <2>2. g \in Bijection(1 .. n, T)
    <3>1. g \in [1 .. n -> T] /\ \A t \in T : \E m \in 1 .. n : g[m] = t
      OBVIOUS
    <3>2. \A k, m \in 1 .. n : g[k] = g[m] => k = m
      BY <1>1, <2>1
    <3> QED
      BY <3>1, <3>2 DEF Bijection, Injection, Surjection, IsInjective
  <2>3. IsFiniteSet(1 .. n) /\ Cardinality(1 .. n) = n
    BY FS_Interval
  <2> HIDE DEF T, g
  <2>4. ExistsBijection(1 .. n, T)
    BY <2>2 DEF ExistsBijection
  <2>5. IsFiniteSet(T) /\ Cardinality(T) = n
    BY <2>3, <2>4, FS_Bijection
  <2> QED
    BY <2>5 DEF T
<1>3. S = {f[m] : m \in 1 .. N}
  OBVIOUS
<1>4. IsFiniteSet(S) /\ Cardinality(S) = N
  BY <1>2, <1>3
<1>5. ASSUME NEW n \in 1 .. N
      PROVE  Rank(S, f[n]) = n
  <2>1. {j \in S : j <= f[n]} = {f[m] : m \in 1 .. n}
    <3>1. \A j \in S : j <= f[n] => \E m \in 1 .. n : j = f[m]
      <4> SUFFICES ASSUME NEW j \in S, j <= f[n]
                   PROVE  \E m \in 1 .. n : j = f[m]
        OBVIOUS
      <4>1. PICK m \in 1 .. N : f[m] = j
        OBVIOUS
      <4>2. m <= n
        BY <1>1, <4>1
      <4> QED
        BY <4>1, <4>2
    <3>2. \A m \in 1 .. n : f[m] \in S /\ f[m] <= f[n]
      <4> SUFFICES ASSUME NEW m \in 1 .. n
                   PROVE  f[m] \in S /\ f[m] <= f[n]
        OBVIOUS
      <4>1. m \in 1 .. N /\ m <= n
        OBVIOUS
      <4> QED
        BY <1>1, <4>1
    <3> QED
      BY <3>1, <3>2
  <2>2. n \in 0 .. N
    OBVIOUS
  <2> QED
    BY <1>2, <2>1, <2>2 DEF Rank
<1>6. ASSUME NEW n \in 1 .. N
      PROVE  Nth(S, n) = f[n]
  <2>1. f[n] \in S
    OBVIOUS
  <2>2. Nth(S, Rank(S, f[n])) = f[n]
    BY <1>4, <2>1, NthInOrder
  <2> QED
    BY <1>5, <2>2
<1> QED
  BY <1>4, <1>6

-----------------------------------------------------------------------------
\* What hosts and patterns are made of, and two of them with a dot between.
Pieces == {".", "*", "[", "]", " "} \cup UNION {Range(text) : text \in Hosts \cup Patterns}

Texts == Seq(Pieces)

Dotted(a, b) == a \o <<".">> \o b

\* A slice of a text is one.
LEMMA SliceIsText ==
    ASSUME NEW s \in Texts, NEW m \in Int, NEW n \in Int, 1 <= m, n <= Len(s)
    PROVE  /\ SubSeq(s, m, n) \in Texts
           /\ Len(SubSeq(s, m, n)) = IF m <= n THEN n - m + 1 ELSE 0
           /\ \A i \in 1 .. n - m + 1 : SubSeq(s, m, n)[i] = s[m + i - 1]
<1>1. \A i \in m .. n : s[i] \in Pieces
  <2> SUFFICES ASSUME NEW i \in m .. n
               PROVE  s[i] \in Pieces
    OBVIOUS
  <2>1. i \in 1 .. Len(s)
    BY DEF Texts
  <2> QED
    BY <2>1 DEF Texts
<1> QED
  BY <1>1, SubSeqProperties DEF Texts

\* Slices of two texts that agree piece by piece.
LEMMA SlicesAgree ==
    ASSUME NEW s \in Texts, NEW t \in Texts, NEW m \in Int, NEW n \in Int, NEW k \in Int,
           1 <= m, n <= Len(s), 1 <= m + k, n + k <= Len(t),
           \A i \in m .. n : s[i] = t[i + k]
    PROVE  SubSeq(s, m, n) = SubSeq(t, m + k, n + k)
<1> DEFINE a == SubSeq(s, m, n)
           b == SubSeq(t, m + k, n + k)
<1>1. /\ a \in Texts /\ Len(a) = IF m <= n THEN n - m + 1 ELSE 0
      /\ \A i \in 1 .. n - m + 1 : a[i] = s[m + i - 1]
  BY SliceIsText
<1>2. /\ b \in Texts /\ Len(b) = IF m + k <= n + k THEN (n + k) - (m + k) + 1 ELSE 0
      /\ \A i \in 1 .. (n + k) - (m + k) + 1 : b[i] = t[(m + k) + i - 1]
  BY SliceIsText
<1> HIDE DEF a, b
<1>3. Len(a) = Len(b)
  BY <1>1, <1>2
<1>4. ASSUME NEW i \in 1 .. Len(a)
      PROVE  a[i] = b[i]
  <2>1. /\ i \in 1 .. n - m + 1 /\ i \in 1 .. (n + k) - (m + k) + 1
        /\ m + i - 1 \in m .. n /\ (m + k) + i - 1 = (m + i - 1) + k
    BY <1>1
  <2>2. a[i] = s[m + i - 1] /\ b[i] = t[(m + i - 1) + k]
    BY <1>1, <1>2, <2>1
  <2> QED
    BY <2>1, <2>2
<1> QED
  BY <1>1, <1>2, <1>3, <1>4, SeqEqual DEF Texts, a, b

\* Labels end one after another, the last one with the name.
LEMMA LabelsInOrder ==
    ASSUME NEW host \in Texts
    PROVE  LET N == Cardinality(Ends(host)) IN
           /\ N \in Nat /\ N >= 1
           /\ Ends(host) \in SUBSET (1 .. Len(host) + 1)
           /\ \A n \in 1 .. N : EndOf(host, n) \in Ends(host)
           /\ \A m, n \in 1 .. N : m < n => EndOf(host, m) < EndOf(host, n)
           /\ \A i \in Ends(host) : \E n \in 1 .. N : EndOf(host, n) = i
           /\ EndOf(host, 0) = 0 /\ EndOf(host, N) = Len(host) + 1
<1> DEFINE S == Ends(host)
           N == Cardinality(S)
<1>1. Len(host) \in Nat
  BY DEF Texts
<1>2. S \in SUBSET (1 .. Len(host) + 1) /\ Len(host) + 1 \in S
  BY <1>1 DEF Ends
<1> HIDE DEF S
<1>3. S \in SUBSET Nat /\ IsFiniteSet(S)
  <2>1. IsFiniteSet(1 .. Len(host) + 1) /\ 1 .. Len(host) + 1 \subseteq Nat
    BY <1>1, FS_Interval
  <2> QED
    BY <1>2, <2>1, FS_Subset
<1>4. /\ N \in Nat
      /\ \A n \in 1 .. N : Nth(S, n) \in S
      /\ \A m, n \in 1 .. N : m < n => Nth(S, m) < Nth(S, n)
      /\ \A i \in S : Nth(S, Rank(S, i)) = i /\ Rank(S, i) \in 1 .. N
  BY <1>3, NthInOrder
<1> HIDE DEF N
<1>5. /\ \A n \in 1 .. N : EndOf(host, n) = Nth(S, n)
      /\ EndOf(host, 0) = 0
  BY DEF EndOf, S
<1>6. N >= 1
  BY <1>2, <1>4
<1>7. EndOf(host, N) = Len(host) + 1
  <2> DEFINE r == Rank(S, Len(host) + 1)
  <2>1. r \in 1 .. N /\ Nth(S, r) = Len(host) + 1
    BY <1>2, <1>4
  <2>2. N \in 1 .. N /\ Nth(S, N) \in S
    BY <1>4, <1>6
  <2>3. Nth(S, N) \in 1 .. Len(host) + 1
    BY <1>2, <2>2
  <2> HIDE DEF r
  <2>4. ~(r < N)
    BY <1>1, <1>4, <2>1, <2>2, <2>3
  <2>5. r = N
    BY <1>4, <2>1, <2>4
  <2> QED
    BY <1>5, <2>1, <2>2, <2>5
<1> QED
  BY <1>2, <1>4, <1>5, <1>6, <1>7 DEF N, S

\* The labels of a name, and their kind.
LEMMA LabelsAreTexts ==
    ASSUME NEW host \in Texts
    PROVE  /\ Labels(host) \in Seq(Texts) /\ Labels(host) # <<>>
           /\ Len(Labels(host)) = Cardinality(Ends(host))
           /\ Len(Labels(host)) \in Nat /\ Len(Labels(host)) >= 1
           /\ \A n \in 1 .. Len(Labels(host)) :
                 Labels(host)[n] = SubSeq(host, EndOf(host, n - 1) + 1, EndOf(host, n) - 1)
<1> DEFINE N == Cardinality(Ends(host))
           label(n) == SubSeq(host, EndOf(host, n - 1) + 1, EndOf(host, n) - 1)
<1>1. /\ N \in Nat /\ N >= 1
      /\ Ends(host) \in SUBSET (1 .. Len(host) + 1)
      /\ \A n \in 1 .. N : EndOf(host, n) \in Ends(host)
      /\ EndOf(host, 0) = 0
  BY LabelsInOrder
<1>2. Labels(host) = [n \in 1 .. N |-> label(n)]
  BY DEF Labels
<1> HIDE DEF N
<1>3. ASSUME NEW n \in 1 .. N
      PROVE  label(n) \in Texts
  <2>1. n - 1 = 0 \/ n - 1 \in 1 .. N
    BY <1>1
  <2>2. EndOf(host, n - 1) \in 0 .. Len(host) + 1 /\ EndOf(host, n) \in 1 .. Len(host) + 1
    <3>1. Len(host) \in Nat
      BY DEF Texts
    <3>2. \A i \in Ends(host) : i \in 0 .. Len(host) + 1 /\ i \in 1 .. Len(host) + 1
      BY <1>1, <3>1
    <3>3. 0 \in 0 .. Len(host) + 1
      BY <3>1
    <3> QED
      BY <1>1, <2>1, <3>2, <3>3
  <2>3. Len(host) \in Nat
    BY DEF Texts
  <2> DEFINE from == EndOf(host, n - 1) + 1
             to   == EndOf(host, n) - 1
  <2>4. from \in Int /\ to \in Int /\ 1 <= from /\ to <= Len(host)
    BY <2>2, <2>3
  <2> HIDE DEF from, to
  <2>5. SubSeq(host, from, to) \in Texts
    BY <2>4, SliceIsText
  <2> QED
    BY <2>5 DEF from, to
<1>4. Labels(host) \in Seq(Texts) /\ Len(Labels(host)) = N
  <2>1. Labels(host) \in [1 .. N -> Texts]
    BY <1>2, <1>3
  <2> QED
    BY <1>1, <2>1
<1>5. \A n \in 1 .. N : Labels(host)[n] = label(n)
  BY <1>2
<1> HIDE DEF label
<1> QED
  BY <1>1, <1>4, <1>5 DEF N, label

\* Positions that go through a name's ends in order are where its labels end.
LEMMA LabelsEndAt ==
    ASSUME NEW host \in Texts, NEW N \in Nat, NEW f \in [1 .. N -> Ends(host)],
           \A m, n \in 1 .. N : m < n => f[m] < f[n],
           \A i \in Ends(host) : \E n \in 1 .. N : f[n] = i
    PROVE  Len(Labels(host)) = N /\ \A n \in 1 .. N : EndOf(host, n) = f[n]
<1>1. Ends(host) \in SUBSET Nat
  BY DEF Ends, Texts
<1>2. Cardinality(Ends(host)) = N /\ \A n \in 1 .. N : Nth(Ends(host), n) = f[n]
  BY <1>1, NthIsUnique
<1> QED
  BY <1>2, LabelsAreTexts DEF EndOf

\* The pieces of two texts with a dot between them.
LEMMA DottedIsText ==
    ASSUME NEW a \in Texts, NEW b \in Texts
    PROVE  /\ Dotted(a, b) \in Texts
           /\ Len(a) \in Nat /\ Len(b) \in Nat
           /\ Len(Dotted(a, b)) = Len(a) + 1 + Len(b)
           /\ \A i \in 1 .. Len(a) : Dotted(a, b)[i] = a[i]
           /\ Dotted(a, b)[Len(a) + 1] = "."
           /\ \A i \in 1 .. Len(b) : Dotted(a, b)[Len(a) + 1 + i] = b[i]
<1> DEFINE dot == <<".">>
           front == a \o dot
<1>1. dot \in Texts /\ Len(dot) = 1 /\ dot[1] = "."
  <2>1. \A x \in Pieces : <<x>> \in Seq(Pieces) /\ Len(<<x>>) = 1 /\ <<x>>[1] = x
    OBVIOUS
  <2>2. "." \in Pieces
    BY DEF Pieces
  <2> QED
    BY <2>1, <2>2, Zenon DEF Texts
<1>2. Len(a) \in Nat /\ Len(b) \in Nat
  BY DEF Texts
<1> HIDE DEF dot
<1>3. /\ front \in Texts /\ Len(front) = Len(a) + Len(dot)
      /\ \A i \in 1 .. Len(a) + Len(dot) :
            front[i] = IF i <= Len(a) THEN a[i] ELSE dot[i - Len(a)]
  BY <1>1, ConcatProperties DEF Texts
<1>4. Dotted(a, b) = front \o b
  BY DEF Dotted, dot
<1> HIDE DEF front
<1>5. /\ Dotted(a, b) \in Texts /\ Len(Dotted(a, b)) = Len(front) + Len(b)
      /\ \A i \in 1 .. Len(front) + Len(b) :
            Dotted(a, b)[i] = IF i <= Len(front) THEN front[i] ELSE b[i - Len(front)]
  <2>1. front \in Seq(Pieces) /\ b \in Seq(Pieces)
    BY <1>3 DEF Texts
  <2>2. /\ front \o b \in Seq(Pieces) /\ Len(front \o b) = Len(front) + Len(b)
        /\ \A i \in 1 .. Len(front) + Len(b) :
              (front \o b)[i] = IF i <= Len(front) THEN front[i] ELSE b[i - Len(front)]
    BY <2>1, ConcatProperties
  <2> QED
    BY <1>4, <2>2, Zenon DEF Texts
<1>6. ASSUME NEW i \in 1 .. Len(a)
      PROVE  Dotted(a, b)[i] = a[i]
  <2>1. i \in 1 .. Len(a) + Len(dot) /\ i \in 1 .. Len(front) + Len(b) /\ i <= Len(front)
    BY <1>1, <1>2, <1>3
  <2> QED
    BY <1>3, <1>5, <2>1
<1>7. Dotted(a, b)[Len(a) + 1] = "."
  <2> DEFINE i == Len(a) + 1
  <2>1. /\ i \in 1 .. Len(a) + Len(dot) /\ i \in 1 .. Len(front) + Len(b) /\ i <= Len(front)
        /\ ~(i <= Len(a)) /\ i - Len(a) = 1
    BY <1>1, <1>2, <1>3
  <2> HIDE DEF i
  <2>2. Dotted(a, b)[i] = dot[1]
    BY <1>3, <1>5, <2>1
  <2> QED
    BY <1>1, <2>2 DEF i
<1>8. ASSUME NEW j \in 1 .. Len(b)
      PROVE  Dotted(a, b)[Len(a) + 1 + j] = b[j]
  <2> DEFINE i == Len(a) + 1 + j
  <2>1. i \in 1 .. Len(front) + Len(b) /\ ~(i <= Len(front)) /\ i - Len(front) = j
    BY <1>1, <1>2, <1>3
  <2> HIDE DEF i
  <2>2. Dotted(a, b)[i] = b[j]
    BY <1>5, <2>1
  <2> QED
    BY <2>2 DEF i
<1> QED
  BY <1>1, <1>2, <1>3, <1>5, <1>6, <1>7, <1>8

\* Where the labels of such a text end: where those before the dot do, and then
\* where those after it do.
LEMMA EndsOfDotted ==
    ASSUME NEW a \in Texts, NEW b \in Texts
    PROVE  LET host == Dotted(a, b)
               A    == Len(Labels(a))
               B    == Len(Labels(b))
           IN  /\ Len(Labels(host)) = A + B
               /\ \A n \in 0 .. A : EndOf(host, n) = EndOf(a, n)
               /\ \A n \in 0 .. B : EndOf(host, A + n) = Len(a) + 1 + EndOf(b, n)
<1> DEFINE host == Dotted(a, b)
           A    == Len(Labels(a))
           B    == Len(Labels(b))
           cut  == Len(a) + 1
           f    == [n \in 1 .. A + B |-> IF n <= A THEN EndOf(a, n) ELSE cut + EndOf(b, n - A)]
<1>1. /\ host \in Texts /\ cut \in Nat /\ cut >= 1 /\ cut - 1 = Len(a) /\ Len(b) \in Nat
      /\ Len(host) = cut + Len(b)
      /\ \A i \in 1 .. cut - 1 : host[i] = a[i]
      /\ host[cut] = "."
      /\ \A i \in 1 .. Len(b) : host[cut + i] = b[i]
  <2>1. Len(a) \in Nat /\ Len(b) \in Nat
    BY DottedIsText
  <2>2. cut \in Nat /\ cut >= 1 /\ cut - 1 = Len(a)
    BY <2>1
  <2>3. \A i \in 1 .. cut - 1 : i \in 1 .. Len(a)
    BY <2>2
  <2> QED
    BY <2>1, <2>2, <2>3, DottedIsText, Zenon
<1>2. /\ A \in Nat /\ A >= 1
      /\ Ends(a) \in SUBSET (1 .. cut)
      /\ \A n \in 1 .. A : EndOf(a, n) \in Ends(a)
      /\ \A m, n \in 1 .. A : m < n => EndOf(a, m) < EndOf(a, n)
      /\ \A i \in Ends(a) : \E n \in 1 .. A : EndOf(a, n) = i
      /\ EndOf(a, 0) = 0 /\ EndOf(a, A) = cut
  BY LabelsInOrder, LabelsAreTexts
<1>3. /\ B \in Nat /\ B >= 1
      /\ Ends(b) \in SUBSET (1 .. Len(b) + 1)
      /\ \A n \in 1 .. B : EndOf(b, n) \in Ends(b)
      /\ \A m, n \in 1 .. B : m < n => EndOf(b, m) < EndOf(b, n)
      /\ \A i \in Ends(b) : \E n \in 1 .. B : EndOf(b, n) = i
      /\ EndOf(b, 0) = 0 /\ EndOf(b, B) = Len(b) + 1
  BY LabelsInOrder, LabelsAreTexts
<1>4. /\ \A i \in Ends(a) : i \in Ends(host)
      /\ \A i \in Ends(b) : cut + i \in Ends(host)
      /\ \A i \in Ends(host) : i \in Ends(a) \/ \E j \in Ends(b) : i = cut + j
  <2>1. ASSUME NEW i \in 1 .. cut
        PROVE  i \in Ends(host) <=> i \in Ends(a)
    <3>1. i \in 1 .. Len(host) + 1 /\ i # Len(host) + 1 /\ i \in 1 .. Len(a) + 1
      BY <1>1
    <3>2. i \in Ends(host) <=> host[i] = "."
      BY <3>1 DEF Ends
    <3>3. i \in Ends(a) <=> i = cut \/ a[i] = "."
      BY <3>1 DEF Ends
    <3>4. CASE i = cut
      BY <1>1, <3>2, <3>3, <3>4
    <3>5. CASE i # cut
      <4>1. i \in 1 .. cut - 1
        BY <1>1, <3>5
      <4> QED
        BY <1>1, <3>2, <3>3, <3>5, <4>1
    <3> QED
      BY <3>4, <3>5
  <2>2. ASSUME NEW i \in 1 .. Len(b) + 1
        PROVE  cut + i \in Ends(host) <=> i \in Ends(b)
    <3>1. cut + i \in 1 .. Len(host) + 1 /\ (cut + i = Len(host) + 1 <=> i = Len(b) + 1)
      BY <1>1
    <3>2. cut + i \in Ends(host) <=> i = Len(b) + 1 \/ host[cut + i] = "."
      BY <3>1 DEF Ends
    <3>3. i \in Ends(b) <=> i = Len(b) + 1 \/ b[i] = "."
      BY DEF Ends
    <3>4. i # Len(b) + 1 => host[cut + i] = b[i]
      BY <1>1
    <3> QED
      BY <3>2, <3>3, <3>4
  <2>3. ASSUME NEW i \in Ends(host), i \notin 1 .. cut
        PROVE  \E j \in 1 .. Len(b) + 1 : i = cut + j
    <3>1. i \in 1 .. Len(host) + 1
      BY DEF Ends
    <3>2. i - cut \in 1 .. Len(b) + 1 /\ i = cut + (i - cut)
      BY <1>1, <2>3, <3>1
    <3> QED
      BY <3>2
  <2> HIDE DEF host, cut
  <2>4. ASSUME NEW i \in Ends(host)
        PROVE  i \in Ends(a) \/ \E j \in Ends(b) : i = cut + j
    BY <2>1, <2>2, <2>3
  <2> QED
    BY <1>2, <1>3, <2>1, <2>2, <2>4
<1> HIDE DEF host, A, B, cut
<1>5. ASSUME NEW n \in 1 .. A + B
      PROVE  \/ n \in 1 .. A /\ f[n] = EndOf(a, n)
             \/ n - A \in 1 .. B /\ ~(n \in 1 .. A) /\ f[n] = cut + EndOf(b, n - A)
  BY <1>2, <1>3
<1>6. \A n \in 1 .. A : n \in 1 .. A + B /\ f[n] = EndOf(a, n)
  BY <1>2, <1>3
<1>7. \A n \in 1 .. B : A + n \in 1 .. A + B /\ f[A + n] = cut + EndOf(b, n)
  <2> SUFFICES ASSUME NEW n \in 1 .. B
               PROVE  A + n \in 1 .. A + B /\ f[A + n] = cut + EndOf(b, n)
    OBVIOUS
  <2>1. A + n \in 1 .. A + B /\ ~(A + n <= A) /\ (A + n) - A = n
    BY <1>2, <1>3
  <2> QED
    BY <2>1
<1> HIDE DEF f
<1>8. f \in [1 .. A + B -> Ends(host)]
  <2>1. \A n \in 1 .. A + B : f[n] \in Ends(host)
    BY <1>2, <1>3, <1>4, <1>5, SMTT(30)
  <2>2. f = [n \in 1 .. A + B |-> f[n]]
    BY DEF f
  <2> QED
    BY <2>1, <2>2
<1>9. ASSUME NEW m \in 1 .. A + B, NEW n \in 1 .. A + B, m < n
      PROVE  f[m] < f[n]
  <2>0. /\ \A k \in 1 .. A : EndOf(a, k) \in Int /\ EndOf(a, k) <= cut
        /\ \A k \in 1 .. B : EndOf(b, k) \in Int /\ 1 <= EndOf(b, k)
    <3>1. (\A i \in Ends(a) : i \in Int /\ i <= cut) /\ (\A i \in Ends(b) : i \in Int /\ 1 <= i)
      BY <1>1, <1>2, <1>3
    <3> QED
      BY <1>2, <1>3, <3>1
  <2>1. CASE m \in 1 .. A /\ n \in 1 .. A
    BY <1>2, <1>6, <1>9, <2>1
  <2>2. CASE m \in 1 .. A /\ n - A \in 1 .. B /\ f[n] = cut + EndOf(b, n - A)
    BY <1>1, <1>6, <2>0, <2>2
  <2>3. CASE /\ m - A \in 1 .. B /\ f[m] = cut + EndOf(b, m - A)
             /\ n - A \in 1 .. B /\ f[n] = cut + EndOf(b, n - A)
    <3>1. m - A < n - A
      BY <1>2, <1>9
    <3>2. EndOf(b, m - A) < EndOf(b, n - A)
      BY <1>3, <2>3, <3>1
    <3> QED
      BY <1>1, <2>0, <2>3, <3>2
  <2>4. ~(m \notin 1 .. A /\ n \in 1 .. A)
    BY <1>2, <1>9
  <2> QED
    BY <1>5, <2>1, <2>2, <2>3, <2>4
<1>10. ASSUME NEW i \in Ends(host)
       PROVE  \E n \in 1 .. A + B : f[n] = i
  <2>1. CASE i \in Ends(a)
    BY <1>2, <1>6, <2>1
  <2>2. CASE \E j \in Ends(b) : i = cut + j
    <3>1. PICK n \in 1 .. B : i = cut + EndOf(b, n)
      BY <1>3, <2>2
    <3> QED
      BY <1>7, <3>1
  <2> QED
    BY <1>4, <2>1, <2>2
<1>11. A + B \in Nat /\ host \in Texts
  BY <1>1, <1>2, <1>3
<1>12. Len(Labels(host)) = A + B /\ \A n \in 1 .. A + B : EndOf(host, n) = f[n]
  BY <1>8, <1>9, <1>10, <1>11, LabelsEndAt
<1>13. EndOf(host, 0) = 0
  BY DEF EndOf
<1>14. \A n \in 0 .. A : EndOf(host, n) = EndOf(a, n)
  <2> SUFFICES ASSUME NEW n \in 0 .. A
               PROVE  EndOf(host, n) = EndOf(a, n)
    OBVIOUS
  <2>1. n = 0 \/ n \in 1 .. A
    BY <1>2
  <2> QED
    BY <1>2, <1>6, <1>12, <1>13, <2>1
<1>15. \A n \in 0 .. B : EndOf(host, A + n) = cut + EndOf(b, n)
  <2> SUFFICES ASSUME NEW n \in 0 .. B
               PROVE  EndOf(host, A + n) = cut + EndOf(b, n)
    OBVIOUS
  <2>1. n = 0 \/ n \in 1 .. B
    BY <1>3
  <2>2. CASE n = 0
    <3>1. A + 0 = A /\ cut + 0 = cut /\ A \in 0 .. A
      BY <1>1, <1>2
    <3> QED
      BY <1>2, <1>3, <1>14, <2>2, <3>1
  <2>3. CASE n \in 1 .. B
    BY <1>7, <1>12, <2>3
  <2> QED
    BY <2>1, <2>2, <2>3
<1> QED
  BY <1>12, <1>14, <1>15 DEF host, A, B, cut

\* The labels before a dot, and then those after it.
LEMMA LabelsOfDotted ==
    ASSUME NEW a \in Texts, NEW b \in Texts
    PROVE  Labels(Dotted(a, b)) = Labels(a) \o Labels(b)
<1> DEFINE host == Dotted(a, b)
           A    == Len(Labels(a))
           B    == Len(Labels(b))
           cut  == Len(a) + 1
<1>1. /\ host \in Texts /\ cut \in Nat /\ cut >= 1 /\ cut - 1 = Len(a) /\ Len(b) \in Nat
      /\ Len(host) = cut + Len(b)
      /\ \A i \in 1 .. cut - 1 : host[i] = a[i]
      /\ \A i \in 1 .. Len(b) : host[cut + i] = b[i]
  <2>1. Len(a) \in Nat /\ Len(b) \in Nat
    BY DottedIsText
  <2>2. cut \in Nat /\ cut >= 1 /\ cut - 1 = Len(a)
    BY <2>1
  <2>3. \A i \in 1 .. cut - 1 : i \in 1 .. Len(a)
    BY <2>2
  <2> QED
    BY <2>1, <2>2, <2>3, DottedIsText, Zenon
<1>2. /\ Len(Labels(host)) = A + B
      /\ \A n \in 0 .. A : EndOf(host, n) = EndOf(a, n)
      /\ \A n \in 0 .. B : EndOf(host, A + n) = cut + EndOf(b, n)
  BY EndsOfDotted
<1>3. /\ Labels(a) \in Seq(Texts) /\ A \in Nat
      /\ \A n \in 1 .. A : Labels(a)[n] = SubSeq(a, EndOf(a, n - 1) + 1, EndOf(a, n) - 1)
      /\ \A n \in 0 .. A : EndOf(a, n) \in 0 .. cut
  <2>1. \A n \in 1 .. A : EndOf(a, n) \in Ends(a)
    BY LabelsAreTexts, LabelsInOrder
  <2>2. \A i \in Ends(a) : i \in 0 .. cut
    BY <1>1 DEF Ends
  <2>3. \A n \in 0 .. A : n = 0 \/ n \in 1 .. A
    OBVIOUS
  <2>4. 0 \in 0 .. cut /\ EndOf(a, 0) = 0
    BY <1>1 DEF EndOf
  <2> QED
    BY <2>1, <2>2, <2>3, <2>4, LabelsAreTexts
<1>4. /\ Labels(b) \in Seq(Texts) /\ B \in Nat
      /\ \A n \in 1 .. B : Labels(b)[n] = SubSeq(b, EndOf(b, n - 1) + 1, EndOf(b, n) - 1)
      /\ \A n \in 0 .. B : EndOf(b, n) \in 0 .. Len(b) + 1
  <2>1. \A n \in 1 .. B : EndOf(b, n) \in Ends(b)
    BY LabelsAreTexts, LabelsInOrder
  <2>2. \A i \in Ends(b) : i \in 0 .. Len(b) + 1
    BY <1>1 DEF Ends
  <2>3. \A n \in 0 .. B : n = 0 \/ n \in 1 .. B
    OBVIOUS
  <2>4. 0 \in 0 .. Len(b) + 1 /\ EndOf(b, 0) = 0
    BY <1>1 DEF EndOf
  <2> QED
    BY <2>1, <2>2, <2>3, <2>4, LabelsAreTexts
<1>5. /\ Labels(host) \in Seq(Texts)
      /\ \A n \in 1 .. A + B :
            Labels(host)[n] = SubSeq(host, EndOf(host, n - 1) + 1, EndOf(host, n) - 1)
  BY <1>1, <1>2, LabelsAreTexts
<1> HIDE DEF host, A, B, cut
<1>6. ASSUME NEW n \in 1 .. A
      PROVE  Labels(host)[n] = Labels(a)[n]
  <2> DEFINE from == EndOf(a, n - 1) + 1
             to   == EndOf(a, n) - 1
  <2>1. n \in 0 .. A /\ n - 1 \in 0 .. A /\ n \in 1 .. A + B
    BY <1>3, <1>4
  <2>2. Labels(host)[n] = SubSeq(host, from, to) /\ Labels(a)[n] = SubSeq(a, from, to)
    BY <1>2, <1>3, <1>5, <2>1
  <2>3. from \in Int /\ to \in Int /\ 1 <= from /\ to <= Len(a) /\ to <= Len(host)
    <3>1. EndOf(a, n - 1) \in 0 .. cut /\ EndOf(a, n) \in 0 .. cut
      BY <1>3, <2>1
    <3>2. cut \in Nat /\ cut - 1 = Len(a) /\ cut - 1 <= Len(host)
      BY <1>1
    <3> QED
      BY <3>1, <3>2
  <2> HIDE DEF from, to
  <2>4. from + 0 = from /\ to + 0 = to
    BY <2>3
  <2>5. \A i \in from .. to : a[i] = host[i + 0]
    BY <1>1, <2>3
  <2>6. SubSeq(a, from, to) = SubSeq(host, from + 0, to + 0)
    <3>1. 1 <= from + 0 /\ to + 0 <= Len(host)
      BY <2>3
    <3> QED
      BY <1>1, <2>3, <2>5, <3>1, SlicesAgree
  <2> QED
    BY <2>2, <2>4, <2>6
<1>7. ASSUME NEW n \in 1 .. B
      PROVE  Labels(host)[A + n] = Labels(b)[n]
  <2> DEFINE from == EndOf(b, n - 1) + 1
             to   == EndOf(b, n) - 1
  <2>1. n \in 0 .. B /\ n - 1 \in 0 .. B /\ A + n \in 1 .. A + B /\ (A + n) - 1 = A + (n - 1)
    BY <1>3, <1>4
  <2>2. /\ EndOf(b, n - 1) \in Int /\ EndOf(b, n) \in Int /\ cut \in Int
        /\ 0 <= EndOf(b, n - 1) /\ EndOf(b, n) <= Len(b) + 1
    BY <1>1, <1>4, <2>1
  <2>3. /\ EndOf(host, (A + n) - 1) = cut + EndOf(b, n - 1)
        /\ EndOf(host, A + n) = cut + EndOf(b, n)
    BY <1>2, <2>1
  <2>4. Labels(host)[A + n] = SubSeq(host, from + cut, to + cut)
    <3>1. /\ (cut + EndOf(b, n - 1)) + 1 = from + cut
          /\ (cut + EndOf(b, n)) - 1 = to + cut
      BY <2>2
    <3> QED
      BY <1>5, <2>1, <2>3, <3>1
  <2>5. Labels(b)[n] = SubSeq(b, from, to)
    BY <1>4
  <2>6. from \in Int /\ to \in Int /\ 1 <= from /\ to <= Len(b)
    BY <1>1, <2>2
  <2> HIDE DEF from, to
  <2>7. 1 <= from + cut /\ to + cut <= Len(host)
    BY <1>1, <2>6
  <2>8. \A i \in from .. to : b[i] = host[i + cut]
    <3> SUFFICES ASSUME NEW i \in from .. to
                 PROVE  b[i] = host[i + cut]
      OBVIOUS
    <3>1. i \in 1 .. Len(b) /\ i + cut = cut + i
      BY <1>1, <2>6
    <3> QED
      BY <1>1, <3>1
  <2>9. SubSeq(b, from, to) = SubSeq(host, from + cut, to + cut)
    BY <1>1, <2>2, <2>6, <2>7, <2>8, SlicesAgree, SMTT(30)
  <2> QED
    BY <2>4, <2>5, <2>9
<1> DEFINE both == Labels(a) \o Labels(b)
<1>8. /\ both \in Seq(Texts) /\ Len(both) = A + B
      /\ \A n \in 1 .. A + B : both[n] = IF n <= A THEN Labels(a)[n] ELSE Labels(b)[n - A]
  BY <1>3, <1>4, ConcatProperties DEF A, B
<1>9. ASSUME NEW n \in 1 .. A + B
      PROVE  Labels(host)[n] = both[n]
  <2>1. CASE n <= A
    <3>1. n \in 1 .. A
      BY <1>3, <1>4, <2>1
    <3> QED
      BY <1>6, <1>8, <2>1, <3>1
  <2>2. CASE ~(n <= A)
    <3>1. n - A \in 1 .. B /\ A + (n - A) = n
      BY <1>3, <1>4, <2>2
    <3> QED
      BY <1>7, <1>8, <2>2, <3>1
  <2> QED
    BY <2>1, <2>2
<1> HIDE DEF both
<1>10. Labels(host) = both
  BY <1>2, <1>5, <1>8, <1>9, SeqEqual
<1> QED
  BY <1>10 DEF both, host

-----------------------------------------------------------------------------
\* Marks at the start are trimmed, up to the first piece that is not one.
LEMMA TrimmedStart ==
    ASSUME NEW s \in Texts, NEW mark, NEW k \in 0 .. Len(s) - 1,
           \A i \in 1 .. k : s[i] = mark, s[k + 1] # mark
    PROVE  TrimStart(s, mark) = DropFirst(s, k)
<1> DEFINE I == {i \in 1 .. Len(s) : s[i] # mark}
<1>1. Len(s) \in Nat
  BY DEF Texts
<1>2. k + 1 \in I /\ \A i \in I : k + 1 <= i
  BY <1>1
<1>3. \A x \in I : (\A y \in I : x <= y) => x = k + 1
  BY <1>2
<1>4. SelectInSeq(s, LAMBDA piece : piece # mark) = IF I # {} THEN Min(I) ELSE 0
  BY DEF SelectInSeq
<1> HIDE DEF I
<1>5. Min(I) = k + 1
  BY <1>2, <1>3 DEF Min
<1> DEFINE first == SelectInSeq(s, LAMBDA piece : piece # mark)
<1>6. TrimStart(s, mark) = IF first = 0 THEN <<>> ELSE DropFirst(s, first - 1)
  BY DEF TrimStart
<1>7. first = k + 1
  BY <1>2, <1>4, <1>5
<1> HIDE DEF first
<1>8. first # 0 /\ first - 1 = k
  BY <1>7
<1> QED
  BY <1>6, <1>8

\* Marks at the end are trimmed, down to the last piece that is not one.
LEMMA TrimmedEnd ==
    ASSUME NEW s \in Texts, NEW mark, NEW k \in 1 .. Len(s),
           \A i \in k + 1 .. Len(s) : s[i] = mark, s[k] # mark
    PROVE  TrimEnd(s, mark) = SubSeq(s, 1, k)
<1> DEFINE I == {i \in 1 .. Len(s) : s[i] # mark}
<1>1. Len(s) \in Nat
  BY DEF Texts
<1>2. k \in I /\ \A i \in I : k >= i
  BY <1>1
<1>3. \A x \in I : (\A y \in I : x >= y) => x = k
  BY <1>2
<1>4. SelectLastInSeq(s, LAMBDA piece : piece # mark) = IF I # {} THEN Max(I) ELSE 0
  BY DEF SelectLastInSeq
<1> HIDE DEF I
<1>5. Max(I) = k
  BY <1>2, <1>3 DEF Max
<1> DEFINE last == SelectLastInSeq(s, LAMBDA piece : piece # mark)
<1>6. TrimEnd(s, mark) = SubSeq(s, 1, last)
  BY DEF TrimEnd
<1>7. last = k
  BY <1>2, <1>4, <1>5
<1> QED
  BY <1>6, <1>7

\* A text that neither starts nor ends with a mark is not trimmed.
LEMMA NotTrimmed ==
    ASSUME NEW s \in Texts, NEW mark, s # <<>>
    PROVE  /\ s[1] # mark => TrimStart(s, mark) = s
           /\ s[Len(s)] # mark => TrimEnd(s, mark) = s
<1>1. Len(s) \in Nat /\ Len(s) # 0
  BY DEF Texts
<1>2. ASSUME s[1] # mark
      PROVE  TrimStart(s, mark) = s
  <2>1. 0 \in 0 .. Len(s) - 1 /\ (\A i \in 1 .. 0 : s[i] = mark) /\ 0 + 1 = 1
    BY <1>1
  <2>2. TrimStart(s, mark) = DropFirst(s, 0)
    BY <1>2, <2>1, TrimmedStart
  <2> QED
    BY <2>1, <2>2, SubSeqFull DEF DropFirst, Texts
<1>3. ASSUME s[Len(s)] # mark
      PROVE  TrimEnd(s, mark) = s
  <2>1. Len(s) \in 1 .. Len(s) /\ (\A i \in Len(s) + 1 .. Len(s) : s[i] = mark)
    BY <1>1
  <2>2. TrimEnd(s, mark) = SubSeq(s, 1, Len(s))
    BY <1>3, <2>1, TrimmedEnd
  <2> QED
    BY <2>2, SubSeqFull DEF Texts
<1> QED
  BY <1>2, <1>3

\* A piece other than a dot is one of a label's.
LEMMA PieceIsOfLabel ==
    ASSUME NEW host \in Texts, NEW i \in 1 .. Len(host), host[i] # "."
    PROVE  \E n \in 1 .. Len(Labels(host)) : host[i] \in Range(Labels(host)[n])
<1> DEFINE N == Len(Labels(host))
           after == {n \in 1 .. N : i <= EndOf(host, n)}
<1>1. /\ N \in Nat /\ N >= 1 /\ Len(host) \in Nat
      /\ Ends(host) \in SUBSET (1 .. Len(host) + 1)
      /\ \A n \in 1 .. N : EndOf(host, n) \in Ends(host)
      /\ EndOf(host, 0) = 0 /\ EndOf(host, N) = Len(host) + 1
      /\ \A n \in 1 .. N : Labels(host)[n] = SubSeq(host, EndOf(host, n - 1) + 1, EndOf(host, n) - 1)
  <2>1. N = Cardinality(Ends(host))
    BY LabelsAreTexts
  <2>2. Len(host) \in Nat
    BY DEF Texts
  <2> QED
    BY <2>1, <2>2, LabelsInOrder, LabelsAreTexts
<1> HIDE DEF N
<1>2. after \in SUBSET Nat /\ N \in after
  BY <1>1
<1>3. PICK n \in after : \A m \in after : n <= m
  BY <1>2, FirstOf
<1>4. n \in 1 .. N /\ i <= EndOf(host, n) /\ EndOf(host, n) \in 1 .. Len(host) + 1
  BY <1>1, <1>3
<1>5. EndOf(host, n) # i
  <2>1. i \notin Ends(host)
    BY <1>1 DEF Ends
  <2> QED
    BY <1>1, <1>4, <2>1
<1>6. EndOf(host, n - 1) \in 0 .. Len(host) + 1 /\ EndOf(host, n - 1) < i
  <2>1. CASE n - 1 = 0
    BY <1>1, <2>1
  <2>2. CASE n - 1 # 0
    <3>1. n - 1 \in 1 .. N /\ ~(n <= n - 1)
      BY <1>1, <1>4, <2>2
    <3>2. n - 1 \notin after
      BY <1>3, <3>1
    <3> QED
      BY <1>1, <3>1, <3>2, SMTT(30)
  <2> QED
    BY <2>1, <2>2
<1> DEFINE from == EndOf(host, n - 1) + 1
           to   == EndOf(host, n) - 1
           j    == i - from + 1
<1>7. /\ from \in Int /\ to \in Int /\ 1 <= from /\ to <= Len(host)
      /\ from <= i /\ i <= to
  BY <1>1, <1>4, <1>5, <1>6
<1>8. Labels(host)[n] = SubSeq(host, from, to)
  BY <1>1, <1>4
<1> HIDE DEF from, to
<1>9. j \in 1 .. to - from + 1 /\ from + j - 1 = i /\ from <= to
  BY <1>1, <1>7
<1> HIDE DEF j
<1>10. /\ SubSeq(host, from, to) \in Texts
       /\ Len(SubSeq(host, from, to)) = to - from + 1
       /\ SubSeq(host, from, to)[j] = host[i]
  BY <1>7, <1>9, SliceIsText
<1>11. DOMAIN SubSeq(host, from, to) = 1 .. to - from + 1
  BY <1>10 DEF Texts
<1>12. host[i] \in Range(Labels(host)[n])
  BY <1>8, <1>9, <1>10, <1>11 DEF Range
<1> QED
  BY <1>4, <1>12 DEF N

\* What validate_domain() leaves: no mark within the name, no dot at its end
\* (url_validation.rs:364-411).
LEMMA WellFormedText ==
    ASSUME NEW host \in Texts, ~IllFormed(host)
    PROVE  /\ host # <<>> /\ Len(host) \in Nat /\ Len(host) >= 1
           /\ \A i \in 1 .. Len(host) : host[i] \notin Forbidden
           /\ host[Len(host)] # "."
<1> DEFINE N == Len(Labels(host))
<1>1. /\ N \in Nat /\ N >= 1 /\ Len(host) \in Nat
      /\ Labels(host) \in Seq(Texts)
      /\ \A n \in 1 .. N : Labels(host)[n] = SubSeq(host, EndOf(host, n - 1) + 1, EndOf(host, n) - 1)
  <2>1. Len(host) \in Nat
    BY DEF Texts
  <2> QED
    BY <2>1, LabelsAreTexts
<1>2. /\ Ends(host) \in SUBSET (1 .. Len(host) + 1)
      /\ \A n \in 1 .. N : EndOf(host, n) \in Ends(host)
      /\ \A m, n \in 1 .. N : m < n => EndOf(host, m) < EndOf(host, n)
      /\ \A i \in Ends(host) : \E n \in 1 .. N : EndOf(host, n) = i
      /\ EndOf(host, 0) = 0 /\ EndOf(host, N) = Len(host) + 1
  <2>1. N = Cardinality(Ends(host))
    BY LabelsAreTexts
  <2> QED
    BY <2>1, LabelsInOrder
<1>3. \A n \in 1 .. N : Labels(host)[n] # <<>> /\ Range(Labels(host)[n]) \cap Forbidden = {}
  <2>1. DOMAIN Labels(host) = 1 .. N
    BY <1>1
  <2> QED
    BY <2>1 DEF IllFormed
<1> HIDE DEF N
<1>4. ASSUME NEW n \in 1 .. N
      PROVE  EndOf(host, n) # EndOf(host, n - 1) + 1
  <2> SUFFICES ASSUME EndOf(host, n) = EndOf(host, n - 1) + 1
               PROVE  FALSE
    OBVIOUS
  <2>1. EndOf(host, n) \in 1 .. Len(host) + 1
    BY <1>2
  <2> DEFINE from == EndOf(host, n - 1) + 1
             to   == EndOf(host, n) - 1
  <2>2. from = to + 1 /\ from \in 1 .. Len(host) + 1
    BY <1>1, <2>1
  <2>3. Labels(host)[n] = SubSeq(host, from, to)
    BY <1>1
  <2> HIDE DEF from, to
  <2>4. from \in Int /\ 1 <= from /\ to \in Int /\ to <= Len(host) /\ ~(from <= to)
    <3>1. to \in Int
      BY <2>1 DEF to
    <3> QED
      BY <1>1, <2>2, <3>1
  <2>5. SubSeq(host, from, to) \in Texts /\ Len(SubSeq(host, from, to)) = 0
    BY <2>4, SliceIsText
  <2>6. Labels(host)[n] = <<>>
    BY <2>3, <2>5 DEF Texts
  <2> QED
    BY <1>3, <2>6
<1>5. host[Len(host)] # "." /\ Len(host) >= 1
  <2> SUFFICES ASSUME host[Len(host)] = "." \/ Len(host) = 0
               PROVE  FALSE
    BY <1>1
  <2>1. \E n \in 0 .. N - 1 : EndOf(host, n) = Len(host)
    <3>1. CASE Len(host) = 0
      BY <1>1, <1>2, <3>1
    <3>2. CASE Len(host) # 0
      <4>1. Len(host) \in Ends(host)
        BY <1>1, <3>2 DEF Ends
      <4>2. PICK n \in 1 .. N : EndOf(host, n) = Len(host)
        BY <1>2, <4>1
      <4>3. n # N
        BY <1>1, <1>2, <4>2
      <4>4. n \in 0 .. N - 1
        BY <1>1, <4>3
      <4> QED
        BY <4>2, <4>4
    <3> QED
      BY <3>1, <3>2
  <2>2. PICK n \in 0 .. N - 1 : EndOf(host, n) = Len(host)
    BY <2>1
  <2>3. n + 1 \in 1 .. N /\ (n + 1) - 1 = n
    BY <1>1
  <2>4. EndOf(host, n + 1) = Len(host) + 1
    <3>1. EndOf(host, n + 1) \in 1 .. Len(host) + 1
      BY <1>2, <2>3
    <3>2. n = 0 => Len(host) = 0
      BY <1>2, <2>2
    <3>3. n # 0 => Len(host) < EndOf(host, n + 1)
      <4> SUFFICES ASSUME n # 0
                   PROVE  Len(host) < EndOf(host, n + 1)
        OBVIOUS
      <4>1. n \in 1 .. N /\ n < n + 1
        BY <1>1
      <4> QED
        BY <1>2, <2>2, <2>3, <4>1
    <3> QED
      BY <1>1, <3>1, <3>2, <3>3
  <2> QED
    BY <1>4, <2>2, <2>3, <2>4
<1>6. ASSUME NEW i \in 1 .. Len(host)
      PROVE  host[i] \notin Forbidden
  <2>1. CASE host[i] = "."
    BY <2>1 DEF Forbidden
  <2>2. CASE host[i] # "."
    <3>1. PICK n \in 1 .. N : host[i] \in Range(Labels(host)[n])
      BY <2>2, PieceIsOfLabel DEF N
    <3> QED
      BY <1>3, <3>1
  <2> QED
    BY <2>1, <2>2
<1>7. host # <<>>
  BY <1>5
<1> QED
  BY <1>1, <1>5, <1>6, <1>7

\* Such a name is normalized as it is, and so is one in brackets but for these.
LEMMA WellFormedIsNormal ==
    ASSUME NEW host \in Texts, ~IllFormed(host)
    PROVE  /\ NormalizeHost(host) = host
           /\ NormalizeHost(<<"[">> \o host \o <<"]">>) = host
<1>1. /\ host # <<>> /\ Len(host) \in Nat /\ Len(host) >= 1
      /\ \A i \in 1 .. Len(host) : host[i] \notin Forbidden
      /\ host[Len(host)] # "."
  BY WellFormedText
<1>2. 1 \in 1 .. Len(host) /\ Len(host) \in 1 .. Len(host)
  BY <1>1
<1>3. /\ host[1] # " " /\ host[1] # "[" /\ host[1] # "]"
      /\ host[Len(host)] # " " /\ host[Len(host)] # "]"
  BY <1>1, <1>2 DEF Forbidden
<1>4. /\ TrimStart(host, " ") = host /\ TrimEnd(host, " ") = host /\ TrimStart(host, "[") = host
      /\ TrimEnd(host, "]") = host /\ TrimEnd(host, ".") = host
  BY <1>1, <1>3, NotTrimmed
<1>5. NormalizeHost(host) = host
  BY <1>4 DEF NormalizeHost
<1> DEFINE boxed == <<"[">> \o host \o <<"]">>
           N == Len(host)
<1>6. /\ boxed \in Texts /\ Len(boxed) = N + 2
      /\ boxed[1] = "[" /\ boxed[N + 2] = "]"
      /\ \A i \in 1 .. N : boxed[i + 1] = host[i]
  <2>1. \A x \in Pieces : <<x>> \in Seq(Pieces) /\ Len(<<x>>) = 1 /\ <<x>>[1] = x
    OBVIOUS
  <2>2. "[" \in Pieces /\ "]" \in Pieces
    BY DEF Pieces
  <2> DEFINE open == <<"[">>
             close == <<"]">>
             front == open \o host
  <2>3. /\ open \in Seq(Pieces) /\ Len(open) = 1 /\ open[1] = "["
        /\ close \in Seq(Pieces) /\ Len(close) = 1 /\ close[1] = "]"
        /\ host \in Seq(Pieces)
    BY <2>1, <2>2, Zenon DEF Texts
  <2> HIDE DEF open, close
  <2>4. /\ front \in Seq(Pieces) /\ Len(front) = 1 + N
        /\ \A i \in 1 .. 1 + N : front[i] = IF i <= 1 THEN open[i] ELSE host[i - 1]
    <3>1. /\ open \o host \in Seq(Pieces) /\ Len(open \o host) = Len(open) + Len(host)
          /\ \A i \in 1 .. Len(open) + Len(host) :
                (open \o host)[i] = IF i <= Len(open) THEN open[i] ELSE host[i - Len(open)]
      BY <2>3, ConcatProperties
    <3> QED
      BY <2>3, <3>1, Zenon
  <2> DEFINE whole == front \o close
  <2> HIDE DEF front
  <2>5. /\ whole \in Seq(Pieces) /\ Len(whole) = (1 + N) + 1
        /\ \A i \in 1 .. (1 + N) + 1 : whole[i] = IF i <= 1 + N THEN front[i] ELSE close[i - (1 + N)]
    <3>1. /\ front \o close \in Seq(Pieces) /\ Len(front \o close) = Len(front) + Len(close)
          /\ \A i \in 1 .. Len(front) + Len(close) :
                (front \o close)[i] = IF i <= Len(front) THEN front[i] ELSE close[i - Len(front)]
      BY <2>3, <2>4, ConcatProperties
    <3> QED
      BY <2>3, <2>4, <3>1, Zenon
  <2>6. boxed = whole
    BY DEF front, open, close
  <2> HIDE DEF whole, boxed, N
  <2>7. N \in Nat /\ N >= 1
    BY <1>1 DEF N
  <2>8. /\ 1 \in 1 .. (1 + N) + 1 /\ 1 \in 1 .. 1 + N /\ N + 2 \in 1 .. (1 + N) + 1
        /\ ~(N + 2 <= 1 + N) /\ N + 2 - (1 + N) = 1 /\ (1 + N) + 1 = N + 2 /\ 1 <= 1 + N
    BY <2>7
  <2>9. whole[1] = "[" /\ whole[N + 2] = "]"
    BY <2>3, <2>4, <2>5, <2>8
  <2>10. ASSUME NEW i \in 1 .. N
         PROVE  whole[i + 1] = host[i]
    <3>1. /\ i + 1 \in 1 .. (1 + N) + 1 /\ i + 1 \in 1 .. 1 + N /\ i + 1 <= 1 + N
          /\ ~(i + 1 <= 1) /\ i + 1 - 1 = i
      BY <2>7
    <3> QED
      BY <2>4, <2>5, <3>1
  <2> QED
    BY <2>5, <2>6, <2>8, <2>9, <2>10 DEF Texts
<1> HIDE DEF boxed
<1>7. boxed # <<>> /\ boxed[1] # " " /\ boxed[Len(boxed)] # " "
  <2>1. Len(boxed) # 0
    BY <1>1, <1>6
  <2> QED
    BY <1>6, <2>1
<1>8. TrimEnd(TrimStart(boxed, " "), " ") = boxed
  BY <1>6, <1>7, NotTrimmed
<1> DEFINE rest == DropFirst(boxed, 1)
<1>9. TrimStart(boxed, "[") = rest
  <2>1. /\ 1 \in 0 .. Len(boxed) - 1 /\ 2 = 1 + 1
        /\ \A i \in 1 .. 1 : boxed[i] = "["
    BY <1>1, <1>6
  <2>2. boxed[1 + 1] # "["
    BY <1>2, <1>3, <1>6
  <2> QED
    BY <1>6, <2>1, <2>2, TrimmedStart
<1>10. rest = SubSeq(boxed, 2, N + 2)
  BY <1>6 DEF DropFirst
<1> HIDE DEF rest
<1>11. /\ rest \in Texts /\ Len(rest) = N + 1
       /\ \A i \in 1 .. N : rest[i] = host[i]
       /\ rest[N + 1] = "]"
  <2>1. 2 \in Int /\ N + 2 \in Int /\ 1 <= 2 /\ N + 2 <= Len(boxed)
    BY <1>1, <1>6
  <2>2. /\ rest \in Texts /\ Len(rest) = IF 2 <= N + 2 THEN (N + 2) - 2 + 1 ELSE 0
        /\ \A i \in 1 .. (N + 2) - 2 + 1 : rest[i] = boxed[2 + i - 1]
    BY <1>6, <1>10, <2>1, SliceIsText
  <2>3. Len(rest) = N + 1 /\ \A i \in 1 .. N + 1 : rest[i] = boxed[i + 1]
    BY <1>1, <2>2
  <2>4. N + 1 \in 1 .. N + 1 /\ (N + 1) + 1 = N + 2 /\ \A i \in 1 .. N : i \in 1 .. N + 1
    BY <1>1
  <2> QED
    BY <1>6, <2>2, <2>3, <2>4
<1>12. TrimEnd(rest, "]") = SubSeq(rest, 1, N)
  <2>1. /\ N \in 1 .. Len(rest) /\ \A i \in N + 1 .. Len(rest) : i = N + 1
    BY <1>1, <1>11
  <2>2. \A i \in N + 1 .. Len(rest) : rest[i] = "]"
    BY <1>11, <2>1
  <2>3. rest[N] # "]"
    BY <1>2, <1>3, <1>11
  <2> QED
    BY <1>11, <2>1, <2>2, <2>3, TrimmedEnd
<1>13. SubSeq(rest, 1, N) = host
  <2>1. /\ 1 \in Int /\ N \in Int /\ 0 \in Int /\ 1 <= 1 /\ N <= Len(host)
        /\ 1 <= 1 + 0 /\ N + 0 <= Len(rest) /\ 1 + 0 = 1 /\ N + 0 = N
        /\ \A i \in 1 .. N : host[i] = rest[i + 0]
    BY <1>1, <1>11
  <2>2. SubSeq(host, 1, N) = SubSeq(rest, 1 + 0, N + 0)
    BY <1>11, <2>1, SlicesAgree
  <2> QED
    BY <1>1, <2>1, <2>2, SubSeqFull DEF Texts
<1>14. NormalizeHost(boxed) = host
  BY <1>4, <1>8, <1>9, <1>12, <1>13 DEF NormalizeHost
<1> QED
  BY <1>5, <1>14 DEF boxed

\* As a pattern it is no pattern but itself.
LEMMA WellFormedMatchesItself ==
    ASSUME NEW pattern, NEW host \in Texts, ~IllFormed(host), NormalizeHost(pattern) = host,
           NEW other
    PROVE  MatchesHostPattern(pattern, other) <=> NormalizeHost(other) = host
<1>1. /\ host # <<>> /\ Len(host) \in Nat /\ Len(host) >= 1
      /\ \A i \in 1 .. Len(host) : host[i] \notin Forbidden
  BY WellFormedText
<1>2. /\ 1 \in 1 .. Len(host) /\ Len(host) \in 1 .. Len(host)
      /\ host[1] # "*" /\ host[Len(host)] # "*"
  <2>1. 1 \in 1 .. Len(host) /\ Len(host) \in 1 .. Len(host)
    BY <1>1
  <2>2. "*" \in Forbidden
    BY DEF Forbidden
  <2> QED
    BY <1>1, <2>1, <2>2
<1>3. host # <<"*">>
  BY <1>2
<1>4. ~IsPrefix(<<"*", ".">>, host) /\ ~IsPrefix(<<"*">>, host)
  BY <1>1, <1>2 DEF IsPrefix, Texts
<1>5. ~IsSuffix(<<".", "*">>, host)
  BY <1>1, <1>2 DEF IsSuffix, IsPrefix, Reverse, Texts
<1> QED
  BY <1>3, <1>4, <1>5, Zenon DEF MatchesHostPattern

-----------------------------------------------------------------------------
(***************************************************************************)
(* Sequences, and what they start and end with.                            *)
(***************************************************************************)
\* Two ways to cut a sequence at the same place are one.
LEMMA CutsAgree ==
    ASSUME NEW S, NEW a \in Seq(S), NEW b \in Seq(S), NEW c \in Seq(S), NEW d \in Seq(S),
           a \o b = c \o d, Len(a) = Len(c)
    PROVE  a = c /\ b = d
<1>1. /\ Len(a) \in Nat /\ Len(b) \in Nat /\ Len(c) \in Nat /\ Len(d) \in Nat
      /\ Len(a \o b) = Len(a) + Len(b) /\ Len(c \o d) = Len(c) + Len(d)
      /\ \A i \in 1 .. Len(a) + Len(b) : (a \o b)[i] = IF i <= Len(a) THEN a[i] ELSE b[i - Len(a)]
      /\ \A i \in 1 .. Len(c) + Len(d) : (c \o d)[i] = IF i <= Len(c) THEN c[i] ELSE d[i - Len(c)]
  BY ConcatProperties
<1>2. Len(a) = Len(c) /\ Len(b) = Len(d)
  BY <1>1
<1>3. ASSUME NEW i \in 1 .. Len(a)
      PROVE  a[i] = c[i]
  <2>1. i \in 1 .. Len(a) + Len(b) /\ i <= Len(a)
    BY <1>1
  <2> QED
    BY <1>1, <1>2, <2>1
<1>4. ASSUME NEW i \in 1 .. Len(b)
      PROVE  b[i] = d[i]
  <2> DEFINE j == Len(a) + i
  <2>1. j \in 1 .. Len(a) + Len(b) /\ ~(j <= Len(a)) /\ j - Len(a) = i
    BY <1>1
  <2> HIDE DEF j
  <2> QED
    BY <1>1, <1>2, <2>1
<1> QED
  BY <1>2, <1>3, <1>4, SeqEqual

\* One element before a sequence.
LEMMA OneBefore ==
    ASSUME NEW S, NEW x \in S, NEW s \in Seq(S)
    PROVE  /\ <<x>> \o s \in Seq(S) /\ <<x>> \o s # <<>>
           /\ Len(<<x>> \o s) = Len(s) + 1 /\ (<<x>> \o s)[1] = x
           /\ \A i \in 1 .. Len(s) : (<<x>> \o s)[i + 1] = s[i]
           /\ Head(<<x>> \o s) = x /\ Tail(<<x>> \o s) = s
<1> DEFINE one == <<x>>
           t == one \o s
<1>1. one \in Seq(S) /\ Len(one) = 1 /\ one[1] = x /\ Len(s) \in Nat
  OBVIOUS
<1> HIDE DEF one
<1>2. /\ t \in Seq(S) /\ Len(t) = Len(one) + Len(s)
      /\ \A i \in 1 .. Len(one) + Len(s) : t[i] = IF i <= Len(one) THEN one[i] ELSE s[i - Len(one)]
  BY <1>1, ConcatProperties
<1> HIDE DEF t
<1>3. Len(t) = Len(s) + 1 /\ t[1] = x /\ t # <<>>
  BY <1>1, <1>2
<1>4. ASSUME NEW i \in 1 .. Len(s)
      PROVE  t[i + 1] = s[i]
  <2>1. i + 1 \in 1 .. Len(one) + Len(s) /\ ~(i + 1 <= Len(one)) /\ i + 1 - Len(one) = i
    BY <1>1
  <2> QED
    BY <1>2, <2>1
<1>5. Head(t) = x
  BY <1>2, <1>3
<1>6. Tail(t) = s
  <2>1. /\ Tail(t) \in Seq(S) /\ Len(Tail(t)) = Len(t) - 1
        /\ \A i \in 1 .. Len(Tail(t)) : Tail(t)[i] = t[i + 1]
    BY <1>2, <1>3, HeadTailProperties
  <2>2. Len(Tail(t)) = Len(s)
    BY <1>1, <1>3, <2>1
  <2>3. \A i \in 1 .. Len(Tail(t)) : Tail(t)[i] = s[i]
    BY <1>4, <2>1, <2>2
  <2> QED
    BY <2>1, <2>2, <2>3, SeqEqual
<1> QED
  BY <1>2, <1>3, <1>4, <1>5, <1>6 DEF t, one

\* A sequence is its first element and the rest.
LEMMA FirstAndRest ==
    ASSUME NEW S, NEW s \in Seq(S), s # <<>>
    PROVE  Head(s) \in S /\ Tail(s) \in Seq(S) /\ s = <<Head(s)>> \o Tail(s)
<1>1. /\ Head(s) \in S /\ Tail(s) \in Seq(S) /\ Len(Tail(s)) = Len(s) - 1
      /\ \A i \in 1 .. Len(Tail(s)) : Tail(s)[i] = s[i + 1]
  BY HeadTailProperties
<1> DEFINE t == <<Head(s)>> \o Tail(s)
<1>2. /\ t \in Seq(S) /\ Len(t) = Len(Tail(s)) + 1 /\ t[1] = Head(s)
      /\ \A i \in 1 .. Len(Tail(s)) : t[i + 1] = Tail(s)[i]
  BY <1>1, OneBefore
<1> HIDE DEF t
<1>3. Len(s) \in Nat /\ Len(t) = Len(s) /\ Head(s) = s[1]
  BY <1>1, <1>2
<1>4. ASSUME NEW i \in 1 .. Len(s)
      PROVE  s[i] = t[i]
  <2>1. CASE i = 1
    BY <1>2, <1>3, <2>1
  <2>2. CASE i # 1
    <3>1. i - 1 \in 1 .. Len(Tail(s)) /\ (i - 1) + 1 = i
      BY <1>1, <1>3, <2>2
    <3> QED
      BY <1>1, <1>2, <3>1
  <2> QED
    BY <2>1, <2>2
<1>5. s = t
  BY <1>2, <1>3, <1>4, SeqEqual
<1> QED
  BY <1>1, <1>5 DEF t

\* One element after a sequence.
LEMMA OneAfter ==
    ASSUME NEW S, NEW x \in S, NEW s \in Seq(S)
    PROVE  /\ s \o <<x>> \in Seq(S) /\ s \o <<x>> # <<>> /\ Len(s \o <<x>>) = Len(s) + 1
           /\ Front(s \o <<x>>) = s /\ Last(s \o <<x>>) = x
<1> DEFINE t == s \o <<x>>
<1>1. t = Append(s, x)
  BY AppendIsConcat
<1> HIDE DEF t
<1>2. /\ t \in Seq(S) /\ t # <<>> /\ Len(t) = Len(s) + 1 /\ Len(s) \in Nat
      /\ \A i \in 1 .. Len(s) : t[i] = s[i]
      /\ t[Len(s) + 1] = x
  BY <1>1, AppendProperties
<1>3. Last(t) = x
  BY <1>2 DEF Last
<1>4. Front(t) = s
  <2>1. Front(t) = SubSeq(t, 1, Len(s))
    BY <1>2 DEF Front
  <2>2. \A i \in 1 .. Len(s) : t[i] \in S
    BY <1>2
  <2>3. /\ SubSeq(t, 1, Len(s)) \in Seq(S)
        /\ Len(SubSeq(t, 1, Len(s))) = IF 1 <= Len(s) THEN Len(s) - 1 + 1 ELSE 0
        /\ \A i \in 1 .. Len(s) - 1 + 1 : SubSeq(t, 1, Len(s))[i] = t[1 + i - 1]
    <3>1. 1 \in Int /\ Len(s) \in Int
      BY <1>2
    <3> QED
      BY <2>2, <3>1, SubSeqProperties
  <2>4. Len(SubSeq(t, 1, Len(s))) = Len(s) /\ \A i \in 1 .. Len(s) : SubSeq(t, 1, Len(s))[i] = s[i]
    BY <1>2, <2>3
  <2> QED
    BY <2>1, <2>3, <2>4, SeqEqual
<1> QED
  BY <1>2, <1>3, <1>4 DEF t

\* A sequence is its last element after the rest.
LEMMA LastAfterRest ==
    ASSUME NEW S, NEW s \in Seq(S), s # <<>>
    PROVE  Front(s) \in Seq(S) /\ Last(s) \in S /\ s = Front(s) \o <<Last(s)>>
<1>1. PICK t \in Seq(S), x \in S : s = Append(t, x)
  BY SequenceEmptyOrAppend
<1>2. s = t \o <<x>>
  BY <1>1, AppendIsConcat
<1> QED
  BY <1>2, OneAfter

\* A prefix is followed by something.
LEMMA PrefixIs ==
    ASSUME NEW S, NEW s \in Seq(S), NEW t \in Seq(S)
    PROVE  IsPrefix(s, t) <=> \E u \in Seq(S) : t = s \o u
<1>1. Len(s) \in Nat /\ Len(t) \in Nat /\ SubSeq(s, 1, Len(s)) = s
  BY SubSeqFull
<1>2. ASSUME IsPrefix(s, t)
      PROVE  \E u \in Seq(S) : t = s \o u
  <2>1. Len(s) <= Len(t) /\ SubSeq(t, 1, Len(s)) = s
    BY <1>1, <1>2 DEF IsPrefix
  <2>2. 1 \in 1 .. Len(t) + 1 /\ Len(s) \in 1 - 1 .. Len(t) /\ Len(t) \in Len(s) .. Len(t)
    BY <1>1, <2>1
  <2>3. SubSeq(t, 1, Len(s)) \o SubSeq(t, Len(s) + 1, Len(t)) = SubSeq(t, 1, Len(t))
    BY <2>2, ConcatAdjacentSubSeq
  <2>4. SubSeq(t, Len(s) + 1, Len(t)) \in Seq(S)
    <3>1. Len(s) + 1 \in Int /\ Len(t) \in Int /\ \A i \in Len(s) + 1 .. Len(t) : t[i] \in S
      BY <1>1
    <3> QED
      BY <3>1, SubSeqProperties
  <2> QED
    BY <2>1, <2>3, <2>4, SubSeqFull
<1>3. ASSUME NEW u \in Seq(S), t = s \o u
      PROVE  IsPrefix(s, t)
  <2>1. Len(u) \in Nat /\ Len(t) = Len(s) + Len(u)
    BY <1>3, ConcatProperties
  <2>2. Len(s) <= Len(t)
    BY <1>1, <2>1
  <2>3. SubSeq(t, 1, Len(s)) = SubSeq(s, 1, Len(s))
    <3>1. CASE Len(s) = 0
      BY <3>1, SubSeqEmpty
    <3>2. CASE Len(s) # 0
      <4>1. 1 \in 1 .. Len(s) /\ Len(s) \in 1 .. Len(s)
        BY <1>1, <3>2
      <4> QED
        BY <1>3, <4>1, SubSeqOfConcat1
    <3> QED
      BY <3>1, <3>2
  <2> QED
    BY <2>2, <2>3 DEF IsPrefix
<1> QED
  BY <1>2, <1>3

\* What is reversed.
LEMMA ReverseIs ==
    ASSUME NEW S, NEW s \in Seq(S)
    PROVE  /\ Reverse(s) \in Seq(S) /\ Len(Reverse(s)) = Len(s)
           /\ \A i \in 1 .. Len(s) : Reverse(s)[i] = s[(Len(s) - i) + 1]
           /\ Reverse(Reverse(s)) = s
<1>1. ASSUME NEW r \in Seq(S)
      PROVE  /\ Reverse(r) \in Seq(S) /\ Len(Reverse(r)) = Len(r)
             /\ \A i \in 1 .. Len(r) : Reverse(r)[i] = r[(Len(r) - i) + 1]
  <2>1. Len(r) \in Nat /\ \A i \in 1 .. Len(r) : (Len(r) - i) + 1 \in 1 .. Len(r)
    OBVIOUS
  <2>2. Reverse(r) = [i \in 1 .. Len(r) |-> r[(Len(r) - i) + 1]]
    BY DEF Reverse
  <2>3. Reverse(r) \in [1 .. Len(r) -> S]
    BY <2>1, <2>2
  <2> QED
    BY <2>1, <2>2, <2>3
<1> DEFINE r == Reverse(s)
<1>2. /\ r \in Seq(S) /\ Len(r) = Len(s)
      /\ \A i \in 1 .. Len(s) : r[i] = s[(Len(s) - i) + 1]
  BY <1>1
<1> HIDE DEF r
<1>3. /\ Reverse(r) \in Seq(S) /\ Len(Reverse(r)) = Len(r)
      /\ \A i \in 1 .. Len(r) : Reverse(r)[i] = r[(Len(r) - i) + 1]
  BY <1>1, <1>2
<1>4. ASSUME NEW i \in 1 .. Len(s)
      PROVE  Reverse(r)[i] = s[i]
  <2> DEFINE j == (Len(s) - i) + 1
  <2>1. j \in 1 .. Len(s) /\ (Len(s) - j) + 1 = i
    OBVIOUS
  <2> HIDE DEF j
  <2>2. Reverse(r)[i] = r[j]
    BY <1>2, <1>3 DEF j
  <2> QED
    BY <1>2, <2>1, <2>2
<1>5. Reverse(r) = s
  BY <1>2, <1>3, <1>4, SeqEqual
<1> QED
  BY <1>2, <1>5 DEF r

LEMMA ReverseOfBoth ==
    ASSUME NEW S, NEW s \in Seq(S), NEW t \in Seq(S)
    PROVE  Reverse(s \o t) = Reverse(t) \o Reverse(s)
<1> DEFINE both == s \o t
           r == Reverse(both)
           ends == Reverse(t) \o Reverse(s)
<1>1. /\ both \in Seq(S) /\ Len(both) = Len(s) + Len(t) /\ Len(s) \in Nat /\ Len(t) \in Nat
      /\ \A i \in 1 .. Len(s) + Len(t) : both[i] = IF i <= Len(s) THEN s[i] ELSE t[i - Len(s)]
  BY ConcatProperties
<1> HIDE DEF both
<1>2. /\ r \in Seq(S) /\ Len(r) = Len(s) + Len(t)
      /\ \A i \in 1 .. Len(s) + Len(t) : r[i] = both[(Len(s) + Len(t) - i) + 1]
  <2>1. /\ Reverse(both) \in Seq(S) /\ Len(Reverse(both)) = Len(both)
        /\ \A i \in 1 .. Len(both) : Reverse(both)[i] = both[(Len(both) - i) + 1]
    BY <1>1, ReverseIs
  <2>2. Len(both) = Len(s) + Len(t)
    BY <1>1
  <2> HIDE DEF r
  <2>3. r = Reverse(both)
    BY DEF r
  <2>4. r \in Seq(S) /\ Len(r) = Len(s) + Len(t)
    BY <2>1, <2>2, <2>3
  <2>5. ASSUME NEW i \in 1 .. Len(s) + Len(t)
        PROVE  r[i] = both[(Len(s) + Len(t) - i) + 1]
    <3>1. i \in 1 .. Len(both)
      BY <2>2
    <3>2. r[i] = both[(Len(both) - i) + 1]
      BY <2>1, <2>3, <3>1
    <3> QED
      BY <2>2, <3>2
  <2> QED
    BY <2>4, <2>5
<1>3. /\ Reverse(s) \in Seq(S) /\ Len(Reverse(s)) = Len(s)
      /\ \A i \in 1 .. Len(s) : Reverse(s)[i] = s[(Len(s) - i) + 1]
      /\ Reverse(t) \in Seq(S) /\ Len(Reverse(t)) = Len(t)
      /\ \A i \in 1 .. Len(t) : Reverse(t)[i] = t[(Len(t) - i) + 1]
  BY ReverseIs
<1>4. /\ ends \in Seq(S) /\ Len(ends) = Len(t) + Len(s)
      /\ \A i \in 1 .. Len(t) + Len(s) :
            ends[i] = IF i <= Len(t) THEN Reverse(t)[i] ELSE Reverse(s)[i - Len(t)]
  <2>1. /\ ends \in Seq(S) /\ Len(ends) = Len(Reverse(t)) + Len(Reverse(s))
        /\ \A i \in 1 .. Len(Reverse(t)) + Len(Reverse(s)) :
              ends[i] = IF i <= Len(Reverse(t)) THEN Reverse(t)[i] ELSE Reverse(s)[i - Len(Reverse(t))]
    <3>1. Reverse(t) \in Seq(S) /\ Reverse(s) \in Seq(S)
      BY <1>3
    <3> QED
      BY <3>1, ConcatProperties
  <2> HIDE DEF ends
  <2> QED
    BY <1>3, <2>1, Zenon
<1> HIDE DEF r, ends
<1>5. ASSUME NEW i \in 1 .. Len(s) + Len(t)
      PROVE  r[i] = ends[i]
  <2> DEFINE j == (Len(s) + Len(t) - i) + 1
  <2>1. /\ j \in 1 .. Len(s) + Len(t) /\ i \in 1 .. Len(t) + Len(s)
        /\ r[i] = both[j]
    BY <1>1, <1>2
  <2>2. CASE i <= Len(t)
    <3>1. ~(j <= Len(s)) /\ j - Len(s) = (Len(t) - i) + 1 /\ i \in 1 .. Len(t)
      BY <1>1, <2>2
    <3> HIDE DEF j
    <3>2. both[j] = t[j - Len(s)]
      BY <1>1, <2>1, <3>1
    <3> QED
      BY <1>3, <1>4, <2>1, <2>2, <3>1, <3>2
  <2>3. CASE ~(i <= Len(t))
    <3>1. j <= Len(s) /\ i - Len(t) \in 1 .. Len(s) /\ (Len(s) - (i - Len(t))) + 1 = j
      BY <1>1, <2>3
    <3> HIDE DEF j
    <3>2. both[j] = s[j]
      BY <1>1, <2>1, <3>1
    <3> QED
      BY <1>3, <1>4, <2>1, <2>3, <3>1, <3>2
  <2> QED
    BY <2>2, <2>3
<1>6. Len(r) = Len(ends)
  BY <1>1, <1>2, <1>4
<1>7. r = ends
  BY <1>2, <1>4, <1>5, <1>6, SeqEqual
<1> QED
  BY <1>7 DEF r, ends, both

\* A suffix comes after something.
LEMMA SuffixIs ==
    ASSUME NEW S, NEW s \in Seq(S), NEW t \in Seq(S)
    PROVE  IsSuffix(s, t) <=> \E u \in Seq(S) : t = u \o s
<1>1. Reverse(s) \in Seq(S) /\ Reverse(t) \in Seq(S)
  BY ReverseIs
<1>2. IsSuffix(s, t) <=> \E u \in Seq(S) : Reverse(t) = Reverse(s) \o u
  BY <1>1, PrefixIs DEF IsSuffix
<1>3. ASSUME NEW u \in Seq(S), Reverse(t) = Reverse(s) \o u
      PROVE  Reverse(u) \in Seq(S) /\ t = Reverse(u) \o s
  <2>1. Reverse(Reverse(t)) = Reverse(u) \o Reverse(Reverse(s))
    BY <1>1, <1>3, ReverseOfBoth
  <2> QED
    BY <2>1, ReverseIs
<1>4. ASSUME NEW u \in Seq(S), t = u \o s
      PROVE  Reverse(u) \in Seq(S) /\ Reverse(t) = Reverse(s) \o Reverse(u)
  BY <1>4, ReverseIs, ReverseOfBoth
<1> QED
  BY <1>2, <1>3, <1>4

-----------------------------------------------------------------------------
(***************************************************************************)
(* A name and its labels.                                                  *)
(***************************************************************************)
\* A name is what is before one of its dots, and what is after.
LEMMA SplitAtDot ==
    ASSUME NEW host \in Texts, NEW i \in 1 .. Len(host), host[i] = "."
    PROVE  \E a, b \in Texts : host = Dotted(a, b) /\ Len(a) = i - 1
<1> DEFINE a == SubSeq(host, 1, i - 1)
           b == SubSeq(host, i + 1, Len(host))
<1>1. Len(host) \in Nat /\ host \in Seq(Pieces)
  BY DEF Texts
<1>2. a \in Texts /\ Len(a) = i - 1
  <2>1. 1 \in Int /\ i - 1 \in Int /\ 1 <= 1 /\ i - 1 <= Len(host)
    BY <1>1
  <2>2. a \in Texts /\ Len(a) = IF 1 <= i - 1 THEN (i - 1) - 1 + 1 ELSE 0
    BY <2>1, SliceIsText
  <2> HIDE DEF a
  <2> QED
    BY <2>2
<1>3. b \in Texts
  <2>1. i + 1 \in Int /\ Len(host) \in Int /\ 1 <= i + 1 /\ Len(host) <= Len(host)
    BY <1>1
  <2> QED
    BY <2>1, SliceIsText
<1>4. SubSeq(host, i, i) = <<".">>
  <2>1. i \in 1 .. Len(host) /\ i \in i .. Len(host) /\ i \in Int /\ i < i + 1 /\ i + 1 \in Int
    BY <1>1
  <2>2. SubSeq(host, i, i) = <<host[i]>> \o SubSeq(host, i + 1, i)
    BY <1>1, <2>1, SubSeqRecursiveFirst
  <2>3. SubSeq(host, i + 1, i) = <<>>
    BY <2>1, SubSeqEmpty
  <2>4. <<".">> \in Seq(Pieces)
    BY DEF Pieces
  <2> QED
    BY <2>2, <2>3, <2>4, ConcatEmptySeq
<1>5. a \o SubSeq(host, i, i) = SubSeq(host, 1, i)
  <2>1. 1 \in 1 .. Len(host) + 1 /\ i - 1 \in 1 - 1 .. Len(host) /\ i \in i - 1 .. Len(host)
    BY <1>1
  <2>2. SubSeq(host, 1, i - 1) \o SubSeq(host, (i - 1) + 1, i) = SubSeq(host, 1, i)
    BY <1>1, <2>1, ConcatAdjacentSubSeq
  <2>3. (i - 1) + 1 = i
    OBVIOUS
  <2> QED
    BY <2>2, <2>3
<1>6. SubSeq(host, 1, i) \o b = host
  <2>1. 1 \in 1 .. Len(host) + 1 /\ i \in 1 - 1 .. Len(host) /\ Len(host) \in i .. Len(host)
    BY <1>1
  <2>2. SubSeq(host, 1, i) \o SubSeq(host, i + 1, Len(host)) = SubSeq(host, 1, Len(host))
    BY <1>1, <2>1, ConcatAdjacentSubSeq
  <2> QED
    BY <1>1, <2>2, SubSeqFull
<1> HIDE DEF a, b
<1>7. host = Dotted(a, b)
  BY <1>4, <1>5, <1>6 DEF Dotted
<1> QED
  BY <1>2, <1>3, <1>7

\* A name is its one label unless there is a dot in it.
LEMMA OneLabel ==
    ASSUME NEW host \in Texts
    PROVE  /\ (\A i \in 1 .. Len(host) : host[i] # ".") => Labels(host) = <<host>>
           /\ Len(Labels(host)) = 1 => \A i \in 1 .. Len(host) : host[i] # "."
<1>1. Len(host) \in Nat
  BY DEF Texts
<1>2. ASSUME \A i \in 1 .. Len(host) : host[i] # "."
      PROVE  Labels(host) = <<host>>
  <2> DEFINE N == Len(Labels(host))
  <2>1. Ends(host) = {Len(host) + 1}
    BY <1>1, <1>2 DEF Ends
  <2>2. /\ N \in Nat /\ N >= 1 /\ EndOf(host, 0) = 0
        /\ \A n \in 1 .. N : EndOf(host, n) \in Ends(host)
        /\ \A m, n \in 1 .. N : m < n => EndOf(host, m) < EndOf(host, n)
    <3>1. N \in Nat /\ N >= 1 /\ N = Cardinality(Ends(host))
      BY LabelsAreTexts
    <3> QED
      BY <3>1, LabelsInOrder
  <2> HIDE DEF N
  <2>3. 1 \in 1 .. N /\ N \in 1 .. N
    BY <2>2
  <2>4. EndOf(host, 1) = Len(host) + 1 /\ EndOf(host, N) = Len(host) + 1
    BY <2>1, <2>2, <2>3
  <2>5. N = 1
    BY <1>1, <2>2, <2>3, <2>4
  <2>7. /\ Labels(host) \in Seq(Texts)
        /\ \A n \in 1 .. Len(Labels(host)) :
              Labels(host)[n] = SubSeq(host, EndOf(host, n - 1) + 1, EndOf(host, n) - 1)
    BY LabelsAreTexts
  <2>8. Labels(host)[1] = SubSeq(host, EndOf(host, 1 - 1) + 1, EndOf(host, 1) - 1)
    BY <2>3, <2>5, <2>7 DEF N
  <2>9. 1 - 1 = 0 /\ 0 + 1 = 1 /\ (Len(host) + 1) - 1 = Len(host)
    BY <1>1
  <2>10. Labels(host)[1] = host
    BY <2>2, <2>4, <2>8, <2>9, SubSeqFull DEF Texts
  <2>11. \A s \in Seq(Texts) : Len(s) = 1 => s = <<s[1]>>
    OBVIOUS
  <2> QED
    BY <2>5, <2>7, <2>10, <2>11, Zenon DEF N
<1>3. ASSUME Len(Labels(host)) = 1, NEW i \in 1 .. Len(host), host[i] = "."
      PROVE  FALSE
  <2>1. PICK a, b \in Texts : host = Dotted(a, b)
    BY <1>3, SplitAtDot
  <2>2. Len(Labels(host)) = Len(Labels(a)) + Len(Labels(b))
    BY <2>1, EndsOfDotted
  <2>3. /\ Len(Labels(a)) \in Nat /\ Len(Labels(a)) >= 1
        /\ Len(Labels(b)) \in Nat /\ Len(Labels(b)) >= 1
    BY LabelsAreTexts
  <2> QED
    BY <1>3, <2>2, <2>3
<1> QED
  BY <1>2, <1>3

\* A name of several labels can be cut after any of them but the last.
LEMMA SplitAtLabel ==
    ASSUME NEW host \in Texts, NEW k \in 1 .. Len(Labels(host)) - 1
    PROVE  \E a, b \in Texts :
              /\ host = Dotted(a, b) /\ Labels(host) = Labels(a) \o Labels(b)
              /\ Len(Labels(a)) = k /\ Len(Labels(b)) = Len(Labels(host)) - k
<1> DEFINE N == Len(Labels(host))
           i == EndOf(host, k)
<1>1. N \in Nat /\ N = Cardinality(Ends(host)) /\ Len(host) \in Nat
  BY LabelsAreTexts DEF Texts
<1>2. /\ \A n \in 1 .. N : EndOf(host, n) \in Ends(host)
      /\ \A m, n \in 1 .. N : m < n => EndOf(host, m) < EndOf(host, n)
      /\ EndOf(host, N) = Len(host) + 1
  BY <1>1, LabelsInOrder
<1> HIDE DEF N
<1>3. k \in 1 .. N - 1
  BY DEF N
<1>4. i \in 1 .. Len(host) /\ host[i] = "."
  <2>1. k \in 1 .. N /\ N \in 1 .. N /\ k < N
    BY <1>1, <1>3
  <2>2. i \in Ends(host) /\ i < Len(host) + 1
    BY <1>2, <2>1
  <2> QED
    BY <1>1, <2>2 DEF Ends
<1>5. PICK a, b \in Texts : host = Dotted(a, b) /\ Len(a) = i - 1
  BY <1>4, SplitAtDot
<1>6. /\ Len(Labels(host)) = Len(Labels(a)) + Len(Labels(b))
      /\ \A n \in 0 .. Len(Labels(a)) : EndOf(host, n) = EndOf(a, n)
      /\ Labels(host) = Labels(a) \o Labels(b)
  BY <1>5, EndsOfDotted, LabelsOfDotted
<1>7. /\ Len(Labels(a)) \in Nat /\ Len(Labels(a)) >= 1
      /\ Len(Labels(b)) \in Nat /\ Len(Labels(b)) >= 1
      /\ Len(Labels(a)) = Cardinality(Ends(a))
  BY LabelsAreTexts
<1> DEFINE A == Len(Labels(a))
<1>8. EndOf(a, A) = Len(a) + 1
  BY <1>7, LabelsInOrder
<1>9. A \in 1 .. N /\ A \in 0 .. A /\ EndOf(host, A) = i
  <2>1. A \in 1 .. N /\ A \in 0 .. A
    BY <1>6, <1>7 DEF N
  <2>2. EndOf(host, A) = Len(a) + 1
    BY <1>6, <1>8, <2>1
  <2>3. i \in Int
    BY <1>4
  <2> HIDE DEF i
  <2> QED
    BY <1>5, <2>1, <2>2, <2>3
<1> HIDE DEF A
<1>10. k = A
  <2>1. k \in 1 .. N /\ EndOf(host, k) = EndOf(host, A)
    BY <1>1, <1>3, <1>9
  <2>2. EndOf(host, k) \in Int
    BY <1>4
  <2>3. ~(k < A) /\ ~(A < k)
    BY <1>2, <1>9, <2>1, <2>2
  <2> QED
    BY <1>1, <1>9, <2>1, <2>3
<1> QED
  BY <1>5, <1>6, <1>7, <1>10, SMTT(30) DEF A

\* Different names have different labels.
LEMMA LabelsTell ==
    ASSUME NEW x \in Texts, NEW y \in Texts, Labels(x) = Labels(y)
    PROVE  x = y
<1> DEFINE Alike(n, a, b) == a # b /\ Labels(a) = Labels(b) /\ Len(Labels(a)) = n
           counts == {n \in Nat : \E a, b \in Texts : Alike(n, a, b)}
<1> SUFFICES ASSUME x # y
             PROVE  FALSE
  OBVIOUS
<1>1. counts \in SUBSET Nat /\ Len(Labels(x)) \in counts
  BY LabelsAreTexts
<1>2. PICK n \in counts : \A m \in counts : n <= m
  BY <1>1, FirstOf
<1>3. PICK a, b \in Texts : a # b /\ Labels(a) = Labels(b) /\ Len(Labels(a)) = n
  BY <1>2
<1>7. ASSUME NEW m \in Nat, m < n, NEW c \in Texts, NEW d \in Texts,
             Labels(c) = Labels(d), Len(Labels(c)) = m
      PROVE  c = d
  <2>1. m \notin counts
    BY <1>2, <1>7
  <2> QED
    BY <1>7, <2>1
<1> HIDE DEF Alike, counts
<1>4. n \in Nat /\ n >= 1
  BY <1>3, LabelsAreTexts
<1>5. CASE n = 1
  <2>1. Labels(a) = <<a>> /\ Labels(b) = <<b>>
    BY <1>3, <1>5, OneLabel
  <2>2. <<a>>[1] = a /\ <<b>>[1] = b
    OBVIOUS
  <2> QED
    BY <1>3, <2>1, <2>2
<1>6. CASE n # 1
  <2>1. 1 \in 1 .. n - 1
    BY <1>4, <1>6
  <2>2. PICK a1, a2 \in Texts :
           /\ a = Dotted(a1, a2) /\ Labels(a) = Labels(a1) \o Labels(a2)
           /\ Len(Labels(a1)) = 1 /\ Len(Labels(a2)) = n - 1
    BY <1>3, <2>1, SplitAtLabel, ZenonT(60)
  <2>3. PICK b1, b2 \in Texts :
           /\ b = Dotted(b1, b2) /\ Labels(b) = Labels(b1) \o Labels(b2)
           /\ Len(Labels(b1)) = 1 /\ Len(Labels(b2)) = n - 1
    <3>1. Len(Labels(b)) = n /\ 1 \in 1 .. Len(Labels(b)) - 1
      BY <1>3, <2>1
    <3>2. \E b1, b2 \in Texts :
             /\ b = Dotted(b1, b2) /\ Labels(b) = Labels(b1) \o Labels(b2)
             /\ Len(Labels(b1)) = 1 /\ Len(Labels(b2)) = Len(Labels(b)) - 1
      BY <3>1, SplitAtLabel
    <3> QED
      BY <3>1, <3>2, Zenon
  <2>4. Labels(a1) = Labels(b1) /\ Labels(a2) = Labels(b2)
    <3>1. /\ Labels(a1) \in Seq(Texts) /\ Labels(a2) \in Seq(Texts)
          /\ Labels(b1) \in Seq(Texts) /\ Labels(b2) \in Seq(Texts)
      BY LabelsAreTexts
    <3>2. Labels(a1) \o Labels(a2) = Labels(b1) \o Labels(b2)
      BY <1>3, <2>2, <2>3
    <3>3. Len(Labels(a1)) = Len(Labels(b1))
      BY <2>2, <2>3
    <3> QED
      BY <3>1, <3>2, <3>3, CutsAgree
  <2>5. 1 \in Nat /\ 1 < n /\ n - 1 \in Nat /\ n - 1 < n
    BY <1>4, <1>6
  <2>6. a1 = b1
    BY <1>7, <2>2, <2>4, <2>5
  <2>7. a2 = b2
    BY <1>7, <2>2, <2>4, <2>5
  <2> QED
    BY <1>3, <2>2, <2>3, <2>6, <2>7
<1> QED
  BY <1>5, <1>6

\* A piece is a text.
LEMMA OnePiece ==
    ASSUME NEW x \in Pieces
    PROVE  <<x>> \in Texts /\ Len(<<x>>) = 1 /\ <<x>>[1] = x
BY DEF Texts

\* Two pieces are one and then the other.
LEMMA PairIsConcat ==
    ASSUME NEW x \in Pieces, NEW y \in Pieces
    PROVE  <<x>> \o <<y>> = <<x, y>>
<1> DEFINE both == <<x>> \o <<y>>
<1>1. <<y>> \in Seq(Pieces) /\ Len(<<y>>) = 1 /\ <<y>>[1] = y /\ 1 \in 1 .. 1
  BY OnePiece DEF Texts
<1>2. both \in Seq(Pieces) /\ Len(both) = 1 + 1 /\ both[1] = x /\ both[1 + 1] = y
  BY <1>1, OneBefore
<1> HIDE DEF both
<1>3. <<x, y>> \in Seq(Pieces) /\ Len(<<x, y>>) = 2 /\ <<x, y>>[1] = x /\ <<x, y>>[2] = y
  OBVIOUS
<1>4. \A i \in 1 .. 2 : both[i] = <<x, y>>[i]
  <2>1. \A i \in 1 .. 2 : i = 1 \/ i = 1 + 1
    OBVIOUS
  <2>2. 1 + 1 = 2
    OBVIOUS
  <2> QED
    BY <1>2, <1>3, <2>1, <2>2
<1>5. Len(both) = 2
  BY <1>2
<1>6. both = <<x, y>>
  BY <1>2, <1>3, <1>4, <1>5, SeqEqual
<1> QED
  BY <1>6 DEF both

\* A text that starts with two pieces.
LEMMA PairBefore ==
    ASSUME NEW x \in Pieces, NEW y \in Pieces, NEW host \in Texts
    PROVE  IsPrefix(<<x, y>>, host) <=> \E s \in Texts : host = (<<x>> \o <<y>>) \o s
<1>1. <<x, y>> \in Seq(Pieces) /\ host \in Seq(Pieces)
  BY DEF Texts
<1>2. IsPrefix(<<x, y>>, host) <=> \E s \in Seq(Pieces) : host = <<x, y>> \o s
  BY <1>1, PrefixIs
<1> QED
  BY <1>2, PairIsConcat DEF Texts

\* Something before a dot and a text is what is before that text with a dot.
LEMMA DottedIsConcat ==
    ASSUME NEW a \in Texts, NEW b \in Texts
    PROVE  Dotted(a, b) = a \o (<<".">> \o b) /\ <<".">> \o b \in Texts /\ a \o <<".">> \in Texts
<1>1. "." \in Pieces
  BY DEF Pieces
<1>2. <<".">> \in Seq(Pieces) /\ a \in Seq(Pieces) /\ b \in Seq(Pieces)
  BY <1>1, OnePiece DEF Texts
<1>3. a \o <<".">> \in Seq(Pieces) /\ <<".">> \o b \in Seq(Pieces)
  BY <1>2, ConcatProperties
<1>4. (a \o <<".">>) \o b = a \o (<<".">> \o b)
  BY <1>2, ConcatAssociative
<1> QED
  BY <1>3, <1>4 DEF Dotted, Texts

\* A name is under another one if its labels end with that one's.
LEMMA UnderIsSuffix ==
    ASSUME NEW s \in Texts, NEW host \in Texts
    PROVE  IsUnder(s, host) <=> IsSuffix(Labels(s), Labels(host))
<1>1. /\ Labels(s) \in Seq(Texts) /\ Labels(host) \in Seq(Texts)
      /\ Len(Labels(s)) \in Nat /\ Len(Labels(s)) >= 1
  BY LabelsAreTexts
<1>2. IsSuffix(Labels(s), Labels(host)) <=> \E u \in Seq(Texts) : Labels(host) = u \o Labels(s)
  BY <1>1, SuffixIs
<1>3. IsSuffix(<<".">> \o s, host) <=> \E u \in Texts : host = Dotted(u, s)
  <2>1. <<".">> \o s \in Texts
    BY DottedIsConcat
  <2>2. IsSuffix(<<".">> \o s, host) <=> \E u \in Texts : host = u \o (<<".">> \o s)
    BY <2>1, SuffixIs, ZenonT(60) DEF Texts
  <2> QED
    BY <2>2, DottedIsConcat
<1>4. ASSUME IsUnder(s, host)
      PROVE  \E u \in Seq(Texts) : Labels(host) = u \o Labels(s)
  <2>1. CASE host = s
    <3>1. <<>> \in Seq(Texts) /\ Labels(s) = <<>> \o Labels(s)
      BY <1>1, ConcatEmptySeq
    <3> QED
      BY <2>1, <3>1
  <2>2. CASE IsSuffix(<<".">> \o s, host)
    <3>1. PICK u \in Texts : host = Dotted(u, s)
      BY <1>3, <2>2
    <3> QED
      BY <3>1, LabelsOfDotted, LabelsAreTexts
  <2> QED
    BY <1>4, <2>1, <2>2 DEF IsUnder
<1>5. ASSUME NEW u \in Seq(Texts), Labels(host) = u \o Labels(s)
      PROVE  IsUnder(s, host)
  <2>1. Len(u) \in Nat /\ Len(Labels(host)) = Len(u) + Len(Labels(s))
    BY <1>1, <1>5, ConcatProperties
  <2>2. CASE u = <<>>
    <3>1. Labels(host) = Labels(s)
      BY <1>1, <1>5, <2>2, ConcatEmptySeq
    <3> QED
      BY <3>1, LabelsTell DEF IsUnder
  <2>3. CASE u # <<>>
    <3>1. Len(u) \in 1 .. Len(Labels(host)) - 1
      BY <1>1, <2>1, <2>3
    <3>2. PICK a, b \in Texts :
             /\ host = Dotted(a, b) /\ Labels(host) = Labels(a) \o Labels(b)
             /\ Len(Labels(a)) = Len(u)
      BY <3>1, SplitAtLabel, ZenonT(60)
    <3>3. Labels(a) \in Seq(Texts) /\ Labels(b) \in Seq(Texts)
      BY LabelsAreTexts
    <3>4. Labels(a) \o Labels(b) = u \o Labels(s)
      BY <1>5, <3>2
    <3>5. Labels(b) = Labels(s)
      BY <1>1, <3>2, <3>3, <3>4, CutsAgree
    <3>6. b = s
      BY <3>5, LabelsTell
    <3> QED
      BY <1>3, <3>2, <3>6 DEF IsUnder
  <2> QED
    BY <2>2, <2>3
<1> QED
  BY <1>2, <1>4, <1>5

\* A name starts with another one if its labels start with that one's.
LEMMA StartIsPrefix ==
    ASSUME NEW s \in Texts, NEW host \in Texts
    PROVE  StartsWith(s, host) <=> IsPrefix(Labels(s), Labels(host))
<1>1. /\ Labels(s) \in Seq(Texts) /\ Labels(host) \in Seq(Texts)
      /\ Len(Labels(s)) \in Nat /\ Len(Labels(s)) >= 1
  BY LabelsAreTexts
<1>2. IsPrefix(Labels(s), Labels(host)) <=> \E u \in Seq(Texts) : Labels(host) = Labels(s) \o u
  BY <1>1, PrefixIs
<1>3. IsPrefix(s \o <<".">>, host) <=> \E u \in Texts : host = Dotted(s, u)
  <2>1. s \o <<".">> \in Texts
    BY DottedIsConcat
  <2>2. IsPrefix(s \o <<".">>, host) <=> \E u \in Texts : host = (s \o <<".">>) \o u
    BY <2>1, PrefixIs, ZenonT(60) DEF Texts
  <2> QED
    BY <2>2 DEF Dotted
<1>4. ASSUME StartsWith(s, host)
      PROVE  \E u \in Seq(Texts) : Labels(host) = Labels(s) \o u
  <2>1. CASE host = s
    <3>1. <<>> \in Seq(Texts) /\ Labels(s) = Labels(s) \o <<>>
      BY <1>1, ConcatEmptySeq
    <3> QED
      BY <2>1, <3>1
  <2>2. CASE IsPrefix(s \o <<".">>, host)
    <3>1. PICK u \in Texts : host = Dotted(s, u)
      BY <1>3, <2>2
    <3> QED
      BY <3>1, LabelsOfDotted, LabelsAreTexts
  <2> QED
    BY <1>4, <2>1, <2>2 DEF StartsWith
<1>5. ASSUME NEW u \in Seq(Texts), Labels(host) = Labels(s) \o u
      PROVE  StartsWith(s, host)
  <2>1. Len(u) \in Nat /\ Len(Labels(host)) = Len(Labels(s)) + Len(u)
    BY <1>1, <1>5, ConcatProperties
  <2>2. CASE u = <<>>
    <3>1. Labels(host) = Labels(s)
      BY <1>1, <1>5, <2>2, ConcatEmptySeq
    <3> QED
      BY <3>1, LabelsTell DEF StartsWith
  <2>3. CASE u # <<>>
    <3>1. Len(Labels(s)) \in 1 .. Len(Labels(host)) - 1
      BY <1>1, <2>1, <2>3
    <3> DEFINE k == Len(Labels(s))
    <3> HIDE DEF k
    <3>2. PICK a, b \in Texts :
             /\ host = Dotted(a, b) /\ Labels(host) = Labels(a) \o Labels(b)
             /\ Len(Labels(a)) = Len(Labels(s))
      <4>1. k \in 1 .. Len(Labels(host)) - 1
        BY <3>1 DEF k
      <4>2. \E a, b \in Texts :
               /\ host = Dotted(a, b) /\ Labels(host) = Labels(a) \o Labels(b)
               /\ Len(Labels(a)) = k
        BY <4>1, SplitAtLabel
      <4> QED
        BY <4>2 DEF k
    <3>3. Labels(a) \in Seq(Texts) /\ Labels(b) \in Seq(Texts)
      BY LabelsAreTexts
    <3>4. Labels(a) \o Labels(b) = Labels(s) \o u
      BY <1>5, <3>2
    <3>5. Labels(a) = Labels(s)
      BY <1>1, <3>2, <3>3, <3>4, CutsAgree
    <3>6. a = s
      BY <3>5, LabelsTell
    <3> QED
      BY <1>3, <3>2, <3>6 DEF StartsWith
  <2> QED
    BY <2>2, <2>3
<1> QED
  BY <1>2, <1>4, <1>5

\* A name is its first label, or that comes before its first dot.
LEMMA FirstLabel ==
    ASSUME NEW host \in Texts
    PROVE  LET first == Head(Labels(host)) IN
           /\ first \in Texts /\ Labels(first) = <<first>>
           /\ \A i \in 1 .. Len(first) : first[i] # "."
           /\ \/ host = first /\ Tail(Labels(host)) = <<>>
              \/ \E b \in Texts : host = Dotted(first, b) /\ Tail(Labels(host)) = Labels(b)
<1> DEFINE N == Len(Labels(host))
<1>1. N \in Nat /\ N >= 1 /\ Labels(host) \in Seq(Texts) /\ Labels(host) # <<>>
  BY LabelsAreTexts
<1>2. CASE N = 1
  <2>1. \A i \in 1 .. Len(host) : host[i] # "."
    BY <1>2, OneLabel
  <2>2. Labels(host) = <<host>>
    BY <2>1, OneLabel
  <2>3. Head(<<host>>) = host /\ Tail(<<host>>) = <<>>
    OBVIOUS
  <2> QED
    BY <2>1, <2>2, <2>3, Zenon
<1>3. CASE N # 1
  <2> HIDE DEF N
  <2>1. 1 \in 1 .. N - 1
    BY <1>1, <1>3
  <2>2. PICK a, b \in Texts :
           /\ host = Dotted(a, b) /\ Labels(host) = Labels(a) \o Labels(b) /\ Len(Labels(a)) = 1
    BY <2>1, SplitAtLabel DEF N
  <2>3. \A i \in 1 .. Len(a) : a[i] # "."
    BY <2>2, OneLabel
  <2>4. Labels(a) = <<a>> /\ Labels(b) \in Seq(Texts)
    BY <2>3, OneLabel, LabelsAreTexts
  <2>5. Head(Labels(host)) = a /\ Tail(Labels(host)) = Labels(b)
    BY <2>2, <2>4, OneBefore
  <2> QED
    BY <2>2, <2>3, <2>4, <2>5, Zenon
<1> QED
  BY <1>2, <1>3

\* A piece put before a name is put before its first label.
LEMMA PieceBefore ==
    ASSUME NEW x \in Pieces, x # ".", NEW s \in Texts
    PROVE  /\ <<x>> \o s \in Texts
           /\ Labels(<<x>> \o s) = <<<<x>> \o Head(Labels(s))>> \o Tail(Labels(s))
<1> DEFINE first == Head(Labels(s))
<1>1. /\ first \in Texts
      /\ \A i \in 1 .. Len(first) : first[i] # "."
      /\ \/ s = first /\ Tail(Labels(s)) = <<>>
         \/ \E b \in Texts : s = Dotted(first, b) /\ Tail(Labels(s)) = Labels(b)
  BY FirstLabel
<1> HIDE DEF first
<1> DEFINE more == <<x>> \o first
<1>2. <<x>> \in Texts
  BY OnePiece
<1>3. /\ more \in Texts /\ Len(more) = Len(first) + 1 /\ more[1] = x /\ Len(first) \in Nat
      /\ \A i \in 1 .. Len(first) : more[i + 1] = first[i]
  BY <1>1, OneBefore DEF Texts
<1>4. \A i \in 1 .. Len(more) : more[i] # "."
  <2> HIDE DEF more
  <2> SUFFICES ASSUME NEW i \in 1 .. Len(more)
               PROVE  more[i] # "."
    OBVIOUS
  <2>1. CASE i = 1
    BY <1>3, <2>1
  <2>2. CASE i # 1
    <3>1. i - 1 \in 1 .. Len(first) /\ (i - 1) + 1 = i
      BY <1>3, <2>2
    <3> QED
      BY <1>1, <1>3, <3>1
  <2> QED
    BY <2>1, <2>2
<1>5. Labels(more) = <<more>>
  BY <1>3, <1>4, OneLabel
<1>6. <<more>> \in Seq(Texts)
  BY <1>3
<1>7. CASE s = first /\ Tail(Labels(s)) = <<>>
  <2>1. Labels(<<x>> \o s) = <<more>>
    BY <1>5, <1>7
  <2>2. <<more>> \o <<>> = <<more>>
    BY <1>6, ConcatEmptySeq
  <2> QED
    BY <1>3, <1>7, <2>1, <2>2 DEF first
<1>8. CASE \E b \in Texts : s = Dotted(first, b) /\ Tail(Labels(s)) = Labels(b)
  <2>1. PICK b \in Texts : s = Dotted(first, b) /\ Tail(Labels(s)) = Labels(b)
    BY <1>8
  <2>2. <<x>> \o s = Dotted(more, b)
    <3>1. <<".">> \o b \in Texts /\ s = first \o (<<".">> \o b) /\ Dotted(more, b) = more \o (<<".">> \o b)
      BY <1>1, <1>3, <2>1, DottedIsConcat
    <3>2. (<<x>> \o first) \o (<<".">> \o b) = <<x>> \o (first \o (<<".">> \o b))
      BY <1>1, <1>2, <3>1, ConcatAssociative DEF Texts
    <3> QED
      BY <3>1, <3>2
  <2> HIDE DEF more
  <2>3. Dotted(more, b) \in Texts /\ Labels(Dotted(more, b)) = <<more>> \o Labels(b)
    <3>1. Dotted(more, b) \in Texts
      BY <1>3, DottedIsText
    <3>2. Labels(Dotted(more, b)) = Labels(more) \o Labels(b)
      BY <1>3, LabelsOfDotted
    <3> QED
      BY <1>5, <3>1, <3>2
  <2> QED
    BY <2>1, <2>2, <2>3 DEF more, first
<1> QED
  BY <1>1, <1>7, <1>8

\* A name ends with a dot and a piece if that piece is the last of its labels, and
\* not the only one.
LEMMA PieceAfter ==
    ASSUME NEW x \in Pieces, x # ".", NEW host \in Texts
    PROVE  /\ IsSuffix(<<".", x>>, host) <=> Len(Labels(host)) > 1 /\ Last(Labels(host)) = <<x>>
           /\ IsSuffix(<<".", x>>, host) =>
                 DropLast(host, 2) \in Texts /\ Labels(host) = Labels(DropLast(host, 2)) \o <<<<x>>>>
           /\ Len(Labels(host)) = 1 /\ Last(Labels(host)) = <<x>> => host = <<x>>
<1>1. <<x>> \in Texts /\ Labels(<<x>>) = <<<<x>>>> /\ <<<<x>>>> \in Seq(Texts)
  <2>1. <<x>> \in Texts /\ Len(<<x>>) = 1 /\ <<x>>[1] = x
    BY OnePiece
  <2>2. \A i \in 1 .. Len(<<x>>) : <<x>>[i] # "."
    BY <2>1
  <2>3. Labels(<<x>>) = <<<<x>>>>
    BY <2>1, <2>2, OneLabel
  <2> QED
    BY <2>1, <2>3, LabelsAreTexts
<1>2. IsSuffix(<<".", x>>, host) <=> \E u \in Texts : host = Dotted(u, <<x>>)
  <2>1. <<".">> \o <<x>> = <<".", x>>
    <3>1. "." \in Pieces
      BY DEF Pieces
    <3> QED
      BY <3>1, PairIsConcat
  <2>2. <<".", x>> \in Texts
    BY <1>1, <2>1, DottedIsConcat
  <2>3. IsSuffix(<<".", x>>, host) <=> \E u \in Texts : host = u \o <<".", x>>
    BY <2>2, SuffixIs DEF Texts
  <2>4. ASSUME NEW u \in Texts
        PROVE  Dotted(u, <<x>>) = u \o <<".", x>>
    <3>1. Dotted(u, <<x>>) = u \o (<<".">> \o <<x>>)
      BY <1>1, DottedIsConcat
    <3> QED
      BY <2>1, <3>1, Zenon
  <2> QED
    BY <2>3, <2>4, Zenon
<1>3. ASSUME NEW u \in Texts, host = Dotted(u, <<x>>)
      PROVE  /\ DropLast(host, 2) = u /\ Labels(host) = Labels(u) \o <<<<x>>>>
             /\ Len(Labels(host)) > 1 /\ Last(Labels(host)) = <<x>>
  <2>1. Labels(host) = Labels(u) \o <<<<x>>>>
    BY <1>1, <1>3, LabelsOfDotted
  <2>2. Labels(u) \in Seq(Texts) /\ Len(Labels(u)) \in Nat /\ Len(Labels(u)) >= 1
    BY LabelsAreTexts
  <2>3. Len(Labels(host)) = Len(Labels(u)) + 1 /\ Last(Labels(host)) = <<x>>
    BY <1>1, <2>1, <2>2, OneAfter
  <2>4. DropLast(host, 2) = u
    <3>1. /\ Len(u) \in Nat /\ Len(host) = Len(u) + 1 + Len(<<x>>)
          /\ \A i \in 1 .. Len(u) : host[i] = u[i]
      BY <1>1, <1>3, DottedIsText
    <3>2. Len(host) = Len(u) + 2
      BY <3>1
    <3>3. DropLast(host, 2) = SubSeq(host, 1, Len(u))
      BY <3>1, <3>2 DEF DropLast
    <3>4. /\ 1 \in Int /\ Len(u) \in Int /\ 0 \in Int /\ 1 <= 1 /\ Len(u) <= Len(u)
          /\ 1 <= 1 + 0 /\ Len(u) + 0 <= Len(host) /\ 1 + 0 = 1 /\ Len(u) + 0 = Len(u)
          /\ \A i \in 1 .. Len(u) : u[i] = host[i + 0]
      BY <3>1, <3>2
    <3>5. SubSeq(u, 1, Len(u)) = SubSeq(host, 1 + 0, Len(u) + 0)
      BY <3>4, SlicesAgree
    <3> QED
      BY <3>3, <3>4, <3>5, SubSeqFull DEF Texts
  <2> QED
    BY <2>1, <2>2, <2>3, <2>4
<1>4. ASSUME Len(Labels(host)) > 1, Last(Labels(host)) = <<x>>
      PROVE  \E u \in Texts : host = Dotted(u, <<x>>)
  <2> DEFINE N == Len(Labels(host))
  <2>1. N \in Nat /\ N - 1 \in 1 .. N - 1 /\ N - (N - 1) = 1
    BY <1>4, LabelsAreTexts
  <2>2. PICK a, b \in Texts :
           /\ host = Dotted(a, b) /\ Labels(host) = Labels(a) \o Labels(b)
           /\ Len(Labels(b)) = N - (N - 1)
    BY <2>1, SplitAtLabel
  <2>3. Labels(b) = <<b>>
    BY <2>1, <2>2, OneLabel
  <2>4. Last(Labels(host)) = b
    BY <2>2, <2>3, LabelsAreTexts, OneAfter
  <2> QED
    BY <1>4, <2>2, <2>4
<1>5. ASSUME Len(Labels(host)) = 1, Last(Labels(host)) = <<x>>
      PROVE  host = <<x>>
  <2>1. Labels(host) = <<host>>
    BY <1>5, OneLabel
  <2>2. Last(<<host>>) = host
    BY DEF Last
  <2> QED
    BY <1>5, <2>1, <2>2
<1>6. ASSUME IsSuffix(<<".", x>>, host)
      PROVE  DropLast(host, 2) \in Texts /\ Labels(host) = Labels(DropLast(host, 2)) \o <<<<x>>>>
  BY <1>2, <1>3, <1>6
<1> QED
  BY <1>2, <1>3, <1>4, <1>5, <1>6

\* What is left of a text when marks are trimmed is a text.
LEMMA TrimmedIsText ==
    ASSUME NEW s \in Texts, NEW mark
    PROVE  TrimStart(s, mark) \in Texts /\ TrimEnd(s, mark) \in Texts
<1> DEFINE I == {i \in 1 .. Len(s) : s[i] # mark}
<1>1. Len(s) \in Nat /\ <<>> \in Texts
  BY DEF Texts
<1>2. /\ SelectInSeq(s, LAMBDA piece : piece # mark) = IF I # {} THEN Min(I) ELSE 0
      /\ SelectLastInSeq(s, LAMBDA piece : piece # mark) = IF I # {} THEN Max(I) ELSE 0
  BY DEF SelectInSeq, SelectLastInSeq
<1> DEFINE first == SelectInSeq(s, LAMBDA piece : piece # mark)
           last  == SelectLastInSeq(s, LAMBDA piece : piece # mark)
<1>3. /\ TrimStart(s, mark) = IF first = 0 THEN <<>> ELSE DropFirst(s, first - 1)
      /\ TrimEnd(s, mark) = SubSeq(s, 1, last)
  BY DEF TrimStart, TrimEnd
<1>4. CASE I = {}
  <2>1. first = 0 /\ last = 0
    BY <1>2, <1>4
  <2>2. SubSeq(s, 1, 0) = <<>>
    BY SubSeqEmpty
  <2> QED
    BY <1>1, <1>3, <2>1, <2>2
<1>5. CASE I # {}
  <2>1. TrimStart(s, mark) \in Texts
    <3>1. I \in SUBSET Nat
      OBVIOUS
    <3>2. PICK k \in I : \A y \in I : k <= y
      BY <1>5, <3>1, FirstOf
    <3>3. /\ k \in 1 .. Len(s) /\ k - 1 \in 0 .. Len(s) - 1 /\ (k - 1) + 1 = k /\ s[k] # mark
          /\ \A i \in 1 .. k - 1 : i \in 1 .. Len(s) /\ ~(k <= i)
      BY <1>1
    <3>4. \A i \in 1 .. k - 1 : s[i] = mark
      BY <3>2, <3>3
    <3>5. TrimStart(s, mark) = DropFirst(s, k - 1)
      BY <3>3, <3>4, TrimmedStart
    <3>6. SubSeq(s, (k - 1) + 1, Len(s)) \in Texts
      <4>1. (k - 1) + 1 \in Int /\ Len(s) \in Int /\ 1 <= (k - 1) + 1 /\ Len(s) <= Len(s)
        BY <1>1, <3>3
      <4> QED
        BY <4>1, SliceIsText
    <3> QED
      BY <3>5, <3>6 DEF DropFirst
  <2>2. TrimEnd(s, mark) \in Texts
    <3> DEFINE T == {Len(s) - x : x \in I}
    <3>1. T \in SUBSET Nat /\ T # {}
      BY <1>1, <1>5
    <3>2. PICK t \in T : \A y \in T : t <= y
      BY <3>1, FirstOf
    <3>3. PICK k \in I : t = Len(s) - k
      OBVIOUS
    <3>4. \A y \in I : Len(s) - k <= Len(s) - y
      BY <3>2, <3>3
    <3>5. k \in 1 .. Len(s) /\ s[k] # mark /\ \A y \in I : y <= k
      BY <1>1, <3>4
    <3>6. \A i \in k + 1 .. Len(s) : i \in 1 .. Len(s) /\ ~(i <= k)
      BY <1>1, <3>5
    <3>7. \A i \in k + 1 .. Len(s) : s[i] = mark
      BY <3>5, <3>6
    <3>8. TrimEnd(s, mark) = SubSeq(s, 1, k)
      BY <3>5, <3>7, TrimmedEnd
    <3>9. 1 \in Int /\ k \in Int /\ 1 <= 1 /\ k <= Len(s)
      BY <1>1, <3>5
    <3> QED
      BY <3>8, <3>9, SliceIsText
  <2> QED
    BY <2>1, <2>2
<1> QED
  BY <1>4, <1>5

LEMMA NormalIsText ==
    ASSUME NEW host \in Texts
    PROVE  NormalizeHost(host) \in Texts
BY TrimmedIsText DEF NormalizeHost

\* Hosts and patterns are texts.
LEMMA NamesAreTexts == Hosts \cup Patterns \subseteq Texts
<1> SUFFICES ASSUME NEW text \in Hosts \cup Patterns
             PROVE  text \in Seq(Pieces)
  BY DEF Texts
<1>1. text \in Seq(Range(text)) /\ Range(text) \subseteq Pieces
  BY HostAssumption DEF Pieces
<1> QED
  BY <1>1

\* A label of a name that starts with a mark is that of a name that does.
LEMMA MarkedFirst ==
    ASSUME NEW x \in Pieces, x # ".", NEW host \in Texts
    PROVE  IsPrefix(<<x>>, Head(Labels(host))) => IsPrefix(<<x>>, host)
<1> DEFINE first == Head(Labels(host))
<1>1. /\ first \in Texts /\ <<x>> \in Texts
      /\ \/ host = first
         \/ \E b \in Texts : host = Dotted(first, b)
  BY FirstLabel, OnePiece
<1> HIDE DEF first
<1>2. ASSUME NEW u \in Texts, first = <<x>> \o u
      PROVE  IsPrefix(<<x>>, host)
  <2>1. CASE host = first
    BY <1>1, <1>2, <2>1, PrefixIs DEF Texts
  <2>2. CASE \E b \in Texts : host = Dotted(first, b)
    <3>1. PICK b \in Texts : host = Dotted(first, b)
      BY <2>2
    <3>2. host = first \o (<<".">> \o b) /\ <<".">> \o b \in Texts
      BY <1>1, <3>1, DottedIsConcat
    <3>3. host = <<x>> \o (u \o (<<".">> \o b))
      BY <1>1, <1>2, <3>2, ConcatAssociative DEF Texts
    <3>4. u \o (<<".">> \o b) \in Texts
      BY <3>2, ConcatProperties DEF Texts
    <3>5. host \in Texts
      OBVIOUS
    <3> QED
      BY <1>1, <3>3, <3>4, <3>5, PrefixIs DEF Texts
  <2> QED
    BY <1>1, <2>1, <2>2
<1>3. IsPrefix(<<x>>, first) => \E u \in Texts : first = <<x>> \o u
  BY <1>1, PrefixIs DEF Texts
<1> QED
  BY <1>2, <1>3 DEF first

\* A piece alone is the one nothing follows.
LEMMA NothingAfter ==
    ASSUME NEW S, NEW s \in Seq(S), NEW t \in Seq(S)
    PROVE  s \o t = s <=> t = <<>>
BY ConcatEqualIffEmpty

-----------------------------------------------------------------------------
\* A pattern covers what its labels say, whichever way the code compares them
\* (redirect_policy.rs:7-44).
LEMMA MatchesWhatItCovers ==
    ASSUME NEW pattern, NEW host, NormalizeHost(pattern) \in Texts, NormalizeHost(host) \in Texts
    PROVE  MatchesHostPattern(pattern, host) <=> Covers(pattern, host)
<1> DEFINE p == NormalizeHost(pattern)
           h == NormalizeHost(host)
           L == Labels(p)
           H == Labels(h)
<1>1. /\ MatchesHostPattern(pattern, host) <=>
             IF p = <<"*">> THEN TRUE
             ELSE IF IsPrefix(<<"*", ".">>, p) THEN IsUnder(DropFirst(p, 2), h)
             ELSE IF IsPrefix(<<"*">>, p) THEN IsUnder(Tail(p), h)
             ELSE IF IsSuffix(<<".", "*">>, p) THEN StartsWith(DropLast(p, 2), h)
             ELSE p = h
      /\ Covers(pattern, host) <=>
             IF IsPrefix(<<"*">>, Head(L))
             THEN \/ Head(L) = <<"*">> /\ IsSuffix(Tail(L), H)
                  \/ Head(L) # <<"*">> /\ IsSuffix(<<Tail(Head(L))>> \o Tail(L), H)
             ELSE \/ Len(L) > 1 /\ Last(L) = <<"*">> /\ IsPrefix(Front(L), H)
                  \/ L = H
  BY DEF MatchesHostPattern, Covers
<1>2. p \in Texts /\ h \in Texts
  OBVIOUS
<1> HIDE DEF p, h
<1>3. /\ L \in Seq(Texts) /\ H \in Seq(Texts) /\ L # <<>>
      /\ Len(L) \in Nat /\ Len(L) >= 1
  BY <1>2, LabelsAreTexts
<1>4. "*" \in Pieces /\ "*" # "." /\ <<"*">> \in Texts /\ "." \in Pieces
  <2>1. "*" \in Pieces /\ "*" # "." /\ "." \in Pieces
    BY DEF Pieces
  <2> QED
    BY <2>1, OnePiece
<1>5. IsPrefix(<<"*">>, p) <=> \E s \in Texts : p = <<"*">> \o s
  BY <1>2, <1>4, PrefixIs DEF Texts
\* "*s": whatever s is, it is compared with the end of the host.
<1>6. ASSUME NEW s \in Texts, p = <<"*">> \o s
      PROVE  /\ L = <<<<"*">> \o Head(Labels(s))>> \o Tail(Labels(s))
             /\ Head(L) = <<"*">> \o Head(Labels(s)) /\ Tail(L) = Tail(Labels(s))
             /\ Tail(p) = s /\ Head(Labels(s)) \in Texts
             /\ IsPrefix(<<"*">>, Head(L)) /\ Tail(Head(L)) = Head(Labels(s))
             /\ Labels(s) = <<Head(Labels(s))>> \o Tail(Labels(s))
             /\ Head(L) = <<"*">> <=> Head(Labels(s)) = <<>>
  <2>1. L = <<<<"*">> \o Head(Labels(s))>> \o Tail(Labels(s))
    BY <1>4, <1>6, PieceBefore
  <2>2. /\ Head(Labels(s)) \in Texts /\ Tail(Labels(s)) \in Seq(Texts)
        /\ Labels(s) = <<Head(Labels(s))>> \o Tail(Labels(s))
    BY LabelsAreTexts, FirstAndRest
  <2>3. <<"*">> \o Head(Labels(s)) \in Texts
    BY <1>4, <2>2, ConcatProperties DEF Texts
  <2>4. Head(L) = <<"*">> \o Head(Labels(s)) /\ Tail(L) = Tail(Labels(s))
    BY <2>1, <2>2, <2>3, OneBefore
  <2>5. Tail(p) = s
    BY <1>4, <1>6, OneBefore DEF Texts
  <2>6. IsPrefix(<<"*">>, Head(L))
    BY <1>4, <2>2, <2>3, <2>4, PrefixIs DEF Texts
  <2> DEFINE first == Head(Labels(s))
  <2> HIDE DEF first
  <2>7. first \in Seq(Pieces) /\ <<"*">> \in Seq(Pieces) /\ Head(L) = <<"*">> \o first
    BY <1>4, <2>2, <2>4 DEF first, Texts
  <2>8. Tail(<<"*">> \o first) = first
    BY <1>4, <2>7, OneBefore
  <2>9. <<"*">> \o first = <<"*">> <=> first = <<>>
    BY <2>7, NothingAfter
  <2>10. Tail(Head(L)) = Head(Labels(s)) /\ (Head(L) = <<"*">> <=> Head(Labels(s)) = <<>>)
    BY <2>7, <2>8, <2>9, Zenon DEF first
  <2> QED
    BY <2>1, <2>2, <2>4, <2>5, <2>6, <2>10
<1>7. CASE p = <<"*">>
  <2>1. <<>> \in Texts /\ p = <<"*">> \o <<>>
    BY <1>4, <1>7, ConcatEmptySeq DEF Texts
  <2>2. Labels(<<>>) = <<<<>>>>
    BY <2>1, OneLabel
  <2>3. Head(<<<<>>>>) = <<>> /\ Tail(<<<<>>>>) = <<>>
    OBVIOUS
  <2>4. Head(L) = <<"*">> /\ Tail(L) = <<>> /\ IsPrefix(<<"*">>, Head(L))
    BY <1>6, <1>7, <2>1, <2>2, <2>3
  <2>5. IsSuffix(<<>>, H)
    <3>1. <<>> \in Seq(Texts) /\ H \o <<>> = H
      BY <1>3, ConcatEmptySeq
    <3> QED
      BY <1>3, <3>1, SuffixIs
  <2> HIDE DEF L, H
  <2> QED
    BY <1>1, <1>7, <2>4, <2>5, Zenon
<1>8. CASE p # <<"*">> /\ IsPrefix(<<"*", ".">>, p)
  <2>1. PICK s \in Texts : p = Dotted(<<"*">>, s)
    <3>1. \E s \in Texts : p = (<<"*">> \o <<".">>) \o s
      BY <1>2, <1>4, <1>8, PairBefore
    <3> QED
      BY <3>1 DEF Dotted
  <2>2. DropFirst(p, 2) = s
    <3>1. /\ Len(s) \in Nat /\ Len(p) = 1 + 1 + Len(s)
          /\ \A i \in 1 .. Len(s) : p[1 + 1 + i] = s[i]
      <4>1. Len(<<"*">>) = 1
        BY <1>4, OnePiece
      <4>2. /\ Len(s) \in Nat /\ Len(p) = Len(<<"*">>) + 1 + Len(s)
            /\ \A i \in 1 .. Len(s) : p[Len(<<"*">>) + 1 + i] = s[i]
        BY <1>4, <2>1, DottedIsText
      <4> QED
        BY <4>1, <4>2, Zenon
    <3>2. DropFirst(p, 2) = SubSeq(p, 3, Len(s) + 2)
      BY <3>1 DEF DropFirst
    <3>3. /\ 1 \in Int /\ Len(s) \in Int /\ 2 \in Int /\ 1 <= 1 /\ Len(s) <= Len(s)
          /\ 1 <= 1 + 2 /\ Len(s) + 2 <= Len(p) /\ 1 + 2 = 3
          /\ \A i \in 1 .. Len(s) : s[i] = p[i + 2]
      BY <3>1
    <3>4. SubSeq(s, 1, Len(s)) = SubSeq(p, 1 + 2, Len(s) + 2)
      BY <1>2, <3>3, SlicesAgree
    <3> QED
      BY <3>2, <3>3, <3>4, SubSeqFull DEF Texts
  <2>3. L = <<<<"*">>>> \o Labels(s)
    <3>1. Labels(<<"*">>) = <<<<"*">>>>
      <4>1. \A i \in 1 .. Len(<<"*">>) : <<"*">>[i] # "."
        BY <1>4, OnePiece
      <4> QED
        BY <1>4, <4>1, OneLabel
    <3> QED
      BY <1>4, <2>1, <3>1, LabelsOfDotted
  <2>4. Head(L) = <<"*">> /\ Tail(L) = Labels(s)
    <3>1. Labels(s) \in Seq(Texts)
      BY LabelsAreTexts
    <3>2. Head(<<<<"*">>>> \o Labels(s)) = <<"*">> /\ Tail(<<<<"*">>>> \o Labels(s)) = Labels(s)
      BY <1>4, <3>1, OneBefore
    <3> QED
      BY <2>3, <3>2, Zenon
  <2>5. IsPrefix(<<"*">>, Head(L))
    <3>1. <<>> \in Texts /\ <<"*">> \o <<>> = <<"*">>
      BY <1>4, ConcatEmptySeq DEF Texts
    <3> QED
      BY <1>4, <2>4, <3>1, PrefixIs DEF Texts
  <2>6. IsUnder(DropFirst(p, 2), h) <=> IsSuffix(Tail(L), H)
    BY <1>2, <2>2, <2>4, UnderIsSuffix
  <2> HIDE DEF L, H
  <2> QED
    BY <1>1, <1>8, <2>4, <2>5, <2>6, Zenon
<1>9. CASE p # <<"*">> /\ ~IsPrefix(<<"*", ".">>, p) /\ IsPrefix(<<"*">>, p)
  <2>1. PICK s \in Texts : p = <<"*">> \o s
    BY <1>5, <1>9
  <2>2. Head(Labels(s)) # <<>>
    <3> SUFFICES ASSUME Head(Labels(s)) = <<>>
                 PROVE  FALSE
      OBVIOUS
    <3>1. s = <<>> \/ \E b \in Texts : s = Dotted(<<>>, b)
      BY FirstLabel
    <3>2. CASE s = <<>>
      BY <1>4, <1>9, <2>1, <3>2, ConcatEmptySeq DEF Texts
    <3>3. CASE \E b \in Texts : s = Dotted(<<>>, b)
      <4>1. PICK b \in Texts : s = Dotted(<<>>, b)
        BY <3>3
      <4>2. <<>> \in Texts /\ <<".">> \in Texts /\ <<>> \o <<".">> = <<".">>
        BY <1>4, OnePiece, ConcatEmptySeq DEF Texts
      <4>3. s = <<".">> \o b
        BY <4>1, <4>2 DEF Dotted
      <4>4. p = (<<"*">> \o <<".">>) \o b
        BY <1>4, <2>1, <4>2, <4>3, ConcatAssociative DEF Texts
      <4>5. IsPrefix(<<"*", ".">>, p)
        BY <1>2, <1>4, <4>4, PairBefore
      <4> QED
        BY <1>9, <4>5
    <3> QED
      BY <3>1, <3>2, <3>3
  <2>3. /\ Tail(p) = s /\ IsPrefix(<<"*">>, Head(L)) /\ Head(L) # <<"*">>
        /\ <<Tail(Head(L))>> \o Tail(L) = Labels(s)
    BY <1>6, <2>1, <2>2
  <2>4. IsUnder(Tail(p), h) <=> IsSuffix(<<Tail(Head(L))>> \o Tail(L), H)
    BY <1>2, <2>3, UnderIsSuffix
  <2> HIDE DEF L, H
  <2> QED
    BY <1>1, <1>9, <2>3, <2>4, Zenon
<1>10. ASSUME ~IsPrefix(<<"*">>, p)
       PROVE  /\ p # <<"*">> /\ ~IsPrefix(<<"*", ".">>, p)
              /\ ~IsPrefix(<<"*">>, Head(L))
  <2>1. p # <<"*">>
    <3>1. <<>> \in Texts /\ <<"*">> \o <<>> = <<"*">>
      BY <1>4, ConcatEmptySeq DEF Texts
    <3> QED
      BY <1>5, <1>10, <3>1
  <2>2. ~IsPrefix(<<"*", ".">>, p)
    <3> SUFFICES ASSUME IsPrefix(<<"*", ".">>, p)
                 PROVE  FALSE
      OBVIOUS
    <3>1. PICK b \in Texts : p = (<<"*">> \o <<".">>) \o b
      BY <1>2, <1>4, PairBefore
    <3>2. <<".">> \in Texts /\ <<".">> \o b \in Texts
      BY <1>4, OnePiece, DottedIsConcat
    <3>3. p = <<"*">> \o (<<".">> \o b)
      BY <1>4, <3>1, <3>2, ConcatAssociative DEF Texts
    <3> QED
      BY <1>5, <1>10, <3>2, <3>3
  <2>3. ~IsPrefix(<<"*">>, Head(L))
    BY <1>2, <1>4, <1>10, MarkedFirst
  <2> QED
    BY <2>1, <2>2, <2>3
<1>11. CASE ~IsPrefix(<<"*">>, p) /\ IsSuffix(<<".", "*">>, p)
  <2> DEFINE q == DropLast(p, 2)
  <2>1. q \in Texts /\ L = Labels(q) \o <<<<"*">>>> /\ Len(L) > 1 /\ Last(L) = <<"*">>
    BY <1>2, <1>4, <1>11, PieceAfter
  <2> HIDE DEF q
  <2>2. Front(L) = Labels(q) /\ Labels(q) \in Seq(Texts)
    <3>1. Labels(q) \in Seq(Texts)
      BY <2>1, LabelsAreTexts
    <3>2. Front(Labels(q) \o <<<<"*">>>>) = Labels(q)
      BY <1>4, <3>1, OneAfter
    <3> QED
      BY <2>1, <3>1, <3>2, Zenon
  <2>3. StartsWith(q, h) <=> IsPrefix(Front(L), H)
    BY <1>2, <2>1, <2>2, StartIsPrefix
  <2>4. L = H => IsPrefix(Front(L), H)
    <3>1. <<<<"*">>>> \in Seq(Texts)
      BY <1>4
    <3> QED
      BY <1>3, <2>1, <2>2, <3>1, PrefixIs
  <2> HIDE DEF L, H
  <2> QED
    BY <1>1, <1>10, <1>11, <2>1, <2>3, <2>4, Zenon DEF q
<1>12. CASE ~IsPrefix(<<"*">>, p) /\ ~IsSuffix(<<".", "*">>, p)
  <2>1. ~(Len(L) > 1 /\ Last(L) = <<"*">>)
    BY <1>2, <1>4, <1>12, PieceAfter
  <2>2. p = h <=> L = H
    BY <1>2, LabelsTell
  <2> HIDE DEF L, H
  <2> QED
    BY <1>1, <1>10, <1>12, <2>1, <2>2, Zenon
<1> QED
  BY <1>7, <1>8, <1>9, <1>11, <1>12

\* Whatever the pattern and the host, what the code finds by comparing pieces from
\* either end is what the labels say: a "*" stands for whole labels, any number of
\* them (redirect_policy.rs:7-44).  Whether it should stand for one is no matter of
\* this theorem.
THEOREM PatternsMatchByLabels == Matching = Covering
<1>1. ASSUME NEW pattern \in Listable, NEW host \in Hosts
      PROVE  MatchesHostPattern(pattern, host) <=> Covers(pattern, host)
  <2>1. pattern \in Texts /\ host \in Texts
    BY NamesAreTexts, NormalIsText DEF Listable
  <2> QED
    BY <2>1, NormalIsText, MatchesWhatItCovers
<1> QED
  BY <1>1 DEF Matching, Covering

\* A name under localhost, local or internal is refused as reserved
\* (url_validation.rs:412-436).
THEOREM InternalNamesAreReserved == InternalNames \subseteq ReservedDomains
<1> SUFFICES ASSUME NEW host \in InternalNames
             PROVE  ReservedName(host)
  BY DEF ReservedDomains, InternalNames
<1> DEFINE labels == Labels(host)
<1>1. host \in Texts
  BY NamesAreTexts DEF InternalNames
<1>2. labels \in Seq(Texts) /\ Len(labels) \in Nat /\ Len(labels) >= 1
  BY <1>1, LabelsAreTexts
<1>3. ASSUME NEW x, Last(labels) = <<x>>
      PROVE  x \in Pieces
  <2>1. Last(labels) \in Seq(Pieces)
    BY <1>2 DEF Last, Texts
  <2>2. <<x>> \in Seq(Pieces) /\ Len(<<x>>) = 1 /\ <<x>>[1] = x
    BY <1>3, <2>1
  <2> QED
    BY <2>2
<1>4. ASSUME NEW x, x # ".", Last(labels) = <<x>>, Len(labels) > 1
      PROVE  IsSuffix(<<".", x>>, host)
  BY <1>1, <1>3, <1>4, PieceAfter
<1>5. CASE Last(labels) = <<"localhost">> /\ Len(labels) = 1
  <2>1. "localhost" \in Pieces /\ "localhost" # "."
    BY <1>3, <1>5
  <2> QED
    BY <1>1, <1>5, <2>1, PieceAfter DEF ReservedName
<1>6. CASE Last(labels) = <<"localhost">> /\ Len(labels) > 1
  BY <1>4, <1>6 DEF ReservedName
<1>7. CASE Len(labels) > 1 /\ Last(labels) \in {<<"local">>, <<"internal">>}
  BY <1>4, <1>7 DEF ReservedName
<1> QED
  BY <1>2, <1>5, <1>6, <1>7 DEF InternalNames

===============================================================================
