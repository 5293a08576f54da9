--------------------------- MODULE RuleJsonProofs ---------------------------
(***************************************************************************)
(* What the JSON form of a rule keeps, for every rule and every JSON       *)
(* object: proofs about RuleJson.                                          *)
(***************************************************************************)
EXTENDS RuleJson, TLAPS

\* Two bytes make a number from which both can be had back.
LEMMA TwoBytes ==
    ASSUME NEW h \in Nat, h < 256, NEW l \in Nat, l < 256
    PROVE  /\ 256 * h + l \in Nat
           /\ 256 * h + l < 65536
           /\ (256 * h + l) % 256 = l
           /\ (256 * h + l) \div 256 = h
  BY Z3

\* A number of 16 bits is made of two bytes.
LEMMA BytesOf ==
    ASSUME NEW x \in Nat, x < 65536
    PROVE  /\ x % 256 \in Nat /\ x % 256 < 256
           /\ x \div 256 \in Nat /\ x \div 256 < 256
           /\ x = 256 * (x \div 256) + (x % 256)
  BY Z3

\* ntohs undoes itself on 16 bits and stays in them.
LEMMA NtohsInvolution ==
    ASSUME NEW x \in Uint16
    PROVE  ntohs(x) \in Uint16 /\ ntohs(ntohs(x)) = x
<1>1. x \in Nat /\ x < 65536
  BY DEF Uint16
<1>2. PICK h \in Nat, l \in Nat :
          h < 256 /\ l < 256 /\ x % 256 = l /\ x \div 256 = h /\ x = 256 * h + l
  BY <1>1, BytesOf
<1>3. ntohs(x) = 256 * l + h
  BY <1>2 DEF ntohs
<1>4. /\ 256 * l + h \in Nat /\ 256 * l + h < 65536
      /\ (256 * l + h) % 256 = h /\ (256 * l + h) \div 256 = l
  <2>1. h < 256 /\ l < 256
    BY <1>2
  <2> QED
    BY <2>1, TwoBytes
<1>5. ntohs(256 * l + h) = 256 * h + l
  BY <1>4 DEF ntohs
<1>6. 256 * l + h \in Uint16
  BY <1>4 DEF Uint16
<1> QED
  BY <1>2, <1>3, <1>5, <1>6

\* The remainder by 256 is a byte, and a byte is its own remainder.
LEMMA Remainders ==
    /\ \A n \in Nat : n % 256 \in Octet
    /\ \A n \in Octet : n % 256 = n /\ n \div 1 = n /\ n \in Nat
  BY Z3 DEF Octet

\* inet_addr yields four bytes, for text that is no address too.
LEMMA InetAddrType ==
    ASSUME NEW s \in Seq(Nat)
    PROVE  inet_addr(s) \in Ip
<1>1. CASE IsAddress(s)
  <2> SUFFICES ASSUME NEW i \in 1 .. 4
               PROVE  (IF i < Len(s) THEN s[i] ELSE (s[Len(s)] \div Weight[i]) % 256) \in Octet
    BY <1>1 DEF inet_addr, Ip
  <2>1. CASE i < Len(s)
    BY <1>1, <2>1 DEF IsAddress
  <2>2. CASE ~(i < Len(s))
    <3> DEFINE n == s[Len(s)]
               w == Weight[i]
    <3>1. n \in Nat
      <4>1. Len(s) \in 1 .. Len(s)
        <5>1. Len(s) \in 1 .. 4
          BY <1>1, Zenon DEF IsAddress
        <5> QED
          BY <5>1
      <4> QED
        BY <4>1
    <3>2. w = 1 \/ w = 256 \/ w = 256 * 256 \/ w = 256 * 256 * 256
      BY DEF Weight
    <3> HIDE DEF n, w
    <3>3. n \div w \in Nat
      BY <3>1, <3>2
    <3>4. (n \div w) % 256 \in Octet
      BY <3>3, Remainders
    <3> QED
      BY <2>2, <3>4 DEF n, w
  <2> QED
    BY <2>1, <2>2
<1>2. CASE ~IsAddress(s)
  BY <1>2 DEF inet_addr, INADDR_NONE, Ip, Octet
<1> QED
  BY <1>1, <1>2

\* The dotted form of an address gives it back.
LEMMA InetRoundTrip ==
    ASSUME NEW ip \in Ip
    PROVE  inet_ntoa(ip) \in Seq(Nat) /\ inet_addr(inet_ntoa(ip)) = ip
<1> DEFINE s == inet_ntoa(ip)
<1>1. s \in Seq(Nat) /\ Len(s) = 4 /\ \A i \in 1 .. 4 : s[i] = ip[i] /\ ip[i] \in Octet
  BY DEF inet_ntoa, Ip, Octet
<1>2. Weight[4] = 1
  BY DEF Weight
<1> HIDE DEF s
<1>3. s[4] \div Weight[4] = s[4] /\ s[4] % 256 = s[4]
  <2>1. s[4] \in Octet
    BY <1>1
  <2> QED
    BY <1>2, <2>1, Remainders
<1>4. IsAddress(s)
  BY <1>1, <1>3 DEF IsAddress
<1>5. inet_addr(s) = [i \in 1 .. 4 |-> IF i < 4 THEN s[i] ELSE (s[4] \div Weight[i]) % 256]
  BY <1>1, <1>4 DEF inet_addr
<1>6. \A i \in 1 .. 4 : inet_addr(s)[i] = ip[i]
  BY <1>1, <1>3, <1>5
<1> QED
  BY <1>1, <1>5, <1>6 DEF Ip, s

\* The bits of a time of day are bits of a mask.
LEMMA TimeBits ==
    ASSUME NEW t \in Clock
    PROVE  getTimePass(t) \subseteq AllOnes /\ getTimePass(t) # {}
  BY DEF getTimePass, Clock, AllOnes

-----------------------------------------------------------------------------

\* A member that is there is read as it stands.
LEMMA PresentMember ==
    /\ \A n \in Nat : \A d : getMember(n, d) = n
    /\ \A s \in Seq(Nat) : \A d : getMember(s, d) = s
    /\ \A s \in Seq(Names) : \A d : getMember(s, d) = s
    /\ \A d : getMember(Absent, d) = d
  BY AbsentAssumption DEF getMember

\* A record of fields in their widths is a rule.
LEMMA RuleRecord ==
    ASSUME NEW a \in Ip, NEW b \in Uint16, NEW c \in Ip, NEW d \in Uint16, NEW e \in Octet,
           NEW f \in Octet, NEW g \in Octet, NEW h \in SUBSET (0 .. 31)
    PROVE  [src_ip |-> a, src_port |-> b, dest_ip |-> c, dest_port |-> d, type |-> e,
            sub_protocol |-> f, protocol |-> g, time_pass |-> h] \in Rule
  BY SMT DEF Rule

\* Every JSON object is read into a rule: every field in its width.
THEOREM ParseTypes ==
    ASSUME NEW v \in RuleValue
    PROVE  ParseFromJson(v) \in Rule
<1>1. /\ v.src_ip \in Seq(Nat) \cup {Absent} /\ v.target_ip \in Seq(Nat) \cup {Absent}
      /\ v.src_port \in Nat \cup {Absent} /\ v.target_port \in Nat \cup {Absent}
      /\ v.type \in Nat \cup {Absent}
  BY DEF RuleValue
<1>2. \A m \in Seq(Nat) \cup {Absent} : inet_addr(getMember(m, <<0, 0, 0, 0>>)) \in Ip
  <2>1. \A m \in Seq(Nat) \cup {Absent} : getMember(m, <<0, 0, 0, 0>>) \in Seq(Nat)
    BY DEF getMember
  <2> QED
    BY <2>1, InetAddrType
<1>3. \A m \in Nat \cup {Absent} : getMember(m, 0) \in Nat
  BY DEF getMember
<1>4. \A m \in Nat \cup {Absent} : ntohs(Low16(getMember(m, 0))) \in Uint16
  <2>1. \A n \in Nat : Low16(n) \in Uint16
    BY Z3 DEF Uint16, Low16
  <2> QED
    BY <1>3, <2>1, NtohsInvolution
<1>5. Low8(getMember(v.type, 0)) \in Octet
  BY <1>1, <1>3, Remainders DEF Low8
<1>6. \A text : SubOf(text) \in Octet
  <2>1. \A p \in DOMAIN IcmpTypes : IcmpTypes[p] \in Octet
    BY DEF IcmpTypes, Octet
  <2>2. 0 \in Octet
    BY DEF Octet
  <2> QED
    BY <2>1, <2>2, Zenon DEF SubOf, getIcmpSubType
<1>7. \A text : MainOf(text) \in Octet
  BY DEF MainOf, getProtocolType, IPPROTO_TCP, IPPROTO_UDP, IPPROTO_ICMP, Octet
<1>8. getMember(v.time_pass, AllOnes) \cap AllOnes \in SUBSET (0 .. 31)
  BY DEF AllOnes
<1> QED
  BY <1>1, <1>2, <1>4, <1>5, <1>6, <1>7, <1>8, RuleRecord, Zenon DEF ParseFromJson

-----------------------------------------------------------------------------

\* Two names are a text.
LEMMA PairOfNames ==
    ASSUME NEW a \in Names, NEW b \in Names
    PROVE  /\ <<a, b>> \in Seq(Names) /\ Len(<<a, b>>) = 2
           /\ <<a, b>>[1] = a /\ <<a, b>>[2] = b
  BY SMT

\* The protocol a rule has after a round trip.
Known(n) == IF n \in {IPPROTO_ICMP, IPPROTO_TCP, IPPROTO_UDP} THEN n ELSE 0

\* The text toJson writes for a protocol is read as that protocol, if it is a known
\* one, and never as an ICMP type.
LEMMA ProtocolText ==
    ASSUME NEW r \in Rule
    PROVE  /\ MainOf(getMember(toJson(r).protocol, <<>>)) = Known(r.protocol)
           /\ SubOf(getMember(toJson(r).protocol, <<>>)) = 0
<1> DEFINE name == getProtocolString(r.protocol)
<1>1. getProtocolType(name) = Known(r.protocol) /\ name \in Names
  BY DEF getProtocolType, getProtocolString, Known, Names,
         IPPROTO_ICMP, IPPROTO_TCP, IPPROTO_UDP
<1>2. getIcmpString(IPPROTO_ICMP) = "" /\ getIcmpSubType("") = 0 /\ "" \in Names
  BY DEF getIcmpString, getIcmpSubType, IcmpTypes, IPPROTO_ICMP, Names
<1>3. toJson(r).protocol = <<name>> \/ toJson(r).protocol = <<name, "">>
  BY <1>2 DEF toJson
<1> HIDE DEF name
<1>4. CASE toJson(r).protocol = <<name>>
  <2>1. <<name>> \in Seq(Names) /\ Len(<<name>>) = 1 /\ <<name>>[1] = name
    BY <1>1
  <2>2. getMember(<<name>>, <<>>) = <<name>>
    BY <2>1, PresentMember
  <2> QED
    BY <1>1, <1>4, <2>1, <2>2 DEF MainOf, SubOf
<1>5. CASE toJson(r).protocol = <<name, "">>
  <2>1. PICK s : s = <<name, "">>
    OBVIOUS
  <2>2. s \in Seq(Names) /\ Len(s) = 2 /\ s[1] = name /\ s[2] = ""
    BY <1>1, <1>2, <2>1, PairOfNames
  <2>3. getMember(toJson(r).protocol, <<>>) = s
    BY <1>5, <2>1, <2>2, PresentMember
  <2>4. MainOf(s) = getProtocolType(name) /\ SubOf(s) = getIcmpSubType("")
    <3>1. 2 > 0 /\ 2 > 1
      OBVIOUS
    <3>2. Len(s) > 0 /\ Len(s) > 1
      BY <2>2, <3>1, Zenon
    <3> QED
      BY <2>2, <3>2, Zenon DEF MainOf, SubOf
  <2> QED
    BY <1>1, <1>2, <2>3, <2>4
<1> QED
  BY <1>3, <1>4, <1>5

\* What is left of a rule after a round trip: addresses, ports, type and a known
\* protocol as they were, no ICMP type, and every hour.
THEOREM RoundTripIs ==
    ASSUME NEW r \in Rule
    PROVE  RoundTrip(r) =
             [src_ip |-> r.src_ip, src_port |-> r.src_port, dest_ip |-> r.dest_ip,
              dest_port |-> r.dest_port, type |-> r.type, sub_protocol |-> 0,
              protocol |-> Known(r.protocol), time_pass |-> AllOnes]
<1>1. /\ r.src_ip \in Ip /\ r.dest_ip \in Ip /\ r.src_port \in Uint16
      /\ r.dest_port \in Uint16 /\ r.type \in Octet
  BY DEF Rule
<1> DEFINE v == toJson(r)
<1>2. /\ v.src_ip = inet_ntoa(r.src_ip) /\ v.target_ip = inet_ntoa(r.dest_ip)
      /\ v.src_port = ntohs(r.src_port) /\ v.target_port = ntohs(r.dest_port)
      /\ v.type = r.type /\ v.time_pass = Absent
  BY DEF toJson
<1>3. /\ inet_addr(getMember(v.src_ip, <<0, 0, 0, 0>>)) = r.src_ip
      /\ inet_addr(getMember(v.target_ip, <<0, 0, 0, 0>>)) = r.dest_ip
  BY <1>1, <1>2, InetRoundTrip, PresentMember
<1>4. \A x \in Uint16 : ntohs(Low16(getMember(ntohs(x), 0))) = x
  <2> SUFFICES ASSUME NEW x \in Uint16
               PROVE  ntohs(Low16(getMember(ntohs(x), 0))) = x
    OBVIOUS
  <2>1. ntohs(x) \in Uint16 /\ ntohs(ntohs(x)) = x
    BY NtohsInvolution
  <2>2. \A y \in Uint16 : y \in Nat /\ Low16(y) = y
    BY Z3 DEF Uint16, Low16
  <2> QED
    BY <2>1, <2>2, PresentMember
<1>5. /\ ntohs(Low16(getMember(v.src_port, 0))) = r.src_port
      /\ ntohs(Low16(getMember(v.target_port, 0))) = r.dest_port
  BY <1>1, <1>2, <1>4
<1>6. Low8(getMember(v.type, 0)) = r.type
  BY <1>1, <1>2, Remainders, PresentMember DEF Low8
<1>7. getMember(v.time_pass, AllOnes) \cap AllOnes = AllOnes
  BY <1>2, PresentMember
<1>8. /\ MainOf(getMember(v.protocol, <<>>)) = Known(r.protocol)
      /\ SubOf(getMember(v.protocol, <<>>)) = 0
  BY ProtocolText
<1> HIDE DEF v
<1>9. ParseFromJson(v) =
        [src_ip |-> r.src_ip, src_port |-> r.src_port, dest_ip |-> r.dest_ip,
         dest_port |-> r.dest_port, type |-> r.type, sub_protocol |-> 0,
         protocol |-> Known(r.protocol), time_pass |-> AllOnes]
  BY <1>3, <1>5, <1>6, <1>7, <1>8, Zenon DEF ParseFromJson
<1> QED
  BY <1>9 DEF RoundTrip, v

\* An upload of what a query returned never narrows a rule: every packet the rule
\* matched at some time it still matches then.
THEOREM RoundTripWidens ==
    ASSUME NEW r \in Rule, NEW p \in Packet, NEW t \in Clock, check(r, p, t)
    PROVE  check(RoundTrip(r), p, t)
<1> DEFINE q == RoundTrip(r)
<1>1. /\ q.src_ip = r.src_ip /\ q.src_port = r.src_port /\ q.dest_ip = r.dest_ip
      /\ q.dest_port = r.dest_port /\ q.sub_protocol = 0
      /\ q.protocol = Known(r.protocol) /\ q.time_pass = AllOnes
  BY RoundTripIs
<1>2. q.protocol = 0 \/ q.protocol = r.protocol
  BY <1>1 DEF Known
<1>3. q.time_pass \cap getTimePass(t) # {}
  BY <1>1, TimeBits
<1> QED
  BY <1>1, <1>2, <1>3, Zenon DEF check, leastCheck, ValidAndCheck

\* Only the first round trip changes a rule.
THEOREM RoundTripSettles ==
    ASSUME NEW r \in Rule
    PROVE  RoundTrip(r) \in Rule /\ RoundTrip(RoundTrip(r)) = RoundTrip(r)
<1> DEFINE q == RoundTrip(r)
<1>1. q = [src_ip |-> r.src_ip, src_port |-> r.src_port, dest_ip |-> r.dest_ip,
           dest_port |-> r.dest_port, type |-> r.type, sub_protocol |-> 0,
           protocol |-> Known(r.protocol), time_pass |-> AllOnes]
  BY RoundTripIs
<1>2. /\ r.src_ip \in Ip /\ r.src_port \in Uint16 /\ r.dest_ip \in Ip
      /\ r.dest_port \in Uint16 /\ r.type \in Octet /\ r.protocol \in Octet
  BY DEF Rule
<1>3. 0 \in Octet /\ AllOnes \in SUBSET (0 .. 31)
  BY DEF Octet, AllOnes
<1>4. Known(r.protocol) \in Octet /\ Known(Known(r.protocol)) = Known(r.protocol)
  BY <1>2, <1>3 DEF Known
<1>5. q \in Rule
  BY <1>1, <1>2, <1>3, <1>4, RuleRecord
<1>6. /\ q.src_ip = r.src_ip /\ q.src_port = r.src_port /\ q.dest_ip = r.dest_ip
      /\ q.dest_port = r.dest_port /\ q.type = r.type /\ q.protocol = Known(r.protocol)
  BY <1>1
<1>7. RoundTrip(q) =
          [src_ip |-> q.src_ip, src_port |-> q.src_port, dest_ip |-> q.dest_ip,
           dest_port |-> q.dest_port, type |-> q.type, sub_protocol |-> 0,
           protocol |-> Known(q.protocol), time_pass |-> AllOnes]
  BY <1>5, RoundTripIs
<1> QED
  BY <1>1, <1>4, <1>5, <1>6, <1>7, Zenon

\* A rule comes back as it was exactly if it names no ICMP type, no hours, and a
\* protocol the code has a name for, or none.
THEOREM RoundTripExact ==
    ASSUME NEW r \in Rule
    PROVE  RoundTrip(r) = r <=>
             /\ r.sub_protocol = 0
             /\ r.time_pass = AllOnes
             /\ r.protocol \in {0, IPPROTO_ICMP, IPPROTO_TCP, IPPROTO_UDP}
<1> DEFINE q == RoundTrip(r)
<1>1. q = [src_ip |-> r.src_ip, src_port |-> r.src_port, dest_ip |-> r.dest_ip,
           dest_port |-> r.dest_port, type |-> r.type, sub_protocol |-> 0,
           protocol |-> Known(r.protocol), time_pass |-> AllOnes]
  BY RoundTripIs
<1>2. r = [src_ip |-> r.src_ip, src_port |-> r.src_port, dest_ip |-> r.dest_ip,
           dest_port |-> r.dest_port, type |-> r.type, sub_protocol |-> r.sub_protocol,
           protocol |-> r.protocol, time_pass |-> r.time_pass]
  BY DEF Rule
<1>3. Known(r.protocol) = r.protocol
          <=> r.protocol \in {0, IPPROTO_ICMP, IPPROTO_TCP, IPPROTO_UDP}
  BY DEF Known
<1>4. q.sub_protocol = 0 /\ q.time_pass = AllOnes /\ q.protocol = Known(r.protocol)
  BY <1>1
<1>5. ASSUME r.sub_protocol = 0, r.time_pass = AllOnes, Known(r.protocol) = r.protocol
      PROVE  q = r
  BY <1>1, <1>2, <1>5, Zenon
<1> QED
  BY <1>3, <1>4, <1>5
=============================================================================
