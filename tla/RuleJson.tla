------------------------------ MODULE RuleJson ------------------------------
(***************************************************************************)
(* The JSON form of a rule: Rule::ParseFromJson and Rule::toJson.          *)
(*                                                                         *)
(* A JSON object is the record of the members the code looks at. A string  *)
(* is given by what the code makes of it: an address by the numbers        *)
(* between its dots (<<>> for text that is no address), a protocol by its  *)
(* text before and after the first dot (<<>> for the empty string). A      *)
(* number is a natural number; the one number that is a bit mask is the    *)
(* set of its bits that are 1.                                             *)
(***************************************************************************)
EXTENDS RuleMatch, Sequences

CONSTANT Absent \* a member that is missing or of another JSON type

AllOnes == 0 .. 31

IcmpTypes == [ICMP_ECHOREPLY |-> 0, ICMP_DEST_UNREACH |-> 3, ICMP_SOURCE_QUENCH |-> 4,
              ICMP_REDIRECT |-> 5, ICMP_TIME_EXCEEDED |-> 11, ICMP_PARAMETERPROB |-> 12,
              ICMP_TIMESTAMP |-> 13, ICMP_TIMESTAMPREPLY |-> 14, ICMP_INFO_REQUEST |-> 15,
              ICMP_INFO_REPLY |-> 16, ICMP_ADDRESS |-> 17, ICMP_ADDRESSREPLY |-> 18]

\* The parts of a protocol's text; "other" is any text the code does not know.
Names == {"tcp", "udp", "icmp", "unknown", "", "other"} \cup DOMAIN IcmpTypes

RuleValue == [src_ip : Seq(Nat) \cup {Absent}, target_ip : Seq(Nat) \cup {Absent},
              src_port : Nat \cup {Absent}, target_port : Nat \cup {Absent},
              type : Nat \cup {Absent}, protocol : Seq(Names) \cup {Absent},
              time_pass : (SUBSET Nat) \cup {Absent}, timepass : (SUBSET Nat) \cup {Absent}]

ASSUME AbsentAssumption ==
    /\ Absent \notin Nat
    /\ Absent \notin Seq(Nat)
    /\ Absent \notin Seq(Names)
    /\ Absent \notin RuleValue

\* getInteger and getString.
getMember(m, default) == IF m = Absent THEN default ELSE m

-----------------------------------------------------------------------------
(***************************************************************************)
(* Library functions: ntohs, inet_addr with its short forms (the last      *)
(* number fills the bytes that are left), inet_ntoa.                       *)
(***************************************************************************)

ntohs(x) == 256 * (x % 256) + (x \div 256)

Weight == <<256 * 256 * 256, 256 * 256, 256, 1>>
INADDR_NONE == [i \in 1 .. 4 |-> 255]

IsAddress(s) ==
    /\ Len(s) \in 1 .. 4
    /\ \A i \in 1 .. Len(s) - 1 : s[i] \in Octet
    /\ s[Len(s)] \div Weight[Len(s)] \in Octet

inet_addr(s) ==
    IF IsAddress(s)
    THEN [i \in 1 .. 4 |-> IF i < Len(s) THEN s[i]
                           ELSE (s[Len(s)] \div Weight[i]) % 256]
    ELSE INADDR_NONE

inet_ntoa(ip) == <<ip[1], ip[2], ip[3], ip[4]>>

-----------------------------------------------------------------------------

getIcmpSubType(p) == IF p \in DOMAIN IcmpTypes THEN IcmpTypes[p] ELSE 0

getIcmpString(n) ==
    IF \E p \in DOMAIN IcmpTypes : IcmpTypes[p] = n
    THEN CHOOSE p \in DOMAIN IcmpTypes : IcmpTypes[p] = n ELSE ""

getProtocolType(p) ==
    CASE p = "tcp" -> IPPROTO_TCP [] p = "udp" -> IPPROTO_UDP
      [] p = "icmp" -> IPPROTO_ICMP [] OTHER -> 0

getProtocolString(n) ==
    CASE n = IPPROTO_ICMP -> "icmp" [] n = IPPROTO_UDP -> "udp"
      [] n = IPPROTO_TCP -> "tcp" [] OTHER -> "unknown"

-----------------------------------------------------------------------------

\* The casts to uint16_t and uint8_t.
Low16(n) == n % 65536
Low8(n) == n % 256

\* The two halves of a protocol's text.
MainOf(text) == IF Len(text) > 0 THEN getProtocolType(text[1]) ELSE 0
SubOf(text) == IF Len(text) > 1 THEN getIcmpSubType(text[2]) ELSE 0

ParseFromJson(v) ==
    [src_ip |-> inet_addr(getMember(v.src_ip, <<0, 0, 0, 0>>)),
     src_port |-> ntohs(Low16(getMember(v.src_port, 0))),
     dest_ip |-> inet_addr(getMember(v.target_ip, <<0, 0, 0, 0>>)),
     dest_port |-> ntohs(Low16(getMember(v.target_port, 0))),
     type |-> Low8(getMember(v.type, 0)),
     sub_protocol |-> SubOf(getMember(v.protocol, <<>>)),
     protocol |-> MainOf(getMember(v.protocol, <<>>)),
     time_pass |-> getMember(v.time_pass, AllOnes) \cap AllOnes]

\* The mask goes out under the name timepass, and the test before the ICMP type
\* looks at sub_protocol.
toJson(r) ==
    [src_ip |-> inet_ntoa(r.src_ip),
     target_ip |-> inet_ntoa(r.dest_ip),
     src_port |-> ntohs(r.src_port),
     target_port |-> ntohs(r.dest_port),
     type |-> r.type,
     timepass |-> r.time_pass,
     time_pass |-> Absent,
     protocol |-> IF r.sub_protocol = IPPROTO_ICMP
                  THEN <<getProtocolString(r.protocol), getIcmpString(r.sub_protocol)>>
                  ELSE <<getProtocolString(r.protocol)>>]

\* What the server has of a rule after an upload of what a query returned.
RoundTrip(r) == ParseFromJson(toJson(r))
=============================================================================
