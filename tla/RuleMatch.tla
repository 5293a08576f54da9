------------------------------ MODULE RuleMatch ------------------------------
(***************************************************************************)
(* A rule, a packet as PacketExtractor shows it, the local time, and the   *)
(* match of one rule, Rule::check. Integers stand for ports and types as   *)
(* the code compares them, in the byte order they have in memory; an       *)
(* address is its four bytes in memory, which is the order of its dotted   *)
(* form.                                                                   *)
(***************************************************************************)
EXTENDS Naturals

Octet == 0 .. 255
Uint16 == {n \in Nat : n < 65536}
Ip == [1 .. 4 -> Octet]
AnyIp == [i \in 1 .. 4 |-> 0]

IPPROTO_ICMP == 1
IPPROTO_TCP == 6
IPPROTO_UDP == 17

TYPE_BLACK_LIST == 0
TYPE_WHITE_LIST == 1
TYPE_MONITOR_LIST == 2

\* class Rule; time_pass is the set of the bits of time_pass_type::data that are 1.
Rule == [type : Octet, protocol : Octet, sub_protocol : Octet, src_ip : Ip, dest_ip : Ip,
         src_port : Uint16, dest_port : Uint16, time_pass : SUBSET (0 .. 31)]

\* What PacketExtractor reads of a packet.
Packet == [protocol : Octet, icmp_type : Octet, src_ip : Ip, dest_ip : Ip,
           src_port : Uint16, dest_port : Uint16]

\* What getTime() tells of the local time.
Clock == [hour : 0 .. 23, wday : 0 .. 6]

-----------------------------------------------------------------------------
(***************************************************************************)
(* Rule::check(packet) at time t.                                          *)
(***************************************************************************)

\* hours[h / 8] gets bit h & 7 and wday, the fourth byte, gets bit d.
getTimePass(t) == {8 * (t.hour \div 8) + (t.hour % 8), 24 + t.wday}

\* The macro valid_and_check_; zero is the value of the field's type that is 0.
ValidAndCheck(zero, stand, value) == stand = zero \/ value = stand

\* The time matches if the hour bit or the weekday bit is set.
leastCheck(r, p, t) ==
    /\ ValidAndCheck(0, r.protocol, p.protocol)
    /\ ValidAndCheck(AnyIp, r.src_ip, p.src_ip)
    /\ ValidAndCheck(AnyIp, r.dest_ip, p.dest_ip)
    /\ r.time_pass \cap getTimePass(t) # {}

check(r, p, t) ==
    /\ leastCheck(r, p, t)
    /\ p.protocol \in {IPPROTO_TCP, IPPROTO_UDP} =>
           /\ ValidAndCheck(0, r.src_port, p.src_port)
           /\ ValidAndCheck(0, r.dest_port, p.dest_port)
    /\ p.protocol = IPPROTO_ICMP => ValidAndCheck(0, r.sub_protocol, p.icmp_type)
=============================================================================
