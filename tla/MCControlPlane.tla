--------------------------- MODULE MCControlPlane ---------------------------
(***************************************************************************)
(* ControlPlane with two browsers. The files hold a black rule with a      *)
(* time mask, a white rule for one ICMP type, and a monitor rule; a list   *)
(* of three rules neither fits an update nor surely one recv of the proxy. *)
(***************************************************************************)
EXTENDS ControlPlane

BlackRule == [type |-> TYPE_BLACK_LIST, protocol |-> IPPROTO_TCP, sub_protocol |-> 0,
              src_ip |-> <<10, 0, 0, 1>>, dest_ip |-> AnyIp, src_port |-> 0,
              dest_port |-> ntohs(80), time_pass |-> {8}]
WhiteRule == [type |-> TYPE_WHITE_LIST, protocol |-> IPPROTO_ICMP, sub_protocol |-> 3,
              src_ip |-> AnyIp, dest_ip |-> <<10, 0, 0, 2>>, src_port |-> 0,
              dest_port |-> 0, time_pass |-> 0 .. 31]
MonitorRule == [type |-> TYPE_MONITOR_LIST, protocol |-> IPPROTO_UDP, sub_protocol |-> 0,
                src_ip |-> AnyIp, dest_ip |-> AnyIp, src_port |-> ntohs(53),
                dest_port |-> 0, time_pass |-> 24 .. 31]

TwoRules == {<<BlackRule, MonitorRule>>}
UpToThreeRules == {<<BlackRule, MonitorRule>>, <<BlackRule, WhiteRule, MonitorRule>>}

TypedRules == {[src_ip |-> <<10, 0, 0, 9>>, target_ip |-> Absent, src_port |-> Absent,
                target_port |-> 22, type |-> Absent, protocol |-> <<"tcp">>,
                time_pass |-> Absent, timepass |-> Absent]}

Symmetry == Permutations(Consoles)

ComparedPackets ==
    {[protocol |-> pr, icmp_type |-> IF pr = IPPROTO_ICMP THEN 3 ELSE 0,
      src_ip |-> s, dest_ip |-> <<10, 0, 0, 2>>, src_port |-> ntohs(53), dest_port |-> ntohs(80)] :
        pr \in {IPPROTO_ICMP, IPPROTO_TCP, IPPROTO_UDP}, s \in {<<10, 0, 0, 1>>, <<10, 0, 0, 9>>}}
ComparedClocks == {[hour |-> h, wday |-> 1] : h \in {0, 8}}
=============================================================================
