---------------------------- MODULE MCRuleCheck ----------------------------
(***************************************************************************)
(* RuleCheck on rule lists of up to three rules out of a pool that has     *)
(* every type, every wildcard and rules of two adjacent hours around       *)
(* midnight.                                                               *)
(***************************************************************************)
EXTENDS RuleCheck

Always == 0 .. 31
AnyRule == [type |-> 0, protocol |-> 0, sub_protocol |-> 0, src_ip |-> AnyIp, dest_ip |-> AnyIp,
            src_port |-> 0, dest_port |-> 0, time_pass |-> Always]

MCRules ==
    {[AnyRule EXCEPT !.protocol = IPPROTO_TCP, !.dest_port = 80],
     [AnyRule EXCEPT !.time_pass = {23}],
     [AnyRule EXCEPT !.time_pass = {0, 25}],
     [AnyRule EXCEPT !.type = TYPE_WHITE_LIST, !.src_ip = <<10, 0, 0, 1>>, !.time_pass = {0}],
     [AnyRule EXCEPT !.type = TYPE_WHITE_LIST, !.protocol = IPPROTO_ICMP,
                     !.sub_protocol = 3],
     [AnyRule EXCEPT !.type = TYPE_MONITOR_LIST],
     [AnyRule EXCEPT !.type = 7, !.dest_ip = <<10, 0, 0, 2>>]}

MCPackets ==
    {[protocol |-> IPPROTO_TCP, icmp_type |-> 0, src_ip |-> <<10, 0, 0, 1>>, dest_ip |-> <<10, 0, 0, 2>>,
      src_port |-> 9, dest_port |-> 80],
     [protocol |-> IPPROTO_ICMP, icmp_type |-> 3, src_ip |-> <<10, 0, 0, 1>>, dest_ip |-> <<10, 0, 0, 2>>,
      src_port |-> 0, dest_port |-> 0],
     [protocol |-> IPPROTO_UDP, icmp_type |-> 0, src_ip |-> <<10, 0, 0, 3>>, dest_ip |-> <<10, 0, 0, 2>>,
      src_port |-> 9, dest_port |-> 80]}

\* Sunday, eleven in the evening: hour bit 23 and day bit 24, then 0 and 25.
MCStartTimes == {[hour |-> 23, wday |-> 0]}
=============================================================================
