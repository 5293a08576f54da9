---------------------------- MODULE PolicyService ----------------------------
(***************************************************************************)
(* What the rule manager promises, without its heap, its mutex and its     *)
(* pointers: there is one current policy and one on/off switch; an update  *)
(* installs its rules once, then sets the switch once, and only then is    *)
(* acknowledged; a packet is let through if the switch is off when it is   *)
(* looked at, and is otherwise judged by the policy of one instant.        *)
(*                                                                         *)
(* RuleManager.tla implements this specification (RuleManager!Abstract).   *)
(***************************************************************************)
CONSTANTS
    Conns,       \* the connections that send updates
    RuleSets,    \* the policies
    EmptyRules,  \* the policy with no rule
    Packets,
    Accepts,     \* Accepts[R]: the packets policy R lets through
    NoRules,     \* there is no policy yet
    Absent       \* an update that carries no rules

VARIABLES
    policy,      \* the current policy, or NoRules
    on,          \* is filtering switched on
    opened,      \* has the service begun to take updates and packets
    todo,        \* todo[c]: what is left to do of the update of c
    stage,       \* the packet being judged: "idle", "new", "engaged", "decided"
    packet,      \* that packet
    pass         \* the decision, once stage is "decided"

vars == <<policy, on, opened, todo, stage, packet, pass>>
jobVars == <<stage, packet, pass>>

\* Nothing is left to do of an update; and there is no update at all.
Done == [data |-> Absent, flag |-> "absent", open |-> TRUE]
NoUpdate == [data |-> Absent, flag |-> "absent", open |-> FALSE]

Init ==
    /\ policy = NoRules
    /\ on = FALSE
    /\ opened = FALSE
    /\ todo = [c \in Conns |-> NoUpdate]
    /\ stage = "idle"
    /\ packet \in Packets
    /\ pass = TRUE

-----------------------------------------------------------------------------

\* The rules of the configuration file are loaded before anything else runs.
LoadFile(R) ==
    /\ ~opened
    /\ policy' = R
    /\ UNCHANGED <<on, opened, todo, jobVars>>

\* The service opens: an absent policy becomes the empty one.
Open ==
    /\ ~opened
    /\ opened' = TRUE
    /\ policy' = IF policy = NoRules THEN EmptyRules ELSE policy
    /\ on' = TRUE
    /\ UNCHANGED <<todo, jobVars>>

Submit(c, R, f) ==
    /\ opened
    /\ todo[c] = NoUpdate
    /\ todo' = [todo EXCEPT ![c] = [data |-> R, flag |-> f, open |-> TRUE]]
    /\ UNCHANGED <<policy, on, opened, jobVars>>

Install(c) ==
    /\ todo[c].data \in RuleSets
    /\ policy' = todo[c].data
    /\ todo' = [todo EXCEPT ![c].data = Absent]
    /\ UNCHANGED <<on, opened, jobVars>>

Switch(c) ==
    /\ todo[c].data = Absent
    /\ todo[c].flag # "absent"
    /\ on' = (todo[c].flag = "on")
    /\ todo' = [todo EXCEPT ![c].flag = "absent"]
    /\ UNCHANGED <<policy, opened, jobVars>>

Acknowledge(c) ==
    /\ todo[c] = Done
    /\ todo' = [todo EXCEPT ![c] = NoUpdate]
    /\ UNCHANGED <<policy, on, opened, jobVars>>

-----------------------------------------------------------------------------

Arrive(p) ==
    /\ opened
    /\ stage = "idle"
    /\ stage' = "new"
    /\ packet' = p
    /\ UNCHANGED <<policy, on, opened, todo, pass>>

Bypass ==
    /\ stage = "new"
    /\ ~on
    /\ stage' = "decided"
    /\ pass' = TRUE
    /\ UNCHANGED <<policy, on, opened, todo, packet>>

Engage ==
    /\ stage = "new"
    /\ on
    /\ stage' = "engaged"
    /\ UNCHANGED <<policy, on, opened, todo, packet, pass>>

Decide ==
    /\ stage = "engaged"
    /\ policy # NoRules
    /\ stage' = "decided"
    /\ pass' = (packet \in Accepts[policy])
    /\ UNCHANGED <<policy, on, opened, todo, packet>>

Deliver ==
    /\ stage = "decided"
    /\ stage' = "idle"
    /\ UNCHANGED <<policy, on, opened, todo, packet, pass>>

Next ==
    \/ \E R \in RuleSets : LoadFile(R)
    \/ Open
    \/ \E c \in Conns :
        \/ \E R \in RuleSets \cup {Absent}, f \in {"absent", "on", "off"} :
               Submit(c, R, f)
        \/ Install(c)
        \/ Switch(c)
        \/ Acknowledge(c)
    \/ \E p \in Packets : Arrive(p)
    \/ Bypass \/ Engage \/ Decide \/ Deliver

Spec == Init /\ [][Next]_vars
=============================================================================
