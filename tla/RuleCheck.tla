------------------------------ MODULE RuleCheck ------------------------------
(***************************************************************************)
(* RuleCollection::check, the walk over the rules that EndCheck of         *)
(* RuleManager takes as one step; RuleMatch has the match of one rule.     *)
(*                                                                         *)
(* Every rule asks the wall clock anew (PacketExtractor::getTimePass calls *)
(* time()), so the hour may change in the middle of a walk: the clock      *)
(* ticks between any two rules.                                            *)
(***************************************************************************)
EXTENDS RuleMatch, Sequences

CONSTANTS
    Rules,      \* the rules a collection is made of
    Packets,    \* the packets that arrive
    StartTimes, \* the local times at which the filter may be started
    MaxRules,   \* bound on the length of a collection
    MaxTicks    \* bound on the hours that pass

ASSUME CheckAssumption ==
    /\ Rules \subseteq Rule
    /\ Packets \subseteq Packet
    /\ StartTimes \subseteq Clock
    /\ MaxRules \in Nat
    /\ MaxTicks \in Nat

-----------------------------------------------------------------------------

VARIABLES
    rules,      \* the collection
    pc,         \* "idle" or "walking"
    pkt,        \* the packet being checked
    it,         \* the loop's iterator
    black, white, monitor, \* the flags of check
    ret,        \* what the last check returned
    now,        \* the wall clock
    ticks,      \* hours passed so far
    seen,       \* history: seen[j] is when rule j was examined
    window      \* history: the times since the walk began

vars == <<rules, pc, pkt, it, black, white, monitor, ret, now, ticks, seen, window>>
flags == <<black, white, monitor>>

TypeOK ==
    /\ rules \in Seq(Rules)
    /\ pc \in {"idle", "walking"}
    /\ pkt \in Packets
    /\ it \in 1 .. Len(rules) + 1
    /\ black \in BOOLEAN /\ white \in BOOLEAN /\ monitor \in BOOLEAN
    /\ ret \in BOOLEAN
    /\ now \in Clock
    /\ ticks \in 0 .. MaxTicks
    /\ seen \in Seq(Clock)
    /\ window \in SUBSET Clock

RuleLists == UNION {[1 .. n -> Rules] : n \in 0 .. MaxRules}

Init ==
    /\ rules \in RuleLists
    /\ pc = "idle"
    /\ pkt \in Packets
    /\ it = 1
    /\ black = FALSE /\ white = FALSE /\ monitor = FALSE
    /\ ret = TRUE
    /\ now \in StartTimes
    /\ ticks = 0
    /\ seen = <<>>
    /\ window = {}

\* An hour passes.
Tick ==
    /\ ticks < MaxTicks
    /\ ticks' = ticks + 1
    /\ now' = [hour |-> (now.hour + 1) % 24,
               wday |-> IF now.hour = 23 THEN (now.wday + 1) % 7 ELSE now.wday]
    /\ window' = IF pc = "walking" THEN window \cup {now'} ELSE window
    /\ UNCHANGED <<rules, pc, pkt, it, flags, ret, seen>>

\* Mutated form of Begin: the flags of the last packet are not reset.
BeginStale(p) ==
    /\ pc = "idle"
    /\ pc' = "walking"
    /\ pkt' = p
    /\ it' = 1
    /\ seen' = <<>>
    /\ window' = {now}
    /\ UNCHANGED <<rules, flags, ret, now, ticks>>

\* judge calls check(p).
Begin(p) ==
    /\ pc = "idle"
    /\ pc' = "walking"
    /\ pkt' = p
    /\ it' = 1
    /\ black' = FALSE /\ white' = FALSE /\ monitor' = FALSE
    /\ seen' = <<>>
    /\ window' = {now}
    /\ UNCHANGED <<rules, ret, now, ticks>>

\* Mutated form of Examine: a later rule of a list overwrites the match of an
\* earlier one.
ExamineLast ==
    /\ pc = "walking" /\ it <= Len(rules)
    /\ LET r == rules[it]
           m == check(r, pkt, now)
       IN  /\ black' = IF r.type = TYPE_BLACK_LIST THEN m ELSE black
           /\ white' = IF r.type = TYPE_WHITE_LIST THEN m ELSE white
           /\ monitor' = IF r.type = TYPE_MONITOR_LIST THEN m ELSE monitor
    /\ it' = it + 1
    /\ seen' = Append(seen, now)
    /\ UNCHANGED <<rules, pc, pkt, ret, now, ticks, window>>

\* Mutated form of Examine: the walk does not get past a rule of no known type.
ExamineStuck ==
    /\ pc = "walking" /\ it <= Len(rules)
    /\ LET r == rules[it]
           m == check(r, pkt, now)
       IN  /\ black' = (black \/ (r.type = TYPE_BLACK_LIST /\ m))
           /\ white' = (white \/ (r.type = TYPE_WHITE_LIST /\ m))
           /\ monitor' = (monitor \/ (r.type = TYPE_MONITOR_LIST /\ m))
           /\ it' = IF r.type > TYPE_MONITOR_LIST THEN it ELSE it + 1
    /\ UNCHANGED <<rules, pc, pkt, ret, now, ticks, seen, window>>

\* Mutated form of Examine: the iterator is advanced twice.
ExamineSkips ==
    /\ pc = "walking" /\ it <= Len(rules)
    /\ LET r == rules[it]
           m == check(r, pkt, now)
       IN  /\ black' = (black \/ (r.type = TYPE_BLACK_LIST /\ m))
           /\ white' = (white \/ (r.type = TYPE_WHITE_LIST /\ m))
           /\ monitor' = (monitor \/ (r.type = TYPE_MONITOR_LIST /\ m))
    /\ it' = it + 2
    /\ seen' = Append(seen, now)
    /\ UNCHANGED <<rules, pc, pkt, ret, now, ticks, window>>

\* One iteration: a rule is tried if no earlier rule of its list has matched.
Examine ==
    /\ pc = "walking" /\ it <= Len(rules)
    /\ LET r == rules[it]
           m == check(r, pkt, now)
       IN  /\ black' = (black \/ (r.type = TYPE_BLACK_LIST /\ m))
           /\ white' = (white \/ (r.type = TYPE_WHITE_LIST /\ m))
           /\ monitor' = (monitor \/ (r.type = TYPE_MONITOR_LIST /\ m))
    /\ it' = it + 1
    /\ seen' = Append(seen, now)
    /\ UNCHANGED <<rules, pc, pkt, ret, now, ticks, window>>

\* return white || !black
Return ==
    /\ pc = "walking" /\ it > Len(rules)
    /\ ret' = (white \/ ~black)
    /\ pc' = "idle"
    /\ UNCHANGED <<rules, pkt, it, flags, now, ticks, seen, window>>

Next == Tick \/ (\E p \in Packets : Begin(p)) \/ Examine \/ Return

\* The filtering thread keeps running.
Spec == Init /\ [][Next]_vars /\ WF_vars(Examine \/ Return)

-----------------------------------------------------------------------------
(***************************************************************************)
(* Properties.                                                             *)
(***************************************************************************)

Blacks == {j \in 1 .. Len(rules) : rules[j].type = TYPE_BLACK_LIST}
Whites == {j \in 1 .. Len(rules) : rules[j].type = TYPE_WHITE_LIST}

\* A packet has been checked.
Checked == pc = "idle" /\ it = Len(rules) + 1 /\ window # {}

\* The reference: the set of rules decides, not their order; a white rule beats
\* every black one, and everything else passes.
Verdict(t) ==
    \/ \E j \in Whites : check(rules[j], pkt, t)
    \/ ~ \E j \in Blacks : check(rules[j], pkt, t)

\* If the hour does not change during the walk, check returns the verdict of that
\* hour, whatever the order of the rules and of the packets before.
VerdictOfTheHour ==
    Checked => \A t \in window : window = {t} => ret = Verdict(t)

\* Whenever the hour changes: a white rule that applies throughout the walk lets
\* the packet pass; a black one that does drops it, if no white rule applies at any
\* time of the walk; and a packet is dropped only if a black rule applied at some
\* time of it.
RulesOfTheWindow ==
    Checked =>
        /\ (\E j \in Whites : \A t \in window : check(rules[j], pkt, t)) => ret
        /\ (/\ \E j \in Blacks : \A t \in window : check(rules[j], pkt, t)
            /\ \A j \in Whites, t \in window : ~check(rules[j], pkt, t)) => ~ret
        /\ ~ret => \E j \in Blacks, t \in window : check(rules[j], pkt, t)

\* The walk ends, so the judge gives m_mutexRules back.
WalkEnds == (pc = "walking") ~> (pc = "idle")
=============================================================================
