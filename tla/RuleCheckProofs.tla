--------------------------- MODULE RuleCheckProofs ---------------------------
(***************************************************************************)
(* Proofs about RuleCheck for rule lists of any length over any rules.     *)
(* What a rule matches does not matter: Rule::check stays closed.          *)
(***************************************************************************)
EXTENDS RuleCheck, TLAPS

\* Each rule before the iterator was examined at a time of the window, and the
\* flags tell which lists have a match among them. (No packet has been checked yet
\* while the window is empty.)
FlagsInv ==
    window # {} =>
        /\ Len(seen) = it - 1
        /\ \A j \in 1 .. it - 1 : seen[j] \in window
        /\ black <=> \E j \in 1 .. it - 1 :
               rules[j].type = TYPE_BLACK_LIST /\ check(rules[j], pkt, seen[j])
        /\ white <=> \E j \in 1 .. it - 1 :
               rules[j].type = TYPE_WHITE_LIST /\ check(rules[j], pkt, seen[j])

\* The window holds the present while the walk is under way.
WindowInv == pc = "walking" => now \in window

\* A finished walk saw every rule and returned what its flags say.
ReturnInv ==
    pc = "idle" /\ window # {} => it = Len(rules) + 1 /\ ret = (white \/ ~black)

WalkInv == TypeOK /\ FlagsInv /\ WindowInv /\ ReturnInv

-----------------------------------------------------------------------------

\* A tick of the clock leads from a time of day to a time of day.
LEMMA NextHour ==
    ASSUME NEW t \in Clock
    PROVE  [hour |-> (t.hour + 1) % 24,
            wday |-> IF t.hour = 23 THEN (t.wday + 1) % 7 ELSE t.wday] \in Clock
  BY DEF Clock

\* RuleCheck starts in the invariant.
LEMMA InitWalk == Init => WalkInv
<1> SUFFICES ASSUME Init PROVE WalkInv
  OBVIOUS
<1>1. rules \in Seq(Rules)
  BY DEF Init, RuleLists
<1>2. Len(rules) \in Nat /\ <<>> \in Seq(Clock)
  BY <1>1
<1>3. it \in 1 .. Len(rules) + 1 /\ ticks \in 0 .. MaxTicks
  BY <1>2, CheckAssumption DEF Init
<1>4. TypeOK
  BY <1>1, <1>2, <1>3, CheckAssumption DEF Init, TypeOK
<1> QED
  BY <1>4 DEF Init, WalkInv, FlagsInv, WindowInv, ReturnInv

\* Every step keeps the types.
LEMMA TypeStep == TypeOK /\ [Next]_vars => TypeOK'
<1> SUFFICES ASSUME TypeOK, [Next]_vars PROVE TypeOK'
  OBVIOUS
<1> USE DEF TypeOK, flags
<1>1. CASE Tick
  BY <1>1, NextHour, CheckAssumption DEF Tick
<1>2. ASSUME NEW p \in Packets, Begin(p) PROVE TypeOK'
  <2>1. Len(rules) \in Nat /\ <<>> \in Seq(Clock)
    OBVIOUS
  <2>2. it' \in 1 .. Len(rules') + 1
    BY <1>2, <2>1 DEF Begin
  <2> QED
    BY <1>2, <2>1, <2>2 DEF Begin
<1>3. CASE Examine
  BY <1>3 DEF Examine
<1>4. CASE Return
  BY <1>4 DEF Return
<1>5. CASE UNCHANGED vars
  BY <1>5 DEF vars
<1> QED
  BY <1>1, <1>2, <1>3, <1>4, <1>5 DEF Next

\* One iteration of the loop keeps the account of the rules examined.
LEMMA ExamineStep == WalkInv /\ Examine => FlagsInv'
<1> SUFFICES ASSUME WalkInv, Examine PROVE FlagsInv'
  OBVIOUS
<1> USE DEF WalkInv, TypeOK
<1>1. window' = window /\ rules' = rules /\ pkt' = pkt /\ it' = it + 1 /\ now \in window
  BY DEF Examine, WindowInv
<1>2. it \in Nat /\ Len(seen) = it - 1 /\ it <= Len(rules)
  BY <1>1 DEF Examine, FlagsInv
<1>3. /\ Len(seen') = it
      /\ seen'[it] = now
      /\ \A j \in 1 .. it - 1 : seen'[j] = seen[j]
  BY <1>2 DEF Examine
<1>4. \A j : j \in 1 .. it <=> j \in 1 .. it - 1 \/ j = it
  BY <1>2
<1>5. \A j \in 1 .. it : seen'[j] \in window
  BY <1>1, <1>2, <1>3 DEF FlagsInv
<1>6. black' <=> \E j \in 1 .. it :
          rules[j].type = TYPE_BLACK_LIST /\ check(rules[j], pkt, seen'[j])
  <2>1. black' = (black \/ (rules[it].type = TYPE_BLACK_LIST /\ check(rules[it], pkt, now)))
    BY DEF Examine
  <2>2. black <=> \E j \in 1 .. it - 1 :
            rules[j].type = TYPE_BLACK_LIST /\ check(rules[j], pkt, seen'[j])
    BY <1>1, <1>3 DEF FlagsInv
  <2> HIDE DEF WalkInv, TypeOK
  <2> QED
    BY <1>3, <1>4, <2>1, <2>2
<1>7. white' <=> \E j \in 1 .. it :
          rules[j].type = TYPE_WHITE_LIST /\ check(rules[j], pkt, seen'[j])
  <2>1. white' = (white \/ (rules[it].type = TYPE_WHITE_LIST /\ check(rules[it], pkt, now)))
    BY DEF Examine
  <2>2. white <=> \E j \in 1 .. it - 1 :
            rules[j].type = TYPE_WHITE_LIST /\ check(rules[j], pkt, seen'[j])
    BY <1>1, <1>3 DEF FlagsInv
  <2> HIDE DEF WalkInv, TypeOK
  <2> QED
    BY <1>3, <1>4, <2>1, <2>2
<1> QED
  BY <1>1, <1>2, <1>3, <1>5, <1>6, <1>7 DEF FlagsInv

\* WalkInv is an inductive invariant of RuleCheck.
THEOREM WalkInvariant == Spec => []WalkInv
<1>1. WalkInv /\ [Next]_vars => WalkInv'
  <2> SUFFICES ASSUME WalkInv, [Next]_vars PROVE WalkInv'
    OBVIOUS
  <2>0. TypeOK'
    BY TypeStep DEF WalkInv
  <2> USE DEF WalkInv, flags
  <2>1. CASE Tick
    <3>1. window # {} => window' # {} /\ window \subseteq window'
      BY <2>1 DEF Tick
    <3>2. window' # {} => window # {}
      BY <2>1 DEF Tick, WindowInv, TypeOK
    <3>3. FlagsInv'
      BY <2>1, <3>1, <3>2 DEF Tick, FlagsInv
    <3> QED
      BY <2>0, <2>1, <3>2, <3>3 DEF Tick, WindowInv, ReturnInv
  <2>2. ASSUME NEW p \in Packets, Begin(p) PROVE WalkInv'
    BY <2>0, <2>2 DEF Begin, FlagsInv, WindowInv, ReturnInv
  <2>3. CASE Examine
    BY <2>0, <2>3, ExamineStep DEF Examine, WindowInv, ReturnInv
  <2>4. CASE Return
    BY <2>0, <2>4 DEF Return, TypeOK, FlagsInv, WindowInv, ReturnInv
  <2>5. CASE UNCHANGED vars
    BY <2>0, <2>5 DEF vars, FlagsInv, WindowInv, ReturnInv
  <2> QED
    BY <2>1, <2>2, <2>3, <2>4, <2>5 DEF Next
<1> QED
  BY InitWalk, <1>1, PTL DEF Spec

-----------------------------------------------------------------------------

\* The iterator stays on the list and the history variables in their types.
THEOREM CheckTypes == Spec => []TypeOK
  BY WalkInvariant, PTL DEF WalkInv

\* check over any list of rules returns the verdict of the hour in which it runs:
\* the order of the rules does not matter, a white rule beats the black ones.
THEOREM HourVerdict == Spec => []VerdictOfTheHour
<1>1. WalkInv => VerdictOfTheHour
  <2> SUFFICES ASSUME WalkInv, Checked, NEW t \in window, window = {t}
               PROVE  ret = Verdict(t)
    BY DEF VerdictOfTheHour
  <2>1. it = Len(rules) + 1 /\ ret = (white \/ ~black) /\ Len(rules) \in Nat
    BY DEF WalkInv, ReturnInv, Checked, TypeOK
  <2>2. \A j \in 1 .. Len(rules) : seen[j] = t
    BY <2>1 DEF WalkInv, FlagsInv
  <2>3. black <=> \E j \in Blacks : check(rules[j], pkt, t)
    BY <2>1, <2>2 DEF WalkInv, FlagsInv, Blacks
  <2>4. white <=> \E j \in Whites : check(rules[j], pkt, t)
    BY <2>1, <2>2 DEF WalkInv, FlagsInv, Whites
  <2> QED
    BY <2>1, <2>3, <2>4 DEF Verdict, WalkInv, TypeOK
<1> QED
  BY WalkInvariant, <1>1, PTL

\* However often the hour changes during check, rules that apply throughout are
\* honoured and no packet is dropped without a black rule that applied.
THEOREM WindowVerdict == Spec => []RulesOfTheWindow
<1>1. WalkInv => RulesOfTheWindow
  <2> SUFFICES ASSUME WalkInv, Checked
               PROVE  /\ (\E j \in Whites : \A t \in window : check(rules[j], pkt, t)) => ret
                      /\ (/\ \E j \in Blacks : \A t \in window : check(rules[j], pkt, t)
                          /\ \A j \in Whites, t \in window : ~check(rules[j], pkt, t)) => ~ret
                      /\ ~ret => \E j \in Blacks, t \in window : check(rules[j], pkt, t)
    BY DEF RulesOfTheWindow
  <2>1. it = Len(rules) + 1 /\ ret = (white \/ ~black) /\ Len(rules) \in Nat
    BY DEF WalkInv, ReturnInv, Checked, TypeOK
  <2>2. \A j \in 1 .. Len(rules) : seen[j] \in window
    BY <2>1 DEF WalkInv, FlagsInv, Checked
  <2>3. black <=> \E j \in Blacks : check(rules[j], pkt, seen[j])
    BY <2>1 DEF WalkInv, FlagsInv, Blacks, Checked
  <2>4. white <=> \E j \in Whites : check(rules[j], pkt, seen[j])
    BY <2>1 DEF WalkInv, FlagsInv, Whites, Checked
  <2> QED
    BY <2>1, <2>2, <2>3, <2>4 DEF Blacks, Whites
<1> QED
  BY WalkInvariant, <1>1, PTL
=============================================================================
