--------------------------- MODULE LogBufferProofs ---------------------------
(***************************************************************************)
(* Proofs about LogBuffer for any threads and connections, any texts, any  *)
(* number of calls and any size of the buffer.                             *)
(***************************************************************************)
EXTENDS LogBuffer, FiniteSetTheorems, TLAPS

CallRecord == [first : Nat, len : Nat, to : Nat, done : Nat, early : BOOLEAN, base : Nat]

Active == {t \in Loggers : pc[t] # "idle"}

\* The characters of the call t is in, and those of the calls that are over.
Chars(t) == call[t].first .. call[t].first + call[t].len - 1
Finished == {i \in 1 .. issued : \A t \in Active : i \notin Chars(t)}

PcInv ==
    /\ pc \in [Loggers \cup Readers ->
                  {"idle", "sprintf", "write", "operand", "advance", "load", "store", "copy"}]
    /\ \A t \in Loggers : pc[t] = "idle" => call[t] = NoCall
    /\ \A t \in Loggers : pc[t] = "sprintf" => call[t].done = 0

\* Every call has characters of its own, and whatever it has read of p_sp is at most
\* the number of characters of finished calls.
RoomInv ==
    /\ \A t \in Active : call[t].first \in Nat \ {0} /\ Chars(t) \subseteq 1 .. issued
    /\ \A t, u \in Active : t # u => Chars(t) \cap Chars(u) = {}
    /\ p_sp <= Cardinality(Finished)
    /\ \A t \in Loggers : /\ pc[t] # "sprintf" => call[t].to <= Cardinality(Finished)
                          /\ call[t].base <= Cardinality(Finished)

\* The log holds the first n characters and nothing behind them.
LogIs(n) == \A j \in Places : logbuff[j] = IF j < n THEN j + 1 ELSE 0

\* While calls do not overlap, one call appends to a log that is all in order.
SeqInv ==
    ~overlap /\ ~overrun =>
        /\ \A t, u \in Active : t = u
        /\ Active = {} => issued = p_sp /\ p_sp < Size /\ LogIs(p_sp)
        /\ \A t \in Active :
              /\ p_sp < Size /\ call[t].first = p_sp + 1 /\ issued = p_sp + call[t].len
              /\ LogIs(p_sp + call[t].done) /\ p_sp + call[t].done <= Size
              /\ pc[t] = "write" => call[t].to = p_sp
              /\ pc[t] = "write" /\ call[t].early => call[t].base = p_sp
              /\ pc[t] \in {"operand", "advance"} => call[t].done = call[t].len
              /\ pc[t] \in {"operand", "advance"} => issued < Size
              /\ pc[t] = "advance" => call[t].base = p_sp

\* The text before place n is in an answer, or will be.
Covered(n) == \A i \in 1 .. n : i \in shown \/ \E r \in Readers : InHand(r, i)

\* While calls do not overlap, cursors stay within the text, and behind each of them
\* everything is covered.
CursorInv ==
    ~overlap =>
        /\ xp <= p_sp /\ Covered(xp)
        /\ \A r \in Readers : /\ req[r].from <= p_sp /\ req[r].sp <= p_sp
                              /\ pc[r] # "idle" => Covered(req[r].from)

\* The inductive invariant.
IndInv == TypeOK /\ PcInv /\ RoomInv /\ SeqInv /\ CursorInv /\ OverrunOnlyWhenFull

-----------------------------------------------------------------------------

USE DEF loggerVars, readerVars, Goto

\* The state LOG_INIT leaves satisfies the invariant.
LEMMA InitInd == Init => IndInv
<1> SUFFICES ASSUME Init PROVE IndInv
  OBVIOUS
<1> USE LogAssumption DEF Init
<1>0. /\ NoCall \in [first : Nat, len : Nat, to : Nat, done : Nat, early : BOOLEAN, base : Nat]
      /\ NoReq \in [from : Nat, sp : Nat] /\ NoCall.done <= NoCall.len /\ NoCall.done = 0
  BY DEF NoCall, NoReq
<1>1. TypeOK /\ PcInv
  <2>1. PcInv
    BY <1>0 DEF PcInv
  <2>2. \A t \in Loggers \cup Readers : pc[t] = "idle"
    OBVIOUS
  <2>3. \A t \in Loggers : call[t].done <= call[t].len
    BY <1>0
  <2>4. {} \in SUBSET (1 .. 0) /\ 0 \in 0 .. MaxCalls
    OBVIOUS
  <2> QED
    BY <1>0, <2>1, <2>2, <2>3, <2>4 DEF TypeOK
<1>2. Active = {} /\ Finished = {}
  BY DEF Active, Finished
<1>3. Cardinality(Finished) = 0
  BY <1>2, FS_EmptySet
<1>4. RoomInv
  BY <1>2, <1>3 DEF RoomInv, NoCall
<1>5. SeqInv /\ CursorInv /\ OverrunOnlyWhenFull
  BY <1>2 DEF SeqInv, LogIs, Places, CursorInv, Covered, NoReq, OverrunOnlyWhenFull
<1> QED
  BY <1>1, <1>4, <1>5 DEF IndInv

\* A thread that logs does not serve a request, so a step moves one of the two.
LEMMA OneMoves ==
    ASSUME PcInv, NEW t \in Loggers \cup Readers, NEW label, Goto(t, label)
    PROVE  /\ pc'[t] = label
           /\ \A u \in Loggers \cup Readers : u # t => pc'[u] = pc[u]
           /\ t \in Readers => t \notin Loggers
  BY LogAssumption DEF PcInv

\* Program counters keep to their labels.
LEMMA PcStep == IndInv /\ [Next]_vars => PcInv'
<1> SUFFICES ASSUME IndInv, [Next]_vars PROVE PcInv'
  OBVIOUS
<1> USE LogAssumption DEF IndInv, PcInv, TypeOK, NoCall
<1>1. ASSUME NEW t \in Loggers, NEW n \in Lengths, Enter(t, n) PROVE PcInv'
  BY <1>1 DEF Enter
<1>2. ASSUME NEW t \in Loggers, CallSprintf(t) PROVE PcInv'
  BY <1>2 DEF CallSprintf
<1>3. ASSUME NEW t \in Loggers, WriteChar(t) PROVE PcInv'
  BY <1>3 DEF WriteChar
<1>4. ASSUME NEW t \in Loggers, ReadOperand(t) PROVE PcInv'
  BY <1>4 DEF ReadOperand
<1>5. ASSUME NEW t \in Loggers, Advance(t) PROVE PcInv'
  BY <1>5 DEF Advance
<1>6. ASSUME NEW r \in Readers, QueryCleanLog(r) PROVE PcInv'
  BY <1>6 DEF QueryCleanLog
<1>7. ASSUME NEW r \in Readers, QueryLog(r) PROVE PcInv'
  BY <1>7 DEF QueryLog
<1>8. ASSUME NEW r \in Readers, LoadSp(r) PROVE PcInv'
  BY <1>8 DEF LoadSp
<1>9. ASSUME NEW r \in Readers, StoreXp(r) PROVE PcInv'
  BY <1>9 DEF StoreXp
<1>10. ASSUME NEW r \in Readers, Copy(r) PROVE PcInv'
  BY <1>10 DEF Copy
<1>11. CASE UNCHANGED vars
  BY <1>11 DEF vars
<1> QED
  BY <1>1, <1>2, <1>3, <1>4, <1>5, <1>6, <1>7, <1>8, <1>9, <1>10, <1>11
     DEF Next, LoggerStep, ReaderStep

\* A request that starts at place i of a log in order gets all characters from there.
LEMMA LogText ==
    ASSUME NEW n \in 0 .. Size, LogIs(n), NEW i \in 0 .. n
    PROVE  Text(i) = i + 1 .. n
<1> USE LogAssumption DEF Places
<1>1. \A j \in Places : (j >= i /\ \A k \in i .. j : logbuff[k] # 0) <=> j \in i .. n - 1
  <2> SUFFICES ASSUME NEW j \in Places
               PROVE  (j >= i /\ \A k \in i .. j : logbuff[k] # 0) <=> j \in i .. n - 1
    OBVIOUS
  <2>1. ASSUME j >= i, \A k \in i .. j : logbuff[k] # 0 PROVE j \in i .. n - 1
    <3>1. logbuff[j] # 0
      BY <2>1
    <3> QED
      BY <2>1, <3>1 DEF LogIs
  <2>2. ASSUME j \in i .. n - 1, NEW k \in i .. j PROVE logbuff[k] # 0
    <3>1. k \in Places /\ k < n
      BY <2>2
    <3> QED
      BY <3>1 DEF LogIs
  <2> QED
    BY <2>1, <2>2
<1>2. TextFrom(i) = i .. n - 1
  BY <1>1 DEF TextFrom
<1>3. \A j \in i .. n - 1 : logbuff[j] = j + 1
  BY DEF LogIs
<1>4. Text(i) = {logbuff[j] : j \in i .. n - 1}
  BY <1>2 DEF Text
<1>5. ASSUME NEW c \in i + 1 .. n PROVE c \in Text(i)
  <2>1. c - 1 \in i .. n - 1 /\ (c - 1) + 1 = c
    OBVIOUS
  <2>2. logbuff[c - 1] = c
    BY <1>3, <2>1
  <2> QED
    BY <1>4, <2>1, <2>2
<1>6. ASSUME NEW c \in Text(i) PROVE c \in i + 1 .. n
  <2>1. PICK j \in i .. n - 1 : c = logbuff[j]
    BY <1>4
  <2> QED
    BY <1>3, <2>1
<1> QED
  BY <1>5, <1>6

\* While calls do not overlap, a request gets all the text from its place up to p_sp,
\* and perhaps some of the call that is under way.
LEMMA CopyGets ==
    ASSUME IndInv, ~overlap, ~overrun, NEW i \in Nat, i <= p_sp
    PROVE  \E n \in Nat : p_sp <= n /\ n <= issued /\ Text(i) = i + 1 .. n
<1> USE LogAssumption DEF IndInv, TypeOK
<1>1. CASE Active = {}
  <2>1. p_sp \in 0 .. Size /\ LogIs(p_sp) /\ i \in 0 .. p_sp /\ issued = p_sp
    BY <1>1 DEF SeqInv
  <2>2. Text(i) = i + 1 .. p_sp
    BY <2>1, LogText
  <2>3. p_sp \in Nat /\ p_sp <= p_sp /\ p_sp <= issued
    BY <2>1
  <2> QED
    BY <2>2, <2>3
<1>2. ASSUME NEW t \in Active PROVE \E n \in Nat : p_sp <= n /\ n <= issued /\ Text(i) = i + 1 .. n
  <2> DEFINE n == p_sp + call[t].done
  <2>1. t \in Loggers /\ call[t].done \in Nat /\ call[t].len \in Nat /\ call[t].done <= call[t].len
    BY DEF Active
  <2>2. n \in 0 .. Size /\ LogIs(n) /\ issued = p_sp + call[t].len
    BY <2>1 DEF SeqInv
  <2>3. Text(i) = i + 1 .. n
    BY <2>1, <2>2, LogText
  <2>4. n \in Nat /\ p_sp <= n /\ n <= issued
    BY <2>1, <2>2
  <2> QED
    BY <2>3, <2>4
<1> QED
  BY <1>1, <1>2

\* Every step keeps the variables in their types.
LEMMA TypeStep == IndInv /\ [Next]_vars => TypeOK'
<1> SUFFICES ASSUME IndInv, [Next]_vars PROVE TypeOK'
  OBVIOUS
<1> USE LogAssumption DEF IndInv, TypeOK, PcInv
<1>1. ASSUME NEW t \in Loggers, NEW n \in Lengths, Enter(t, n) PROVE TypeOK'
  <2>1. call[t].done = 0 /\ n \in Nat
    BY <1>1 DEF Enter, NoCall
  <2>2. /\ call' \in [Loggers -> CallRecord]
        /\ \A u \in Loggers : call'[u].done <= call'[u].len
    <3> DEFINE first == issued + 1
               rec == [call[t] EXCEPT !.first = first, !.len = n]
    <3>1. call[t] \in CallRecord /\ first \in Nat
      BY DEF CallRecord
    <3>2. call' = [call EXCEPT ![t] = rec]
      BY <1>1 DEF Enter
    <3> HIDE DEF first
    <3>3. rec \in CallRecord /\ rec.done = call[t].done /\ rec.len = n
      BY <2>1, <3>1 DEF CallRecord
    <3> HIDE DEF rec
    <3> QED
      BY <2>1, <3>2, <3>3 DEF CallRecord
  <2>3. shown' \subseteq 1 .. issued' /\ issued' \in Nat
    BY <1>1, <2>1 DEF Enter
  <2>4. calls' \in 0 .. MaxCalls /\ p_sp' \in Nat /\ overlap' \in BOOLEAN
    BY <1>1 DEF Enter
  <2>5. \A u \in Loggers : pc'[u] \in {"idle", "sprintf", "write", "operand", "advance"}
    BY <1>1 DEF Enter
  <2>6. \A r \in Readers : pc'[r] = pc[r]
    BY <1>1, OneMoves DEF Enter
  <2> QED
    BY <1>1, <2>2, <2>3, <2>4, <2>5, <2>6 DEF Enter, CallRecord
<1>2. ASSUME NEW t \in Loggers, CallSprintf(t) PROVE TypeOK'
  <2>1. /\ call' \in [Loggers -> CallRecord]
        /\ \A u \in Loggers : call'[u].done = call[u].done /\ call'[u].len = call[u].len
    <3>1. PICK e \in BOOLEAN :
             call' = [call EXCEPT ![t].to = p_sp, ![t].early = e, ![t].base = IF e THEN p_sp ELSE 0]
      BY <1>2 DEF CallSprintf
    <3> DEFINE b == IF e THEN p_sp ELSE 0
               rec == [call[t] EXCEPT !.to = p_sp, !.early = e, !.base = b]
    <3>2. call[t] \in CallRecord /\ b \in Nat
      BY DEF CallRecord
    <3>3. call' = [call EXCEPT ![t] = rec]
      BY <3>1
    <3> HIDE DEF b
    <3>4. rec \in CallRecord /\ rec.done = call[t].done /\ rec.len = call[t].len
      BY <3>2 DEF CallRecord
    <3> HIDE DEF rec
    <3> QED
      BY <3>3, <3>4 DEF CallRecord
  <2> QED
    BY <1>2, <2>1 DEF CallSprintf, CallRecord
<1>3. ASSUME NEW t \in Loggers, WriteChar(t) PROVE TypeOK'
  <2> DEFINE c == call[t]
             at == c.to + c.done
             char == IF c.done < c.len THEN c.first + c.done ELSE 0
  <2>1. c \in CallRecord /\ at \in Nat /\ char \in Nat
    BY DEF CallRecord
  <2>2. logbuff' \in [Places -> Nat] /\ overrun' \in BOOLEAN
    <3>1. logbuff' = IF at >= Size THEN logbuff ELSE [logbuff EXCEPT ![at] = char]
      BY <1>3 DEF WriteChar
    <3>2. overrun' = (at >= Size)
      BY <1>3 DEF WriteChar
    <3> HIDE DEF at, char
    <3>3. at >= Size \/ at \in Places
      BY <2>1 DEF Places
    <3>4. logbuff' \in [Places -> Nat]
      BY <2>1, <3>1, <3>3
    <3>5. overrun' \in BOOLEAN
      BY <3>2
    <3> QED
      BY <3>4, <3>5
  <2>3. /\ call' \in [Loggers -> CallRecord]
        /\ \A u \in Loggers : call'[u].done <= call'[u].len
    <3>1. \/ c.done < c.len /\ call' = [call EXCEPT ![t].done = @ + 1]
          \/ UNCHANGED call
      BY <1>3 DEF WriteChar
    <3>2. CASE UNCHANGED call
      BY <3>2 DEF CallRecord
    <3>3. CASE c.done < c.len /\ call' = [call EXCEPT ![t].done = @ + 1]
      BY <2>1, <3>3 DEF CallRecord
    <3> QED
      BY <3>1, <3>2, <3>3
  <2>4. /\ \A u \in Loggers : pc'[u] \in {"idle", "sprintf", "write", "operand", "advance"}
        /\ \A r \in Readers : pc'[r] = pc[r]
    BY <1>3 DEF WriteChar
  <2> QED
    BY <1>3, <2>2, <2>3, <2>4 DEF WriteChar, CallRecord
<1>4. ASSUME NEW t \in Loggers, ReadOperand(t) PROVE TypeOK'
  BY <1>4 DEF ReadOperand
<1>5. ASSUME NEW t \in Loggers, Advance(t) PROVE TypeOK'
  <2>1. /\ NoCall \in CallRecord /\ NoCall.done <= NoCall.len
        /\ call[t].base + call[t].len \in Nat
    BY DEF NoCall, CallRecord
  <2>2. /\ call' \in [Loggers -> CallRecord]
        /\ \A u \in Loggers : call'[u].done <= call'[u].len
    BY <1>5, <2>1 DEF Advance, CallRecord
  <2> QED
    BY <1>5, <2>1, <2>2 DEF Advance, CallRecord
<1>6. ASSUME NEW r \in Readers, QueryCleanLog(r) PROVE TypeOK'
  BY <1>6 DEF QueryCleanLog
<1>7. ASSUME NEW r \in Readers, QueryLog(r) PROVE TypeOK'
  BY <1>7 DEF QueryLog
<1>8. ASSUME NEW r \in Readers, LoadSp(r) PROVE TypeOK'
  BY <1>8 DEF LoadSp
<1>9. ASSUME NEW r \in Readers, StoreXp(r) PROVE TypeOK'
  BY <1>9 DEF StoreXp
<1>10. ASSUME NEW r \in Readers, Copy(r) PROVE TypeOK'
  <2>1. shown' \subseteq 1 .. issued
    <3>1. CASE overlap
      BY <1>10, <3>1 DEF Copy
    <3>2. CASE ~overlap
      <4>1. req[r].from \in Nat /\ req[r].from <= p_sp
        BY <3>2 DEF CursorInv
      <4>2. PICK n \in Nat : n <= issued /\ Text(req[r].from) = req[r].from + 1 .. n
        BY <1>10, <3>2, <4>1, CopyGets DEF Copy
      <4>3. req[r].from + 1 .. n \subseteq 1 .. issued
        BY <4>1, <4>2
      <4> QED
        BY <1>10, <3>2, <4>2, <4>3 DEF Copy
    <3> QED
      BY <3>1, <3>2
  <2> QED
    BY <1>10, <2>1 DEF Copy, NoReq
<1>11. CASE UNCHANGED vars
  BY <1>11 DEF vars
<1> QED
  BY <1>1, <1>2, <1>3, <1>4, <1>5, <1>6, <1>7, <1>8, <1>9, <1>10, <1>11
     DEF Next, LoggerStep, ReaderStep

-----------------------------------------------------------------------------

\* A step that leaves the log and those who write it alone.
LogFrame ==
    /\ UNCHANGED <<logbuff, p_sp, overrun, call, calls, issued, overlap>>
    /\ \A t \in Loggers : pc'[t] = pc[t]

\* Requests for the log change neither the log nor a call.
LEMMA ReaderFrame ==
    ASSUME PcInv, NEW r \in Readers, ReaderStep(r)
    PROVE  LogFrame
<1> USE DEF LogFrame
<1>1. CASE QueryCleanLog(r)
  BY <1>1, OneMoves DEF QueryCleanLog
<1>2. CASE QueryLog(r)
  BY <1>2, OneMoves DEF QueryLog
<1>3. CASE LoadSp(r)
  BY <1>3, OneMoves DEF LoadSp
<1>4. CASE StoreXp(r)
  BY <1>4, OneMoves DEF StoreXp
<1>5. CASE Copy(r)
  BY <1>5, OneMoves DEF Copy
<1> QED
  BY <1>1, <1>2, <1>3, <1>4, <1>5 DEF ReaderStep

\* The finished characters are a finite set.
LEMMA FinishedFinite ==
    ASSUME TypeOK
    PROVE  IsFiniteSet(Finished) /\ Cardinality(Finished) \in Nat
<1>1. IsFiniteSet(1 .. issued)
  BY FS_Interval DEF TypeOK
<1>2. IsFiniteSet(Finished)
  BY <1>1, FS_Subset DEF Finished
<1> QED
  BY <1>2, FS_CardinalityType

\* Within a call the characters stay the same.
LEMMA SameChars ==
    ASSUME UNCHANGED issued,
           \A u \in Loggers : (pc'[u] = "idle") <=> (pc[u] = "idle"),
           \A u \in Loggers : call'[u].first = call[u].first /\ call'[u].len = call[u].len
    PROVE  /\ Active' = Active /\ Finished' = Finished
           /\ \A u \in Loggers : Chars(u)' = Chars(u)
<1>1. Active' = Active /\ Active \subseteq Loggers
  BY DEF Active
<1>2. \A u \in Loggers : Chars(u)' = Chars(u)
  BY DEF Chars
<1> QED
  BY <1>1, <1>2 DEF Finished

\* The characters of a call are as many as its text has, and none of them is finished.
LEMMA CharsCounted ==
    ASSUME IndInv, NEW t \in Active
    PROVE  Cardinality(Finished \cup Chars(t)) = Cardinality(Finished) + call[t].len
<1> USE DEF IndInv, TypeOK
<1>1. Finished \cap Chars(t) = {}
  BY DEF Finished
<1>2. IsFiniteSet(Chars(t)) /\ Cardinality(Chars(t)) = call[t].len
  <2> DEFINE a == call[t].first
             n == call[t].len
  <2>1. a \in Nat \ {0} /\ n \in Nat /\ Chars(t) = a .. a + n - 1
    BY DEF RoomInv, Active, Chars
  <2> HIDE DEF a, n
  <2>2. a \in Int /\ a + n - 1 \in Int /\ (a > a + n - 1 => n = 0) /\ (a + n - 1) - a + 1 = n
    BY <2>1
  <2>3. /\ IsFiniteSet(a .. a + n - 1)
        /\ Cardinality(a .. a + n - 1) = IF a > a + n - 1 THEN 0 ELSE (a + n - 1) - a + 1
    BY <2>2, FS_Interval
  <2> QED
    BY <2>1, <2>2, <2>3 DEF n
<1>3. Cardinality(Finished \cup Chars(t)) = Cardinality(Finished) + call[t].len - 0
  BY <1>1, <1>2, FinishedFinite, FS_Union, FS_EmptySet
<1> QED
  BY <1>2, <1>3, FinishedFinite, FS_CardinalityType

\* The text of a call fits behind the finished ones within what was issued.
LEMMA RoomLeft ==
    ASSUME IndInv, NEW t \in Active
    PROVE  Cardinality(Finished) + call[t].len <= issued
<1> USE DEF IndInv, TypeOK
<1>1. Finished \cup Chars(t) \subseteq 1 .. issued
  BY DEF Finished, RoomInv
<1>2. IsFiniteSet(1 .. issued) /\ Cardinality(1 .. issued) = IF 1 > issued THEN 0 ELSE issued - 1 + 1
  BY FS_Interval
<1>3. Cardinality(Finished \cup Chars(t)) <= Cardinality(1 .. issued)
  BY <1>1, <1>2, FS_Subset
<1>4. Cardinality(1 .. issued) = issued
  BY <1>2
<1> QED
  BY <1>3, <1>4, CharsCounted

\* The characters of a call that ends are added to the finished ones.
LEMMA AdvanceFinishes ==
    ASSUME IndInv, NEW t \in Loggers, Advance(t)
    PROVE  /\ Active' = Active \ {t} /\ t \in Active
           /\ \A u \in Active' : Chars(u)' = Chars(u)
           /\ Finished' = Finished \cup Chars(t)
           /\ Cardinality(Finished') = Cardinality(Finished) + call[t].len
<1> USE DEF IndInv, TypeOK
<1>1. \A u \in Loggers : u # t => pc'[u] = pc[u] /\ call'[u] = call[u]
  BY OneMoves DEF Advance
<1>2. Active' = Active \ {t} /\ t \in Active
  <2>1. pc[t] = "advance" /\ pc'[t] = "idle"
    BY OneMoves DEF Advance, PcInv
  <2> QED
    BY <1>1, <2>1 DEF Active
<1>3. \A u \in Active' : Chars(u)' = Chars(u)
  BY <1>1, <1>2 DEF Chars, Active
<1>4. issued' = issued /\ Chars(t) \subseteq 1 .. issued
  BY <1>2 DEF Advance, RoomInv
<1>5. Finished' = Finished \cup Chars(t)
  <2>1. \A i : (\A u \in Active' : i \notin Chars(u)') <=> (\A u \in Active \ {t} : i \notin Chars(u))
    BY <1>2, <1>3
  <2>2. \A u \in Active \ {t} : Chars(u) \cap Chars(t) = {}
    BY <1>2 DEF RoomInv
  <2> QED
    BY <1>2, <1>4, <2>1, <2>2 DEF Finished
<1> QED
  BY <1>2, <1>3, <1>5, CharsCounted

\* p_sp and every value read of it stay within what finished calls have written.
LEMMA RoomStep == IndInv /\ [Next]_vars => RoomInv'
<1> SUFFICES ASSUME IndInv, [Next]_vars PROVE RoomInv'
  OBVIOUS
<1> USE LogAssumption DEF IndInv, TypeOK
<1>0. ASSUME LogFrame PROVE RoomInv'
  <2>1. /\ Active' = Active /\ Finished' = Finished
        /\ \A u \in Loggers : Chars(u)' = Chars(u)
    BY <1>0, SameChars DEF LogFrame
  <2> QED
    BY <1>0, <2>1 DEF RoomInv, LogFrame, Active
<1>fin. Cardinality(Finished) \in Nat
  BY FinishedFinite
<1>1. ASSUME NEW t \in Loggers, NEW n \in Lengths, Enter(t, n) PROVE RoomInv'
  <2>1. /\ n \in Nat /\ pc[t] = "idle" /\ call[t] = NoCall /\ issued' = issued + n
        /\ p_sp' \in {0, p_sp}
    BY <1>1 DEF Enter, PcInv
  <2>2. \A u \in Loggers : u # t => pc'[u] = pc[u] /\ call'[u] = call[u]
    BY <1>1, OneMoves DEF Enter, PcInv
  <2>3. /\ pc'[t] = "sprintf" /\ call'[t].first = issued + 1 /\ call'[t].len = n
        /\ call'[t].base = 0
    BY <1>1, <2>1 DEF Enter, PcInv, NoCall
  <2>4. Active' = Active \cup {t} /\ t \notin Active
    BY <2>1, <2>2, <2>3 DEF Active
  <2>5. Chars(t)' = issued + 1 .. issued + n
    BY <2>1, <2>3 DEF Chars
  <2>6. \A u \in Active : Chars(u)' = Chars(u) /\ u # t
    BY <2>2, <2>4 DEF Chars, Active
  <2>7. \A u \in Active : Chars(u) \subseteq 1 .. issued
    BY DEF RoomInv
  <2>8. Finished' = Finished
    <3>1. \A i : (\A u \in Active' : i \notin Chars(u)') <=>
                 ((\A u \in Active : i \notin Chars(u)) /\ i \notin Chars(t)')
      BY <2>4, <2>6
    <3>2. \A i \in 1 .. issued' : i \notin Chars(t)' <=> i \in 1 .. issued
      BY <2>1, <2>5
    <3>3. 1 .. issued \subseteq 1 .. issued'
      BY <2>1
    <3> QED
      BY <3>1, <3>2, <3>3 DEF Finished
  <2>9. \A u \in Active' : call'[u].first \in Nat \ {0} /\ Chars(u)' \subseteq 1 .. issued'
    <3>1. 1 .. issued \subseteq 1 .. issued' /\ issued + 1 .. issued + n \subseteq 1 .. issued'
      BY <2>1
    <3> QED
      BY <2>2, <2>3, <2>4, <2>5, <2>6, <2>7, <3>1 DEF RoomInv, Active
  <2>10. \A u, v \in Active' : u # v => Chars(u)' \cap Chars(v)' = {}
    <3>1. \A u \in Active : Chars(u)' \cap Chars(t)' = {}
      <4>1. (1 .. issued) \cap (issued + 1 .. issued + n) = {}
        BY <2>1
      <4> QED
        BY <2>5, <2>6, <2>7, <4>1
    <3> QED
      BY <2>4, <2>6, <3>1 DEF RoomInv
  <2>11. \A u \in Loggers : /\ pc'[u] # "sprintf" => call'[u].to <= Cardinality(Finished)
                            /\ call'[u].base <= Cardinality(Finished)
    BY <1>fin, <2>2, <2>3 DEF RoomInv
  <2>12. p_sp' <= Cardinality(Finished)
    BY <1>fin, <2>1 DEF RoomInv
  <2> QED
    BY <2>8, <2>9, <2>10, <2>11, <2>12 DEF RoomInv
<1>2. ASSUME NEW t \in Loggers, CallSprintf(t) PROVE RoomInv'
  <2>1. \A u \in Loggers : u # t => pc'[u] = pc[u] /\ call'[u] = call[u]
    BY <1>2, OneMoves DEF CallSprintf, PcInv
  <2>2. /\ pc[t] = "sprintf" /\ pc'[t] = "write" /\ UNCHANGED <<issued, p_sp>>
        /\ call'[t].first = call[t].first /\ call'[t].len = call[t].len
        /\ call'[t].to = p_sp /\ call'[t].base \in {0, p_sp}
    BY <1>2 DEF CallSprintf, PcInv
  <2>3. /\ Active' = Active /\ Finished' = Finished
        /\ \A u \in Loggers : Chars(u)' = Chars(u)
    BY <2>1, <2>2, SameChars
  <2> QED
    BY <1>fin, <2>1, <2>2, <2>3 DEF RoomInv, Active
<1>3. ASSUME NEW t \in Loggers, WriteChar(t) PROVE RoomInv'
  <2>1. \A u \in Loggers : u # t => pc'[u] = pc[u] /\ call'[u] = call[u]
    BY <1>3, OneMoves DEF WriteChar, PcInv
  <2>2. /\ pc[t] = "write" /\ pc'[t] \in {"write", "operand", "advance"}
        /\ UNCHANGED <<issued, p_sp>>
        /\ call'[t].first = call[t].first /\ call'[t].len = call[t].len
        /\ call'[t].to = call[t].to /\ call'[t].base = call[t].base
    BY <1>3 DEF WriteChar, PcInv
  <2>3. /\ Active' = Active /\ Finished' = Finished
        /\ \A u \in Loggers : Chars(u)' = Chars(u)
    BY <2>1, <2>2, SameChars
  <2> QED
    BY <1>fin, <2>1, <2>2, <2>3 DEF RoomInv, Active
<1>4. ASSUME NEW t \in Loggers, ReadOperand(t) PROVE RoomInv'
  <2>1. \A u \in Loggers : u # t => pc'[u] = pc[u] /\ call'[u] = call[u]
    BY <1>4, OneMoves DEF ReadOperand, PcInv
  <2>2. /\ pc[t] = "operand" /\ pc'[t] = "advance" /\ UNCHANGED <<issued, p_sp>>
        /\ call'[t].first = call[t].first /\ call'[t].len = call[t].len
        /\ call'[t].to = call[t].to /\ call'[t].base = p_sp
    BY <1>4 DEF ReadOperand, PcInv
  <2>3. /\ Active' = Active /\ Finished' = Finished
        /\ \A u \in Loggers : Chars(u)' = Chars(u)
    BY <2>1, <2>2, SameChars
  <2> QED
    BY <1>fin, <2>1, <2>2, <2>3 DEF RoomInv, Active
<1>5. ASSUME NEW t \in Loggers, Advance(t) PROVE RoomInv'
  <2>1. /\ \A u \in Loggers : u # t => pc'[u] = pc[u] /\ call'[u] = call[u]
        /\ issued' = issued /\ p_sp' = call[t].base + call[t].len
        /\ call'[t].to = 0 /\ call'[t].base = 0
    BY <1>5, OneMoves DEF Advance, PcInv, NoCall
  <2>2. /\ Active' = Active \ {t} /\ t \in Active
        /\ \A u \in Active' : Chars(u)' = Chars(u)
        /\ Cardinality(Finished') = Cardinality(Finished) + call[t].len
    BY <1>5, AdvanceFinishes
  <2>3. /\ \A u \in Active' : call'[u].first \in Nat \ {0} /\ Chars(u)' \subseteq 1 .. issued'
        /\ \A u, v \in Active' : u # v => Chars(u)' \cap Chars(v)' = {}
    BY <2>1, <2>2 DEF RoomInv, Active
  <2>4. p_sp' <= Cardinality(Finished')
    BY <1>fin, <2>1, <2>2 DEF RoomInv
  <2>5. \A u \in Loggers : /\ pc'[u] # "sprintf" => call'[u].to <= Cardinality(Finished')
                           /\ call'[u].base <= Cardinality(Finished')
    BY <1>fin, <2>1, <2>2 DEF RoomInv
  <2> QED
    BY <2>3, <2>4, <2>5 DEF RoomInv
<1>6. ASSUME NEW r \in Readers, ReaderStep(r) PROVE RoomInv'
  BY <1>0, <1>6, ReaderFrame
<1>7. CASE UNCHANGED vars
  BY <1>0, <1>7 DEF vars, LogFrame
<1> QED
  BY <1>1, <1>2, <1>3, <1>4, <1>5, <1>6, <1>7 DEF Next, LoggerStep

\* A write behind the buffer is one of text that does not fit.
LEMMA OverrunStep == IndInv /\ [Next]_vars => OverrunOnlyWhenFull'
<1> SUFFICES ASSUME IndInv, [Next]_vars PROVE OverrunOnlyWhenFull'
  OBVIOUS
<1> USE LogAssumption DEF IndInv, TypeOK, OverrunOnlyWhenFull
<1>0. ASSUME LogFrame PROVE OverrunOnlyWhenFull'
  BY <1>0 DEF LogFrame
<1>1. ASSUME NEW t \in Loggers, NEW n \in Lengths, Enter(t, n) PROVE OverrunOnlyWhenFull'
  BY <1>1 DEF Enter
<1>2. ASSUME NEW t \in Loggers, CallSprintf(t) PROVE OverrunOnlyWhenFull'
  BY <1>2 DEF CallSprintf
<1>3. ASSUME NEW t \in Loggers, WriteChar(t) PROVE OverrunOnlyWhenFull'
  <2>1. /\ pc[t] = "write" /\ issued' = issued
        /\ overrun' => call[t].to + call[t].done >= Size
    BY <1>3 DEF WriteChar
  <2>2. call[t].to <= Cardinality(Finished) /\ t \in Active
    BY <2>1 DEF RoomInv, Active
  <2>3. Cardinality(Finished) + call[t].len <= issued
    BY <2>2, RoomLeft
  <2>4. call[t].done <= call[t].len /\ call[t].done \in Nat /\ call[t].len \in Nat /\ call[t].to \in Nat
    OBVIOUS
  <2> QED
    BY <2>1, <2>2, <2>3, <2>4, FinishedFinite
<1>4. ASSUME NEW t \in Loggers, ReadOperand(t) PROVE OverrunOnlyWhenFull'
  BY <1>4 DEF ReadOperand
<1>5. ASSUME NEW t \in Loggers, Advance(t) PROVE OverrunOnlyWhenFull'
  BY <1>5 DEF Advance
<1>6. ASSUME NEW r \in Readers, ReaderStep(r) PROVE OverrunOnlyWhenFull'
  BY <1>0, <1>6, ReaderFrame
<1>7. CASE UNCHANGED vars
  BY <1>0, <1>7 DEF vars, LogFrame
<1> QED
  BY <1>1, <1>2, <1>3, <1>4, <1>5, <1>6, <1>7 DEF Next, LoggerStep

\* While calls do not overlap, each appends its text to a log in order.
LEMMA SeqStep == IndInv /\ [Next]_vars => SeqInv'
<1> SUFFICES ASSUME IndInv, [Next]_vars, ~overlap', ~overrun' PROVE SeqInv'
  BY DEF SeqInv
<1> USE LogAssumption DEF IndInv, TypeOK
<1>0. ASSUME LogFrame PROVE SeqInv'
  <2>1. Active' = Active /\ \A u \in Active : u \in Loggers
    BY <1>0 DEF LogFrame, Active
  <2> QED
    BY <1>0, <2>1 DEF LogFrame, SeqInv, LogIs
<1>1. ASSUME NEW t \in Loggers, NEW n \in Lengths, Enter(t, n) PROVE SeqInv'
  <2>1. /\ pc[t] = "idle" /\ call[t] = NoCall /\ n \in Nat /\ ~overlap /\ ~overrun
        /\ \A u \in Loggers \ {t} : pc[u] = "idle"
    BY <1>1 DEF Enter, PcInv
  <2>2. Active = {}
    BY <2>1 DEF Active
  <2>3. issued = p_sp /\ p_sp < Size /\ LogIs(p_sp)
    BY <2>1, <2>2 DEF SeqInv
  <2>4. /\ p_sp' = p_sp /\ issued' = p_sp + n /\ logbuff' = logbuff
        /\ call'[t].first = p_sp + 1 /\ call'[t].len = n /\ call'[t].done = 0
    BY <1>1, <2>1, <2>3 DEF Enter, NoCall
  <2>5. pc'[t] = "sprintf" /\ Active' = {t}
    <3>1. pc'[t] = "sprintf" /\ \A u \in Loggers : u # t => pc'[u] = "idle"
      BY <1>1, <2>1, OneMoves DEF Enter
    <3> QED
      BY <3>1 DEF Active
  <2>6. p_sp' + call'[t].done = p_sp /\ LogIs(p_sp)'
    BY <2>3, <2>4 DEF LogIs
  <2>7. LogIs(p_sp + call[t].done)'
    BY <2>4, <2>6 DEF LogIs
  <2> QED
    BY <2>3, <2>4, <2>5, <2>6, <2>7 DEF SeqInv
<1>2. ASSUME NEW t \in Loggers, CallSprintf(t) PROVE SeqInv'
  <2>1. /\ t \in Active /\ ~overlap /\ ~overrun /\ pc[t] = "sprintf" /\ pc'[t] = "write"
        /\ UNCHANGED <<logbuff, p_sp, issued>>
        /\ call'[t].to = p_sp /\ (call'[t].early => call'[t].base = p_sp)
        /\ call'[t].first = call[t].first /\ call'[t].len = call[t].len
        /\ call'[t].done = call[t].done
    BY <1>2 DEF CallSprintf, Active, PcInv
  <2>2. Active' = Active /\ Active = {t}
    BY <1>2, <2>1, OneMoves DEF CallSprintf, Active, SeqInv
  <2> QED
    BY <2>1, <2>2 DEF SeqInv, LogIs
<1>3. ASSUME NEW t \in Loggers, WriteChar(t) PROVE SeqInv'
  <2> DEFINE c == call[t]
             at == c.to + c.done
             char == IF c.done < c.len THEN c.first + c.done ELSE 0
  <2>1. /\ t \in Active /\ ~overlap /\ ~overrun /\ pc[t] = "write" /\ ~(at >= Size)
        /\ UNCHANGED <<p_sp, issued>>
        /\ logbuff' = [logbuff EXCEPT ![at] = char]
    BY <1>3 DEF WriteChar, Active
  <2>2. /\ c.to = p_sp /\ c.first = p_sp + 1 /\ issued = p_sp + c.len
        /\ LogIs(p_sp + c.done) /\ (c.early => c.base = p_sp) /\ p_sp < Size
        /\ c.done \in Nat /\ c.len \in Nat /\ c.done <= c.len
        /\ Active = {t}
    BY <2>1 DEF SeqInv, Active
  <2>3. \A u \in Loggers : u # t => pc'[u] = pc[u]
    BY <1>3, OneMoves DEF WriteChar
  <2>4. at \in Places /\ at = p_sp + c.done
    BY <2>1, <2>2 DEF Places
  <2>5. CASE c.done < c.len
    <3>1. /\ char = at + 1 /\ char # 0 /\ pc' = pc
          /\ call' = [call EXCEPT ![t].done = @ + 1]
      BY <1>3, <2>2, <2>4, <2>5 DEF WriteChar
    <3>2. /\ call'[t].done = c.done + 1 /\ call'[t].first = c.first /\ call'[t].len = c.len
          /\ call'[t].to = c.to /\ call'[t].early = c.early /\ call'[t].base = c.base
      BY <3>1
    <3>3. Active' = {t}
      BY <2>2, <3>1 DEF Active
    <3>4. \A j \in Places : logbuff'[j] = IF j < at + 1 THEN j + 1 ELSE 0
      <4> HIDE DEF char
      <4> SUFFICES ASSUME NEW j \in Places
                   PROVE  logbuff'[j] = IF j < at + 1 THEN j + 1 ELSE 0
        OBVIOUS
      <4>1. CASE j = at
        BY <2>1, <2>4, <3>1, <4>1 DEF Places
      <4>2. CASE j # at
        <5>1. logbuff'[j] = logbuff[j] /\ logbuff[j] = IF j < at THEN j + 1 ELSE 0
          BY <2>1, <2>2, <2>4, <4>2 DEF LogIs
        <5> QED
          BY <2>4, <4>2, <5>1 DEF Places
      <4> QED
        BY <4>1, <4>2
    <3>5. /\ p_sp' + call'[t].done <= Size
          /\ LogIs(p_sp + call[t].done)'
      <4>1. p_sp' + call'[t].done = at + 1
        BY <2>1, <2>2, <2>4, <3>2
      <4>2. at + 1 <= Size
        BY <2>4 DEF Places
      <4> QED
        BY <3>4, <4>1, <4>2 DEF LogIs
    <3> QED
      BY <2>1, <2>2, <3>1, <3>2, <3>3, <3>5 DEF SeqInv
  <2>6. CASE ~(c.done < c.len)
    <3>1. /\ char = 0 /\ call' = call /\ pc'[t] = IF c.early THEN "advance" ELSE "operand"
      BY <1>3, <2>6 DEF WriteChar, PcInv
    <3>2. c.done = c.len /\ issued < Size
      <4>1. c.done = c.len
        BY <2>2, <2>6
      <4>2. issued = at
        BY <2>2, <2>4, <4>1
      <4> QED
        BY <2>4, <4>1, <4>2 DEF Places
    <3>3. Active' = {t}
      BY <2>2, <2>3, <3>1 DEF Active
    <3>4. \A j \in Places : logbuff'[j] = IF j < at THEN j + 1 ELSE 0
      <4> HIDE DEF char
      <4> SUFFICES ASSUME NEW j \in Places
                   PROVE  logbuff'[j] = IF j < at THEN j + 1 ELSE 0
        OBVIOUS
      <4>1. CASE j = at
        BY <2>1, <2>4, <3>1, <4>1 DEF Places
      <4>2. CASE j # at
        BY <2>1, <2>2, <2>4, <4>2 DEF LogIs
      <4> QED
        BY <4>1, <4>2
    <3>5. /\ p_sp' + call'[t].done = at /\ p_sp' + call'[t].done <= Size
          /\ LogIs(p_sp + call[t].done)'
      BY <2>1, <2>2, <2>4, <3>1, <3>2, <3>4 DEF LogIs
    <3> QED
      BY <2>1, <2>2, <3>1, <3>2, <3>3, <3>5 DEF SeqInv
  <2> QED
    BY <2>5, <2>6
<1>4. ASSUME NEW t \in Loggers, ReadOperand(t) PROVE SeqInv'
  <2>1. /\ t \in Active /\ ~overlap /\ ~overrun /\ pc[t] = "operand" /\ pc'[t] = "advance"
        /\ UNCHANGED <<logbuff, p_sp, issued>>
        /\ call'[t].base = p_sp
        /\ call'[t].first = call[t].first /\ call'[t].len = call[t].len
        /\ call'[t].done = call[t].done
    BY <1>4 DEF ReadOperand, Active, PcInv
  <2>2. Active' = Active /\ Active = {t}
    BY <1>4, <2>1, OneMoves DEF ReadOperand, Active, SeqInv
  <2> QED
    BY <2>1, <2>2 DEF SeqInv, LogIs
<1>5. ASSUME NEW t \in Loggers, Advance(t) PROVE SeqInv'
  <2>1. /\ t \in Active /\ ~overlap /\ ~overrun /\ pc[t] = "advance"
        /\ UNCHANGED <<logbuff, issued>> /\ p_sp' = call[t].base + call[t].len
    BY <1>5 DEF Advance, Active
  <2>2. /\ Active = {t} /\ issued = p_sp + call[t].len /\ issued < Size
        /\ call[t].done = call[t].len /\ call[t].base = p_sp /\ LogIs(p_sp + call[t].done)
    BY <2>1 DEF SeqInv
  <2>3. Active' = {}
    BY <1>5, <2>2, AdvanceFinishes
  <2>4. p_sp' = issued /\ LogIs(p_sp)'
    BY <2>1, <2>2 DEF LogIs
  <2> QED
    BY <2>1, <2>2, <2>3, <2>4 DEF SeqInv
<1>6. ASSUME NEW r \in Readers, ReaderStep(r) PROVE SeqInv'
  BY <1>0, <1>6, ReaderFrame
<1>7. CASE UNCHANGED vars
  BY <1>0, <1>7 DEF vars, LogFrame
<1> QED
  BY <1>1, <1>2, <1>3, <1>4, <1>5, <1>6, <1>7 DEF Next, LoggerStep

\* What is covered stays so as long as what a request has in hand stays there or is
\* shown.
LEMMA CoveredStays ==
    ASSUME shown \subseteq shown', NEW n \in Nat, Covered(n),
           \A i \in 1 .. n : \A u \in Readers : InHand(u, i) => InHand(u, i)' \/ i \in shown'
    PROVE  Covered(n)'
  BY DEF Covered

\* The cursors stay within the text, and what is behind them stays covered.
LEMMA CursorStep == IndInv /\ [Next]_vars => CursorInv'
<1> SUFFICES ASSUME IndInv, [Next]_vars, ~overlap' PROVE CursorInv'
  BY DEF CursorInv
<1> USE LogAssumption DEF IndInv, TypeOK
<1>0. ASSUME ~overlap, UNCHANGED <<xp, req, shown>>, \A r \in Readers : pc'[r] = pc[r],
             p_sp' \in Nat, p_sp' >= p_sp
      PROVE  CursorInv'
  <2>1. \A n \in Nat : Covered(n) => Covered(n)'
    BY <1>0, CoveredStays DEF InHand
  <2>2. xp <= p_sp' /\ \A r \in Readers : req[r].from <= p_sp' /\ req[r].sp <= p_sp'
    BY <1>0 DEF CursorInv
  <2>3. Covered(xp)' /\ \A r \in Readers : pc'[r] # "idle" => Covered(req[r].from)'
    <3>1. xp' = xp /\ Covered(xp)
      BY <1>0 DEF CursorInv
    <3>2. Covered(xp)'
      BY <2>1, <3>1 DEF Covered
    <3>3. ASSUME NEW r \in Readers, pc'[r] # "idle" PROVE Covered(req[r].from)'
      <4>1. req'[r].from = req[r].from /\ Covered(req[r].from) /\ req[r].from \in Nat
        BY <1>0, <3>3 DEF CursorInv
      <4> QED
        BY <2>1, <4>1 DEF Covered
    <3> QED
      BY <3>2, <3>3
  <2> QED
    BY <1>0, <2>2, <2>3 DEF CursorInv
<1>t. TypeOK'
  BY TypeStep
<1>1. ASSUME NEW t \in Loggers, NEW n \in Lengths, Enter(t, n) PROVE CursorInv'
  <2>1. ~overlap /\ ~overrun /\ \A u \in Loggers : pc[u] = "idle"
    BY <1>1 DEF Enter
  <2>2. p_sp < Size
    BY <2>1 DEF SeqInv, Active
  <2>3. p_sp' = p_sp
    BY <1>1, <2>2 DEF Enter
  <2> QED
    BY <1>1, <1>0, <2>1, <2>3, OneMoves DEF Enter
<1>2. ASSUME NEW t \in Loggers, CallSprintf(t) PROVE CursorInv'
  BY <1>2, <1>0, OneMoves DEF CallSprintf
<1>3. ASSUME NEW t \in Loggers, WriteChar(t) PROVE CursorInv'
  <2>1. \A r \in Readers : pc'[r] = pc[r]
    BY <1>3, LogAssumption DEF WriteChar, PcInv
  <2>2. ~overlap /\ UNCHANGED <<xp, req, shown, p_sp>>
    BY <1>3 DEF WriteChar
  <2> QED
    BY <1>0, <2>1, <2>2
<1>4. ASSUME NEW t \in Loggers, ReadOperand(t) PROVE CursorInv'
  BY <1>4, <1>0, OneMoves DEF ReadOperand
<1>5. ASSUME NEW t \in Loggers, Advance(t) PROVE CursorInv'
  <2>1. ~overlap /\ ~overrun /\ t \in Active /\ pc[t] = "advance"
    BY <1>5 DEF Advance, Active
  <2>2. p_sp' = p_sp + call[t].len /\ call[t].len \in Nat
    BY <1>5, <2>1 DEF Advance, SeqInv
  <2> QED
    BY <1>5, <1>0, <2>1, <2>2, OneMoves DEF Advance
<1>6. ASSUME NEW r \in Readers, QueryCleanLog(r) PROVE CursorInv'
  <2>1. /\ ~overlap /\ UNCHANGED <<xp, shown, p_sp>> /\ pc[r] = "idle" /\ pc'[r] = "store"
        /\ req'[r].from = 0 /\ req'[r].sp = p_sp
        /\ \A u \in Readers : u # r => pc'[u] = pc[u] /\ req'[u] = req[u]
    BY <1>6, OneMoves DEF QueryCleanLog
  <2>2. \A n \in Nat : Covered(n) => Covered(n)'
    BY <2>1, CoveredStays DEF InHand
  <2>3. Covered(xp)'
    <3>1. xp' = xp /\ Covered(xp)
      BY <2>1 DEF CursorInv
    <3> QED
      BY <2>2, <3>1 DEF Covered
  <2>4. ASSUME NEW u \in Readers, pc'[u] # "idle" PROVE Covered(req[u].from)'
    <3>1. CASE u = r
      BY <2>1, <3>1 DEF Covered
    <3>2. CASE u # r
      <4>1. req'[u].from = req[u].from /\ Covered(req[u].from) /\ req[u].from \in Nat
        BY <2>1, <2>4, <3>2 DEF CursorInv
      <4> QED
        BY <2>2, <4>1 DEF Covered
    <3> QED
      BY <3>1, <3>2
  <2>5. \A u \in Readers : req'[u].from <= p_sp' /\ req'[u].sp <= p_sp'
    BY <2>1 DEF CursorInv
  <2> QED
    BY <2>1, <2>3, <2>4, <2>5 DEF CursorInv
<1>7. ASSUME NEW r \in Readers, QueryLog(r) PROVE CursorInv'
  <2>1. /\ ~overlap /\ UNCHANGED <<xp, shown, p_sp>> /\ pc[r] = "idle" /\ pc'[r] = "load"
        /\ req'[r].from = xp /\ req'[r].sp = req[r].sp
        /\ \A u \in Readers : u # r => pc'[u] = pc[u] /\ req'[u] = req[u]
    <3>1. pc'[r] = "load" /\ \A u \in Readers : u # r => pc'[u] = pc[u]
      BY <1>7, OneMoves DEF QueryLog
    <3>2. req'[r].from = xp /\ req'[r].sp = req[r].sp
      BY <1>7 DEF QueryLog
    <3> QED
      BY <1>7, <3>1, <3>2 DEF QueryLog
  <2>2. \A n \in Nat : Covered(n) => Covered(n)'
    BY <2>1, CoveredStays DEF InHand
  <2>3. Covered(xp)'
    <3>1. xp' = xp /\ Covered(xp)
      BY <2>1 DEF CursorInv
    <3> QED
      BY <2>2, <3>1 DEF Covered
  <2>4. ASSUME NEW u \in Readers, pc'[u] # "idle" PROVE Covered(req[u].from)'
    <3>1. CASE u = r
      BY <2>1, <2>3, <3>1 DEF Covered
    <3>2. CASE u # r
      <4>1. req'[u].from = req[u].from /\ Covered(req[u].from) /\ req[u].from \in Nat
        BY <2>1, <2>4, <3>2 DEF CursorInv
      <4> QED
        BY <2>2, <4>1 DEF Covered
    <3> QED
      BY <3>1, <3>2
  <2>5. \A u \in Readers : req'[u].from <= p_sp' /\ req'[u].sp <= p_sp'
    BY <2>1 DEF CursorInv
  <2>6. xp' <= p_sp'
    BY <2>1 DEF CursorInv
  <2> QED
    BY <2>3, <2>4, <2>5, <2>6 DEF CursorInv
<1>8. ASSUME NEW r \in Readers, LoadSp(r) PROVE CursorInv'
  <2>1. /\ ~overlap /\ UNCHANGED <<xp, shown, p_sp>> /\ pc[r] = "load" /\ pc'[r] = "store"
        /\ req'[r].from = req[r].from /\ req'[r].sp = p_sp
        /\ \A u \in Readers : u # r => pc'[u] = pc[u] /\ req'[u] = req[u]
    <3>1. pc'[r] = "store" /\ \A u \in Readers : u # r => pc'[u] = pc[u]
      BY <1>8, OneMoves DEF LoadSp
    <3>2. req'[r].from = req[r].from /\ req'[r].sp = p_sp
      BY <1>8 DEF LoadSp
    <3> QED
      BY <1>8, <3>1, <3>2 DEF LoadSp
  <2>2. \A n \in Nat : Covered(n) => Covered(n)'
    BY <2>1, CoveredStays DEF InHand
  <2>3. Covered(xp)'
    <3>1. xp' = xp /\ Covered(xp)
      BY <2>1 DEF CursorInv
    <3> QED
      BY <2>2, <3>1 DEF Covered
  <2>4. ASSUME NEW u \in Readers, pc'[u] # "idle" PROVE Covered(req[u].from)'
    <3>1. req'[u].from = req[u].from /\ Covered(req[u].from) /\ req[u].from \in Nat
      BY <2>1, <2>4 DEF CursorInv
    <3> QED
      BY <2>2, <3>1 DEF Covered
  <2>5. \A u \in Readers : req'[u].from <= p_sp' /\ req'[u].sp <= p_sp'
    BY <2>1 DEF CursorInv
  <2>6. xp' <= p_sp'
    BY <2>1 DEF CursorInv
  <2> QED
    BY <2>3, <2>4, <2>5, <2>6 DEF CursorInv
<1>9. ASSUME NEW r \in Readers, StoreXp(r) PROVE CursorInv'
  <2>1. /\ ~overlap /\ UNCHANGED <<req, shown, p_sp>> /\ pc[r] = "store" /\ pc'[r] = "copy"
        /\ xp' = req[r].sp
        /\ \A u \in Readers : u # r => pc'[u] = pc[u]
    BY <1>9, OneMoves DEF StoreXp
  <2>2. \A n \in Nat : Covered(n) => Covered(n)'
    BY <2>1, CoveredStays DEF InHand
  <2>3. ASSUME NEW u \in Readers, pc'[u] # "idle" PROVE Covered(req[u].from)'
    <3>1. req'[u].from = req[u].from /\ Covered(req[u].from) /\ req[u].from \in Nat
      BY <2>1, <2>3 DEF CursorInv
    <3> QED
      BY <2>2, <3>1 DEF Covered
  <2>4. Covered(xp)'
    <3> SUFFICES ASSUME NEW i \in 1 .. xp'
                 PROVE  i \in shown' \/ \E u \in Readers : InHand(u, i)'
      BY DEF Covered
    <3>1. CASE i <= req[r].from
      <4>1. i \in 1 .. req'[r].from
        BY <2>1, <3>1
      <4> QED
        BY <2>1, <2>3, <4>1 DEF Covered
    <3>2. CASE ~(i <= req[r].from)
      <4>1. InHand(r, i)'
        BY <2>1, <3>2 DEF InHand
      <4> QED
        BY <4>1
    <3> QED
      BY <3>1, <3>2
  <2>5. xp' <= p_sp' /\ \A u \in Readers : req'[u].from <= p_sp' /\ req'[u].sp <= p_sp'
    BY <2>1 DEF CursorInv
  <2> QED
    BY <2>3, <2>4, <2>5 DEF CursorInv
<1>10. ASSUME NEW r \in Readers, Copy(r) PROVE CursorInv'
  <2>1. /\ ~overlap /\ ~overrun /\ UNCHANGED <<xp, p_sp>> /\ pc'[r] = "idle"
        /\ shown' = shown \cup Text(req[r].from)
        /\ req'[r].from = 0 /\ req'[r].sp = 0
        /\ \A u \in Readers : u # r => pc'[u] = pc[u] /\ req'[u] = req[u]
    BY <1>10, OneMoves DEF Copy, NoReq
  <2>2. req[r].from \in Nat /\ req[r].from <= p_sp
    BY <2>1 DEF CursorInv
  <2>3. PICK m \in Nat : p_sp <= m /\ Text(req[r].from) = req[r].from + 1 .. m
    BY <2>1, <2>2, CopyGets
  <2>4. ASSUME NEW n \in Nat, n <= p_sp, Covered(n) PROVE Covered(n)'
    <3>1. \A i \in 1 .. n : \A u \in Readers : InHand(u, i) => InHand(u, i)' \/ i \in shown'
      <4> SUFFICES ASSUME NEW i \in 1 .. n, NEW u \in Readers, InHand(u, i)
                   PROVE  InHand(u, i)' \/ i \in shown'
        OBVIOUS
      <4>1. CASE u = r
        <5>1. req[r].from < i
          BY <4>1 DEF InHand
        <5>2. i \in req[r].from + 1 .. m
          BY <2>2, <2>3, <2>4, <5>1
        <5> QED
          BY <2>1, <2>3, <5>2
      <4>2. CASE u # r
        BY <2>1, <4>2 DEF InHand
      <4> QED
        BY <4>1, <4>2
    <3> QED
      BY <2>1, <2>4, <3>1, CoveredStays
  <2>5. Covered(xp)'
    <3>1. xp' = xp /\ Covered(xp) /\ xp <= p_sp
      BY <2>1 DEF CursorInv
    <3> QED
      BY <2>4, <3>1 DEF Covered
  <2>6. ASSUME NEW u \in Readers, pc'[u] # "idle" PROVE Covered(req[u].from)'
    <3>1. /\ req'[u].from = req[u].from /\ Covered(req[u].from)
          /\ req[u].from \in Nat /\ req[u].from <= p_sp
      BY <2>1, <2>6 DEF CursorInv
    <3> QED
      BY <2>4, <3>1 DEF Covered
  <2>7. xp' <= p_sp' /\ \A u \in Readers : req'[u].from <= p_sp' /\ req'[u].sp <= p_sp'
    BY <2>1 DEF CursorInv
  <2> QED
    BY <2>5, <2>6, <2>7 DEF CursorInv
<1>11. CASE UNCHANGED vars
  BY <1>11, <1>0 DEF vars
<1> QED
  BY <1>1, <1>2, <1>3, <1>4, <1>5, <1>6, <1>7, <1>8, <1>9, <1>10, <1>11
     DEF Next, LoggerStep, ReaderStep

-----------------------------------------------------------------------------

\* The invariant holds in every reachable state.
THEOREM Invariance == Spec => []IndInv
<1>1. IndInv /\ [Next]_vars => IndInv'
  BY TypeStep, PcStep, RoomStep, SeqStep, CursorStep, OverrunStep DEF IndInv
<1> QED
  BY InitInd, <1>1, PTL DEF Spec

\* The variables keep their types; in particular an answer only has characters that
\* were logged.
THEOREM TypeCorrect == Spec => []TypeOK
<1>1. IndInv => TypeOK
  BY DEF IndInv
<1> QED
  BY Invariance, <1>1, PTL

\* Nothing is written behind the buffer before the text itself does not fit, however
\* calls of LOG_ORIG race.
THEOREM OverrunNeedsText == Spec => []OverrunOnlyWhenFull
<1>1. IndInv => OverrunOnlyWhenFull
  BY DEF IndInv
<1> QED
  BY Invariance, <1>1, PTL

\* The cursor all connections share skips no text.
THEOREM NothingLost == Spec => []NothingSkipped
<1>1. IndInv => NothingSkipped
  BY DEF IndInv, CursorInv, Covered, NothingSkipped
<1> QED
  BY Invariance, <1>1, PTL

\* A request for the whole log gets all that was logged when it was handled.
THEOREM WholeLog == Spec => FullLogComplete
<1>1. IndInv /\ [Next]_vars =>
        [\A r \in Readers :
            Copy(r) /\ req[r].from = 0 /\ ~overlap => (1 .. req[r].sp) \subseteq shown']_vars
  <2> SUFFICES ASSUME IndInv, NEW r \in Readers, Copy(r), req[r].from = 0, ~overlap
               PROVE  (1 .. req[r].sp) \subseteq shown'
    OBVIOUS
  <2>1. p_sp \in Nat /\ req[r].sp \in Nat /\ req[r].sp <= p_sp
    BY DEF IndInv, TypeOK, CursorInv
  <2>2. PICK n \in Nat : p_sp <= n /\ Text(0) = 0 + 1 .. n
    BY <2>1, CopyGets DEF Copy
  <2>3. shown' = shown \cup Text(0)
    BY DEF Copy
  <2> QED
    BY <2>1, <2>2, <2>3
<1>2. Spec => [][Next]_vars
  BY PTL DEF Spec
<1> QED
  BY Invariance, <1>1, <1>2, PTL DEF FullLogComplete

=============================================================================
