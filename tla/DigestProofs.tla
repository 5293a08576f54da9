---------------------------- MODULE DigestProofs ----------------------------
(***************************************************************************)
(* Proofs about Digest, for any page, any promises, any sequence of calls  *)
(* of the page's code and any number of digests: first the promises and    *)
(* their tasks, then the tree of scopes, the counts of watchers and where  *)
(* the digest goes, and last the order in which it visits the scopes and   *)
(* why it may stop where it does.                                          *)
(***************************************************************************)
EXTENDS Digest, SequenceTheorems, FiniteSetTheorems, TLAPS

Entries == [kind : {"then", "adopt"}, res : Derived, on : SUBSET {1, 2}]
Tasks == {PlainTask} \cup {ProcessTask(p) : p \in Promises}
PromiseType == [status : {-1, 0, 1, 2}, pending : Seq(Entries), scheduled : BOOLEAN, used : BOOLEAN]

\* What the variables are that promises depend on.
QueueType ==
    /\ promise \in [Promises -> PromiseType]
    /\ asyncQueue \in Seq(Tasks)
    /\ {"p", "list"} \subseteq DOMAIN proc
    /\ proc.list \in Seq(Entries)
    /\ proc.list # <<>> => proc.p \in Promises
    /\ {"entered", "ran"} \subseteq DOMAIN hist
    /\ hist.entered \in [Promises -> Seq(Entries)]
    /\ hist.ran \in [Promises -> Seq(Entries)]
    /\ "pos" \in DOMAIN dig
    /\ dig.pos \in Nat
    /\ busy \in BOOLEAN

\* The task the digest is in is the one at its position; outside of the loop over
\* tasks there is none.
ControlInv ==
    /\ at # "async" => dig.pos = 0 /\ proc.list = <<>>
    /\ at = "check" => ~busy
    /\ dig.pos <= Len(asyncQueue)
    /\ at = "async" /\ busy /\ proc.list = <<>> =>
          dig.pos < Len(asyncQueue) /\ asyncQueue[dig.pos + 1] = PlainTask
    /\ proc.list # <<>> => dig.pos < Len(asyncQueue)

\* An entry nobody has gone through yet: the promise it is to settle is in use and not settled.
Waiting(e) == promise[e.res].used /\ promise[e.res].status <= 0

\* The pending entries of all promises.
Pending == [p \in Promises |-> promise[p].pending]
Bags == [Promises -> Seq(Entries)]

\* The entries nobody has gone through, of pending entries f and a list l.
Outstanding(f, l) ==
    {x \in Entries : \/ \E p \in Promises : \E i \in 1 .. Len(f[p]) : f[p][i] = x
                     \/ \E i \in 1 .. Len(l) : l[i] = x}

\* No two of them are to settle the same promise.
Apart(f, l) ==
    /\ \A p, q \in Promises : \A i \in 1 .. Len(f[p]) : \A j \in 1 .. Len(f[q]) :
          f[p][i].res = f[q][j].res => p = q /\ i = j
    /\ \A i, j \in 1 .. Len(l) : l[i].res = l[j].res => i = j
    /\ \A p \in Promises : \A i \in 1 .. Len(f[p]) : \A j \in 1 .. Len(l) : f[p][i].res # l[j].res

EntriesInv ==
    /\ \A r \in Derived : ~promise[r].used => promise[r].status = 0
    /\ \A e \in Outstanding(Pending, proc.list) : Waiting(e)
    /\ Apart(Pending, proc.list)

\* The part of a promise's entries that processQueue holds.
Held(p) == IF proc.p = p THEN proc.list ELSE <<>>

\* What was registered has run, is being gone through, or is pending, in this order.
OrderInv ==
    \A p \in Promises : hist.entered[p] = (hist.ran[p] \o Held(p)) \o promise[p].pending

\* The tasks before this position are over or under way.
Begun == IF proc.list = <<>> THEN dig.pos ELSE dig.pos + 1

\* Entries of a settled promise are waiting for a task that is still to come.
TaskInv ==
    \A p \in Promises :
        /\ promise[p].status > 0 /\ promise[p].pending # <<>> => promise[p].scheduled
        /\ promise[p].scheduled =>
              \E i \in 1 .. Len(asyncQueue) : i > Begun /\ asyncQueue[i] = ProcessTask(p)

\* Entries are gone through only after their promise is settled.
SettledInv ==
    /\ \A i \in 1 .. Len(asyncQueue) : \A p \in Promises :
          asyncQueue[i] = ProcessTask(p) => promise[p].status > 0
    /\ proc.list # <<>> => promise[proc.p].status > 0
    /\ \A p \in Promises : hist.ran[p] # <<>> => promise[p].status > 0

\* The inductive invariant.
IndInv ==
    QueueType /\ ControlInv /\ EntriesInv /\ OrderInv /\ TaskInv /\ SettledInv

-----------------------------------------------------------------------------

USE DEF engine, page

\* What Append does, element by element.
LEMMA AppendFacts ==
    ASSUME NEW S, NEW s \in Seq(S), NEW x \in S
    PROVE  /\ Append(s, x) \in Seq(S)
           /\ Len(Append(s, x)) = Len(s) + 1
           /\ Append(s, x) # <<>>
           /\ \A n \in 1 .. Len(s) : Append(s, x)[n] = s[n]
           /\ Append(s, x)[Len(s) + 1] = x
  OBVIOUS

\* What Head and Tail do, element by element.
LEMMA TailFacts ==
    ASSUME NEW S, NEW s \in Seq(S), s # <<>>
    PROVE  /\ Tail(s) \in Seq(S)
           /\ Head(s) \in S
           /\ Head(s) = s[1]
           /\ Len(s) \in Nat \ {0}
           /\ Len(Tail(s)) = Len(s) - 1
           /\ \A n \in 1 .. Len(Tail(s)) : n + 1 \in 1 .. Len(s) /\ Tail(s)[n] = s[n + 1]
  OBVIOUS

\* A sequence is not empty if and only if it has an element.
LEMMA EmptyFacts ==
    ASSUME NEW S, NEW s \in Seq(S)
    PROVE  /\ Len(s) \in Nat
           /\ s = <<>> <=> Len(s) = 0
           /\ \A i \in 1 .. Len(s) : s[i] \in S
  OBVIOUS

\* Concatenation with one element more is Append.
LEMMA ConcatOne ==
    ASSUME NEW S, NEW s \in Seq(S), NEW x \in S
    PROVE  s \o <<x>> = Append(s, x) /\ s \o <<>> = s
<1>1. <<x>> \in Seq(S) /\ Len(<<x>>) = 1 /\ <<x>>[1] = x
  OBVIOUS
<1>2. s \o <<x>> \in Seq(S) /\ Append(s, x) \in Seq(S)
  BY <1>1, ConcatProperties
<1>3. /\ Len(s \o <<x>>) = Len(Append(s, x))
      /\ \A i \in 1 .. Len(s \o <<x>>) : (s \o <<x>>)[i] = Append(s, x)[i]
  BY <1>1, ConcatProperties
<1>4. s \o <<x>> = Append(s, x)
  BY <1>2, <1>3, SeqEqual
<1> QED
  BY <1>4, ConcatEmptySeq

\* Appending to the end of a concatenation.
LEMMA AppendConcat ==
    ASSUME NEW S, NEW s \in Seq(S), NEW t \in Seq(S), NEW x \in S
    PROVE  s \o Append(t, x) = Append(s \o t, x)
<1>1. <<x>> \in Seq(S) /\ s \o t \in Seq(S)
  BY ConcatProperties
<1>2. s \o Append(t, x) = s \o (t \o <<x>>)
  BY ConcatOne
<1>3. s \o (t \o <<x>>) = (s \o t) \o <<x>>
  BY <1>1, ConcatAssociative
<1> QED
  BY <1>1, <1>2, <1>3, ConcatOne

\* Moving the head of t to the end of s does not change their concatenation.
LEMMA HeadMoves ==
    ASSUME NEW S, NEW s \in Seq(S), NEW t \in Seq(S), t # <<>>
    PROVE  Append(s, Head(t)) \o Tail(t) = s \o t
<1>1. Append(s, Head(t)) \in Seq(S) /\ Tail(t) \in Seq(S) /\ Head(t) \in S
  BY TailFacts, AppendFacts
<1>2. Append(s, Head(t)) \o Tail(t) \in Seq(S) /\ s \o t \in Seq(S)
  BY <1>1, ConcatProperties
<1>3. Len(Append(s, Head(t)) \o Tail(t)) = Len(s \o t)
  BY <1>1, ConcatProperties, TailFacts, AppendFacts
<1>4. ASSUME NEW i \in 1 .. Len(s \o t)
      PROVE  (Append(s, Head(t)) \o Tail(t))[i] = (s \o t)[i]
  <2>1. Len(s \o t) = Len(s) + Len(t) /\ Len(s) \in Nat /\ Len(t) \in Nat
    BY ConcatProperties
  <2>2. (s \o t)[i] = IF i <= Len(s) THEN s[i] ELSE t[i - Len(s)]
    BY <2>1, ConcatProperties
  <2>3. (Append(s, Head(t)) \o Tail(t))[i] =
            IF i <= Len(s) + 1 THEN Append(s, Head(t))[i] ELSE Tail(t)[i - (Len(s) + 1)]
    BY <1>1, <2>1, ConcatProperties, TailFacts, AppendFacts
  <2> QED
    BY <1>1, <2>1, <2>2, <2>3, TailFacts, AppendFacts
<1> QED
  BY <1>2, <1>3, <1>4, SeqEqual

\* The tasks of different promises are different, and none is the page's.
LEMMA TaskKinds ==
    \A p \in Promises :
        /\ ProcessTask(p) # PlainTask /\ ProcessTask(p) \in Tasks /\ PlainTask \in Tasks
        /\ ProcessTask(p)[2] = p
        /\ \A q \in Promises : ProcessTask(p) = ProcessTask(q) => p = q
  BY DEF ProcessTask, PlainTask, Tasks

-----------------------------------------------------------------------------

\* What settling p does to the promises and to the queue.
LEMMA SettleFacts ==
    ASSUME NEW q \in [Promises -> PromiseType], NEW p \in Promises, NEW st \in {1, 2},
           asyncQueue \in Seq(Tasks), settle(q, p, st)
    PROVE  /\ promise' \in [Promises -> PromiseType]
           /\ \A x \in Promises :
                 /\ promise'[x].pending = q[x].pending
                 /\ promise'[x].used = q[x].used
                 /\ promise'[x].status = IF x = p THEN st ELSE q[x].status
                 /\ promise'[x].scheduled <=> q[x].scheduled \/ (x = p /\ q[x].pending # <<>>)
           /\ asyncQueue' = IF MustSchedule(q, p) THEN Append(asyncQueue, ProcessTask(p))
                            ELSE asyncQueue
<1> DEFINE s == [q EXCEPT ![p].status = st]
<1>1. s \in [Promises -> PromiseType]
  BY DEF PromiseType
<1>2. \A x \in Promises :
         /\ s[x].pending = q[x].pending /\ s[x].used = q[x].used /\ s[x].scheduled = q[x].scheduled
         /\ s[x].status = IF x = p THEN st ELSE q[x].status
  BY DEF PromiseType
<1>3. MustSchedule(s, p) <=> MustSchedule(q, p)
  BY <1>2 DEF MustSchedule
<1>4. promise' = Scheduled(s, p) /\ asyncQueue' = asyncQueue \o ScheduleTask(s, p)
  BY DEF settle, evalAsync
<1> HIDE DEF s
<1>5. /\ Scheduled(s, p) \in [Promises -> PromiseType]
      /\ \A x \in Promises :
            /\ Scheduled(s, p)[x].pending = s[x].pending
            /\ Scheduled(s, p)[x].used = s[x].used
            /\ Scheduled(s, p)[x].status = s[x].status
            /\ Scheduled(s, p)[x].scheduled <=> s[x].scheduled \/ (x = p /\ s[x].pending # <<>>)
  <2>1. CASE MustSchedule(s, p)
    <3>1. Scheduled(s, p) = [s EXCEPT ![p].scheduled = TRUE]
      BY <2>1 DEF Scheduled
    <3>2. s[p].pending # <<>>
      BY <2>1 DEF MustSchedule
    <3>3. /\ [s EXCEPT ![p].scheduled = TRUE] \in [Promises -> PromiseType]
          /\ \A x \in Promises :
                LET t == [s EXCEPT ![p].scheduled = TRUE] IN
                /\ t[x].pending = s[x].pending /\ t[x].used = s[x].used
                /\ t[x].status = s[x].status
                /\ t[x].scheduled = IF x = p THEN TRUE ELSE s[x].scheduled
      BY <1>1 DEF PromiseType
    <3> QED
      BY <3>1, <3>2, <3>3
  <2>2. CASE ~MustSchedule(s, p)
    <3>1. Scheduled(s, p) = s
      BY <2>2 DEF Scheduled
    <3>2. s[p].pending # <<>> => s[p].scheduled
      BY <2>2 DEF MustSchedule
    <3> QED
      BY <1>1, <3>1, <3>2
  <2> QED
    BY <2>1, <2>2
<1>6. asyncQueue' = IF MustSchedule(s, p) THEN Append(asyncQueue, ProcessTask(p)) ELSE asyncQueue
  BY <1>4, ConcatOne, TaskKinds DEF ScheduleTask
<1> QED
  BY <1>2, <1>3, <1>4, <1>5, <1>6

\* What entering e into the pending entries of p does.
LEMMA EnterFacts ==
    ASSUME NEW q \in [Promises -> PromiseType], NEW p \in Promises, NEW e \in Entries,
           asyncQueue \in Seq(Tasks), enterThen(q, p, e)
    PROVE  /\ promise' \in [Promises -> PromiseType]
           /\ \A x \in Promises :
                 /\ promise'[x].pending = IF x = p THEN Append(q[x].pending, e) ELSE q[x].pending
                 /\ promise'[x].used = q[x].used
                 /\ promise'[x].status = q[x].status
                 /\ promise'[x].scheduled <=> q[x].scheduled \/ (x = p /\ q[x].status > 0)
           /\ asyncQueue' = IF q[p].status > 0 /\ ~q[p].scheduled
                            THEN Append(asyncQueue, ProcessTask(p)) ELSE asyncQueue
<1> DEFINE s == [q EXCEPT ![p].pending = Append(@, e)]
<1>0. Append(q[p].pending, e) \in Seq(Entries) /\ Append(q[p].pending, e) # <<>>
  <2>1. q[p].pending \in Seq(Entries)
    BY DEF PromiseType
  <2> QED
    BY <2>1, AppendFacts
<1>1. s \in [Promises -> PromiseType]
  BY <1>0 DEF PromiseType
<1>2. \A x \in Promises :
         /\ s[x].pending = IF x = p THEN Append(q[x].pending, e) ELSE q[x].pending
         /\ s[x].used = q[x].used /\ s[x].scheduled = q[x].scheduled /\ s[x].status = q[x].status
  BY DEF PromiseType
<1>3. IF s[p].status > 0
      THEN promise' = Scheduled(s, p) /\ asyncQueue' = asyncQueue \o ScheduleTask(s, p)
      ELSE promise' = s /\ asyncQueue' = asyncQueue
  BY DEF enterThen, evalAsync, Enter
<1>4. MustSchedule(s, p) <=> ~q[p].scheduled
  BY <1>0, <1>2 DEF MustSchedule
<1> HIDE DEF s
<1>5. CASE s[p].status > 0 /\ MustSchedule(s, p)
  <2>1. promise' = [s EXCEPT ![p].scheduled = TRUE]
    BY <1>3, <1>5 DEF Scheduled
  <2>2. asyncQueue' = Append(asyncQueue, ProcessTask(p))
    BY <1>3, <1>5, ConcatOne, TaskKinds DEF ScheduleTask
  <2>3. /\ promise' \in [Promises -> PromiseType]
        /\ \A x \in Promises :
              /\ promise'[x].pending = s[x].pending /\ promise'[x].used = s[x].used
              /\ promise'[x].status = s[x].status
              /\ promise'[x].scheduled = IF x = p THEN TRUE ELSE s[x].scheduled
    BY <1>1, <2>1 DEF PromiseType
  <2>4. \A x \in Promises : q[x].scheduled \in BOOLEAN
    BY DEF PromiseType
  <2> QED
    BY <1>2, <1>4, <1>5, <2>2, <2>3, <2>4
<1>6. CASE s[p].status > 0 /\ ~MustSchedule(s, p)
  <2>1. promise' = s
    BY <1>3, <1>6 DEF Scheduled
  <2>2. asyncQueue' = asyncQueue
    BY <1>3, <1>6, ConcatOne, TaskKinds DEF ScheduleTask
  <2> QED
    BY <1>1, <1>2, <1>4, <1>6, <2>1, <2>2
<1>7. CASE ~(s[p].status > 0)
  BY <1>1, <1>2, <1>3, <1>7
<1> QED
  BY <1>5, <1>6, <1>7

-----------------------------------------------------------------------------
(***************************************************************************)
(* The kinds of steps, by what they do to promises and tasks.              *)
(***************************************************************************)

SameHistory == hist'.entered = hist.entered /\ hist'.ran = hist.ran

\* Nothing moves; a task of the page is over; one is queued; all tasks are over.
Quiet == UNCHANGED <<promise, proc, asyncQueue>> /\ SameHistory /\ dig'.pos = dig.pos
PlainEnds ==
    /\ at = "async" /\ busy /\ proc.list = <<>>
    /\ UNCHANGED <<promise, proc, asyncQueue>> /\ SameHistory
    /\ dig'.pos = dig.pos + 1
PlainQueued ==
    /\ asyncQueue' = Append(asyncQueue, PlainTask)
    /\ UNCHANGED <<promise, proc>> /\ SameHistory /\ dig'.pos = dig.pos
Emptied ==
    /\ proc.list = <<>> /\ dig.pos = Len(asyncQueue)
    /\ asyncQueue' = <<>> /\ dig'.pos = 0
    /\ UNCHANGED <<promise, proc>> /\ SameHistory

\* processQueue takes the entries of p.
Take(p) ==
    /\ proc.list = <<>> /\ dig.pos < Len(asyncQueue) /\ asyncQueue[dig.pos + 1] = ProcessTask(p)
    /\ proc'.p = p /\ proc'.list = promise[p].pending
    /\ \A x \in Promises :
          /\ promise'[x].pending = IF x = p THEN <<>> ELSE promise[x].pending
          /\ promise'[x].scheduled = IF x = p THEN FALSE ELSE promise[x].scheduled
          /\ promise'[x].status = promise[x].status /\ promise'[x].used = promise[x].used
    /\ UNCHANGED asyncQueue /\ SameHistory /\ dig'.pos = dig.pos

\* Promise p gets status st; its task is queued if it has entries and no task.
Settle(p, st) ==
    /\ \A x \in Promises :
          /\ promise'[x].pending = promise[x].pending
          /\ promise'[x].used = promise[x].used
          /\ promise'[x].status = IF x = p THEN st ELSE promise[x].status
          /\ promise'[x].scheduled <=> promise[x].scheduled \/ (x = p /\ promise[x].pending # <<>>)
    /\ asyncQueue' = IF ~promise[p].scheduled /\ promise[p].pending # <<>>
                     THEN Append(asyncQueue, ProcessTask(p)) ELSE asyncQueue

\* Entry e is pending at p; its task is queued if p is settled and has no task.
Pend(p, e) ==
    /\ \A x \in Promises :
          /\ promise'[x].pending =
                IF x = p THEN Append(promise[x].pending, e) ELSE promise[x].pending
          /\ promise'[x].scheduled <=> promise[x].scheduled \/ (x = p /\ promise[x].status > 0)
    /\ asyncQueue' = IF promise[p].status > 0 /\ ~promise[p].scheduled
                     THEN Append(asyncQueue, ProcessTask(p)) ELSE asyncQueue
    /\ hist'.entered = [hist.entered EXCEPT ![p] = Append(@, e)]

SettleDeferred(p, st) ==
    /\ p \in Deferred /\ promise[p].status = 0
    /\ Settle(p, st)
    /\ UNCHANGED proc /\ SameHistory /\ dig'.pos = dig.pos
Then(p, e) ==
    /\ ~promise[e.res].used
    /\ Pend(p, e)
    /\ \A x \in Promises : /\ promise'[x].used = IF x = e.res THEN TRUE ELSE promise[x].used
                           /\ promise'[x].status = promise[x].status
    /\ hist'.ran = hist.ran
    /\ UNCHANGED proc /\ dig'.pos = dig.pos

\* The head of the list is dealt with.
HeadDone ==
    /\ proc.list # <<>>
    /\ proc'.list = Tail(proc.list)
    /\ Tail(proc.list) # <<>> => proc'.p = proc.p
    /\ dig'.pos = IF Tail(proc.list) = <<>> THEN dig.pos + 1 ELSE dig.pos
    /\ hist'.ran = [hist.ran EXCEPT ![proc.p] = Append(@, Head(proc.list))]
HeadSettles(st) ==
    HeadDone /\ Settle(Head(proc.list).res, st) /\ hist'.entered = hist.entered
HeadAdopts(r) ==
    LET e == Head(proc.list) IN
    /\ HeadDone
    /\ r # e.res
    /\ Pend(r, Entry("adopt", e.res, {}))
    /\ \A x \in Promises : /\ promise'[x].used = promise[x].used
                           /\ promise'[x].status = IF x = e.res THEN -1 ELSE promise[x].status

Kinds ==
    \/ Quiet \/ PlainEnds \/ PlainQueued \/ Emptied
    \/ \E p \in Promises : Take(p)
    \/ \E p \in Deferred : \E st \in {1, 2} : SettleDeferred(p, st)
    \/ \E p \in Promises : \E e \in Entries : Then(p, e)
    \/ \E st \in {1, 2} : HeadSettles(st)
    \/ \E r \in Promises : HeadAdopts(r)

\* A step of page code is one of the kinds, and keeps the types.
LEMMA EffectSteps == QueueType /\ Effect => Kinds /\ QueueType'
<1> SUFFICES ASSUME QueueType, Effect PROVE Kinds /\ QueueType'
  OBVIOUS
<1>0. UNCHANGED <<at, busy, dig, proc>>
  BY DEF Effect
<1>1. CASE EditPage
  <2>1. UNCHANGED <<promise, asyncQueue, hist>>
    BY <1>1 DEF EditPage
  <2> QED
    BY <1>0, <2>1 DEF QueueType, Kinds, Quiet, SameHistory
<1>2. CASE Queue
  <2>1. UNCHANGED <<promise, hist>>
    BY <1>2 DEF Queue
  <2>2. asyncQueue' = asyncQueue \o <<PlainTask>> \/ asyncQueue' = asyncQueue
    BY <1>2 DEF Queue, evalAsync, applyAsync
  <2>3. PlainTask \in Tasks
    BY DEF Tasks
  <2>4. asyncQueue \in Seq(Tasks)
    BY DEF QueueType
  <2>5. /\ asyncQueue' = Append(asyncQueue, PlainTask) \/ asyncQueue' = asyncQueue
        /\ asyncQueue' \in Seq(Tasks)
    BY <2>2, <2>3, <2>4, ConcatOne, AppendFacts
  <2>6. Kinds
    BY <1>0, <2>1, <2>5 DEF Kinds, Quiet, PlainQueued, SameHistory
  <2>7. QueueType'
    BY <1>0, <2>1, <2>5 DEF QueueType
  <2> QED
    BY <2>6, <2>7
<1>3. ASSUME NEW p \in Deferred, NEW st \in {1, 2}, settleDeferred(p, st), UNCHANGED hist
      PROVE  Kinds /\ QueueType'
  <2>1. CASE promise[p].status = 0
    <3>1. settle(promise, p, st) /\ p \in Promises
      BY <1>3, <2>1 DEF settleDeferred, Promises
    <3>2. promise \in [Promises -> PromiseType] /\ asyncQueue \in Seq(Tasks)
      BY DEF QueueType
    <3>3. promise' \in [Promises -> PromiseType] /\ Settle(p, st)
      BY <3>1, <3>2, SettleFacts DEF Settle, MustSchedule
    <3>4. SettleDeferred(p, st)
      BY <1>0, <1>3, <2>1, <3>3 DEF SettleDeferred, SameHistory
    <3>5. asyncQueue' \in Seq(Tasks)
      BY <3>1, <3>2, <3>3, AppendFacts, TaskKinds DEF Settle
    <3>6. QueueType'
      BY <1>0, <1>3, <3>3, <3>5 DEF QueueType
    <3> QED
      BY <3>4, <3>6 DEF Kinds
  <2>2. CASE promise[p].status # 0
    <3>1. UNCHANGED <<promise, asyncQueue>>
      BY <1>3, <2>2 DEF settleDeferred
    <3> QED
      BY <1>0, <1>3, <3>1 DEF QueueType, Kinds, Quiet, SameHistory
  <2> QED
    BY <2>1, <2>2
<1>4. ASSUME NEW p \in Promises, NEW r \in Derived, NEW on \in {{1}, {2}}, then(p, r, on)
      PROVE  Kinds /\ QueueType'
  <2> DEFINE e == Entry("then", r, on)
             q == [promise EXCEPT ![r].used = TRUE]
  <2>1. e \in Entries /\ e.res = r /\ r \in Promises
    BY DEF Entry, Entries, Promises
  <2>2. /\ q \in [Promises -> PromiseType]
        /\ \A x \in Promises :
              /\ q[x].pending = promise[x].pending /\ q[x].status = promise[x].status
              /\ q[x].scheduled = promise[x].scheduled
              /\ q[x].used = IF x = r THEN TRUE ELSE promise[x].used
    BY <2>1 DEF QueueType, PromiseType
  <2>3. enterThen(q, p, e) /\ ~promise[r].used
    BY <1>4 DEF then
  <2>4. hist' = [hist EXCEPT !.entered[p] = Append(@, e)]
    BY <1>4 DEF then, Register
  <2> HIDE DEF q, e
  <2>5. asyncQueue \in Seq(Tasks)
    BY DEF QueueType
  <2>6. /\ promise' \in [Promises -> PromiseType]
        /\ \A x \in Promises :
              /\ promise'[x].pending = IF x = p THEN Append(q[x].pending, e) ELSE q[x].pending
              /\ promise'[x].used = q[x].used
              /\ promise'[x].status = q[x].status
              /\ promise'[x].scheduled <=> q[x].scheduled \/ (x = p /\ q[x].status > 0)
        /\ asyncQueue' = IF q[p].status > 0 /\ ~q[p].scheduled
                         THEN Append(asyncQueue, ProcessTask(p)) ELSE asyncQueue
    BY <2>1, <2>2, <2>3, <2>5, EnterFacts
  <2>7. /\ \A x \in Promises :
              /\ promise'[x].pending =
                    IF x = p THEN Append(promise[x].pending, e) ELSE promise[x].pending
              /\ promise'[x].used = IF x = r THEN TRUE ELSE promise[x].used
              /\ promise'[x].status = promise[x].status
              /\ promise'[x].scheduled <=> promise[x].scheduled \/ (x = p /\ promise[x].status > 0)
        /\ asyncQueue' = IF promise[p].status > 0 /\ ~promise[p].scheduled
                         THEN Append(asyncQueue, ProcessTask(p)) ELSE asyncQueue
    BY <2>2, <2>6
  <2>8. /\ hist'.entered = [hist.entered EXCEPT ![p] = Append(@, e)] /\ hist'.ran = hist.ran
        /\ {"entered", "ran"} \subseteq DOMAIN hist'
    BY <2>4 DEF QueueType
  <2>9. Then(p, e)
    BY <1>0, <2>1, <2>3, <2>7, <2>8 DEF Then, Pend
  <2>10. asyncQueue' \in Seq(Tasks)
    BY <2>5, <2>7, AppendFacts, TaskKinds
  <2>11. Append(hist.entered[p], e) \in Seq(Entries)
    BY <2>1, AppendFacts DEF QueueType
  <2>12. hist'.entered \in [Promises -> Seq(Entries)] /\ hist'.ran \in [Promises -> Seq(Entries)]
    BY <2>8, <2>11 DEF QueueType
  <2>13. QueueType'
    BY <1>0, <2>6, <2>8, <2>10, <2>12 DEF QueueType
  <2> QED
    BY <2>1, <2>9, <2>13 DEF Kinds
<1> QED
  BY <1>1, <1>2, <1>3, <1>4 DEF Effect, UsePromise

\* What EntryDone does to the list and the position.
LEMMA EntryFacts ==
    ASSUME QueueType, proc.list # <<>>
    PROVE  /\ proc.p \in Promises /\ proc.list \in Seq(Entries)
           /\ Head(proc.list) \in Entries /\ Head(proc.list).res \in Promises
           /\ Tail(proc.list) \in Seq(Entries)
           /\ EntryDone =>
                 /\ proc'.list = Tail(proc.list)
                 /\ Tail(proc.list) # <<>> => proc'.p = proc.p
                 /\ {"p", "list"} \subseteq DOMAIN proc'
                 /\ dig'.pos = IF Tail(proc.list) = <<>> THEN dig.pos + 1 ELSE dig.pos
                 /\ "pos" \in DOMAIN dig'
<1>1. proc.p \in Promises /\ proc.list \in Seq(Entries)
  BY DEF QueueType
<1>2. /\ Head(proc.list) \in Entries /\ Tail(proc.list) \in Seq(Entries)
      /\ Len(Tail(proc.list)) = Len(proc.list) - 1
  BY <1>1, TailFacts
<1>3. Tail(proc.list) = <<>> <=> Len(proc.list) = 1
  <2>1. Len(proc.list) \in Nat
    BY <1>1, EmptyFacts
  <2>2. Tail(proc.list) = <<>> <=> Len(Tail(proc.list)) = 0
    BY <1>2, EmptyFacts
  <2> QED
    BY <1>2, <2>1, <2>2
<1>4. Head(proc.list).res \in Promises
  BY <1>2 DEF Entries, Promises
<1>5. ASSUME EntryDone
      PROVE  /\ proc'.list = Tail(proc.list)
             /\ Tail(proc.list) # <<>> => proc'.p = proc.p
             /\ {"p", "list"} \subseteq DOMAIN proc'
             /\ dig'.pos = IF Tail(proc.list) = <<>> THEN dig.pos + 1 ELSE dig.pos
             /\ "pos" \in DOMAIN dig'
  BY <1>3, <1>5 DEF EntryDone, RestOf, NoProc, TaskDone, QueueType
<1> QED
  BY <1>1, <1>2, <1>4, <1>5

\* The engine deals with the head of the list.
LEMMA EntrySteps ==
    QueueType /\ ControlInv /\ (CallbackReturns \/ PassOn) /\ promise[proc.p].status > 0
        => Kinds /\ QueueType'
<1> SUFFICES ASSUME QueueType, ControlInv, CallbackReturns \/ PassOn, promise[proc.p].status > 0
             PROVE  Kinds /\ QueueType'
  OBVIOUS
<1> DEFINE e == Head(proc.list)
<1>1. proc.list # <<>> /\ EntryDone /\ at = "async"
  BY DEF CallbackReturns, PassOn
<1>2. /\ proc.p \in Promises /\ proc.list \in Seq(Entries) /\ e \in Entries /\ e.res \in Promises
      /\ Tail(proc.list) \in Seq(Entries) /\ e.res \in Derived
  BY <1>1, EntryFacts DEF Entries
<1>3. /\ proc'.list = Tail(proc.list)
      /\ Tail(proc.list) # <<>> => proc'.p = proc.p
      /\ {"p", "list"} \subseteq DOMAIN proc'
      /\ dig'.pos = IF Tail(proc.list) = <<>> THEN dig.pos + 1 ELSE dig.pos
      /\ "pos" \in DOMAIN dig'
  BY <1>1, EntryFacts
<1>4. promise \in [Promises -> PromiseType] /\ asyncQueue \in Seq(Tasks) /\ busy' \in BOOLEAN
  BY DEF QueueType, CallbackReturns, PassOn
<1> HIDE DEF e
<1>5. hist'.ran = [hist.ran EXCEPT ![proc.p] = Append(@, e)]
      => hist'.ran \in [Promises -> Seq(Entries)]
  <2>1. Append(hist.ran[proc.p], e) \in Seq(Entries)
    BY <1>2, AppendFacts DEF QueueType
  <2> QED
    BY <2>1 DEF QueueType
<1>6. ASSUME NEW st \in {1, 2}, settle(promise, e.res, st), hist' = Ran(e)
      PROVE  Kinds /\ QueueType'
  <2>1. promise' \in [Promises -> PromiseType] /\ Settle(e.res, st)
    BY <1>2, <1>4, <1>6, SettleFacts DEF Settle, MustSchedule
  <2>2. /\ hist'.ran = [hist.ran EXCEPT ![proc.p] = Append(@, e)] /\ hist'.entered = hist.entered
        /\ {"entered", "ran"} \subseteq DOMAIN hist'
    BY <1>6 DEF Ran, QueueType
  <2>3. HeadSettles(st)
    BY <1>1, <1>3, <2>1, <2>2 DEF HeadSettles, HeadDone, e
  <2>4. asyncQueue' \in Seq(Tasks)
    BY <1>2, <1>4, <2>1, AppendFacts, TaskKinds DEF Settle
  <2>5. hist'.entered \in [Promises -> Seq(Entries)]
    BY <2>2 DEF QueueType
  <2>6. dig'.pos \in Nat /\ (proc'.list # <<>> => proc'.p \in Promises)
    BY <1>2, <1>3 DEF QueueType
  <2>7. QueueType'
    BY <1>2, <1>3, <1>4, <1>5, <2>1, <2>2, <2>4, <2>5, <2>6 DEF QueueType
  <2> QED
    BY <2>3, <2>7 DEF Kinds
<1>7. ASSUME NEW r \in Promises, r # e.res,
             enterThen([promise EXCEPT ![e.res].status = -1], r, Entry("adopt", e.res, {})),
             hist' = [Ran(e) EXCEPT !.entered[r] = Append(@, Entry("adopt", e.res, {}))]
      PROVE  Kinds /\ QueueType'
  <2> DEFINE a == Entry("adopt", e.res, {})
             q == [promise EXCEPT ![e.res].status = -1]
  <2>1. a \in Entries
    BY <1>2 DEF Entry, Entries
  <2>2. /\ q \in [Promises -> PromiseType]
        /\ \A x \in Promises :
              /\ q[x].pending = promise[x].pending /\ q[x].used = promise[x].used
              /\ q[x].scheduled = promise[x].scheduled
              /\ q[x].status = IF x = e.res THEN -1 ELSE promise[x].status
    BY <1>2, <1>4 DEF PromiseType
  <2>3. enterThen(q, r, a) /\ hist' = [Ran(e) EXCEPT !.entered[r] = Append(@, a)]
    BY <1>7
  <2> HIDE DEF q, a
  <2>4. /\ promise' \in [Promises -> PromiseType]
        /\ \A x \in Promises :
              /\ promise'[x].pending = IF x = r THEN Append(q[x].pending, a) ELSE q[x].pending
              /\ promise'[x].used = q[x].used
              /\ promise'[x].status = q[x].status
              /\ promise'[x].scheduled <=> q[x].scheduled \/ (x = r /\ q[x].status > 0)
        /\ asyncQueue' = IF q[r].status > 0 /\ ~q[r].scheduled
                         THEN Append(asyncQueue, ProcessTask(r)) ELSE asyncQueue
    BY <1>4, <2>1, <2>2, <2>3, EnterFacts
  <2>5. q[r].status = promise[r].status
    BY <1>7, <2>2
  <2>6. /\ \A x \in Promises :
              /\ promise'[x].pending =
                    IF x = r THEN Append(promise[x].pending, a) ELSE promise[x].pending
              /\ promise'[x].used = promise[x].used
              /\ promise'[x].status = IF x = e.res THEN -1 ELSE promise[x].status
              /\ promise'[x].scheduled <=> promise[x].scheduled \/ (x = r /\ promise[x].status > 0)
        /\ asyncQueue' = IF promise[r].status > 0 /\ ~promise[r].scheduled
                         THEN Append(asyncQueue, ProcessTask(r)) ELSE asyncQueue
    BY <2>2, <2>4, <2>5
  <2>7. /\ hist'.entered = [hist.entered EXCEPT ![r] = Append(@, a)]
        /\ hist'.ran = [hist.ran EXCEPT ![proc.p] = Append(@, e)]
        /\ {"entered", "ran"} \subseteq DOMAIN hist'
    <3>1. /\ Ran(e).entered = hist.entered /\ {"entered", "ran"} \subseteq DOMAIN Ran(e)
          /\ Ran(e).ran = [hist.ran EXCEPT ![proc.p] = Append(@, e)]
      BY DEF Ran, QueueType
    <3> QED
      BY <2>3, <3>1
  <2>8. HeadAdopts(r)
    <3>1. HeadDone
      BY <1>1, <1>3, <2>7 DEF HeadDone, e
    <3>2. Pend(r, a)
      BY <2>6, <2>7 DEF Pend
    <3> QED
      BY <1>7, <2>6, <3>1, <3>2 DEF HeadAdopts, e, a
  <2>9. asyncQueue' \in Seq(Tasks)
    BY <1>4, <2>6, AppendFacts, TaskKinds
  <2>10. Append(hist.entered[r], a) \in Seq(Entries)
    BY <2>1, AppendFacts DEF QueueType
  <2>11. hist'.entered \in [Promises -> Seq(Entries)]
    BY <2>7, <2>10 DEF QueueType
  <2>12. dig'.pos \in Nat /\ (proc'.list # <<>> => proc'.p \in Promises)
    BY <1>2, <1>3 DEF QueueType
  <2>13. QueueType'
    BY <1>2, <1>3, <1>4, <1>5, <2>4, <2>7, <2>9, <2>11, <2>12 DEF QueueType
  <2> QED
    BY <2>8, <2>13 DEF Kinds
<1>8. CASE CallbackReturns
  BY <1>6, <1>7, <1>8 DEF CallbackReturns, e
<1>9. CASE PassOn
  <2>0. promise[proc.p].status \in {-1, 0, 1, 2}
    BY <1>2, <1>4 DEF PromiseType
  <2>1. promise[proc.p].status \in {1, 2}
    BY <2>0
  <2> QED
    BY <1>6, <1>9, <2>1 DEF PassOn, e
<1> QED
  BY <1>8, <1>9

\* Every step is one of the kinds, and keeps the types.
LEMMA Steps == IndInv /\ [Next]_vars => Kinds /\ QueueType'
<1> SUFFICES ASSUME IndInv, [Next]_vars PROVE Kinds /\ QueueType'
  OBVIOUS
<1>0. QueueType /\ ControlInv /\ SettledInv
  BY DEF IndInv
<1>1. ASSUME UNCHANGED <<promise, proc, asyncQueue>>, SameHistory, dig'.pos = dig.pos,
             "pos" \in DOMAIN dig', {"entered", "ran"} \subseteq DOMAIN hist', busy' \in BOOLEAN
      PROVE  Kinds /\ QueueType'
  BY <1>0, <1>1 DEF Kinds, Quiet, SameHistory, QueueType
<1>2. CASE Effect
  BY <1>0, <1>2, EffectSteps
<1>3. CASE CallbackReturns \/ PassOn
  <2>1. proc.list # <<>>
    BY <1>3 DEF CallbackReturns, PassOn
  <2> QED
    BY <1>0, <1>3, <2>1, EntrySteps DEF SettledInv
<1>4. CASE NextTask
  <2>1. CASE asyncQueue[dig.pos + 1] = PlainTask
    <3>1. UNCHANGED <<promise, proc>> /\ busy' = TRUE
      BY <1>4, <2>1 DEF NextTask
    <3> QED
      BY <1>0, <1>1, <1>4, <3>1 DEF NextTask, SameHistory, QueueType
  <2>2. CASE asyncQueue[dig.pos + 1] # PlainTask
    <3>0. proc.list = <<>> /\ dig.pos < Len(asyncQueue) /\ UNCHANGED <<asyncQueue, dig, hist, busy>>
      BY <1>4, <2>2 DEF NextTask
    <3>1. asyncQueue[dig.pos + 1] \in Tasks
      BY <1>0, <3>0, EmptyFacts DEF QueueType
    <3>2. PICK p \in Promises : asyncQueue[dig.pos + 1] = ProcessTask(p)
      BY <2>2, <3>1 DEF Tasks
    <3>3. asyncQueue[dig.pos + 1][2] = p
      BY <3>2, TaskKinds
    <3>4. /\ proc' = [p |-> p, list |-> promise[p].pending]
          /\ promise' = [promise EXCEPT ![p].pending = <<>>, ![p].scheduled = FALSE]
      BY <1>4, <2>2, <3>3 DEF NextTask
    <3>5. promise \in [Promises -> PromiseType] /\ <<>> \in Seq(Entries)
      BY <1>0 DEF QueueType
    <3>6. /\ promise' \in [Promises -> PromiseType]
          /\ \A x \in Promises :
                /\ promise'[x].pending = IF x = p THEN <<>> ELSE promise[x].pending
                /\ promise'[x].scheduled = IF x = p THEN FALSE ELSE promise[x].scheduled
                /\ promise'[x].status = promise[x].status /\ promise'[x].used = promise[x].used
      BY <3>4, <3>5 DEF PromiseType
    <3>7. promise[p].pending \in Seq(Entries)
      BY <3>5 DEF PromiseType
    <3>8. proc'.p = p /\ proc'.list = promise[p].pending /\ {"p", "list"} \subseteq DOMAIN proc'
      BY <3>4
    <3>9. Take(p)
      BY <3>0, <3>2, <3>6, <3>8 DEF Take, SameHistory
    <3>10. QueueType'
      BY <1>0, <3>0, <3>6, <3>7, <3>8 DEF QueueType
    <3> QED
      BY <3>9, <3>10 DEF Kinds
  <2> QED
    BY <2>1, <2>2
<1>5. CASE PlainTaskReturns
  <2>1. /\ at = "async" /\ busy /\ proc.list = <<>> /\ busy' = FALSE
        /\ UNCHANGED <<promise, proc, asyncQueue, hist>>
        /\ dig' = [dig EXCEPT !.pos = @ + 1]
    BY <1>5 DEF PlainTaskReturns, TaskDone
  <2>2. dig'.pos = dig.pos + 1 /\ "pos" \in DOMAIN dig'
    BY <1>0, <2>1 DEF QueueType
  <2>3. PlainEnds
    BY <2>1, <2>2 DEF PlainEnds, SameHistory
  <2>4. dig'.pos \in Nat /\ busy' \in BOOLEAN
    <3>1. dig.pos \in Nat
      BY <1>0 DEF QueueType
    <3>2. dig'.pos \in Nat
      BY <2>2, <3>1
    <3>3. busy' \in BOOLEAN
      BY <2>1
    <3> QED
      BY <3>2, <3>3
  <2>5. QueueType'
    BY <1>0, <2>1, <2>2, <2>4 DEF QueueType
  <2> QED
    BY <2>3, <2>5 DEF Kinds
<1>6. CASE TasksDone
  <2>1. /\ proc.list = <<>> /\ dig.pos = Len(asyncQueue) /\ asyncQueue' = <<>>
        /\ UNCHANGED <<promise, proc, hist, busy>>
        /\ dig' = [dig EXCEPT !.current = Root, !.dirty = FALSE, !.pos = 0]
    BY <1>6 DEF TasksDone
  <2>2. dig'.pos = 0 /\ "pos" \in DOMAIN dig'
    BY <1>0, <2>1 DEF QueueType
  <2>3. Emptied
    BY <2>1, <2>2 DEF Emptied, SameHistory
  <2>4. <<>> \in Seq(Tasks)
    OBVIOUS
  <2>5. QueueType'
    BY <1>0, <2>1, <2>2, <2>4 DEF QueueType
  <2> QED
    BY <2>3, <2>5 DEF Kinds
<1>7. CASE Event \/ LeaveOutside \/ LeaveApply \/ AsyncTimer \/ ApplyTimer \/ CallCallback
           \/ ListenerReturns \/ PostDigest \/ UNCHANGED vars
  <2>1. UNCHANGED <<promise, proc, asyncQueue, hist, dig>>
    BY <1>7 DEF Event, LeaveOutside, LeaveApply, BeginDigest, AsyncTimer, ApplyTimer, CallCallback,
                ListenerReturns, PostDigest, vars
  <2>2. busy' = busy \/ busy' \in BOOLEAN
    BY <1>7 DEF Event, LeaveOutside, LeaveApply, BeginDigest, AsyncTimer, ApplyTimer, CallCallback,
                ListenerReturns, PostDigest, vars
  <2> QED
    BY <1>0, <1>1, <2>1, <2>2 DEF SameHistory, QueueType
<1>8. CASE Flush
  <2>1. UNCHANGED <<promise, proc, asyncQueue, hist>> /\ at = "flush" /\ (dig' = dig \/ dig' = Locals)
        /\ (busy' = busy \/ busy' \in BOOLEAN)
    BY <1>8 DEF Flush
  <2>2. dig'.pos = dig.pos /\ "pos" \in DOMAIN dig'
    BY <1>0, <2>1 DEF QueueType, ControlInv, Locals
  <2> QED
    BY <1>0, <1>1, <2>1, <2>2 DEF SameHistory, QueueType
<1>9. CASE CheckWatch
  <2>1. UNCHANGED <<promise, proc, asyncQueue, hist>> /\ (busy' = busy \/ busy' \in BOOLEAN)
    BY <1>9 DEF CheckWatch
  <2>2. \E d : dig' = [dig EXCEPT !.dirty = d]
    BY <1>9 DEF CheckWatch
  <2>3. dig'.pos = dig.pos /\ "pos" \in DOMAIN dig'
    BY <1>0, <2>2 DEF QueueType
  <2> QED
    BY <1>0, <1>1, <2>1, <2>3 DEF SameHistory, QueueType
<1>10. CASE NextScope
  <2>1. UNCHANGED <<promise, proc, asyncQueue, hist, busy>>
    BY <1>10 DEF NextScope
  <2>2. dig' = dig \/ \E n : dig' = [dig EXCEPT !.current = n]
    BY <1>10 DEF NextScope
  <2>3. dig'.pos = dig.pos /\ "pos" \in DOMAIN dig'
    BY <1>0, <2>2 DEF QueueType
  <2> QED
    BY <1>0, <1>1, <2>1, <2>3 DEF SameHistory, QueueType
<1>11. CASE EndPass
  <2>1. UNCHANGED <<promise, proc, asyncQueue, busy>> /\ at = "check"
        /\ (hist' = hist \/ hist' = [hist EXCEPT !.gaveUp = TRUE])
        /\ (dig' = [dig EXCEPT !.ttl = dig.ttl - 1] \/ dig' = Locals)
    BY <1>11 DEF EndPass
  <2>2. dig'.pos = dig.pos /\ "pos" \in DOMAIN dig'
    BY <1>0, <2>1 DEF QueueType, ControlInv, Locals
  <2>3. SameHistory /\ {"entered", "ran"} \subseteq DOMAIN hist'
    BY <1>0, <2>1 DEF QueueType, SameHistory
  <2> QED
    BY <1>0, <1>1, <2>1, <2>2, <2>3 DEF QueueType
<1> QED
  BY <1>2, <1>3, <1>4, <1>5, <1>6, <1>7, <1>8, <1>9, <1>10, <1>11 DEF Next, Engine

-----------------------------------------------------------------------------

\* The page as it starts has no entries and no tasks.
LEMMA InitInd == Init => IndInv
<1> SUFFICES ASSUME Init PROVE IndInv
  OBVIOUS
<1>1. <<>> \in Seq(Entries) /\ <<>> \in Seq(Tasks) /\ Len(<<>>) = 0 /\ <<>> \o <<>> = <<>>
  BY ConcatEmptySeq
<1>2. /\ \A p \in Promises : /\ promise[p] = NewPromise
                             /\ hist.entered[p] = <<>> /\ hist.ran[p] = <<>>
      /\ proc.list = <<>> /\ asyncQueue = <<>> /\ at = "idle" /\ ~busy /\ dig.pos = 0
  BY DEF Init, NoProc, Locals
<1>3. QueueType
  <2>1. NewPromise \in PromiseType
    BY <1>1 DEF NewPromise, PromiseType
  <2>2. /\ promise \in [Promises -> PromiseType]
        /\ hist.entered \in [Promises -> Seq(Entries)] /\ hist.ran \in [Promises -> Seq(Entries)]
    BY <1>1, <2>1 DEF Init
  <2>3. /\ {"p", "list"} \subseteq DOMAIN proc /\ {"entered", "ran"} \subseteq DOMAIN hist
        /\ "pos" \in DOMAIN dig
    BY DEF Init, NoProc, Locals
  <2>4. busy \in BOOLEAN
    BY DEF Init
  <2> QED
    BY <1>1, <1>2, <2>2, <2>3, <2>4 DEF QueueType
<1>4. ControlInv
  BY <1>1, <1>2 DEF ControlInv
<1>5. EntriesInv
  <2>1. \A p \in Promises : promise[p].pending = <<>> /\ promise[p].status = 0
    BY <1>2 DEF NewPromise
  <2>2. \A p \in Promises : Pending[p] = <<>>
    BY <2>1 DEF Pending
  <2>3. Outstanding(Pending, proc.list) = {}
    BY <1>1, <1>2, <2>2 DEF Outstanding
  <2>4. Apart(Pending, proc.list)
    BY <1>1, <1>2, <2>2 DEF Apart
  <2> QED
    BY <2>1, <2>3, <2>4 DEF EntriesInv, Promises
<1>6. OrderInv /\ TaskInv /\ SettledInv
  <2>1. \A p \in Promises : promise[p].pending = <<>> /\ ~promise[p].scheduled
    BY <1>2 DEF NewPromise
  <2>2. \A p \in Promises : Held(p) = <<>>
    BY <1>2 DEF Held
  <2>3. OrderInv
    BY <1>1, <1>2, <2>1, <2>2 DEF OrderInv
  <2>4. TaskInv
    BY <2>1 DEF TaskInv
  <2>5. SettledInv
    BY <1>1, <1>2 DEF SettledInv
  <2> QED
    BY <2>3, <2>4, <2>5
<1> QED
  BY <1>3, <1>4, <1>5, <1>6 DEF IndInv

\* The queue grows at its end, or is emptied after its last task.
LEMMA QueueSteps ==
    Kinds /\ QueueType =>
        \/ asyncQueue' = asyncQueue
        \/ \E t \in Tasks : asyncQueue' = Append(asyncQueue, t)
        \/ Emptied
<1> SUFFICES ASSUME Kinds, QueueType
             PROVE  \/ asyncQueue' = asyncQueue
                    \/ \E t \in Tasks : asyncQueue' = Append(asyncQueue, t)
                    \/ Emptied
  OBVIOUS
<1>1. PlainTask \in Tasks /\ \A p \in Promises : ProcessTask(p) \in Tasks
  BY DEF Tasks
<1>2. \A p \in Deferred : p \in Promises
  BY DEF Promises
<1>3. ASSUME NEW st \in {1, 2}, HeadSettles(st) PROVE Head(proc.list).res \in Promises
  BY <1>3, EntryFacts DEF HeadSettles, HeadDone
<1> QED
  BY <1>1, <1>2, <1>3 DEF Kinds, Quiet, PlainEnds, PlainQueued, Take, SettleDeferred, Settle, Then,
                      Pend, HeadSettles, HeadAdopts

\* A queue that grows keeps the task at every position.
LEMMA QueueKeeps ==
    ASSUME QueueType, asyncQueue' = asyncQueue \/ \E t \in Tasks : asyncQueue' = Append(asyncQueue, t)
    PROVE  /\ Len(asyncQueue) \in Nat /\ Len(asyncQueue') \in Nat
           /\ Len(asyncQueue') >= Len(asyncQueue)
           /\ \A i \in 1 .. Len(asyncQueue) : asyncQueue'[i] = asyncQueue[i]
<1>1. asyncQueue \in Seq(Tasks)
  BY DEF QueueType
<1>2. CASE asyncQueue' = asyncQueue
  BY <1>1, <1>2, EmptyFacts
<1>3. ASSUME NEW t \in Tasks, asyncQueue' = Append(asyncQueue, t)
      PROVE  /\ Len(asyncQueue) \in Nat /\ Len(asyncQueue') \in Nat
             /\ Len(asyncQueue') >= Len(asyncQueue)
             /\ \A i \in 1 .. Len(asyncQueue) : asyncQueue'[i] = asyncQueue[i]
  BY <1>1, <1>3, AppendFacts, EmptyFacts
<1> QED
  BY <1>2, <1>3

\* Where the digest is, and which task it is in.
LEMMA ControlStep == IndInv /\ [Next]_vars => ControlInv'
<1> SUFFICES ASSUME IndInv, [Next]_vars PROVE ControlInv'
  OBVIOUS
<1>0. QueueType /\ ControlInv /\ Kinds /\ QueueType'
  BY Steps DEF IndInv
<1>1. Len(asyncQueue) \in Nat /\ Len(asyncQueue') \in Nat /\ dig.pos \in Nat /\ dig'.pos \in Nat
  BY <1>0, EmptyFacts DEF QueueType
<1>2. CASE Effect
  <2>1. UNCHANGED <<at, busy, dig, proc>> /\ busy
    BY <1>2 DEF Effect
  <2>2. CASE Emptied
    <3>1. asyncQueue' = <<>> /\ Len(asyncQueue') = 0
      BY <2>2 DEF Emptied
    <3> QED
      BY <1>0, <1>1, <2>1, <2>2, <3>1 DEF ControlInv, Emptied
  <2>3. CASE ~Emptied
    <3>1. /\ Len(asyncQueue') >= Len(asyncQueue)
          /\ \A i \in 1 .. Len(asyncQueue) : asyncQueue'[i] = asyncQueue[i]
      BY <1>0, <2>3, QueueSteps, QueueKeeps
    <3> QED
      BY <1>0, <1>1, <2>1, <3>1 DEF ControlInv
  <2> QED
    BY <2>2, <2>3
<1>3. CASE CallbackReturns \/ PassOn
  <2>1. at = "async" /\ at' = "async" /\ proc.list # <<>> /\ ~busy' /\ EntryDone
    BY <1>3 DEF CallbackReturns, PassOn, EntryDone
  <2>2. /\ proc'.list = Tail(proc.list)
        /\ dig'.pos = IF Tail(proc.list) = <<>> THEN dig.pos + 1 ELSE dig.pos
    BY <1>0, <2>1, EntryFacts
  <2>3. Len(asyncQueue') >= Len(asyncQueue)
    BY <1>0, <2>1, QueueSteps, QueueKeeps DEF Emptied
  <2> QED
    BY <1>0, <1>1, <2>1, <2>2, <2>3 DEF ControlInv
<1>4. CASE NextTask
  BY <1>0, <1>1, <1>4 DEF ControlInv, NextTask
<1>5. CASE PlainTaskReturns
  <2>1. dig'.pos = dig.pos + 1
    BY <1>0, <1>5 DEF PlainTaskReturns, TaskDone, QueueType
  <2> QED
    BY <1>0, <1>1, <1>5, <2>1 DEF ControlInv, PlainTaskReturns
<1>6. CASE TasksDone
  <2>1. dig'.pos = 0
    BY <1>0, <1>6 DEF TasksDone, QueueType
  <2> QED
    BY <1>0, <1>1, <1>6, <2>1 DEF ControlInv, TasksDone
<1>7. CASE Event \/ LeaveOutside \/ LeaveApply \/ AsyncTimer \/ ApplyTimer \/ CallCallback
           \/ ListenerReturns \/ PostDigest \/ UNCHANGED vars
  BY <1>0, <1>1, <1>7 DEF ControlInv, Event, LeaveOutside, LeaveApply, BeginDigest, AsyncTimer,
                          ApplyTimer, CallCallback, ListenerReturns, PostDigest, vars
<1>8. CASE Flush
  BY <1>0, <1>1, <1>8 DEF ControlInv, Flush, Locals
<1>9. CASE CheckWatch \/ NextScope
  <2>1. /\ UNCHANGED <<proc, asyncQueue>> /\ at = "watch" /\ at' \in {"watch", "check"}
        /\ at' = "check" => ~busy'
    <3>1. CASE CheckWatch
      <4>1. UNCHANGED <<proc, asyncQueue>> /\ at = "watch" /\ ~busy
        BY <3>1 DEF CheckWatch
      <4>2. at' = at \/ (busy' = busy /\ at' \in {"check", at})
        BY <3>1, Zenon DEF CheckWatch
      <4> QED
        BY <4>1, <4>2
    <3>2. CASE NextScope
      BY <3>2 DEF NextScope
    <3> QED
      BY <1>9, <3>1, <3>2
  <2>2. \E d, n : dig' = [dig EXCEPT !.dirty = d] \/ dig' = dig \/ dig' = [dig EXCEPT !.current = n]
    BY <1>9 DEF CheckWatch, NextScope
  <2>3. dig'.pos = dig.pos
    BY <1>0, <2>2 DEF QueueType
  <2> QED
    BY <1>0, <1>1, <2>1, <2>3 DEF ControlInv
<1>10. CASE EndPass
  <2>1. /\ UNCHANGED <<proc, asyncQueue, busy>> /\ at = "check"
        /\ dig' = [dig EXCEPT !.ttl = dig.ttl - 1] \/ dig' = Locals
        /\ at' # "check"
    BY <1>10 DEF EndPass
  <2>2. dig'.pos = dig.pos
    BY <1>0, <2>1 DEF QueueType, ControlInv, Locals
  <2> QED
    BY <1>0, <1>1, <2>1, <2>2 DEF ControlInv
<1> QED
  BY <1>2, <1>3, <1>4, <1>5, <1>6, <1>7, <1>8, <1>9, <1>10 DEF Next, Engine

-----------------------------------------------------------------------------

\* An entry is taken from the head of the list.
LEMMA TailApart ==
    ASSUME NEW f \in Bags, NEW l \in Seq(Entries), l # <<>>, Apart(f, l)
    PROVE  /\ Apart(f, Tail(l))
           /\ Outstanding(f, Tail(l)) \subseteq Outstanding(f, l)
           /\ Head(l) \in Outstanding(f, l)
           /\ \A x \in Outstanding(f, Tail(l)) : x.res # Head(l).res
<1>1. /\ Len(l) \in Nat /\ 1 \in 1 .. Len(l) /\ Head(l) = l[1] /\ Head(l) \in Entries
      /\ \A n \in 1 .. Len(Tail(l)) : /\ n + 1 \in 1 .. Len(l) /\ Tail(l)[n] = l[n + 1]
                                      /\ n + 1 # 1 /\ n \in Int
  BY TailFacts
<1>2. Apart(f, Tail(l))
  <2>1. ASSUME NEW i \in 1 .. Len(Tail(l)), NEW j \in 1 .. Len(Tail(l)),
               Tail(l)[i].res = Tail(l)[j].res
        PROVE  i = j
    <3>1. l[i + 1].res = l[j + 1].res
      BY <1>1, <2>1
    <3>2. i + 1 = j + 1
      BY <1>1, <3>1 DEF Apart
    <3> QED
      BY <1>1, <3>2
  <2>2. \A p \in Promises : \A i \in 1 .. Len(f[p]) : \A j \in 1 .. Len(Tail(l)) :
           f[p][i].res # Tail(l)[j].res
    BY <1>1 DEF Apart
  <2> QED
    BY <2>1, <2>2 DEF Apart
<1>3. Outstanding(f, Tail(l)) \subseteq Outstanding(f, l) /\ Head(l) \in Outstanding(f, l)
  BY <1>1 DEF Outstanding
<1>4. ASSUME NEW x \in Outstanding(f, Tail(l)) PROVE x.res # Head(l).res
  <2>1. CASE \E p \in Promises : \E i \in 1 .. Len(f[p]) : f[p][i] = x
    BY <1>1, <2>1 DEF Apart
  <2>2. ASSUME NEW i \in 1 .. Len(Tail(l)), Tail(l)[i] = x PROVE x.res # Head(l).res
    BY <1>1, <2>2 DEF Apart
  <2> QED
    BY <2>1, <2>2 DEF Outstanding
<1> QED
  BY <1>2, <1>3, <1>4

\* An entry is entered whose promise no other entry is to settle.
LEMMA EnterApart ==
    ASSUME NEW f \in Bags, NEW g \in Bags, NEW l \in Seq(Entries), NEW p \in Promises,
           NEW e \in Entries, Apart(f, l),
           \A x \in Outstanding(f, l) : x.res # e.res,
           g[p] = Append(f[p], e), \A x \in Promises : x # p => g[x] = f[x]
    PROVE  Apart(g, l) /\ Outstanding(g, l) \subseteq Outstanding(f, l) \cup {e}
<1>1. /\ Len(f[p]) \in Nat /\ Len(g[p]) = Len(f[p]) + 1 /\ g[p][Len(f[p]) + 1] = e
      /\ \A i \in 1 .. Len(f[p]) : g[p][i] = f[p][i]
  <2>1. f[p] \in Seq(Entries)
    BY DEF Bags
  <2> QED
    BY <2>1, AppendFacts, EmptyFacts
<1>2. ASSUME NEW x \in Promises, NEW i \in 1 .. Len(g[x])
      PROVE  \/ i \in 1 .. Len(f[x]) /\ g[x][i] = f[x][i]
             \/ x = p /\ i = Len(f[p]) + 1 /\ g[x][i] = e
  <2>1. CASE x = p
    BY <1>1, <2>1
  <2>2. CASE x # p
    BY <2>2
  <2> QED
    BY <2>1, <2>2
<1>3. /\ \A x \in Promises : \A i \in 1 .. Len(f[x]) : f[x][i].res # e.res /\ f[x][i] \in Entries
      /\ \A i \in 1 .. Len(l) : l[i].res # e.res
  <2>1. \A x \in Promises : f[x] \in Seq(Entries)
    BY DEF Bags
  <2>2. /\ \A x \in Promises : \A i \in 1 .. Len(f[x]) : f[x][i] \in Entries
        /\ \A i \in 1 .. Len(l) : l[i] \in Entries
    BY <2>1, EmptyFacts
  <2> QED
    BY <2>2 DEF Outstanding
<1>4. ASSUME NEW x \in Promises, NEW y \in Promises, NEW i \in 1 .. Len(g[x]),
             NEW j \in 1 .. Len(g[y]), g[x][i].res = g[y][j].res
      PROVE  x = y /\ i = j
  <2>1. CASE i \in 1 .. Len(f[x]) /\ g[x][i] = f[x][i] /\ j \in 1 .. Len(f[y]) /\ g[y][j] = f[y][j]
    BY <1>4, <2>1 DEF Apart
  <2>2. CASE x = p /\ i = Len(f[p]) + 1 /\ g[x][i] = e
    BY <1>2, <1>3, <1>4, <2>2
  <2>3. CASE y = p /\ j = Len(f[p]) + 1 /\ g[y][j] = e
    BY <1>2, <1>3, <1>4, <2>3
  <2> QED
    BY <1>2, <2>1, <2>2, <2>3
<1>5. \A x \in Promises : \A i \in 1 .. Len(g[x]) : \A j \in 1 .. Len(l) : g[x][i].res # l[j].res
  BY <1>2, <1>3 DEF Apart
<1>6. Apart(g, l)
  BY <1>4, <1>5 DEF Apart
<1>7. Outstanding(g, l) \subseteq Outstanding(f, l) \cup {e}
  BY <1>2 DEF Outstanding
<1> QED
  BY <1>6, <1>7

\* processQueue takes the entries of a promise when its list is empty.
LEMMA TakeApart ==
    ASSUME NEW f \in Bags, NEW g \in Bags, NEW p \in Promises, Apart(f, <<>>),
           g[p] = <<>>, \A x \in Promises : x # p => g[x] = f[x]
    PROVE  Apart(g, f[p]) /\ Outstanding(g, f[p]) \subseteq Outstanding(f, <<>>)
<1>1. Len(<<>>) = 0
  OBVIOUS
<1>2. \A x \in Promises : \A i \in 1 .. Len(g[x]) : x # p /\ g[x] = f[x]
  BY <1>1
<1>3. Apart(g, f[p])
  BY <1>2 DEF Apart
<1>4. Outstanding(g, f[p]) \subseteq Outstanding(f, <<>>)
  BY <1>2 DEF Outstanding
<1> QED
  BY <1>3, <1>4

\* What the types say about each promise and its entries.
LEMMA EntryTypes ==
    QueueType =>
        /\ Pending \in Bags /\ proc.list \in Seq(Entries)
        /\ \A p \in Promises : /\ promise[p].pending \in Seq(Entries)
                               /\ Pending[p] = promise[p].pending
                               /\ promise[p].status \in {-1, 0, 1, 2}
        /\ \A e \in Entries : e.res \in Derived /\ e.res \in Promises /\ e.res \notin Deferred
        /\ \A e \in Outstanding(Pending, proc.list) : e \in Entries
<1> SUFFICES ASSUME QueueType
             PROVE  /\ Pending \in Bags /\ proc.list \in Seq(Entries)
                    /\ \A p \in Promises : /\ promise[p].pending \in Seq(Entries)
                                           /\ Pending[p] = promise[p].pending
                                           /\ promise[p].status \in {-1, 0, 1, 2}
                    /\ \A e \in Entries : /\ e.res \in Derived /\ e.res \in Promises
                                          /\ e.res \notin Deferred
                    /\ \A e \in Outstanding(Pending, proc.list) : e \in Entries
  OBVIOUS
<1>1. \A p \in Promises : promise[p].pending \in Seq(Entries) /\ promise[p].status \in {-1, 0, 1, 2}
  BY DEF QueueType, PromiseType
<1>2. \A e \in Entries : e.res \in Derived /\ e.res \in Promises /\ e.res \notin Deferred
  BY DigestAssumption DEF Entries, Promises
<1>3. proc.list \in Seq(Entries)
  BY DEF QueueType
<1> QED
  BY <1>1, <1>2, <1>3 DEF Pending, Bags, Outstanding

\* The promise the head of the list is to settle is not settled.
LEMMA HeadWaits ==
    ASSUME QueueType, EntriesInv, proc.list # <<>>
    PROVE  LET d == Head(proc.list).res IN
           /\ d \in Derived /\ d \in Promises /\ d \notin Deferred
           /\ promise[d].used /\ promise[d].status \in {-1, 0}
<1>1. Head(proc.list) \in Outstanding(Pending, proc.list)
  BY EntryTypes, TailApart DEF EntriesInv
<1>2. Waiting(Head(proc.list)) /\ Head(proc.list) \in Entries
  BY <1>1, EntryTypes DEF EntriesInv
<1>3. /\ Head(proc.list).res \in Derived /\ Head(proc.list).res \in Promises
      /\ Head(proc.list).res \notin Deferred
      /\ promise[Head(proc.list).res].status \in {-1, 0, 1, 2}
  BY <1>2, EntryTypes
<1> QED
  BY <1>2, <1>3 DEF Waiting

\* No step settles a promise that is settled.
LEMMA StatusStep ==
    ASSUME QueueType, EntriesInv, Kinds
    PROVE  \A p \in Promises : promise[p].status > 0 => promise'[p].status = promise[p].status
<1> SUFFICES ASSUME NEW p \in Promises, promise[p].status > 0
             PROVE  promise'[p].status = promise[p].status
  OBVIOUS
<1>1. CASE UNCHANGED promise \/ (\E x \in Promises : Take(x))
           \/ (\E x \in Promises : \E e \in Entries : Then(x, e))
  BY <1>1 DEF Take, Then
<1>2. ASSUME NEW x \in Deferred, NEW st \in {1, 2}, SettleDeferred(x, st)
      PROVE  promise'[p].status = promise[p].status
  BY <1>2 DEF SettleDeferred, Settle
<1>3. ASSUME NEW st \in {1, 2}, HeadSettles(st) PROVE promise'[p].status = promise[p].status
  <2>1. promise[Head(proc.list).res].status \in {-1, 0}
    BY <1>3, HeadWaits DEF HeadSettles, HeadDone
  <2>2. p # Head(proc.list).res
    BY <2>1
  <2> QED
    BY <1>3, <2>2 DEF HeadSettles, Settle
<1>4. ASSUME NEW r \in Promises, HeadAdopts(r) PROVE promise'[p].status = promise[p].status
  <2>1. promise[Head(proc.list).res].status \in {-1, 0}
    BY <1>4, HeadWaits DEF HeadAdopts, HeadDone
  <2>2. p # Head(proc.list).res
    BY <2>1
  <2> QED
    BY <1>4, <2>2 DEF HeadAdopts
<1> QED
  BY <1>1, <1>2, <1>3, <1>4 DEF Kinds, Quiet, PlainEnds, PlainQueued, Emptied

\* Entries that wait stay apart.
LEMMA EntriesStep == QueueType /\ QueueType' /\ EntriesInv /\ Kinds => EntriesInv'
<1> SUFFICES ASSUME QueueType, QueueType', EntriesInv, Kinds PROVE EntriesInv'
  OBVIOUS
<1> DEFINE f == Pending
           l == proc.list
           g == Pending'
           m == proc'.list
<1>0. /\ f \in Bags /\ g \in Bags /\ l \in Seq(Entries) /\ m \in Seq(Entries)
      /\ \A x \in Promises : f[x] = promise[x].pending /\ g[x] = promise'[x].pending
      /\ \A e \in Entries : e.res \in Derived /\ e.res \in Promises /\ e.res \notin Deferred
      /\ \A r \in Derived : r \in Promises
  <2>1. g \in Bags /\ \A x \in Promises : g[x] = promise'[x].pending
    <3>1. \A x \in Promises : promise'[x].pending \in Seq(Entries)
      BY DEF QueueType, PromiseType
    <3> QED
      BY <3>1 DEF Pending, Bags
  <2>2. m \in Seq(Entries)
    BY DEF QueueType
  <2> QED
    BY <2>1, <2>2, EntryTypes DEF Promises
<1>1. /\ Apart(f, l)
      /\ \A e \in Outstanding(f, l) : /\ promise[e.res].used /\ promise[e.res].status <= 0
                                      /\ e.res \in Derived /\ e.res \in Promises
                                      /\ e.res \notin Deferred
      /\ \A r \in Derived : ~promise[r].used => promise[r].status = 0
  BY EntryTypes DEF EntriesInv, Waiting
<1>2. SUFFICES /\ \A r \in Derived : ~promise'[r].used => promise'[r].status = 0
               /\ \A e \in Outstanding(g, m) : promise'[e.res].used /\ promise'[e.res].status <= 0
               /\ Apart(g, m)
  BY DEF EntriesInv, Waiting
<1> HIDE DEF f, g, l, m
<1> DEFINE Goal == /\ \A r \in Derived : ~promise'[r].used => promise'[r].status = 0
                   /\ \A e \in Outstanding(g, m) :
                         promise'[e.res].used /\ promise'[e.res].status <= 0
                   /\ Apart(g, m)
<1>3. CASE UNCHANGED <<promise, proc>>
  <2>1. g = f /\ m = l
    BY <1>3 DEF f, g, l, m, Pending
  <2> QED
    BY <1>1, <1>3, <2>1
<1>4. ASSUME NEW p \in Promises, Take(p) PROVE Goal
  <2>0. /\ \A x \in Promises : promise'[x].pending = IF x = p THEN <<>> ELSE promise[x].pending
        /\ proc'.list = promise[p].pending /\ proc.list = <<>>
    BY <1>4 DEF Take
  <2>1. g[p] = <<>> /\ (\A x \in Promises : x # p => g[x] = f[x]) /\ m = f[p] /\ l = <<>>
    BY <1>0, <2>0 DEF l, m
  <2>2. Apart(g, m) /\ Outstanding(g, m) \subseteq Outstanding(f, l)
    BY <1>0, <1>1, <2>1, TakeApart
  <2>3. \A x \in Promises : promise'[x].status = promise[x].status /\ promise'[x].used = promise[x].used
    BY <1>4 DEF Take
  <2> QED
    BY <1>0, <1>1, <2>2, <2>3
<1>5. ASSUME NEW p \in Deferred, NEW st \in {1, 2}, SettleDeferred(p, st) PROVE Goal
  <2>1. \A x \in Promises : /\ promise'[x].pending = promise[x].pending
                            /\ promise'[x].used = promise[x].used
                            /\ promise'[x].status = IF x = p THEN st ELSE promise[x].status
    BY <1>5 DEF SettleDeferred, Settle
  <2>2. g = f
    BY <2>1 DEF f, g, Pending
  <2>3. m = l
    BY <1>5 DEF SettleDeferred, l, m
  <2>4. \A r \in Derived : r # p
    BY DigestAssumption
  <2> QED
    BY <1>0, <1>1, <2>1, <2>2, <2>3, <2>4
<1>6. ASSUME NEW p \in Promises, NEW e \in Entries, Then(p, e) PROVE Goal
  <2>1. /\ \A x \in Promises : /\ promise'[x].used = IF x = e.res THEN TRUE ELSE promise[x].used
                               /\ promise'[x].status = promise[x].status
        /\ ~promise[e.res].used /\ e.res \in Derived
    BY <1>0, <1>6 DEF Then
  <2>2. m = l /\ g[p] = Append(f[p], e) /\ \A x \in Promises : x # p => g[x] = f[x]
    BY <1>0, <1>6 DEF Then, Pend, l, m
  <2>3. \A x \in Outstanding(f, l) : x.res # e.res
    BY <1>1, <2>1
  <2>4. Apart(g, m) /\ Outstanding(g, m) \subseteq Outstanding(f, l) \cup {e}
    BY <1>0, <1>1, <2>2, <2>3, EnterApart
  <2>5. promise[e.res].status = 0
    BY <1>1, <2>1
  <2>6. ASSUME NEW x \in Outstanding(g, m) PROVE promise'[x.res].used /\ promise'[x.res].status <= 0
    <3>1. CASE x = e
      <4>1. e.res \in Promises
        BY <1>0
      <4>2. promise'[e.res].used
        BY <2>1, <4>1
      <4>3. promise'[e.res].status = 0
        BY <2>1, <2>5, <4>1
      <4> QED
        BY <3>1, <4>2, <4>3
    <3>2. CASE x # e
      <4>1. x \in Outstanding(f, l)
        BY <2>4, <3>2
      <4>2. promise[x.res].used /\ promise[x.res].status <= 0 /\ x.res \in Promises /\ x.res # e.res
        BY <1>1, <2>3, <4>1
      <4> QED
        BY <2>1, <4>2
    <3> QED
      BY <3>1, <3>2
  <2>7. \A r \in Derived : ~promise'[r].used => promise'[r].status = 0
    BY <1>0, <1>1, <2>1
  <2> QED
    BY <2>4, <2>6, <2>7
<1>7. ASSUME NEW st \in {1, 2}, HeadSettles(st) PROVE Goal
  <2> DEFINE d == Head(l).res
  <2>1. \A x \in Promises : /\ promise'[x].pending = promise[x].pending
                            /\ promise'[x].used = promise[x].used
                            /\ promise'[x].status = IF x = d THEN st ELSE promise[x].status
    BY <1>7 DEF HeadSettles, Settle, l
  <2>2. g = f
    BY <2>1 DEF f, g, Pending
  <2>3. m = Tail(l) /\ l # <<>>
    BY <1>7 DEF HeadSettles, HeadDone, l, m
  <2>4. Apart(f, m) /\ Outstanding(f, m) \subseteq Outstanding(f, l)
        /\ \A x \in Outstanding(f, m) : x.res # d
    BY <1>0, <1>1, <2>3, TailApart
  <2>5. promise[d].used
    BY <2>3, HeadWaits DEF l
  <2> HIDE DEF d
  <2> QED
    BY <1>0, <1>1, <2>1, <2>2, <2>4, <2>5
<1>8. ASSUME NEW r \in Promises, HeadAdopts(r) PROVE Goal
  <2> DEFINE d == Head(l).res
             a == Entry("adopt", d, {})
  <2>1. \A x \in Promises : /\ promise'[x].used = promise[x].used
                            /\ promise'[x].status = IF x = d THEN -1 ELSE promise[x].status
    BY <1>8 DEF HeadAdopts, l
  <2>2. m = Tail(l) /\ l # <<>>
    BY <1>8 DEF HeadAdopts, HeadDone, l, m
  <2>3. g[r] = Append(f[r], a) /\ \A x \in Promises : x # r => g[x] = f[x]
    BY <1>0, <1>8 DEF HeadAdopts, Pend, l
  <2>4. /\ Apart(f, m) /\ Outstanding(f, m) \subseteq Outstanding(f, l)
        /\ \A x \in Outstanding(f, m) : x.res # d
    BY <1>0, <1>1, <2>2, TailApart
  <2>5. d \in Derived /\ promise[d].used
    BY <2>2, HeadWaits DEF l
  <2>6. a \in Entries /\ a.res = d
    BY <2>5 DEF Entry, Entries
  <2> HIDE DEF d, a
  <2>7. Apart(g, m) /\ Outstanding(g, m) \subseteq Outstanding(f, m) \cup {a}
    BY <1>0, <2>3, <2>4, <2>6, EnterApart
  <2>8. ASSUME NEW e \in Outstanding(g, m) PROVE promise'[e.res].used /\ promise'[e.res].status <= 0
    BY <1>0, <1>1, <2>1, <2>4, <2>5, <2>6, <2>7
  <2>9. \A x \in Derived : ~promise'[x].used => promise'[x].status = 0
    BY <1>0, <1>1, <2>1, <2>5
  <2> QED
    BY <2>7, <2>8, <2>9
<1> QED
  BY <1>3, <1>4, <1>5, <1>6, <1>7, <1>8 DEF Kinds, Quiet, PlainEnds, PlainQueued, Emptied

-----------------------------------------------------------------------------

\* The entries that have run and those in processQueue's list, together.
Past(p) == hist.ran[p] \o Held(p)

\* Dealing with the head moves it from the list to what has run.
LEMMA HeadPast ==
    ASSUME QueueType, HeadDone
    PROVE  \A p \in Promises : Past(p)' = Past(p)
<1> SUFFICES ASSUME NEW p \in Promises PROVE Past(p)' = Past(p)
  OBVIOUS
<1>1. /\ proc.list # <<>> /\ proc'.list = Tail(proc.list)
      /\ Tail(proc.list) # <<>> => proc'.p = proc.p
      /\ hist'.ran = [hist.ran EXCEPT ![proc.p] = Append(@, Head(proc.list))]
  BY DEF HeadDone
<1>2. /\ proc.p \in Promises /\ proc.list \in Seq(Entries)
      /\ hist.ran \in [Promises -> Seq(Entries)] /\ hist.ran[p] \in Seq(Entries)
  BY <1>1 DEF QueueType
<1>3. CASE p = proc.p
  <2>1. Held(p) = proc.list /\ Held(p)' = Tail(proc.list)
    BY <1>1, <1>3 DEF Held
  <2>2. hist'.ran[p] = Append(hist.ran[p], Head(proc.list))
    BY <1>1, <1>2, <1>3
  <2> DEFINE r == hist.ran[p]
             s == proc.list
  <2>3. Append(r, Head(s)) \o Tail(s) = r \o s
    <3>1. r \in Seq(Entries) /\ s \in Seq(Entries) /\ s # <<>>
      BY <1>1, <1>2
    <3> HIDE DEF r, s
    <3> QED
      BY <3>1, HeadMoves, ZenonT(30)
  <2>4. Past(p)' = hist'.ran[p] \o Held(p)'
    BY DEF Past
  <2> QED
    BY <2>1, <2>2, <2>3, <2>4 DEF Past
<1>4. CASE p # proc.p
  <2>1. Held(p) = <<>> /\ Held(p)' = <<>>
    BY <1>1, <1>4 DEF Held
  <2>2. hist'.ran[p] = hist.ran[p]
    BY <1>1, <1>2, <1>4
  <2> QED
    BY <2>1, <2>2 DEF Past
<1> QED
  BY <1>3, <1>4

\* Entries run in the order of their registration.
LEMMA OrderStep == QueueType /\ QueueType' /\ OrderInv /\ Kinds => OrderInv'
<1> SUFFICES ASSUME QueueType, QueueType', OrderInv, Kinds, NEW x \in Promises
             PROVE  hist'.entered[x] = Past(x)' \o promise'[x].pending
  BY DEF OrderInv, Past
<1> DEFINE Goal == hist'.entered[x] = Past(x)' \o promise'[x].pending
<1>0. /\ hist.entered[x] = Past(x) \o promise[x].pending
      /\ promise[x].pending \in Seq(Entries) /\ hist.ran[x] \in Seq(Entries)
      /\ hist.entered \in [Promises -> Seq(Entries)]
      /\ Held(x) \in Seq(Entries) /\ Past(x) \in Seq(Entries)
  <2>1. hist.entered[x] = Past(x) \o promise[x].pending
    BY DEF OrderInv, Past
  <2>2. /\ promise[x].pending \in Seq(Entries) /\ hist.ran[x] \in Seq(Entries)
        /\ hist.entered \in [Promises -> Seq(Entries)]
    BY EntryTypes DEF QueueType
  <2>3. Held(x) \in Seq(Entries)
    BY DEF Held, QueueType
  <2>4. Past(x) \in Seq(Entries)
    BY <2>2, <2>3, ConcatProperties DEF Past
  <2> QED
    BY <2>1, <2>2, <2>3, <2>4
<1>1. ASSUME NEW e \in Entries, NEW p \in Promises, Pend(p, e), Past(x)' = Past(x) PROVE Goal
  <2>1. /\ hist'.entered[x] = IF x = p THEN Append(hist.entered[x], e) ELSE hist.entered[x]
        /\ promise'[x].pending =
              IF x = p THEN Append(promise[x].pending, e) ELSE promise[x].pending
    BY <1>0, <1>1 DEF Pend
  <2>2. Past(x) \o Append(promise[x].pending, e) = Append(Past(x) \o promise[x].pending, e)
    <3> DEFINE a == Past(x)
               b == promise[x].pending
    <3>1. a \in Seq(Entries) /\ b \in Seq(Entries) /\ e \in Entries
      BY <1>0
    <3> HIDE DEF a, b
    <3>2. a \o Append(b, e) = Append(a \o b, e)
      BY <3>1, AppendConcat
    <3> QED
      BY <3>2 DEF a, b
  <2> QED
    BY <1>0, <1>1, <2>1, <2>2
<1>2. ASSUME promise'[x].pending = promise[x].pending, hist'.entered = hist.entered,
             Past(x)' = Past(x)
      PROVE  Goal
  BY <1>0, <1>2
<1>3. ASSUME SameHistory, UNCHANGED proc PROVE Past(x)' = Past(x)
  BY <1>3 DEF SameHistory, Past, Held
<1>4. CASE Quiet \/ PlainEnds \/ PlainQueued \/ Emptied
  <2>1. UNCHANGED <<promise, proc>> /\ SameHistory
    BY <1>4 DEF Quiet, PlainEnds, PlainQueued, Emptied
  <2> QED
    BY <1>2, <1>3, <2>1 DEF SameHistory
<1>5. ASSUME NEW p \in Promises, Take(p) PROVE Goal
  <2>1. /\ Held(x) = <<>>
        /\ Held(x)' = IF x = p THEN promise[x].pending ELSE <<>>
        /\ promise'[x].pending = IF x = p THEN <<>> ELSE promise[x].pending
        /\ hist'.ran[x] = hist.ran[x] /\ hist'.entered[x] = hist.entered[x]
    BY <1>5 DEF Take, Held, SameHistory
  <2>2. /\ hist.ran[x] \o <<>> = hist.ran[x]
        /\ (hist.ran[x] \o promise[x].pending) \o <<>> = hist.ran[x] \o promise[x].pending
    BY <1>0, ConcatEmptySeq, ConcatProperties
  <2> QED
    BY <1>0, <2>1, <2>2 DEF Past
<1>6. ASSUME NEW p \in Deferred, NEW st \in {1, 2}, SettleDeferred(p, st) PROVE Goal
  BY <1>2, <1>3, <1>6 DEF SettleDeferred, Settle, SameHistory
<1>7. ASSUME NEW p \in Promises, NEW e \in Entries, Then(p, e) PROVE Goal
  <2>1. Past(x)' = Past(x)
    BY <1>7 DEF Then, Past, Held
  <2> QED
    BY <1>1, <1>7, <2>1 DEF Then
<1>8. ASSUME NEW st \in {1, 2}, HeadSettles(st) PROVE Goal
  <2>1. Past(x)' = Past(x)
    BY <1>8, HeadPast DEF HeadSettles
  <2> QED
    BY <1>2, <1>8, <2>1 DEF HeadSettles, Settle
<1>9. ASSUME NEW r \in Promises, HeadAdopts(r) PROVE Goal
  <2>1. Past(x)' = Past(x)
    BY <1>9, HeadPast DEF HeadAdopts
  <2>2. Entry("adopt", Head(proc.list).res, {}) \in Entries
    <3>1. proc.list # <<>>
      BY <1>9 DEF HeadAdopts, HeadDone
    <3>2. Head(proc.list).res \in Derived
      BY <3>1, EntryFacts, EntryTypes
    <3> QED
      BY <3>2 DEF Entry, Entries
  <2>3. Pend(r, Entry("adopt", Head(proc.list).res, {}))
    BY <1>9 DEF HeadAdopts
  <2> QED
    BY <1>1, <2>1, <2>2, <2>3
<1> QED
  BY <1>4, <1>5, <1>6, <1>7, <1>8, <1>9 DEF Kinds

-----------------------------------------------------------------------------

\* A step after which a task for p is queued if it is needed, and nothing else is.
Schedules(p) ==
    /\ asyncQueue' = asyncQueue \/ asyncQueue' = Append(asyncQueue, ProcessTask(p))
    /\ asyncQueue' # asyncQueue => promise'[p].status > 0
    /\ \A x \in Promises : x # p =>
          /\ promise'[x].scheduled => promise[x].scheduled
          /\ promise[x].scheduled => promise'[x].scheduled
          /\ promise'[x].status > 0 /\ promise'[x].pending # <<>> =>
                promise[x].status > 0 /\ promise[x].pending # <<>>
    /\ promise'[p].status > 0 /\ promise'[p].pending # <<>> => promise'[p].scheduled
    /\ promise'[p].scheduled =>
          promise[p].scheduled \/ asyncQueue' = Append(asyncQueue, ProcessTask(p))

\* Settling and entering schedule.
LEMMA SettleSchedules ==
    ASSUME QueueType, NEW p \in Promises, NEW st \in {1, 2}, Settle(p, st)
    PROVE  Schedules(p)
<1>1. asyncQueue' = asyncQueue \/ asyncQueue' = Append(asyncQueue, ProcessTask(p))
  BY DEF Settle
<1>2. promise'[p].status > 0
  BY DEF Settle
<1>3. \A x \in Promises : x # p =>
         /\ promise'[x].scheduled => promise[x].scheduled
         /\ promise[x].scheduled => promise'[x].scheduled
         /\ promise'[x].status = promise[x].status /\ promise'[x].pending = promise[x].pending
  BY DEF Settle
<1>4. promise'[p].pending # <<>> => promise'[p].scheduled
  BY DEF Settle
<1>5. promise'[p].scheduled =>
          promise[p].scheduled \/ asyncQueue' = Append(asyncQueue, ProcessTask(p))
  BY DEF Settle
<1> QED
  BY <1>1, <1>2, <1>3, <1>4, <1>5 DEF Schedules

\* Entering schedules, if no promise becomes settled by the step.
LEMMA PendSchedules ==
    ASSUME QueueType, NEW p \in Promises, NEW e \in Entries, Pend(p, e),
           promise'[p].status = promise[p].status,
           \A x \in Promises : promise'[x].status > 0 => promise[x].status > 0
    PROVE  Schedules(p)
<1>1. asyncQueue' = asyncQueue \/ asyncQueue' = Append(asyncQueue, ProcessTask(p))
  BY DEF Pend
<1>2. asyncQueue' # asyncQueue => promise'[p].status > 0
  BY DEF Pend
<1>3. \A x \in Promises : x # p =>
         /\ promise'[x].scheduled => promise[x].scheduled
         /\ promise[x].scheduled => promise'[x].scheduled
         /\ promise'[x].pending = promise[x].pending
  BY DEF Pend
<1>4. promise'[p].status > 0 => promise'[p].scheduled
  BY DEF Pend
<1>5. promise'[p].scheduled =>
          promise[p].scheduled \/ asyncQueue' = Append(asyncQueue, ProcessTask(p))
  BY DEF Pend
<1> QED
  BY <1>1, <1>2, <1>3, <1>4, <1>5 DEF Schedules

\* Every step is of one of these kinds with respect to tasks.
LEMMA TaskKindsOfSteps ==
    ASSUME QueueType, EntriesInv, Kinds
    PROVE  \/ UNCHANGED promise /\ (Quiet \/ PlainEnds \/ PlainQueued \/ Emptied)
           \/ \E p \in Promises : Take(p)
           \/ \E p \in Promises : Schedules(p) /\ Begun' = Begun
<1> DEFINE Goal == \E p \in Promises : Schedules(p) /\ Begun' = Begun
<1>1. ASSUME HeadDone PROVE Begun' = Begun
  BY <1>1 DEF HeadDone, Begun
<1>2. ASSUME NEW p \in Deferred, NEW st \in {1, 2}, SettleDeferred(p, st) PROVE Goal
  <2>1. p \in Promises
    BY DEF Promises
  <2>2. Begun' = Begun
    BY <1>2 DEF SettleDeferred, Begun
  <2> QED
    BY <1>2, <2>1, <2>2, SettleSchedules DEF SettleDeferred
<1>3. ASSUME NEW p \in Promises, NEW e \in Entries, Then(p, e) PROVE Goal
  <2>1. Begun' = Begun
    BY <1>3 DEF Then, Begun
  <2> QED
    BY <1>3, <2>1, PendSchedules DEF Then
<1>4. ASSUME NEW st \in {1, 2}, HeadSettles(st) PROVE Goal
  <2>1. Head(proc.list).res \in Promises
    BY <1>4, EntryFacts DEF HeadSettles, HeadDone
  <2> QED
    BY <1>1, <1>4, <2>1, SettleSchedules DEF HeadSettles
<1>5. ASSUME NEW r \in Promises, HeadAdopts(r) PROVE Goal
  <2>1. Head(proc.list).res \in Derived /\ r # Head(proc.list).res
    BY <1>5, HeadWaits DEF HeadAdopts, HeadDone
  <2>2. Entry("adopt", Head(proc.list).res, {}) \in Entries
    BY <2>1 DEF Entry, Entries
  <2>3. /\ promise'[r].status = promise[r].status
        /\ \A x \in Promises : promise'[x].status > 0 => promise[x].status > 0
    BY <1>5, <2>1 DEF HeadAdopts
  <2>4. Schedules(r)
    BY <1>5, <2>2, <2>3, PendSchedules DEF HeadAdopts
  <2> QED
    BY <1>1, <1>5, <2>4 DEF HeadAdopts
<1> QED
  BY <1>2, <1>3, <1>4, <1>5 DEF Kinds, Quiet, PlainEnds, PlainQueued, Emptied

\* Whoever is scheduled has a task to come.
ToCome(p) == \E i \in 1 .. Len(asyncQueue) : i > Begun /\ asyncQueue[i] = ProcessTask(p)

\* Entries of a settled promise keep a task that is to come.
LEMMA TaskStep == QueueType /\ ControlInv /\ EntriesInv /\ TaskInv /\ Kinds => TaskInv'
<1> SUFFICES ASSUME QueueType, ControlInv, EntriesInv, TaskInv, Kinds, NEW x \in Promises
             PROVE  /\ promise'[x].status > 0 /\ promise'[x].pending # <<>> => promise'[x].scheduled
                    /\ promise'[x].scheduled => ToCome(x)'
  BY DEF TaskInv, ToCome
<1> DEFINE Goal == /\ promise'[x].status > 0 /\ promise'[x].pending # <<>> => promise'[x].scheduled
                   /\ promise'[x].scheduled => ToCome(x)'
<1>0. /\ promise[x].status > 0 /\ promise[x].pending # <<>> => promise[x].scheduled
      /\ promise[x].scheduled => ToCome(x)
      /\ Len(asyncQueue) \in Nat /\ dig.pos \in Nat /\ Begun \in Nat
  <2>1. asyncQueue \in Seq(Tasks) /\ dig.pos \in Nat
    BY DEF QueueType
  <2> QED
    BY <2>1, EmptyFacts DEF TaskInv, ToCome, Begun
<1>1. ASSUME \/ asyncQueue' = asyncQueue
             \/ \E t \in Tasks : asyncQueue' = Append(asyncQueue, t),
             ToCome(x), Begun' = Begun
      PROVE  ToCome(x)'
  <2>1. PICK i \in 1 .. Len(asyncQueue) : i > Begun /\ asyncQueue[i] = ProcessTask(x)
    BY <1>1 DEF ToCome
  <2>2. /\ Len(asyncQueue) \in Nat /\ Len(asyncQueue') \in Nat
        /\ Len(asyncQueue') >= Len(asyncQueue) /\ asyncQueue'[i] = asyncQueue[i]
    BY <1>1, QueueKeeps
  <2>3. i \in 1 .. Len(asyncQueue') /\ i > Begun' /\ asyncQueue'[i] = ProcessTask(x)
    BY <1>1, <2>1, <2>2
  <2> QED
    BY <2>3 DEF ToCome
<1>2. CASE Quiet
  BY <1>0, <1>2 DEF Quiet, ToCome, Begun
<1>3. CASE PlainEnds
  <2>1. /\ UNCHANGED <<promise, asyncQueue>> /\ Begun = dig.pos /\ Begun' = dig.pos + 1
        /\ asyncQueue[dig.pos + 1] = PlainTask
    BY <1>3 DEF PlainEnds, Begun, ControlInv
  <2>2. ASSUME ToCome(x) PROVE ToCome(x)'
    <3>1. PICK i \in 1 .. Len(asyncQueue) : i > Begun /\ asyncQueue[i] = ProcessTask(x)
      BY <2>2 DEF ToCome
    <3>2. ProcessTask(x) # PlainTask
      BY TaskKinds
    <3>3. i # dig.pos + 1
      BY <2>1, <3>1, <3>2
    <3>4. i > Begun' /\ i \in 1 .. Len(asyncQueue') /\ asyncQueue'[i] = ProcessTask(x)
      BY <1>0, <2>1, <3>1, <3>3
    <3> QED
      BY <3>4 DEF ToCome
  <2> QED
    BY <1>0, <2>1, <2>2
<1>4. CASE PlainQueued
  <2>1. Begun' = Begun /\ UNCHANGED promise /\ asyncQueue' = Append(asyncQueue, PlainTask)
    BY <1>4 DEF PlainQueued, Begun
  <2>2. PlainTask \in Tasks
    BY DEF Tasks
  <2> QED
    BY <1>0, <1>1, <2>1, <2>2
<1>5. CASE Emptied
  <2>1. UNCHANGED promise /\ Begun = Len(asyncQueue)
    BY <1>5 DEF Emptied, Begun
  <2>2. ~ToCome(x)
    BY <1>0, <2>1 DEF ToCome
  <2> QED
    BY <1>0, <2>1, <2>2
<1>6. ASSUME NEW p \in Promises, Take(p) PROVE Goal
  <2>1. /\ promise'[x].pending = IF x = p THEN <<>> ELSE promise[x].pending
        /\ promise'[x].scheduled = IF x = p THEN FALSE ELSE promise[x].scheduled
        /\ promise'[x].status = promise[x].status
        /\ asyncQueue' = asyncQueue /\ asyncQueue[dig.pos + 1] = ProcessTask(p)
        /\ dig'.pos = dig.pos /\ proc.list = <<>>
    BY <1>6 DEF Take
  <2>2. CASE x = p
    BY <2>1, <2>2
  <2>3. CASE x # p
    <3>1. ASSUME ToCome(x) PROVE ToCome(x)'
      <4>1. PICK i \in 1 .. Len(asyncQueue) : i > Begun /\ asyncQueue[i] = ProcessTask(x)
        BY <3>1 DEF ToCome
      <4>2. i # dig.pos + 1
        BY <2>1, <2>3, <4>1, TaskKinds
      <4>3. Begun = dig.pos /\ (Begun' = dig.pos \/ Begun' = dig.pos + 1)
        BY <2>1 DEF Begun
      <4>4. i > Begun' /\ i \in 1 .. Len(asyncQueue') /\ asyncQueue'[i] = ProcessTask(x)
        BY <1>0, <2>1, <4>1, <4>2, <4>3
      <4> QED
        BY <4>4 DEF ToCome
    <3>2. /\ promise'[x].pending = promise[x].pending /\ promise'[x].status = promise[x].status
          /\ promise'[x].scheduled = promise[x].scheduled
      BY <2>1, <2>3
    <3> QED
      BY <1>0, <3>1, <3>2
  <2> QED
    BY <2>2, <2>3
<1>7. ASSUME NEW p \in Promises, Schedules(p), Begun' = Begun PROVE Goal
  <2>1. asyncQueue' = asyncQueue \/ \E t \in Tasks : asyncQueue' = Append(asyncQueue, t)
    BY <1>7, TaskKinds DEF Schedules
  <2>2. ASSUME asyncQueue' = Append(asyncQueue, ProcessTask(p)) PROVE ToCome(p)'
    <3>1. asyncQueue \in Seq(Tasks) /\ ProcessTask(p) \in Tasks
      BY TaskKinds DEF QueueType
    <3>2. Len(asyncQueue') = Len(asyncQueue) + 1 /\ asyncQueue'[Len(asyncQueue) + 1] = ProcessTask(p)
      BY <2>2, <3>1, AppendFacts
    <3>3. Begun <= Len(asyncQueue)
      BY <1>0 DEF Begun, ControlInv
    <3>4. /\ Len(asyncQueue) + 1 \in 1 .. Len(asyncQueue') /\ Len(asyncQueue) + 1 > Begun'
      BY <1>0, <1>7, <3>2, <3>3
    <3> QED
      BY <3>2, <3>4 DEF ToCome
  <2>3. CASE x = p
    <3>1. promise'[x].status > 0 /\ promise'[x].pending # <<>> => promise'[x].scheduled
      BY <1>7, <2>3 DEF Schedules
    <3>2. ASSUME promise'[x].scheduled PROVE ToCome(x)'
      <4>1. promise[x].scheduled \/ asyncQueue' = Append(asyncQueue, ProcessTask(p))
        BY <1>7, <2>3, <3>2 DEF Schedules
      <4> QED
        BY <1>0, <1>1, <1>7, <2>1, <2>2, <2>3, <4>1
    <3> QED
      BY <3>1, <3>2
  <2>4. CASE x # p
    <3>1. /\ promise'[x].scheduled => promise[x].scheduled
          /\ promise[x].scheduled => promise'[x].scheduled
          /\ promise'[x].status > 0 /\ promise'[x].pending # <<>> =>
                promise[x].status > 0 /\ promise[x].pending # <<>>
      BY <1>7, <2>4 DEF Schedules
    <3> QED
      BY <1>0, <1>1, <1>7, <2>1, <3>1
  <2> QED
    BY <2>3, <2>4
<1> QED
  BY <1>2, <1>3, <1>4, <1>5, <1>6, <1>7, TaskKindsOfSteps

\* Tasks, the list and what has run belong to settled promises.
LEMMA SettledStep == QueueType /\ EntriesInv /\ SettledInv /\ Kinds => SettledInv'
<1> SUFFICES ASSUME QueueType, EntriesInv, SettledInv, Kinds PROVE SettledInv'
  OBVIOUS
<1>0. \A p \in Promises : promise[p].status > 0 => promise'[p].status > 0
  BY StatusStep
<1>1. ASSUME NEW i \in 1 .. Len(asyncQueue'), NEW p \in Promises, asyncQueue'[i] = ProcessTask(p)
      PROVE  promise'[p].status > 0
  <2>0. asyncQueue \in Seq(Tasks) /\ Len(asyncQueue) \in Nat
    BY EmptyFacts DEF QueueType
  <2>1. CASE asyncQueue' = asyncQueue
    BY <1>0, <1>1, <2>1 DEF SettledInv
  <2>2. CASE asyncQueue' = Append(asyncQueue, PlainTask)
    <3>1. /\ Len(asyncQueue') = Len(asyncQueue) + 1 /\ asyncQueue'[Len(asyncQueue) + 1] = PlainTask
          /\ \A n \in 1 .. Len(asyncQueue) : asyncQueue'[n] = asyncQueue[n]
      BY <2>0, <2>2, AppendFacts, TaskKinds DEF Tasks
    <3>2. ProcessTask(p) # PlainTask
      BY TaskKinds
    <3>3. i \in 1 .. Len(asyncQueue) /\ asyncQueue[i] = ProcessTask(p)
      BY <1>1, <2>0, <3>1, <3>2
    <3> QED
      BY <1>0, <3>3 DEF SettledInv
  <2>3. CASE Emptied
    BY <2>3 DEF Emptied
  <2>4. ASSUME NEW y \in Promises, Schedules(y) PROVE promise'[p].status > 0
    <3>1. CASE asyncQueue' = asyncQueue
      BY <2>1, <3>1
    <3>2. CASE asyncQueue' = Append(asyncQueue, ProcessTask(y)) /\ asyncQueue' # asyncQueue
      <4>1. /\ Len(asyncQueue') = Len(asyncQueue) + 1
            /\ asyncQueue'[Len(asyncQueue) + 1] = ProcessTask(y)
            /\ \A n \in 1 .. Len(asyncQueue) : asyncQueue'[n] = asyncQueue[n]
        BY <2>0, <3>2, AppendFacts, TaskKinds
      <4>2. CASE i = Len(asyncQueue) + 1
        <5>1. p = y
          BY <1>1, <4>1, <4>2, TaskKinds
        <5> QED
          BY <2>4, <3>2, <5>1 DEF Schedules
      <4>3. CASE i # Len(asyncQueue) + 1
        <5>1. i \in 1 .. Len(asyncQueue) /\ asyncQueue[i] = ProcessTask(p)
          BY <1>1, <2>0, <4>1, <4>3
        <5> QED
          BY <1>0, <5>1 DEF SettledInv
      <4> QED
        BY <4>2, <4>3
    <3> QED
      BY <2>4, <3>1, <3>2 DEF Schedules
  <2> QED
    BY <2>1, <2>2, <2>3, <2>4, TaskKindsOfSteps DEF Quiet, PlainEnds, PlainQueued, Take
<1>2. ASSUME HeadDone
      PROVE  /\ proc'.list # <<>> => promise'[proc'.p].status > 0
             /\ \A p \in Promises : hist'.ran[p] # <<>> => promise'[p].status > 0
  <2>1. proc.p \in Promises /\ promise[proc.p].status > 0 /\ hist.ran \in [Promises -> Seq(Entries)]
    BY <1>2 DEF HeadDone, QueueType, SettledInv
  <2>2. proc'.list # <<>> => proc'.p = proc.p
    BY <1>2 DEF HeadDone
  <2>3. \A p \in Promises : p # proc.p => hist'.ran[p] = hist.ran[p]
    BY <1>2, <2>1 DEF HeadDone
  <2> QED
    BY <1>0, <2>1, <2>2, <2>3 DEF SettledInv
<1>3. ASSUME UNCHANGED proc, hist'.ran = hist.ran
      PROVE  /\ proc'.list # <<>> => promise'[proc'.p].status > 0
             /\ \A p \in Promises : hist'.ran[p] # <<>> => promise'[p].status > 0
  <2>1. proc.list # <<>> => proc.p \in Promises
    BY DEF QueueType
  <2> QED
    BY <1>0, <1>3, <2>1 DEF SettledInv
<1>4. ASSUME NEW p \in Promises, Take(p)
      PROVE  /\ proc'.list # <<>> => promise'[proc'.p].status > 0
             /\ \A y \in Promises : hist'.ran[y] # <<>> => promise'[y].status > 0
  <2>1. dig.pos + 1 \in 1 .. Len(asyncQueue) /\ asyncQueue[dig.pos + 1] = ProcessTask(p)
    <3>1. dig.pos \in Nat /\ Len(asyncQueue) \in Nat
      BY EmptyFacts DEF QueueType
    <3> QED
      BY <1>4, <3>1 DEF Take
  <2>2. promise[p].status > 0 /\ proc'.p = p /\ hist'.ran = hist.ran
    BY <1>4, <2>1 DEF SettledInv, Take, SameHistory
  <2> QED
    BY <1>0, <2>2 DEF SettledInv
<1>5. /\ proc'.list # <<>> => promise'[proc'.p].status > 0
      /\ \A p \in Promises : hist'.ran[p] # <<>> => promise'[p].status > 0
  BY <1>2, <1>3, <1>4 DEF Kinds, Quiet, PlainEnds, PlainQueued, Emptied, SettleDeferred, Then,
                          HeadSettles, HeadAdopts, SameHistory
<1> QED
  BY <1>1, <1>5 DEF SettledInv

-----------------------------------------------------------------------------

\* The invariant holds in every state of the digest.
THEOREM Invariance == Spec => []IndInv
<1>1. Init => IndInv
  BY InitInd
<1>2. IndInv /\ [Next]_vars => IndInv'
  BY Steps, ControlStep, EntriesStep, OrderStep, TaskStep, SettledStep DEF IndInv
<1> QED
  BY <1>1, <1>2, PTL DEF Spec

\* A promise that is fulfilled or rejected stays so: neither a second resolve or reject
\* of its Deferred nor any entry of processQueue changes it.
THEOREM StaysSettled == Spec => SettledOnce
<1>1. IndInv /\ [Next]_vars =>
          [\A p \in Promises : promise[p].status > 0 => promise'[p].status = promise[p].status]_vars
  BY Steps, StatusStep DEF IndInv
<1> QED
  BY <1>1, Invariance, PTL DEF Spec, SettledOnce

\* The callbacks of every promise run once each, in the order of then(), only after it is
\* settled, and none is left when the page is at rest.
THEOREM CallbacksRun == Spec => []CallbacksOnceInOrder
<1>1. ASSUME IndInv PROVE CallbacksOnceInOrder
  <2> SUFFICES ASSUME NEW p \in Promises
               PROVE  /\ IsPrefix(hist.ran[p], hist.entered[p])
                      /\ hist.ran[p] # <<>> => promise[p].status > 0
                      /\ (at = "idle" /\ asyncQueue = <<>> /\ promise[p].status > 0) =>
                            hist.ran[p] = hist.entered[p]
    BY DEF CallbacksOnceInOrder
  <2> DEFINE r == hist.ran[p]
             h == Held(p)
             w == promise[p].pending
  <2>0. QueueType /\ ControlInv /\ OrderInv /\ TaskInv /\ SettledInv
    BY <1>1 DEF IndInv
  <2>1. r \in Seq(Entries) /\ h \in Seq(Entries) /\ w \in Seq(Entries)
    BY <2>0, EntryTypes DEF QueueType, Held
  <2>2. hist.entered[p] = (r \o h) \o w
    BY <2>0 DEF OrderInv
  <2> HIDE DEF r, h, w
  <2>3. hist.entered[p] = r \o (h \o w) /\ h \o w \in Seq(Entries)
    BY <2>1, <2>2, ConcatAssociative, ConcatProperties
  <2>4. IsPrefix(r, hist.entered[p])
    <3> DEFINE t == h \o w
    <3>1. t \in Seq(Entries) /\ hist.entered[p] = r \o t
      BY <2>3
    <3> HIDE DEF t
    <3>2. Len(r) \in Nat /\ Len(t) \in Nat /\ Len(r \o t) = Len(r) + Len(t)
      BY <2>1, <3>1, ConcatProperties, EmptyFacts
    <3>3. CASE Len(r) = 0
      <4>1. SubSeq(r, 1, Len(r)) = <<>> /\ SubSeq(r \o t, 1, Len(r)) = <<>>
        BY <3>3, SubSeqEmpty
      <4> QED
        BY <3>1, <3>2, <3>3, <4>1 DEF IsPrefix
    <3>4. CASE Len(r) # 0
      <4>1. 1 \in 1 .. Len(r) /\ Len(r) \in 1 .. Len(r)
        BY <3>2, <3>4
      <4>2. SubSeq(r \o t, 1, Len(r)) = SubSeq(r, 1, Len(r))
        BY <2>1, <3>1, <4>1, SubSeqOfConcat1
      <4> QED
        BY <3>1, <3>2, <4>2 DEF IsPrefix
    <3> QED
      BY <3>3, <3>4
  <2>5. r # <<>> => promise[p].status > 0
    BY <2>0 DEF SettledInv, r
  <2>6. ASSUME at = "idle", asyncQueue = <<>>, promise[p].status > 0 PROVE r = hist.entered[p]
    <3>1. h = <<>>
      BY <2>0, <2>6 DEF ControlInv, Held, h
    <3>2. ~promise[p].scheduled
      BY <2>0, <2>6 DEF TaskInv
    <3>3. w = <<>>
      BY <2>0, <2>6, <3>2 DEF TaskInv, w
    <3>4. r \o <<>> = r
      BY <2>1, ConcatEmptySeq
    <3> QED
      BY <2>2, <3>1, <3>3, <3>4
  <2> QED
    BY <2>4, <2>5, <2>6 DEF r
<1> QED
  BY <1>1, Invariance, PTL

-----------------------------------------------------------------------------
(***************************************************************************)
(* The tree of scopes.                                                     *)
(***************************************************************************)

ScopeType == [parent : Scopes \cup {NoScope}, kids : Seq(Scopes), watchers : Seq(Nat), index : Int,
              count : Int, born : BOOLEAN, live : BOOLEAN]

\* NoScope is no scope, and the root no child.
LEMMA ScopeNames == /\ NoScope \notin Scopes /\ Root \in Scopes /\ Children \subseteq Scopes
                    /\ Root \notin Children /\ Controller \in Children
  BY DigestAssumption DEF Scopes

\* The ancestors of a scope are the least set with the scope and the parents of its members.
LEMMA AncestorFacts ==
    ASSUME NEW t \in [Scopes -> ScopeType], NEW s \in Scopes
    PROVE  /\ s \in Ancestors(t, s)
           /\ Ancestors(t, s) \subseteq Scopes
           /\ \A x \in Ancestors(t, s) : t[x].parent \in Ancestors(t, s) \cup {NoScope}
           /\ \A up \in SUBSET Scopes :
                 s \in up /\ (\A x \in up : t[x].parent \in up \cup {NoScope}) => Ancestors(t, s) \subseteq up
<1>1. Ancestors(t, s) = {x \in Scopes : \A up \in SUBSET Scopes :
          (s \in up /\ \A y \in up : t[y].parent \in up \cup {NoScope}) => x \in up}
  BY DEF Ancestors, HasParents
<1>2. \A x \in Scopes : t[x].parent \in Scopes \cup {NoScope}
  BY DEF ScopeType
<1>3. ASSUME NEW x \in Ancestors(t, s), t[x].parent # NoScope PROVE t[x].parent \in Ancestors(t, s)
  <2>1. x \in Scopes /\ t[x].parent \in Scopes
    BY <1>1, <1>2, <1>3
  <2>2. ASSUME NEW up \in SUBSET Scopes, s \in up, \A y \in up : t[y].parent \in up \cup {NoScope}
        PROVE  t[x].parent \in up
    BY <1>1, <1>3, <2>2
  <2> QED
    BY <1>1, <2>1, <2>2
<1> QED
  BY <1>1, <1>3

\* The least such set, for a set at hand.
LEMMA AncestorsLeast ==
    ASSUME NEW t \in [Scopes -> ScopeType], NEW s \in Scopes, NEW up \in SUBSET Scopes, s \in up,
           \A x \in up : t[x].parent \in up \cup {NoScope}
    PROVE  Ancestors(t, s) \subseteq up
  BY AncestorFacts

\* What is above an ancestor is above the scope.
LEMMA AncestorsOfAncestor ==
    ASSUME NEW t \in [Scopes -> ScopeType], NEW s \in Scopes, NEW x \in Ancestors(t, s)
    PROVE  Ancestors(t, x) \subseteq Ancestors(t, s)
<1>1. x \in Scopes
  BY AncestorFacts
<1> QED
  BY <1>1, AncestorFacts

\* The ancestors of a scope but for itself are those of its parent.
LEMMA AncestorStep ==
    ASSUME NEW t \in [Scopes -> ScopeType], NEW s \in Scopes
    PROVE  Ancestors(t, s) = {s} \cup IF t[s].parent = NoScope THEN {} ELSE Ancestors(t, t[s].parent)
<1>1. t[s].parent \in Scopes \cup {NoScope}
  BY DEF ScopeType
<1>2. CASE t[s].parent = NoScope
  <2>1. Ancestors(t, s) \subseteq {s}
    <3> DEFINE up == {s}
    <3>1. up \in SUBSET Scopes /\ s \in up /\ \A x \in up : t[x].parent \in up \cup {NoScope}
      BY <1>2
    <3>2. Ancestors(t, s) \subseteq up
      <4> HIDE DEF up
      <4> QED
        BY <3>1, AncestorsLeast
    <3> QED
      BY <3>2
  <2> QED
    BY <1>2, <2>1, AncestorFacts
<1>3. CASE t[s].parent \in Scopes
  <2> DEFINE up == {s} \cup Ancestors(t, t[s].parent)
  <2>1. up \in SUBSET Scopes /\ s \in up /\ \A x \in up : t[x].parent \in up \cup {NoScope}
    BY <1>3, AncestorFacts
  <2>2. Ancestors(t, s) \subseteq up
    <3> HIDE DEF up
    <3> QED
      BY <2>1, AncestorsLeast
  <2>3. t[s].parent \in Ancestors(t, s)
    BY <1>3, AncestorFacts, ScopeNames
  <2>4. up \subseteq Ancestors(t, s)
    BY <2>3, AncestorFacts, AncestorsOfAncestor
  <2> QED
    BY <1>3, <2>2, <2>4, ScopeNames
<1> QED
  BY <1>1, <1>2, <1>3

\* The ancestors of a scope form a chain.
LEMMA AncestorsLinear ==
    ASSUME NEW t \in [Scopes -> ScopeType], NEW s \in Scopes, NEW x \in Ancestors(t, s),
           NEW y \in Ancestors(t, s)
    PROVE  x \in Ancestors(t, y) \/ y \in Ancestors(t, x)
<1> DEFINE up == {z \in Ancestors(t, s) : x \in Ancestors(t, z)} \cup Ancestors(t, x)
<1>1. x \in Scopes /\ y \in Scopes
  BY AncestorFacts
<1>2. ASSUME NEW z \in up PROVE t[z].parent \in up \cup {NoScope}
  <2>1. CASE z \in Ancestors(t, x)
    BY <1>1, <2>1, AncestorFacts
  <2>2. CASE z \in Ancestors(t, s) /\ x \in Ancestors(t, z) /\ z # x
    <3>1. z \in Scopes
      BY <2>2, AncestorFacts
    <3>2. t[z].parent # NoScope /\ x \in Ancestors(t, t[z].parent)
      BY <2>2, <3>1, AncestorStep
    <3>3. t[z].parent \in Ancestors(t, s)
      BY <2>2, <3>2, AncestorFacts
    <3> QED
      BY <3>2, <3>3
  <2>3. CASE z = x
    BY <1>1, <2>3, AncestorFacts
  <2> QED
    BY <2>1, <2>2, <2>3
<1>3. up \in SUBSET Scopes /\ s \in up
  BY <1>1, AncestorFacts
<1>4. Ancestors(t, s) \subseteq up
  <2> HIDE DEF up
  <2> QED
    BY <1>2, <1>3, AncestorsLeast
<1> QED
  BY <1>4

\* They only depend on the parents of the ancestors.
LEMMA AncestorsSame ==
    ASSUME NEW t \in [Scopes -> ScopeType], NEW u \in [Scopes -> ScopeType], NEW s \in Scopes,
           \A x \in Ancestors(t, s) : u[x].parent = t[x].parent
    PROVE  Ancestors(u, s) = Ancestors(t, s)
<1>1. Ancestors(u, s) \subseteq Ancestors(t, s)
  BY AncestorFacts
<1>2. \A x \in Ancestors(u, s) : t[x].parent \in Ancestors(u, s) \cup {NoScope}
  <2> SUFFICES ASSUME NEW x \in Ancestors(u, s)
               PROVE  t[x].parent \in Ancestors(u, s) \cup {NoScope}
    OBVIOUS
  <2>1. u[x].parent = t[x].parent
    BY <1>1
  <2> QED
    BY <2>1, AncestorFacts
<1>3. Ancestors(t, s) \subseteq Ancestors(u, s)
  BY <1>2, AncestorFacts
<1> QED
  BY <1>1, <1>3

-----------------------------------------------------------------------------
(***************************************************************************)
(* The steps, by what they do to the tree.                                 *)
(***************************************************************************)

Above(s) == Ancestors(scope, s)

\* The variables of the page, and where the digest is in the lists of watchers.
PageType ==
    /\ scope \in [Scopes -> ScopeType]
    /\ model \in [Vars -> Vals]
    /\ watch \in Seq([var : Vars, last : Vals \cup {NoVal}])
    /\ lastDirtyWatch \in 0 .. Len(watch)
    /\ \A s \in Scopes :
          /\ scope[s].index \in -1 .. Len(scope[s].watchers)
          /\ \A i \in 1 .. Len(scope[s].watchers) : scope[s].watchers[i] \in 1 .. Len(watch)

\* The scopes that live are those the root is above of, and parents and children know
\* each other.
TreeInv ==
    /\ scope[Root].parent = NoScope
    /\ \A s \in Scopes : scope[s].live <=> Root \in Above(s)
    /\ \A s \in Scopes : ~scope[s].born =>
          scope[s].parent = NoScope /\ ~scope[s].live /\ \A x \in Scopes : scope[x].parent # s
    /\ \A s \in Children : scope[s].live =>
          \E i \in DOMAIN scope[scope[s].parent].kids : scope[scope[s].parent].kids[i] = s
    /\ \A s \in Scopes : scope[s].live =>
          \A i, j \in DOMAIN scope[s].kids :
             /\ scope[scope[s].kids[i]].parent = s
             /\ scope[s].kids[i] = scope[s].kids[j] => i = j

SameScope(x) ==
    /\ scope'[x].parent = scope[x].parent
    /\ scope'[x].kids = scope[x].kids
    /\ scope'[x].watchers = scope[x].watchers
    /\ scope'[x].count = scope[x].count
    /\ scope'[x].born = scope[x].born
    /\ scope'[x].live = scope[x].live

\* Only the digest's places in the lists change.
OnlyIndex ==
    \A x \in Scopes : SameScope(x) /\ scope'[x].index \in -1 .. Len(scope[x].watchers)

\* Scope c is born below p.
Birth(p, c) ==
    /\ p \in Scopes /\ c \in Children /\ p # c /\ scope[p].live /\ ~scope[c].born
    /\ scope'[c] = NewScope(p)
    /\ scope'[p].parent = scope[p].parent
    /\ scope'[p].kids = Append(scope[p].kids, c)
    /\ scope'[p].watchers = scope[p].watchers
    /\ scope'[p].index = scope[p].index
    /\ scope'[p].count = scope[p].count
    /\ scope'[p].live = scope[p].live
    /\ scope'[p].born = scope[p].born
    /\ \A x \in Scopes \ {p, c} : scope'[x] = scope[x]

\* Scope s gets the watchers w, with which the digest is at place i; n more are counted.
Rewatch(s, w, i, n) ==
    /\ s \in Scopes
    /\ scope'[s].watchers = w /\ scope'[s].index = i
    /\ \A x \in Scopes \ {s} : /\ scope'[x].watchers = scope[x].watchers
                               /\ scope'[x].index = scope[x].index
    /\ \A x \in Scopes :
          /\ scope'[x].parent = scope[x].parent /\ scope'[x].kids = scope[x].kids
          /\ scope'[x].born = scope[x].born /\ scope'[x].live = scope[x].live
          /\ scope'[x].count = IF x \in Above(s) THEN scope[x].count + n ELSE scope[x].count

\* Scope s is cut off.
Death(s) ==
    /\ s \in Children /\ scope[s].live
    /\ scope'[s].parent = NoScope /\ scope'[s].kids = <<>>
    /\ scope[s].parent # s => scope'[scope[s].parent].kids = RemoveAt(scope[scope[s].parent].kids, Place(s))
    /\ \A x \in Scopes \ {s} :
          /\ scope'[x].parent = scope[x].parent
          /\ x # scope[s].parent => scope'[x].kids = scope[x].kids
    /\ \A x \in Scopes :
          /\ scope'[x].watchers = scope[x].watchers /\ scope'[x].index = scope[x].index
          /\ scope'[x].count = IF x \in Above(s) THEN scope[x].count - scope[s].count ELSE scope[x].count
          /\ scope'[x].born = scope[x].born
          /\ scope'[x].live <=> scope[x].live /\ s \notin Above(x)

AddedWatch(s) == Rewatch(s, <<Len(watch) + 1>> \o scope[s].watchers, scope[s].index + 1, 1)
                 /\ scope[s].live /\ Len(watch') = Len(watch) + 1
RemovedWatch(s, i) ==
    /\ i \in DOMAIN scope[s].watchers
    /\ Rewatch(s, RemoveAt(scope[s].watchers, i),
               IF i - 1 < scope[s].index THEN scope[s].index - 1 ELSE scope[s].index, -1)

TreeKinds ==
    \/ OnlyIndex
    \/ \E p \in Scopes, c \in Children : Birth(p, c)
    \/ \E s \in Scopes : AddedWatch(s)
    \/ \E s \in Scopes : \E i \in DOMAIN scope[s].watchers : RemovedWatch(s, i)
    \/ \E s \in Children : Death(s)

\* What removing one element leaves of a sequence.
LEMMA RemoveFacts ==
    ASSUME NEW S, NEW s \in Seq(S), NEW i \in DOMAIN s
    PROVE  /\ RemoveAt(s, i) \in Seq(S)
           /\ Len(RemoveAt(s, i)) = Len(s) - 1
           /\ Len(s) \in Nat /\ i \in 1 .. Len(s)
           /\ \A j \in 1 .. Len(s) - 1 : RemoveAt(s, i)[j] = IF j < i THEN s[j] ELSE s[j + 1]
<1> DEFINE a == SubSeq(s, 1, i - 1)
           b == SubSeq(s, i + 1, Len(s))
<1>1. /\ Len(s) \in Nat /\ i \in 1 .. Len(s)
      /\ a \in Seq(S) /\ Len(a) = i - 1 /\ \A j \in 1 .. i - 1 : a[j] = s[j]
      /\ b \in Seq(S) /\ Len(b) = Len(s) - i /\ \A j \in 1 .. Len(s) - i : b[j] = s[i + j]
  OBVIOUS
<1>2. RemoveAt(s, i) = a \o b
  BY DEF RemoveAt
<1> HIDE DEF a, b
<1>3. /\ a \o b \in Seq(S) /\ Len(a \o b) = Len(a) + Len(b)
      /\ \A j \in 1 .. Len(a) + Len(b) : (a \o b)[j] = IF j <= Len(a) THEN a[j] ELSE b[j - Len(a)]
  BY <1>1, ConcatProperties
<1>4. Len(a) + Len(b) = Len(s) - 1
  BY <1>1
<1>5. ASSUME NEW j \in 1 .. Len(s) - 1 PROVE (a \o b)[j] = IF j < i THEN s[j] ELSE s[j + 1]
  <2>1. CASE j < i
    BY <1>1, <1>3, <1>4, <2>1
  <2>2. CASE ~(j < i)
    <3>1. j \in 1 .. Len(a) + Len(b) /\ ~(j <= Len(a)) /\ j - Len(a) \in 1 .. Len(s) - i
          /\ i + (j - Len(a)) = j + 1
      BY <1>1, <2>2
    <3> QED
      BY <1>1, <1>3, <2>2, <3>1
  <2> QED
    BY <2>1, <2>2
<1> QED
  BY <1>1, <1>2, <1>3, <1>4, <1>5

\* incrementWatchersCount changes the counts of the ancestors only.
LEMMA CountFacts ==
    ASSUME NEW t \in [Scopes -> ScopeType], NEW s \in Scopes, NEW n \in Int
    PROVE  /\ incrementWatchersCount(t, s, n) \in [Scopes -> ScopeType]
           /\ \A x \in Scopes :
                 LET u == incrementWatchersCount(t, s, n)[x] IN
                 /\ u.parent = t[x].parent /\ u.kids = t[x].kids /\ u.watchers = t[x].watchers
                 /\ u.index = t[x].index /\ u.born = t[x].born /\ u.live = t[x].live
                 /\ u.count = IF x \in Ancestors(t, s) THEN t[x].count + n ELSE t[x].count
<1> DEFINE u == incrementWatchersCount(t, s, n)
<1>1. u = [x \in Scopes |-> IF x \in Ancestors(t, s) THEN [t[x] EXCEPT !.count = @ + n] ELSE t[x]]
  BY DEF incrementWatchersCount
<1> HIDE DEF u
<1>2. ASSUME NEW x \in Scopes
      PROVE  /\ u[x] \in ScopeType
             /\ u[x].parent = t[x].parent /\ u[x].kids = t[x].kids /\ u[x].watchers = t[x].watchers
             /\ u[x].index = t[x].index /\ u[x].born = t[x].born /\ u[x].live = t[x].live
             /\ u[x].count = IF x \in Ancestors(t, s) THEN t[x].count + n ELSE t[x].count
  <2>1. t[x] \in ScopeType
    OBVIOUS
  <2>2. u[x] = IF x \in Ancestors(t, s) THEN [t[x] EXCEPT !.count = @ + n] ELSE t[x]
    BY <1>1
  <2> QED
    BY <2>1, <2>2 DEF ScopeType
<1>3. u \in [Scopes -> ScopeType]
  BY <1>1, <1>2
<1> QED
  BY <1>2, <1>3 DEF u

\* $new.
LEMMA NewChildStep ==
    ASSUME PageType, TreeInv, NEW p \in Scopes, scope[p].live, newChild(p)
    PROVE  scope' \in [Scopes -> ScopeType] /\ \E c \in Children : Birth(p, c)
<1>1. PICK c \in Children :
         /\ ~scope[c].born
         /\ scope' = [scope EXCEPT ![c] = NewScope(p), ![p].kids = Append(@, c)]
  BY DEF newChild
<1>2. c \in Scopes /\ scope \in [Scopes -> ScopeType]
  BY ScopeNames DEF PageType
<1>3. p # c
  BY <1>1, <1>2 DEF TreeInv
<1>4. /\ scope[p].kids \in Seq(Scopes)
      /\ Append(scope[p].kids, c) \in Seq(Scopes)
  <2>1. scope[p].kids \in Seq(Scopes)
    BY <1>2 DEF ScopeType
  <2> QED
    BY <1>2, <2>1, AppendFacts
<1>5. NewScope(p) \in ScopeType
  <2>1. <<>> \in Seq(Scopes) /\ <<>> \in Seq(Nat)
    OBVIOUS
  <2> QED
    BY <2>1 DEF NewScope, ScopeType
<1>6. scope' = [x \in Scopes |-> IF x = c THEN NewScope(p)
                                 ELSE IF x = p THEN [scope[p] EXCEPT !.kids = Append(@, c)]
                                 ELSE scope[x]]
  BY <1>1, <1>2, <1>3
<1>7. [scope[p] EXCEPT !.kids = Append(@, c)] \in ScopeType
  BY <1>2, <1>4 DEF ScopeType
<1>8. scope' \in [Scopes -> ScopeType]
  BY <1>2, <1>5, <1>6, <1>7
<1>9. /\ scope'[c] = NewScope(p)
      /\ scope'[p] = [scope[p] EXCEPT !.kids = Append(@, c)]
      /\ \A x \in Scopes \ {p, c} : scope'[x] = scope[x]
  BY <1>2, <1>3, <1>6
<1>10. /\ scope'[p].parent = scope[p].parent /\ scope'[p].kids = Append(scope[p].kids, c)
       /\ scope'[p].watchers = scope[p].watchers /\ scope'[p].index = scope[p].index
       /\ scope'[p].count = scope[p].count /\ scope'[p].live = scope[p].live
       /\ scope'[p].born = scope[p].born
  BY <1>2, <1>9 DEF ScopeType
<1>11. Birth(p, c)
  BY <1>1, <1>3, <1>9, <1>10 DEF Birth
<1> QED
  BY <1>8, <1>11

\* $watch.
LEMMA AddWatchStep ==
    ASSUME PageType, NEW s \in Scopes, NEW v \in Vars, scope[s].live, addWatch(s, v)
    PROVE  scope' \in [Scopes -> ScopeType] /\ AddedWatch(s)
<1> DEFINE w == <<Len(watch) + 1>> \o scope[s].watchers
           k == scope[s].index + 1
           t == [scope EXCEPT ![s].watchers = w, ![s].index = k]
<1>1. scope \in [Scopes -> ScopeType] /\ Len(watch) \in Nat
  BY DEF PageType
<1>2. scope[s].watchers \in Seq(Nat) /\ scope[s].index \in Int
  BY <1>1 DEF ScopeType
<1>3. w \in Seq(Nat) /\ k \in Int
  BY <1>1, <1>2
<1>9. scope' = incrementWatchersCount(t, s, 1) /\ watch' = Append(watch, [var |-> v, last |-> NoVal])
  <2>1. t = [scope EXCEPT ![s].watchers = <<Len(watch) + 1>> \o @, ![s].index = @ + 1]
    BY <1>1
  <2> QED
    BY <2>1 DEF addWatch
<1> HIDE DEF w, k
<1>4. t = [x \in Scopes |-> IF x = s THEN [scope[s] EXCEPT !.watchers = w, !.index = k] ELSE scope[x]]
  BY <1>1
<1> HIDE DEF t
<1>5. [scope[s] EXCEPT !.watchers = w, !.index = k] \in ScopeType
  BY <1>1, <1>3 DEF ScopeType
<1>6. t \in [Scopes -> ScopeType]
  BY <1>1, <1>4, <1>5
<1>7. /\ t[s].watchers = w /\ t[s].index = k
      /\ \A x \in Scopes \ {s} : t[x] = scope[x]
      /\ \A x \in Scopes : /\ t[x].parent = scope[x].parent /\ t[x].kids = scope[x].kids
                           /\ t[x].born = scope[x].born /\ t[x].live = scope[x].live
                           /\ t[x].count = scope[x].count
  BY <1>1, <1>4 DEF ScopeType
<1>8. Ancestors(t, s) = Above(s)
  BY <1>1, <1>6, <1>7, AncestorsSame, AncestorFacts DEF Above
<1>10. Len(watch') = Len(watch) + 1
  BY <1>9 DEF PageType
<1>11. scope' \in [Scopes -> ScopeType]
  BY <1>6, <1>9, CountFacts
<1>12. \A x \in Scopes :
          /\ scope'[x].parent = t[x].parent /\ scope'[x].kids = t[x].kids
          /\ scope'[x].watchers = t[x].watchers /\ scope'[x].index = t[x].index
          /\ scope'[x].born = t[x].born /\ scope'[x].live = t[x].live
          /\ scope'[x].count = IF x \in Above(s) THEN t[x].count + 1 ELSE t[x].count
  BY <1>6, <1>8, <1>9, CountFacts
<1>13. Rewatch(s, w, k, 1)
  BY <1>7, <1>12 DEF Rewatch
<1> QED
  BY <1>10, <1>11, <1>13 DEF AddedWatch, w, k

\* What $watch returned is called.
LEMMA DeregisterStep ==
    ASSUME PageType, NEW s \in Scopes, NEW i \in DOMAIN scope[s].watchers, deregisterWatch(s, i)
    PROVE  scope' \in [Scopes -> ScopeType] /\ RemovedWatch(s, i)
<1> DEFINE w == RemoveAt(scope[s].watchers, i)
           k == IF i - 1 < scope[s].index THEN scope[s].index - 1 ELSE scope[s].index
           t == [scope EXCEPT ![s].watchers = w, ![s].index = k]
<1>1. scope \in [Scopes -> ScopeType]
  BY DEF PageType
<1>2. scope[s].watchers \in Seq(Nat) /\ scope[s].index \in Int
  BY <1>1 DEF ScopeType
<1>3. w \in Seq(Nat) /\ k \in Int
  BY <1>2, RemoveFacts
<1>9. scope' = incrementWatchersCount(t, s, -1)
  <2>1. t = [scope EXCEPT ![s].watchers = RemoveAt(@, i),
                          ![s].index = IF i - 1 < @ THEN @ - 1 ELSE @]
    BY <1>1
  <2> QED
    BY <2>1 DEF deregisterWatch
<1> HIDE DEF w, k
<1>4. t = [x \in Scopes |-> IF x = s THEN [scope[s] EXCEPT !.watchers = w, !.index = k] ELSE scope[x]]
  BY <1>1
<1> HIDE DEF t
<1>5. [scope[s] EXCEPT !.watchers = w, !.index = k] \in ScopeType
  BY <1>1, <1>3 DEF ScopeType
<1>6. t \in [Scopes -> ScopeType]
  BY <1>1, <1>4, <1>5
<1>7. /\ t[s].watchers = w /\ t[s].index = k
      /\ \A x \in Scopes \ {s} : t[x] = scope[x]
      /\ \A x \in Scopes : /\ t[x].parent = scope[x].parent /\ t[x].kids = scope[x].kids
                           /\ t[x].born = scope[x].born /\ t[x].live = scope[x].live
                           /\ t[x].count = scope[x].count
  BY <1>1, <1>4 DEF ScopeType
<1>8. Ancestors(t, s) = Above(s)
  BY <1>1, <1>6, <1>7, AncestorsSame, AncestorFacts DEF Above
<1>11. scope' \in [Scopes -> ScopeType]
  BY <1>6, <1>9, CountFacts
<1>12. \A x \in Scopes :
          /\ scope'[x].parent = t[x].parent /\ scope'[x].kids = t[x].kids
          /\ scope'[x].watchers = t[x].watchers /\ scope'[x].index = t[x].index
          /\ scope'[x].born = t[x].born /\ scope'[x].live = t[x].live
          /\ scope'[x].count = IF x \in Above(s) THEN t[x].count + (-1) ELSE t[x].count
  BY <1>6, <1>8, <1>9, CountFacts
<1>13. Rewatch(s, w, k, -1)
  BY <1>7, <1>12 DEF Rewatch
<1> QED
  BY <1>11, <1>13 DEF RemovedWatch, w, k

\* A scope that lives has a parent that lives, and a place among its siblings.
LEMMA LiveParent ==
    ASSUME PageType, TreeInv, NEW s \in Children, scope[s].live
    PROVE  LET p == scope[s].parent IN
           /\ s \in Scopes /\ p \in Scopes /\ p # s /\ scope[p].live
           /\ Above(s) = {s} \cup Above(p)
           /\ Place(s) \in DOMAIN scope[p].kids /\ scope[p].kids[Place(s)] = s
<1> DEFINE p == scope[s].parent
<1>1. s \in Scopes /\ s # Root /\ scope \in [Scopes -> ScopeType]
  BY ScopeNames DEF PageType
<1>2. Root \in Above(s)
  BY <1>1 DEF TreeInv
<1>3. Above(s) = {s} \cup IF p = NoScope THEN {} ELSE Above(p)
  BY <1>1, AncestorStep DEF Above
<1>4. p # NoScope
  BY <1>1, <1>2, <1>3
<1>5. p \in Scopes
  BY <1>1, <1>4 DEF ScopeType
<1>6. p # s
  <2> SUFFICES ASSUME p = s PROVE FALSE
    OBVIOUS
  <2> DEFINE up == {s}
  <2>1. up \in SUBSET Scopes /\ s \in up /\ \A x \in up : scope[x].parent \in up \cup {NoScope}
    BY <1>1
  <2>2. Ancestors(scope, s) \subseteq up
    <3> HIDE DEF up
    <3> QED
      BY <1>1, <2>1, AncestorsLeast
  <2> QED
    BY <1>1, <1>2, <2>2 DEF Above
<1>7. scope[p].live
  BY <1>1, <1>2, <1>3, <1>4, <1>5 DEF TreeInv
<1>8. \E i \in DOMAIN scope[p].kids : scope[p].kids[i] = s
  BY DEF TreeInv
<1>9. Place(s) \in DOMAIN scope[p].kids /\ scope[p].kids[Place(s)] = s
  BY <1>8 DEF Place
<1> QED
  BY <1>1, <1>3, <1>4, <1>5, <1>6, <1>7, <1>9

\* $destroy.
LEMMA DestroyStep ==
    ASSUME PageType, TreeInv, NEW s \in Children, destroy(s)
    PROVE  scope' \in [Scopes -> ScopeType] /\ Death(s)
<1> DEFINE p == scope[s].parent
           t == incrementWatchersCount(scope, s, -scope[s].count)
           k == RemoveAt(scope[p].kids, Place(s))
           cut == [t EXCEPT ![p].kids = RemoveAt(@, Place(s)), ![s].parent = NoScope, ![s].kids = <<>>]
<1>1. /\ s \in Scopes /\ scope \in [Scopes -> ScopeType] /\ scope[s].live
      /\ p \in Scopes /\ p # s /\ Place(s) \in DOMAIN scope[p].kids
  BY LiveParent DEF PageType, destroy
<1>2. scope[p].kids \in Seq(Scopes) /\ -scope[s].count \in Int
  BY <1>1 DEF ScopeType
<1>3. k \in Seq(Scopes)
  BY <1>1, <1>2, RemoveFacts
<1>4. /\ t \in [Scopes -> ScopeType]
      /\ \A x \in Scopes :
            /\ t[x].parent = scope[x].parent /\ t[x].kids = scope[x].kids
            /\ t[x].watchers = scope[x].watchers /\ t[x].index = scope[x].index
            /\ t[x].born = scope[x].born /\ t[x].live = scope[x].live
            /\ t[x].count = IF x \in Above(s) THEN scope[x].count + (-scope[s].count) ELSE scope[x].count
  BY <1>1, <1>2, CountFacts DEF Above
<1>5. scope' = [x \in Scopes |-> IF x \in Below(s) THEN [cut[x] EXCEPT !.live = FALSE] ELSE cut[x]]
  BY DEF destroy
<1> HIDE DEF t
<1>6. /\ cut[s] = [t[s] EXCEPT !.parent = NoScope, !.kids = <<>>]
      /\ cut[p] = [t[p] EXCEPT !.kids = k]
      /\ \A x \in Scopes \ {s, p} : cut[x] = t[x]
  BY <1>1, <1>4
<1>17. p = scope[s].parent /\ k = RemoveAt(scope[p].kids, Place(s))
  OBVIOUS
<1> HIDE DEF cut, k, p
<1>18. t[s] \in ScopeType /\ t[p] \in ScopeType
  BY <1>1, <1>4
<1>7. /\ cut[s] \in ScopeType /\ cut[s].parent = NoScope /\ cut[s].kids = <<>>
      /\ cut[s].watchers = t[s].watchers /\ cut[s].index = t[s].index /\ cut[s].count = t[s].count
      /\ cut[s].born = t[s].born /\ cut[s].live = t[s].live
  <2>1. <<>> \in Seq(Scopes)
    OBVIOUS
  <2> QED
    BY <1>6, <1>18, <2>1 DEF ScopeType
<1>8. /\ cut[p] \in ScopeType /\ cut[p].parent = t[p].parent /\ cut[p].kids = k
      /\ cut[p].watchers = t[p].watchers /\ cut[p].index = t[p].index /\ cut[p].count = t[p].count
      /\ cut[p].born = t[p].born /\ cut[p].live = t[p].live
  BY <1>3, <1>6, <1>18 DEF ScopeType
<1>9. \A x \in Scopes : cut[x] \in ScopeType
  BY <1>4, <1>6, <1>7, <1>8
<1>10. ASSUME NEW x \in Scopes
       PROVE  /\ scope'[x] \in ScopeType
              /\ scope'[x].parent = cut[x].parent /\ scope'[x].kids = cut[x].kids
              /\ scope'[x].watchers = cut[x].watchers /\ scope'[x].index = cut[x].index
              /\ scope'[x].count = cut[x].count /\ scope'[x].born = cut[x].born
              /\ scope'[x].live = IF s \in Above(x) THEN FALSE ELSE cut[x].live
  <2>1. scope'[x] = IF s \in Above(x) THEN [cut[x] EXCEPT !.live = FALSE] ELSE cut[x]
    BY <1>5 DEF Below, Above
  <2> QED
    BY <1>9, <2>1 DEF ScopeType
<1>11. scope' \in [Scopes -> ScopeType]
  BY <1>5, <1>10
<1>12. /\ scope'[s].parent = NoScope /\ scope'[s].kids = <<>> /\ scope'[p].kids = k
       /\ \A x \in Scopes \ {s} : /\ scope'[x].parent = scope[x].parent
                                  /\ x # p => scope'[x].kids = scope[x].kids
  <2>1. ASSUME NEW x \in Scopes \ {s}
        PROVE  /\ scope'[x].parent = scope[x].parent
               /\ x # p => scope'[x].kids = scope[x].kids
    <3>1. /\ scope'[x].parent = cut[x].parent /\ scope'[x].kids = cut[x].kids
          /\ t[x].parent = scope[x].parent /\ t[x].kids = scope[x].kids
      BY <1>4, <1>10
    <3>2. x # p => cut[x] = t[x]
      BY <1>6
    <3> QED
      BY <1>8, <3>1, <3>2
  <2> QED
    BY <1>1, <1>7, <1>8, <1>10, <2>1
<1>13. \A x \in Scopes :
          /\ scope'[x].watchers = t[x].watchers /\ scope'[x].index = t[x].index
          /\ scope'[x].count = t[x].count /\ scope'[x].born = t[x].born
          /\ scope'[x].live = IF s \in Above(x) THEN FALSE ELSE t[x].live
  <2> SUFFICES ASSUME NEW x \in Scopes
               PROVE  /\ scope'[x].watchers = t[x].watchers /\ scope'[x].index = t[x].index
                      /\ scope'[x].count = t[x].count /\ scope'[x].born = t[x].born
                      /\ scope'[x].live = IF s \in Above(x) THEN FALSE ELSE t[x].live
    OBVIOUS
  <2>1. /\ cut[x].watchers = t[x].watchers /\ cut[x].index = t[x].index
        /\ cut[x].count = t[x].count /\ cut[x].born = t[x].born /\ cut[x].live = t[x].live
    BY <1>6, <1>7, <1>8
  <2> QED
    BY <1>10, <2>1
<1>14. \A x \in Scopes : scope[x].count \in Int
  BY <1>1 DEF ScopeType
<1>15. \A x \in Scopes :
          scope'[x].count = IF x \in Above(s) THEN scope[x].count - scope[s].count ELSE scope[x].count
  BY <1>1, <1>4, <1>13, <1>14
<1>16. \A x \in Scopes :
          /\ scope'[x].watchers = scope[x].watchers /\ scope'[x].index = scope[x].index
          /\ scope'[x].born = scope[x].born
          /\ scope'[x].live <=> scope[x].live /\ s \notin Above(x)
  BY <1>4, <1>13
<1> QED
  BY <1>1, <1>11, <1>12, <1>15, <1>16, <1>17 DEF Death

\* A change of the digest's places.
LEMMA IndexFacts ==
    ASSUME NEW t \in [Scopes -> ScopeType], NEW s, NEW k \in Int
    PROVE  /\ [t EXCEPT ![s].index = k] \in [Scopes -> ScopeType]
           /\ \A x \in Scopes :
                 LET u == [t EXCEPT ![s].index = k][x] IN
                 /\ u.parent = t[x].parent /\ u.kids = t[x].kids /\ u.watchers = t[x].watchers
                 /\ u.count = t[x].count /\ u.born = t[x].born /\ u.live = t[x].live
                 /\ u.index = IF x = s THEN k ELSE t[x].index
<1> DEFINE u == [t EXCEPT ![s].index = k]
<1>1. u = [x \in Scopes |-> IF x = s THEN [t[x] EXCEPT !.index = k] ELSE t[x]]
  OBVIOUS
<1> HIDE DEF u
<1>2. ASSUME NEW x \in Scopes
      PROVE  /\ u[x] \in ScopeType
             /\ u[x].parent = t[x].parent /\ u[x].kids = t[x].kids /\ u[x].watchers = t[x].watchers
             /\ u[x].count = t[x].count /\ u[x].born = t[x].born /\ u[x].live = t[x].live
             /\ u[x].index = IF x = s THEN k ELSE t[x].index
  <2>1. t[x] \in ScopeType
    OBVIOUS
  <2>2. u[x] = IF x = s THEN [t[x] EXCEPT !.index = k] ELSE t[x]
    BY <1>1
  <2> QED
    BY <2>1, <2>2 DEF ScopeType
<1>3. u \in [Scopes -> ScopeType]
  BY <1>1, <1>2
<1> QED
  BY <1>2, <1>3 DEF u

\* The digest's steps only move its places.
LEMMA EngineIndex ==
    ASSUME PageType, dig.current \in Scopes, TasksDone \/ CheckWatch \/ NextScope
    PROVE  scope' \in [Scopes -> ScopeType] /\ OnlyIndex
<1>0. scope \in [Scopes -> ScopeType] /\ Root \in Scopes
  BY ScopeNames DEF PageType
<1>1. \A x \in Scopes : Len(scope[x].watchers) \in Nat /\ scope[x].index \in -1 .. Len(scope[x].watchers)
  BY <1>0 DEF PageType, ScopeType
<1>2. CASE TasksDone
  <2>1. scope' = [scope EXCEPT ![Root].index = Len(scope[Root].watchers)]
    BY <1>2 DEF TasksDone
  <2>2. Len(scope[Root].watchers) \in Int
    BY <1>0, <1>1
  <2> QED
    BY <1>0, <1>1, <2>1, <2>2, IndexFacts DEF OnlyIndex, SameScope
<1>3. CASE CheckWatch
  <2> DEFINE s == dig.current
             k == scope[s].index - 1
  <2>1. scope' = [scope EXCEPT ![s].index = k] /\ scope[s].index > 0
    BY <1>3 DEF CheckWatch
  <2>2. k \in Int /\ k \in -1 .. Len(scope[s].watchers)
    BY <1>1, <2>1
  <2> HIDE DEF k
  <2> QED
    BY <1>0, <1>1, <2>1, <2>2, IndexFacts DEF OnlyIndex, SameScope
<1>4. CASE NextScope
  <2> DEFINE s == dig.current
             n == After(s)
             left == [scope EXCEPT ![s].index = -1]
             k == Len(scope[n].watchers)
  <2>9. -1 \in Int /\ left = [scope EXCEPT ![s].index = -1]
    OBVIOUS
  <2>1. scope' = left \/ (n # NoScope /\ scope' = [left EXCEPT ![n].index = k])
    BY <1>4 DEF NextScope
  <2> HIDE DEF left
  <2>2. left \in [Scopes -> ScopeType]
    BY <1>0, <2>9, IndexFacts
  <2>3. \A x \in Scopes :
           /\ left[x].parent = scope[x].parent /\ left[x].kids = scope[x].kids
           /\ left[x].watchers = scope[x].watchers /\ left[x].count = scope[x].count
           /\ left[x].born = scope[x].born /\ left[x].live = scope[x].live
           /\ left[x].index \in -1 .. Len(scope[x].watchers)
    BY <1>0, <1>1, <2>9, IndexFacts
  <2> HIDE DEF n
  <2>4. CASE scope' = left
    BY <2>2, <2>3, <2>4 DEF OnlyIndex, SameScope
  <2>5. CASE scope' # left /\ n \in Scopes
    <3>1. k \in Int /\ scope' = [left EXCEPT ![n].index = k]
      BY <1>1, <2>1, <2>5
    <3>2. \A x \in Scopes : x = n => k \in -1 .. Len(scope[x].watchers)
      BY <1>1
    <3> HIDE DEF k
    <3> QED
      BY <2>2, <2>3, <3>1, <3>2, IndexFacts DEF OnlyIndex, SameScope
  <2>6. CASE n \notin Scopes
    <3>1. [left EXCEPT ![n].index = k] = left
      BY <2>2, <2>6
    <3> QED
      BY <2>1, <2>4, <3>1
  <2> QED
    BY <2>4, <2>5, <2>6
<1> QED
  BY <1>2, <1>3, <1>4

\* Every step is of one of the kinds.
LEMMA TreeSteps ==
    ASSUME PageType, TreeInv, dig.current \in Scopes, [Next]_vars
    PROVE  scope' \in [Scopes -> ScopeType] /\ TreeKinds
<1>1. CASE UNCHANGED scope
  BY <1>1 DEF PageType, TreeKinds, OnlyIndex, SameScope
<1>2. CASE TasksDone \/ CheckWatch \/ NextScope
  BY <1>2, EngineIndex DEF TreeKinds
<1>3. CASE Effect /\ EditPage
  <2>1. CASE \E p \in Scopes : scope[p].live /\ newChild(p)
    BY <2>1, NewChildStep DEF TreeKinds
  <2>2. CASE \E s \in Children : destroy(s)
    BY <2>2, DestroyStep DEF TreeKinds
  <2>3. CASE \E s \in Scopes : \E v \in Vars : scope[s].live /\ addWatch(s, v)
    BY <2>3, AddWatchStep DEF TreeKinds
  <2>4. CASE \E s \in Scopes : \E i \in DOMAIN scope[s].watchers : deregisterWatch(s, i)
    BY <2>4, DeregisterStep DEF TreeKinds
  <2> QED
    BY <1>1, <1>3, <2>1, <2>2, <2>3, <2>4 DEF EditPage
<1>4. CASE Effect /\ ~EditPage
  <2>1. UNCHANGED scope
    BY <1>4 DEF Effect, Queue, UsePromise
  <2> QED
    BY <1>1, <2>1
<1>5. CASE Event \/ UNCHANGED vars
  BY <1>1, <1>5 DEF Event, vars
<1>6. CASE Engine
  <2>1. (TasksDone \/ CheckWatch \/ NextScope) \/ UNCHANGED scope
    BY <1>6 DEF Engine, LeaveOutside, LeaveApply, AsyncTimer, ApplyTimer, BeginDigest, Flush, NextTask,
                PlainTaskReturns, CallCallback, CallbackReturns, PassOn, EntryDone, ListenerReturns,
                EndPass, PostDigest
  <2> QED
    BY <1>1, <1>2, <2>1
<1> QED
  BY <1>3, <1>4, <1>5, <1>6 DEF Next

-----------------------------------------------------------------------------
(***************************************************************************)
(* The tree after a step.                                                  *)
(***************************************************************************)

\* Nothing is above the root.
LEMMA RootAlone == PageType /\ TreeInv => Above(Root) = {Root}
  BY AncestorStep, ScopeNames DEF PageType, TreeInv, Above

\* Steps that leave parents alone leave ancestors alone.
LEMMA AboveSame ==
    ASSUME PageType, scope' \in [Scopes -> ScopeType],
           \A x \in Scopes : scope'[x].parent = scope[x].parent
    PROVE  \A x \in Scopes : Above(x)' = Above(x)
<1> SUFFICES ASSUME NEW x \in Scopes PROVE Ancestors(scope', x) = Ancestors(scope, x)
  BY DEF Above
<1>1. scope \in [Scopes -> ScopeType]
  BY DEF PageType
<1>2. \A y \in Ancestors(scope, x) : scope'[y].parent = scope[y].parent
  BY <1>1, AncestorFacts
<1> QED
  BY <1>1, <1>2, AncestorsSame

\* The new scope is above no other, and has its parent's ancestors.
LEMMA BirthAbove ==
    ASSUME PageType, TreeInv, scope' \in [Scopes -> ScopeType], NEW p, NEW c, Birth(p, c)
    PROVE  /\ \A x \in Scopes \ {c} : c \notin Above(x) /\ Above(x)' = Above(x)
           /\ Above(c)' = {c} \cup Above(p) /\ Above(c) = {c}
<1>0. /\ scope \in [Scopes -> ScopeType] /\ c \in Scopes /\ p \in Scopes /\ p # c
      /\ scope'[c].parent = p /\ p # NoScope /\ scope[c].parent = NoScope
      /\ \A x \in Scopes \ {c} : scope'[x].parent = scope[x].parent
  <2>1. /\ c \in Scopes /\ p \in Scopes /\ p # c /\ p # NoScope
        /\ ~scope[c].born /\ scope'[c] = NewScope(p) /\ scope'[p].parent = scope[p].parent
        /\ \A x \in Scopes \ {p, c} : scope'[x] = scope[x]
    BY ScopeNames DEF Birth
  <2>2. scope'[c].parent = p
    BY <2>1 DEF NewScope
  <2> QED
    BY <2>1, <2>2 DEF PageType, TreeInv
<1>1. ASSUME NEW x \in Scopes \ {c} PROVE c \notin Above(x) /\ Above(x)' = Above(x)
  <2> DEFINE up == Scopes \ {c}
  <2>1. up \in SUBSET Scopes /\ x \in up
    OBVIOUS
  <2>2. \A y \in up : scope[y].parent \in up \cup {NoScope}
    <3>1. \A y \in Scopes : scope[y].parent \in Scopes \cup {NoScope} /\ scope[y].parent # c
      BY <1>0 DEF ScopeType, TreeInv, Birth
    <3> QED
      BY <3>1
  <2>3. Ancestors(scope, x) \subseteq up
    <3> HIDE DEF up
    <3> QED
      BY <1>0, <2>1, <2>2, AncestorsLeast
  <2>4. \A y \in Ancestors(scope, x) : scope'[y].parent = scope[y].parent
    BY <1>0, <2>3
  <2>5. Ancestors(scope', x) = Ancestors(scope, x)
    BY <1>0, <2>4, AncestorsSame
  <2> QED
    BY <2>3, <2>5 DEF Above
<1>2. Ancestors(scope', c) = {c} \cup Ancestors(scope', p)
  BY <1>0, AncestorStep
<1>3. Above(p)' = Above(p)
  BY <1>0, <1>1
<1>4. Above(c) = {c}
  BY <1>0, AncestorStep DEF Above
<1> QED
  BY <1>1, <1>2, <1>3, <1>4 DEF Above

\* A scope that is cut off takes what is below it away from the root.
LEMMA DeathAbove ==
    ASSUME PageType, TreeInv, scope' \in [Scopes -> ScopeType], NEW s, Death(s)
    PROVE  \A x \in Scopes : /\ s \notin Above(x) => Above(x)' = Above(x)
                             /\ s \in Above(x) => Root \notin Above(x)'
<1>0. /\ scope \in [Scopes -> ScopeType] /\ s \in Scopes /\ s # Root
      /\ scope'[s].parent = NoScope
      /\ \A x \in Scopes \ {s} : scope'[x].parent = scope[x].parent
  BY ScopeNames DEF PageType, Death
<1>1. ASSUME NEW x \in Scopes, s \notin Above(x) PROVE Above(x)' = Above(x)
  <2>1. \A y \in Ancestors(scope, x) : scope'[y].parent = scope[y].parent
    BY <1>0, <1>1, AncestorFacts DEF Above
  <2>2. Ancestors(scope', x) = Ancestors(scope, x)
    BY <1>0, <2>1, AncestorsSame
  <2> QED
    BY <2>2 DEF Above
<1>2. ASSUME NEW x \in Scopes, s \in Above(x) PROVE Root \notin Above(x)'
  <2> DEFINE up == {z \in Scopes : s \in Above(z)}
  <2>1. up \in SUBSET Scopes /\ x \in up
    BY <1>2
  <2>2. ASSUME NEW z \in up PROVE scope'[z].parent \in up \cup {NoScope}
    <3>1. CASE z = s
      BY <1>0, <3>1
    <3>2. CASE z # s
      <4>1. s \in Ancestors(scope, z) /\ z \in Scopes
        BY DEF Above
      <4>2. scope[z].parent # NoScope /\ s \in Ancestors(scope, scope[z].parent)
        BY <1>0, <3>2, <4>1, AncestorStep
      <4>3. scope[z].parent \in Scopes
        BY <1>0, <4>1, <4>2 DEF ScopeType
      <4> QED
        BY <1>0, <3>2, <4>1, <4>2, <4>3 DEF Above
    <3> QED
      BY <3>1, <3>2
  <2>3. Root \notin up
    BY <1>0, RootAlone
  <2>4. Ancestors(scope', x) \subseteq up
    <3> HIDE DEF up
    <3> QED
      BY <2>1, <2>2, AncestorsLeast
  <2> QED
    BY <2>3, <2>4 DEF Above
<1> QED
  BY <1>1, <1>2

\* A step that leaves parents, children and lives alone.
LEMMA TreeKept ==
    ASSUME PageType, TreeInv, scope' \in [Scopes -> ScopeType],
           \A x \in Scopes : /\ scope'[x].parent = scope[x].parent /\ scope'[x].kids = scope[x].kids
                             /\ scope'[x].born = scope[x].born /\ scope'[x].live = scope[x].live
    PROVE  TreeInv'
<1>0. \A s \in Scopes : scope[s].kids \in Seq(Scopes)
  BY DEF PageType, ScopeType
<1>1. scope'[Root].parent = NoScope
  BY ScopeNames DEF TreeInv
<1>2. \A s \in Scopes : scope'[s].live <=> Root \in Above(s)'
  BY AboveSame DEF TreeInv
<1>3. \A s \in Scopes : ~scope'[s].born =>
          scope'[s].parent = NoScope /\ ~scope'[s].live /\ \A x \in Scopes : scope'[x].parent # s
  BY DEF TreeInv
<1>4. ASSUME NEW s \in Children, scope'[s].live
      PROVE  \E i \in DOMAIN scope'[scope'[s].parent].kids : scope'[scope'[s].parent].kids[i] = s
  <2>1. s \in Scopes /\ scope[s].live /\ scope'[s].parent = scope[s].parent /\ scope[s].parent \in Scopes
    BY <1>4, LiveParent, ScopeNames
  <2>2. \E i \in DOMAIN scope[scope[s].parent].kids : scope[scope[s].parent].kids[i] = s
    BY <2>1 DEF TreeInv
  <2> QED
    BY <2>1, <2>2
<1>5. ASSUME NEW s \in Scopes, scope'[s].live, NEW i \in DOMAIN scope'[s].kids, NEW j \in DOMAIN scope'[s].kids
      PROVE  /\ scope'[scope'[s].kids[i]].parent = s
             /\ scope'[s].kids[i] = scope'[s].kids[j] => i = j
  <2>1. scope'[s].kids = scope[s].kids /\ scope[s].live /\ scope[s].kids[i] \in Scopes
    BY <1>0, <1>5
  <2> QED
    BY <1>5, <2>1 DEF TreeInv
<1> QED
  BY <1>1, <1>2, <1>3, <1>4, <1>5 DEF TreeInv

\* A new scope.
LEMMA TreeBirth ==
    ASSUME PageType, TreeInv, scope' \in [Scopes -> ScopeType], NEW p, NEW c, Birth(p, c)
    PROVE  TreeInv'
<1>0. /\ scope \in [Scopes -> ScopeType] /\ c \in Scopes /\ c \in Children /\ c # Root /\ p \in Scopes /\ p # c
      /\ p # NoScope /\ scope[p].live /\ scope[p].born /\ ~scope[c].born /\ ~scope[c].live
      /\ scope[c].parent = NoScope /\ \A x \in Scopes : scope[x].parent # c
  BY ScopeNames DEF PageType, Birth, TreeInv
<1>1. /\ scope'[c].parent = p /\ scope'[c].kids = <<>> /\ scope'[c].live /\ scope'[c].born
      /\ scope'[p].kids = Append(scope[p].kids, c)
      /\ \A x \in Scopes \ {c} : /\ scope'[x].parent = scope[x].parent
                                 /\ scope'[x].live = scope[x].live /\ scope'[x].born = scope[x].born
                                 /\ x # p => scope'[x].kids = scope[x].kids
  <2>1. /\ scope'[c] = NewScope(p) /\ scope'[p].kids = Append(scope[p].kids, c)
        /\ scope'[p].parent = scope[p].parent /\ scope'[p].live = scope[p].live
        /\ scope'[p].born = scope[p].born
        /\ \A x \in Scopes \ {p, c} : scope'[x] = scope[x]
    BY DEF Birth
  <2>2. scope'[c].parent = p /\ scope'[c].kids = <<>> /\ scope'[c].live /\ scope'[c].born
    BY <2>1 DEF NewScope
  <2> QED
    BY <2>1, <2>2
<1>2. \A s \in Scopes : scope[s].kids \in Seq(Scopes) /\ scope[s].parent \in Scopes \cup {NoScope}
  BY <1>0 DEF ScopeType
<1>3. LET k == scope[p].kids IN
      /\ scope'[p].kids \in Seq(Scopes) /\ Len(k) \in Nat
      /\ DOMAIN k = 1 .. Len(k) /\ DOMAIN scope'[p].kids = 1 .. Len(k) + 1
      /\ \A i \in 1 .. Len(k) : scope'[p].kids[i] = k[i]
      /\ scope'[p].kids[Len(k) + 1] = c
  BY <1>0, <1>1, <1>2
<1>4. scope'[Root].parent = NoScope
  BY <1>0, <1>1, ScopeNames DEF TreeInv
<1>5. ASSUME NEW s \in Scopes PROVE scope'[s].live <=> Root \in Above(s)'
  <2>1. CASE s = c
    <3>1. Root \in Above(p)
      BY <1>0 DEF TreeInv
    <3> QED
      BY <1>1, <2>1, <3>1, BirthAbove
  <2>2. CASE s # c
    BY <1>1, <2>2, BirthAbove DEF TreeInv
  <2> QED
    BY <2>1, <2>2
<1>6. ASSUME NEW s \in Scopes, ~scope'[s].born
      PROVE  scope'[s].parent = NoScope /\ ~scope'[s].live /\ \A x \in Scopes : scope'[x].parent # s
  <2>1. s # c /\ ~scope[s].born
    BY <1>1, <1>6
  <2>2. s # p /\ scope[s].parent = NoScope /\ ~scope[s].live /\ \A x \in Scopes : scope[x].parent # s
    BY <1>0, <2>1 DEF TreeInv
  <2> QED
    BY <1>1, <2>1, <2>2
<1>7. ASSUME NEW s \in Children, scope'[s].live
      PROVE  \E i \in DOMAIN scope'[scope'[s].parent].kids : scope'[scope'[s].parent].kids[i] = s
  <2>1. CASE s = c
    BY <1>1, <1>3, <2>1
  <2>2. CASE s # c
    <3> DEFINE q == scope[s].parent
    <3>1. s \in Scopes /\ scope[s].live /\ scope'[s].parent = q
      BY <1>1, <1>7, <2>2, ScopeNames
    <3>2. q \in Scopes /\ q # c
      BY <1>0, <3>1, LiveParent
    <3>3. PICK i \in DOMAIN scope[q].kids : scope[q].kids[i] = s
      BY <3>1 DEF TreeInv
    <3>4. i \in DOMAIN scope'[q].kids /\ scope'[q].kids[i] = s
      <4>1. CASE q = p
        BY <1>3, <3>3, <4>1
      <4>2. CASE q # p
        BY <1>1, <3>2, <3>3, <4>2
      <4> QED
        BY <4>1, <4>2
    <3> QED
      BY <3>1, <3>4
  <2> QED
    BY <2>1, <2>2
<1>8. ASSUME NEW s \in Scopes, scope'[s].live, NEW i \in DOMAIN scope'[s].kids, NEW j \in DOMAIN scope'[s].kids
      PROVE  /\ scope'[scope'[s].kids[i]].parent = s
             /\ scope'[s].kids[i] = scope'[s].kids[j] => i = j
  <2>1. CASE s = c
    BY <1>1, <1>8, <2>1
  <2>2. ASSUME s # c, NEW n \in DOMAIN scope[s].kids
        PROVE  /\ scope[s].kids[n] \in Scopes \ {c}
               /\ scope[scope[s].kids[n]].parent = s /\ scope'[scope[s].kids[n]].parent = s
    <3>1. scope[s].live /\ scope[s].kids[n] \in Scopes
      BY <1>1, <1>2, <1>8, <2>2
    <3>2. scope[scope[s].kids[n]].parent = s
      BY <2>2, <3>1 DEF TreeInv
    <3>3. scope[s].kids[n] # c
      BY <1>0, <3>2, ScopeNames
    <3> QED
      BY <1>1, <3>1, <3>2, <3>3
  <2>3. s # c => \A n, m \in DOMAIN scope[s].kids : scope[s].kids[n] = scope[s].kids[m] => n = m
    BY <1>1, <1>8 DEF TreeInv
  <2>4. CASE s # c /\ s # p
    BY <1>1, <1>8, <2>2, <2>3, <2>4
  <2>5. CASE s = p
    <3>1. \A n \in 1 .. Len(scope[p].kids) : scope[p].kids[n] # c /\ scope'[scope[p].kids[n]].parent = p
      BY <1>0, <1>3, <2>2, <2>5
    <3>2. \A n \in DOMAIN scope'[p].kids : n \in 1 .. Len(scope[p].kids) \/ n = Len(scope[p].kids) + 1
      BY <1>3
    <3>3. i \in DOMAIN scope'[p].kids /\ j \in DOMAIN scope'[p].kids
      BY <1>8, <2>5
    <3>4. \A n \in 1 .. Len(scope[p].kids) :
             scope'[p].kids[n] = scope[p].kids[n] /\ n \in DOMAIN scope[p].kids
      BY <1>3
    <3>5. scope'[scope'[p].kids[i]].parent = p
      BY <1>1, <1>3, <3>1, <3>2, <3>3, <3>4
    <3>6. scope'[p].kids[i] = scope'[p].kids[j] => i = j
      <4>1. \A n, m \in DOMAIN scope[p].kids : scope[p].kids[n] = scope[p].kids[m] => n = m
        BY <1>0, <2>3, <2>5
      <4> QED
        BY <1>3, <3>1, <3>2, <3>3, <3>4, <4>1
    <3> QED
      BY <2>5, <3>5, <3>6
  <2> QED
    BY <2>1, <2>4, <2>5
<1> QED
  BY <1>4, <1>5, <1>6, <1>7, <1>8 DEF TreeInv

\* A scope is destroyed.
LEMMA TreeDeath ==
    ASSUME PageType, TreeInv, scope' \in [Scopes -> ScopeType], NEW s, Death(s)
    PROVE  TreeInv'
<1> DEFINE p == scope[s].parent
<1>0. /\ scope \in [Scopes -> ScopeType] /\ s \in Scopes /\ s \in Children /\ s # Root
      /\ p \in Scopes /\ p # s /\ scope[p].live
      /\ Place(s) \in DOMAIN scope[p].kids /\ scope[p].kids[Place(s)] = s
  BY LiveParent, ScopeNames DEF PageType, Death
<1>1. /\ scope'[s].parent = NoScope /\ scope'[s].kids = <<>>
      /\ scope'[p].kids = RemoveAt(scope[p].kids, Place(s))
      /\ \A x \in Scopes \ {s} : /\ scope'[x].parent = scope[x].parent
                                 /\ x # p => scope'[x].kids = scope[x].kids
      /\ \A x \in Scopes : /\ scope'[x].born = scope[x].born
                           /\ scope'[x].live <=> scope[x].live /\ s \notin Above(x)
  BY <1>0 DEF Death
<1>2. \A x \in Scopes : scope[x].kids \in Seq(Scopes) /\ scope[x].parent \in Scopes \cup {NoScope}
  BY <1>0 DEF ScopeType
<1> HIDE DEF p
<1>3. LET k == scope[p].kids  n == Place(s) IN
      /\ Len(k) \in Nat /\ n \in 1 .. Len(k) /\ DOMAIN k = 1 .. Len(k)
      /\ scope'[p].kids \in Seq(Scopes) /\ Len(scope'[p].kids) = Len(k) - 1
      /\ DOMAIN scope'[p].kids = 1 .. Len(k) - 1
      /\ \A i \in 1 .. Len(k) - 1 : scope'[p].kids[i] = IF i < n THEN k[i] ELSE k[i + 1]
  <2>1. LET k == scope[p].kids  n == Place(s) IN
        /\ Len(k) \in Nat /\ n \in 1 .. Len(k) /\ DOMAIN k = 1 .. Len(k)
        /\ scope'[p].kids \in Seq(Scopes) /\ Len(scope'[p].kids) = Len(k) - 1
        /\ \A i \in 1 .. Len(k) - 1 : scope'[p].kids[i] = IF i < n THEN k[i] ELSE k[i + 1]
    BY <1>0, <1>1, <1>2, RemoveFacts
  <2>2. DOMAIN scope'[p].kids = 1 .. Len(scope'[p].kids)
    BY <2>1
  <2> QED
    BY <2>1, <2>2
<1>4. scope'[Root].parent = NoScope
  BY <1>0, <1>1, ScopeNames DEF TreeInv
<1>5. ASSUME NEW x \in Scopes PROVE scope'[x].live <=> Root \in Above(x)'
  BY <1>1, DeathAbove DEF TreeInv
<1>6. ASSUME NEW x \in Scopes, ~scope'[x].born
      PROVE  scope'[x].parent = NoScope /\ ~scope'[x].live /\ \A y \in Scopes : scope'[y].parent # x
  <2>1. scope[x].parent = NoScope /\ ~scope[x].live /\ \A y \in Scopes : scope[y].parent # x
    BY <1>1, <1>6 DEF TreeInv
  <2> QED
    BY <1>1, <2>1, ScopeNames
<1>7. ASSUME NEW x \in Children, scope'[x].live
      PROVE  \E i \in DOMAIN scope'[scope'[x].parent].kids : scope'[scope'[x].parent].kids[i] = x
  <2> DEFINE q == scope[x].parent
  <2>1. x \in Scopes /\ scope[x].live /\ s \notin Above(x)
    BY <1>1, <1>7, ScopeNames
  <2>2. q \in Scopes /\ Above(x) = {x} \cup Above(q) /\ q \in Above(q)
    <3>1. q \in Scopes /\ Above(x) = {x} \cup Above(q)
      BY <2>1, LiveParent
    <3> QED
      BY <1>0, <3>1, AncestorFacts DEF Above
  <2>3. x # s /\ q # s /\ scope'[x].parent = q
    BY <1>1, <2>1, <2>2
  <2>4. PICK i \in DOMAIN scope[q].kids : scope[q].kids[i] = x
    BY <2>1 DEF TreeInv
  <2> HIDE DEF q
  <2>5. CASE q # p
    BY <1>1, <2>2, <2>3, <2>4, <2>5
  <2>6. CASE q = p
    <3>1. i \in 1 .. Len(scope[p].kids) /\ i # Place(s)
      BY <1>0, <1>3, <2>3, <2>4, <2>6
    <3>2. CASE i < Place(s)
      <4>1. i \in DOMAIN scope'[p].kids /\ scope'[p].kids[i] = x
        BY <1>3, <2>4, <2>6, <3>1, <3>2
      <4> QED
        BY <2>3, <2>6, <4>1
    <3>3. CASE i > Place(s)
      <4>1. i - 1 \in DOMAIN scope'[p].kids /\ ~(i - 1 < Place(s)) /\ (i - 1) + 1 = i
        BY <1>3, <3>1, <3>3
      <4>2. scope'[p].kids[i - 1] = x
        BY <1>3, <2>4, <2>6, <4>1
      <4> QED
        BY <2>3, <2>6, <4>1, <4>2
    <3> QED
      BY <1>3, <3>1, <3>2, <3>3
  <2> QED
    BY <2>5, <2>6
<1>8. ASSUME NEW x \in Scopes, scope'[x].live, NEW i \in DOMAIN scope'[x].kids, NEW j \in DOMAIN scope'[x].kids
      PROVE  /\ scope'[scope'[x].kids[i]].parent = x
             /\ scope'[x].kids[i] = scope'[x].kids[j] => i = j
  <2>1. scope[x].live /\ s \notin Above(x) /\ x # s
    BY <1>0, <1>1, <1>8, AncestorFacts DEF Above
  <2>2. \A n, m \in DOMAIN scope[x].kids :
           /\ scope[scope[x].kids[n]].parent = x
           /\ scope[x].kids[n] = scope[x].kids[m] => n = m
    BY <2>1 DEF TreeInv
  <2>3. CASE x # p
    <3>1. scope'[x].kids = scope[x].kids
      BY <1>1, <2>1, <2>3
    <3>2. scope[x].kids[i] \in Scopes /\ scope[x].kids[i] # s
      BY <1>2, <1>8, <2>2, <2>3, <3>1 DEF p
    <3> QED
      BY <1>1, <1>8, <2>2, <3>1, <3>2
  <2>4. CASE x = p
    <3>1. i \in 1 .. Len(scope[p].kids) - 1 /\ j \in 1 .. Len(scope[p].kids) - 1
      BY <1>3, <1>8, <2>4
    <3> DEFINE from(n) == IF n < Place(s) THEN n ELSE n + 1
    <3>2. \A n \in 1 .. Len(scope[p].kids) - 1 :
             /\ from(n) \in DOMAIN scope[p].kids /\ from(n) # Place(s)
             /\ scope'[p].kids[n] = scope[p].kids[from(n)]
      BY <1>3
    <3>3. \A n, m \in 1 .. Len(scope[p].kids) - 1 : from(n) = from(m) => n = m
      BY <1>3
    <3> HIDE DEF from
    <3>4. scope[p].kids[from(i)] \in Scopes /\ scope[p].kids[from(i)] # s
      BY <1>0, <1>2, <2>2, <2>4, <3>1, <3>2
    <3> QED
      BY <1>1, <2>2, <2>4, <3>1, <3>2, <3>3, <3>4
  <2> QED
    BY <2>3, <2>4
<1> QED
  BY <1>4, <1>5, <1>6, <1>7, <1>8 DEF TreeInv

\* The tree is kept by every step.
LEMMA TreeStep ==
    ASSUME PageType, TreeInv, dig.current \in Scopes, [Next]_vars
    PROVE  scope' \in [Scopes -> ScopeType] /\ TreeInv'
<1>1. scope' \in [Scopes -> ScopeType] /\ TreeKinds
  BY TreeSteps
<1>2. CASE OnlyIndex
  BY <1>1, <1>2, TreeKept DEF OnlyIndex, SameScope
<1>3. ASSUME NEW s, NEW w, NEW i, NEW n, Rewatch(s, w, i, n) PROVE TreeInv'
  BY <1>1, <1>3, TreeKept DEF Rewatch
<1> QED
  BY <1>1, <1>2, <1>3, TreeBirth, TreeDeath DEF TreeKinds, AddedWatch, RemovedWatch

\* What is watched, and which watch was dirty last.
LEMMA WatchStep ==
    ASSUME PageType, dig.current \in Scopes, [Next]_vars
    PROVE  /\ model' \in [Vars -> Vals]
           /\ watch' \in Seq([var : Vars, last : Vals \cup {NoVal}])
           /\ Len(watch) \in Nat /\ Len(watch') \in Nat /\ Len(watch) <= Len(watch')
           /\ lastDirtyWatch' \in 0 .. Len(watch')
<1> DEFINE W == [var : Vars, last : Vals \cup {NoVal}]
<1> SUFFICES /\ model' \in [Vars -> Vals] /\ watch' \in Seq(W)
             /\ Len(watch) \in Nat /\ Len(watch') \in Nat /\ Len(watch) <= Len(watch')
             /\ lastDirtyWatch' \in 0 .. Len(watch')
  OBVIOUS
<1>0. /\ model \in [Vars -> Vals] /\ watch \in Seq(W) /\ Len(watch) \in Nat
      /\ lastDirtyWatch \in 0 .. Len(watch) /\ 0 \in 0 .. Len(watch)
  BY DEF PageType
<1> HIDE DEF W
<1>1. CASE UNCHANGED <<model, watch>> /\ lastDirtyWatch' \in {0, lastDirtyWatch}
  BY <1>0, <1>1
<1>2. CASE Effect /\ EditPage
  <2>1. ASSUME NEW s \in Scopes, NEW v \in Vars, addWatch(s, v)
        PROVE  /\ watch' = Append(watch, [var |-> v, last |-> NoVal])
               /\ UNCHANGED model /\ lastDirtyWatch' = 0
    BY <2>1 DEF addWatch
  <2>2. ASSUME NEW v \in Vars
        PROVE  LET w == Append(watch, [var |-> v, last |-> NoVal]) IN
               w \in Seq(W) /\ Len(w) = Len(watch) + 1
    <3>1. [var |-> v, last |-> NoVal] \in W
      BY DEF W
    <3> QED
      BY <1>0, <3>1, AppendFacts
  <2>3. ASSUME NEW v \in Vars, NEW x \in Vals, model' = [model EXCEPT ![v] = x],
               UNCHANGED <<scope, watch, lastDirtyWatch>>
        PROVE  model' \in [Vars -> Vals]
    BY <1>0, <2>3
  <2>4. CASE \E s \in Scopes : \E v \in Vars : addWatch(s, v)
    <3>1. PICK s \in Scopes, v \in Vars : addWatch(s, v)
      BY <2>4
    <3>2. /\ watch' = Append(watch, [var |-> v, last |-> NoVal])
          /\ model' = model /\ lastDirtyWatch' = 0
      BY <2>1, <3>1
    <3>3. watch' \in Seq(W) /\ Len(watch') = Len(watch) + 1
      BY <2>2, <3>2
    <3> QED
      BY <1>0, <3>2, <3>3
  <2>5. CASE \E v \in Vars : \E x \in Vals : /\ model' = [model EXCEPT ![v] = x]
                                             /\ UNCHANGED <<scope, watch, lastDirtyWatch>>
    <3>1. PICK v \in Vars, x \in Vals :
            model' = [model EXCEPT ![v] = x] /\ UNCHANGED <<scope, watch, lastDirtyWatch>>
      BY <2>5
    <3>2. model' \in [Vars -> Vals]
      BY <2>3, <3>1
    <3> QED
      BY <1>0, <3>1, <3>2
  <2>6. CASE \/ \E s \in Scopes : newChild(s)
             \/ \E s \in Children : destroy(s)
             \/ \E s \in Scopes : \E i \in DOMAIN scope[s].watchers : deregisterWatch(s, i)
    <3>1. UNCHANGED <<model, watch>> /\ lastDirtyWatch' \in {0, lastDirtyWatch}
      BY <2>6 DEF newChild, destroy, deregisterWatch
    <3> QED
      BY <1>1, <3>1
  <2>7. \/ \E s \in Scopes : newChild(s)
        \/ \E s \in Children : destroy(s)
        \/ \E s \in Scopes : \E v \in Vars : addWatch(s, v)
        \/ \E s \in Scopes : \E i \in DOMAIN scope[s].watchers : deregisterWatch(s, i)
        \/ \E v \in Vars : \E x \in Vals : /\ model' = [model EXCEPT ![v] = x]
                                          /\ UNCHANGED <<scope, watch, lastDirtyWatch>>
    BY <1>2 DEF EditPage
  <2> QED
    BY <2>4, <2>5, <2>6, <2>7
<1>3. CASE CheckWatch
  <2> DEFINE s == dig.current
             i == scope[s].index
             w == scope[s].watchers[i]
             value == model[watch[w].var]
  <2>1. i \in 1 .. Len(scope[s].watchers)
    <3>1. i \in -1 .. Len(scope[s].watchers) /\ i > 0
      BY <1>3 DEF CheckWatch, PageType
    <3>2. Len(scope[s].watchers) \in Nat
      BY DEF PageType, ScopeType
    <3> QED
      BY <3>1, <3>2
  <2>2. w \in 1 .. Len(watch)
    BY <2>1 DEF PageType
  <2>3. watch[w] \in W
    <3> HIDE DEF w
    <3>1. DOMAIN watch = 1 .. Len(watch)
      BY <1>0
    <3> QED
      BY <1>0, <2>2, <3>1
  <2>4. value \in Vals
    BY <1>0, <2>3 DEF W
  <2>5. /\ UNCHANGED model
        /\ \/ watch' = [watch EXCEPT ![w].last = value] /\ lastDirtyWatch' = w
           \/ UNCHANGED <<watch, lastDirtyWatch>>
    BY <1>3 DEF CheckWatch
  <2> HIDE DEF w, value
  <2>6. [watch[w] EXCEPT !.last = value] \in W
    BY <2>3, <2>4 DEF W
  <2>7. /\ [watch EXCEPT ![w].last = value] \in Seq(W)
        /\ Len([watch EXCEPT ![w].last = value]) = Len(watch)
    <3> DEFINE e == [watch[w] EXCEPT !.last = value]
    <3>1. [watch EXCEPT ![w].last = value] = [watch EXCEPT ![w] = e]
      BY <1>0 DEF W
    <3>2. e \in W
      BY <2>6
    <3> HIDE DEF e
    <3>3. [watch EXCEPT ![w] = e] \in Seq(W) /\ Len([watch EXCEPT ![w] = e]) = Len(watch)
      BY <1>0, <2>2, <3>2, ExceptSeq
    <3> QED
      BY <3>1, <3>3
  <2>8. CASE watch' = [watch EXCEPT ![w].last = value] /\ lastDirtyWatch' = w
    BY <1>0, <2>2, <2>5, <2>7, <2>8
  <2>9. CASE UNCHANGED <<watch, lastDirtyWatch>>
    BY <1>0, <2>5, <2>9
  <2> QED
    BY <2>5, <2>8, <2>9
<1>4. CASE Effect /\ ~EditPage
  <2>1. UNCHANGED <<model, watch, lastDirtyWatch>>
    BY <1>4 DEF Effect, Queue, UsePromise
  <2> QED
    BY <1>1, <2>1
<1>5. CASE Event \/ UNCHANGED vars
  BY <1>1, <1>5 DEF Event, vars
<1>6. CASE Engine
  <2>1. CheckWatch \/ (UNCHANGED <<model, watch>> /\ lastDirtyWatch' \in {0, lastDirtyWatch})
    BY <1>6 DEF Engine, LeaveOutside, LeaveApply, AsyncTimer, ApplyTimer, BeginDigest, Flush, NextTask,
                PlainTaskReturns, TasksDone, TaskDone, CallCallback, CallbackReturns, PassOn, EntryDone,
                ListenerReturns, NextScope, EndPass, PostDigest
  <2> QED
    BY <1>1, <1>3, <2>1
<1> QED
  BY <1>2, <1>4, <1>5, <1>6 DEF Next

\* The digest's places stay within the lists of watchers, and these list watches there are.
LEMMA PageStep ==
    ASSUME PageType, TreeInv, dig.current \in Scopes, [Next]_vars
    PROVE  PageType'
<1> DEFINE Fits(x) == /\ scope'[x].index \in -1 .. Len(scope'[x].watchers)
                      /\ \A k \in 1 .. Len(scope'[x].watchers) :
                            scope'[x].watchers[k] \in 1 .. Len(watch')
<1>1. scope' \in [Scopes -> ScopeType] /\ TreeKinds
  BY TreeSteps
<1>2. /\ Len(watch) \in Nat /\ Len(watch') \in Nat /\ Len(watch) <= Len(watch')
  BY WatchStep
<1>3. ASSUME NEW x \in Scopes
      PROVE  /\ scope[x].watchers \in Seq(Nat) /\ Len(scope[x].watchers) \in Nat
             /\ scope[x].index \in -1 .. Len(scope[x].watchers)
             /\ \A k \in 1 .. Len(scope[x].watchers) : scope[x].watchers[k] \in 1 .. Len(watch)
  <2>1. scope[x] \in ScopeType
    BY DEF PageType
  <2>2. scope[x].watchers \in Seq(Nat)
    BY <2>1 DEF ScopeType
  <2> QED
    BY <2>2, EmptyFacts DEF PageType
<1>4. ASSUME NEW x \in Scopes, scope'[x].watchers = scope[x].watchers,
             scope'[x].index \in -1 .. Len(scope[x].watchers)
      PROVE  Fits(x)
  BY <1>2, <1>3, <1>4
<1>5. ASSUME OnlyIndex, NEW x \in Scopes PROVE Fits(x)
  BY <1>4, <1>5 DEF OnlyIndex, SameScope
<1>6. ASSUME NEW p \in Scopes, NEW c \in Children, Birth(p, c), NEW x \in Scopes PROVE Fits(x)
  <2>1. CASE x = c
    <3>1. scope'[x].watchers = <<>> /\ scope'[x].index = -1
      BY <1>6, <2>1 DEF Birth, NewScope
    <3> QED
      BY <3>1
  <2>2. CASE x # c
    <3>1. scope'[x].watchers = scope[x].watchers /\ scope'[x].index = scope[x].index
      BY <1>6, <2>2 DEF Birth
    <3> QED
      BY <1>3, <1>4, <3>1
  <2> QED
    BY <2>1, <2>2
<1>7. ASSUME NEW s \in Children, Death(s), NEW x \in Scopes PROVE Fits(x)
  BY <1>3, <1>4, <1>7 DEF Death
<1>8. ASSUME NEW s \in Scopes, AddedWatch(s), NEW x \in Scopes PROVE Fits(x)
  <2>1. CASE x = s
    <3> DEFINE old == scope[s].watchers
               one == <<Len(watch) + 1>>
    <3>1. /\ scope'[x].watchers = one \o old /\ scope'[x].index = scope[s].index + 1
          /\ Len(watch') = Len(watch) + 1
      BY <1>8, <2>1 DEF AddedWatch, Rewatch
    <3>2. one \in Seq(Nat) /\ Len(one) = 1 /\ one[1] = Len(watch) + 1
      BY <1>2
    <3>3. /\ old \in Seq(Nat) /\ Len(old) \in Nat /\ scope[s].index \in -1 .. Len(old)
          /\ \A k \in 1 .. Len(old) : old[k] \in 1 .. Len(watch)
      BY <1>3
    <3> HIDE DEF old, one
    <3>4. /\ Len(one \o old) = 1 + Len(old)
          /\ \A k \in 1 .. 1 + Len(old) : (one \o old)[k] = IF k <= 1 THEN one[k] ELSE old[k - 1]
      <4>1. /\ Len(one \o old) = Len(one) + Len(old)
            /\ \A k \in 1 .. Len(one) + Len(old) :
                  (one \o old)[k] = IF k <= Len(one) THEN one[k] ELSE old[k - Len(one)]
        BY <3>2, <3>3, ConcatProperties
      <4> QED
        BY <3>2, <4>1
    <3>5. ASSUME NEW k \in 1 .. 1 + Len(old) PROVE (one \o old)[k] \in 1 .. Len(watch')
      <4>1. CASE k = 1
        BY <1>2, <3>1, <3>2, <3>4, <4>1
      <4>2. CASE k # 1
        <5>1. k - 1 \in 1 .. Len(old) /\ ~(k <= 1)
          BY <3>3, <4>2
        <5>2. (one \o old)[k] \in 1 .. Len(watch)
          BY <3>3, <3>4, <5>1
        <5>3. 1 .. Len(watch) \subseteq 1 .. Len(watch')
          BY <1>2
        <5> QED
          BY <5>2, <5>3
      <4> QED
        BY <4>1, <4>2
    <3> QED
      BY <3>1, <3>3, <3>4, <3>5
  <2>2. CASE x # s
    BY <1>3, <1>4, <1>8, <2>2 DEF AddedWatch, Rewatch
  <2> QED
    BY <2>1, <2>2
<1>9. ASSUME NEW s \in Scopes, NEW i \in DOMAIN scope[s].watchers, RemovedWatch(s, i), NEW x \in Scopes
      PROVE  Fits(x)
  <2>1. CASE x = s
    <3> DEFINE old == scope[s].watchers
               new == RemoveAt(old, i)
    <3>1. /\ scope'[x].watchers = new
          /\ scope'[x].index = IF i - 1 < scope[s].index THEN scope[s].index - 1 ELSE scope[s].index
      BY <1>9, <2>1 DEF RemovedWatch, Rewatch
    <3>2. /\ old \in Seq(Nat) /\ Len(old) \in Nat /\ scope[s].index \in -1 .. Len(old)
          /\ \A k \in 1 .. Len(old) : old[k] \in 1 .. Len(watch)
      BY <1>3
    <3>3. /\ Len(new) = Len(old) - 1 /\ i \in 1 .. Len(old)
          /\ \A j \in 1 .. Len(old) - 1 : new[j] = IF j < i THEN old[j] ELSE old[j + 1]
      <4>1. i \in DOMAIN old
        OBVIOUS
      <4> HIDE DEF old
      <4> QED
        BY <3>2, <4>1, RemoveFacts
    <3> HIDE DEF old, new
    <3>4. scope'[x].index \in -1 .. Len(new)
      BY <3>1, <3>2, <3>3
    <3>5. ASSUME NEW k \in 1 .. Len(new) PROVE new[k] \in 1 .. Len(watch')
      <4>1. k \in 1 .. Len(old) - 1 /\ k \in 1 .. Len(old) /\ k + 1 \in 1 .. Len(old)
        BY <3>2, <3>3
      <4>2. new[k] \in 1 .. Len(watch)
        BY <3>2, <3>3, <4>1
      <4> QED
        BY <1>2, <4>2
    <3> QED
      BY <3>1, <3>4, <3>5
  <2>2. CASE x # s
    BY <1>3, <1>4, <1>9, <2>2 DEF RemovedWatch, Rewatch
  <2> QED
    BY <2>1, <2>2
<1> HIDE DEF Fits
<1>10. \A x \in Scopes : Fits(x)
  BY <1>1, <1>5, <1>6, <1>7, <1>8, <1>9 DEF TreeKinds
<1> QED
  BY <1>1, <1>10, WatchStep DEF PageType, Fits

-----------------------------------------------------------------------------
(***************************************************************************)
(* The count of watchers.                                                  *)
(***************************************************************************)

\* The i-th watcher of scope y is one of those below x.
Watching(x, y, i) == x \in Above(y) /\ i \in 1 .. Len(scope[y].watchers)
Watches(x) == {w \in Scopes \X Nat : Watching(x, w[1], w[2])}
Counted(x) ==
    scope[x].live => IsFiniteSet(Watches(x)) /\ scope[x].count = Cardinality(Watches(x))
CountInv == \A x \in Scopes : Counted(x)


\* A step that leaves the watchers below a scope as they are.
LEMMA CountSame ==
    ASSUME CountInv, NEW x \in Scopes, scope'[x].live => scope[x].live,
           scope'[x].count = scope[x].count,
           \A y \in Scopes : \A i \in Nat : Watching(x, y, i)' <=> Watching(x, y, i)
    PROVE  Counted(x)'
<1>1. Watches(x)' = Watches(x)
  BY DEF Watches
<1> QED
  BY <1>1 DEF CountInv, Counted

\* A new scope has no watcher.
LEMMA CountBirth ==
    ASSUME PageType, TreeInv, CountInv, scope' \in [Scopes -> ScopeType], NEW p, NEW c, Birth(p, c),
           NEW x \in Scopes
    PROVE  Counted(x)'
<1>1. /\ c \in Scopes /\ scope'[c].watchers = <<>> /\ scope'[c].count = 0
      /\ \A y \in Scopes \ {c} : /\ scope'[y].watchers = scope[y].watchers
                                 /\ scope'[y].count = scope[y].count
                                 /\ scope'[y].live = scope[y].live
  <2>1. c \in Scopes /\ scope'[c] = NewScope(p)
    BY ScopeNames DEF Birth
  <2>2. scope'[c].watchers = <<>> /\ scope'[c].count = 0
    BY <2>1 DEF NewScope
  <2>3. \A y \in Scopes \ {c} : /\ scope'[y].watchers = scope[y].watchers
                                /\ scope'[y].count = scope[y].count
                                /\ scope'[y].live = scope[y].live
    BY DEF Birth
  <2> QED
    BY <2>1, <2>2, <2>3
<1>2. \A i : i \notin 1 .. Len(scope'[c].watchers)
  BY <1>1
<1>3. CASE x = c
  <2>1. \A y \in Scopes : \A i \in Nat : ~Watching(x, y, i)'
    BY <1>2, <1>3, BirthAbove DEF Watching
  <2>2. Watches(x)' = {}
    BY <2>1 DEF Watches
  <2> QED
    BY <1>1, <1>3, <2>2, FS_EmptySet DEF Counted
<1>4. CASE x # c
  <2>1. \A y \in Scopes : \A i \in Nat : Watching(x, y, i)' <=> Watching(x, y, i)
    BY <1>1, <1>2, <1>4, BirthAbove DEF Watching
  <2> QED
    BY <1>1, <1>4, <2>1, CountSame
<1> QED
  BY <1>3, <1>4

\* $watch counts at the scope and at all above it.
LEMMA CountAdded ==
    ASSUME PageType, TreeInv, CountInv, scope' \in [Scopes -> ScopeType], NEW s, AddedWatch(s),
           NEW x \in Scopes
    PROVE  Counted(x)'
<1> DEFINE old == scope[s].watchers
<1>1. /\ s \in Scopes /\ scope'[s].watchers = <<Len(watch) + 1>> \o old
      /\ \A y \in Scopes \ {s} : scope'[y].watchers = scope[y].watchers
      /\ scope'[x].live = scope[x].live
      /\ scope'[x].count = IF x \in Above(s) THEN scope[x].count + 1 ELSE scope[x].count
  BY DEF AddedWatch, Rewatch
<1>2. old \in Seq(Nat) /\ Len(old) \in Nat /\ Len(scope'[s].watchers) = Len(old) + 1
  <2>1. old \in Seq(Nat) /\ Len(old) \in Nat /\ Len(watch) \in Nat
    <3>1. scope[s] \in ScopeType /\ Len(watch) \in Nat
      BY <1>1 DEF PageType
    <3> QED
      BY <3>1 DEF ScopeType
  <2>2. <<Len(watch) + 1>> \in Seq(Nat) /\ Len(<<Len(watch) + 1>>) = 1
    BY <2>1
  <2> HIDE DEF old
  <2> QED
    BY <1>1, <2>1, <2>2, ConcatProperties
<1>3. \A y \in Scopes : Above(y)' = Above(y)
  BY AboveSame DEF AddedWatch, Rewatch
<1>4. CASE x \notin Above(s)
  <2>1. \A y \in Scopes : \A i \in Nat : Watching(x, y, i)' <=> Watching(x, y, i)
    BY <1>1, <1>3, <1>4 DEF Watching
  <2> QED
    BY <1>1, <1>4, <2>1, CountSame
<1>5. CASE x \in Above(s)
  <2> DEFINE w == <<s, Len(old) + 1>>
  <2>1. \A y \in Scopes : \A i \in Nat :
           Watching(x, y, i)' <=> Watching(x, y, i) \/ (y = s /\ i = Len(old) + 1)
    <3> SUFFICES ASSUME NEW y \in Scopes, NEW i \in Nat
                 PROVE  Watching(x, y, i)' <=> Watching(x, y, i) \/ (y = s /\ i = Len(old) + 1)
      OBVIOUS
    <3>1. CASE y = s
      BY <1>1, <1>2, <1>3, <1>5, <3>1 DEF Watching
    <3>2. CASE y # s
      BY <1>1, <1>3, <3>2 DEF Watching
    <3> QED
      BY <3>1, <3>2
  <2>2. w \in Scopes \X Nat /\ w[1] = s /\ w[2] = Len(old) + 1
    BY <1>1, <1>2
  <2>3. w \notin Watches(x)
    BY <1>2, <2>2 DEF Watches, Watching
  <2>4. Watches(x)' = Watches(x) \cup {w}
    <3> HIDE DEF old
    <3> QED
      BY <2>1, <2>2 DEF Watches
  <2> HIDE DEF w
  <2>5. ASSUME scope[x].live
        PROVE  IsFiniteSet(Watches(x)') /\ scope'[x].count = Cardinality(Watches(x)')
    <3>1. IsFiniteSet(Watches(x)) /\ scope[x].count = Cardinality(Watches(x))
      BY <2>5 DEF CountInv, Counted
    <3> QED
      BY <1>1, <1>5, <2>3, <2>4, <3>1, FS_AddElement
  <2> QED
    BY <1>1, <2>5 DEF Counted
<1> QED
  BY <1>4, <1>5

\* The function $watch returned takes one off at the scope and at all above it.
LEMMA CountRemoved ==
    ASSUME PageType, TreeInv, CountInv, scope' \in [Scopes -> ScopeType],
           NEW s \in Scopes, NEW k \in DOMAIN scope[s].watchers, RemovedWatch(s, k), NEW x \in Scopes
    PROVE  Counted(x)'
<1> DEFINE old == scope[s].watchers
<1>1. /\ scope'[s].watchers = RemoveAt(old, k)
      /\ \A y \in Scopes \ {s} : scope'[y].watchers = scope[y].watchers
      /\ scope'[x].live = scope[x].live
      /\ scope'[x].count = IF x \in Above(s) THEN scope[x].count + -1 ELSE scope[x].count
  BY DEF RemovedWatch, Rewatch
<1>2. Len(old) \in Nat \ {0} /\ Len(scope'[s].watchers) = Len(old) - 1
  <2>1. old \in Seq(Nat) /\ k \in DOMAIN old
    BY DEF PageType, ScopeType
  <2> HIDE DEF old
  <2>2. Len(RemoveAt(old, k)) = Len(old) - 1 /\ Len(old) \in Nat /\ k \in 1 .. Len(old)
    BY <2>1, RemoveFacts
  <2> QED
    BY <1>1, <2>2
<1>3. \A y \in Scopes : Above(y)' = Above(y)
  BY AboveSame DEF RemovedWatch, Rewatch
<1>4. CASE x \notin Above(s)
  <2>1. \A y \in Scopes : \A i \in Nat : Watching(x, y, i)' <=> Watching(x, y, i)
    BY <1>1, <1>3, <1>4 DEF Watching
  <2> QED
    BY <1>1, <1>4, <2>1, CountSame
<1>5. CASE x \in Above(s)
  <2> DEFINE w == <<s, Len(old)>>
  <2>1. \A y \in Scopes : \A i \in Nat :
           Watching(x, y, i)' <=> Watching(x, y, i) /\ ~(y = s /\ i = Len(old))
    <3> SUFFICES ASSUME NEW y \in Scopes, NEW i \in Nat
                 PROVE  Watching(x, y, i)' <=> Watching(x, y, i) /\ ~(y = s /\ i = Len(old))
      OBVIOUS
    <3>1. CASE y = s
      BY <1>1, <1>2, <1>3, <1>5, <3>1 DEF Watching
    <3>2. CASE y # s
      BY <1>1, <1>3, <3>2 DEF Watching
    <3> QED
      BY <3>1, <3>2
  <2>2. w \in Scopes \X Nat /\ w[1] = s /\ w[2] = Len(old)
    BY <1>2
  <2>3. w \in Watches(x)
    BY <1>2, <1>5, <2>2 DEF Watches, Watching
  <2>4. Watches(x)' = Watches(x) \ {w}
    <3>1. \A v \in Scopes \X Nat : v = w <=> v[1] = s /\ v[2] = Len(old)
      OBVIOUS
    <3> HIDE DEF old, w
    <3> QED
      BY <2>1, <3>1 DEF Watches
  <2> HIDE DEF w
  <2>5. ASSUME scope[x].live
        PROVE  IsFiniteSet(Watches(x)') /\ scope'[x].count = Cardinality(Watches(x)')
    <3>1. IsFiniteSet(Watches(x)) /\ scope[x].count = Cardinality(Watches(x))
      BY <2>5 DEF CountInv, Counted
    <3>2. Cardinality(Watches(x)) \in Nat
      BY <3>1, FS_CardinalityType
    <3> QED
      BY <1>1, <1>5, <2>3, <2>4, <3>1, <3>2, FS_RemoveElement
  <2> QED
    BY <1>1, <2>5 DEF Counted
<1> QED
  BY <1>4, <1>5

\* $destroy takes off, at all above the scope, what the scope had counted.
LEMMA CountDeath ==
    ASSUME PageType, TreeInv, TreeInv', CountInv, scope' \in [Scopes -> ScopeType], NEW s, Death(s),
           NEW x \in Scopes
    PROVE  Counted(x)'
<1> SUFFICES ASSUME scope'[x].live PROVE Counted(x)'
  BY DEF Counted
<1>1. /\ scope \in [Scopes -> ScopeType] /\ s \in Scopes /\ scope[s].live /\ scope[x].live
      /\ s \notin Above(x)
      /\ \A y \in Scopes : scope'[y].watchers = scope[y].watchers
      /\ scope'[x].count = IF x \in Above(s) THEN scope[x].count - scope[s].count ELSE scope[x].count
  BY ScopeNames DEF PageType, Death
<1>2. \A y \in Scopes : s \in Above(y) => x \notin Above(y)'
  <2> SUFFICES ASSUME NEW y \in Scopes, s \in Above(y), x \in Above(y)' PROVE FALSE
    OBVIOUS
  <2>1. Root \notin Above(y)'
    BY DeathAbove
  <2>2. Root \in Above(x)'
    BY DEF TreeInv
  <2>3. Ancestors(scope', x) \subseteq Ancestors(scope', y)
    BY AncestorsOfAncestor DEF Above
  <2> QED
    BY <2>1, <2>2, <2>3 DEF Above
<1>3. \A y \in Scopes : \A i \in Nat :
         Watching(x, y, i)' <=> Watching(x, y, i) /\ ~Watching(s, y, i)
  BY <1>1, <1>2, DeathAbove DEF Watching
<1>4. CASE x \notin Above(s)
  <2>1. \A y \in Scopes : s \in Above(y) => x \notin Above(y)
    BY <1>1, <1>4, AncestorsLinear DEF Above
  <2>2. \A y \in Scopes : \A i \in Nat : Watching(x, y, i)' <=> Watching(x, y, i)
    BY <1>3, <2>1 DEF Watching
  <2> QED
    BY <1>1, <1>4, <2>2, CountSame
<1>5. CASE x \in Above(s)
  <2>1. Watches(x)' = Watches(x) \ Watches(s)
    BY <1>3 DEF Watches
  <2>2. Watches(s) \subseteq Watches(x)
    <3>1. \A y \in Scopes : s \in Above(y) => x \in Above(y)
      BY <1>1, <1>5, AncestorsOfAncestor DEF Above
    <3> QED
      BY <3>1 DEF Watches, Watching
  <2>3. /\ IsFiniteSet(Watches(x)) /\ scope[x].count = Cardinality(Watches(x))
        /\ IsFiniteSet(Watches(s)) /\ scope[s].count = Cardinality(Watches(s))
    BY <1>1 DEF CountInv, Counted
  <2>4. Watches(x) \cap Watches(s) = Watches(s)
    BY <2>2
  <2>5. /\ IsFiniteSet(Watches(x)')
        /\ Cardinality(Watches(x)') = Cardinality(Watches(x)) - Cardinality(Watches(s))
    <3> DEFINE A == Watches(x)
               B == Watches(s)
    <3>1. IsFiniteSet(A) /\ Watches(x)' = A \ B /\ A \cap B = B
      BY <2>1, <2>3, <2>4
    <3> HIDE DEF A, B
    <3>2. IsFiniteSet(A \ B) /\ Cardinality(A \ B) = Cardinality(A) - Cardinality(A \cap B)
      BY <3>1, FS_Difference
    <3> QED
      BY <3>1, <3>2 DEF A, B
  <2> QED
    BY <1>1, <1>5, <2>3, <2>5 DEF Counted
<1> QED
  BY <1>4, <1>5

\* Every step keeps the counts exact.
LEMMA CountStep ==
    ASSUME PageType, TreeInv, CountInv, dig.current \in Scopes, [Next]_vars
    PROVE  CountInv'
<1> SUFFICES ASSUME NEW x \in Scopes PROVE Counted(x)'
  BY DEF CountInv
<1>1. scope' \in [Scopes -> ScopeType] /\ TreeKinds /\ TreeInv'
  BY TreeSteps, TreeStep
<1>2. CASE OnlyIndex
  <2>1. \A y \in Scopes : Above(y)' = Above(y)
    BY <1>1, <1>2, AboveSame DEF OnlyIndex, SameScope
  <2>2. \A y \in Scopes : \A i \in Nat : Watching(x, y, i)' <=> Watching(x, y, i)
    BY <1>2, <2>1 DEF OnlyIndex, SameScope, Watching
  <2>3. scope'[x].live = scope[x].live /\ scope'[x].count = scope[x].count
    BY <1>2 DEF OnlyIndex, SameScope
  <2> QED
    BY <2>2, <2>3, CountSame
<1> QED
  BY <1>1, <1>2, CountBirth, CountAdded, CountRemoved, CountDeath DEF TreeKinds

-----------------------------------------------------------------------------
(***************************************************************************)
(* No task finds its promise without entries.                              *)
(***************************************************************************)

\* A task of p that is still to come.
ToComeAt(i, p) ==
    i \in 1 .. Len(asyncQueue) /\ i > Begun /\ asyncQueue[i] = ProcessTask(p)

\* The tasks to come are at most one for each promise, which is scheduled; and who is
\* scheduled has entries.
PromptInv ==
    \A p \in Promises :
        /\ \A i, j \in Nat : ToComeAt(i, p) /\ ToComeAt(j, p) => i = j
        /\ \A i \in Nat : ToComeAt(i, p) => promise[p].scheduled
        /\ promise[p].scheduled => promise[p].pending # <<>>

\* A step that queues a task for p if p becomes scheduled, and nothing else.
Prompts(p) ==
    /\ \A x \in Promises : promise'[x].pending # promise[x].pending => promise'[x].pending # <<>>
    /\ \A x \in Promises \ {p} : promise'[x].scheduled <=> promise[x].scheduled
    /\ \/ asyncQueue' = asyncQueue /\ (promise'[p].scheduled <=> promise[p].scheduled)
       \/ /\ asyncQueue' = Append(asyncQueue, ProcessTask(p))
          /\ ~promise[p].scheduled /\ promise'[p].scheduled /\ promise'[p].pending # <<>>

\* Settling queues a task only for who was not scheduled, and has entries.
LEMMA SettlePrompts ==
    ASSUME NEW p \in Promises, NEW st, Settle(p, st)
    PROVE  Prompts(p)
  BY DEF Settle, Prompts

\* Entering queues a task only for who is settled and was not scheduled, and has entries then.
LEMMA PendPrompts ==
    ASSUME QueueType, NEW p \in Promises, NEW e \in Entries, Pend(p, e)
    PROVE  Prompts(p)
<1>1. promise[p].pending \in Seq(Entries)
  BY DEF QueueType, PromiseType
<1>2. Append(promise[p].pending, e) # <<>>
  BY <1>1, AppendFacts
<1>3. /\ \A x \in Promises : promise'[x].pending # promise[x].pending => promise'[x].pending # <<>>
      /\ \A x \in Promises \ {p} : promise'[x].scheduled <=> promise[x].scheduled
      /\ promise'[p].pending # <<>>
  BY <1>2 DEF Pend
<1>4. CASE promise[p].status > 0 /\ ~promise[p].scheduled
  <2>1. promise'[p].scheduled /\ asyncQueue' = Append(asyncQueue, ProcessTask(p))
    BY <1>4 DEF Pend
  <2> QED
    BY <1>3, <1>4, <2>1 DEF Prompts
<1>5. CASE ~(promise[p].status > 0 /\ ~promise[p].scheduled)
  <2>1. (promise'[p].scheduled <=> promise[p].scheduled) /\ asyncQueue' = asyncQueue
    BY <1>5 DEF Pend
  <2> QED
    BY <1>3, <2>1 DEF Prompts
<1> QED
  BY <1>4, <1>5

\* Every step is of one of these kinds with respect to what is scheduled.
LEMMA PromptKinds ==
    ASSUME QueueType, EntriesInv, Kinds
    PROVE  \/ UNCHANGED promise /\ (Quiet \/ PlainEnds \/ PlainQueued \/ Emptied)
           \/ \E p \in Promises : Take(p)
           \/ \E p \in Promises : Prompts(p) /\ Begun' = Begun
<1> DEFINE Goal == \E p \in Promises : Prompts(p) /\ Begun' = Begun
<1>1. ASSUME HeadDone PROVE Begun' = Begun
  BY <1>1 DEF HeadDone, Begun
<1>2. ASSUME NEW p \in Deferred, NEW st \in {1, 2}, SettleDeferred(p, st) PROVE Goal
  <2>1. p \in Promises /\ Begun' = Begun
    BY <1>2 DEF Promises, SettleDeferred, Begun
  <2> QED
    BY <1>2, <2>1, SettlePrompts DEF SettleDeferred
<1>3. ASSUME NEW p \in Promises, NEW e \in Entries, Then(p, e) PROVE Goal
  <2>1. Begun' = Begun
    BY <1>3 DEF Then, Begun
  <2> QED
    BY <1>3, <2>1, PendPrompts DEF Then
<1>4. ASSUME NEW st \in {1, 2}, HeadSettles(st) PROVE Goal
  <2>1. Head(proc.list).res \in Promises
    BY <1>4, EntryFacts DEF HeadSettles, HeadDone
  <2> QED
    BY <1>1, <1>4, <2>1, SettlePrompts DEF HeadSettles
<1>5. ASSUME NEW r \in Promises, HeadAdopts(r) PROVE Goal
  <2>1. Head(proc.list).res \in Derived
    BY <1>5, HeadWaits DEF HeadAdopts, HeadDone
  <2>2. Entry("adopt", Head(proc.list).res, {}) \in Entries
    BY <2>1 DEF Entry, Entries
  <2> QED
    BY <1>1, <1>5, <2>2, PendPrompts DEF HeadAdopts
<1> QED
  BY <1>2, <1>3, <1>4, <1>5 DEF Kinds, Quiet, PlainEnds, PlainQueued, Emptied

\* Steps that bring no task keep the invariant, if the promises stay as they are.
LEMMA PromptKept ==
    ASSUME PromptInv, UNCHANGED promise,
           \A p \in Promises : \A i \in Nat : ToComeAt(i, p)' => ToComeAt(i, p)
    PROVE  PromptInv'
  BY DEF PromptInv

\* Every step keeps it.
LEMMA PromptStep ==
    ASSUME QueueType, ControlInv, EntriesInv, PromptInv, Kinds
    PROVE  PromptInv'
<1>0. /\ asyncQueue \in Seq(Tasks) /\ Len(asyncQueue) \in Nat /\ dig.pos \in Nat /\ Begun \in Nat
  BY EmptyFacts DEF QueueType, Begun
<1>1. CASE UNCHANGED promise /\ Quiet
  BY <1>1, PromptKept DEF Quiet, ToComeAt, Begun
<1>2. CASE UNCHANGED promise /\ PlainEnds
  <2>1. asyncQueue' = asyncQueue /\ Begun' = Begun + 1
    BY <1>2 DEF PlainEnds, Begun
  <2>2. \A p \in Promises : \A i \in Nat : ToComeAt(i, p)' => ToComeAt(i, p)
    BY <1>0, <2>1 DEF ToComeAt
  <2> QED
    BY <1>2, <2>2, PromptKept
<1>3. CASE UNCHANGED promise /\ PlainQueued
  <2>1. Begun' = Begun /\ asyncQueue' = Append(asyncQueue, PlainTask) /\ PlainTask \in Tasks
    BY <1>3 DEF PlainQueued, Begun, Tasks
  <2>2. /\ Len(asyncQueue') = Len(asyncQueue) + 1 /\ asyncQueue'[Len(asyncQueue) + 1] = PlainTask
        /\ \A n \in 1 .. Len(asyncQueue) : asyncQueue'[n] = asyncQueue[n]
    BY <1>0, <2>1, AppendFacts
  <2>3. ASSUME NEW p \in Promises, NEW i \in Nat, ToComeAt(i, p)' PROVE ToComeAt(i, p)
    <3>1. i \in 1 .. Len(asyncQueue) + 1 /\ i > Begun /\ asyncQueue'[i] = ProcessTask(p)
      BY <2>1, <2>2, <2>3 DEF ToComeAt
    <3>2. i # Len(asyncQueue) + 1
      BY <2>2, <3>1, TaskKinds
    <3> QED
      BY <1>0, <2>2, <3>1, <3>2 DEF ToComeAt
  <2> QED
    BY <1>3, <2>3, PromptKept
<1>4. CASE UNCHANGED promise /\ Emptied
  <2>1. Len(asyncQueue') = 0
    BY <1>4 DEF Emptied
  <2>2. \A p \in Promises : \A i \in Nat : ~ToComeAt(i, p)'
    BY <2>1 DEF ToComeAt
  <2> QED
    BY <1>4, <2>2, PromptKept
<1>5. ASSUME NEW q \in Promises, Take(q) PROVE PromptInv'
  <2>1. /\ proc.list = <<>> /\ asyncQueue' = asyncQueue /\ dig'.pos = dig.pos
        /\ dig.pos < Len(asyncQueue) /\ asyncQueue[dig.pos + 1] = ProcessTask(q)
        /\ proc'.list = promise[q].pending
        /\ \A x \in Promises :
              /\ promise'[x].pending = IF x = q THEN <<>> ELSE promise[x].pending
              /\ promise'[x].scheduled = IF x = q THEN FALSE ELSE promise[x].scheduled
    BY <1>5 DEF Take
  <2>2. ToComeAt(dig.pos + 1, q)
    BY <1>0, <2>1 DEF ToComeAt, Begun
  <2>3. promise[q].pending # <<>>
    BY <1>0, <2>2 DEF PromptInv
  <2>4. Begun' = Begun + 1 /\ Begun = dig.pos
    BY <2>1, <2>3 DEF Begun
  <2>5. \A p \in Promises : \A i \in Nat : ToComeAt(i, p)' => ToComeAt(i, p) /\ i # dig.pos + 1
    BY <1>0, <2>1, <2>4 DEF ToComeAt
  <2>6. \A i \in Nat : ~ToComeAt(i, q)'
    BY <1>0, <2>2, <2>5 DEF PromptInv
  <2>7. ASSUME NEW p \in Promises
        PROVE  /\ \A i, j \in Nat : ToComeAt(i, p)' /\ ToComeAt(j, p)' => i = j
               /\ \A i \in Nat : ToComeAt(i, p)' => promise'[p].scheduled
               /\ promise'[p].scheduled => promise'[p].pending # <<>>
    <3>1. CASE p = q
      BY <2>1, <2>6, <3>1
    <3>2. CASE p # q
      <4>1. promise'[p].pending = promise[p].pending /\ promise'[p].scheduled = promise[p].scheduled
        BY <2>1, <3>2
      <4> QED
        BY <2>5, <4>1 DEF PromptInv
    <3> QED
      BY <3>1, <3>2
  <2> QED
    BY <2>7 DEF PromptInv
<1>6. ASSUME NEW q \in Promises, Prompts(q), Begun' = Begun PROVE PromptInv'
  <2>1. \A x \in Promises : promise'[x].scheduled => promise'[x].pending # <<>>
    BY <1>6 DEF Prompts, PromptInv
  <2>2. CASE asyncQueue' = asyncQueue
    <3>1. \A p \in Promises : \A i \in Nat : ToComeAt(i, p)' <=> ToComeAt(i, p)
      BY <1>6, <2>2 DEF ToComeAt
    <3>2. \A x \in Promises : promise[x].scheduled => promise'[x].scheduled
      BY <1>6 DEF Prompts
    <3> QED
      BY <2>1, <3>1, <3>2 DEF PromptInv
  <2>3. CASE asyncQueue' = Append(asyncQueue, ProcessTask(q)) /\ ~promise[q].scheduled
             /\ promise'[q].scheduled
    <3> DEFINE n == Len(asyncQueue) + 1
    <3>1. /\ Len(asyncQueue') = n /\ asyncQueue'[n] = ProcessTask(q) /\ n \in Nat
          /\ \A k \in 1 .. Len(asyncQueue) : asyncQueue'[k] = asyncQueue[k]
      BY <1>0, <2>3, AppendFacts, TaskKinds
    <3>2. \A p \in Promises : \A i \in Nat : ToComeAt(i, p)' => ToComeAt(i, p) \/ (p = q /\ i = n)
      <4> SUFFICES ASSUME NEW p \in Promises, NEW i \in Nat, ToComeAt(i, p)'
                   PROVE  ToComeAt(i, p) \/ (p = q /\ i = n)
        OBVIOUS
      <4>1. i \in 1 .. n /\ i > Begun /\ asyncQueue'[i] = ProcessTask(p)
        BY <1>6, <3>1 DEF ToComeAt
      <4>2. CASE i = n
        BY <3>1, <4>1, <4>2, TaskKinds
      <4>3. CASE i # n
        BY <1>0, <3>1, <4>1, <4>3 DEF ToComeAt
      <4> QED
        BY <4>2, <4>3
    <3>3. \A i \in Nat : ~ToComeAt(i, q)
      BY <2>3 DEF PromptInv
    <3> HIDE DEF n
    <3>4. \A x \in Promises : promise[x].scheduled => promise'[x].scheduled
      BY <1>6, <2>3 DEF Prompts
    <3> QED
      BY <2>1, <2>3, <3>2, <3>3, <3>4 DEF PromptInv
  <2> QED
    BY <1>6, <2>2, <2>3 DEF Prompts
<1> QED
  BY <1>1, <1>2, <1>3, <1>4, <1>5, <1>6, PromptKinds

-----------------------------------------------------------------------------
(***************************************************************************)
(* Where the digest goes.                                                  *)
(***************************************************************************)

\* The children of a scope that lives, live.
LEMMA KidsLive ==
    ASSUME PageType, TreeInv, NEW s \in Scopes, scope[s].live, NEW i \in DOMAIN scope[s].kids
    PROVE  scope[s].kids[i] \in Scopes /\ scope[scope[s].kids[i]].live
<1> DEFINE k == scope[s].kids[i]
<1>1. k \in Scopes /\ scope[k].parent = s
  <2>1. scope[s].kids \in Seq(Scopes)
    BY DEF PageType, ScopeType
  <2> QED
    BY <2>1 DEF TreeInv
<1>2. s \in Scopes /\ s # NoScope /\ Root \in Above(s)
  BY ScopeNames DEF TreeInv
<1> HIDE DEF k
<1>3. Root \in Above(k)
  BY <1>1, <1>2, AncestorStep DEF Above, PageType
<1>4. scope[k].live
  BY <1>1, <1>3 DEF TreeInv
<1> QED
  BY <1>1, <1>4 DEF k

\* What is above a scope that lives, lives.
LEMMA AboveLive ==
    ASSUME PageType, TreeInv, NEW s \in Scopes, scope[s].live, NEW a \in Above(s)
    PROVE  a \in Scopes /\ scope[a].live
<1>1. Root \in Above(s) /\ a \in Scopes /\ scope \in [Scopes -> ScopeType]
  BY AncestorFacts DEF TreeInv, Above, PageType
<1>2. a \in Above(Root) \/ Root \in Above(a)
  BY <1>1, AncestorsLinear DEF Above
<1>3. a = Root => Root \in Above(a)
  BY <1>1, AncestorFacts DEF Above
<1> QED
  BY <1>1, <1>2, <1>3, RootAlone DEF TreeInv

\* Of ancestors of a scope, one is below all the others.
LEMMA NearestExists ==
    ASSUME PageType, NEW s \in Scopes, NEW branches \in SUBSET Above(s), branches # {}
    PROVE  \E a \in branches : branches \subseteq Above(a)
<1> SUFFICES ASSUME \A a \in branches : ~(branches \subseteq Above(a)) PROVE FALSE
  OBVIOUS
<1> DEFINE up == {z \in Above(s) : branches \subseteq Above(z)}
<1>0. scope \in [Scopes -> ScopeType] /\ Above(s) \subseteq Scopes /\ s \in Above(s)
  BY AncestorFacts DEF PageType, Above
<1>1. up \in SUBSET Scopes /\ s \in up
  BY <1>0
<1>2. ASSUME NEW z \in up, scope[z].parent # NoScope PROVE scope[z].parent \in up
  <2>1. z \in Scopes /\ z \notin branches
    BY <1>0
  <2>2. Above(z) = {z} \cup Above(scope[z].parent)
    BY <1>0, <1>2, <2>1, AncestorStep DEF Above
  <2>3. scope[z].parent \in Above(s)
    BY <1>0, <1>2, AncestorFacts DEF Above
  <2> QED
    BY <2>1, <2>2, <2>3
<1>3. Above(s) \subseteq up
  <2>1. \A z \in up : scope[z].parent \in up \cup {NoScope}
    BY <1>2
  <2> HIDE DEF up
  <2> QED
    BY <1>0, <1>1, <2>1, AncestorsLeast DEF Above
<1> QED
  BY <1>3

\* From a scope that lives the digest goes to another one that does, or ends.
LEMMA AfterLives ==
    ASSUME PageType, TreeInv, NEW s \in Scopes, scope[s].live, After(s) # NoScope
    PROVE  After(s) \in Scopes /\ scope[After(s)].live
<1> DEFINE branches == {a \in Ancestors(scope, s) \ {Root} : NextSibling(a) # NoScope}
           nearest == CHOOSE a \in branches : branches \subseteq Ancestors(scope, a)
<1>1. CASE scope[s].count # 0 /\ scope[s].kids # <<>>
  <2>1. scope[s].kids \in Seq(Scopes) /\ After(s) = Head(scope[s].kids)
    BY <1>1 DEF PageType, ScopeType, After
  <2>2. 1 \in DOMAIN scope[s].kids /\ After(s) = scope[s].kids[1]
    BY <1>1, <2>1, EmptyFacts
  <2> QED
    BY <2>2, KidsLive
<1>2. CASE ~(scope[s].count # 0 /\ scope[s].kids # <<>>)
  <2>1. branches # {} /\ After(s) = NextSibling(nearest)
    BY <1>2 DEF After, Climb
  <2>2. \E a \in branches : branches \subseteq Ancestors(scope, a)
    <3>1. branches \in SUBSET Above(s)
      BY DEF Above
    <3>0. branches # {}
      BY <2>1
    <3> HIDE DEF branches, nearest
    <3>2. \E a \in branches : branches \subseteq Above(a)
      BY <3>0, <3>1, NearestExists
    <3> QED
      BY <3>2 DEF Above
  <2>3. nearest \in branches
    <3> HIDE DEF branches
    <3> QED
      BY <2>2
  <2>4. nearest \in Above(s) /\ nearest # Root /\ NextSibling(nearest) # NoScope
    BY <2>3 DEF Above
  <2> HIDE DEF nearest, branches
  <2>5. nearest \in Children /\ scope[nearest].live
    BY <2>4, AboveLive DEF Scopes
  <2> DEFINE p == scope[nearest].parent
             k == scope[p].kids
             i == Place(nearest)
  <2>6. p \in Scopes /\ scope[p].live /\ i \in DOMAIN k
    BY <2>5, LiveParent
  <2>7. NextSibling(nearest) = k[i + 1] /\ i < Len(k)
    BY <2>4 DEF NextSibling
  <2>8. i + 1 \in DOMAIN k
    <3>1. k \in Seq(Scopes)
      BY <2>6 DEF PageType, ScopeType
    <3> HIDE DEF k, i
    <3> QED
      BY <2>6, <2>7, <3>1
  <2> HIDE DEF i
  <2> QED
    BY <2>1, <2>6, <2>7, <2>8, KidsLive
<1> QED
  BY <1>1, <1>2

\* Where the engine is, what it holds, and how many timers there are.
PhaseInv ==
    /\ at \in {"idle", "outside", "apply", "flush", "async", "watch", "check", "post"}
    /\ phase \in BOOLEAN
    /\ at \in {"idle", "outside", "post"} => ~phase
    /\ at = "idle" => ~busy
ProcInv == proc.list = <<>> => proc = NoProc
DigInv ==
    /\ dig \in [current : Scopes, dirty : BOOLEAN, ttl : 0 .. TTL, pos : Nat]
    /\ at = "watch" => scope[dig.current].live
PlaceInv == PhaseInv /\ ProcInv /\ DigInv /\ deferred \in Nat

\* No phase is set outside of $apply and $digest.
LEMMA PhaseStep == QueueType /\ ControlInv /\ PhaseInv /\ [Next]_vars => PhaseInv'
<1> SUFFICES ASSUME QueueType, ControlInv, PhaseInv, [Next]_vars PROVE PhaseInv'
  OBVIOUS
<1>1. CASE UNCHANGED <<at, phase, busy>>
  BY <1>1 DEF PhaseInv
<1>2. CASE Event \/ LeaveOutside
  <2>1. CASE Event
    BY <2>1 DEF PhaseInv, Event
  <2>2. CASE LeaveOutside
    <3>1. at = "outside" /\ phase \in BOOLEAN /\ ~phase
      BY <2>2 DEF PhaseInv, LeaveOutside
    <3>2. CASE at' = "idle" /\ busy' = FALSE /\ UNCHANGED phase
      BY <3>1, <3>2 DEF PhaseInv
    <3>3. CASE at' = "apply" /\ phase' = TRUE
      BY <3>3 DEF PhaseInv
    <3> QED
      BY <2>2, <3>2, <3>3 DEF LeaveOutside
  <2> QED
    BY <1>2, <2>1, <2>2
<1>3. CASE LeaveApply \/ AsyncTimer \/ ApplyTimer
  BY <1>1, <1>3 DEF PhaseInv, LeaveApply, AsyncTimer, ApplyTimer, BeginDigest
<1>4. CASE Flush \/ NextTask \/ PlainTaskReturns \/ TasksDone
  BY <1>4 DEF PhaseInv, Flush, NextTask, PlainTaskReturns, TasksDone
<1>5. CASE CallCallback \/ CallbackReturns \/ PassOn
  BY <1>5 DEF PhaseInv, CallCallback, CallbackReturns, PassOn, EntryDone
<1>6. CASE CheckWatch \/ ListenerReturns \/ NextScope
  BY <1>6 DEF PhaseInv, CheckWatch, ListenerReturns, NextScope
<1>7. CASE EndPass
  BY <1>7 DEF PhaseInv, ControlInv, EndPass
<1>8. CASE PostDigest
  BY <1>8 DEF PhaseInv, PostDigest
<1>9. CASE Effect
  BY <1>1, <1>9 DEF Effect
<1>10. CASE UNCHANGED vars
  BY <1>1, <1>10 DEF vars
<1> QED
  BY <1>2, <1>3, <1>4, <1>5, <1>6, <1>7, <1>8, <1>9, <1>10 DEF Next, Engine

\* Without entries there is no promise in processQueue's hands.
LEMMA ProcStep ==
    ASSUME IndInv, PromptInv, ProcInv, [Next]_vars
    PROVE  ProcInv'
<1>0. QueueType /\ ControlInv
  BY DEF IndInv
<1>1. CASE UNCHANGED proc
  BY <1>1 DEF ProcInv
<1>2. CASE CallbackReturns \/ PassOn
  <2>1. proc.list # <<>> /\ proc' = RestOf(proc.list)
    BY <1>2 DEF CallbackReturns, PassOn, EntryDone
  <2>2. CASE Len(proc.list) = 1
    BY <2>1, <2>2 DEF RestOf, ProcInv
  <2>3. CASE Len(proc.list) # 1
    <3>1. proc' = [proc EXCEPT !.list = Tail(proc.list)] /\ "list" \in DOMAIN proc
      BY <1>0, <2>1, <2>3 DEF RestOf, QueueType
    <3>2. proc.list \in Seq(Entries) /\ Tail(proc.list) \in Seq(Entries)
          /\ Len(Tail(proc.list)) = Len(proc.list) - 1 /\ Len(proc.list) \in Nat \ {0}
      BY <1>0, <2>1, TailFacts DEF QueueType
    <3>3. Tail(proc.list) # <<>>
      <4>1. Len(Tail(proc.list)) # 0
        BY <2>3, <3>2
      <4>2. Len(<<>>) = 0
        OBVIOUS
      <4> QED
        BY <4>1, <4>2, Zenon
    <3> QED
      BY <3>1, <3>3 DEF ProcInv
  <2> QED
    BY <2>2, <2>3
<1>3. CASE NextTask /\ proc' # proc
  <2>1. /\ proc.list = <<>> /\ dig.pos < Len(asyncQueue) /\ asyncQueue[dig.pos + 1] # PlainTask
        /\ proc' = [p |-> asyncQueue[dig.pos + 1][2],
                    list |-> promise[asyncQueue[dig.pos + 1][2]].pending]
    BY <1>3 DEF NextTask
  <2>2. asyncQueue \in Seq(Tasks) /\ dig.pos \in Nat /\ Len(asyncQueue) \in Nat
    BY <1>0, EmptyFacts DEF QueueType
  <2>3. asyncQueue[dig.pos + 1] \in Tasks
    BY <2>1, <2>2, EmptyFacts
  <2>4. PICK p \in Promises : asyncQueue[dig.pos + 1] = ProcessTask(p)
    BY <2>1, <2>3 DEF Tasks
  <2>5. ToComeAt(dig.pos + 1, p)
    BY <2>1, <2>2, <2>4 DEF ToComeAt, Begun
  <2>6. promise[p].pending # <<>>
    BY <2>2, <2>5 DEF PromptInv
  <2>7. proc'.list = promise[p].pending
    BY <2>1, <2>4, TaskKinds
  <2> QED
    BY <2>6, <2>7 DEF ProcInv
<1>4. (CallbackReturns \/ PassOn \/ NextTask) \/ UNCHANGED proc
  BY DEF Next, vars, Event, Effect, Engine, LeaveOutside, LeaveApply, AsyncTimer, ApplyTimer, BeginDigest,
         Flush, PlainTaskReturns, TasksDone, CallCallback, CheckWatch, ListenerReturns, NextScope,
         EndPass, PostDigest
<1> QED
  BY <1>1, <1>2, <1>3, <1>4

\* $evalAsync sets at most one timer more.
LEMMA DeferredStep ==
    ASSUME deferred \in Nat, [Next]_vars
    PROVE  deferred' \in Nat
<1>1. ASSUME NEW t, evalAsync(t) PROVE deferred' \in Nat
  BY <1>1 DEF evalAsync
<1>2. ASSUME NEW q, NEW p, NEW st, settle(q, p, st) PROVE deferred' \in Nat
  BY <1>1, <1>2 DEF settle
<1>3. ASSUME NEW q, NEW p, NEW e, enterThen(q, p, e) PROVE deferred' \in Nat
  BY <1>1, <1>3 DEF enterThen
<1>4. CASE Effect
  BY <1>1, <1>2, <1>3, <1>4 DEF Effect, EditPage, Queue, UsePromise, applyAsync, settleDeferred, then
<1>5. CASE CallbackReturns \/ PassOn
  BY <1>2, <1>3, <1>5 DEF CallbackReturns, PassOn
<1>6. CASE AsyncTimer
  BY <1>6 DEF AsyncTimer
<1>7. (Effect \/ CallbackReturns \/ PassOn \/ AsyncTimer) \/ UNCHANGED deferred
  BY DEF Next, vars, Event, Engine, LeaveOutside, LeaveApply, ApplyTimer, BeginDigest,
         Flush, NextTask, PlainTaskReturns, TasksDone, CallCallback, CheckWatch, ListenerReturns, NextScope,
         EndPass, PostDigest
<1> QED
  BY <1>4, <1>5, <1>6, <1>7

\* What page code calls but for $destroy ends no scope's life.
LEMMA OthersLive ==
    ASSUME PageType, TreeInv, Effect, ~\E s \in Children : destroy(s), NEW x \in Scopes, scope[x].live
    PROVE  scope'[x].live
<1>1. CASE UNCHANGED scope
  BY <1>1
<1>2. ASSUME NEW p \in Scopes, scope[p].live, newChild(p) PROVE scope'[x].live
  <2>1. PICK c \in Children : Birth(p, c)
    BY <1>2, NewChildStep
  <2>2. x # c
    BY <2>1, ScopeNames DEF Birth, TreeInv
  <2> QED
    BY <2>1, <2>2 DEF Birth
<1>3. ASSUME NEW s \in Scopes, NEW v \in Vars, scope[s].live, addWatch(s, v) PROVE scope'[x].live
  BY <1>3, AddWatchStep DEF AddedWatch, Rewatch
<1>4. ASSUME NEW s \in Scopes, NEW i \in DOMAIN scope[s].watchers, deregisterWatch(s, i)
      PROVE  scope'[x].live
  BY <1>4, DeregisterStep DEF RemovedWatch, Rewatch
<1>5. EditPage \/ UNCHANGED scope
  BY DEF Effect, Queue, UsePromise
<1> QED
  BY <1>1, <1>2, <1>3, <1>4, <1>5 DEF EditPage

\* The digest is at a scope that lives while it goes over the watches.
LEMMA DigStep ==
    ASSUME IndInv, PageType, TreeInv, PlaceInv, [Next]_vars
    PROVE  DigInv'
<1> DEFINE D == [current : Scopes, dirty : BOOLEAN, ttl : 0 .. TTL, pos : Nat]
<1>0. /\ dig \in D /\ QueueType /\ Root \in Scopes /\ TTL \in Nat
      /\ at = "watch" => scope[dig.current].live
  BY DigestAssumption, ScopeNames DEF PlaceInv, DigInv, IndInv
<1>1. Locals \in D
  BY <1>0 DEF Locals
<1>15. dig.ttl > 0 => [dig EXCEPT !.ttl = @ - 1] \in D
  <2>1. dig.ttl > 0 => dig.ttl - 1 \in 0 .. TTL
    BY <1>0
  <2> QED
    BY <1>0, <2>1
<1>16. [dig EXCEPT !.pos = @ + 1] \in D
  <2>1. dig.pos + 1 \in Nat
    BY <1>0
  <2> QED
    BY <1>0, <2>1
<1>2. /\ dig.current \in Scopes /\ dig.dirty \in BOOLEAN /\ dig.ttl \in 0 .. TTL /\ dig.pos \in Nat
      /\ \A c \in Scopes : [dig EXCEPT !.current = c] \in D
      /\ \A c \in Scopes : [dig EXCEPT !.current = c, !.dirty = FALSE, !.pos = 0] \in D
      /\ \A b \in BOOLEAN : [dig EXCEPT !.dirty = b] \in D
      /\ [dig EXCEPT !.pos = @ + 1] \in D
      /\ dig.ttl > 0 => [dig EXCEPT !.ttl = @ - 1] \in D
  BY <1>0, <1>15, <1>16
<1>3. SUFFICES dig' \in D /\ (at' = "watch" => scope'[dig'.current].live)
  BY DEF DigInv
<1> HIDE DEF D
<1>4. ASSUME UNCHANGED <<at, dig>>, \A x \in Scopes : scope'[x].live = scope[x].live
      PROVE  dig' \in D /\ (at' = "watch" => scope'[dig'.current].live)
  BY <1>0, <1>2, <1>4
<1>5. ASSUME at' # "watch", dig' = dig \/ dig' = Locals
      PROVE  dig' \in D /\ (at' = "watch" => scope'[dig'.current].live)
  BY <1>0, <1>1, <1>5
<1>6. CASE Event \/ LeaveOutside \/ LeaveApply \/ ApplyTimer \/ Flush \/ PostDigest
  <2>1. at' # "watch" /\ (dig' = dig \/ dig' = Locals)
    BY <1>6 DEF Event, LeaveOutside, LeaveApply, ApplyTimer, BeginDigest, Flush, PostDigest
  <2> QED
    BY <1>5, <2>1
<1>7. CASE AsyncTimer
  BY <1>4, <1>5, <1>7 DEF AsyncTimer, BeginDigest
<1>8. CASE NextTask \/ CallCallback \/ ListenerReturns \/ UNCHANGED vars
  BY <1>4, <1>8 DEF NextTask, CallCallback, ListenerReturns, vars
<1>9. CASE PlainTaskReturns \/ CallbackReturns \/ PassOn
  <2>1. at = "async" /\ at' = at /\ (dig' = dig \/ dig' = [dig EXCEPT !.pos = @ + 1])
    BY <1>9 DEF PlainTaskReturns, CallbackReturns, PassOn, EntryDone, TaskDone
  <2> QED
    BY <1>0, <1>2, <2>1
<1>10. CASE TasksDone
  <2>1. scope[Root].live
    BY <1>0, RootAlone DEF TreeInv
  <2>2. scope' = [scope EXCEPT ![Root].index = Len(scope[Root].watchers)]
        /\ dig' = [dig EXCEPT !.current = Root, !.dirty = FALSE, !.pos = 0]
    BY <1>10 DEF TasksDone
  <2>3. scope'[Root].live /\ dig'.current = Root
    <3>1. scope \in [Scopes -> ScopeType]
      BY DEF PageType
    <3>2. scope[Root] \in ScopeType /\ scope'[Root] = [scope[Root] EXCEPT !.index = Len(scope[Root].watchers)]
      BY <1>0, <2>2, <3>1
    <3>3. scope'[Root].live = scope[Root].live
      BY <3>2 DEF ScopeType
    <3> QED
      BY <1>0, <2>1, <2>2, <3>3 DEF D
  <2> QED
    BY <1>0, <1>2, <2>2, <2>3
<1>11. CASE CheckWatch
  <2>1. \A x \in Scopes : scope'[x].live = scope[x].live
    BY <1>2, <1>11, EngineIndex DEF OnlyIndex, SameScope
  <2>2. at = "watch" /\ \E b \in BOOLEAN : dig' = [dig EXCEPT !.dirty = b]
    <3> DEFINE w == scope[dig.current].watchers[scope[dig.current].index]
    <3>1. (dig.dirty /\ w # lastDirtyWatch) \in BOOLEAN
      OBVIOUS
    <3> HIDE DEF w
    <3> QED
      BY <1>11, <3>1 DEF CheckWatch, w
  <2>3. dig' \in D /\ dig'.current = dig.current
    BY <1>0, <1>2, <2>2 DEF D
  <2> QED
    BY <1>0, <1>2, <2>1, <2>2, <2>3
<1>12. CASE NextScope
  <2>1. \A x \in Scopes : scope'[x].live = scope[x].live
    BY <1>2, <1>12, EngineIndex DEF OnlyIndex, SameScope
  <2>2. CASE After(dig.current) = NoScope
    BY <1>5, <1>12, <2>2 DEF NextScope
  <2>3. CASE After(dig.current) # NoScope
    <3> DEFINE n == After(dig.current)
    <3>1. at = "watch" /\ dig' = [dig EXCEPT !.current = n]
      BY <1>12, <2>3 DEF NextScope
    <3>2. n \in Scopes /\ scope[n].live
      BY <1>0, <1>2, <2>3, <3>1, AfterLives
    <3> HIDE DEF n
    <3>3. dig' \in D /\ dig'.current = n
      BY <1>0, <1>2, <3>1, <3>2 DEF D
    <3> QED
      BY <2>1, <3>2, <3>3
  <2> QED
    BY <2>2, <2>3
<1>13. CASE EndPass
  <2>1. at' # "watch" /\ (dig' = Locals \/ (dig.ttl > 0 /\ dig' = [dig EXCEPT !.ttl = @ - 1]))
    BY <1>13 DEF EndPass
  <2> QED
    BY <1>1, <1>2, <2>1
<1>14. CASE Effect
  <2>1. UNCHANGED <<at, dig>>
    BY <1>14 DEF Effect
  <2>2. CASE \E s \in Children : destroy(s)
    <3>1. PICK s \in Children : destroy(s)
      BY <2>2
    <3>2. at = "watch" => s \notin Above(dig.current)
      BY <3>1 DEF destroy, Above
    <3>3. \A x \in Scopes : scope'[x].live <=> scope[x].live /\ s \notin Above(x)
      BY <3>1, DestroyStep DEF Death
    <3> QED
      BY <1>0, <1>2, <2>1, <3>2, <3>3
  <2>3. CASE ~\E s \in Children : destroy(s)
    <3>1. ASSUME at = "watch" PROVE scope'[dig.current].live
      BY <1>0, <1>2, <1>14, <2>3, <3>1, OthersLive
    <3> QED
      BY <1>0, <2>1, <3>1
  <2> QED
    BY <2>2, <2>3
<1> QED
  BY <1>6, <1>7, <1>8, <1>9, <1>10, <1>11, <1>12, <1>13, <1>14 DEF Next, Engine

-----------------------------------------------------------------------------
(***************************************************************************)
(* The invariants together.                                                *)
(***************************************************************************)

\* They hold on the page as it was compiled.
LEMMA InitPage == Init => PageType /\ TreeInv /\ CountInv
<1> SUFFICES ASSUME Init PROVE PageType /\ TreeInv /\ CountInv
  OBVIOUS
<1>0. /\ Root \in Scopes /\ Controller \in Scopes /\ Root # Controller /\ NoScope \notin Scopes
      /\ <<>> \in Seq(Scopes) /\ <<>> \in Seq(Nat) /\ <<Controller>> \in Seq(Scopes)
      /\ <<1>> \in Seq(Nat) /\ <<2>> \in Seq(Nat)
  BY ScopeNames
<1>1. /\ scope[Root] = [NewScope(NoScope) EXCEPT !.kids = <<Controller>>, !.watchers = <<1>>, !.count = 2]
      /\ scope[Controller] = [NewScope(Root) EXCEPT !.watchers = <<2>>, !.count = 1]
      /\ \A x \in Scopes \ {Root, Controller} : scope[x] = Unborn
      /\ DOMAIN scope = Scopes /\ scope = [x \in Scopes |-> scope[x]]
  BY <1>0 DEF Init
<1>10. ASSUME NEW k \in Seq(Scopes), NEW w \in Seq(Nat), NEW n \in Nat, NEW q \in Scopes \cup {NoScope},
              NEW b \in BOOLEAN
       PROVE  [parent |-> q, kids |-> k, watchers |-> w, index |-> -1, count |-> n,
               born |-> b, live |-> b] \in ScopeType
  BY DEF ScopeType
<1>2. /\ scope[Root].parent = NoScope /\ scope[Root].kids = <<Controller>> /\ scope[Root].watchers = <<1>>
      /\ scope[Root].index = -1 /\ scope[Root].count = 2 /\ scope[Root].born = TRUE /\ scope[Root].live = TRUE
      /\ scope[Root] \in ScopeType
  <2>1. scope[Root] = [parent |-> NoScope, kids |-> <<Controller>>, watchers |-> <<1>>, index |-> -1, count |-> 2,
               born |-> TRUE, live |-> TRUE]
    BY <1>0, <1>1 DEF NewScope
  <2>2. scope[Root] \in ScopeType
    BY <1>0, <1>10, <2>1
  <2> QED
    BY <2>1, <2>2
<1>3. /\ scope[Controller].parent = Root /\ scope[Controller].kids = <<>>
      /\ scope[Controller].watchers = <<2>> /\ scope[Controller].index = -1
      /\ scope[Controller].count = 1 /\ scope[Controller].born = TRUE /\ scope[Controller].live = TRUE
      /\ scope[Controller] \in ScopeType
  <2>1. scope[Controller] = [parent |-> Root, kids |-> <<>>, watchers |-> <<2>>, index |-> -1, count |-> 1,
               born |-> TRUE, live |-> TRUE]
    BY <1>0, <1>1 DEF NewScope
  <2>2. scope[Controller] \in ScopeType
    BY <1>0, <1>10, <2>1
  <2> QED
    BY <2>1, <2>2
<1>4. \A x \in Scopes \ {Root, Controller} :
         /\ scope[x].parent = NoScope /\ scope[x].kids = <<>> /\ scope[x].watchers = <<>>
         /\ scope[x].index = -1 /\ scope[x].count = 0 /\ scope[x].born = FALSE /\ scope[x].live = FALSE
         /\ scope[x] \in ScopeType
  <2> SUFFICES ASSUME NEW x \in Scopes \ {Root, Controller}
               PROVE  /\ scope[x].parent = NoScope /\ scope[x].kids = <<>> /\ scope[x].watchers = <<>>
                      /\ scope[x].index = -1 /\ scope[x].count = 0 /\ scope[x].born = FALSE
                      /\ scope[x].live = FALSE /\ scope[x] \in ScopeType
    OBVIOUS
  <2>1. scope[x] = [parent |-> NoScope, kids |-> <<>>, watchers |-> <<>>, index |-> -1, count |-> 0,
               born |-> FALSE, live |-> FALSE]
    <3>1. scope[x] = Unborn
      BY <1>1
    <3> QED
      BY <3>1 DEF NewScope, Unborn
  <2>2. scope[x] \in ScopeType
    BY <1>0, <1>10, <2>1
  <2> QED
    BY <2>1, <2>2
<1>5. scope \in [Scopes -> ScopeType]
  BY <1>1, <1>2, <1>3, <1>4
<1>6. PageType
  <2> DEFINE W == [var : Vars, last : Vals \cup {NoVal}]
  <2>1. \A i \in 1 .. 2 : [var |-> Watched[i], last |-> Start[Watched[i]]] \in W
    BY DigestAssumption
  <2>2. watch \in Seq(W) /\ Len(watch) = 2
    <3> HIDE DEF W
    <3>1. watch \in [1 .. 2 -> W] /\ DOMAIN watch = 1 .. 2
      BY <2>1 DEF Init
    <3>2. watch \in Seq(W)
      <4> DEFINE e(i) == [var |-> Watched[i], last |-> Start[Watched[i]]]
      <4>1. \A i \in 1 .. 2 : e(i) \in W
        BY <2>1 DEF W
      <4>2. watch = [i \in 1 .. 2 |-> e(i)]
        BY DEF Init
      <4> HIDE DEF e
      <4>3. [i \in 1 .. 2 |-> e(i)] \in Seq(W)
        BY <4>1, IsASeq
      <4> QED
        BY <4>2, <4>3
    <3> QED
      BY <3>1, <3>2, LenProperties
  <2>3. model \in [Vars -> Vals] /\ lastDirtyWatch \in 0 .. Len(watch)
    BY <2>2, DigestAssumption DEF Init
  <2>4. ASSUME NEW x \in Scopes
        PROVE  /\ scope[x].index \in -1 .. Len(scope[x].watchers)
               /\ \A i \in 1 .. Len(scope[x].watchers) : scope[x].watchers[i] \in 1 .. Len(watch)
    <3>1. CASE x = Root
      BY <1>2, <2>2, <3>1
    <3>2. CASE x = Controller
      BY <1>3, <2>2, <3>2
    <3>3. CASE x \notin {Root, Controller}
      BY <1>4, <3>3
    <3> QED
      BY <3>1, <3>2, <3>3
  <2> QED
    BY <1>5, <2>2, <2>3, <2>4 DEF PageType
<1>7. /\ Above(Root) = {Root}
      /\ Above(Controller) = {Controller, Root}
      /\ \A x \in Scopes \ {Root, Controller} : Above(x) = {x}
  <2>1. Above(Root) = {Root} /\ \A x \in Scopes \ {Root, Controller} : Above(x) = {x}
    BY <1>0, <1>2, <1>4, <1>5, AncestorStep DEF Above
  <2>2. Above(Controller) = {Controller} \cup Above(Root)
    BY <1>0, <1>3, <1>5, AncestorStep DEF Above
  <2> QED
    BY <2>1, <2>2
<1>8. TreeInv
  <2>1. \A x \in Scopes : scope[x].live <=> Root \in Above(x)
    BY <1>2, <1>3, <1>4, <1>7
  <2>2. ASSUME NEW x \in Scopes, ~scope[x].born
        PROVE  scope[x].parent = NoScope /\ ~scope[x].live /\ \A y \in Scopes : scope[y].parent # x
    BY <1>0, <1>2, <1>3, <1>4, <2>2
  <2>3. ASSUME NEW x \in Children, scope[x].live
        PROVE  \E i \in DOMAIN scope[scope[x].parent].kids : scope[scope[x].parent].kids[i] = x
    <3>1. x = Controller
      BY <1>4, <2>3, ScopeNames
    <3>2. 1 \in DOMAIN <<Controller>> /\ <<Controller>>[1] = Controller
      OBVIOUS
    <3> QED
      BY <1>2, <1>3, <3>1, <3>2
  <2>4. ASSUME NEW x \in Scopes, NEW i \in DOMAIN scope[x].kids, NEW j \in DOMAIN scope[x].kids
        PROVE  /\ scope[scope[x].kids[i]].parent = x
               /\ scope[x].kids[i] = scope[x].kids[j] => i = j
    <3>1. x = Root /\ i = 1 /\ j = 1
      <4>1. DOMAIN <<>> = {} /\ DOMAIN <<Controller>> = {1}
        OBVIOUS
      <4> QED
        BY <1>2, <1>3, <1>4, <4>1
    <3> QED
      BY <1>2, <1>3, <3>1
  <2> QED
    BY <1>2, <2>1, <2>2, <2>3, <2>4 DEF TreeInv
<1>9. CountInv
  <2>1. /\ \A i \in Nat : i \in 1 .. Len(scope[Root].watchers) <=> i = 1
        /\ \A i \in Nat : i \in 1 .. Len(scope[Controller].watchers) <=> i = 1
        /\ \A x \in Scopes \ {Root, Controller} : \A i \in Nat : i \notin 1 .. Len(scope[x].watchers)
    BY <1>2, <1>3, <1>4
  <2>2. Watches(Controller) = {<<Controller, 1>>}
    <3>1. \A y \in Scopes : \A i \in Nat : Watching(Controller, y, i) <=> y = Controller /\ i = 1
      BY <1>0, <1>7, <2>1 DEF Watching
    <3> QED
      BY <1>0, <3>1 DEF Watches
  <2>3. Watches(Root) = {<<Controller, 1>>, <<Root, 1>>}
    <3>1. \A y \in Scopes : \A i \in Nat :
             Watching(Root, y, i) <=> (y = Controller \/ y = Root) /\ i = 1
      BY <1>0, <1>7, <2>1 DEF Watching
    <3> QED
      BY <1>0, <3>1 DEF Watches
  <2>4. IsFiniteSet({<<Controller, 1>>}) /\ Cardinality({<<Controller, 1>>}) = 1
    BY FS_Singleton
  <2>5. IsFiniteSet({<<Controller, 1>>, <<Root, 1>>}) /\ Cardinality({<<Controller, 1>>, <<Root, 1>>}) = 2
    <3>1. <<Root, 1>> \notin {<<Controller, 1>>}
      BY <1>0
    <3>2. {<<Controller, 1>>, <<Root, 1>>} = {<<Controller, 1>>} \cup {<<Root, 1>>}
      OBVIOUS
    <3> DEFINE one == {<<Controller, 1>>}
               r == <<Root, 1>>
    <3>3. IsFiniteSet(one) /\ Cardinality(one) = 1 /\ r \notin one
      BY <2>4, <3>1
    <3>4. IsFiniteSet(one \cup {r}) /\ Cardinality(one \cup {r}) = 2
      <4> HIDE DEF one, r
      <4> QED
        BY <3>3, FS_AddElement
    <3> QED
      BY <3>2, <3>4
  <2> QED
    BY <1>2, <1>3, <1>4, <2>2, <2>3, <2>4, <2>5 DEF CountInv, Counted
<1> QED
  BY <1>6, <1>8, <1>9

\* Nothing is queued, scheduled or under way at first.
LEMMA InitPlace == Init => PlaceInv /\ PromptInv
<1> SUFFICES ASSUME Init PROVE PlaceInv /\ PromptInv
  OBVIOUS
<1>1. /\ asyncQueue = <<>> /\ at = "idle" /\ phase = FALSE /\ busy = FALSE /\ deferred = 0
      /\ proc = NoProc /\ dig = Locals /\ \A p \in Promises : promise[p] = NewPromise
  BY DEF Init
<1>2. Len(asyncQueue) = 0 /\ \A p \in Promises : ~promise[p].scheduled
  BY <1>1 DEF NewPromise
<1>3. PromptInv
  BY <1>2 DEF PromptInv, ToComeAt
<1>4. DigInv
  BY <1>1, ScopeNames, DigestAssumption DEF DigInv, Locals
<1> QED
  BY <1>1, <1>3, <1>4 DEF PlaceInv, PhaseInv, ProcInv

\* Promises and tasks, the tree of scopes, the counts, and where the digest is.
PageInv == IndInv /\ PageType /\ TreeInv /\ CountInv /\ PlaceInv /\ PromptInv

\* They hold in every state of the digest.
THEOREM PageInvariance == Spec => []PageInv
<1>1. Init => PageInv
  BY InitInd, InitPage, InitPlace DEF PageInv
<1>2. PageInv /\ [Next]_vars => PageInv'
  <2> SUFFICES ASSUME PageInv, [Next]_vars PROVE PageInv'
    OBVIOUS
  <2>1. IndInv /\ PageType /\ TreeInv /\ CountInv /\ PlaceInv /\ PromptInv
    BY DEF PageInv
  <2>2. Kinds /\ QueueType' /\ QueueType /\ ControlInv /\ EntriesInv /\ dig.current \in Scopes
    BY <2>1, Steps DEF IndInv, PlaceInv, DigInv
  <2>3. IndInv'
    BY <2>1, <2>2, ControlStep, EntriesStep, OrderStep, TaskStep, SettledStep DEF IndInv
  <2>4. PageType' /\ TreeInv' /\ CountInv'
    BY <2>1, <2>2, PageStep, TreeStep, CountStep
  <2>5. PromptInv'
    BY <2>1, <2>2, PromptStep
  <2>6. PlaceInv'
    BY <2>1, <2>2, PhaseStep, ProcStep, DeferredStep, DigStep DEF PlaceInv
  <2> QED
    BY <2>3, <2>4, <2>5, <2>6 DEF PageInv
<1> QED
  BY <1>1, <1>2, PTL DEF Spec

\* The types: among others, the places of the digest stay within the lists of watchers
\* that listeners change under it, and at rest no phase is set and no promise is in hand.
THEOREM PageTypes == Spec => []TypeOK
<1>1. PageInv => TypeOK
  <2> SUFFICES ASSUME PageInv PROVE TypeOK
    OBVIOUS
  <2>1. IndInv /\ PageType /\ PlaceInv /\ QueueType /\ ControlInv
    BY DEF PageInv, IndInv
  <2>2. at = "idle" => ~busy /\ ~phase /\ proc = NoProc
    BY <2>1 DEF PlaceInv, PhaseInv, ProcInv, ControlInv
  <2>3. dig.ttl \in -1 .. TTL
    BY <2>1, DigestAssumption DEF PlaceInv, DigInv
  <2>4. \A p \in Promises : promise[p].status \in {-1, 0, 1, 2}
    BY <2>1 DEF QueueType, PromiseType
  <2>5. \A i \in DOMAIN watch : watch[i] \in [var : Vars, last : Vals \cup {NoVal}]
    <3> DEFINE W == [var : Vars, last : Vals \cup {NoVal}]
    <3>1. watch \in Seq(W)
      BY <2>1 DEF PageType
    <3> HIDE DEF W
    <3>2. \A i \in DOMAIN watch : watch[i] \in W
      BY <3>1
    <3> QED
      BY <3>2 DEF W
  <2> QED
    BY <2>1, <2>2, <2>3, <2>4, <2>5 DEF TypeOK, PlaceInv, PhaseInv, PageType
<1> QED
  BY <1>1, PageInvariance, PTL

\* $$watchersCount is the number of watches at or below a scope of the page, in every
\* order of creating and destroying scopes, watching and deregistering.
THEOREM CountsExact == Spec => []CountExact
<1>1. PageInv => CountExact
  <2> SUFFICES ASSUME PageInv, NEW s \in Below(Root)
               PROVE  scope[s].count = Cardinality(UNION {{x} \X DOMAIN scope[x].watchers : x \in Below(s)})
    BY DEF CountExact
  <2>1. PageType /\ TreeInv /\ CountInv
    BY DEF PageInv
  <2>2. s \in Scopes /\ scope[s].live
    BY <2>1 DEF Below, Above, TreeInv
  <2>3. \A x \in Scopes : DOMAIN scope[x].watchers = 1 .. Len(scope[x].watchers)
                          /\ DOMAIN scope[x].watchers \subseteq Nat
    <3> SUFFICES ASSUME NEW x \in Scopes
                 PROVE  DOMAIN scope[x].watchers = 1 .. Len(scope[x].watchers)
                        /\ DOMAIN scope[x].watchers \subseteq Nat
      OBVIOUS
    <3>1. scope[x].watchers \in Seq(Nat)
      BY <2>1 DEF PageType, ScopeType
    <3> QED
      BY <3>1
  <2>4. UNION {{x} \X DOMAIN scope[x].watchers : x \in Below(s)} = Watches(s)
    <3> DEFINE U == UNION {{x} \X DOMAIN scope[x].watchers : x \in Below(s)}
    <3>1. \A w : w \in U <=> \E x \in Below(s) : w \in {x} \X DOMAIN scope[x].watchers
      OBVIOUS
    <3>2. ASSUME NEW w \in U PROVE w \in Watches(s)
      <4>1. PICK x \in Below(s) : w \in {x} \X DOMAIN scope[x].watchers
        BY <3>1
      <4>2. x \in Scopes /\ s \in Above(x) /\ w[1] = x /\ w[2] \in DOMAIN scope[x].watchers /\ w = <<w[1], w[2]>>
        BY <4>1 DEF Below, Above
      <4> QED
        BY <2>3, <4>2 DEF Watches, Watching
    <3>3. ASSUME NEW w \in Watches(s) PROVE w \in U
      <4>1. w[1] \in Scopes /\ s \in Above(w[1]) /\ w[2] \in 1 .. Len(scope[w[1]].watchers) /\ w = <<w[1], w[2]>>
        BY DEF Watches, Watching
      <4>2. w[1] \in Below(s) /\ w \in {w[1]} \X DOMAIN scope[w[1]].watchers
        BY <2>3, <4>1 DEF Below, Above
      <4> QED
        BY <3>1, <4>2
    <3> HIDE DEF U
    <3>4. U = Watches(s)
      BY <3>2, <3>3
    <3> QED
      BY <3>4 DEF U
  <2> QED
    BY <2>1, <2>2, <2>4 DEF CountInv, Counted
<1> QED
  BY <1>1, PageInvariance, PTL

-----------------------------------------------------------------------------
(***************************************************************************)
(* The order in which the digest visits the scopes.                        *)
(***************************************************************************)

\* Siblings, a before b.
Beside(a, b) ==
    /\ a \in Children /\ b \in Children
    /\ scope[a].parent = scope[b].parent
    /\ Place(a) < Place(b)

\* Depth first: a scope comes before those below it, and before its later siblings and
\* what is below those.
Before(x, y) ==
    \/ x # y /\ x \in Above(y)
    \/ \E a \in Above(x), b \in Above(y) : Beside(a, b)

Live(x) == x \in Scopes /\ scope[x].live

\* Two scopes are not above each other.
LEMMA AboveOneWay ==
    ASSUME PageType, TreeInv, NEW x, NEW y, Live(x), x \in Above(y), y \in Above(x), y \in Scopes
    PROVE  x = y
<1> SUFFICES ASSUME x # y PROVE FALSE
  OBVIOUS
<1> DEFINE round == {z \in Above(x) : x \in Above(z)}
<1>0. /\ scope \in [Scopes -> ScopeType] /\ x \in Scopes /\ Above(x) \subseteq Scopes /\ x \in Above(x)
      /\ Root \in Above(x)
  BY AncestorFacts DEF PageType, Above, Live, TreeInv
<1>1. ASSUME NEW z \in round, scope[z].parent # NoScope PROVE scope[z].parent \in round
  <2>1. z \in Scopes /\ scope[z].parent \in Above(x) /\ scope[z].parent \in Scopes
    BY <1>0, <1>1, AncestorFacts DEF Above
  <2>2. Above(z) = {z} \cup Above(scope[z].parent)
    BY <1>0, <1>1, <2>1, AncestorStep DEF Above
  <2>3. CASE z # x
    BY <2>1, <2>2, <2>3
  <2>4. CASE z = x
    <3>1. y \in Above(scope[x].parent)
      BY <2>2, <2>4
    <3>2. Above(y) \subseteq Above(scope[x].parent)
      BY <1>0, <2>1, <2>4, <3>1, AncestorsOfAncestor DEF Above
    <3> QED
      BY <2>1, <2>4, <3>2
  <2> QED
    BY <2>3, <2>4
<1>2. Above(x) \subseteq round
  <2>1. round \in SUBSET Scopes /\ x \in round /\ \A z \in round : scope[z].parent \in round \cup {NoScope}
    BY <1>0, <1>1
  <2> HIDE DEF round
  <2> QED
    BY <1>0, <2>1, AncestorsLeast DEF Above
<1>3. x \in Above(Root)
  BY <1>0, <1>2
<1> QED
  BY <1>3, RootAlone

\* What is above a scope that lives has a place among its siblings, unless it is the root.
LEMMA Placed ==
    ASSUME PageType, TreeInv, NEW a \in Children, Live(a)
    PROVE  LET p == scope[a].parent
               k == scope[p].kids
           IN  /\ a \in Scopes /\ Live(p) /\ p \in Above(a) /\ p # a
               /\ Above(a) = {a} \cup Above(p)
               /\ k \in Seq(Scopes) /\ Len(k) \in Nat
               /\ Place(a) \in 1 .. Len(k) /\ k[Place(a)] = a
               /\ a \notin Above(p)
<1> DEFINE p == scope[a].parent
           k == scope[p].kids
<1>1. /\ a \in Scopes /\ p \in Scopes /\ p # a /\ scope[p].live
      /\ Above(a) = {a} \cup Above(p)
      /\ Place(a) \in DOMAIN k /\ k[Place(a)] = a
  BY LiveParent DEF Live
<1>2. k \in Seq(Scopes)
  BY <1>1 DEF PageType, ScopeType
<1>3. p \in Above(p)
  BY <1>1, AncestorFacts DEF PageType, Above
<1>4. a \notin Above(p)
  BY <1>1, <1>3, AboveOneWay DEF Live
<1>5. Len(k) \in Nat /\ Place(a) \in 1 .. Len(k)
  <2> HIDE DEF k
  <2> QED
    BY <1>1, <1>2
<1> QED
  BY <1>1, <1>2, <1>3, <1>4, <1>5 DEF Live

\* What is above something above a scope is above it, and lives with it.
LEMMA AboveUp ==
    ASSUME PageType, TreeInv, NEW x, Live(x), NEW a \in Above(x)
    PROVE  Live(a) /\ Above(a) \subseteq Above(x) /\ a \in Above(a) /\ x \in Above(x) /\ Root \in Above(x)
  BY AboveLive, AncestorFacts, AncestorsOfAncestor DEF PageType, Above, Live, TreeInv

\* Of two siblings a scope is below one at most.
LEMMA OneBranch ==
    ASSUME PageType, TreeInv, NEW x, Live(x), NEW a \in Above(x), NEW b \in Above(x),
           a \in Children, b \in Children, scope[a].parent = scope[b].parent
    PROVE  a = b
<1>1. Live(a) /\ Live(b) /\ scope \in [Scopes -> ScopeType]
  BY AboveUp DEF PageType
<1>2. a \in Above(b) \/ b \in Above(a)
  BY <1>1, AncestorsLinear DEF Above, Live
<1> QED
  BY <1>1, <1>2, Placed

\* On the way up to a scope there is one of its children.
LEMMA BranchBelow ==
    ASSUME PageType, TreeInv, NEW x, Live(x), NEW p \in Above(x), p # x
    PROVE  \E a \in Above(x) : a \in Children /\ scope[a].parent = p
<1> SUFFICES ASSUME \A a \in Above(x) : ~(a \in Children /\ scope[a].parent = p) PROVE FALSE
  OBVIOUS
<1> DEFINE up == {z \in Above(x) : p \in Above(z) /\ z # p}
<1>0. /\ scope \in [Scopes -> ScopeType] /\ x \in Scopes /\ Above(x) \subseteq Scopes /\ x \in Above(x)
      /\ scope[Root].parent = NoScope
  BY AncestorFacts DEF PageType, Above, Live, TreeInv
<1>1. ASSUME NEW z \in up, scope[z].parent # NoScope PROVE scope[z].parent \in up
  <2>1. z \in Children /\ Live(z)
    BY <1>0, <1>1, AboveUp DEF Scopes
  <2>2. Above(z) = {z} \cup Above(scope[z].parent) /\ scope[z].parent \in Above(z)
    BY <2>1, Placed
  <2>3. scope[z].parent # p
    BY <2>1
  <2> QED
    BY <2>2, <2>3, AboveUp
<1>2. up \in SUBSET Scopes /\ x \in up /\ \A z \in up : scope[z].parent \in up \cup {NoScope}
  BY <1>0, <1>1
<1>3. Above(x) \subseteq up
  <2> HIDE DEF up
  <2> QED
    BY <1>0, <1>2, AncestorsLeast DEF Above
<1> QED
  BY <1>3

\* What a sibling has above it but for itself, the others have too.
LEMMA SiblingsShare ==
    ASSUME PageType, TreeInv, NEW a, NEW b, a \in Children, b \in Children, Live(a), Live(b),
           scope[a].parent = scope[b].parent, NEW c \in Above(a), c # a
    PROVE  c \in Above(b)
  BY Placed

\* Siblings with the same place are the same.
LEMMA SamePlace ==
    ASSUME PageType, TreeInv, NEW a, NEW b, a \in Children, b \in Children, Live(a), Live(b),
           scope[a].parent = scope[b].parent
    PROVE  a = b \/ Beside(a, b) \/ Beside(b, a)
<1>1. Place(a) \in Int /\ Place(b) \in Int /\ (Place(a) = Place(b) => a = b)
  BY Placed
<1> QED
  BY <1>1 DEF Beside

\* Beside is an order.
LEMMA BesideFacts ==
    ASSUME PageType, TreeInv, NEW a, NEW b, Live(a), Live(b), Beside(a, b)
    PROVE  /\ a # b /\ ~Beside(b, a)
           /\ \A c : Live(c) /\ Beside(b, c) => Beside(a, c)
<1>1. Place(a) \in Int /\ Place(b) \in Int
  BY Placed DEF Beside
<1>2. \A c : Live(c) /\ Beside(b, c) => Place(c) \in Int
  BY Placed DEF Beside
<1> QED
  BY <1>1, <1>2 DEF Beside
\* Any two scopes are visited one before the other.
LEMMA BeforeTotal ==
    ASSUME PageType, TreeInv, NEW x, NEW y, Live(x), Live(y)
    PROVE  x = y \/ Before(x, y) \/ Before(y, x)
<1> SUFFICES ASSUME x \notin Above(y), y \notin Above(x) PROVE Before(x, y) \/ Before(y, x)
  BY DEF Before
<1> DEFINE both == Above(x) \cap Above(y)
<1>1. Root \in both /\ both \in SUBSET Above(x)
  BY DEF Live, TreeInv
<1>2. PICK p \in both : both \subseteq Above(p)
  <2>1. both # {}
    BY <1>1
  <2> HIDE DEF both
  <2> QED
    BY <1>1, <2>1, NearestExists DEF Live
<1>3. p # x /\ p # y
  OBVIOUS
<1>4. PICK a \in Above(x) : a \in Children /\ scope[a].parent = p
  BY <1>3, BranchBelow
<1>5. PICK b \in Above(y) : b \in Children /\ scope[b].parent = p
  BY <1>3, BranchBelow
<1>6. Live(a) /\ Live(b)
  BY AboveUp
<1>7. a # b
  BY <1>2, <1>4, <1>6, Placed
<1>8. Beside(a, b) \/ Beside(b, a)
  BY <1>4, <1>5, <1>6, <1>7, SamePlace
<1> QED
  BY <1>8 DEF Before

\* Where two scopes fork, neither is above the other's side of the fork.
LEMMA Fork ==
    ASSUME PageType, TreeInv, NEW x, NEW y, Live(x), Live(y),
           NEW a \in Above(x), NEW b \in Above(y), Beside(a, b)
    PROVE  /\ a \notin Above(y) /\ b \notin Above(x) /\ Live(a) /\ Live(b)
           /\ \A c \in Above(x) : c \in Above(a) \/ a \in Above(c)
           /\ \A c \in Above(y) : c \in Above(b) \/ b \in Above(c)
           /\ \A c \in Above(a) : c # a => c \in Above(y)
           /\ \A c \in Above(b) : c # b => c \in Above(x)
<1>1. Live(a) /\ Live(b) /\ scope \in [Scopes -> ScopeType]
  BY AboveUp DEF PageType
<1>2. a # b
  BY <1>1, BesideFacts
<1>3. a \notin Above(y) /\ b \notin Above(x)
  BY <1>2, OneBranch DEF Beside
<1>4. /\ \A c \in Above(x) : c \in Above(a) \/ a \in Above(c)
      /\ \A c \in Above(y) : c \in Above(b) \/ b \in Above(c)
  BY <1>1, AncestorsLinear DEF Above, Live
<1>5. ASSUME NEW c \in Above(a), c # a PROVE c \in Above(y)
  <2>1. c \in Above(b)
    BY <1>1, <1>5, SiblingsShare DEF Beside
  <2> QED
    BY <2>1, AboveUp
<1>6. ASSUME NEW c \in Above(b), c # b PROVE c \in Above(x)
  <2>1. c \in Above(a)
    BY <1>1, <1>6, SiblingsShare DEF Beside
  <2> QED
    BY <2>1, AboveUp
<1> QED
  BY <1>1, <1>3, <1>4, <1>5, <1>6

\* Never both ways.
LEMMA BeforeOneWay ==
    ASSUME PageType, TreeInv, NEW x, NEW y, Live(x), Live(y), Before(x, y), Before(y, x)
    PROVE  FALSE
<1>1. CASE x \in Above(y) /\ y \in Above(x)
  <2>1. x = y
    BY <1>1, AboveOneWay DEF Live
  <2>2. PICK a \in Above(x), b \in Above(x) : Beside(a, b)
    BY <2>1 DEF Before
  <2>3. Live(a) /\ Live(b)
    BY AboveUp
  <2> QED
    BY <2>2, <2>3, OneBranch, BesideFacts DEF Beside
<1>2. ASSUME NEW u, NEW v, Live(u), Live(v), u \in Above(v), NEW a \in Above(v), NEW b \in Above(u), Beside(a, b)
      PROVE  FALSE
  BY <1>2, Fork, AboveUp
<1>3. ASSUME NEW a \in Above(x), NEW b \in Above(y), Beside(a, b),
             NEW c \in Above(y), NEW d \in Above(x), Beside(c, d)
      PROVE  FALSE
  <2>1. Live(a) /\ Live(b) /\ Live(c) /\ Live(d)
    BY AboveUp
  <2>2. CASE c = b
    <3>1. a = d
      BY <1>3, <2>2, OneBranch DEF Beside
    <3> QED
      BY <1>3, <2>1, <2>2, <3>1, BesideFacts
  <2>3. CASE c # b
    BY <1>3, <2>3, Fork
  <2> QED
    BY <2>2, <2>3
<1> QED
  BY <1>1, <1>2, <1>3 DEF Before

\* What comes before what comes before.
LEMMA BeforeThrough ==
    ASSUME PageType, TreeInv, NEW x, NEW y, NEW z, Live(x), Live(y), Live(z), Before(x, y), Before(y, z)
    PROVE  Before(x, z)
<1>0. x # z
  BY BeforeOneWay
<1>1. CASE x \in Above(y) /\ y \in Above(z)
  BY <1>0, <1>1, AboveUp DEF Before
<1>2. ASSUME x \in Above(y), NEW a \in Above(y), NEW b \in Above(z), Beside(a, b)
      PROVE  Before(x, z)
  <2>1. x \in Above(a) \/ a \in Above(x)
    BY <1>2, Fork
  <2>2. CASE a \in Above(x)
    BY <1>2, <2>2 DEF Before
  <2>3. CASE x \in Above(a) /\ x # a
    BY <1>0, <1>2, <2>3, Fork DEF Before
  <2>4. CASE x = a
    BY <1>2, <2>4, AboveUp DEF Before
  <2> QED
    BY <2>1, <2>2, <2>3, <2>4
<1>3. ASSUME y \in Above(z), NEW a \in Above(x), NEW b \in Above(y), Beside(a, b)
      PROVE  Before(x, z)
  BY <1>3, AboveUp DEF Before
<1>4. ASSUME NEW a \in Above(x), NEW b \in Above(y), Beside(a, b),
             NEW c \in Above(y), NEW d \in Above(z), Beside(c, d)
      PROVE  Before(x, z)
  <2>1. Live(a) /\ Live(b) /\ Live(c) /\ Live(d)
    BY AboveUp
  <2>2. CASE b = c
    <3>1. Beside(a, d)
      BY <1>4, <2>1, <2>2, BesideFacts
    <3> QED
      BY <3>1 DEF Before
  <2>3. CASE b # c /\ b \in Above(c)
    <3>1. b \in Above(z)
      BY <1>4, <2>3, Fork
    <3> QED
      BY <1>4, <3>1 DEF Before
  <2>4. CASE b # c /\ c \in Above(b)
    <3>1. c \in Above(x)
      BY <1>4, <2>4, Fork
    <3> QED
      BY <1>4, <3>1 DEF Before
  <2> QED
    BY <1>4, <2>2, <2>3, <2>4, Fork
<1> QED
  BY <1>1, <1>2, <1>3, <1>4 DEF Before
\* The watchers of a scope that lives.
Listed(x, i) == Live(x) /\ i \in 1 .. Len(scope[x].watchers)

\* A scope without a count has no watchers below it.
LEMMA NothingBelow ==
    ASSUME PageType, CountInv, NEW s, Live(s), scope[s].count = 0, NEW x, NEW i, s \in Above(x)
    PROVE  ~Listed(x, i)
<1> SUFFICES ASSUME Listed(x, i) PROVE FALSE
  OBVIOUS
<1>1. IsFiniteSet(Watches(s)) /\ Cardinality(Watches(s)) = 0
  BY DEF CountInv, Counted, Live
<1>2. Watches(s) = {}
  BY <1>1, FS_EmptySet
<1>3. <<x, i>> \in Watches(s)
  <2>1. Watching(s, x, i) /\ x \in Scopes /\ i \in Nat
    BY DEF Watching, Listed, Live
  <2> QED
    BY <2>1 DEF Watches
<1> QED
  BY <1>2, <1>3

\* The scope after s comes after s, and no scope with watchers lies between them; if there
\* is none, no scope with watchers comes after s.
Follows(s, n) ==
    /\ Before(s, n)
    /\ \A y : \A i : Listed(y, i) /\ Before(s, y) => y = n \/ Before(n, y)

\* Down.
LEMMA FollowsDown ==
    ASSUME PageType, TreeInv, NEW s, Live(s), scope[s].kids # <<>>
    PROVE  Follows(s, Head(scope[s].kids))
<1> DEFINE k == scope[s].kids
           n == Head(k)
<1>1. k \in Seq(Scopes) /\ Len(k) \in Nat \ {0} /\ n = k[1] /\ 1 \in DOMAIN k
  <2>1. k \in Seq(Scopes) /\ k # <<>>
    BY DEF PageType, ScopeType, Live
  <2> HIDE DEF k
  <2> QED
    BY <2>1, EmptyFacts
<1>2. Live(n) /\ scope[n].parent = s
  BY <1>1, KidsLive DEF Live, TreeInv
<1>3. n \in Children
  <2>1. s # NoScope /\ scope[Root].parent = NoScope
    BY ScopeNames DEF Live, TreeInv
  <2> QED
    BY <1>2, <2>1 DEF Live, Scopes
<1>4. Above(n) = {n} \cup Above(s) /\ n # s /\ s \in Above(n) /\ n \in Above(n)
  BY <1>2, <1>3, Placed
<1>5. Place(n) = 1
  <2>1. k[Place(n)] = k[1] /\ Place(n) \in DOMAIN k
    <3>1. Place(n) \in 1 .. Len(k) /\ k[Place(n)] = n
      BY <1>2, <1>3, Placed
    <3> HIDE DEF k
    <3> QED
      BY <1>1, <3>1
  <2> QED
    BY <1>1, <2>1 DEF TreeInv, Live
<1> HIDE DEF n, k
<1>6. ASSUME NEW y, Live(y), Before(s, y) PROVE y = n \/ Before(n, y)
  <2>1. CASE s # y /\ s \in Above(y)
    <3>1. PICK a \in Above(y) : a \in Children /\ scope[a].parent = s
      BY <1>6, <2>1, BranchBelow
    <3>2. Live(a) /\ Place(a) \in 1 .. Len(k)
      BY <1>6, <3>1, AboveUp, Placed DEF k
    <3>3. ~Beside(a, n)
      BY <1>1, <1>5, <3>2 DEF Beside
    <3>4. a = n \/ Beside(n, a)
      BY <1>2, <1>3, <3>1, <3>2, <3>3, SamePlace
    <3> QED
      BY <1>4, <3>4 DEF Before
  <2>2. ASSUME NEW a \in Above(s), NEW b \in Above(y), Beside(a, b) PROVE Before(n, y)
    BY <1>4, <2>2 DEF Before
  <2> QED
    BY <1>6, <2>1, <2>2 DEF Before
<1>7. Before(s, n)
  BY <1>4 DEF Before
<1> QED
  BY <1>6, <1>7 DEF Follows, Listed, n, k

\* The next sibling, where there is one.
LEMMA NextSiblingFacts ==
    ASSUME PageType, TreeInv, NEW a, a \in Children, Live(a)
    PROVE  /\ NextSibling(a) # NoScope =>
                 /\ Live(NextSibling(a)) /\ Beside(a, NextSibling(a))
                 /\ \A b : Live(b) /\ Beside(a, b) => b = NextSibling(a) \/ Beside(NextSibling(a), b)
           /\ NextSibling(a) = NoScope => \A b : Live(b) => ~Beside(a, b)
<1> DEFINE p == scope[a].parent
           k == scope[p].kids
           i == Place(a)
           n == NextSibling(a)
<1>1. k \in Seq(Scopes) /\ Len(k) \in Nat /\ i \in 1 .. Len(k) /\ Live(p)
  BY Placed
<1>2. n = IF i < Len(k) THEN k[i + 1] ELSE NoScope
  BY DEF NextSibling
<1>3. ASSUME i < Len(k)
      PROVE  n # NoScope /\ Live(n) /\ n \in Children /\ scope[n].parent = p /\ Place(n) = i + 1
  <2>1. i + 1 \in 1 .. Len(k) /\ i + 1 \in DOMAIN k
    <3> HIDE DEF k, i
    <3> QED
      BY <1>1, <1>3
  <2>2. n = k[i + 1]
    BY <1>2, <1>3
  <2>3. Live(n) /\ scope[n].parent = p
    BY <1>1, <2>1, <2>2, KidsLive DEF Live, TreeInv
  <2>4. n # NoScope /\ n \in Children
    <3>1. p # NoScope /\ scope[Root].parent = NoScope
      BY <1>1, ScopeNames DEF Live, TreeInv
    <3> HIDE DEF n, p
    <3> QED
      BY <2>3, <3>1, ScopeNames DEF Live, Scopes
  <2>5. Place(n) \in DOMAIN k /\ k[Place(n)] = n
    <3>1. LET q == scope[n].parent IN Place(n) \in 1 .. Len(scope[q].kids) /\ scope[q].kids[Place(n)] = n
      BY <2>3, <2>4, Placed
    <3>2. Place(n) \in 1 .. Len(k) /\ k[Place(n)] = n
      BY <2>3, <3>1
    <3> HIDE DEF k
    <3> QED
      BY <1>1, <3>2
  <2>6. Place(n) = i + 1
    BY <1>1, <2>1, <2>2, <2>5 DEF TreeInv, Live
  <2> QED
    BY <2>3, <2>4, <2>6
<1>4. ASSUME NEW b, Live(b), Beside(a, b)
      PROVE  b \in Children /\ scope[b].parent = p /\ Place(b) \in 1 .. Len(k) /\ i < Place(b)
  <2>1. b \in Children /\ scope[b].parent = p /\ i < Place(b)
    BY <1>4 DEF Beside
  <2> QED
    BY <1>4, <2>1, Placed
<1> HIDE DEF n, k, p
<1>5. CASE i < Len(k)
  <2>1. Beside(a, n)
    BY <1>1, <1>3, <1>5 DEF Beside, p
  <2>2. ASSUME NEW b, Live(b), Beside(a, b) PROVE b = n \/ Beside(n, b)
    <3>1. ~Beside(b, n)
      BY <1>1, <1>3, <1>4, <1>5, <2>2 DEF Beside
    <3> QED
      BY <1>3, <1>4, <1>5, <2>2, <3>1, SamePlace
  <2> QED
    BY <1>3, <1>5, <2>1, <2>2 DEF n
<1>6. CASE ~(i < Len(k))
  <2>1. n = NoScope
    BY <1>2, <1>6
  <2>2. \A b : Live(b) => ~Beside(a, b)
    BY <1>1, <1>4, <1>6
  <2> QED
    BY <2>1, <2>2 DEF n
<1> QED
  BY <1>5, <1>6
\* Up.
LEMMA FollowsUp ==
    ASSUME PageType, TreeInv, CountInv, NEW s, Live(s), scope[s].count = 0 \/ scope[s].kids = <<>>
    PROVE  /\ Climb(s) # NoScope => Follows(s, Climb(s))
           /\ Climb(s) = NoScope => \A y : \A i : Listed(y, i) => ~Before(s, y)
<1> DEFINE branches == {a \in Ancestors(scope, s) \ {Root} : NextSibling(a) # NoScope}
           nearest == CHOOSE a \in branches : branches \subseteq Ancestors(scope, a)
           n == NextSibling(nearest)
<1>1. ASSUME NEW y, NEW i, Listed(y, i), Before(s, y)
      PROVE  \E a \in branches, b \in Above(y) : Live(b) /\ Beside(a, b)
  <2>1. Live(y)
    BY <1>1 DEF Listed
  <2>2. ~(s # y /\ s \in Above(y))
    <3>1. scope[s].kids # <<>> \/ ~(s # y /\ s \in Above(y))
      <4> SUFFICES ASSUME s # y, s \in Above(y) PROVE scope[s].kids # <<>>
        OBVIOUS
      <4>1. PICK a \in Above(y) : a \in Children /\ scope[a].parent = s
        BY <2>1, BranchBelow
      <4>2. Place(a) \in 1 .. Len(scope[s].kids)
        BY <2>1, <4>1, AboveUp, Placed
      <4> QED
        BY <4>2
    <3> QED
      BY <1>1, <3>1, NothingBelow
  <2>3. PICK a \in Above(s), b \in Above(y) : Beside(a, b)
    BY <1>1, <2>2 DEF Before
  <2>4. Live(a) /\ Live(b) /\ a \in Children /\ a # Root
    BY <2>1, <2>3, AboveUp, ScopeNames DEF Beside
  <2>5. NextSibling(a) # NoScope
    BY <2>3, <2>4, NextSiblingFacts
  <2> QED
    BY <2>3, <2>4, <2>5 DEF Above
<1>2. Climb(s) = IF branches = {} THEN NoScope ELSE n
  BY DEF Climb
<1>3. branches \in SUBSET Above(s)
  BY DEF Above
<1>4. ASSUME branches # {} PROVE nearest \in branches /\ branches \subseteq Above(nearest)
  <2> HIDE DEF branches, nearest
  <2>1. \E a \in branches : branches \subseteq Above(a)
    BY <1>3, <1>4, NearestExists DEF Live
  <2>2. \E a \in branches : branches \subseteq Ancestors(scope, a)
    BY <2>1 DEF Above
  <2> QED
    BY <2>2 DEF Above, nearest
<1>5. \A a \in branches : a \in Children /\ Live(a) /\ NextSibling(a) # NoScope
  BY <1>3, AboveUp DEF Live, Scopes
<1> HIDE DEF branches, nearest
<1>6. CASE branches = {}
  BY <1>1, <1>2, <1>6
<1>7. CASE branches # {}
  <2>1. /\ nearest \in Children /\ Live(nearest) /\ n # NoScope /\ nearest \in Above(s)
        /\ \A a \in branches : a \in Above(nearest)
    BY <1>3, <1>4, <1>5, <1>7
  <2>2. Live(n) /\ Beside(nearest, n) /\ \A b : Live(b) /\ Beside(nearest, b) => b = n \/ Beside(n, b)
    BY <2>1, NextSiblingFacts
  <2> HIDE DEF n
  <2>3. n \in Above(n)
    BY <2>2, AncestorFacts DEF PageType, Above, Live
  <2>4. Before(s, n)
    BY <2>1, <2>2, <2>3 DEF Before
  <2>5. ASSUME NEW y, NEW i, Listed(y, i), Before(s, y) PROVE y = n \/ Before(n, y)
    <3>1. PICK a \in branches, b \in Above(y) : Live(b) /\ Beside(a, b)
      BY <1>1, <2>5
    <3>2. CASE a = nearest
      BY <2>2, <2>3, <3>1, <3>2 DEF Before
    <3>3. CASE a # nearest
      <4>1. a \in Above(n)
        BY <2>1, <2>2, <3>3, SiblingsShare DEF Beside
      <4> QED
        BY <3>1, <4>1 DEF Before
    <3> QED
      BY <3>2, <3>3
  <2> QED
    BY <1>2, <1>7, <2>1, <2>4, <2>5 DEF Follows, n
<1> QED
  BY <1>6, <1>7

\* The digest goes to the next scope, but for scopes that have no watchers, and stops after
\* the last.
LEMMA AfterFollows ==
    ASSUME PageType, TreeInv, CountInv, NEW s, Live(s)
    PROVE  /\ After(s) # NoScope => Follows(s, After(s))
           /\ After(s) = NoScope => \A y : \A i : Listed(y, i) => ~Before(s, y)
<1>1. CASE scope[s].count # 0 /\ scope[s].kids # <<>>
  <2>1. After(s) = Head(scope[s].kids)
    BY <1>1 DEF After
  <2>2. Follows(s, After(s))
    BY <1>1, <2>1, FollowsDown
  <2>3. After(s) # NoScope
    <3>1. scope[s].kids \in Seq(Scopes)
      BY DEF PageType, ScopeType, Live
    <3>2. Head(scope[s].kids) \in Scopes
      BY <1>1, <3>1, EmptyFacts
    <3> QED
      BY <2>1, <3>2, ScopeNames
  <2> QED
    BY <2>2, <2>3
<1>2. CASE ~(scope[s].count # 0 /\ scope[s].kids # <<>>)
  <2>1. After(s) = Climb(s)
    BY <1>2 DEF After
  <2> QED
    BY <1>2, <2>1, FollowsUp
<1> QED
  BY <1>1, <1>2
-----------------------------------------------------------------------------
(***************************************************************************)
(* A digest that ends leaves no watch behind.                              *)
(***************************************************************************)

\* The watcher has seen the value there is.
Clean(x, i) == LET w == watch[scope[x].watchers[i]] IN w.last = model[w.var]

\* It is the one that was dirty last.
IsLast(x, i) == scope[x].watchers[i] = lastDirtyWatch

\* Watcher j of y is visited after watcher i of x.
Later(x, i, y, j) == Before(x, y) \/ (x = y /\ j < i)

\* This pass has visited it.
Passed(y, j) == Before(y, dig.current) \/ (y = dig.current /\ j > scope[y].index)

\* A watcher has one place.
OnceInv ==
    \A x, y \in Scopes : \A i \in 1 .. Len(scope[x].watchers) : \A j \in 1 .. Len(scope[y].watchers) :
        scope[x].watchers[i] = scope[y].watchers[j] => x = y /\ i = j

AllClean == \A y : \A j : Listed(y, j) => Clean(y, j)

\* What comes after the watcher that was dirty last is clean.
LaterClean ==
    \A x, y : \A i, j : Listed(x, i) /\ IsLast(x, i) /\ Listed(y, j) /\ Later(x, i, y, j) => Clean(y, j)

\* In a pass that found nothing dirty, all it has visited is clean.
CleanSoFar == ~dig.dirty => \A y : \A j : Listed(y, j) /\ Passed(y, j) => Clean(y, j)

\* As long as the pass has not come to the watcher that was dirty last, it found nothing
\* dirty, and what comes after that watcher is clean.
StopAhead ==
    \A x : \A i : Listed(x, i) /\ IsLast(x, i) /\ ~Passed(x, i) =>
        ~dig.dirty /\ \A y : \A j : Listed(y, j) /\ Later(x, i, y, j) => Clean(y, j)

\* Once it has, what it visited after that watcher is clean.
StopBehind ==
    \A x, y : \A i, j :
        /\ Listed(x, i) /\ IsLast(x, i) /\ Passed(x, i)
        /\ Listed(y, j) /\ Later(x, i, y, j) /\ Passed(y, j)
        => Clean(y, j)

\* While a listener runs, the watcher that was dirty last is the one it belongs to, or is
\* forgotten.
ListenerInv ==
    /\ dig.dirty
    /\ \/ lastDirtyWatch = 0
       \/ /\ scope[dig.current].index + 1 \in 1 .. Len(scope[dig.current].watchers)
          /\ IsLast(dig.current, scope[dig.current].index + 1)

StableInv ==
    /\ at = "watch" /\ busy => ListenerInv
    /\ at = "watch" /\ ~busy => CleanSoFar /\ StopAhead /\ StopBehind
    /\ (at = "async" /\ ~busy /\ proc.list = <<>>) \/ at = "check" => LaterClean
    /\ at = "check" /\ ~dig.dirty => AllClean

\* No watcher is listed twice.
LEMMA OnceStep ==
    ASSUME PageType, TreeInv, OnceInv, dig.current \in Scopes, [Next]_vars
    PROVE  OnceInv'
<1>1. TreeKinds
  BY TreeSteps
<1>2. ASSUME NEW x \in Scopes
      PROVE  /\ scope[x].watchers \in Seq(Nat) /\ Len(scope[x].watchers) \in Nat
             /\ DOMAIN scope[x].watchers = 1 .. Len(scope[x].watchers)
             /\ \A k \in 1 .. Len(scope[x].watchers) : scope[x].watchers[k] \in 1 .. Len(watch)
  <2>1. scope[x].watchers \in Seq(Nat)
    BY DEF PageType, ScopeType
  <2> QED
    BY <2>1, EmptyFacts DEF PageType
<1>3. CASE \A x \in Scopes : scope'[x].watchers = scope[x].watchers
  BY <1>3 DEF OnceInv
<1>4. ASSUME NEW p \in Scopes, NEW c \in Children, Birth(p, c) PROVE OnceInv'
  <2>1. Len(scope'[c].watchers) = 0 /\ \A x \in Scopes \ {c} : scope'[x].watchers = scope[x].watchers
    BY <1>4 DEF Birth, NewScope
  <2> QED
    BY <2>1 DEF OnceInv
<1>5. ASSUME NEW s \in Scopes, AddedWatch(s) PROVE OnceInv'
  <2> DEFINE old == scope[s].watchers
             one == <<Len(watch) + 1>>
  <2>1. scope'[s].watchers = one \o old /\ \A x \in Scopes \ {s} : scope'[x].watchers = scope[x].watchers
    BY <1>5 DEF AddedWatch, Rewatch
  <2>2. /\ Len(watch) \in Nat /\ old \in Seq(Nat) /\ Len(old) \in Nat
        /\ one \in Seq(Nat) /\ Len(one) = 1 /\ one[1] = Len(watch) + 1
    BY <1>2 DEF PageType
  <2> HIDE DEF old, one
  <2>3. /\ Len(one \o old) = Len(one) + Len(old)
        /\ \A k \in 1 .. Len(one) + Len(old) :
              (one \o old)[k] = IF k <= Len(one) THEN one[k] ELSE old[k - Len(one)]
    BY <2>2, ConcatProperties
  <2>4. /\ Len(one \o old) = Len(old) + 1
        /\ \A k \in 1 .. Len(old) + 1 :
              (one \o old)[k] = IF k = 1 THEN Len(watch) + 1 ELSE old[k - 1]
    BY <2>2, <2>3
  <2>5. ASSUME NEW x \in Scopes, NEW i \in 1 .. Len(scope'[x].watchers)
        PROVE  \/ x = s /\ i = 1 /\ scope'[x].watchers[i] = Len(watch) + 1
               \/ x = s /\ i - 1 \in 1 .. Len(old) /\ scope'[x].watchers[i] = old[i - 1]
               \/ x # s /\ i \in 1 .. Len(scope[x].watchers)
                        /\ scope'[x].watchers[i] = scope[x].watchers[i]
    <3>1. CASE x = s
      <4>1. i \in 1 .. Len(old) + 1 /\ scope'[x].watchers[i] = (one \o old)[i]
        BY <2>1, <2>4, <3>1
      <4> QED
        BY <2>2, <2>4, <3>1, <4>1
    <3>2. CASE x # s
      BY <2>1, <3>2
    <3> QED
      BY <3>1, <3>2
  <2>6. \A x \in Scopes : \A i \in 1 .. Len(scope[x].watchers) : scope[x].watchers[i] # Len(watch) + 1
    BY <1>2, <2>2
  <2>7. /\ \A i \in 1 .. Len(old) : old[i] # Len(watch) + 1
        /\ \A i, j \in 1 .. Len(old) : old[i] = old[j] => i = j
        /\ \A x \in Scopes \ {s} : \A i \in 1 .. Len(old) : \A j \in 1 .. Len(scope[x].watchers) :
              old[i] # scope[x].watchers[j]
    BY <2>6 DEF OnceInv, old
  <2> SUFFICES ASSUME NEW x \in Scopes, NEW y \in Scopes, NEW i \in 1 .. Len(scope'[x].watchers),
                      NEW j \in 1 .. Len(scope'[y].watchers),
                      scope'[x].watchers[i] = scope'[y].watchers[j]
               PROVE  x = y /\ i = j
    BY DEF OnceInv
  <2>8. i \in Int /\ j \in Int
    OBVIOUS
  <2>9. CASE x = s /\ y = s
    BY <2>5, <2>7, <2>8, <2>9
  <2>10. CASE x = s /\ y # s
    BY <2>5, <2>6, <2>7, <2>10
  <2>11. CASE x # s /\ y = s
    <3>1. i \in 1 .. Len(scope[x].watchers) /\ scope[x].watchers[i] = scope'[y].watchers[j]
      BY <2>5, <2>11
    <3>2. \/ scope'[y].watchers[j] = Len(watch) + 1
          \/ j - 1 \in 1 .. Len(old) /\ scope'[y].watchers[j] = old[j - 1]
      BY <2>5, <2>11
    <3> QED
      BY <2>6, <2>7, <2>11, <3>1, <3>2
  <2>12. CASE x # s /\ y # s
    BY <2>5, <2>12 DEF OnceInv
  <2> QED
    BY <2>9, <2>10, <2>11, <2>12
<1>6. ASSUME NEW s \in Scopes, NEW k \in DOMAIN scope[s].watchers, RemovedWatch(s, k) PROVE OnceInv'
  <2> DEFINE old == scope[s].watchers
             new == RemoveAt(old, k)
  <2>1. scope'[s].watchers = new /\ \A x \in Scopes \ {s} : scope'[x].watchers = scope[x].watchers
    BY <1>6 DEF RemovedWatch, Rewatch
  <2>2. /\ old \in Seq(Nat) /\ Len(old) \in Nat /\ k \in 1 .. Len(old)
    BY <1>2
  <2>3. /\ Len(new) = Len(old) - 1
        /\ \A j \in 1 .. Len(old) - 1 : new[j] = IF j < k THEN old[j] ELSE old[j + 1]
    <3>1. k \in DOMAIN old
      OBVIOUS
    <3>2. old \in Seq(Nat)
      BY <2>2
    <3> HIDE DEF old, new
    <3>3. /\ Len(RemoveAt(old, k)) = Len(old) - 1
          /\ \A j \in 1 .. Len(old) - 1 : RemoveAt(old, k)[j] = IF j < k THEN old[j] ELSE old[j + 1]
      BY <3>1, <3>2, RemoveFacts
    <3> QED
      BY <3>3 DEF new
  <2> HIDE DEF old, new
  <2> DEFINE was(x, i) == IF x = s /\ ~(i < k) THEN i + 1 ELSE i
  <2>4. ASSUME NEW x \in Scopes, NEW i \in 1 .. Len(scope'[x].watchers)
        PROVE  was(x, i) \in 1 .. Len(scope[x].watchers) /\ scope'[x].watchers[i] = scope[x].watchers[was(x, i)]
    <3>1. CASE x = s
      <4>1. i \in 1 .. Len(old) - 1 /\ scope'[x].watchers[i] = new[i]
        BY <2>1, <2>3, <3>1
      <4>2. was(x, i) = IF i < k THEN i ELSE i + 1
        BY <3>1
      <4> HIDE DEF was
      <4>3. was(x, i) \in 1 .. Len(old) /\ new[i] = old[was(x, i)]
        BY <2>2, <2>3, <4>1, <4>2
      <4> QED
        BY <3>1, <4>1, <4>3 DEF old
    <3>2. CASE x # s
      BY <2>1, <3>2
    <3> QED
      BY <3>1, <3>2
  <2> SUFFICES ASSUME NEW x \in Scopes, NEW y \in Scopes, NEW i \in 1 .. Len(scope'[x].watchers),
                      NEW j \in 1 .. Len(scope'[y].watchers),
                      scope'[x].watchers[i] = scope'[y].watchers[j]
               PROVE  x = y /\ i = j
    BY DEF OnceInv
  <2>5. x = y /\ was(x, i) = was(y, j)
    <3> HIDE DEF was
    <3>1. was(x, i) \in 1 .. Len(scope[x].watchers) /\ was(y, j) \in 1 .. Len(scope[y].watchers)
      BY <2>4
    <3>2. scope[x].watchers[was(x, i)] = scope[y].watchers[was(y, j)]
      BY <2>4
    <3> QED
      BY <3>1, <3>2 DEF OnceInv
  <2>6. i \in Int /\ j \in Int
    OBVIOUS
  <2> QED
    BY <2>2, <2>5, <2>6
<1>7. ASSUME NEW s \in Children, Death(s) PROVE OnceInv'
  BY <1>3, <1>7 DEF Death
<1>8. CASE OnlyIndex
  BY <1>3, <1>8 DEF OnlyIndex, SameScope
<1> QED
  BY <1>1, <1>4, <1>5, <1>6, <1>7, <1>8 DEF TreeKinds
\* Steps that only move the digest's places leave the scopes, their order and their
\* watchers alone.
LEMMA VisitsSame ==
    ASSUME PageType, TreeInv, scope' \in [Scopes -> ScopeType], OnlyIndex
    PROVE  /\ \A x : \A i : Listed(x, i)' <=> Listed(x, i)
           /\ \A x : \A i : Listed(x, i) => scope'[x].watchers = scope[x].watchers /\ x \in Scopes
           /\ \A x, y : Live(x) /\ Live(y) => (Before(x, y)' <=> Before(x, y))
<1>1. \A x \in Scopes : /\ scope'[x].parent = scope[x].parent /\ scope'[x].kids = scope[x].kids
                        /\ scope'[x].watchers = scope[x].watchers /\ scope'[x].live = scope[x].live
                        /\ Above(x)' = Above(x)
  BY AboveSame DEF OnlyIndex, SameScope
<1>2. ASSUME NEW a, NEW b, Live(a), Live(b) PROVE Beside(a, b)' <=> Beside(a, b)
  <2>1. a \in Children => scope[a].parent \in Scopes /\ a \in Scopes
    BY <1>2, Placed DEF Live
  <2>2. b \in Children => scope[b].parent \in Scopes /\ b \in Scopes
    BY <1>2, Placed DEF Live
  <2>3. a \in Children => Place(a)' = Place(a)
    BY <1>1, <2>1 DEF Place
  <2>4. b \in Children => Place(b)' = Place(b)
    BY <1>1, <2>2 DEF Place
  <2>5. CASE a \in Children /\ b \in Children
    BY <1>1, <2>1, <2>2, <2>3, <2>4, <2>5 DEF Beside
  <2> QED
    BY <2>5 DEF Beside
<1>3. ASSUME NEW x, NEW y, Live(x), Live(y) PROVE Before(x, y)' <=> Before(x, y)
  <2>1. Above(x)' = Above(x) /\ Above(y)' = Above(y)
    BY <1>1, <1>3 DEF Live
  <2>2. \A a \in Above(x), b \in Above(y) : Beside(a, b)' <=> Beside(a, b)
    BY <1>2, <1>3, AboveUp
  <2> QED
    BY <2>1, <2>2 DEF Before
<1>4. \A x : \A i : Listed(x, i)' <=> Listed(x, i)
  BY <1>1 DEF Listed, Live
<1>5. \A x : \A i : Listed(x, i) => scope'[x].watchers = scope[x].watchers /\ x \in Scopes
  BY <1>1 DEF Listed, Live
<1> QED
  BY <1>3, <1>4, <1>5

\* A watcher that was dirty last is there.
LEMMA LastThere ==
    ASSUME PageType, NEW x, NEW i, Listed(x, i), IsLast(x, i)
    PROVE  lastDirtyWatch # 0
<1>1. scope[x].watchers[i] \in 1 .. Len(watch)
  BY DEF PageType, Listed, Live
<1> QED
  BY <1>1 DEF IsLast, PageType

\* A step that changes no watcher and no value.
LEMMA CleanSame ==
    ASSUME PageType, TreeInv, scope' \in [Scopes -> ScopeType], OnlyIndex,
           UNCHANGED <<watch, model, lastDirtyWatch>>
    PROVE  /\ LaterClean => LaterClean'
           /\ AllClean => AllClean'
           /\ \A x : \A i : Listed(x, i) => (IsLast(x, i)' <=> IsLast(x, i)) /\ (Clean(x, i)' <=> Clean(x, i))
           /\ \A x, y : \A i, j : Listed(x, i) /\ Listed(y, j) => (Later(x, i, y, j)' <=> Later(x, i, y, j))
<1>1. \A x : \A i : Listed(x, i) => (IsLast(x, i)' <=> IsLast(x, i)) /\ (Clean(x, i)' <=> Clean(x, i))
  <2> SUFFICES ASSUME NEW x, NEW i, Listed(x, i)
               PROVE  (IsLast(x, i)' <=> IsLast(x, i)) /\ (Clean(x, i)' <=> Clean(x, i))
    OBVIOUS
  <2>1. scope'[x].watchers = scope[x].watchers
    BY VisitsSame
  <2> QED
    BY <2>1 DEF IsLast, Clean
<1>2. \A x, y : \A i, j : Listed(x, i) /\ Listed(y, j) => (Later(x, i, y, j)' <=> Later(x, i, y, j))
  <2> SUFFICES ASSUME NEW x, NEW y, NEW i, NEW j, Listed(x, i), Listed(y, j)
               PROVE  Later(x, i, y, j)' <=> Later(x, i, y, j)
    OBVIOUS
  <2>1. Before(x, y)' <=> Before(x, y)
    BY VisitsSame DEF Listed
  <2> QED
    BY <2>1 DEF Later
<1>3. \A x : \A i : Listed(x, i)' <=> Listed(x, i)
  BY VisitsSame
<1>4. LaterClean => LaterClean'
  BY <1>1, <1>2, <1>3 DEF LaterClean
<1>5. AllClean => AllClean'
  BY <1>1, <1>3 DEF AllClean
<1> QED
  BY <1>1, <1>2, <1>4, <1>5

\* After a pass has begun.
LEMMA StableBegins ==
    ASSUME PageType, TreeInv, DigInv, StableInv, TasksDone, scope' \in [Scopes -> ScopeType], OnlyIndex
    PROVE  StableInv'
<1>1. /\ at = "async" /\ ~busy /\ proc.list = <<>> /\ at' = "watch" /\ ~busy'
      /\ UNCHANGED <<watch, model, lastDirtyWatch>>
      /\ scope' = [scope EXCEPT ![Root].index = Len(scope[Root].watchers)]
      /\ dig' = [dig EXCEPT !.current = Root, !.dirty = FALSE, !.pos = 0]
  BY DEF TasksDone
<1>2. dig'.current = Root /\ dig'.dirty = FALSE
  BY <1>1 DEF DigInv
<1>3. Live(Root) /\ Above(Root) = {Root} /\ scope \in [Scopes -> ScopeType]
  BY RootAlone, ScopeNames DEF Live, TreeInv, PageType
<1>4. scope'[Root].index = Len(scope[Root].watchers) /\ Len(scope[Root].watchers) \in Nat
  <2>1. Len(scope[Root].watchers) \in Int
    BY <1>3 DEF Live, ScopeType
  <2> DEFINE k == Len(scope[Root].watchers)
  <2>2. scope' = [scope EXCEPT ![Root].index = k] /\ k \in Int
    BY <1>1, <2>1
  <2>3. scope'[Root].index = k
    <3> HIDE DEF k
    <3> QED
      BY <1>3, <2>2, IndexFacts DEF Live
  <2> QED
    BY <1>3, <2>3 DEF Live, ScopeType
<1>5. ASSUME NEW x, NEW i, Listed(x, i) PROVE ~Passed(x, i)'
  <2>1. ~Before(x, Root)
    <3>1. \A a \in Above(x) : \A b \in Above(Root) : ~Beside(a, b)
      BY <1>3, ScopeNames DEF Beside
    <3> QED
      BY <1>3, <3>1 DEF Before
  <2>2. ~Before(x, Root)'
    BY <1>3, <1>5, <2>1, VisitsSame DEF Listed
  <2>3. ~(x = Root /\ i > scope'[Root].index)
    BY <1>4, <1>5 DEF Listed
  <2> QED
    BY <1>2, <2>2, <2>3 DEF Passed
<1>6. \A x : \A i : Listed(x, i)' <=> Listed(x, i)
  BY VisitsSame
<1>7. LaterClean'
  BY <1>1, CleanSame DEF StableInv
<1>8. CleanSoFar' /\ StopAhead' /\ StopBehind'
  BY <1>2, <1>5, <1>6, <1>7 DEF CleanSoFar, StopAhead, StopBehind, LaterClean
<1> QED
  BY <1>1, <1>8 DEF StableInv
\* After a watch has been looked at.
LEMMA StableChecks ==
    ASSUME PageType, TreeInv, DigInv, OnceInv, StableInv, CheckWatch,
           scope' \in [Scopes -> ScopeType], OnlyIndex
    PROVE  StableInv'
<1>0. PICK s \in Scopes : s = dig.current
  BY DEF DigInv
<1> DEFINE i == scope[s].index
           w == scope[s].watchers[i]
<1>1. /\ at = "watch" /\ ~busy /\ i > 0 /\ Live(s) /\ Listed(s, i) /\ i \in Int
      /\ CleanSoFar /\ StopAhead /\ StopBehind /\ scope \in [Scopes -> ScopeType]
  <2>1. at = "watch" /\ ~busy /\ i > 0 /\ Live(s)
    BY <1>0 DEF CheckWatch, DigInv, Live
  <2>2. i \in -1 .. Len(scope[s].watchers) /\ Len(scope[s].watchers) \in Nat /\ scope \in [Scopes -> ScopeType]
    BY <2>1 DEF PageType, ScopeType, Live
  <2> QED
    BY <2>1, <2>2 DEF StableInv, Listed
<1>2. scope'[s].index = i - 1 /\ \A x \in Scopes \ {s} : scope'[x].index = scope[x].index
  <2> DEFINE k == i - 1
  <2>1. scope' = [scope EXCEPT ![s].index = k]
    BY <1>0 DEF CheckWatch
  <2>3. k \in Int
    BY <1>1
  <2> HIDE DEF k
  <2>2. scope'[s].index = k /\ \A x \in Scopes \ {s} : scope'[x].index = scope[x].index
    BY <1>1, <2>1, <2>3, IndexFacts DEF Live
  <2> QED
    BY <2>2 DEF k
<1>3. \A x : \A j : Listed(x, j)' <=> Listed(x, j)
  BY VisitsSame
<1>4. dig'.current = s
  BY <1>0 DEF CheckWatch, DigInv
<1>5. ASSUME NEW x, NEW j, Listed(x, j)
      PROVE  Passed(x, j)' <=> Passed(x, j) \/ (x = s /\ j = i)
  <2>1. Before(x, s)' <=> Before(x, s)
    BY <1>1, <1>5, VisitsSame DEF Listed
  <2>2. j \in Int
    BY <1>5 DEF Listed
  <2> QED
    BY <1>0, <1>1, <1>2, <1>4, <2>1, <2>2 DEF Passed
<1>6. CASE model[watch[w].var] # watch[w].last
  <2>1. at' = "watch" /\ busy' /\ lastDirtyWatch' = w /\ dig'.dirty = TRUE
    BY <1>0, <1>1, <1>6 DEF CheckWatch, DigInv
  <2>2. scope'[s].watchers = scope[s].watchers /\ scope'[s].index + 1 = i
    BY <1>1, <1>2, VisitsSame
  <2>3. ListenerInv'
    BY <1>1, <1>4, <2>1, <2>2 DEF ListenerInv, IsLast, Listed
  <2> QED
    BY <2>1, <2>3 DEF StableInv
<1>7. CASE model[watch[w].var] = watch[w].last
  <2>1. /\ UNCHANGED <<watch, model, lastDirtyWatch>> /\ busy' = busy
        /\ at' = IF w = lastDirtyWatch THEN "check" ELSE at
        /\ dig' = [dig EXCEPT !.dirty = @ /\ w # lastDirtyWatch]
    BY <1>0, <1>7 DEF CheckWatch
  <2>2. /\ \A x : \A j : Listed(x, j) => (IsLast(x, j)' <=> IsLast(x, j)) /\ (Clean(x, j)' <=> Clean(x, j))
        /\ \A x, y : \A j, k : Listed(x, j) /\ Listed(y, k) => (Later(x, j, y, k)' <=> Later(x, j, y, k))
    BY <2>1, CleanSame
  <2>3. Clean(s, i)
    BY <1>7 DEF Clean
  <2>4. CASE IsLast(s, i)
    <3>1. at' = "check"
      BY <2>1, <2>4 DEF IsLast
    <3>2. ~Passed(s, i)
      <4>1. ~Before(s, s)
        BY <1>1, BeforeOneWay
      <4> QED
        BY <1>0, <1>1, <4>1 DEF Passed
    <3>3. ~dig.dirty /\ \A y : \A j : Listed(y, j) /\ Later(s, i, y, j) => Clean(y, j)
      BY <1>1, <2>4, <3>2 DEF StopAhead
    <3>4. ASSUME NEW y, NEW j, Listed(y, j) PROVE Clean(y, j)
      <4>1. y = s \/ Before(y, s) \/ Before(s, y)
        BY <1>1, <3>4, BeforeTotal DEF Listed
      <4>2. Passed(y, j) \/ Later(s, i, y, j) \/ (y = s /\ j = i)
        <5>1. j \in Int
          BY <3>4 DEF Listed
        <5> QED
          BY <1>0, <1>1, <4>1, <5>1 DEF Passed, Later
      <4> QED
        BY <1>1, <2>3, <3>3, <3>4, <4>2 DEF CleanSoFar
    <3>5. AllClean'
      BY <1>3, <2>2, <3>4 DEF AllClean
    <3>6. LaterClean'
      BY <3>5 DEF AllClean, LaterClean
    <3> QED
      BY <3>1, <3>5, <3>6 DEF StableInv
  <2>5. CASE ~IsLast(s, i)
    <3>1. at' = "watch" /\ ~busy' /\ (dig'.dirty <=> dig.dirty)
      BY <1>1, <2>1, <2>5 DEF IsLast, DigInv
    <3>2. CleanSoFar'
      BY <1>1, <1>3, <1>5, <2>2, <2>3, <3>1 DEF CleanSoFar
    <3>3. StopAhead'
      BY <1>1, <1>3, <1>5, <2>2, <3>1 DEF StopAhead
    <3>4. StopBehind'
      <4> SUFFICES ASSUME NEW x, NEW y, NEW j, NEW k, Listed(x, j), IsLast(x, j), Passed(x, j)',
                          Listed(y, k), Later(x, j, y, k), Passed(y, k)'
                   PROVE  Clean(y, k)
        BY <1>3, <2>2 DEF StopBehind
      <4>1. Passed(x, j)
        BY <1>5, <2>5
      <4>2. CASE Passed(y, k)
        BY <1>1, <4>1, <4>2 DEF StopBehind
      <4>3. CASE y = s /\ k = i
        BY <2>3, <4>3
      <4> QED
        BY <1>5, <4>2, <4>3
    <3> QED
      BY <3>1, <3>2, <3>3, <3>4 DEF StableInv
  <2> QED
    BY <2>4, <2>5
<1> QED
  BY <1>6, <1>7

\* After a listener has returned.
LEMMA StableReturns ==
    ASSUME PageType, TreeInv, DigInv, OnceInv, StableInv, ListenerReturns
    PROVE  StableInv'
<1> DEFINE s == dig.current
           i == scope[s].index + 1
<1>1. /\ at' = "watch" /\ ~busy' /\ UNCHANGED <<scope, watch, model, lastDirtyWatch, dig>>
      /\ ListenerInv /\ Live(s)
  BY DEF ListenerReturns, StableInv, DigInv, Live
<1>2. scope[s].index \in Int
  BY <1>1 DEF PageType, ScopeType, Live
<1>3. ASSUME NEW x, NEW j, Listed(x, j), IsLast(x, j) PROVE x = s /\ j = i
  <2>1. lastDirtyWatch # 0
    BY <1>3, LastThere
  <2>2. i \in 1 .. Len(scope[s].watchers) /\ IsLast(s, i)
    BY <1>1, <2>1 DEF ListenerInv
  <2> QED
    BY <1>1, <1>3, <2>2 DEF OnceInv, IsLast, Listed, Live
<1>4. CleanSoFar
  BY <1>1 DEF ListenerInv, CleanSoFar
<1>5. StopAhead
  BY <1>2, <1>3 DEF StopAhead, Passed
<1>6. ASSUME NEW y, NEW j, Listed(y, j), Later(s, i, y, j), Passed(y, j) PROVE FALSE
  <2>1. j \in Int /\ Live(y)
    BY <1>6 DEF Listed
  <2>2. ~(Before(s, y) /\ Before(y, s)) /\ ~Before(s, s)
    BY <1>1, <2>1, BeforeOneWay
  <2> QED
    BY <1>2, <1>6, <2>1, <2>2 DEF Later, Passed
<1>7. StopBehind
  BY <1>3, <1>6 DEF StopBehind
<1>8. CleanSoFar' /\ StopAhead' /\ StopBehind'
  <2>1. /\ \A x : \A j : /\ Listed(x, j)' <=> Listed(x, j)
                         /\ IsLast(x, j)' <=> IsLast(x, j)
                         /\ Clean(x, j)' <=> Clean(x, j)
                         /\ Passed(x, j)' <=> Passed(x, j)
        /\ \A x, y : \A j, k : Later(x, j, y, k)' <=> Later(x, j, y, k)
    BY <1>1 DEF Listed, Live, IsLast, Clean, Passed, Later, Before, Beside, Place, Above
  <2> QED
    BY <1>1, <1>4, <1>5, <1>7, <2>1 DEF CleanSoFar, StopAhead, StopBehind
<1> QED
  BY <1>1, <1>8 DEF StableInv
\* After the digest has gone on to another scope, or is through.
LEMMA StableGoesOn ==
    ASSUME PageType, TreeInv, CountInv, DigInv, StableInv, NextScope,
           scope' \in [Scopes -> ScopeType], OnlyIndex
    PROVE  StableInv'
<1>0. PICK s \in Scopes : s = dig.current
  BY DEF DigInv
<1>1. /\ at = "watch" /\ ~busy /\ scope[s].index = 0 /\ Live(s)
      /\ CleanSoFar /\ StopAhead /\ StopBehind /\ scope \in [Scopes -> ScopeType]
      /\ UNCHANGED <<watch, model, lastDirtyWatch, busy, proc>>
  BY <1>0 DEF NextScope, StableInv, DigInv, Live, PageType
<1>2. \A x : \A j : Listed(x, j)' <=> Listed(x, j)
  BY VisitsSame
<1>3. /\ \A x : \A j : Listed(x, j) => (IsLast(x, j)' <=> IsLast(x, j)) /\ (Clean(x, j)' <=> Clean(x, j))
      /\ \A x, y : \A j, k : Listed(x, j) /\ Listed(y, k) => (Later(x, j, y, k)' <=> Later(x, j, y, k))
  BY <1>1, CleanSame
<1>4. ASSUME NEW x, NEW j, Listed(x, j) PROVE Passed(x, j) <=> Before(x, s) \/ x = s
  BY <1>0, <1>1, <1>4 DEF Passed, Listed
<1>5. CASE After(s) = NoScope
  <2>1. at' = "check" /\ UNCHANGED dig
    BY <1>0, <1>5 DEF NextScope
  <2>2. ASSUME NEW x, NEW j, Listed(x, j) PROVE Passed(x, j)
    <3>1. ~Before(s, x)
      BY <1>1, <1>5, <2>2, AfterFollows
    <3> QED
      BY <1>1, <1>4, <2>2, <3>1, BeforeTotal DEF Listed
  <2>3. LaterClean
    BY <1>1, <2>2 DEF StopBehind, LaterClean
  <2>4. ~dig.dirty => AllClean
    BY <1>1, <2>2 DEF CleanSoFar, AllClean
  <2>5. LaterClean' /\ (~dig.dirty => AllClean')
    BY <1>1, <2>3, <2>4, CleanSame
  <2> QED
    BY <2>1, <2>5 DEF StableInv
<1>6. CASE After(s) # NoScope
  <2>0. PICK n \in Scopes : n = After(s) /\ Live(n)
    BY <1>1, <1>6, AfterLives DEF Live
  <2>1. Follows(s, n)
    BY <1>1, <1>6, <2>0, AfterFollows
  <2>2. at' = "watch" /\ ~busy' /\ dig' = [dig EXCEPT !.current = n]
    BY <1>0, <1>1, <1>6, <2>0 DEF NextScope
  <2>3. dig'.current = n /\ dig'.dirty = dig.dirty
    BY <2>2 DEF DigInv
  <2>4. scope'[n].index = Len(scope[n].watchers)
    <3> DEFINE left == [scope EXCEPT ![s].index = -1]
               k == Len(scope[n].watchers)
    <3>1. scope' = [left EXCEPT ![n].index = k] /\ -1 \in Int
      BY <1>0, <1>6, <2>0 DEF NextScope
    <3>2. scope[n] \in ScopeType
      BY <1>1
    <3>3. k \in Int
      BY <3>2 DEF ScopeType
    <3>4. left \in [Scopes -> ScopeType]
      BY <1>1, <3>1, IndexFacts
    <3> HIDE DEF left, k
    <3>5. scope'[n].index = k
      BY <3>1, <3>3, <3>4, IndexFacts
    <3> QED
      BY <3>5 DEF k
  <2>5. ASSUME NEW x, NEW j, Listed(x, j) PROVE Passed(x, j)' <=> Passed(x, j)
    <3>1. Before(x, n)' <=> Before(x, n)
      BY <2>0, <2>5, VisitsSame DEF Listed
    <3>2. ~(x = n /\ j > scope'[n].index)
      BY <2>4, <2>5 DEF Listed, Live
    <3>3. Passed(x, j)' <=> Before(x, n)
      BY <2>3, <3>1, <3>2 DEF Passed
    <3>4. Before(x, s) \/ x = s => Before(x, n)
      BY <1>1, <2>0, <2>1, <2>5, BeforeThrough DEF Follows, Listed
    <3>5. ASSUME Before(x, n) PROVE Before(x, s) \/ x = s
      <4>1. ~(x = n) /\ ~Before(n, x)
        BY <2>0, <2>5, <3>5, BeforeOneWay DEF Listed
      <4>2. ~Before(s, x)
        BY <2>1, <2>5, <4>1 DEF Follows
      <4> QED
        BY <1>1, <2>5, <4>2, BeforeTotal DEF Listed
    <3> QED
      BY <1>4, <2>5, <3>3, <3>4, <3>5
  <2>6. CleanSoFar' /\ StopAhead' /\ StopBehind'
    BY <1>1, <1>2, <1>3, <2>3, <2>5 DEF CleanSoFar, StopAhead, StopBehind
  <2> QED
    BY <2>2, <2>6 DEF StableInv
<1> QED
  BY <1>5, <1>6

\* After a call of page code.
LEMMA StableEffect ==
    ASSUME PageType, TreeInv, ControlInv, DigInv, StableInv, Effect
    PROVE  StableInv'
<1>1. busy /\ UNCHANGED <<at, busy, dig, proc>>
  BY DEF Effect
<1>2. at # "check"
  BY <1>1 DEF ControlInv
<1>3. CASE at # "watch"
  BY <1>1, <1>2, <1>3 DEF StableInv
<1>4. CASE at = "watch"
  <2>0. PICK s \in Scopes : s = dig.current /\ Live(s)
    BY <1>4 DEF DigInv, Live
  <2>1. dig.dirty /\ ListenerInv
    BY <1>1, <1>4 DEF StableInv, ListenerInv
  <2>2. CASE lastDirtyWatch' = 0
    <3>1. ListenerInv'
      BY <1>1, <2>1, <2>2 DEF ListenerInv
    <3> QED
      BY <1>1, <1>4, <3>1 DEF StableInv
  <2>3. CASE /\ scope'[s].watchers = scope[s].watchers /\ scope'[s].index = scope[s].index
             /\ lastDirtyWatch' = lastDirtyWatch
    <3>1. ListenerInv'
      BY <1>1, <2>0, <2>1, <2>3 DEF ListenerInv, IsLast
    <3> QED
      BY <1>1, <1>4, <3>1 DEF StableInv
  <2>4. ASSUME NEW p \in Scopes, scope[p].live, newChild(p) PROVE StableInv'
    <3>1. PICK c \in Children : Birth(p, c)
      BY <2>4, NewChildStep
    <3>2. s # c
      BY <2>0, <3>1, ScopeNames DEF Birth, TreeInv, Live
    <3> QED
      BY <2>0, <2>3, <2>4, <3>1, <3>2 DEF Birth, newChild
  <2>5. ASSUME NEW c \in Children, destroy(c) PROVE StableInv'
    BY <2>0, <2>3, <2>5, DestroyStep DEF Death, destroy
  <2>6. CASE (\E x \in Scopes : \E v \in Vars : addWatch(x, v))
             \/ (\E x \in Scopes : \E i \in DOMAIN scope[x].watchers : deregisterWatch(x, i))
    BY <2>2, <2>6 DEF addWatch, deregisterWatch
  <2>7. CASE UNCHANGED <<scope, lastDirtyWatch>>
    BY <2>3, <2>7
  <2>8. EditPage \/ UNCHANGED <<scope, lastDirtyWatch>>
    BY DEF Effect, Queue, UsePromise
  <2> QED
    BY <2>4, <2>5, <2>6, <2>7, <2>8 DEF EditPage
<1> QED
  BY <1>3, <1>4

\* Every step keeps it.
LEMMA StableStep ==
    ASSUME PageInv, OnceInv, StableInv, [Next]_vars
    PROVE  StableInv'
<1>0. /\ PageType /\ TreeInv /\ CountInv /\ DigInv /\ ControlInv /\ dig.current \in Scopes
      /\ QueueType /\ scope \in [Scopes -> ScopeType]
  BY DEF PageInv, PlaceInv, DigInv, IndInv, PageType
<1>1. PageType'
  BY <1>0, PageStep
<1>2. CASE at' \notin {"watch", "async", "check"}
  BY <1>2 DEF StableInv
<1>3. CASE at' = "async" /\ lastDirtyWatch' = 0
  <2>1. \A x : \A i : Listed(x, i)' => ~IsLast(x, i)'
    <3> SUFFICES ASSUME NEW x, NEW i, Listed(x, i)', IsLast(x, i)' PROVE FALSE
      OBVIOUS
    <3>1. scope'[x].watchers[i] \in 1 .. Len(watch')
      BY <1>1 DEF PageType, Listed, Live
    <3>2. scope'[x].watchers[i] = 0
      BY <1>3 DEF IsLast
    <3> QED
      BY <1>1, <3>1, <3>2 DEF PageType
  <2>2. LaterClean'
    BY <2>1 DEF LaterClean
  <2> QED
    BY <1>3, <2>2 DEF StableInv
<1>4. CASE at' = "async" /\ (busy' \/ proc'.list # <<>>)
  BY <1>4 DEF StableInv
<1>5. ASSUME LaterClean, at' = "async", UNCHANGED <<scope, watch, model, lastDirtyWatch>>
      PROVE  StableInv'
  <2>1. OnlyIndex /\ scope' \in [Scopes -> ScopeType]
    BY <1>0, <1>5 DEF OnlyIndex, SameScope, PageType
  <2>2. LaterClean'
    BY <1>0, <1>5, <2>1, CleanSame
  <2> QED
    BY <1>5, <2>2 DEF StableInv
<1>6. CASE UNCHANGED vars
  <2>1. UNCHANGED <<at, busy, proc, dig, scope, watch, model, lastDirtyWatch>>
    BY <1>6 DEF vars
  <2>2. OnlyIndex /\ scope' \in [Scopes -> ScopeType]
    BY <1>0, <2>1 DEF OnlyIndex, SameScope, PageType
  <2>3. (LaterClean => LaterClean') /\ (AllClean => AllClean')
    BY <1>0, <2>1, <2>2, CleanSame
  <2>4. ListenerInv => ListenerInv'
    BY <2>1 DEF ListenerInv, IsLast
  <2>5. (CleanSoFar => CleanSoFar') /\ (StopAhead => StopAhead') /\ (StopBehind => StopBehind')
    <3>1. /\ \A x : \A j : /\ Listed(x, j)' <=> Listed(x, j)
                           /\ IsLast(x, j)' <=> IsLast(x, j)
                           /\ Clean(x, j)' <=> Clean(x, j)
                           /\ Passed(x, j)' <=> Passed(x, j)
          /\ \A x, y : \A j, k : Later(x, j, y, k)' <=> Later(x, j, y, k)
      BY <2>1 DEF Listed, Live, IsLast, Clean, Passed, Later, Before, Beside, Place, Above
    <3> QED
      BY <2>1, <3>1 DEF CleanSoFar, StopAhead, StopBehind
  <2> QED
    BY <2>1, <2>3, <2>4, <2>5 DEF StableInv
<1>7. CASE Effect
  BY <1>0, <1>7, StableEffect
<1>8. CASE TasksDone
  BY <1>0, <1>8, EngineIndex, StableBegins
<1>9. CASE CheckWatch
  BY <1>0, <1>9, EngineIndex, StableChecks
<1>10. CASE ListenerReturns
  BY <1>0, <1>10, StableReturns
<1>11. CASE NextScope
  BY <1>0, <1>11, EngineIndex, StableGoesOn
<1>12. CASE EndPass
  <2>1. at = "check" /\ UNCHANGED <<scope, watch, model, lastDirtyWatch>> /\ at' \in {"idle", "async", "post"}
    BY <1>12 DEF EndPass
  <2> QED
    BY <1>2, <1>5, <2>1 DEF StableInv
<1>13. CASE NextTask
  <2>1. at = "async" /\ at' = "async" /\ ~busy /\ proc.list = <<>>
        /\ UNCHANGED <<scope, watch, model, lastDirtyWatch>>
    BY <1>13 DEF NextTask
  <2> QED
    BY <1>5, <2>1 DEF StableInv
<1>14. CASE CallCallback
  BY <1>4, <1>14 DEF CallCallback
<1>15. CASE PlainTaskReturns
  BY <1>3, <1>15 DEF PlainTaskReturns, TaskDone
<1>16. CASE CallbackReturns \/ PassOn
  <2>1. at' = "async" /\ proc.list # <<>> /\ proc' = RestOf(proc.list)
        /\ (Len(proc.list) = 1 => lastDirtyWatch' = 0)
    BY <1>16 DEF CallbackReturns, PassOn, EntryDone, TaskDone
  <2>2. CASE Len(proc.list) # 1
    <3>1. proc' = [proc EXCEPT !.list = Tail(proc.list)] /\ "list" \in DOMAIN proc
      BY <1>0, <2>1, <2>2 DEF RestOf, QueueType
    <3>2. Len(Tail(proc.list)) # 0
      <4>1. Len(Tail(proc.list)) = Len(proc.list) - 1 /\ Len(proc.list) \in Nat \ {0}
        BY <1>0, <2>1, TailFacts DEF QueueType
      <4> QED
        BY <2>2, <4>1
    <3>3. Tail(proc.list) # <<>>
      <4>1. Len(<<>>) = 0
        OBVIOUS
      <4> QED
        BY <3>2, <4>1, Zenon
    <3> QED
      BY <1>4, <2>1, <3>1, <3>3
  <2> QED
    BY <1>3, <2>1, <2>2
<1>17. CASE Flush
  <2>1. at' = "flush" \/ (at' = "async" /\ lastDirtyWatch' = 0)
    BY <1>17 DEF Flush
  <2> QED
    BY <1>2, <1>3, <2>1
<1>18. CASE Event \/ LeaveOutside \/ LeaveApply \/ AsyncTimer \/ ApplyTimer \/ PostDigest
  <2>1. at' \in {"idle", "outside", "apply", "flush", "post"}
    BY <1>18 DEF Event, LeaveOutside, LeaveApply, AsyncTimer, ApplyTimer, BeginDigest, PostDigest
  <2> QED
    BY <1>2, <2>1
<1> QED
  BY <1>6, <1>7, <1>8, <1>9, <1>10, <1>11, <1>12, <1>13, <1>14, <1>15, <1>16, <1>17, <1>18 DEF Next, Engine

\* When a digest ends without an exception, every watch of the page has seen the value there
\* is: on a page of any scopes and watches, whatever listeners, tasks and promise callbacks
\* changed on the way.
THEOREM DigestsSettle == Spec => []DigestStable
<1>1. Init => OnceInv /\ StableInv
  <2> SUFFICES ASSUME Init PROVE OnceInv /\ StableInv
    OBVIOUS
  <2>1. StableInv
    BY DEF Init, StableInv
  <2>2. /\ scope[Root].watchers = <<1>> /\ scope[Controller].watchers = <<2>>
        /\ \A x \in Scopes \ {Root, Controller} : scope[x].watchers = <<>>
    BY ScopeNames DEF Init, NewScope, Unborn
  <2>3. OnceInv
    BY <2>2 DEF OnceInv
  <2> QED
    BY <2>1, <2>3
<1>2. PageInv /\ OnceInv /\ StableInv /\ [Next]_vars => OnceInv' /\ StableInv'
  BY OnceStep, StableStep DEF PageInv, PlaceInv, DigInv
<1>3. PageInv /\ StableInv => DigestStable
  <2> SUFFICES ASSUME PageInv, StableInv, at = "check", ~dig.dirty, NEW s \in Below(Root),
                      NEW i \in DOMAIN scope[s].watchers
               PROVE  Clean(s, i)
    BY DEF DigestStable, Clean
  <2>1. s \in Scopes /\ scope[s].live /\ scope[s] \in ScopeType
    BY DEF PageInv, PageType, TreeInv, Below, Above
  <2>2. Listed(s, i)
    BY <2>1 DEF Listed, Live, ScopeType
  <2> QED
    BY <2>2 DEF StableInv, AllClean
<1> QED
  BY <1>1, <1>2, <1>3, PageInvariance, PTL DEF Spec
=============================================================================
