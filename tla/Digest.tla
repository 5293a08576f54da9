------------------------------- MODULE Digest -------------------------------
(***************************************************************************)
(* What brings the answers of the server onto the page: AngularJS' digest  *)
(* ($rootScope) and its promises ($q), as the console's handlers, its      *)
(* ng-repeat rows and its $http calls use them.                            *)
(*                                                                         *)
(* JavaScript runs one turn at a time, so nothing is concurrent; what is   *)
(* hard is reentrance. The page's code (an event handler, a watch's        *)
(* listener, a promise's callback, a queued task) runs in the middle of    *)
(* the digest and may change what the digest is working on. It is modelled *)
(* as any sequence of the calls it can make, each a step of Effect, until  *)
(* it returns. An exception it throws is caught by the digest and ends it  *)
(* like a return, except in a promise's callback.                          *)
(*                                                                         *)
(* All digests start at the root scope, as $apply and the timers do.       *)
(***************************************************************************)
EXTENDS Integers, SequencesExt

CONSTANTS
    Root, Children,  \* the root scope, and the scopes that may come to be
    Controller,      \* the scope of ng-controller, one of them
    NoScope,
    Vars, Vals,      \* what watch expressions look at, and its values
    Start,           \* the values the page begins with
    Watched,         \* what its first two watches look at
    NoVal,           \* initWatchVal
    MaxWatchers,     \* bound on the watches ever set
    TTL,             \* the limit on the passes of a digest
    Deferred, Derived, \* promises of $q.defer(), and of then(), both finite
    MaxEvents,       \* bound on the turns of the page's own code
    MaxEffects       \* bound on the calls all page code makes

ASSUME DigestAssumption ==
    /\ Root \notin Children /\ Controller \in Children /\ NoScope \notin Children \cup {Root}
    /\ NoVal \notin Vals /\ Start \in [Vars -> Vals] /\ Watched \in Vars \X Vars
    /\ Deferred \cap Derived = {}
    /\ {MaxWatchers, TTL, MaxEvents, MaxEffects} \subseteq Nat

Scopes == {Root} \cup Children
Promises == Deferred \cup Derived

VARIABLES
    scope,    \* for each scope: $parent, the children, $$watchers with
              \* $$digestWatchIndex, $$watchersCount, and
              \* whether it exists and is not $$destroyed
    watch,    \* the watchers: what each looks at, and last
    model,    \* what the watch expressions look at
    lastDirtyWatch, asyncQueue, applyAsyncQueue, postDigestQueue,
    phase,    \* $rootScope.$$phase is set
    deferred, \* timers set by $evalAsync
    applyAsyncId, \* the timer of $applyAsync is set
    at,       \* where the engine is
    busy,     \* page code is running there
    dig,      \* the locals of $digest
    promise,  \* for each promise: status, pending, processScheduled
    proc,     \* the entries processQueue has yet to go through, and whose
    turns, effects, \* events and calls so far
    hist      \* history: entries registered and run, and whether a digest gave up

engine == <<lastDirtyWatch, asyncQueue, applyAsyncQueue, postDigestQueue, phase, deferred,
            applyAsyncId>>
page == <<scope, watch, model>>
vars == <<page, engine, at, busy, dig, promise, proc, turns, effects, hist>>

-----------------------------------------------------------------------------
(***************************************************************************)
(* Scopes.                                                                 *)
(***************************************************************************)

NewScope(parent) == [parent |-> parent, kids |-> <<>>, watchers |-> <<>>, index |-> -1,
                     count |-> 0, born |-> TRUE, live |-> TRUE]
Unborn == [NewScope(NoScope) EXCEPT !.born = FALSE, !.live = FALSE]

\* The scope itself and what its chain of $parent leads to: what every set has that has
\* the scope and the parents of its members.
HasParents(t, up) == \A x \in up : t[x].parent \in up \cup {NoScope}
Ancestors(t, s) ==
    LET closed == {up \in SUBSET Scopes : s \in up /\ HasParents(t, up)}
    IN  {x \in Scopes : \A up \in closed : x \in up}

\* Mutated form of incrementWatchersCount: only the scope itself counts.
incrementOwnCount(t, s, n) == [t EXCEPT ![s].count = @ + n]

incrementWatchersCount(t, s, n) ==
    [x \in Scopes |-> IF x \in Ancestors(t, s) THEN [t[x] EXCEPT !.count = @ + n] ELSE t[x]]

\* What hangs below a scope, itself included.
Below(s) == {x \in Scopes : s \in Ancestors(scope, x)}

\* $new; the name of a scope is not used again.
newChild(p) ==
    \E c \in Children :
       /\ ~scope[c].born
       /\ scope' = [scope EXCEPT ![c] = NewScope(p), ![p].kids = Append(@, c)]
       /\ UNCHANGED <<watch, model, lastDirtyWatch>>

\* The place of a scope among its siblings.
Place(s) == LET k == scope[scope[s].parent].kids IN CHOOSE i \in DOMAIN k : k[i] = s

\* $destroy: the scopes below inherit $$destroyed and the disabled methods from their
\* prototype. On this page the rows of an ng-repeat are destroyed by a watch of the
\* scope above them, never a scope by a listener at or below it.
destroy(s) ==
    LET p == scope[s].parent
        t == incrementWatchersCount(scope, s, -scope[s].count)
        cut == [t EXCEPT ![p].kids = RemoveAt(@, Place(s)),
                         ![s].parent = NoScope, ![s].kids = <<>>]
    IN  /\ scope[s].live
        /\ at = "watch" => s \notin Ancestors(scope, dig.current)
        /\ scope' = [x \in Scopes |-> IF x \in Below(s) THEN [cut[x] EXCEPT !.live = FALSE] ELSE cut[x]]
        /\ UNCHANGED <<watch, model, lastDirtyWatch>>

\* $watch puts the watcher first; the digest reads from the end.
addWatch(s, v) ==
    LET t == [scope EXCEPT ![s].watchers = <<Len(watch) + 1>> \o @, ![s].index = @ + 1]
    IN  /\ Len(watch) < MaxWatchers
        /\ watch' = Append(watch, [var |-> v, last |-> NoVal])
        /\ scope' = incrementWatchersCount(t, s, 1)
        /\ lastDirtyWatch' = 0
        /\ UNCHANGED model

\* Positions are counted from 1 here and from 0 in index.
deregisterWatch(s, i) ==
    LET t == [scope EXCEPT ![s].watchers = RemoveAt(@, i),
                           ![s].index = IF i - 1 < @ THEN @ - 1 ELSE @]
    IN  /\ scope' = incrementWatchersCount(t, s, -1)
        /\ lastDirtyWatch' = 0
        /\ UNCHANGED <<watch, model>>

-----------------------------------------------------------------------------
(***************************************************************************)
(* Queues.                                                                 *)
(***************************************************************************)

\* Mutated form of evalAsync: the timer is set only during a digest.
evalAsyncNoTimer(tasks) ==
    /\ asyncQueue' = asyncQueue \o tasks
    /\ deferred' = IF tasks # <<>> /\ phase /\ asyncQueue = <<>> THEN deferred + 1 ELSE deferred

\* $evalAsync of tasks (none or one).
evalAsync(tasks) ==
    /\ asyncQueue' = asyncQueue \o tasks
    /\ deferred' = IF tasks # <<>> /\ ~phase /\ asyncQueue = <<>> THEN deferred + 1 ELSE deferred

applyAsync ==
    /\ applyAsyncQueue' = Append(applyAsyncQueue, "expr")
    /\ applyAsyncId' = TRUE

PlainTask == <<"fn">>
ProcessTask(p) == <<"process", p>>

-----------------------------------------------------------------------------
(***************************************************************************)
(* Promises. An entry of pending is the promise then() returned with the   *)
(* statuses it has a callback for, or a promise that has been resolved     *)
(* with this one and takes over its fate. Status 1 is fulfilled, 2 is      *)
(* rejected, -1 is resolved with another promise.                          *)
(***************************************************************************)

NewPromise == [status |-> 0, pending |-> <<>>, scheduled |-> FALSE, used |-> FALSE]

Entry(kind, res, on) == [kind |-> kind, res |-> res, on |-> on]

\* scheduleProcessQueue: the promises after it, and the task for nextTick.
MustSchedule(q, p) == ~q[p].scheduled /\ q[p].pending # <<>>
Scheduled(q, p) == IF MustSchedule(q, p) THEN [q EXCEPT ![p].scheduled = TRUE] ELSE q
ScheduleTask(q, p) == IF MustSchedule(q, p) THEN <<ProcessTask(p)>> ELSE <<>>

Enter(q, p, e) == [q EXCEPT ![p].pending = Append(@, e)]

\* $$resolve with a plain value, or $$reject.
settle(q, p, status) ==
    LET s == [q EXCEPT ![p].status = status]
    IN  promise' = Scheduled(s, p) /\ evalAsync(ScheduleTask(s, p))

\* Mutated form of settleDeferred: the status is not looked at.
settleAgain(p, status) == settle(promise, p, status)

\* Deferred's resolve and reject do nothing the second time.
settleDeferred(p, status) ==
    IF promise[p].status = 0 THEN settle(promise, p, status)
    ELSE UNCHANGED <<promise, asyncQueue, deferred>>

Register(p, e) == hist' = [hist EXCEPT !.entered[p] = Append(@, e)]

\* Mutated form of enterThen: then of a promise that is settled only waits.
enterThenWaits(q, p, e) ==
    promise' = Enter(q, p, e) /\ UNCHANGED <<asyncQueue, deferred>>

\* then of p, with entry e: what onSettled does if p is settled already.
enterThen(q, p, e) ==
    LET s == Enter(q, p, e) IN
    IF s[p].status > 0 THEN promise' = Scheduled(s, p) /\ evalAsync(ScheduleTask(s, p))
    ELSE promise' = s /\ UNCHANGED <<asyncQueue, deferred>>

\* The new promise is the first one not in use.
then(p, r, on) ==
    LET e == Entry("then", r, on) IN
    /\ r \in Derived /\ ~promise[r].used
    /\ r = CHOOSE q \in Derived : ~promise[q].used
    /\ p \in Deferred \/ promise[p].used
    /\ Register(p, e)
    /\ enterThen([promise EXCEPT ![r].used = TRUE], p, e)

-----------------------------------------------------------------------------

Locals == [current |-> Root, dirty |-> FALSE, ttl |-> TTL, pos |-> 0]
NoProc == [p |-> CHOOSE p \in Promises : TRUE, list |-> <<>>]

\* The page has been compiled and digested: the root and the controller's scope have
\* a watch each, which have seen the values there are.
Init ==
    /\ scope = [s \in Scopes |->
          CASE s = Root -> [NewScope(NoScope) EXCEPT !.kids = <<Controller>>, !.watchers = <<1>>,
                                                     !.count = 2]
            [] s = Controller -> [NewScope(Root) EXCEPT !.watchers = <<2>>, !.count = 1]
            [] OTHER -> Unborn]
    /\ model = Start
    /\ watch = [i \in 1 .. 2 |-> [var |-> Watched[i], last |-> Start[Watched[i]]]]
    /\ lastDirtyWatch = 0
    /\ asyncQueue = <<>>
    /\ applyAsyncQueue = <<>>
    /\ postDigestQueue = 0
    /\ phase = FALSE
    /\ deferred = 0
    /\ applyAsyncId = FALSE
    /\ at = "idle"
    /\ busy = FALSE
    /\ dig = Locals
    /\ promise = [p \in Promises |-> NewPromise]
    /\ proc = NoProc
    /\ turns = 0
    /\ effects = 0
    /\ hist = [entered |-> [p \in Promises |-> <<>>], ran |-> [p \in Promises |-> <<>>],
               gaveUp |-> FALSE]

TypeOK ==
    /\ at \in {"idle", "outside", "apply", "flush", "async", "watch", "check", "post"}
    /\ at = "idle" => ~busy /\ ~phase /\ proc = NoProc
    /\ \A s \in Scopes : scope[s].index \in -1 .. Len(scope[s].watchers)
    /\ lastDirtyWatch \in 0 .. Len(watch)
    /\ \A i \in DOMAIN watch : watch[i] \in [var : Vars, last : Vals \cup {NoVal}]
    /\ dig.ttl \in -1 .. TTL
    /\ \A p \in Promises : promise[p].status \in {-1, 0, 1, 2}
    /\ deferred \in Nat

-----------------------------------------------------------------------------
(***************************************************************************)
(* What page code can call while it runs.                                  *)
(***************************************************************************)

\* Calls that change what is watched.
EditPage ==
    /\ \/ \E s \in Scopes : scope[s].live /\ newChild(s)
       \/ \E s \in Children : destroy(s)
       \/ \E s \in Scopes : \E v \in Vars : scope[s].live /\ addWatch(s, v)
       \/ \E s \in Scopes : \E i \in DOMAIN scope[s].watchers : deregisterWatch(s, i)
       \/ /\ \E v \in Vars : \E x \in Vals : model[v] # x /\ model' = [model EXCEPT ![v] = x]
          /\ UNCHANGED <<scope, watch, lastDirtyWatch>>
    /\ UNCHANGED <<asyncQueue, deferred, applyAsyncQueue, applyAsyncId, postDigestQueue, promise, hist>>

\* Calls that queue work.
Queue ==
    /\ \/ evalAsync(<<PlainTask>>) /\ UNCHANGED <<applyAsyncQueue, applyAsyncId, postDigestQueue>>
       \/ applyAsync /\ UNCHANGED <<asyncQueue, deferred, postDigestQueue>>
       \/ postDigestQueue' = postDigestQueue + 1
          /\ UNCHANGED <<asyncQueue, deferred, applyAsyncQueue, applyAsyncId>>
    /\ UNCHANGED <<page, lastDirtyWatch, promise, hist>>

\* Calls on promises.
UsePromise ==
    /\ \/ \E p \in Deferred : \E status \in {1, 2} : settleDeferred(p, status) /\ UNCHANGED hist
       \/ \E p \in Promises : \E r \in Derived : \E on \in {{1}, {2}} : then(p, r, on)
    /\ UNCHANGED <<page, lastDirtyWatch, applyAsyncQueue, applyAsyncId, postDigestQueue>>

Effect ==
    /\ busy
    /\ effects < MaxEffects
    /\ effects' = effects + 1
    /\ EditPage \/ Queue \/ UsePromise
    /\ UNCHANGED <<phase, at, busy, dig, proc, turns>>

-----------------------------------------------------------------------------
(***************************************************************************)
(* Turns.                                                                  *)
(***************************************************************************)

\* A handler of the browser: a click, the answer of an XHR, setInterval.
Event ==
    /\ at = "idle" /\ turns < MaxEvents
    /\ turns' = turns + 1
    /\ at' = "outside" /\ busy' = TRUE
    /\ UNCHANGED <<page, engine, dig, promise, proc, effects, hist>>

\* It is over, or goes on in $apply.
LeaveOutside ==
    /\ at = "outside"
    /\ \/ at' = "idle" /\ busy' = FALSE /\ UNCHANGED phase
       \/ at' = "apply" /\ phase' = TRUE /\ UNCHANGED busy
    /\ UNCHANGED <<page, lastDirtyWatch, asyncQueue, applyAsyncQueue, postDigestQueue, deferred,
                   applyAsyncId, dig, promise, proc, hist>>

\* $digest begins; what $applyAsync queued comes first.
BeginDigest ==
    /\ at' = "flush" /\ phase' = TRUE /\ busy' = FALSE
    /\ UNCHANGED <<page, lastDirtyWatch, asyncQueue, applyAsyncQueue, postDigestQueue,
                   applyAsyncId, dig, promise, proc, hist>>

LeaveApply == at = "apply" /\ busy /\ BeginDigest /\ UNCHANGED deferred

\* The timer of $evalAsync.
AsyncTimer ==
    /\ at = "idle" /\ deferred > 0
    /\ deferred' = deferred - 1
    /\ \/ asyncQueue # <<>> /\ BeginDigest
       \/ /\ asyncQueue = <<>>
          /\ UNCHANGED <<page, lastDirtyWatch, asyncQueue, applyAsyncQueue, postDigestQueue, phase,
                         applyAsyncId, at, busy, dig, promise, proc, hist>>

\* The timer of $applyAsync, $apply(flushApplyAsync).
ApplyTimer == at = "idle" /\ applyAsyncId /\ BeginDigest /\ UNCHANGED deferred

-----------------------------------------------------------------------------
(***************************************************************************)
(* $digest.                                                                *)
(***************************************************************************)

\* flushApplyAsync calls one expression after the other; page code returns.
Flush ==
    /\ at = "flush"
    /\ \/ /\ busy
          /\ busy' = FALSE
          /\ UNCHANGED <<applyAsyncQueue, applyAsyncId, lastDirtyWatch, at, dig>>
       \/ /\ ~busy /\ applyAsyncQueue # <<>>
          /\ applyAsyncQueue' = Tail(applyAsyncQueue)
          /\ busy' = TRUE
          /\ UNCHANGED <<applyAsyncId, lastDirtyWatch, at, dig>>
       \/ /\ ~busy /\ applyAsyncQueue = <<>>
          /\ applyAsyncId' = FALSE
          /\ lastDirtyWatch' = 0
          /\ at' = "async"
          /\ dig' = Locals
          /\ UNCHANGED <<applyAsyncQueue, busy>>
    /\ UNCHANGED <<page, asyncQueue, postDigestQueue, phase, deferred, promise, proc, hist>>

\* Mutated form of TaskDone: lastDirtyWatch is not reset after a task.
TaskDoneKeepsDirty ==
    /\ dig' = [dig EXCEPT !.pos = @ + 1]
    /\ UNCHANGED lastDirtyWatch

\* The end of a task.
TaskDone ==
    /\ lastDirtyWatch' = 0
    /\ dig' = [dig EXCEPT !.pos = @ + 1]

\* The loop over asyncQueue: call the next task, or go on to the watches.
NextTask ==
    /\ at = "async" /\ ~busy /\ proc.list = <<>>
    /\ dig.pos < Len(asyncQueue)
    /\ LET task == asyncQueue[dig.pos + 1] IN
       \/ /\ task = PlainTask
          /\ busy' = TRUE
          /\ UNCHANGED <<promise, proc>>
       \/ /\ task # PlainTask
          /\ proc' = [p |-> task[2], list |-> promise[task[2]].pending]
          /\ promise' = [promise EXCEPT ![task[2]].pending = <<>>, ![task[2]].scheduled = FALSE]
          /\ UNCHANGED busy
    /\ UNCHANGED <<page, engine, at, dig, hist>>

PlainTaskReturns ==
    /\ at = "async" /\ busy /\ proc.list = <<>>
    /\ busy' = FALSE
    /\ TaskDone
    /\ UNCHANGED <<page, asyncQueue, applyAsyncQueue, postDigestQueue, phase, deferred, applyAsyncId,
                   at, promise, proc, hist>>

TasksDone ==
    /\ at = "async" /\ ~busy /\ proc.list = <<>>
    /\ dig.pos = Len(asyncQueue)
    /\ asyncQueue' = <<>>
    /\ at' = "watch"
    /\ scope' = [scope EXCEPT ![Root].index = Len(scope[Root].watchers)]
    /\ dig' = [dig EXCEPT !.current = Root, !.dirty = FALSE, !.pos = 0]
    /\ UNCHANGED <<watch, model, lastDirtyWatch, applyAsyncQueue, postDigestQueue, phase, deferred,
                   applyAsyncId, busy, promise, proc, hist>>

(***************************************************************************)
(* processQueue, entry after entry.                                        *)
(***************************************************************************)

RestOf(list) == IF Len(list) = 1 THEN NoProc ELSE [proc EXCEPT !.list = Tail(list)]

\* The entry at the head is dealt with; after the last one the task is over.
EntryDone ==
    /\ proc' = RestOf(proc.list)
    /\ IF Len(proc.list) = 1 THEN TaskDone ELSE UNCHANGED <<lastDirtyWatch, dig>>
    /\ UNCHANGED <<page, applyAsyncQueue, postDigestQueue, phase, applyAsyncId, at>>

Ran(e) == [hist EXCEPT !.ran[proc.p] = Append(@, e)]

HasCallback(e) == e.kind = "then" /\ promise[proc.p].status \in e.on

CallCallback ==
    /\ at = "async" /\ ~busy /\ proc.list # <<>>
    /\ HasCallback(Head(proc.list))
    /\ busy' = TRUE
    /\ UNCHANGED <<page, engine, at, dig, promise, proc, hist>>

\* A callback throws, returns a value, or returns a promise: then's result takes
\* over the fate of that one, and a promise returned to itself is rejected.
CallbackReturns ==
    LET e == Head(proc.list) IN
    /\ at = "async" /\ busy /\ proc.list # <<>>
    /\ \/ \E status \in {1, 2} : settle(promise, e.res, status) /\ hist' = Ran(e)
       \/ \E r \in Promises :
             LET a == Entry("adopt", e.res, {}) IN
             /\ r # e.res /\ (r \in Deferred \/ promise[r].used)
             /\ enterThen([promise EXCEPT ![e.res].status = -1], r, a)
             /\ hist' = [Ran(e) EXCEPT !.entered[r] = Append(@, a)]
    /\ busy' = FALSE
    /\ EntryDone

\* Without a callback the promise's own fate is passed on.
PassOn ==
    LET e == Head(proc.list) IN
    /\ at = "async" /\ ~busy /\ proc.list # <<>>
    /\ ~HasCallback(e)
    /\ settle(promise, e.res, promise[proc.p].status)
    /\ hist' = Ran(e)
    /\ UNCHANGED busy
    /\ EntryDone

-----------------------------------------------------------------------------
(***************************************************************************)
(* The passes over the watches.                                            *)
(***************************************************************************)

\* One watch; the last one that was dirty, now clean, ends the pass early.
CheckWatch ==
    LET s == dig.current
        i == scope[s].index
        w == scope[s].watchers[i]
        value == model[watch[w].var]
    IN  /\ at = "watch" /\ ~busy /\ i > 0
        /\ scope' = [scope EXCEPT ![s].index = i - 1]
        /\ \/ /\ value # watch[w].last
              /\ watch' = [watch EXCEPT ![w].last = value]
              /\ lastDirtyWatch' = w
              /\ dig' = [dig EXCEPT !.dirty = TRUE]
              /\ busy' = TRUE
              /\ UNCHANGED at
           \/ /\ value = watch[w].last
              /\ at' = IF w = lastDirtyWatch THEN "check" ELSE at
              /\ dig' = [dig EXCEPT !.dirty = @ /\ w # lastDirtyWatch]
              /\ UNCHANGED <<watch, lastDirtyWatch, busy>>
        /\ UNCHANGED <<model, asyncQueue, applyAsyncQueue, postDigestQueue, phase, deferred,
                       applyAsyncId, promise, proc, hist>>

ListenerReturns ==
    /\ at = "watch" /\ busy
    /\ busy' = FALSE
    /\ UNCHANGED <<page, engine, at, dig, promise, proc, hist>>

\* Depth first: down if anything below is watched, else to the next sibling of the
\* scope or of the nearest scope above that has one.
NextSibling(s) ==
    LET k == scope[scope[s].parent].kids
    IN  IF Place(s) < Len(k) THEN k[Place(s) + 1] ELSE NoScope

Climb(s) ==
    LET branches == {a \in Ancestors(scope, s) \ {Root} : NextSibling(a) # NoScope}
        nearest == CHOOSE a \in branches : branches \subseteq Ancestors(scope, a)
    IN  IF branches = {} THEN NoScope ELSE NextSibling(nearest)

After(s) == IF scope[s].count # 0 /\ scope[s].kids # <<>> THEN Head(scope[s].kids) ELSE Climb(s)

NextScope ==
    LET s == dig.current
        n == After(s)
        left == [scope EXCEPT ![s].index = -1]
    IN  /\ at = "watch" /\ ~busy /\ scope[s].index = 0
        /\ IF n = NoScope
           THEN at' = "check" /\ scope' = left /\ UNCHANGED dig
           ELSE /\ scope' = [left EXCEPT ![n].index = Len(scope[n].watchers)]
                /\ dig' = [dig EXCEPT !.current = n]
                /\ UNCHANGED at
        /\ UNCHANGED <<watch, model, engine, busy, promise, proc, hist>>

\* Mutated form of EndPass: the phase is cleared only when the digest ends well.
EndPassKeepsPhase ==
    LET again == dig.dirty \/ asyncQueue # <<>> IN
    /\ at = "check"
    /\ \/ /\ again /\ dig.ttl = 0
          /\ at' = "idle" /\ UNCHANGED phase /\ dig' = Locals
          /\ hist' = [hist EXCEPT !.gaveUp = TRUE]
       \/ /\ again /\ dig.ttl > 0
          /\ at' = "async" /\ dig' = [dig EXCEPT !.ttl = @ - 1]
          /\ UNCHANGED <<phase, hist>>
       \/ /\ ~again
          /\ at' = "post" /\ phase' = FALSE /\ dig' = Locals
          /\ UNCHANGED hist
    /\ UNCHANGED <<page, lastDirtyWatch, asyncQueue, applyAsyncQueue, postDigestQueue, deferred,
                   applyAsyncId, busy, promise, proc>>

\* Another pass, the end, or, after too many passes, an exception: whatever is
\* queued then stays queued.
EndPass ==
    LET again == dig.dirty \/ asyncQueue # <<>> IN
    /\ at = "check"
    /\ \/ /\ again /\ dig.ttl = 0
          /\ at' = "idle" /\ phase' = FALSE /\ dig' = Locals
          /\ hist' = [hist EXCEPT !.gaveUp = TRUE]
       \/ /\ again /\ dig.ttl > 0
          /\ at' = "async" /\ dig' = [dig EXCEPT !.ttl = @ - 1]
          /\ UNCHANGED <<phase, hist>>
       \/ /\ ~again
          /\ at' = "post" /\ phase' = FALSE /\ dig' = Locals
          /\ UNCHANGED hist
    /\ UNCHANGED <<page, lastDirtyWatch, asyncQueue, applyAsyncQueue, postDigestQueue, deferred,
                   applyAsyncId, busy, promise, proc>>

\* The functions of $$postDigest, outside of any phase.
PostDigest ==
    /\ at = "post"
    /\ \/ busy /\ busy' = FALSE /\ UNCHANGED <<postDigestQueue, at>>
       \/ /\ ~busy /\ postDigestQueue > 0
          /\ postDigestQueue' = postDigestQueue - 1
          /\ busy' = TRUE
          /\ UNCHANGED at
       \/ /\ ~busy /\ postDigestQueue = 0
          /\ at' = "idle"
          /\ UNCHANGED <<postDigestQueue, busy>>
    /\ UNCHANGED <<page, lastDirtyWatch, asyncQueue, applyAsyncQueue, phase, deferred, applyAsyncId,
                   dig, promise, proc, hist>>

-----------------------------------------------------------------------------

Engine ==
    /\ \/ LeaveOutside \/ LeaveApply \/ AsyncTimer \/ ApplyTimer
       \/ Flush \/ NextTask \/ PlainTaskReturns \/ TasksDone
       \/ CallCallback \/ CallbackReturns \/ PassOn
       \/ CheckWatch \/ ListenerReturns \/ NextScope \/ EndPass \/ PostDigest
    /\ UNCHANGED <<turns, effects>>

Next == Engine \/ Event \/ Effect

\* Code returns, the engine goes on and timers fire; nothing else is promised.
Spec == Init /\ [][Next]_vars /\ WF_vars(Engine)

-----------------------------------------------------------------------------
(***************************************************************************)
(* Properties.                                                             *)
(***************************************************************************)

\* When a digest ends without an exception, every watch of the page has seen the
\* value there is, whatever listeners, tasks and promise callbacks changed, added or
\* removed on the way: stopping at the last watch that was dirty, and skipping scopes
\* without watches below them, leaves no change behind.
DigestStable ==
    (at = "check" /\ ~dig.dirty /\ asyncQueue = <<>>) =>
        \A s \in Below(Root) : \A i \in DOMAIN scope[s].watchers :
            LET w == watch[scope[s].watchers[i]] IN w.last = model[w.var]

\* $$watchersCount, by which the digest skips whole subtrees, is the number of
\* watches below, through all orders of creating, destroying, watching and
\* deregistering.
CountExact ==
    \A s \in Below(Root) :
        scope[s].count = Cardinality(UNION {{x} \X DOMAIN scope[x].watchers : x \in Below(s)})

\* The callbacks of a promise run once each, in the order of then(), and only after
\* it is settled; when the page is at rest none is left out, not even one that was
\* added to a settled promise or by another callback.
CallbacksOnceInOrder ==
    \A p \in Promises :
        /\ IsPrefix(hist.ran[p], hist.entered[p])
        /\ hist.ran[p] # <<>> => promise[p].status > 0
        /\ (at = "idle" /\ asyncQueue = <<>> /\ promise[p].status > 0) =>
              hist.ran[p] = hist.entered[p]

\* A promise that is fulfilled or rejected stays so, whatever is called later.
SettledOnce ==
    [][\A p \in Promises : promise[p].status > 0 => promise'[p].status = promise[p].status]_vars

\* What $evalAsync or $applyAsync queued is run, without any further event: unless a
\* digest gave up, after which no timer is left for what is queued.
TasksRun ==
    /\ (asyncQueue # <<>>) ~> (asyncQueue = <<>> \/ hist.gaveUp)
    /\ (applyAsyncQueue # <<>>) ~> (applyAsyncQueue = <<>>)
=============================================================================
