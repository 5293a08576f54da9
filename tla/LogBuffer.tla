----------------------------- MODULE LogBuffer -----------------------------
(***************************************************************************)
(* The log: the macro LOG_ORIG writes text at p_sp and advances it, from   *)
(* any thread and without a lock; CHandler::handle returns the whole log   *)
(* (OPT_QUERY_CLEAN_LOG) or what came since the cursor xp, which all       *)
(* connections share (OPT_QUERY_LOG).                                      *)
(*                                                                         *)
(* The characters logged are numbered in the order in which their calls    *)
(* began, so a log nothing happened to has character i at place i - 1.     *)
(***************************************************************************)
EXTENDS Naturals, FiniteSets

CONSTANTS
    Loggers,   \* threads that log
    Readers,   \* connections that ask for the log
    Lengths,   \* the lengths a text passed to LOG_ORIG can have
    MaxCalls,  \* bound on the calls of LOG_ORIG
    Size,      \* sizeof(logbuff)
    WrapAt     \* what p_sp - logbuff is compared with

ASSUME LogAssumption ==
    /\ Loggers \cap Readers = {}
    /\ Lengths \subseteq Nat \ {0}
    /\ MaxCalls \in Nat
    /\ Size \in Nat \ {0}
    /\ WrapAt \in Nat
    /\ WrapAt >= Size

VARIABLES
    logbuff,   \* the buffer; 0 is the terminating character
    p_sp,      \* p_sp - logbuff
    xp,        \* xp - logbuff
    overrun,   \* something was written behind the buffer
    pc,        \* what a thread does next
    call,      \* call[t]: the call of LOG_ORIG logger t is in
    calls,     \* how many calls have begun
    req,       \* req[r]: the request of reader r
    issued,    \* history: how many characters calls have begun to write
    overlap,   \* history: two calls of LOG_ORIG were under way at once
    shown      \* history: the characters in the answers, until calls overlap

vars == <<logbuff, p_sp, xp, overrun, pc, call, calls, req, issued, overlap, shown>>
loggerVars == <<call, calls, issued, overlap>>
readerVars == <<xp, req, shown>>

Places == 0 .. Size - 1

\* No call of LOG_ORIG, and no request for the log.
NoCall == [first |-> 0, len |-> 0, to |-> 0, done |-> 0, early |-> FALSE, base |-> 0]
NoReq == [from |-> 0, sp |-> 0]

TypeOK ==
    /\ logbuff \in [Places -> Nat]
    /\ p_sp \in Nat
    /\ xp \in Nat
    /\ overrun \in BOOLEAN
    /\ \A t \in Loggers : pc[t] \in {"idle", "sprintf", "write", "operand", "advance"}
    /\ \A r \in Readers : pc[r] \in {"idle", "load", "store", "copy"}
    /\ call \in [Loggers -> [first : Nat, len : Nat, to : Nat, done : Nat, early : BOOLEAN,
                              base : Nat]]
    /\ \A t \in Loggers : call[t].done <= call[t].len
    /\ calls \in 0 .. MaxCalls
    /\ req \in [Readers -> [from : Nat, sp : Nat]]
    /\ issued \in Nat
    /\ overlap \in BOOLEAN
    /\ shown \in SUBSET (1 .. issued)

\* LOG_INIT, and the cursor of a new CHandler.
Init ==
    /\ logbuff = [i \in Places |-> 0]
    /\ p_sp = 0
    /\ xp = 0
    /\ overrun = FALSE
    /\ pc = [t \in Loggers \cup Readers |-> "idle"]
    /\ call = [t \in Loggers |-> NoCall]
    /\ calls = 0
    /\ req = [r \in Readers |-> NoReq]
    /\ issued = 0
    /\ overlap = FALSE
    /\ shown = {}

Goto(t, label) == pc' = [pc EXCEPT ![t] = label]

-----------------------------------------------------------------------------
(***************************************************************************)
(* LOG_ORIG(text) in logger t.                                             *)
(***************************************************************************)

\* if (p_sp - logbuff > 90000000) p_sp = logbuff;
Enter(t, n) ==
    /\ ~overrun /\ pc[t] = "idle" /\ calls < MaxCalls
    /\ p_sp' = IF p_sp > WrapAt THEN 0 ELSE p_sp
    /\ call' = [call EXCEPT ![t].first = issued + 1, ![t].len = n]
    /\ calls' = calls + 1
    /\ issued' = issued + n
    /\ overlap' = (overlap \/ \E u \in Loggers \ {t} : pc[u] # "idle")
    /\ Goto(t, "sprintf")
    /\ UNCHANGED <<logbuff, overrun, readerVars>>

\* sprintf gets p_sp; the compiler may read the other operand of + now or later.
CallSprintf(t) ==
    /\ ~overrun /\ pc[t] = "sprintf"
    /\ \E e \in BOOLEAN :
           call' = [call EXCEPT ![t].to = p_sp, ![t].early = e, ![t].base = IF e THEN p_sp ELSE 0]
    /\ Goto(t, "write")
    /\ UNCHANGED <<logbuff, p_sp, overrun, calls, issued, overlap, readerVars>>

\* Mutated form of WriteChar: one character too many is written.
WriteCharOneMore(t) ==
    /\ ~overrun /\ pc[t] = "write"
    /\ LET c == call[t]
           at == c.to + c.done
           char == IF c.done <= c.len THEN c.first + c.done ELSE 0
       IN  /\ overrun' = (at >= Size)
           /\ logbuff' = IF at >= Size THEN logbuff ELSE [logbuff EXCEPT ![at] = char]
           /\ IF char # 0
              THEN call' = [call EXCEPT ![t].done = @ + 1] /\ UNCHANGED pc
              ELSE UNCHANGED call /\ Goto(t, IF c.early THEN "advance" ELSE "operand")
    /\ UNCHANGED <<p_sp, calls, issued, overlap, readerVars>>

\* sprintf writes one character after the other, then the terminating 0.
WriteChar(t) ==
    /\ ~overrun /\ pc[t] = "write"
    /\ LET c == call[t]
           at == c.to + c.done
           char == IF c.done < c.len THEN c.first + c.done ELSE 0
       IN  /\ overrun' = (at >= Size)
           /\ logbuff' = IF at >= Size THEN logbuff ELSE [logbuff EXCEPT ![at] = char]
           /\ IF char # 0
              THEN call' = [call EXCEPT ![t].done = @ + 1] /\ UNCHANGED pc
              ELSE UNCHANGED call /\ Goto(t, IF c.early THEN "advance" ELSE "operand")
    /\ UNCHANGED <<p_sp, calls, issued, overlap, readerVars>>

ReadOperand(t) ==
    /\ ~overrun /\ pc[t] = "operand"
    /\ call' = [call EXCEPT ![t].base = p_sp]
    /\ Goto(t, "advance")
    /\ UNCHANGED <<logbuff, p_sp, overrun, calls, issued, overlap, readerVars>>

\* Mutated form of Advance: the terminating 0 is counted as text.
AdvanceBehindZero(t) ==
    /\ ~overrun /\ pc[t] = "advance"
    /\ p_sp' = call[t].base + call[t].len + 1
    /\ call' = [call EXCEPT ![t] = NoCall]
    /\ Goto(t, "idle")
    /\ UNCHANGED <<logbuff, overrun, calls, issued, overlap, readerVars>>

\* p_sp = p_sp + sprintf(...)
Advance(t) ==
    /\ ~overrun /\ pc[t] = "advance"
    /\ p_sp' = call[t].base + call[t].len
    /\ call' = [call EXCEPT ![t] = NoCall]
    /\ Goto(t, "idle")
    /\ UNCHANGED <<logbuff, overrun, calls, issued, overlap, readerVars>>

LoggerStep(t) ==
    \/ \E n \in Lengths : Enter(t, n)
    \/ CallSprintf(t) \/ WriteChar(t) \/ ReadOperand(t) \/ Advance(t)

-----------------------------------------------------------------------------
(***************************************************************************)
(* The two requests for the log, in the thread of connection r.            *)
(***************************************************************************)

\* OPT_QUERY_CLEAN_LOG: p_sp is read, to be stored in xp.
QueryCleanLog(r) ==
    /\ ~overrun /\ pc[r] = "idle"
    /\ req' = [req EXCEPT ![r] = [from |-> 0, sp |-> p_sp]]
    /\ Goto(r, "store")
    /\ UNCHANGED <<logbuff, p_sp, xp, overrun, loggerVars, shown>>

\* OPT_QUERY_LOG: np = xp; ...
QueryLog(r) ==
    /\ ~overrun /\ pc[r] = "idle"
    /\ req' = [req EXCEPT ![r].from = xp]
    /\ Goto(r, "load")
    /\ UNCHANGED <<logbuff, p_sp, xp, overrun, loggerVars, shown>>

\* Mutated form of LoadSp: np is read from xp after xp was set.
LoadSpFirst(r) ==
    /\ ~overrun /\ pc[r] = "load"
    /\ req' = [req EXCEPT ![r] = [from |-> p_sp, sp |-> p_sp]]
    /\ Goto(r, "store")
    /\ UNCHANGED <<logbuff, p_sp, xp, overrun, loggerVars, shown>>

LoadSp(r) ==
    /\ ~overrun /\ pc[r] = "load"
    /\ req' = [req EXCEPT ![r].sp = p_sp]
    /\ Goto(r, "store")
    /\ UNCHANGED <<logbuff, p_sp, xp, overrun, loggerVars, shown>>

\* xp = p_sp;
StoreXp(r) ==
    /\ ~overrun /\ pc[r] = "store"
    /\ xp' = req[r].sp
    /\ Goto(r, "copy")
    /\ UNCHANGED <<logbuff, p_sp, overrun, loggerVars, req, shown>>

\* The places of the text that begins at place i.
TextFrom(i) == {j \in Places : j >= i /\ \A k \in i .. j : logbuff[k] # 0}
Text(i) == {logbuff[j] : j \in TextFrom(i)}

\* std::string(np), std::string(logbuff).
Copy(r) ==
    /\ ~overrun /\ pc[r] = "copy"
    /\ shown' = IF overlap THEN shown ELSE shown \cup Text(req[r].from)
    /\ req' = [req EXCEPT ![r] = NoReq]
    /\ Goto(r, "idle")
    /\ UNCHANGED <<logbuff, p_sp, xp, overrun, loggerVars>>

ReaderStep(r) ==
    QueryCleanLog(r) \/ QueryLog(r) \/ LoadSp(r) \/ StoreXp(r) \/ Copy(r)

Next ==
    \/ \E t \in Loggers : LoggerStep(t)
    \/ \E r \in Readers : ReaderStep(r)

\* Connections are served, and consoles on the log page ask every second.
Spec == Init /\ [][Next]_vars /\ \A r \in Readers : WF_vars(ReaderStep(r))

-----------------------------------------------------------------------------
(***************************************************************************)
(* Properties.                                                             *)
(***************************************************************************)

\* Reader r has moved the cursor or will, and has not yet copied the text from i on.
InHand(r, i) == pc[r] # "idle" /\ req[r].from < i

\* The shared cursor never passes text that nobody got: what lies before xp is in an
\* answer, or in the answer of a request that is being served. Two connections may get
\* the same text, none is skipped, as long as calls of LOG_ORIG do not overlap.
NothingSkipped ==
    ~overlap => \A i \in 1 .. xp : i \in shown \/ \E r \in Readers : InHand(r, i)

\* While calls of LOG_ORIG do not overlap, a request for the whole log gets all that
\* was logged when the request was handled, however much is logged meanwhile.
FullLogComplete ==
    [][\A r \in Readers :
        Copy(r) /\ req[r].from = 0 /\ ~overlap => (1 .. req[r].sp) \subseteq shown']_vars

\* However the calls of LOG_ORIG race, p_sp does not run ahead of the text: nothing is
\* written behind the buffer before the text itself would not fit. (From there on
\* nothing holds: the test for a full buffer is beyond its end.)
OverrunOnlyWhenFull == overrun => issued + 1 > Size

\* Once logging pauses, everything logged is in some answer for good, provided that
\* calls of LOG_ORIG did not overlap.
LoggedIsShown ==
    <>[](\A t \in Loggers : pc[t] = "idle")
        => <>[]((1 .. p_sp) \subseteq shown \/ overlap \/ overrun)
=============================================================================
