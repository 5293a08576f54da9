----------------------------- MODULE RuleManager -----------------------------
(***************************************************************************)
(* The core of the firewall: class RuleManager with its inner Judge, the   *)
(* thread that judges packets (main, inside NetFilterServiceProvider) and  *)
(* the connection threads of the control socket that run CHandler::handle. *)
(*                                                                         *)
(* They share m_rules (a pointer to a heap-allocated RuleCollection), the  *)
(* switch `enabled` and m_mutexRules. The judge and the updates take the   *)
(* mutex around their use of *m_rules; the query of the rules does not.    *)
(***************************************************************************)
CONSTANTS
    Conns,       \* the connection threads
    Filter,      \* the main thread, which becomes the filtering thread
    Nobody,      \* holder of a mutex that is not held
    Objects,     \* the addresses `new RuleCollection` can return
    NULL,        \* the null pointer
    RuleSets,    \* what a RuleCollection can contain
    EmptyRules,  \* the contents of a freshly constructed one
    Packets,
    Accepts,     \* Accepts[R]: the packets for which RuleCollection::check is true
                 \* (a packet stands for its fields and the hour it is checked in)
    Absent,      \* request field that is missing or of the wrong JSON type
    BadElement   \* "data" is an array with an element that is no JSON object

Threads == Conns \cup {Filter}

ASSUME ThreadAssumption ==
    /\ Filter \notin Conns
    /\ Nobody \notin Threads

ASSUME DataAssumption ==
    /\ NULL \notin Objects
    /\ EmptyRules \in RuleSets
    /\ NULL \notin RuleSets
    /\ Absent \notin RuleSets
    /\ BadElement \notin RuleSets
    /\ Absent # BadElement
    /\ RuleSets \cap {"none", "bad_body", "unknown_opt", "log", "enabled",
                      "disabled", "ok", "garbage"} = {}
    /\ Packets # {}
    /\ Accepts \in [RuleSets -> SUBSET Packets]

VARIABLES
    proc,       \* the process: "booting", "running", "exited", "terminated"
    m_rules,    \* RuleManager::m_rules
    enabled,    \* RuleManager::enabled
    mutex,      \* holder of m_mutexRules
    heap,       \* the addresses that hold a live RuleCollection
    content,    \* content[o]: the rules in the collection at o
    pc,         \* pc[t]: what thread t does next
    ptr,        \* ptr[t]: the collection thread t works on
    req,        \* req[c]: the request connection c is handling
    rsp,        \* rsp[c]: the answer it is about to send
    dangling,   \* connections whose ptr was deleted while they use it
    pkt,        \* the packet being judged
    ret         \* Judge::judge's local `ret`

vars == <<proc, m_rules, enabled, mutex, heap, content, pc, ptr, req, rsp,
          dangling, pkt, ret>>

\* Groups of variables that actions leave alone together.
ruleVars == <<m_rules, heap, content, dangling>>
connVars == <<req, rsp>>
jobVars == <<pkt, ret>>

Flags == {"absent", "on", "off"}
Opts == {"malformed", "scalar", "query", "status", "log", "unknown", "update"}

\* A request as CHandler::handle tells requests apart: unparsable, a JSON value
\* that is no object, or an object with one of the options; an update may carry
\* rules and a new value of the switch.
Requests ==
    {q \in [opt : Opts, data : RuleSets \cup {Absent, BadElement}, flag : Flags] :
        q.opt # "update" => q.data = Absent /\ q.flag = "absent"}

NoReq == [opt |-> "none", data |-> Absent, flag |-> "absent"]
Answers == {"bad_body", "unknown_opt", "log", "enabled", "disabled", "ok"}

\* What reading a freed collection can yield that no collection ever held.
Garbage == "garbage"

FilterPcs == {"load", "init", "start", "recv", "judge", "lock", "check",
              "checking", "unlock", "verdict", "join"}
ConnPcs == {"recv", "handle", "toJson", "lock", "delete", "assign", "unlock",
            "setEnabled", "send"}

TypeOK ==
    /\ proc \in {"booting", "running", "exited", "terminated"}
    /\ m_rules \in Objects \cup {NULL}
    /\ enabled \in BOOLEAN
    /\ mutex \in Threads \cup {Nobody}
    /\ heap \in SUBSET Objects
    /\ content \in [Objects -> RuleSets]
    /\ pc \in [Threads -> FilterPcs \cup ConnPcs]
    /\ pc[Filter] \in FilterPcs
    /\ \A c \in Conns : pc[c] \in ConnPcs
    /\ ptr \in [Threads -> Objects \cup {NULL}]
    /\ req \in [Conns -> Requests \cup {NoReq}]
    /\ rsp \in [Conns -> RuleSets \cup Answers \cup {"none", Garbage}]
    /\ dangling \in SUBSET Conns
    /\ pkt \in Packets
    /\ ret \in BOOLEAN

\* static construction of the singletons, then main() up to the rules file.
Init ==
    /\ proc = "booting"
    /\ m_rules = NULL
    /\ enabled = FALSE
    /\ mutex = Nobody
    /\ heap = {}
    /\ content = [o \in Objects |-> EmptyRules]
    /\ pc = [t \in Threads |-> IF t = Filter THEN "load" ELSE "recv"]
    /\ ptr = [t \in Threads |-> NULL]
    /\ req = [c \in Conns |-> NoReq]
    /\ rsp = [c \in Conns |-> "none"]
    /\ dangling = {}
    /\ pkt \in Packets
    /\ ret = TRUE

Goto(t, label) == pc' = [pc EXCEPT ![t] = label]

-----------------------------------------------------------------------------
(***************************************************************************)
(* main(): the rules file, RuleManager::init and the start of the threads. *)
(* Only the main thread runs, so each call is one step.                    *)
(***************************************************************************)

\* The rules file holds an array of objects: loadConfigFromJson installs it.
LoadRulesFile(R, o) ==
    /\ proc = "booting" /\ pc[Filter] = "load"
    /\ o \notin heap
    /\ heap' = heap \cup {o}
    /\ content' = [content EXCEPT ![o] = R]
    /\ m_rules' = o
    /\ Goto(Filter, "init")
    /\ UNCHANGED <<proc, enabled, mutex, ptr, connVars, dangling, jobVars>>

\* The rules file cannot be opened: it is ignored.
NoRulesFile ==
    /\ proc = "booting" /\ pc[Filter] = "load"
    /\ Goto(Filter, "init")
    /\ UNCHANGED <<proc, ruleVars, enabled, mutex, ptr, connVars, jobVars>>

\* The rules file is no JSON (main returns 1), or it is JSON but no array of
\* objects (picojson throws, nobody catches).
UnusableRulesFile ==
    /\ proc = "booting" /\ pc[Filter] = "load"
    /\ proc' \in {"exited", "terminated"}
    /\ UNCHANGED <<ruleVars, enabled, mutex, pc, ptr, connVars, jobVars>>

\* RuleManager::init allocates an empty collection if none was loaded.
InitManager(o) ==
    /\ proc = "booting" /\ pc[Filter] = "init"
    /\ IF m_rules = NULL
       THEN /\ o \notin heap
            /\ heap' = heap \cup {o}
            /\ content' = [content EXCEPT ![o] = EmptyRules]
            /\ m_rules' = o
       ELSE UNCHANGED <<heap, content, m_rules>>
    /\ enabled' = TRUE
    /\ proc' = "running"
    /\ Goto(Filter, "start")
    /\ UNCHANGED <<mutex, ptr, connVars, dangling, jobVars>>

\* NetFilterServiceProvider::start opens and binds the queue...
StartFilter ==
    /\ proc = "running" /\ pc[Filter] = "start"
    /\ Goto(Filter, "recv")
    /\ UNCHANGED <<proc, ruleVars, enabled, mutex, ptr, connVars, jobVars>>

\* ... or fails to, and main waits for the listening thread for ever.
StartFilterFails ==
    /\ proc = "running" /\ pc[Filter] = "start"
    /\ Goto(Filter, "join")
    /\ UNCHANGED <<proc, ruleVars, enabled, mutex, ptr, connVars, jobVars>>

-----------------------------------------------------------------------------
(***************************************************************************)
(* The mutex, and Judge::judge in the filtering thread.                    *)
(***************************************************************************)

\* Mutated form of LockRules: the caller does not wait for the mutex.
LockRulesNoWait(t) ==
    /\ proc = "running" /\ pc[t] = "lock"
    /\ mutex' = t
    /\ Goto(t, IF t = Filter THEN "check" ELSE "delete")
    /\ UNCHANGED <<proc, ruleVars, enabled, ptr, connVars, jobVars>>

LockRules(t) ==
    /\ proc = "running" /\ pc[t] = "lock"
    /\ mutex = Nobody
    /\ mutex' = t
    /\ Goto(t, IF t = Filter THEN "check" ELSE "delete")
    /\ UNCHANGED <<proc, ruleVars, enabled, ptr, connVars, jobVars>>

\* Mutated form of UnlockRules: the mutex is not released.
UnlockRulesForgotten(t) ==
    /\ proc = "running" /\ pc[t] = "unlock"
    /\ Goto(t, IF t = Filter THEN "verdict" ELSE "setEnabled")
    /\ UNCHANGED <<proc, ruleVars, enabled, mutex, ptr, connVars, jobVars>>

UnlockRules(t) ==
    /\ proc = "running" /\ pc[t] = "unlock"
    /\ mutex' = Nobody
    /\ Goto(t, IF t = Filter THEN "verdict" ELSE "setEnabled")
    /\ UNCHANGED <<proc, ruleVars, enabled, ptr, connVars, jobVars>>

\* onPacket hands a packet to the judge.
JudgePacket(p) ==
    /\ proc = "running" /\ pc[Filter] = "recv"
    /\ pkt' = p
    /\ Goto(Filter, "judge")
    /\ UNCHANGED <<proc, ruleVars, enabled, mutex, ptr, connVars, ret>>

\* if (!isEnabled()) return true;
JudgeDisabled ==
    /\ proc = "running" /\ pc[Filter] = "judge"
    /\ ~enabled
    /\ ret' = TRUE
    /\ Goto(Filter, "verdict")
    /\ UNCHANGED <<proc, ruleVars, enabled, mutex, ptr, connVars, pkt>>

JudgeEnabled ==
    /\ proc = "running" /\ pc[Filter] = "judge"
    /\ enabled
    /\ Goto(Filter, "lock")
    /\ UNCHANGED <<proc, ruleVars, enabled, mutex, ptr, connVars, jobVars>>

\* m_rules->check(packet) begins its walk over the collection ...
BeginCheck ==
    /\ proc = "running" /\ pc[Filter] = "check"
    /\ ptr' = [ptr EXCEPT ![Filter] = m_rules]
    /\ Goto(Filter, "checking")
    /\ UNCHANGED <<proc, ruleVars, enabled, mutex, connVars, jobVars>>

\* ... and ends it. RuleCheck.tla looks inside the walk.
EndCheck ==
    /\ proc = "running" /\ pc[Filter] = "checking"
    /\ ret' = (pkt \in Accepts[content[ptr[Filter]]])
    /\ ptr' = [ptr EXCEPT ![Filter] = NULL]
    /\ Goto(Filter, "unlock")
    /\ UNCHANGED <<proc, ruleVars, enabled, mutex, connVars, pkt>>

\* judge returns, onPacket sets the verdict.
GiveVerdict ==
    /\ proc = "running" /\ pc[Filter] = "verdict"
    /\ Goto(Filter, "recv")
    /\ UNCHANGED <<proc, ruleVars, enabled, mutex, ptr, connVars, jobVars>>

-----------------------------------------------------------------------------
(***************************************************************************)
(* CHandler::handle in the thread of connection c.                         *)
(***************************************************************************)

\* recv returned a request: the connection's thread calls handle.
RecvRequest(c, q) ==
    /\ proc = "running" /\ pc[c] = "recv"
    /\ req' = [req EXCEPT ![c] = q]
    /\ Goto(c, "handle")
    /\ UNCHANGED <<proc, ruleVars, enabled, mutex, ptr, rsp, jobVars>>

\* handle returns answer a without touching the rule manager.
Answer(c, a) ==
    /\ rsp' = [rsp EXCEPT ![c] = a]
    /\ Goto(c, "send")
    /\ UNCHANGED <<proc, ruleVars, enabled, mutex, ptr, req, jobVars>>

\* The requests that need no more than one read: a body that does not parse,
\* the status, either kind of log, an option that is none of these.
HandleSimple(c) ==
    /\ proc = "running" /\ pc[c] = "handle"
    /\ \/ req[c].opt = "malformed" /\ Answer(c, "bad_body")
       \/ req[c].opt = "status" /\ Answer(c, IF enabled THEN "enabled" ELSE "disabled")
       \/ req[c].opt = "log" /\ Answer(c, "log")
       \/ req[c].opt = "unknown" /\ Answer(c, "unknown_opt")

\* getInteger32 asks a value that is no object whether it contains "opt":
\* picojson throws, nothing on the thread's stack catches.
HandleScalar(c) ==
    /\ proc = "running" /\ pc[c] = "handle"
    /\ req[c].opt = "scalar"
    /\ proc' = "terminated"
    /\ UNCHANGED <<ruleVars, enabled, mutex, pc, ptr, connVars, jobVars>>

\* getRules() copies the pointer, without the mutex; between the delete and the
\* assignment of an update that pointer is already dead.
HandleQuery(c) ==
    /\ proc = "running" /\ pc[c] = "handle"
    /\ req[c].opt = "query"
    /\ ptr' = [ptr EXCEPT ![c] = m_rules]
    /\ dangling' = IF \E d \in Conns : pc[d] = "assign"
                   THEN dangling \cup {c} ELSE dangling
    /\ Goto(c, "toJson")
    /\ UNCHANGED <<proc, m_rules, heap, content, enabled, mutex, connVars, jobVars>>

\* toJson() walks a live collection.
ToJson(c) ==
    /\ proc = "running" /\ pc[c] = "toJson"
    /\ c \notin dangling
    /\ rsp' = [rsp EXCEPT ![c] = content[ptr[c]]]
    /\ Goto(c, "send")
    /\ UNCHANGED <<proc, ruleVars, enabled, mutex, ptr, req, jobVars>>

\* toJson() walks a freed collection: undefined behaviour, so the answer is
\* anything and the process may die.
ToJsonDangling(c) ==
    /\ proc = "running" /\ pc[c] = "toJson"
    /\ c \in dangling
    /\ \/ /\ rsp' \in {[rsp EXCEPT ![c] = a] : a \in RuleSets \cup {Garbage}}
          /\ Goto(c, "send")
          /\ UNCHANGED proc
       \/ /\ proc' = "terminated"
          /\ UNCHANGED <<rsp, pc>>
    /\ UNCHANGED <<ruleVars, enabled, mutex, ptr, req, jobVars>>

-----------------------------------------------------------------------------
(***************************************************************************)
(* OPT_UPDATE_RULES: loadConfigFromJson if there is "data", then           *)
(* setEnabled if there is "enabled", then the answer.                      *)
(***************************************************************************)

\* Mutated form of LoadNew: handle does not ask whether "data" is an array.
LoadNewUnchecked(c, o) ==
    /\ proc = "running" /\ pc[c] = "handle"
    /\ req[c].opt = "update"
    /\ o \notin heap
    /\ heap' = heap \cup {o}
    /\ content' = [content EXCEPT ![o] = req[c].data]
    /\ ptr' = [ptr EXCEPT ![c] = o]
    /\ Goto(c, "lock")
    /\ UNCHANGED <<proc, m_rules, enabled, mutex, connVars, dangling, jobVars>>

\* new RuleCollection; ParseFromJson. The new collection is private to c.
LoadNew(c, o) ==
    /\ proc = "running" /\ pc[c] = "handle"
    /\ req[c].opt = "update" /\ req[c].data \in RuleSets
    /\ o \notin heap
    /\ heap' = heap \cup {o}
    /\ content' = [content EXCEPT ![o] = req[c].data]
    /\ ptr' = [ptr EXCEPT ![c] = o]
    /\ Goto(c, "lock")
    /\ UNCHANGED <<proc, m_rules, enabled, mutex, connVars, dangling, jobVars>>

\* An element of "data" is no object: ParseFromJson throws, nobody catches.
LoadThrows(c) ==
    /\ proc = "running" /\ pc[c] = "handle"
    /\ req[c].opt = "update" /\ req[c].data = BadElement
    /\ proc' = "terminated"
    /\ UNCHANGED <<ruleVars, enabled, mutex, pc, ptr, connVars, jobVars>>

\* No "data", or it is no array: the rules stay.
LoadNothing(c) ==
    /\ proc = "running" /\ pc[c] = "handle"
    /\ req[c].opt = "update" /\ req[c].data = Absent
    /\ Goto(c, "setEnabled")
    /\ UNCHANGED <<proc, ruleVars, enabled, mutex, ptr, connVars, jobVars>>

\* Mutated form of DeleteRules: the old collection is never deleted.
DeleteRulesLeak(c) ==
    /\ proc = "running" /\ pc[c] = "delete"
    /\ Goto(c, "assign")
    /\ UNCHANGED <<proc, ruleVars, enabled, mutex, ptr, connVars, jobVars>>

\* delete(m_rules): a query still walking it is left with a dangling pointer. What
\* freed memory holds is never looked at, so its content is put back to one value.
DeleteRules(c) ==
    /\ proc = "running" /\ pc[c] = "delete"
    /\ heap' = heap \ {m_rules}
    /\ content' = [content EXCEPT ![m_rules] = EmptyRules]
    /\ dangling' = dangling \cup {d \in Conns : pc[d] = "toJson" /\ ptr[d] = m_rules}
    /\ Goto(c, "assign")
    /\ UNCHANGED <<proc, m_rules, enabled, mutex, ptr, connVars, jobVars>>

\* m_rules = _rules
AssignRules(c) ==
    /\ proc = "running" /\ pc[c] = "assign"
    /\ m_rules' = ptr[c]
    /\ ptr' = [ptr EXCEPT ![c] = NULL]
    /\ Goto(c, "unlock")
    /\ UNCHANGED <<proc, heap, content, dangling, enabled, mutex, connVars, jobVars>>

\* Mutated form of SetEnabled: a missing "enabled" switches the filter off.
SetEnabledDefaultOff(c) ==
    /\ proc = "running" /\ pc[c] = "setEnabled"
    /\ enabled' = (req[c].flag = "on")
    /\ rsp' = [rsp EXCEPT ![c] = "ok"]
    /\ Goto(c, "send")
    /\ UNCHANGED <<proc, ruleVars, mutex, ptr, req, jobVars>>

\* setEnabled(v > 0) if there is a number "enabled", and the answer.
SetEnabled(c) ==
    /\ proc = "running" /\ pc[c] = "setEnabled"
    /\ enabled' = IF req[c].flag = "absent" THEN enabled ELSE req[c].flag = "on"
    /\ rsp' = [rsp EXCEPT ![c] = "ok"]
    /\ Goto(c, "send")
    /\ UNCHANGED <<proc, ruleVars, mutex, ptr, req, jobVars>>

\* The connection's thread sends the answer and waits for the next request.
SendRsp(c) ==
    /\ proc = "running" /\ pc[c] = "send"
    /\ req' = [req EXCEPT ![c] = NoReq]
    /\ rsp' = [rsp EXCEPT ![c] = "none"]
    /\ ptr' = [ptr EXCEPT ![c] = NULL]
    /\ dangling' = dangling \ {c}
    /\ Goto(c, "recv")
    /\ UNCHANGED <<proc, m_rules, heap, content, enabled, mutex, jobVars>>

-----------------------------------------------------------------------------

Boot ==
    \/ \E R \in RuleSets, o \in Objects : LoadRulesFile(R, o)
    \/ NoRulesFile
    \/ UnusableRulesFile
    \/ \E o \in Objects : InitManager(o)
    \/ StartFilter
    \/ StartFilterFails

\* What the filtering thread does once it has a packet.
FilterStep ==
    \/ LockRules(Filter) \/ UnlockRules(Filter)
    \/ JudgeDisabled \/ JudgeEnabled
    \/ BeginCheck \/ EndCheck
    \/ GiveVerdict

\* What the thread of connection c does once it has a request.
ConnStep(c) ==
    \/ HandleSimple(c) \/ HandleScalar(c)
    \/ HandleQuery(c) \/ ToJson(c) \/ ToJsonDangling(c)
    \/ \E o \in Objects : LoadNew(c, o)
    \/ LoadThrows(c) \/ LoadNothing(c)
    \/ LockRules(c) \/ DeleteRules(c) \/ AssignRules(c) \/ UnlockRules(c)
    \/ SetEnabled(c)
    \/ SendRsp(c)

Next ==
    \/ Boot
    \/ \E p \in Packets : JudgePacket(p)
    \/ FilterStep
    \/ \E c \in Conns :
        \/ \E q \in Requests : RecvRequest(c, q)
        \/ ConnStep(c)

Spec == Init /\ [][Next]_vars

\* The scheduler runs every thread that can run. Nothing more is assumed: packets
\* and requests need not come, and m_mutexRules promises no waiter its turn.
FairSpec ==
    /\ Spec
    /\ WF_vars(FilterStep)
    /\ \A c \in Conns : WF_vars(ConnStep(c))

-----------------------------------------------------------------------------
(***************************************************************************)
(* Properties.                                                             *)
(***************************************************************************)

\* The code between lockRules() and unlockRules().
Critical(t) == pc[t] \in {"check", "checking", "delete", "assign", "unlock"}

\* The connections that own a collection that is not (yet) m_rules.
Building == {c \in Conns : pc[c] \in {"lock", "delete", "assign"}}

\* While some connection is between `delete(m_rules)` and `m_rules = _rules`,
\* m_rules is a pointer to freed memory.
Replacing == \E c \in Conns : pc[c] = "assign"

\* Every RuleCollection alive is reachable: it is m_rules or is being built by
\* one update; no two updates and no update and m_rules share one. So an update
\* neither leaks the old collection nor frees one twice, whatever the interleaving
\* of loadConfigFromJson in several connections.
OwnershipExact ==
    proc = "running" =>
        /\ heap = {ptr[c] : c \in Building} \cup (IF Replacing THEN {} ELSE {m_rules})
        /\ \A c \in Building : ~Replacing => ptr[c] # m_rules
        /\ \A c, d \in Building : c # d => ptr[c] # ptr[d]

\* RuleCollection::check runs over a live collection, and over the current one
\* from its first rule to its last: the update of another thread waits.
JudgeReadsLiveRules ==
    pc[Filter] = "checking" => ptr[Filter] = m_rules /\ m_rules \in heap

\* What RuleManager shows of its state: the policy m_rules points to. The new
\* policy takes effect at `delete(m_rules)`: from there to the assignment no
\* judge can look.
Policy ==
    CASE m_rules = NULL -> NULL
      [] m_rules # NULL /\ Replacing -> content[ptr[mutex]]
      [] OTHER -> content[m_rules]

\* What is left to do of the update of c.
Todo(c) ==
    IF req[c].opt # "update" \/ req[c].data = BadElement
    THEN [data |-> Absent, flag |-> "absent", open |-> FALSE]
    ELSE [data |-> IF pc[c] \in {"handle", "lock", "delete"} THEN req[c].data ELSE Absent,
          flag |-> IF pc[c] = "send" THEN "absent" ELSE req[c].flag,
          open |-> TRUE]

Stage ==
    CASE pc[Filter] = "judge" -> "new"
      [] pc[Filter] \in {"lock", "check", "checking"} -> "engaged"
      [] pc[Filter] \in {"unlock", "verdict"} -> "decided"
      [] OTHER -> "idle"

Abstract ==
    INSTANCE PolicyService WITH
        NoRules <- NULL, policy <- Policy, on <- enabled,
        opened <- (pc[Filter] \notin {"load", "init"}),
        todo <- [c \in Conns |-> Todo(c)],
        stage <- Stage, packet <- pkt, pass <- ret

\* The rule manager implements PolicyService: every verdict is that of the one
\* policy installed at some instant of the judge's check (or of a switched-off
\* filter), and an acknowledged update was installed and switched in that order.
ImplementsPolicyService == Abstract!Spec

\* A thread that takes m_mutexRules gives it back, unless the process dies.
LockReleased == (mutex # Nobody) ~> (mutex = Nobody \/ proc # "running")

\* A thread waiting for m_mutexRules gets it once the others stop competing for
\* it; std::mutex does not promise more.
WaiterServed ==
    \A t \in Threads :
        <>[](\A u \in Threads \ {t} : pc[u] # "lock")
            => (pc[t] = "lock" ~> (pc[t] # "lock" \/ proc # "running"))

\* server.cpp calls OPT_QUERY_RULES "get the currently read configuration": its
\* toJson() must walk the collection of a current configuration, alive.
QueryReadsLiveRules ==
    \A c \in Conns : pc[c] = "toJson" => c \notin dangling
=============================================================================
