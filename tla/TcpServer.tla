------------------------------ MODULE TcpServer ------------------------------
(***************************************************************************)
(* TcpSocket::startListening: the listening thread accepts connections and *)
(* gives each a thread of its own, kept in the map m_threads under the     *)
(* connection's descriptor; that thread serves requests until the client   *)
(* goes, closes the descriptor and detaches itself through the map.        *)
(*                                                                         *)
(* The kernel hands out the lowest free descriptor, so a descriptor (and   *)
(* its entry of m_threads) is used again as soon as it is closed.          *)
(***************************************************************************)
EXTENDS Integers, FiniteSets, FiniteSetsExt

CONSTANTS
    MaxFds,    \* the descriptors the process may open for connections
    MaxConns   \* bound on the connections clients make

ASSUME BoundAssumption == MaxFds \in Nat \ {0} /\ MaxConns \in Nat

Fds == 1 .. MaxFds
Conns == 1 .. MaxConns

VARIABLES
    proc,      \* "running" or "terminated"
    apc,       \* the listening thread: "accept", "make", "returned"
    newFd,     \* its local _newFd
    newConn,   \* the connection it has accepted
    spawned,   \* has it constructed the std::thread
    ins,       \* has it found m_threads[_newFd]: "no", "busy" (inserting), "yes"
    keys,      \* the keys of m_threads
    entry,     \* entry[f]: the connection m_threads[f] can join or detach, or 0
    open,      \* the descriptors that are open
    wpc,       \* wpc[k]: what the thread of connection k does next
    wfd,       \* wfd[k]: its descriptor
    stored     \* history: the connections whose thread was moved into m_threads

vars == <<proc, apc, newFd, newConn, spawned, ins, keys, entry, open, wpc, wfd, stored>>
acceptor == <<apc, newFd, newConn, spawned, ins>>
threadMap == <<keys, entry, stored>>

InService == {"hello", "recv", "handle", "send", "lost", "close"}

TypeOK ==
    /\ proc \in {"running", "terminated"}
    /\ apc \in {"accept", "make", "returned"}
    /\ newFd \in Fds \cup {0}
    /\ newConn \in Conns \cup {0}
    /\ spawned \in BOOLEAN
    /\ ins \in {"no", "busy", "yes"}
    /\ keys \in SUBSET Fds
    /\ entry \in [Fds -> Conns \cup {0}]
    /\ open \in SUBSET Fds
    /\ wpc \in [Conns -> InService \cup {"none", "detach", "done", "leaked"}]
    /\ wfd \in [Conns -> Fds \cup {0}]
    /\ stored \in SUBSET Conns

\* socket, bind and listen have succeeded.
Init ==
    /\ proc = "running"
    /\ apc = "accept"
    /\ newFd = 0 /\ newConn = 0
    /\ spawned = FALSE /\ ins = "no"
    /\ keys = {}
    /\ entry = [f \in Fds |-> 0]
    /\ open = {}
    /\ wpc = [k \in Conns |-> "none"]
    /\ wfd = [k \in Conns |-> 0]
    /\ stored = {}

-----------------------------------------------------------------------------
(***************************************************************************)
(* The listening thread.                                                   *)
(***************************************************************************)

\* accept returns a new connection.
Accept(k) ==
    /\ proc = "running" /\ apc = "accept"
    /\ wpc[k] = "none" /\ (k > 1 => wpc[k - 1] # "none")
    /\ Fds \ open # {}
    /\ newFd' = Min(Fds \ open)
    /\ open' = open \cup {newFd'}
    /\ newConn' = k
    /\ spawned' = FALSE /\ ins' = "no"
    /\ apc' = "make"
    /\ UNCHANGED <<proc, threadMap, wpc, wfd>>

\* Mutated form of AcceptFails: the -1 accept returns is not looked at.
AcceptFailsUnseen ==
    /\ proc = "running" /\ apc = "accept"
    /\ newFd' = -1
    /\ spawned' = FALSE /\ ins' = "no"
    /\ apc' = "make"
    /\ UNCHANGED <<proc, newConn, threadMap, open, wpc, wfd>>

\* accept fails (no descriptor left, connection aborted, ...): startListening returns
\* and listenOnSocket destroys the handler on its stack.
AcceptFails ==
    /\ proc = "running" /\ apc = "accept"
    /\ apc' = "returned"
    /\ UNCHANGED <<proc, newFd, newConn, spawned, ins, threadMap, open, wpc, wfd>>

\* m_threads[_newFd] = std::thread(...): the thread and the reference to the entry
\* are made in either order. The thread runs at once.
Spawn ==
    /\ proc = "running" /\ apc = "make" /\ ~spawned
    /\ spawned' = TRUE
    /\ wpc' = [wpc EXCEPT ![newConn] = "hello"]
    /\ wfd' = [wfd EXCEPT ![newConn] = newFd]
    /\ UNCHANGED <<proc, apc, newFd, newConn, ins, threadMap, open>>

\* m_threads[_newFd] finds the key, or begins to insert it ...
FindEntry ==
    /\ proc = "running" /\ apc = "make" /\ ins = "no"
    /\ ins' = IF newFd \in keys THEN "yes" ELSE "busy"
    /\ UNCHANGED <<proc, apc, newFd, newConn, spawned, threadMap, open, wpc, wfd>>

\* ... and has inserted it.
InsertEntry ==
    /\ proc = "running" /\ apc = "make" /\ ins = "busy"
    /\ ins' = "yes"
    /\ keys' = keys \cup {newFd}
    /\ UNCHANGED <<proc, apc, newFd, newConn, spawned, entry, stored, open, wpc, wfd>>

\* Mutated form of StoreThread: the thread is stored over one that can be joined.
StoreThreadOver ==
    /\ proc = "running" /\ apc = "make" /\ spawned /\ ins = "yes"
    /\ entry' = [entry EXCEPT ![newFd] = newConn]
    /\ stored' = stored \cup {newConn}
    /\ apc' = "accept"
    /\ UNCHANGED <<proc, newFd, newConn, spawned, ins, keys, open, wpc, wfd>>

\* The assignment: moving a thread over one that can be joined terminates.
StoreThread ==
    /\ proc = "running" /\ apc = "make" /\ spawned /\ ins = "yes"
    /\ IF entry[newFd] # 0
       THEN /\ proc' = "terminated"
            /\ UNCHANGED <<apc, entry, stored>>
       ELSE /\ entry' = [entry EXCEPT ![newFd] = newConn]
            /\ stored' = stored \cup {newConn}
            /\ apc' = "accept"
            /\ UNCHANGED proc
    /\ UNCHANGED <<newFd, newConn, spawned, ins, keys, open, wpc, wfd>>

-----------------------------------------------------------------------------
(***************************************************************************)
(* The thread of connection k.                                             *)
(***************************************************************************)

WorkerGoto(k, label) ==
    /\ wpc' = [wpc EXCEPT ![k] = label]
    /\ UNCHANGED <<proc, acceptor, threadMap, open, wfd>>

\* A call of m_pHandler's methods: if startListening has returned, the handler is
\* gone and the process may die.
CallHandler(k, from, to) ==
    /\ proc = "running" /\ wpc[k] = from
    /\ \/ WorkerGoto(k, to)
       \/ /\ apc = "returned"
          /\ proc' = "terminated"
          /\ UNCHANGED <<acceptor, threadMap, open, wpc, wfd>>

OnNewConnection(k) == CallHandler(k, "hello", "recv")
Handle(k) == CallHandler(k, "handle", "send")
OnLostConnection(k) == CallHandler(k, "lost", "close")

\* recv returns a request, or the end of the stream or an error.
RecvRequest(k) ==
    /\ proc = "running" /\ wpc[k] = "recv"
    /\ WorkerGoto(k, "handle")
RecvEnds(k) ==
    /\ proc = "running" /\ wpc[k] = "recv"
    /\ WorkerGoto(k, "lost")

SendOk(k) ==
    /\ proc = "running" /\ wpc[k] = "send"
    /\ WorkerGoto(k, "recv")

\* Mutated form of SendFails: the descriptor is closed, the loop goes on.
SendFailsCloses(k) ==
    /\ proc = "running" /\ wpc[k] = "send"
    /\ open' = open \ {wfd[k]}
    /\ wpc' = [wpc EXCEPT ![k] = "recv"]
    /\ UNCHANGED <<proc, acceptor, threadMap, wfd>>

\* send fails: the thread returns at once, without closing or detaching.
SendFails(k) ==
    /\ proc = "running" /\ wpc[k] = "send"
    /\ WorkerGoto(k, "leaked")

\* Mutated form of Close: the descriptor is not closed.
CloseForgotten(k) ==
    /\ proc = "running" /\ wpc[k] = "close"
    /\ WorkerGoto(k, "detach")

\* close(fd)
Close(k) ==
    /\ proc = "running" /\ wpc[k] = "close"
    /\ open' = open \ {wfd[k]}
    /\ wpc' = [wpc EXCEPT ![k] = "detach"]
    /\ UNCHANGED <<proc, acceptor, threadMap, wfd>>

\* Mutated form of Detach: the thread joins itself.
DetachJoins(k) ==
    /\ proc = "running" /\ wpc[k] = "detach"
    /\ entry[wfd[k]] \notin {0, k}
    /\ entry' = [entry EXCEPT ![wfd[k]] = 0]
    /\ wpc' = [wpc EXCEPT ![k] = "done"]
    /\ UNCHANGED <<proc, acceptor, keys, stored, open, wfd>>

\* m_threads[fd].detach(): detaching a thread that is not joinable throws, and
\* nobody catches. Reading the map while the listening thread inserts into it is a
\* data race that may miss the entry.
Detach(k) ==
    /\ proc = "running" /\ wpc[k] = "detach"
    /\ \/ /\ entry[wfd[k]] # 0
          /\ entry' = [entry EXCEPT ![wfd[k]] = 0]
          /\ wpc' = [wpc EXCEPT ![k] = "done"]
          /\ UNCHANGED proc
       \/ /\ entry[wfd[k]] = 0 \/ ins = "busy"
          /\ proc' = "terminated"
          /\ UNCHANGED <<entry, wpc>>
    /\ UNCHANGED <<acceptor, keys, stored, open, wfd>>

-----------------------------------------------------------------------------

Listen == Spawn \/ FindEntry \/ InsertEntry \/ StoreThread

\* What the thread of k does without waiting for its client.
Work(k) ==
    \/ OnNewConnection(k) \/ Handle(k) \/ OnLostConnection(k)
    \/ SendOk(k) \/ SendFails(k)
    \/ Close(k) \/ Detach(k)

Next ==
    \/ \E k \in Conns : Accept(k)
    \/ AcceptFails
    \/ Listen
    \/ \E k \in Conns : RecvRequest(k) \/ RecvEnds(k) \/ Work(k)

\* Every thread that can run does; clients need not connect, ask or go.
Spec ==
    /\ Init /\ [][Next]_vars
    /\ WF_vars(Listen)
    /\ \A k \in Conns : WF_vars(Work(k))

-----------------------------------------------------------------------------
(***************************************************************************)
(* Properties.                                                             *)
(***************************************************************************)

\* The connections whose descriptor is theirs: in service, or left behind by a
\* failed send.
Holding == {k \in Conns : wpc[k] \in InService \cup {"leaked"}}

\* No two threads ever serve the same descriptor, although descriptors are used
\* again before the thread before has ended.
OneThreadPerDescriptor == \A j, k \in Holding : j # k => wfd[j] # wfd[k]

\* The open descriptors are those of connections in service, of the one just
\* accepted, and those leaked by the early return after a failed send: no other
\* path leaks one or closes one twice.
DescriptorsAccounted ==
    open = {wfd[k] : k \in Holding}
           \cup (IF apc = "make" /\ ~spawned THEN {newFd} ELSE {})

\* While the process lives, the entries of m_threads balance: of the threads stored
\* under a descriptor all but (at most) one have been detached, by their own thread
\* or by the next one on the same descriptor, so no handle is lost or freed twice.
HandlesBalanced ==
    proc = "running" =>
        \A f \in Fds :
            /\ entry[f] # 0 => wfd[entry[f]] = f
            /\ Cardinality({k \in stored : wfd[k] = f}) =
                   Cardinality({k \in Conns : wfd[k] = f /\ wpc[k] = "done"})
                   + (IF entry[f] = 0 THEN 0 ELSE 1)

\* When a client goes, its thread ends and its descriptor is free again.
ConnectionReleased ==
    \A k \in Conns : (wpc[k] = "lost") ~> (wpc[k] = "done" \/ proc = "terminated")

\* TcpSocket.h says of startListening: "start to listen and handle new connections,
\* blocking". As long as accept succeeds, clients that come and go must not end the
\* process, however their threads' ends fall between the steps of the listening one.
ProcessSurvives == apc # "returned" => proc = "running"
=============================================================================
