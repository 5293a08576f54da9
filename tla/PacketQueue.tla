----------------------------- MODULE PacketQueue -----------------------------
(***************************************************************************)
(* NetFilterServiceProvider: start() opens and configures the kernel's     *)
(* packet queue 0 through libnetfilter_queue, then receives its messages   *)
(* and hands them to onPacket, which asks the judge and sends the verdict. *)
(*                                                                         *)
(* The kernel runs beside it. It holds each packet until its verdict       *)
(* comes, refuses packets when it holds QueueLimit of them, and overruns   *)
(* the socket when SockLimit messages wait. It copies packet contents into *)
(* its messages only once the mode is set; until then they are "bare". A   *)
(* message that does not fit the 1600 bytes of `buf` is "big".             *)
(***************************************************************************)
EXTENDS Naturals, Sequences, FiniteSets

CONSTANTS
    MaxPackets,  \* bound on the packets that arrive
    QueueLimit,  \* length of the kernel's queue
    SockLimit    \* messages the socket buffer holds

ASSUME LimitAssumption ==
    /\ MaxPackets \in Nat
    /\ QueueLimit \in Nat \ {0}
    /\ SockLimit \in Nat \ {0}

\* Packets are numbered in the order they arrive, as the kernel numbers them.
Ids == 1 .. MaxPackets

Kinds == {"bare", "fits", "big"}
Message == [id : Ids, kind : Kinds]
Ack == [id |-> 0, kind |-> "ack"]
NoMessage == [id |-> 0, kind |-> "none"]

VARIABLES
    pc,        \* what the filtering thread does next
    bound,     \* kernel: queue 0 is bound to our socket
    mode,      \* kernel: "none" or "packet", the copy mode of the queue
    kstate,    \* kernel: kstate[i] is what became of packet i
    sock,      \* the messages waiting in the socket
    overrun,   \* the next recv fails with ENOBUFS
    buf,       \* NetFilterServiceProvider::buf
    length,    \* NetFilterServiceProvider::length: "ok" or "error" (-1)
    called,    \* history: the packets onPacket was called for
    decision   \* history: decision[i], what the judge said of packet i, in order

vars == <<pc, bound, mode, kstate, sock, overrun, buf, length, called, decision>>
kernelVars == <<bound, mode, kstate>>
sockVars == <<sock, overrun>>
bufVars == <<buf, length>>
history == <<called, decision>>

StartPcs == {"open", "unbind", "bind", "create", "createAck", "createWait",
             "mode", "modeAck", "modeWait"}
LoopPcs == {"recv", "dispatch"}

TypeOK ==
    /\ pc \in StartPcs \cup LoopPcs \cup {"failed"}
    /\ bound \in BOOLEAN
    /\ mode \in {"none", "packet"}
    /\ kstate \in [Ids -> {"none", "queued", "accepted", "dropped", "refused"}]
    /\ sock \in Seq(Message \cup {Ack})
    /\ overrun \in BOOLEAN
    /\ buf \in Message \cup {Ack, NoMessage}
    /\ length \in {"ok", "error"}
    /\ called \in SUBSET Ids
    /\ decision \in [Ids -> Seq(BOOLEAN)]

Init ==
    /\ pc = "open"
    /\ bound = FALSE
    /\ mode = "none"
    /\ kstate = [i \in Ids |-> "none"]
    /\ sock = <<>>
    /\ overrun = FALSE
    /\ buf = NoMessage
    /\ length = "ok"
    /\ called = {}
    /\ decision = [i \in Ids |-> <<>>]

-----------------------------------------------------------------------------
(***************************************************************************)
(* The kernel.                                                             *)
(***************************************************************************)

Queued == {i \in Ids : kstate[i] = "queued"}

\* An iptables rule sends the next packet to queue 0. Without a listener, with a
\* full queue or with a full socket the kernel drops it.
Arrive(i, k) ==
    /\ kstate[i] = "none" /\ (i > 1 => kstate[i - 1] # "none")
    /\ LET refused == ~bound \/ Cardinality(Queued) >= QueueLimit
           full == ~refused /\ Len(sock) >= SockLimit
           kind == IF mode = "none" THEN "bare" ELSE k
       IN  /\ overrun' = (overrun \/ full)
           /\ IF refused \/ full
              THEN /\ kstate' = [kstate EXCEPT ![i] = "refused"]
                   /\ UNCHANGED sock
              ELSE /\ kstate' = [kstate EXCEPT ![i] = "queued"]
                   /\ sock' = Append(sock, [id |-> i, kind |-> kind])
    /\ UNCHANGED <<pc, bound, mode, bufVars, history>>

-----------------------------------------------------------------------------
(***************************************************************************)
(* start(), up to the loop.                                                *)
(***************************************************************************)

\* nfq_open, nfq_unbind_pf and nfq_bind_pf succeed ...
OpenStep ==
    /\ pc \in {"open", "unbind", "bind"}
    /\ pc' = CASE pc = "open" -> "unbind"
              [] pc = "unbind" -> "bind"
              [] pc = "bind" -> "create"
    /\ UNCHANGED <<kernelVars, sockVars, bufVars, history>>

\* ... or one of them, or a request to the kernel, fails and start() returns.
\* Nothing is undone.
StartFails ==
    /\ pc \in {"open", "unbind", "bind", "create", "mode"}
    /\ pc' = "failed"
    /\ UNCHANGED <<kernelVars, sockVars, bufVars, history>>

\* nfq_create_queue: the kernel binds the queue ...
CreateQueue ==
    /\ pc = "create"
    /\ bound' = TRUE
    /\ pc' = "createAck"
    /\ UNCHANGED <<mode, kstate, sockVars, bufVars, history>>

\* nfq_set_mode: the kernel sets the copy mode ...
SetMode ==
    /\ pc = "mode"
    /\ mode' = "packet"
    /\ pc' = "modeAck"
    /\ UNCHANGED <<bound, kstate, sockVars, bufVars, history>>

\* ... and acknowledges either request, if the socket has room; packets may come
\* in between.
KernelAcks ==
    /\ pc \in {"createAck", "modeAck"}
    /\ IF Len(sock) < SockLimit
       THEN sock' = Append(sock, Ack) /\ UNCHANGED overrun
       ELSE overrun' = TRUE /\ UNCHANGED sock
    /\ pc' = IF pc = "createAck" THEN "createWait" ELSE "modeWait"
    /\ UNCHANGED <<kernelVars, bufVars, history>>

\* nfnl_catch fails: recv reports the overrun and start() returns.
WaitOverrun ==
    /\ pc \in {"createWait", "modeWait"}
    /\ overrun
    /\ overrun' = FALSE
    /\ pc' = "failed"
    /\ UNCHANGED <<kernelVars, sock, bufVars, history>>

\* nfnl_catch in nfq_create_queue: a packet that comes before the acknowledgement
\* finds no queue handle yet (add_qh comes after), so nfq_create_queue gives up,
\* and start() with it.
CreateWait ==
    /\ pc = "createWait"
    /\ ~overrun /\ sock # <<>>
    /\ sock' = Tail(sock)
    /\ pc' = IF Head(sock) = Ack THEN "mode" ELSE "failed"
    /\ UNCHANGED <<kernelVars, overrun, bufVars, history>>

-----------------------------------------------------------------------------
(***************************************************************************)
(* onPacket and the loop of start().                                       *)
(***************************************************************************)

\* Mutated form of OnPacket: accept and drop exchanged.
OnPacketInverted(m, d) ==
    /\ called' = called \cup {m.id}
    /\ decision' = IF m.kind = "bare" THEN decision
                   ELSE [decision EXCEPT ![m.id] = Append(@, d)]
    /\ kstate' = IF m.kind = "bare" \/ kstate[m.id] # "queued" THEN kstate
                 ELSE [kstate EXCEPT ![m.id] = IF d THEN "dropped" ELSE "accepted"]

\* Mutated form of OnPacket: a packet that is to be dropped gets no verdict.
OnPacketDropSilently(m, d) ==
    /\ called' = called \cup {m.id}
    /\ decision' = IF m.kind = "bare" THEN decision
                   ELSE [decision EXCEPT ![m.id] = Append(@, d)]
    /\ kstate' = IF m.kind = "bare" \/ kstate[m.id] # "queued" \/ ~d THEN kstate
                 ELSE [kstate EXCEPT ![m.id] = "accepted"]

\* Mutated form of OnPacket: the verdict is for the next packet's number.
OnPacketOffByOne(m, d) ==
    /\ called' = called \cup {m.id + 1}
    /\ decision' = [decision EXCEPT ![m.id + 1] = Append(@, d)]
    /\ kstate' = [kstate EXCEPT ![m.id + 1] = IF d THEN "accepted" ELSE "dropped"]

\* onPacket for message m, when the judge says d: no verdict without contents. The
\* kernel ignores a verdict on a packet it no longer holds.
OnPacket(m, d) ==
    /\ called' = called \cup {m.id}
    /\ decision' = IF m.kind = "bare" THEN decision
                   ELSE [decision EXCEPT ![m.id] = Append(@, d)]
    /\ kstate' = IF m.kind = "bare" \/ kstate[m.id] # "queued" THEN kstate
                 ELSE [kstate EXCEPT ![m.id] = IF d THEN "accepted" ELSE "dropped"]

\* nfnl_catch in nfq_set_mode hands packets to onPacket until the acknowledgement.
ModeWaitPacket(d) ==
    /\ pc = "modeWait"
    /\ ~overrun /\ sock # <<>> /\ Head(sock) # Ack
    /\ sock' = Tail(sock)
    /\ OnPacket(Head(sock), d)
    /\ UNCHANGED <<pc, bound, mode, overrun, bufVars>>

\* It also stops at a message larger than its own buffer of 8192 bytes.
ModeWaitEnds ==
    /\ pc = "modeWait"
    /\ ~overrun /\ sock # <<>>
    /\ Head(sock) = Ack \/ Head(sock).kind = "big"
    /\ sock' = Tail(sock)
    /\ pc' = "recv"
    /\ UNCHANGED <<kernelVars, overrun, bufVars, history>>

\* Mutated form of Recv: the newest message is taken first.
RecvNewest ==
    /\ pc = "recv"
    /\ ~overrun /\ sock # <<>>
    /\ buf' = sock[Len(sock)]
    /\ sock' = SubSeq(sock, 1, Len(sock) - 1)
    /\ length' = "ok"
    /\ pc' = "dispatch"
    /\ UNCHANGED <<kernelVars, overrun, history>>

\* length = recv(m_fd, buf, 1600, 0)
Recv ==
    /\ pc = "recv"
    /\ ~overrun /\ sock # <<>>
    /\ buf' = Head(sock)
    /\ sock' = Tail(sock)
    /\ length' = "ok"
    /\ pc' = "dispatch"
    /\ UNCHANGED <<kernelVars, overrun, history>>

\* recv fails; buf keeps the message before.
RecvFails ==
    /\ pc = "recv"
    /\ overrun
    /\ overrun' = FALSE
    /\ length' = "error"
    /\ pc' = "dispatch"
    /\ UNCHANGED <<kernelVars, sock, buf, history>>

\* nfnl_handle_packet compares lengths as unsigned numbers, so -1 is longer than any
\* message: after a failed recv the message in buf is handled once more. (It then
\* goes on reading behind that message; what lies there is taken to be no header, as
\* is the content of buf before the first message.)
Dispatchable == buf.kind \in {"bare", "fits"} \/ (buf.kind = "big" /\ length = "error")

DispatchPacket(d) ==
    /\ pc = "dispatch"
    /\ Dispatchable
    /\ OnPacket(buf, d)
    /\ pc' = "recv"
    /\ UNCHANGED <<bound, mode, sockVars, bufVars>>

\* A truncated message, a late acknowledgement and an empty buffer are ignored.
DispatchNothing ==
    /\ pc = "dispatch"
    /\ ~Dispatchable
    /\ pc' = "recv"
    /\ UNCHANGED <<kernelVars, sockVars, bufVars, history>>

-----------------------------------------------------------------------------

Start == OpenStep \/ CreateQueue \/ SetMode \/ KernelAcks \/ WaitOverrun \/ CreateWait

Loop ==
    \/ \E d \in BOOLEAN : ModeWaitPacket(d)
    \/ ModeWaitEnds
    \/ Recv \/ RecvFails
    \/ \E d \in BOOLEAN : DispatchPacket(d)
    \/ DispatchNothing

Next ==
    \/ \E i \in Ids, k \in {"fits", "big"} : Arrive(i, k)
    \/ Start \/ StartFails
    \/ Loop

\* The main thread keeps running; packets need not come.
Spec == Init /\ [][Next]_vars /\ WF_vars(Start \/ Loop)

-----------------------------------------------------------------------------
(***************************************************************************)
(* Properties.                                                             *)
(***************************************************************************)

\* The message of packet i still waits in the socket or in buf.
InFlight(i) ==
    \/ \E n \in 1 .. Len(sock) : sock[n].id = i
    \/ pc = "dispatch" /\ buf.id = i

\* The packets whose message waits, has contents and fits `buf`.
FitsWaiting ==
    {i \in Ids : \/ \E n \in 1 .. Len(sock) : sock[n] = [id |-> i, kind |-> "fits"]
                 \/ pc = "dispatch" /\ buf = [id |-> i, kind |-> "fits"]}

\* A packet whose message fits and has contents gets its verdict, unless start()
\* fails: recv errors, truncated messages and bare ones before it do not hold it up.
FittingGetsVerdict ==
    \A i \in Ids :
        (i \in FitsWaiting) ~> (kstate[i] \in {"accepted", "dropped"} \/ pc = "failed")

\* The verdict the kernel carries out is what the judge said when it first saw the
\* packet, although a failed recv makes the judge see a packet again.
VerdictIsFirstDecision ==
    \A i \in Ids :
        /\ kstate[i] = "accepted" => decision[i] # <<>> /\ decision[i][1]
        /\ kstate[i] = "dropped" => decision[i] # <<>> /\ ~decision[i][1]

\* Packets get their verdicts in the order they came: no packet that fits is overtaken.
VerdictsInOrder ==
    \A i, j \in Ids :
        i < j /\ i \in FitsWaiting => kstate[j] \notin {"accepted", "dropped"}

\* The kernel's queue never holds more than QueueLimit packets, and a packet in it
\* that is not in flight was seen without contents, or its message was too big.
QueueAccounted ==
    /\ Cardinality(Queued) <= QueueLimit
    /\ \A i \in Queued :
           ~InFlight(i) => decision[i] = <<>>

\* NetFilterServiceProvider.h says of onPacket: "when a packet is passed in, this
\* function is called".
OnPacketIsCalled ==
    pc \in LoopPcs => \A i \in Queued : InFlight(i) \/ i \in called
=============================================================================
