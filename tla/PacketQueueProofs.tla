-------------------------- MODULE PacketQueueProofs --------------------------
(***************************************************************************)
(* Proofs about PacketQueue for any number of packets and any lengths of   *)
(* the kernel's queue and of the socket buffer.                            *)
(***************************************************************************)
EXTENDS PacketQueue, FiniteSetTheorems, TLAPS

Judged == {i \in Ids : kstate[i] \in {"accepted", "dropped"}}

\* Packets arrive in the order of their numbers.
ArrivalInv ==
    \A i, j \in Ids : i < j /\ kstate[i] = "none" => kstate[j] = "none"

\* The judge has seen no packet before its verdict, and what it said first is the
\* verdict.
DecisionInv ==
    \A i \in Ids :
        /\ i \notin Judged => decision[i] = <<>>
        /\ kstate[i] = "accepted" => decision[i] # <<>> /\ decision[i][1] = TRUE
        /\ kstate[i] = "dropped" => decision[i] # <<>> /\ decision[i][1] = FALSE

\* The messages in the socket are those of packets without a verdict, in the order of
\* their numbers, all behind the packets that have one.
SockInv ==
    \A n \in 1 .. Len(sock) : sock[n] # Ack =>
        /\ kstate[sock[n].id] = "queued"
        /\ \A j \in Judged : j < sock[n].id
        /\ \A m \in 1 .. Len(sock) : m > n /\ sock[m] # Ack => sock[n].id < sock[m].id

\* The message in buf, also when it has been handled before, is between them.
BufInv ==
    /\ pc \notin LoopPcs => buf = NoMessage
    /\ buf \in Message =>
           /\ kstate[buf.id] \in {"queued", "accepted", "dropped"}
           /\ \A j \in Judged : j <= buf.id
           /\ \A n \in 1 .. Len(sock) : sock[n] # Ack => buf.id < sock[n].id

QueueInv == Cardinality(Queued) <= QueueLimit

\* The inductive invariant.
IndInv == TypeOK /\ ArrivalInv /\ DecisionInv /\ SockInv /\ BufInv /\ QueueInv

-----------------------------------------------------------------------------

USE DEF kernelVars, sockVars, bufVars, history

\* What Append does, element by element.
LEMMA AppendFacts ==
    ASSUME NEW S, NEW s \in Seq(S), NEW x \in S
    PROVE  /\ Append(s, x) \in Seq(S)
           /\ Len(Append(s, x)) = Len(s) + 1
           /\ \A n \in 1 .. Len(s) : Append(s, x)[n] = s[n]
           /\ Append(s, x)[Len(s) + 1] = x
  OBVIOUS

\* What Head and Tail do, element by element.
LEMMA TailFacts ==
    ASSUME NEW S, NEW s \in Seq(S), s # <<>>
    PROVE  /\ Tail(s) \in Seq(S)
           /\ Head(s) \in S
           /\ Head(s) = s[1]
           /\ Len(s) \in Nat \ {0}
           /\ Len(Tail(s)) = Len(s) - 1
           /\ \A n \in 1 .. Len(Tail(s)) : n + 1 \in 1 .. Len(s) /\ Tail(s)[n] = s[n + 1]
  OBVIOUS

\* Acknowledgements and the empty buffer are no packet messages.
LEMMA Kind ==
    /\ \A m \in Message \cup {Ack} : m # Ack => m \in Message
    /\ \A m \in Message : m # Ack /\ m # NoMessage /\ m.id \in Ids
    /\ \A m \in Message \cup {Ack, NoMessage} : m.kind \in {"bare", "fits", "big"} => m \in Message
    /\ Ack \notin Message /\ NoMessage \notin Message
  BY DEF Message, Kinds, Ack, NoMessage

\* onPacket is called only with messages of packets.
LEMMA Dispatched == TypeOK /\ Dispatchable => buf \in Message
  BY Kind DEF TypeOK, Dispatchable

\* The state before start() satisfies the invariant.
LEMMA InitInd == Init => IndInv
<1> SUFFICES ASSUME Init PROVE IndInv
  OBVIOUS
<1> USE LimitAssumption DEF Init
<1>1. TypeOK
  <2>1. <<>> \in Seq(Message \cup {Ack}) /\ <<>> \in Seq(BOOLEAN)
    OBVIOUS
  <2> QED
    BY <2>1 DEF TypeOK, StartPcs, LoopPcs
<1>2. ArrivalInv /\ DecisionInv /\ SockInv /\ BufInv
  BY Kind DEF ArrivalInv, DecisionInv, SockInv, BufInv, Judged, LoopPcs
<1>3. Queued = {}
  BY DEF Queued
<1>4. QueueInv
  BY <1>3, FS_EmptySet DEF QueueInv
<1> QED
  BY <1>1, <1>2, <1>4 DEF IndInv

\* Every step keeps the variables in their types.
LEMMA TypeStep == IndInv /\ [Next]_vars => TypeOK'
<1> SUFFICES ASSUME IndInv, [Next]_vars PROVE TypeOK'
  OBVIOUS
<1> USE LimitAssumption DEF IndInv, TypeOK, StartPcs, LoopPcs
<1>1. ASSUME NEW i \in Ids, NEW k \in {"fits", "big"}, Arrive(i, k) PROVE TypeOK'
  <2>1. [id |-> i, kind |-> IF mode = "none" THEN "bare" ELSE k] \in Message
    BY DEF Message, Kinds
  <2>2. Append(sock, [id |-> i, kind |-> IF mode = "none" THEN "bare" ELSE k])
           \in Seq(Message \cup {Ack})
    BY <2>1, AppendFacts
  <2>3. sock' \in Seq(Message \cup {Ack})
    BY <1>1, <2>2 DEF Arrive
  <2>4. kstate' \in [Ids -> {"none", "queued", "accepted", "dropped", "refused"}]
    BY <1>1 DEF Arrive
  <2>5. overrun' \in BOOLEAN
    BY <1>1 DEF Arrive
  <2>6. UNCHANGED <<pc, bound, mode, buf, length, called, decision>>
    BY <1>1 DEF Arrive
  <2> QED
    BY <2>3, <2>4, <2>5, <2>6
<1>2. CASE OpenStep
  BY <1>2 DEF OpenStep
<1>3. CASE StartFails
  BY <1>3 DEF StartFails
<1>4. CASE CreateQueue
  BY <1>4 DEF CreateQueue
<1>5. CASE SetMode
  BY <1>5 DEF SetMode
<1>6. CASE KernelAcks
  <2>1. Append(sock, Ack) \in Seq(Message \cup {Ack})
    BY AppendFacts
  <2>2. sock' \in Seq(Message \cup {Ack}) /\ overrun' \in BOOLEAN
    BY <1>6, <2>1 DEF KernelAcks
  <2> QED
    BY <1>6, <2>2 DEF KernelAcks
<1>7. CASE WaitOverrun
  BY <1>7 DEF WaitOverrun
<1>8. CASE CreateWait
  BY <1>8, TailFacts DEF CreateWait
<1>9. ASSUME NEW d \in BOOLEAN, ModeWaitPacket(d) PROVE TypeOK'
  BY <1>9, TailFacts, Kind DEF ModeWaitPacket, OnPacket
<1>10. CASE ModeWaitEnds
  BY <1>10, TailFacts DEF ModeWaitEnds
<1>11. CASE Recv
  BY <1>11, TailFacts DEF Recv
<1>12. CASE RecvFails
  BY <1>12 DEF RecvFails
<1>13. ASSUME NEW d \in BOOLEAN, DispatchPacket(d) PROVE TypeOK'
  BY <1>13, Dispatched, Kind DEF DispatchPacket, OnPacket
<1>14. CASE DispatchNothing
  BY <1>14 DEF DispatchNothing
<1>15. CASE UNCHANGED vars
  BY <1>15 DEF vars
<1> QED
  BY <1>1, <1>2, <1>3, <1>4, <1>5, <1>6, <1>7, <1>8,
     <1>9, <1>10, <1>11, <1>12, <1>13, <1>14, <1>15 DEF Next, Start, Loop

-----------------------------------------------------------------------------

\* The kernel drops packet i, or takes it into its queue and sends message m.
Refuse(i) ==
    /\ kstate[i] = "none" /\ (i > 1 => kstate[i - 1] # "none")
    /\ kstate' = [kstate EXCEPT ![i] = "refused"]
    /\ UNCHANGED <<pc, sock, buf, decision>>
Enqueue(i, m) ==
    /\ kstate[i] = "none" /\ (i > 1 => kstate[i - 1] # "none")
    /\ ~(Cardinality(Queued) >= QueueLimit)
    /\ kstate' = [kstate EXCEPT ![i] = "queued"]
    /\ m \in Message /\ m.id = i
    /\ sock' = Append(sock, m)
    /\ UNCHANGED <<pc, buf, decision>>

\* Nothing the invariant is about moves; an acknowledgement comes; a message is taken
\* from the socket and forgotten.
Quiet ==
    /\ UNCHANGED <<kstate, sock, buf, decision>>
    /\ pc \in LoopPcs => pc' \in LoopPcs
Acked ==
    /\ sock' = Append(sock, Ack)
    /\ UNCHANGED <<kstate, buf, decision>>
    /\ pc \notin LoopPcs
Taken ==
    /\ sock # <<>>
    /\ sock' = Tail(sock)
    /\ UNCHANGED <<kstate, buf, decision>>
    /\ pc \notin LoopPcs

\* The kinds of steps the proofs below tell apart.
LEMMA Steps ==
    ASSUME TypeOK, [Next]_vars
    PROVE  \/ \E i \in Ids : Refuse(i) \/ \E m \in Message : Enqueue(i, m)
           \/ Quiet \/ Acked \/ Taken \/ Recv
           \/ \E d \in BOOLEAN : ModeWaitPacket(d)
           \/ \E d \in BOOLEAN : DispatchPacket(d)
<1> DEFINE Goal == \/ \E i \in Ids : Refuse(i) \/ \E m \in Message : Enqueue(i, m)
                   \/ Quiet \/ Acked \/ Taken
<1> USE DEF LoopPcs
<1>1. ASSUME NEW i \in Ids, NEW k \in {"fits", "big"}, Arrive(i, k) PROVE Goal
  <2> DEFINE m == [id |-> i, kind |-> IF mode = "none" THEN "bare" ELSE k]
  <2>1. m \in Message /\ m.id = i
    BY DEF Message, Kinds
  <2>2. \/ kstate' = [kstate EXCEPT ![i] = "refused"] /\ UNCHANGED sock
        \/ /\ kstate' = [kstate EXCEPT ![i] = "queued"]
           /\ sock' = Append(sock, m)
           /\ ~(Cardinality(Queued) >= QueueLimit)
    BY <1>1 DEF Arrive
  <2>3. kstate[i] = "none" /\ (i > 1 => kstate[i - 1] # "none") /\ UNCHANGED <<pc, buf, decision>>
    BY <1>1 DEF Arrive
  <2> HIDE DEF m
  <2>4. Refuse(i) \/ Enqueue(i, m)
    BY <2>1, <2>2, <2>3 DEF Refuse, Enqueue
  <2> QED
    BY <2>1, <2>4
<1>2. ASSUME OpenStep \/ StartFails \/ CreateQueue \/ SetMode PROVE Goal
  BY <1>2 DEF OpenStep, StartFails, CreateQueue, SetMode, Quiet
<1>3. ASSUME WaitOverrun \/ RecvFails \/ DispatchNothing \/ UNCHANGED vars PROVE Goal
  BY <1>3 DEF WaitOverrun, RecvFails, DispatchNothing, vars, Quiet
<1>4. CASE KernelAcks
  BY <1>4 DEF KernelAcks, Quiet, Acked
<1>5. CASE CreateWait
  BY <1>5 DEF CreateWait, Taken
<1>6. CASE ModeWaitEnds
  BY <1>6 DEF ModeWaitEnds, Taken
<1> QED
  BY <1>1, <1>2, <1>3, <1>4, <1>5, <1>6 DEF Next, Start, Loop

\* What onPacket does: nothing without contents; else it adds a decision, and if the
\* kernel still holds the packet that decision is its verdict.
LEMMA OnPacketCases ==
    ASSUME IndInv, NEW m \in Message, NEW d \in BOOLEAN, OnPacket(m, d),
           kstate[m.id] \in {"queued", "accepted", "dropped"}
    PROVE  \/ UNCHANGED <<kstate, decision>>
           \/ /\ m.id \in Judged
              /\ UNCHANGED kstate
              /\ decision' = [decision EXCEPT ![m.id] = Append(@, d)]
           \/ /\ kstate[m.id] = "queued"
              /\ kstate' = [kstate EXCEPT ![m.id] = IF d THEN "accepted" ELSE "dropped"]
              /\ decision' = [decision EXCEPT ![m.id] = Append(@, d)]
<1>1. m.id \in Ids
  BY Kind
<1> QED
  BY <1>1 DEF OnPacket, Judged

\* ... so it moves at most m.id, from the queue to the judged packets.
LEMMA OnPacketJudges ==
    ASSUME IndInv, NEW m \in Message, NEW d \in BOOLEAN, OnPacket(m, d),
           kstate[m.id] \in {"queued", "accepted", "dropped"}
    PROVE  /\ m.id \in Ids
           /\ Judged' \subseteq Judged \cup {m.id}
           /\ kstate'[m.id] \in {"queued", "accepted", "dropped"}
           /\ \A i \in Ids : i # m.id => kstate'[i] = kstate[i]
           /\ Queued' \subseteq Queued
<1>1. m.id \in Ids
  BY Kind
<1> QED
  BY <1>1, OnPacketCases DEF IndInv, TypeOK, Judged, Queued

\* A message that leaves the socket for onPacket is one of a packet in the queue.
LEMMA HeadQueued ==
    ASSUME IndInv, sock # <<>>, Head(sock) # Ack
    PROVE  /\ Head(sock) \in Message
           /\ kstate[Head(sock).id] = "queued"
           /\ \A j \in Judged : j < Head(sock).id
           /\ \A n \in 1 .. Len(Tail(sock)) : Tail(sock)[n] # Ack => Head(sock).id < Tail(sock)[n].id
<1> USE DEF IndInv
<1>1. /\ Len(sock) \in Nat \ {0} /\ Head(sock) = sock[1] /\ sock[1] \in Message \cup {Ack}
      /\ \A n \in 1 .. Len(Tail(sock)) : n + 1 \in 1 .. Len(sock) /\ Tail(sock)[n] = sock[n + 1]
      /\ Len(Tail(sock)) = Len(sock) - 1
  BY TailFacts DEF TypeOK
<1>2. Head(sock) \in Message
  BY <1>1, Kind
<1>3. 1 \in 1 .. Len(sock) /\ \A n \in 1 .. Len(Tail(sock)) : n + 1 > 1
  BY <1>1
<1> QED
  BY <1>1, <1>2, <1>3 DEF SockInv

\* The next packet to arrive is behind all that have.
LEMMA NextArrival ==
    ASSUME IndInv, NEW i \in Ids, kstate[i] = "none", i > 1 => kstate[i - 1] # "none",
           NEW h \in Ids
    PROVE  kstate[h] = "none" <=> h >= i
<1> USE LimitAssumption DEF Ids
<1>1. CASE h >= i
  BY <1>1 DEF IndInv, ArrivalInv
<1>2. CASE h < i
  <2>1. i > 1 /\ i - 1 \in Ids /\ h <= i - 1 /\ kstate[i - 1] # "none"
    BY <1>2
  <2> QED
    BY <1>2, <2>1 DEF IndInv, ArrivalInv
<1> QED
  BY <1>1, <1>2

\* Packets keep arriving in order.
LEMMA ArrivalStep == IndInv /\ [Next]_vars => ArrivalInv'
<1> SUFFICES ASSUME IndInv, [Next]_vars PROVE ArrivalInv'
  OBVIOUS
<1> USE LimitAssumption DEF IndInv, TypeOK, ArrivalInv, Ids
<1>1. ASSUME NEW i \in Ids, Refuse(i) PROVE ArrivalInv'
  <2>1. \A h \in Ids : kstate[h] = "none" <=> h >= i
    BY <1>1, NextArrival DEF Refuse
  <2> QED
    BY <1>1, <2>1 DEF Refuse
<1>2. ASSUME NEW i \in Ids, NEW m \in Message, Enqueue(i, m) PROVE ArrivalInv'
  <2>1. \A h \in Ids : kstate[h] = "none" <=> h >= i
    BY <1>2, NextArrival DEF Enqueue
  <2> QED
    BY <1>2, <2>1 DEF Enqueue
<1>3. CASE Quiet
  BY <1>3 DEF Quiet
<1>4. CASE Acked
  BY <1>4 DEF Acked
<1>5. CASE Taken
  BY <1>5 DEF Taken
<1>6. CASE Recv
  BY <1>6 DEF Recv
<1>7. ASSUME NEW d \in BOOLEAN, ModeWaitPacket(d) PROVE ArrivalInv'
  <2>1. OnPacket(Head(sock), d) /\ Head(sock) \in Message /\ kstate[Head(sock).id] = "queued"
    BY <1>7, HeadQueued DEF ModeWaitPacket
  <2> QED
    BY <2>1, OnPacketJudges
<1>8. ASSUME NEW d \in BOOLEAN, DispatchPacket(d) PROVE ArrivalInv'
  <2>1. OnPacket(buf, d) /\ buf \in Message /\ kstate[buf.id] \in {"queued", "accepted", "dropped"}
    BY <1>8, Dispatched DEF DispatchPacket, BufInv
  <2> QED
    BY <2>1, OnPacketJudges
<1> QED
  BY <1>1, <1>2, <1>3, <1>4, <1>5, <1>6, <1>7, <1>8, Steps DEF IndInv

\* The first decision on a packet is its verdict, and later ones are only added.
LEMMA DecisionOnPacket ==
    ASSUME IndInv, NEW m \in Message, NEW d \in BOOLEAN, OnPacket(m, d),
           kstate[m.id] \in {"queued", "accepted", "dropped"}
    PROVE  DecisionInv'
<1> USE DEF IndInv, TypeOK
<1>1. m.id \in Ids
  BY Kind
<1> SUFFICES ASSUME NEW i \in Ids
             PROVE  (/\ i \notin Judged => decision[i] = <<>>
                     /\ kstate[i] = "accepted" => decision[i] # <<>> /\ decision[i][1] = TRUE
                     /\ kstate[i] = "dropped" => decision[i] # <<>> /\ decision[i][1] = FALSE)'
  BY DEF DecisionInv
<1>2. /\ i \notin Judged => decision[i] = <<>>
      /\ kstate[i] = "accepted" => decision[i] # <<>> /\ decision[i][1] = TRUE
      /\ kstate[i] = "dropped" => decision[i] # <<>> /\ decision[i][1] = FALSE
  BY DEF DecisionInv
<1>3. CASE UNCHANGED <<kstate, decision>>
  BY <1>2, <1>3 DEF Judged
<1>4. CASE i # m.id
  <2>1. kstate'[i] = kstate[i] /\ decision'[i] = decision[i]
    BY <1>1, <1>4, OnPacketCases
  <2> QED
    BY <1>2, <2>1 DEF Judged
<1>5. CASE /\ i = m.id /\ i \in Judged
           /\ UNCHANGED kstate
           /\ decision' = [decision EXCEPT ![m.id] = Append(@, d)]
  <2>1. decision[i] \in Seq(BOOLEAN) /\ decision[i] # <<>> /\ decision'[i] = Append(decision[i], d)
    BY <1>2, <1>5 DEF Judged
  <2>2. Len(decision[i]) >= 1 /\ Len(decision[i]) \in Nat
    BY <2>1, TailFacts
  <2>3. decision'[i] # <<>> /\ decision'[i][1] = decision[i][1]
    BY <2>1, <2>2, AppendFacts
  <2> QED
    BY <1>2, <1>5, <2>3 DEF Judged
<1>6. CASE /\ i = m.id /\ kstate[m.id] = "queued"
           /\ kstate' = [kstate EXCEPT ![m.id] = IF d THEN "accepted" ELSE "dropped"]
           /\ decision' = [decision EXCEPT ![m.id] = Append(@, d)]
  <2>1. decision[i] = <<>>
    BY <1>2, <1>6 DEF Judged
  <2>2. decision'[i] = <<d>>
    BY <1>6, <2>1
  <2>3. decision'[i] # <<>> /\ decision'[i][1] = d
    BY <2>2
  <2>4. kstate'[i] = IF d THEN "accepted" ELSE "dropped"
    BY <1>6
  <2> QED
    BY <2>3, <2>4 DEF Judged
<1>7. \/ UNCHANGED <<kstate, decision>>
      \/ /\ m.id \in Judged
         /\ UNCHANGED kstate
         /\ decision' = [decision EXCEPT ![m.id] = Append(@, d)]
      \/ /\ kstate[m.id] = "queued"
         /\ kstate' = [kstate EXCEPT ![m.id] = IF d THEN "accepted" ELSE "dropped"]
         /\ decision' = [decision EXCEPT ![m.id] = Append(@, d)]
  BY OnPacketCases
<1>8. CASE i = m.id
  BY <1>3, <1>5, <1>6, <1>7, <1>8
<1> QED
  BY <1>4, <1>8

\* Only onPacket adds decisions and verdicts.
LEMMA DecisionStep == IndInv /\ [Next]_vars => DecisionInv'
<1> SUFFICES ASSUME IndInv, [Next]_vars PROVE DecisionInv'
  OBVIOUS
<1> USE DEF IndInv, TypeOK, DecisionInv, Judged
<1>1. ASSUME NEW i \in Ids, Refuse(i) PROVE DecisionInv'
  BY <1>1 DEF Refuse
<1>2. ASSUME NEW i \in Ids, NEW m \in Message, Enqueue(i, m) PROVE DecisionInv'
  BY <1>2 DEF Enqueue
<1>3. CASE Quiet
  BY <1>3 DEF Quiet
<1>4. CASE Acked
  BY <1>4 DEF Acked
<1>5. CASE Taken
  BY <1>5 DEF Taken
<1>6. CASE Recv
  BY <1>6 DEF Recv
<1>7. ASSUME NEW d \in BOOLEAN, ModeWaitPacket(d) PROVE DecisionInv'
  BY <1>7, HeadQueued, DecisionOnPacket DEF ModeWaitPacket
<1>8. ASSUME NEW d \in BOOLEAN, DispatchPacket(d) PROVE DecisionInv'
  BY <1>8, Dispatched, DecisionOnPacket DEF DispatchPacket, BufInv
<1> QED
  BY <1>1, <1>2, <1>3, <1>4, <1>5, <1>6, <1>7, <1>8, Steps DEF IndInv

\* The elements of the socket are messages, and their packets have numbers.
LEMMA SockElement ==
    ASSUME TypeOK, NEW n \in 1 .. Len(sock), sock[n] # Ack
    PROVE  sock[n] \in Message /\ sock[n].id \in Ids /\ n \in Nat /\ Len(sock) \in Nat
<1>1. sock[n] \in Message \cup {Ack} /\ Len(sock) \in Nat
  BY DEF TypeOK
<1> QED
  BY <1>1, Kind

\* The rest of the socket stays in order when its first message is taken.
LEMMA SockTail ==
    ASSUME IndInv, sock # <<>>, sock' = Tail(sock),
           \A n \in 1 .. Len(Tail(sock)) : Tail(sock)[n] # Ack =>
               /\ kstate'[Tail(sock)[n].id] = "queued"
               /\ \A j \in Judged' : j < Tail(sock)[n].id
    PROVE  SockInv'
<1>1. /\ \A n \in 1 .. Len(Tail(sock)) : n + 1 \in 1 .. Len(sock) /\ Tail(sock)[n] = sock[n + 1]
      /\ Len(Tail(sock)) \in Nat
  BY TailFacts DEF IndInv, TypeOK
<1>2. \A n, m \in 1 .. Len(Tail(sock)) :
         m > n /\ Tail(sock)[n] # Ack /\ Tail(sock)[m] # Ack => Tail(sock)[n].id < Tail(sock)[m].id
  <2> SUFFICES ASSUME NEW n \in 1 .. Len(Tail(sock)), NEW m \in 1 .. Len(Tail(sock)), m > n,
                      Tail(sock)[n] # Ack, Tail(sock)[m] # Ack
               PROVE  Tail(sock)[n].id < Tail(sock)[m].id
    OBVIOUS
  <2>1. n + 1 \in 1 .. Len(sock) /\ m + 1 \in 1 .. Len(sock) /\ m + 1 > n + 1
    BY <1>1
  <2> QED
    BY <1>1, <2>1 DEF IndInv, SockInv
<1> QED
  BY <1>2 DEF SockInv

\* A new message goes behind all others, and is of a packet behind all others.
LEMMA SockAppend ==
    ASSUME IndInv, NEW m \in Message \cup {Ack}, sock' = Append(sock, m),
           \A n \in 1 .. Len(sock) : sock[n] # Ack => kstate'[sock[n].id] = "queued",
           Judged' = Judged,
           m # Ack =>
               /\ kstate'[m.id] = "queued"
               /\ \A j \in Judged : j < m.id
               /\ \A n \in 1 .. Len(sock) : sock[n] # Ack => sock[n].id < m.id
    PROVE  SockInv'
<1>1. /\ Len(sock) \in Nat
      /\ Len(sock') = Len(sock) + 1
      /\ \A n \in 1 .. Len(sock) : sock'[n] = sock[n]
      /\ sock'[Len(sock) + 1] = m
  BY AppendFacts DEF IndInv, TypeOK
<1> SUFFICES ASSUME NEW n \in 1 .. Len(sock'), sock'[n] # Ack
             PROVE  /\ kstate'[sock'[n].id] = "queued"
                    /\ \A j \in Judged' : j < sock'[n].id
                    /\ \A k \in 1 .. Len(sock') : k > n /\ sock'[k] # Ack => sock'[n].id < sock'[k].id
  BY DEF SockInv
<1>2. CASE n \in 1 .. Len(sock)
  <2>1. \A k \in 1 .. Len(sock') : k \in 1 .. Len(sock) \/ k = Len(sock) + 1
    BY <1>1
  <2> QED
    BY <1>1, <1>2, <2>1 DEF IndInv, SockInv
<1>3. CASE n = Len(sock) + 1
  <2>1. \A k \in 1 .. Len(sock') : ~(k > n)
    BY <1>1, <1>3
  <2> QED
    BY <1>1, <1>3, <2>1
<1> QED
  BY <1>1, <1>2, <1>3

\* The socket stays in order, ahead of the packets that have their verdict.
LEMMA SockStep == IndInv /\ [Next]_vars => SockInv'
<1> SUFFICES ASSUME IndInv, [Next]_vars PROVE SockInv'
  OBVIOUS
<1> USE DEF IndInv
<1>1. ASSUME NEW i \in Ids, Refuse(i) PROVE SockInv'
  <2>1. Judged' = Judged
    BY <1>1 DEF Refuse, Judged, TypeOK
  <2>2. \A n \in 1 .. Len(sock) : sock[n] # Ack => kstate'[sock[n].id] = "queued"
    BY <1>1, SockElement DEF Refuse, SockInv, TypeOK
  <2> QED
    BY <1>1, <2>1, <2>2 DEF Refuse, SockInv
<1>2. ASSUME NEW i \in Ids, NEW m \in Message, Enqueue(i, m) PROVE SockInv'
  <2>1. Judged' = Judged /\ kstate'[m.id] = "queued"
    BY <1>2 DEF Enqueue, Judged, TypeOK
  <2>2. \A h \in Ids : kstate[h] = "none" <=> h >= i
    BY <1>2, NextArrival DEF Enqueue
  <2>3. \A h \in Ids : h \in Judged \/ kstate[h] = "queued" => h < i
    BY <2>2, LimitAssumption DEF Judged, Ids
  <2>4. \A n \in 1 .. Len(sock) : sock[n] # Ack => kstate'[sock[n].id] = "queued" /\ sock[n].id < i
    BY <1>2, <2>3, SockElement DEF Enqueue, SockInv, TypeOK
  <2>5. m.id = i /\ sock' = Append(sock, m) /\ \A j \in Judged : j < m.id
    BY <1>2, <2>3 DEF Enqueue, Judged
  <2> QED
    BY <2>1, <2>4, <2>5, SockAppend
<1>3. CASE Quiet
  BY <1>3 DEF Quiet, SockInv, Judged
<1>4. CASE Acked
  <2>1. Judged' = Judged /\ UNCHANGED kstate /\ sock' = Append(sock, Ack)
    BY <1>4 DEF Acked, Judged
  <2>2. \A n \in 1 .. Len(sock) : sock[n] # Ack => kstate'[sock[n].id] = "queued"
    BY <2>1 DEF SockInv
  <2> QED
    BY <2>1, <2>2, SockAppend
<1>5. CASE Taken
  <2>1. sock # <<>> /\ sock' = Tail(sock) /\ Judged' = Judged /\ UNCHANGED kstate
    BY <1>5 DEF Taken, Judged
  <2>2. \A n \in 1 .. Len(Tail(sock)) : n + 1 \in 1 .. Len(sock) /\ Tail(sock)[n] = sock[n + 1]
    BY <2>1, TailFacts DEF TypeOK
  <2> QED
    BY <2>1, <2>2, SockTail DEF SockInv
<1>6. CASE Recv
  <2>1. sock # <<>> /\ sock' = Tail(sock) /\ Judged' = Judged /\ UNCHANGED kstate
    BY <1>6 DEF Recv, Judged
  <2>2. \A n \in 1 .. Len(Tail(sock)) : n + 1 \in 1 .. Len(sock) /\ Tail(sock)[n] = sock[n + 1]
    BY <2>1, TailFacts DEF TypeOK
  <2> QED
    BY <2>1, <2>2, SockTail DEF SockInv
<1>7. ASSUME NEW d \in BOOLEAN, ModeWaitPacket(d) PROVE SockInv'
  <2> DEFINE h == Head(sock)
  <2>1. sock # <<>> /\ sock' = Tail(sock) /\ h # Ack /\ OnPacket(h, d)
    BY <1>7 DEF ModeWaitPacket
  <2>2. /\ h \in Message /\ kstate[h.id] = "queued"
        /\ \A n \in 1 .. Len(Tail(sock)) : Tail(sock)[n] # Ack => h.id < Tail(sock)[n].id
    BY <2>1, HeadQueued
  <2>3. /\ Judged' \subseteq Judged \cup {h.id} /\ h.id \in Ids
        /\ \A k \in Ids : k # h.id => kstate'[k] = kstate[k]
    BY <2>1, <2>2, OnPacketJudges
  <2>4. \A n \in 1 .. Len(Tail(sock)) :
           /\ n + 1 \in 1 .. Len(sock) /\ Tail(sock)[n] = sock[n + 1]
           /\ sock[n + 1] # Ack => sock[n + 1].id \in Ids
    BY <2>1, TailFacts, SockElement DEF TypeOK
  <2> HIDE DEF h
  <2>5. \A n \in 1 .. Len(Tail(sock)) : Tail(sock)[n] # Ack =>
           /\ kstate'[Tail(sock)[n].id] = "queued"
           /\ \A j \in Judged' : j < Tail(sock)[n].id
    <3> SUFFICES ASSUME NEW n \in 1 .. Len(Tail(sock)), Tail(sock)[n] # Ack
                 PROVE  /\ kstate'[Tail(sock)[n].id] = "queued"
                        /\ \A j \in Judged' : j < Tail(sock)[n].id
      OBVIOUS
    <3>1. /\ Tail(sock)[n].id \in Ids /\ h.id < Tail(sock)[n].id
          /\ kstate[Tail(sock)[n].id] = "queued"
          /\ \A j \in Judged : j < Tail(sock)[n].id
      BY <2>2, <2>4 DEF SockInv
    <3>2. h.id # Tail(sock)[n].id
      BY <2>3, <3>1, LimitAssumption DEF Ids
    <3> QED
      BY <2>3, <3>1, <3>2
  <2> QED
    BY <2>1, <2>5, SockTail
<1>8. ASSUME NEW d \in BOOLEAN, DispatchPacket(d) PROVE SockInv'
  <2>1. OnPacket(buf, d) /\ buf \in Message /\ UNCHANGED sock
    BY <1>8, Dispatched DEF DispatchPacket
  <2>2. /\ kstate[buf.id] \in {"queued", "accepted", "dropped"}
        /\ \A n \in 1 .. Len(sock) : sock[n] # Ack => buf.id < sock[n].id
    BY <2>1 DEF BufInv
  <2>3. /\ Judged' \subseteq Judged \cup {buf.id} /\ buf.id \in Ids
        /\ \A k \in Ids : k # buf.id => kstate'[k] = kstate[k]
    BY <2>1, <2>2, OnPacketJudges
  <2>4. \A n \in 1 .. Len(sock) : sock[n] # Ack =>
           sock[n].id \in Ids /\ buf.id # sock[n].id /\ kstate'[sock[n].id] = "queued"
    BY <2>2, <2>3, SockElement, LimitAssumption DEF SockInv, Ids
  <2>5. \A n \in 1 .. Len(sock) : sock[n] # Ack => \A j \in Judged' : j < sock[n].id
    BY <2>2, <2>3 DEF SockInv
  <2> QED
    BY <2>1, <2>4, <2>5 DEF SockInv
<1> QED
  BY <1>1, <1>2, <1>3, <1>4, <1>5, <1>6, <1>7, <1>8, Steps DEF IndInv

\* buf stays between the packets that have their verdict and those in the socket.
LEMMA BufStep == IndInv /\ [Next]_vars => BufInv'
<1> SUFFICES ASSUME IndInv, [Next]_vars PROVE BufInv'
  OBVIOUS
<1> USE DEF IndInv
<1>1. ASSUME NEW i \in Ids, Refuse(i) PROVE BufInv'
  <2>1. Judged' = Judged
    BY <1>1 DEF Refuse, Judged, TypeOK
  <2> QED
    BY <1>1, <2>1, Kind DEF Refuse, BufInv, TypeOK
<1>2. ASSUME NEW i \in Ids, NEW m \in Message, Enqueue(i, m) PROVE BufInv'
  <2>1. Judged' = Judged /\ UNCHANGED <<pc, buf>> /\ m.id = i /\ sock' = Append(sock, m)
    BY <1>2 DEF Enqueue, Judged, TypeOK
  <2>2. /\ Len(sock) \in Nat
        /\ Len(sock') = Len(sock) + 1
        /\ \A n \in 1 .. Len(sock) : sock'[n] = sock[n]
        /\ sock'[Len(sock) + 1] = m
    BY <2>1, AppendFacts DEF TypeOK
  <2>3. ASSUME buf \in Message PROVE buf.id < i
    <3>1. buf.id \in Ids /\ kstate[buf.id] # "none"
      BY <2>3, Kind DEF BufInv
    <3>2. ~(buf.id >= i)
      BY <1>2, <3>1, NextArrival DEF Enqueue
    <3> QED
      BY <3>1, <3>2, LimitAssumption DEF Ids
  <2>4. buf \in Message => kstate'[buf.id] = kstate[buf.id]
    BY <1>2, <2>3, LimitAssumption, Kind DEF Enqueue, TypeOK, Ids
  <2>5. \A n \in 1 .. Len(sock') : n \in 1 .. Len(sock) \/ n = Len(sock) + 1
    BY <2>2
  <2> QED
    BY <2>1, <2>2, <2>3, <2>4, <2>5 DEF BufInv
<1>3. CASE Quiet
  BY <1>3 DEF Quiet, BufInv, Judged
<1>4. CASE Acked
  BY <1>4, Kind DEF Acked, BufInv
<1>5. CASE Taken
  BY <1>5, Kind DEF Taken, BufInv
<1>6. CASE Recv
  <2>1. /\ sock # <<>> /\ sock' = Tail(sock) /\ buf' = Head(sock)
        /\ UNCHANGED kstate /\ Judged' = Judged /\ pc' \in LoopPcs
    BY <1>6 DEF Recv, Judged, LoopPcs
  <2>2. CASE Head(sock) = Ack
    BY <2>1, <2>2, Kind DEF BufInv
  <2>3. CASE Head(sock) # Ack
    <3>1. /\ Head(sock).id \in Ids /\ kstate[Head(sock).id] = "queued"
          /\ \A j \in Judged : j < Head(sock).id
          /\ \A n \in 1 .. Len(Tail(sock)) :
                Tail(sock)[n] # Ack => Head(sock).id < Tail(sock)[n].id
      BY <2>1, <2>3, HeadQueued, Kind
    <3>2. \A j \in Judged : j <= Head(sock).id
      BY <3>1, LimitAssumption DEF Judged, Ids
    <3> QED
      BY <2>1, <3>1, <3>2 DEF BufInv
  <2> QED
    BY <2>2, <2>3
<1>7. ASSUME NEW d \in BOOLEAN, ModeWaitPacket(d) PROVE BufInv'
  BY <1>7, Kind DEF ModeWaitPacket, BufInv, LoopPcs
<1>8. ASSUME NEW d \in BOOLEAN, DispatchPacket(d) PROVE BufInv'
  <2>1. OnPacket(buf, d) /\ buf \in Message /\ UNCHANGED <<sock, buf>> /\ pc' \in LoopPcs
    BY <1>8, Dispatched DEF DispatchPacket, LoopPcs
  <2>2. /\ buf.id \in Ids /\ Judged' \subseteq Judged \cup {buf.id}
        /\ kstate'[buf.id] \in {"queued", "accepted", "dropped"}
    BY <2>1, OnPacketJudges DEF BufInv
  <2>3. \A j \in Judged' : j <= buf.id
    BY <2>1, <2>2, LimitAssumption DEF BufInv, Ids
  <2> QED
    BY <2>1, <2>2, <2>3 DEF BufInv
<1> QED
  BY <1>1, <1>2, <1>3, <1>4, <1>5, <1>6, <1>7, <1>8, Steps DEF IndInv

\* The kernel's queue is a finite set.
LEMMA QueuedFinite == IsFiniteSet(Queued) /\ Cardinality(Queued) \in Nat
<1>1. IsFiniteSet(Ids)
  BY LimitAssumption, FS_Interval DEF Ids
<1>2. IsFiniteSet(Queued)
  BY <1>1, FS_Subset DEF Queued
<1> QED
  BY <1>2, FS_CardinalityType

\* A queue that does not grow stays within its limit.
LEMMA QueueShrinks ==
    ASSUME QueueInv, Queued' \subseteq Queued
    PROVE  QueueInv'
<1>1. Cardinality(Queued') <= Cardinality(Queued) /\ Cardinality(Queued') \in Nat
  BY QueuedFinite, FS_Subset, FS_CardinalityType
<1> QED
  BY <1>1, QueuedFinite, LimitAssumption DEF QueueInv

\* The queue grows only where the kernel has seen that there is room.
LEMMA QueueStep == IndInv /\ [Next]_vars => QueueInv'
<1> SUFFICES ASSUME IndInv, [Next]_vars PROVE QueueInv'
  OBVIOUS
<1> USE DEF IndInv
<1>1. ASSUME NEW i \in Ids, Refuse(i) PROVE QueueInv'
  BY <1>1, QueueShrinks DEF Refuse, Queued, TypeOK
<1>2. ASSUME NEW i \in Ids, NEW m \in Message, Enqueue(i, m) PROVE QueueInv'
  <2>1. Queued' = Queued \cup {i} /\ i \notin Queued
    BY <1>2 DEF Enqueue, Queued, TypeOK
  <2>2. Cardinality(Queued') = Cardinality(Queued) + 1
    BY <2>1, QueuedFinite, FS_AddElement
  <2> QED
    BY <1>2, <2>2, QueuedFinite, LimitAssumption DEF Enqueue, QueueInv
<1>3. CASE Quiet
  BY <1>3, QueueShrinks DEF Quiet, Queued
<1>4. CASE Acked
  BY <1>4, QueueShrinks DEF Acked, Queued
<1>5. CASE Taken
  BY <1>5, QueueShrinks DEF Taken, Queued
<1>6. CASE Recv
  BY <1>6, QueueShrinks DEF Recv, Queued
<1>7. ASSUME NEW d \in BOOLEAN, ModeWaitPacket(d) PROVE QueueInv'
  BY <1>7, HeadQueued, OnPacketJudges, QueueShrinks DEF ModeWaitPacket
<1>8. ASSUME NEW d \in BOOLEAN, DispatchPacket(d) PROVE QueueInv'
  BY <1>8, Dispatched, OnPacketJudges, QueueShrinks DEF DispatchPacket, BufInv
<1> QED
  BY <1>1, <1>2, <1>3, <1>4, <1>5, <1>6, <1>7, <1>8, Steps DEF IndInv

-----------------------------------------------------------------------------

\* The invariant holds in every reachable state.
THEOREM Invariance == Spec => []IndInv
<1>1. IndInv /\ [Next]_vars => IndInv'
  BY TypeStep, ArrivalStep, DecisionStep, SockStep, BufStep, QueueStep DEF IndInv
<1> QED
  BY InitInd, <1>1, PTL DEF Spec

\* The variables keep their types: onPacket is never called for the number of an
\* acknowledgement or of an empty buffer.
THEOREM TypeCorrect == Spec => []TypeOK
<1>1. IndInv => TypeOK
  BY DEF IndInv
<1> QED
  BY Invariance, <1>1, PTL

\* The verdict the kernel carries out is what the judge said first.
THEOREM FirstDecisionCounts == Spec => []VerdictIsFirstDecision
<1>1. IndInv => VerdictIsFirstDecision
  BY DEF IndInv, DecisionInv, VerdictIsFirstDecision
<1> QED
  BY Invariance, <1>1, PTL

\* Verdicts are given in the order of arrival.
THEOREM OrderKept == Spec => []VerdictsInOrder
<1>1. IndInv => VerdictsInOrder
  <2> SUFFICES ASSUME IndInv, NEW i \in Ids, NEW j \in Ids, i < j, i \in FitsWaiting,
                      j \in Judged
               PROVE  FALSE
    BY DEF VerdictsInOrder, Judged
  <2> DEFINE fits == [id |-> i, kind |-> "fits"]
  <2>1. fits \in Message /\ fits # Ack /\ fits.id = i
    BY Kind DEF Message, Kinds
  <2> HIDE DEF fits
  <2>2. CASE \E n \in 1 .. Len(sock) : sock[n] = fits
    <3>1. j < i
      BY <2>1, <2>2 DEF IndInv, SockInv
    <3> QED
      BY <3>1, LimitAssumption DEF Ids
  <2>3. CASE buf = fits
    <3>1. j <= i
      BY <2>1, <2>3 DEF IndInv, BufInv
    <3> QED
      BY <3>1, LimitAssumption DEF Ids
  <2> QED
    BY <2>2, <2>3 DEF FitsWaiting, fits
<1> QED
  BY Invariance, <1>1, PTL

\* The kernel's queue keeps within its limit, and the packets forgotten in it are ones
\* the judge was never asked about.
THEOREM QueueBounded == Spec => []QueueAccounted
<1>1. IndInv => QueueAccounted
  BY DEF IndInv, QueueInv, DecisionInv, QueueAccounted, Queued, Judged
<1> QED
  BY Invariance, <1>1, PTL

=============================================================================
