--------------------------- MODULE TcpServerProofs ---------------------------
(***************************************************************************)
(* Proofs about TcpServer for any number of descriptors and connections.   *)
(***************************************************************************)
EXTENDS TcpServer, FiniteSetTheorems, TLAPS

\* A thread that has been constructed has a descriptor; one that has not is in no
\* entry of m_threads.
ThreadInv ==
    \A k \in Conns :
        /\ wpc[k] = "none" => wfd[k] = 0 /\ k \notin stored
        /\ wpc[k] # "none" => wfd[k] \in Fds

\* Between accept and the assignment to m_threads[_newFd] the listening thread has a
\* descriptor nobody else serves, then a thread that is in no entry yet.
MakeInv ==
    apc = "make" =>
        /\ newConn \in Conns /\ newFd \in Fds
        /\ ~spawned => wpc[newConn] = "none" /\ \A k \in Holding : wfd[k] # newFd
        /\ spawned => wpc[newConn] # "none" /\ wfd[newConn] = newFd /\ newConn \notin stored

\* The inductive invariant.
IndInv ==
    /\ TypeOK /\ ThreadInv /\ MakeInv
    /\ OneThreadPerDescriptor /\ DescriptorsAccounted /\ HandlesBalanced

StoredUnder(f) == {k \in stored : wfd[k] = f}
DetachedUnder(f) == {k \in Conns : wfd[k] = f /\ wpc[k] = "done"}

-----------------------------------------------------------------------------

USE DEF acceptor, threadMap

\* accept returns a descriptor that was free.
LEMMA LowestFree ==
    ASSUME Fds \ open # {}
    PROVE  Min(Fds \ open) \in Fds \ open
<1> DEFINE Free == Fds \ open
<1>1. Free \subseteq Nat /\ Free # {}
  BY BoundAssumption DEF Fds
<1> DEFINE Below == {xy \in Nat \X Nat : xy[1] < xy[2]}
<1>2. IsWellFoundedOn(Below, Nat)
  BY NatLessThanWellFounded DEF OpToRel
<1>3. PICK x \in Free : \A y \in Free : ~(<<y, x>> \in Below)
  <2> HIDE DEF Free, Below
  <2> QED BY <1>1, <1>2, WFMin
<1>4. x \in Free /\ \A y \in Free : x =< y
  <2>1. \A y \in Nat : y < x => <<y, x>> \in Below
    BY <1>1
  <2>2. x \in Free /\ \A y \in Free : ~(<<y, x>> \in Below)
    BY <1>3
  <2> HIDE DEF Below, Free
  <2>3. \A y \in Free : y \in Nat /\ x \in Nat /\ ~(y < x)
    BY <1>1, <2>1, <2>2
  <2> QED BY <2>2, <2>3
<1> HIDE DEF Free
<1>5. Min(Free) \in Free
  BY <1>4 DEF Min
<1> QED BY <1>5 DEF Free

\* A thread in service goes on to another place, still holding its descriptor.
MoveOn(k, to) ==
    /\ wpc[k] \in InService
    /\ to \in InService \cup {"leaked"}
    /\ WorkerGoto(k, to)

\* The process dies in a call of the destroyed handler.
Die ==
    /\ proc' = "terminated"
    /\ UNCHANGED <<acceptor, threadMap, open, wpc, wfd>>

\* The seven steps of a connection's thread that leave its descriptor alone differ
\* only in where they come from and go to.
LEMMA ServiceSteps ==
    ASSUME NEW k \in Conns,
           \/ RecvRequest(k) \/ RecvEnds(k) \/ SendOk(k) \/ SendFails(k)
           \/ OnNewConnection(k) \/ Handle(k) \/ OnLostConnection(k)
    PROVE  Die \/ \E to \in InService \cup {"leaked"} : MoveOn(k, to)
<1> USE DEF MoveOn, Die, InService
<1>1. CASE RecvRequest(k)
  BY <1>1 DEF RecvRequest
<1>2. CASE RecvEnds(k)
  BY <1>2 DEF RecvEnds
<1>3. CASE SendOk(k)
  BY <1>3 DEF SendOk
<1>4. CASE SendFails(k)
  BY <1>4 DEF SendFails
<1>5. CASE OnNewConnection(k)
  BY <1>5 DEF OnNewConnection, CallHandler
<1>6. CASE Handle(k)
  BY <1>6 DEF Handle, CallHandler
<1>7. CASE OnLostConnection(k)
  BY <1>7 DEF OnLostConnection, CallHandler
<1> QED
  BY <1>1, <1>2, <1>3, <1>4, <1>5, <1>6, <1>7

\* The kinds of steps the proofs below tell apart.
LEMMA Steps ==
    ASSUME [Next]_vars
    PROVE  \/ \E k \in Conns : Accept(k)
           \/ AcceptFails \/ Spawn \/ FindEntry \/ InsertEntry \/ StoreThread \/ Die
           \/ \E k \in Conns, to \in InService \cup {"leaked"} : MoveOn(k, to)
           \/ \E k \in Conns : Close(k)
           \/ \E k \in Conns : Detach(k)
           \/ UNCHANGED vars
BY ServiceSteps DEF Next, Listen, Work

-----------------------------------------------------------------------------

\* The state in which listen has succeeded satisfies the invariant.
LEMMA InitInd == Init => IndInv
<1> SUFFICES ASSUME Init PROVE IndInv
  OBVIOUS
<1> USE BoundAssumption DEF Init
<1>1. TypeOK /\ ThreadInv /\ MakeInv
  BY DEF TypeOK, ThreadInv, MakeInv, InService
<1>2. OneThreadPerDescriptor /\ DescriptorsAccounted
  BY DEF OneThreadPerDescriptor, DescriptorsAccounted, Holding, InService
<1>3. \A f \in Fds : StoredUnder(f) = {} /\ DetachedUnder(f) = {}
  BY DEF StoredUnder, DetachedUnder
<1>4. \A f \in Fds : entry[f] = 0 /\ Cardinality(StoredUnder(f)) = Cardinality(DetachedUnder(f)) + 0
  BY <1>3, FS_EmptySet
<1>5. HandlesBalanced
  BY <1>4 DEF HandlesBalanced, StoredUnder, DetachedUnder
<1> QED
  BY <1>1, <1>2, <1>5 DEF IndInv

\* Every step keeps the variables in their types.
LEMMA TypeStep == IndInv /\ [Next]_vars => TypeOK'
<1> SUFFICES ASSUME IndInv, [Next]_vars PROVE TypeOK'
  OBVIOUS
<1> USE DEF IndInv, TypeOK, InService
<1>1. ASSUME NEW k \in Conns, Accept(k) PROVE TypeOK'
  BY <1>1, LowestFree DEF Accept
<1>2. CASE AcceptFails
  BY <1>2 DEF AcceptFails
<1>3. CASE Spawn
  BY <1>3 DEF Spawn
<1>4. CASE FindEntry
  BY <1>4 DEF FindEntry
<1>5. CASE InsertEntry
  BY <1>5 DEF InsertEntry, MakeInv
<1>6. CASE StoreThread
  BY <1>6 DEF StoreThread, MakeInv
<1>7. CASE Die
  BY <1>7 DEF Die
<1>8. ASSUME NEW k \in Conns, NEW to \in InService \cup {"leaked"}, MoveOn(k, to) PROVE TypeOK'
  BY <1>8 DEF MoveOn, WorkerGoto
<1>9. ASSUME NEW k \in Conns, Close(k) PROVE TypeOK'
  BY <1>9 DEF Close
<1>10. ASSUME NEW k \in Conns, Detach(k) PROVE TypeOK'
  BY <1>10 DEF Detach
<1>11. CASE UNCHANGED vars
  BY <1>11 DEF vars
<1> QED
  BY <1>1, <1>2, <1>3, <1>4, <1>5, <1>6, <1>7, <1>8, <1>9, <1>10, <1>11, Steps

\* A thread gets its descriptor when it is constructed, and is stored once, afterwards.
LEMMA ThreadStep == IndInv /\ [Next]_vars => ThreadInv'
<1> SUFFICES ASSUME IndInv, [Next]_vars PROVE ThreadInv'
  OBVIOUS
<1> USE BoundAssumption DEF IndInv, TypeOK, InService, ThreadInv, MakeInv, Fds
<1>1. ASSUME NEW k \in Conns, Accept(k) PROVE ThreadInv'
  BY <1>1 DEF Accept
<1>2. CASE AcceptFails
  BY <1>2 DEF AcceptFails
<1>3. CASE Spawn
  BY <1>3 DEF Spawn
<1>4. CASE FindEntry
  BY <1>4 DEF FindEntry
<1>5. CASE InsertEntry
  BY <1>5 DEF InsertEntry
<1>6. CASE StoreThread
  BY <1>6 DEF StoreThread
<1>7. CASE Die
  BY <1>7 DEF Die
<1>8. ASSUME NEW k \in Conns, NEW to \in InService \cup {"leaked"}, MoveOn(k, to)
      PROVE ThreadInv'
  BY <1>8 DEF MoveOn, WorkerGoto
<1>9. ASSUME NEW k \in Conns, Close(k) PROVE ThreadInv'
  BY <1>9 DEF Close
<1>10. ASSUME NEW k \in Conns, Detach(k) PROVE ThreadInv'
  BY <1>10 DEF Detach
<1>11. CASE UNCHANGED vars
  BY <1>11 DEF vars
<1> QED
  BY <1>1, <1>2, <1>3, <1>4, <1>5, <1>6, <1>7, <1>8, <1>9, <1>10, <1>11, Steps

\* The listening thread's new descriptor and thread stay its own until it stores them.
LEMMA MakeStep == IndInv /\ [Next]_vars => MakeInv'
<1> SUFFICES ASSUME IndInv, [Next]_vars PROVE MakeInv'
  OBVIOUS
<1> USE DEF IndInv, TypeOK, InService, ThreadInv, MakeInv, Holding
<1>1. ASSUME NEW k \in Conns, Accept(k) PROVE MakeInv'
  BY <1>1, LowestFree DEF Accept, DescriptorsAccounted
<1>2. CASE AcceptFails
  BY <1>2 DEF AcceptFails
<1>3. CASE Spawn
  BY <1>3 DEF Spawn
<1>4. CASE FindEntry
  BY <1>4 DEF FindEntry
<1>5. CASE InsertEntry
  BY <1>5 DEF InsertEntry
<1>6. CASE StoreThread
  BY <1>6 DEF StoreThread
<1>7. CASE Die
  BY <1>7 DEF Die
<1>8. ASSUME NEW k \in Conns, NEW to \in InService \cup {"leaked"}, MoveOn(k, to)
      PROVE MakeInv'
  BY <1>8 DEF MoveOn, WorkerGoto
<1>9. ASSUME NEW k \in Conns, Close(k) PROVE MakeInv'
  BY <1>9 DEF Close
<1>10. ASSUME NEW k \in Conns, Detach(k) PROVE MakeInv'
  BY <1>10 DEF Detach
<1>11. CASE UNCHANGED vars
  BY <1>11 DEF vars
<1> QED
  BY <1>1, <1>2, <1>3, <1>4, <1>5, <1>6, <1>7, <1>8, <1>9, <1>10, <1>11, Steps

\* A descriptor is handed to one thread at a time.
LEMMA OneStep == IndInv /\ [Next]_vars => OneThreadPerDescriptor'
<1> SUFFICES ASSUME IndInv, [Next]_vars PROVE OneThreadPerDescriptor'
  OBVIOUS
<1> USE DEF IndInv, TypeOK, InService, MakeInv, Holding, OneThreadPerDescriptor
<1>1. ASSUME NEW k \in Conns, Accept(k) PROVE OneThreadPerDescriptor'
  BY <1>1 DEF Accept
<1>2. CASE AcceptFails
  BY <1>2 DEF AcceptFails
<1>3. CASE Spawn
  BY <1>3 DEF Spawn
<1>4. CASE FindEntry
  BY <1>4 DEF FindEntry
<1>5. CASE InsertEntry
  BY <1>5 DEF InsertEntry
<1>6. CASE StoreThread
  BY <1>6 DEF StoreThread
<1>7. CASE Die
  BY <1>7 DEF Die
<1>8. ASSUME NEW k \in Conns, NEW to \in InService \cup {"leaked"}, MoveOn(k, to)
      PROVE OneThreadPerDescriptor'
  BY <1>8 DEF MoveOn, WorkerGoto
<1>9. ASSUME NEW k \in Conns, Close(k) PROVE OneThreadPerDescriptor'
  BY <1>9 DEF Close
<1>10. ASSUME NEW k \in Conns, Detach(k) PROVE OneThreadPerDescriptor'
  BY <1>10 DEF Detach
<1>11. CASE UNCHANGED vars
  BY <1>11 DEF vars
<1> QED
  BY <1>1, <1>2, <1>3, <1>4, <1>5, <1>6, <1>7, <1>8, <1>9, <1>10, <1>11, Steps

\* A descriptor is opened by accept and closed by the thread it was given to.
LEMMA AccountStep == IndInv /\ [Next]_vars => DescriptorsAccounted'
<1> SUFFICES ASSUME IndInv, [Next]_vars PROVE DescriptorsAccounted'
  OBVIOUS
<1> USE DEF IndInv, TypeOK, InService, MakeInv, Holding, DescriptorsAccounted, OneThreadPerDescriptor
<1>1. ASSUME NEW k \in Conns, Accept(k) PROVE DescriptorsAccounted'
  BY <1>1, LowestFree DEF Accept
<1>2. CASE AcceptFails
  BY <1>2 DEF AcceptFails
<1>3. CASE Spawn
  BY <1>3 DEF Spawn
<1>4. CASE FindEntry
  BY <1>4 DEF FindEntry
<1>5. CASE InsertEntry
  BY <1>5 DEF InsertEntry
<1>6. CASE StoreThread
  BY <1>6 DEF StoreThread
<1>7. CASE Die
  BY <1>7 DEF Die
<1>8. ASSUME NEW k \in Conns, NEW to \in InService \cup {"leaked"}, MoveOn(k, to)
      PROVE DescriptorsAccounted'
  BY <1>8 DEF MoveOn, WorkerGoto
<1>9. ASSUME NEW k \in Conns, Close(k) PROVE DescriptorsAccounted'
  BY <1>9 DEF Close
<1>10. ASSUME NEW k \in Conns, Detach(k) PROVE DescriptorsAccounted'
  BY <1>10 DEF Detach
<1>11. CASE UNCHANGED vars
  BY <1>11 DEF vars
<1> QED
  BY <1>1, <1>2, <1>3, <1>4, <1>5, <1>6, <1>7, <1>8, <1>9, <1>10, <1>11, Steps

\* The sets HandlesBalanced counts are finite.
LEMMA CountsFinite ==
    ASSUME TypeOK, NEW f
    PROVE  IsFiniteSet(StoredUnder(f)) /\ IsFiniteSet(DetachedUnder(f))
<1>1. IsFiniteSet(Conns)
  BY BoundAssumption, FS_Interval DEF Conns
<1>2. StoredUnder(f) \subseteq Conns /\ DetachedUnder(f) \subseteq Conns
  BY DEF TypeOK, StoredUnder, DetachedUnder
<1> QED
  BY <1>1, <1>2, FS_Subset

\* Storing a thread and detaching one are the only steps that change the balance of
\* an entry of m_threads, and each changes both sides of it.
LEMMA HandlesStep == IndInv /\ [Next]_vars => HandlesBalanced'
<1> SUFFICES ASSUME IndInv, [Next]_vars, (proc = "running")', NEW f \in Fds
             PROVE  (/\ entry[f] # 0 => wfd[entry[f]] = f
                     /\ Cardinality(StoredUnder(f)) =
                          Cardinality(DetachedUnder(f)) + (IF entry[f] = 0 THEN 0 ELSE 1))'
  BY DEF HandlesBalanced, StoredUnder, DetachedUnder
<1> DEFINE Balanced ==
      /\ entry[f] # 0 => wfd[entry[f]] = f
      /\ Cardinality(StoredUnder(f)) =
           Cardinality(DetachedUnder(f)) + (IF entry[f] = 0 THEN 0 ELSE 1)
<1>0. proc = "running" => Balanced
  BY DEF IndInv, HandlesBalanced, StoredUnder, DetachedUnder
<1>fin. /\ IsFiniteSet(StoredUnder(f)) /\ Cardinality(StoredUnder(f)) \in Nat
        /\ IsFiniteSet(DetachedUnder(f)) /\ Cardinality(DetachedUnder(f)) \in Nat
  BY CountsFinite, FS_CardinalityType DEF IndInv
<1>same. ASSUME proc = "running", UNCHANGED <<entry, wfd, stored>>,
                \A k \in Conns : wpc'[k] = "done" <=> wpc[k] = "done"
         PROVE  Balanced'
  <2>1. StoredUnder(f)' = StoredUnder(f) /\ DetachedUnder(f)' = DetachedUnder(f)
    BY <1>same DEF StoredUnder, DetachedUnder
  <2> QED
    BY <1>0, <1>same, <2>1
<1> USE DEF IndInv, TypeOK
<1>1. ASSUME NEW k \in Conns, Accept(k) PROVE Balanced'
  BY <1>1, <1>same DEF Accept
<1>2. CASE AcceptFails
  BY <1>2, <1>same DEF AcceptFails
<1>3. CASE Spawn
  <2>1. /\ wpc[newConn] = "none" /\ wfd[newConn] = 0
        /\ newConn \in Conns /\ newConn \notin stored
    BY <1>3 DEF Spawn, MakeInv, ThreadInv
  <2>2. \A k \in Conns : k # newConn => wfd'[k] = wfd[k] /\ wpc'[k] = wpc[k]
    BY <1>3 DEF Spawn
  <2>3. wpc[newConn] # "done" /\ wpc'[newConn] # "done"
    BY <1>3, <2>1 DEF Spawn
  <2>4. StoredUnder(f)' = StoredUnder(f) /\ DetachedUnder(f)' = DetachedUnder(f)
    BY <1>3, <2>1, <2>2, <2>3 DEF Spawn, StoredUnder, DetachedUnder
  <2>5. f # 0
    BY BoundAssumption DEF Fds
  <2>6. entry[f] # 0 => entry[f] # newConn
    BY <1>0, <1>3, <2>1, <2>5 DEF Spawn
  <2> QED
    BY <1>0, <1>3, <2>2, <2>4, <2>6 DEF Spawn
<1>4. CASE FindEntry
  BY <1>4, <1>same DEF FindEntry
<1>5. CASE InsertEntry
  BY <1>5, <1>same DEF InsertEntry
<1>6. CASE StoreThread
  <2>1. /\ proc = "running" /\ entry[newFd] = 0
        /\ entry' = [entry EXCEPT ![newFd] = newConn]
        /\ stored' = stored \cup {newConn}
        /\ UNCHANGED <<wfd, wpc>>
    BY <1>6 DEF StoreThread
  <2>2. newConn \in Conns /\ newFd \in Fds /\ wfd[newConn] = newFd /\ newConn \notin stored
    BY <1>6 DEF StoreThread, MakeInv
  <2>3. DetachedUnder(f)' = DetachedUnder(f)
    BY <2>1 DEF DetachedUnder
  <2>4. CASE f = newFd
    <3>1. StoredUnder(f)' = StoredUnder(f) \cup {newConn} /\ newConn \notin StoredUnder(f)
      BY <2>1, <2>2, <2>4 DEF StoredUnder
    <3>2. Cardinality(StoredUnder(f)') = Cardinality(StoredUnder(f)) + 1
      BY <1>fin, <3>1, FS_AddElement
    <3>3. entry'[f] = newConn /\ newConn # 0
      BY <2>1, <2>2, <2>4, BoundAssumption DEF Conns
    <3> QED
      BY <1>0, <1>fin, <2>1, <2>2, <2>3, <2>4, <3>2, <3>3
  <2>5. CASE f # newFd
    <3>1. StoredUnder(f)' = StoredUnder(f) /\ entry'[f] = entry[f]
      BY <2>1, <2>2, <2>5 DEF StoredUnder
    <3> QED
      BY <1>0, <2>1, <2>3, <3>1
  <2> QED
    BY <2>4, <2>5
<1>7. CASE Die
  BY <1>7 DEF Die
<1>8. ASSUME NEW k \in Conns, NEW to \in InService \cup {"leaked"}, MoveOn(k, to)
      PROVE Balanced'
  <2>1. wpc[k] # "done" /\ wpc'[k] # "done" /\ \A j \in Conns : j # k => wpc'[j] = wpc[j]
    BY <1>8 DEF MoveOn, WorkerGoto, InService
  <2> QED
    BY <1>8, <1>same, <2>1 DEF MoveOn, WorkerGoto
<1>9. ASSUME NEW k \in Conns, Close(k) PROVE Balanced'
  <2>1. wpc[k] # "done" /\ wpc'[k] # "done" /\ \A j \in Conns : j # k => wpc'[j] = wpc[j]
    BY <1>9 DEF Close
  <2> QED
    BY <1>9, <1>same, <2>1 DEF Close
<1>10. ASSUME NEW k \in Conns, Detach(k) PROVE Balanced'
  <2>1. /\ proc = "running" /\ wpc[k] = "detach" /\ entry[wfd[k]] # 0
        /\ entry' = [entry EXCEPT ![wfd[k]] = 0]
        /\ wpc' = [wpc EXCEPT ![k] = "done"]
        /\ UNCHANGED <<stored, wfd>>
    BY <1>10 DEF Detach
  <2>2. wfd[k] \in Fds
    BY <2>1 DEF ThreadInv
  <2>3. StoredUnder(f)' = StoredUnder(f)
    BY <2>1 DEF StoredUnder
  <2>4. CASE f = wfd[k]
    <3>1. DetachedUnder(f)' = DetachedUnder(f) \cup {k} /\ k \notin DetachedUnder(f)
      BY <2>1, <2>4 DEF DetachedUnder
    <3>2. Cardinality(DetachedUnder(f)') = Cardinality(DetachedUnder(f)) + 1
      BY <1>fin, <3>1, FS_AddElement
    <3>3. entry'[f] = 0 /\ entry[f] # 0
      BY <2>1, <2>2, <2>4
    <3> QED
      BY <1>0, <1>fin, <2>1, <2>3, <3>2, <3>3
  <2>5. CASE f # wfd[k]
    <3>1. DetachedUnder(f)' = DetachedUnder(f) /\ entry'[f] = entry[f]
      BY <2>1, <2>5 DEF DetachedUnder
    <3> QED
      BY <1>0, <2>1, <2>3, <3>1
  <2> QED
    BY <2>4, <2>5
<1>11. CASE UNCHANGED vars
  BY <1>11, <1>same DEF vars
<1> QED
  BY <1>1, <1>2, <1>3, <1>4, <1>5, <1>6, <1>7, <1>8, <1>9, <1>10, <1>11, Steps

-----------------------------------------------------------------------------

\* The invariant holds in every reachable state.
THEOREM Invariance == Spec => []IndInv
<1>1. IndInv /\ [Next]_vars => IndInv'
  BY TypeStep, ThreadStep, MakeStep, OneStep, AccountStep, HandlesStep DEF IndInv
<1> QED
  BY InitInd, <1>1, PTL DEF Spec

\* The variables keep their types: in particular accept's descriptor and the entry
\* of m_threads it selects exist whenever they are used.
THEOREM TypeCorrect == Spec => []TypeOK
<1>1. IndInv => TypeOK
  BY DEF IndInv
<1> QED
  BY Invariance, <1>1, PTL

\* No two threads of startListening ever serve the same descriptor.
THEOREM DescriptorsExclusive == Spec => []OneThreadPerDescriptor
<1>1. IndInv => OneThreadPerDescriptor
  BY DEF IndInv
<1> QED
  BY Invariance, <1>1, PTL

\* The only descriptors leaked are those of the early return after a failed send.
THEOREM DescriptorsBalance == Spec => []DescriptorsAccounted
<1>1. IndInv => DescriptorsAccounted
  BY DEF IndInv
<1> QED
  BY Invariance, <1>1, PTL

\* As many handles are detached as were stored, but for the one an entry holds.
THEOREM HandlesBalance == Spec => []HandlesBalanced
<1>1. IndInv => HandlesBalanced
  BY DEF IndInv
<1> QED
  BY Invariance, <1>1, PTL

=============================================================================
