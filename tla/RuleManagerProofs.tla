-------------------------- MODULE RuleManagerProofs --------------------------
(***************************************************************************)
(* Proofs about RuleManager for any number of connections, rule sets,      *)
(* packets and heap addresses.                                             *)
(***************************************************************************)
EXTENDS RuleManager, TLAPS

\* m_mutexRules is held exactly by the thread between lockRules and unlockRules.
LockInv == \A t \in Threads : mutex = t <=> Critical(t)

\* Requests are served, and packets judged, only after RuleManager::init.
BootInv ==
    /\ proc = "booting" => pc[Filter] \in {"load", "init"}
    /\ proc = "running" => pc[Filter] \notin {"load", "init"}
    /\ pc[Filter] \in {"load", "init"} => \A c \in Conns : pc[c] = "recv"
    /\ pc[Filter] = "load" => m_rules = NULL
    /\ pc[Filter] \notin {"load", "init"} => m_rules # NULL

\* Where a connection is in handle() tells what it is handling.
ReqInv ==
    \A c \in Conns :
        /\ pc[c] = "recv" => req[c] = NoReq
        /\ pc[c] = "toJson" => req[c].opt = "query" /\ ptr[c] # NULL
        /\ pc[c] \in {"lock", "delete", "assign", "unlock"} =>
               req[c].opt = "update" /\ req[c].data \in RuleSets
        /\ pc[c] = "setEnabled" =>
               req[c].opt = "update" /\ req[c].data # BadElement

\* The collections alive are m_rules and the ones being built, all distinct, and
\* each one being built holds the rules of its request.
HeapInv ==
    /\ m_rules # NULL /\ ~Replacing => m_rules \in heap
    /\ \A c \in Building :
           /\ ptr[c] \in heap
           /\ content[ptr[c]] = req[c].data
           /\ ~Replacing => ptr[c] # m_rules
    /\ \A c, d \in Building : c # d => ptr[c] # ptr[d]
    /\ \A o \in heap : (o = m_rules /\ ~Replacing) \/ \E c \in Building : o = ptr[c]

\* What the filtering thread walks over is m_rules.
WalkInv == pc[Filter] = "checking" => ptr[Filter] = m_rules

IndInv == TypeOK /\ LockInv /\ BootInv /\ ReqInv /\ HeapInv /\ WalkInv

-----------------------------------------------------------------------------

USE DEF Goto, ruleVars, connVars, jobVars, Threads

\* The state static construction leaves satisfies the invariant.
LEMMA InitInd == Init => IndInv
<1> SUFFICES ASSUME Init PROVE IndInv
  OBVIOUS
<1> USE DataAssumption, ThreadAssumption DEF Init
<1>1. TypeOK
  BY DEF TypeOK, FilterPcs, ConnPcs, Answers, Garbage, NoReq
<1>2. LockInv /\ BootInv /\ WalkInv
  BY DEF LockInv, BootInv, WalkInv, Critical
<1>3. ReqInv /\ HeapInv
  BY DEF ReqInv, HeapInv, Building, Replacing
<1> QED
  BY <1>1, <1>2, <1>3 DEF IndInv

\* Every step keeps the variables in their types.
LEMMA TypeStep == IndInv /\ [Next]_vars => TypeOK'
<1> SUFFICES ASSUME IndInv, [Next]_vars PROVE TypeOK'
  OBVIOUS
<1> USE DataAssumption, ThreadAssumption
   DEF IndInv, TypeOK, FilterPcs, ConnPcs, Answers, Garbage, NoReq, ReqInv, BootInv
<1>1. ASSUME NEW R \in RuleSets, NEW o \in Objects, LoadRulesFile(R, o) PROVE TypeOK'
  BY <1>1 DEF LoadRulesFile
<1>2. CASE NoRulesFile
  BY <1>2 DEF NoRulesFile
<1>3. CASE UnusableRulesFile
  BY <1>3 DEF UnusableRulesFile
<1>4. ASSUME NEW o \in Objects, InitManager(o) PROVE TypeOK'
  BY <1>4 DEF InitManager
<1>5. CASE StartFilter
  BY <1>5 DEF StartFilter
<1>6. CASE StartFilterFails
  BY <1>6 DEF StartFilterFails
<1>7. ASSUME NEW p \in Packets, JudgePacket(p) PROVE TypeOK'
  BY <1>7 DEF JudgePacket
<1>8. ASSUME NEW t \in Threads, LockRules(t) PROVE TypeOK'
  BY <1>8 DEF LockRules
<1>9. ASSUME NEW t \in Threads, UnlockRules(t) PROVE TypeOK'
  BY <1>9 DEF UnlockRules
<1>10. CASE JudgeDisabled
  BY <1>10 DEF JudgeDisabled
<1>11. CASE JudgeEnabled
  BY <1>11 DEF JudgeEnabled
<1>12. CASE BeginCheck
  BY <1>12 DEF BeginCheck
<1>13. CASE EndCheck
  BY <1>13 DEF EndCheck
<1>14. CASE GiveVerdict
  BY <1>14 DEF GiveVerdict
<1>15. ASSUME NEW c \in Conns, NEW q \in Requests, RecvRequest(c, q) PROVE TypeOK'
  BY <1>15 DEF RecvRequest
<1>16. ASSUME NEW c \in Conns, HandleSimple(c) PROVE TypeOK'
  BY <1>16 DEF HandleSimple, Answer
<1>17. ASSUME NEW c \in Conns, HandleScalar(c) PROVE TypeOK'
  BY <1>17 DEF HandleScalar
<1>18. ASSUME NEW c \in Conns, HandleQuery(c) PROVE TypeOK'
  BY <1>18 DEF HandleQuery
<1>19. ASSUME NEW c \in Conns, ToJson(c) PROVE TypeOK'
  BY <1>19 DEF ToJson
<1>20. ASSUME NEW c \in Conns, ToJsonDangling(c) PROVE TypeOK'
  BY <1>20 DEF ToJsonDangling
<1>21. ASSUME NEW c \in Conns, NEW o \in Objects, LoadNew(c, o) PROVE TypeOK'
  BY <1>21 DEF LoadNew
<1>22. ASSUME NEW c \in Conns, LoadThrows(c) PROVE TypeOK'
  BY <1>22 DEF LoadThrows
<1>23. ASSUME NEW c \in Conns, LoadNothing(c) PROVE TypeOK'
  BY <1>23 DEF LoadNothing
<1>24. ASSUME NEW c \in Conns, DeleteRules(c) PROVE TypeOK'
  BY <1>24 DEF DeleteRules
<1>25. ASSUME NEW c \in Conns, AssignRules(c) PROVE TypeOK'
  BY <1>25 DEF AssignRules
<1>26. ASSUME NEW c \in Conns, SetEnabled(c) PROVE TypeOK'
  BY <1>26 DEF SetEnabled
<1>27. ASSUME NEW c \in Conns, SendRsp(c) PROVE TypeOK'
  BY <1>27 DEF SendRsp
<1>28. CASE UNCHANGED vars
  BY <1>28 DEF vars
<1> QED
  BY <1>1, <1>2, <1>3, <1>4, <1>5, <1>6, <1>7, <1>8, <1>9, <1>10, <1>11, <1>12, <1>13,
     <1>14, <1>15, <1>16, <1>17, <1>18, <1>19, <1>20, <1>21, <1>22, <1>23, <1>24, <1>25,
     <1>26, <1>27, <1>28
     DEF Next, Boot, FilterStep, ConnStep, Threads

\* Only LockRules and UnlockRules cross the border of the critical sections.
LEMMA LockStep == IndInv /\ [Next]_vars => LockInv'
<1> SUFFICES ASSUME IndInv, [Next]_vars PROVE LockInv'
  OBVIOUS
<1> USE DataAssumption, ThreadAssumption
   DEF IndInv, TypeOK, FilterPcs, ConnPcs, LockInv, Critical, BootInv
<1>1. ASSUME NEW R \in RuleSets, NEW o \in Objects, LoadRulesFile(R, o) PROVE LockInv'
  BY <1>1 DEF LoadRulesFile
<1>2. CASE NoRulesFile
  BY <1>2 DEF NoRulesFile
<1>3. CASE UnusableRulesFile
  BY <1>3 DEF UnusableRulesFile
<1>4. ASSUME NEW o \in Objects, InitManager(o) PROVE LockInv'
  BY <1>4 DEF InitManager
<1>5. CASE StartFilter
  BY <1>5 DEF StartFilter
<1>6. CASE StartFilterFails
  BY <1>6 DEF StartFilterFails
<1>7. ASSUME NEW p \in Packets, JudgePacket(p) PROVE LockInv'
  BY <1>7 DEF JudgePacket
<1>8. ASSUME NEW t \in Threads, LockRules(t) PROVE LockInv'
  BY <1>8 DEF LockRules
<1>9. ASSUME NEW t \in Threads, UnlockRules(t) PROVE LockInv'
  BY <1>9 DEF UnlockRules
<1>10. CASE JudgeDisabled
  BY <1>10 DEF JudgeDisabled
<1>11. CASE JudgeEnabled
  BY <1>11 DEF JudgeEnabled
<1>12. CASE BeginCheck
  BY <1>12 DEF BeginCheck
<1>13. CASE EndCheck
  BY <1>13 DEF EndCheck
<1>14. CASE GiveVerdict
  BY <1>14 DEF GiveVerdict
<1>15. ASSUME NEW c \in Conns, NEW q \in Requests, RecvRequest(c, q) PROVE LockInv'
  BY <1>15 DEF RecvRequest
<1>16. ASSUME NEW c \in Conns, HandleSimple(c) PROVE LockInv'
  BY <1>16 DEF HandleSimple, Answer
<1>17. ASSUME NEW c \in Conns, HandleScalar(c) PROVE LockInv'
  BY <1>17 DEF HandleScalar
<1>18. ASSUME NEW c \in Conns, HandleQuery(c) PROVE LockInv'
  BY <1>18 DEF HandleQuery
<1>19. ASSUME NEW c \in Conns, ToJson(c) PROVE LockInv'
  BY <1>19 DEF ToJson
<1>20. ASSUME NEW c \in Conns, ToJsonDangling(c) PROVE LockInv'
  BY <1>20 DEF ToJsonDangling
<1>21. ASSUME NEW c \in Conns, NEW o \in Objects, LoadNew(c, o) PROVE LockInv'
  BY <1>21 DEF LoadNew
<1>22. ASSUME NEW c \in Conns, LoadThrows(c) PROVE LockInv'
  BY <1>22 DEF LoadThrows
<1>23. ASSUME NEW c \in Conns, LoadNothing(c) PROVE LockInv'
  BY <1>23 DEF LoadNothing
<1>24. ASSUME NEW c \in Conns, DeleteRules(c) PROVE LockInv'
  BY <1>24 DEF DeleteRules
<1>25. ASSUME NEW c \in Conns, AssignRules(c) PROVE LockInv'
  BY <1>25 DEF AssignRules
<1>26. ASSUME NEW c \in Conns, SetEnabled(c) PROVE LockInv'
  BY <1>26 DEF SetEnabled
<1>27. ASSUME NEW c \in Conns, SendRsp(c) PROVE LockInv'
  BY <1>27 DEF SendRsp
<1>28. CASE UNCHANGED vars
  BY <1>28 DEF vars
<1> QED
  BY <1>1, <1>2, <1>3, <1>4, <1>5, <1>6, <1>7, <1>8, <1>9, <1>10, <1>11, <1>12, <1>13,
     <1>14, <1>15, <1>16, <1>17, <1>18, <1>19, <1>20, <1>21, <1>22, <1>23, <1>24, <1>25,
     <1>26, <1>27, <1>28
     DEF Next, Boot, FilterStep, ConnStep, Threads

\* init() is over before any other thread runs, and m_rules is never NULL after it.
LEMMA BootStep == IndInv /\ [Next]_vars => BootInv'
<1> SUFFICES ASSUME IndInv, [Next]_vars PROVE BootInv'
  OBVIOUS
<1> USE DataAssumption, ThreadAssumption
   DEF IndInv, TypeOK, FilterPcs, ConnPcs, BootInv, HeapInv, Building
<1>1. ASSUME NEW R \in RuleSets, NEW o \in Objects, LoadRulesFile(R, o) PROVE BootInv'
  BY <1>1 DEF LoadRulesFile
<1>2. CASE NoRulesFile
  BY <1>2 DEF NoRulesFile
<1>3. CASE UnusableRulesFile
  BY <1>3 DEF UnusableRulesFile
<1>4. ASSUME NEW o \in Objects, InitManager(o) PROVE BootInv'
  BY <1>4 DEF InitManager
<1>5. CASE StartFilter
  BY <1>5 DEF StartFilter
<1>6. CASE StartFilterFails
  BY <1>6 DEF StartFilterFails
<1>7. ASSUME NEW p \in Packets, JudgePacket(p) PROVE BootInv'
  BY <1>7 DEF JudgePacket
<1>8. ASSUME NEW t \in Threads, LockRules(t) PROVE BootInv'
  BY <1>8 DEF LockRules
<1>9. ASSUME NEW t \in Threads, UnlockRules(t) PROVE BootInv'
  BY <1>9 DEF UnlockRules
<1>10. CASE JudgeDisabled
  BY <1>10 DEF JudgeDisabled
<1>11. CASE JudgeEnabled
  BY <1>11 DEF JudgeEnabled
<1>12. CASE BeginCheck
  BY <1>12 DEF BeginCheck
<1>13. CASE EndCheck
  BY <1>13 DEF EndCheck
<1>14. CASE GiveVerdict
  BY <1>14 DEF GiveVerdict
<1>15. ASSUME NEW c \in Conns, NEW q \in Requests, RecvRequest(c, q) PROVE BootInv'
  BY <1>15 DEF RecvRequest
<1>16. ASSUME NEW c \in Conns, HandleSimple(c) PROVE BootInv'
  BY <1>16 DEF HandleSimple, Answer
<1>17. ASSUME NEW c \in Conns, HandleScalar(c) PROVE BootInv'
  BY <1>17 DEF HandleScalar
<1>18. ASSUME NEW c \in Conns, HandleQuery(c) PROVE BootInv'
  BY <1>18 DEF HandleQuery
<1>19. ASSUME NEW c \in Conns, ToJson(c) PROVE BootInv'
  BY <1>19 DEF ToJson
<1>20. ASSUME NEW c \in Conns, ToJsonDangling(c) PROVE BootInv'
  BY <1>20 DEF ToJsonDangling
<1>21. ASSUME NEW c \in Conns, NEW o \in Objects, LoadNew(c, o) PROVE BootInv'
  BY <1>21 DEF LoadNew
<1>22. ASSUME NEW c \in Conns, LoadThrows(c) PROVE BootInv'
  BY <1>22 DEF LoadThrows
<1>23. ASSUME NEW c \in Conns, LoadNothing(c) PROVE BootInv'
  BY <1>23 DEF LoadNothing
<1>24. ASSUME NEW c \in Conns, DeleteRules(c) PROVE BootInv'
  BY <1>24 DEF DeleteRules
<1>25. ASSUME NEW c \in Conns, AssignRules(c) PROVE BootInv'
  BY <1>25 DEF AssignRules
<1>26. ASSUME NEW c \in Conns, SetEnabled(c) PROVE BootInv'
  BY <1>26 DEF SetEnabled
<1>27. ASSUME NEW c \in Conns, SendRsp(c) PROVE BootInv'
  BY <1>27 DEF SendRsp
<1>28. CASE UNCHANGED vars
  BY <1>28 DEF vars
<1> QED
  BY <1>1, <1>2, <1>3, <1>4, <1>5, <1>6, <1>7, <1>8, <1>9, <1>10, <1>11, <1>12, <1>13,
     <1>14, <1>15, <1>16, <1>17, <1>18, <1>19, <1>20, <1>21, <1>22, <1>23, <1>24, <1>25,
     <1>26, <1>27, <1>28
     DEF Next, Boot, FilterStep, ConnStep, Threads

\* handle() does what the request in hand asks for.
LEMMA ReqStep == IndInv /\ [Next]_vars => ReqInv'
<1> SUFFICES ASSUME IndInv, [Next]_vars PROVE ReqInv'
  OBVIOUS
<1> USE DataAssumption, ThreadAssumption
   DEF IndInv, TypeOK, FilterPcs, ConnPcs, ReqInv, BootInv, Requests, NoReq
<1>1. ASSUME NEW R \in RuleSets, NEW o \in Objects, LoadRulesFile(R, o) PROVE ReqInv'
  BY <1>1 DEF LoadRulesFile
<1>2. CASE NoRulesFile
  BY <1>2 DEF NoRulesFile
<1>3. CASE UnusableRulesFile
  BY <1>3 DEF UnusableRulesFile
<1>4. ASSUME NEW o \in Objects, InitManager(o) PROVE ReqInv'
  BY <1>4 DEF InitManager
<1>5. CASE StartFilter
  BY <1>5 DEF StartFilter
<1>6. CASE StartFilterFails
  BY <1>6 DEF StartFilterFails
<1>7. ASSUME NEW p \in Packets, JudgePacket(p) PROVE ReqInv'
  BY <1>7 DEF JudgePacket
<1>8. ASSUME NEW t \in Threads, LockRules(t) PROVE ReqInv'
  BY <1>8 DEF LockRules
<1>9. ASSUME NEW t \in Threads, UnlockRules(t) PROVE ReqInv'
  BY <1>9 DEF UnlockRules
<1>10. CASE JudgeDisabled
  BY <1>10 DEF JudgeDisabled
<1>11. CASE JudgeEnabled
  BY <1>11 DEF JudgeEnabled
<1>12. CASE BeginCheck
  BY <1>12 DEF BeginCheck
<1>13. CASE EndCheck
  BY <1>13 DEF EndCheck
<1>14. CASE GiveVerdict
  BY <1>14 DEF GiveVerdict
<1>15. ASSUME NEW c \in Conns, NEW q \in Requests, RecvRequest(c, q) PROVE ReqInv'
  BY <1>15 DEF RecvRequest
<1>16. ASSUME NEW c \in Conns, HandleSimple(c) PROVE ReqInv'
  BY <1>16 DEF HandleSimple, Answer
<1>17. ASSUME NEW c \in Conns, HandleScalar(c) PROVE ReqInv'
  BY <1>17 DEF HandleScalar
<1>18. ASSUME NEW c \in Conns, HandleQuery(c) PROVE ReqInv'
  BY <1>18 DEF HandleQuery
<1>19. ASSUME NEW c \in Conns, ToJson(c) PROVE ReqInv'
  BY <1>19 DEF ToJson
<1>20. ASSUME NEW c \in Conns, ToJsonDangling(c) PROVE ReqInv'
  BY <1>20 DEF ToJsonDangling
<1>21. ASSUME NEW c \in Conns, NEW o \in Objects, LoadNew(c, o) PROVE ReqInv'
  BY <1>21 DEF LoadNew
<1>22. ASSUME NEW c \in Conns, LoadThrows(c) PROVE ReqInv'
  BY <1>22 DEF LoadThrows
<1>23. ASSUME NEW c \in Conns, LoadNothing(c) PROVE ReqInv'
  BY <1>23 DEF LoadNothing
<1>24. ASSUME NEW c \in Conns, DeleteRules(c) PROVE ReqInv'
  BY <1>24 DEF DeleteRules
<1>25. ASSUME NEW c \in Conns, AssignRules(c) PROVE ReqInv'
  BY <1>25 DEF AssignRules
<1>26. ASSUME NEW c \in Conns, SetEnabled(c) PROVE ReqInv'
  BY <1>26 DEF SetEnabled
<1>27. ASSUME NEW c \in Conns, SendRsp(c) PROVE ReqInv'
  BY <1>27 DEF SendRsp
<1>28. CASE UNCHANGED vars
  BY <1>28 DEF vars
<1> QED
  BY <1>1, <1>2, <1>3, <1>4, <1>5, <1>6, <1>7, <1>8, <1>9, <1>10, <1>11, <1>12, <1>13,
     <1>14, <1>15, <1>16, <1>17, <1>18, <1>19, <1>20, <1>21, <1>22, <1>23, <1>24, <1>25,
     <1>26, <1>27, <1>28
     DEF Next, Boot, FilterStep, ConnStep, Threads

\* Loading, deleting and assigning collections keep each one owned once.
LEMMA HeapStep == IndInv /\ [Next]_vars => HeapInv'
<1> SUFFICES ASSUME IndInv, [Next]_vars PROVE HeapInv'
  OBVIOUS
<1> USE DataAssumption, ThreadAssumption
   DEF IndInv, TypeOK, FilterPcs, ConnPcs, HeapInv, LockInv, Critical, Building,
       Replacing, BootInv, ReqInv
<1>1. ASSUME NEW R \in RuleSets, NEW o \in Objects, LoadRulesFile(R, o) PROVE HeapInv'
  BY <1>1 DEF LoadRulesFile
<1>2. CASE NoRulesFile
  BY <1>2 DEF NoRulesFile
<1>3. CASE UnusableRulesFile
  BY <1>3 DEF UnusableRulesFile
<1>4. ASSUME NEW o \in Objects, InitManager(o) PROVE HeapInv'
  BY <1>4 DEF InitManager
<1>5. CASE StartFilter
  BY <1>5 DEF StartFilter
<1>6. CASE StartFilterFails
  BY <1>6 DEF StartFilterFails
<1>7. ASSUME NEW p \in Packets, JudgePacket(p) PROVE HeapInv'
  BY <1>7 DEF JudgePacket
<1>8. ASSUME NEW t \in Threads, LockRules(t) PROVE HeapInv'
  BY <1>8 DEF LockRules
<1>9. ASSUME NEW t \in Threads, UnlockRules(t) PROVE HeapInv'
  BY <1>9 DEF UnlockRules
<1>10. CASE JudgeDisabled
  BY <1>10 DEF JudgeDisabled
<1>11. CASE JudgeEnabled
  BY <1>11 DEF JudgeEnabled
<1>12. CASE BeginCheck
  BY <1>12 DEF BeginCheck
<1>13. CASE EndCheck
  BY <1>13 DEF EndCheck
<1>14. CASE GiveVerdict
  BY <1>14 DEF GiveVerdict
<1>15. ASSUME NEW c \in Conns, NEW q \in Requests, RecvRequest(c, q) PROVE HeapInv'
  BY <1>15 DEF RecvRequest
<1>16. ASSUME NEW c \in Conns, HandleSimple(c) PROVE HeapInv'
  BY <1>16 DEF HandleSimple, Answer
<1>17. ASSUME NEW c \in Conns, HandleScalar(c) PROVE HeapInv'
  BY <1>17 DEF HandleScalar
<1>18. ASSUME NEW c \in Conns, HandleQuery(c) PROVE HeapInv'
  BY <1>18 DEF HandleQuery
<1>19. ASSUME NEW c \in Conns, ToJson(c) PROVE HeapInv'
  BY <1>19 DEF ToJson
<1>20. ASSUME NEW c \in Conns, ToJsonDangling(c) PROVE HeapInv'
  BY <1>20 DEF ToJsonDangling
<1>21. ASSUME NEW c \in Conns, NEW o \in Objects, LoadNew(c, o) PROVE HeapInv'
  BY <1>21 DEF LoadNew
<1>22. ASSUME NEW c \in Conns, LoadThrows(c) PROVE HeapInv'
  BY <1>22 DEF LoadThrows
<1>23. ASSUME NEW c \in Conns, LoadNothing(c) PROVE HeapInv'
  BY <1>23 DEF LoadNothing
<1>24. ASSUME NEW c \in Conns, DeleteRules(c) PROVE HeapInv'
  BY <1>24 DEF DeleteRules
<1>25. ASSUME NEW c \in Conns, AssignRules(c) PROVE HeapInv'
  BY <1>25 DEF AssignRules
<1>26. ASSUME NEW c \in Conns, SetEnabled(c) PROVE HeapInv'
  BY <1>26 DEF SetEnabled
<1>27. ASSUME NEW c \in Conns, SendRsp(c) PROVE HeapInv'
  BY <1>27 DEF SendRsp
<1>28. CASE UNCHANGED vars
  BY <1>28 DEF vars
<1> QED
  BY <1>1, <1>2, <1>3, <1>4, <1>5, <1>6, <1>7, <1>8, <1>9, <1>10, <1>11, <1>12, <1>13,
     <1>14, <1>15, <1>16, <1>17, <1>18, <1>19, <1>20, <1>21, <1>22, <1>23, <1>24, <1>25,
     <1>26, <1>27, <1>28
     DEF Next, Boot, FilterStep, ConnStep, Threads

\* No update replaces m_rules while the judge walks over it.
LEMMA WalkStep == IndInv /\ [Next]_vars => WalkInv'
<1> SUFFICES ASSUME IndInv, [Next]_vars PROVE WalkInv'
  OBVIOUS
<1> USE DataAssumption, ThreadAssumption
   DEF IndInv, TypeOK, FilterPcs, ConnPcs, WalkInv, LockInv, Critical, BootInv
<1>1. ASSUME NEW R \in RuleSets, NEW o \in Objects, LoadRulesFile(R, o) PROVE WalkInv'
  BY <1>1 DEF LoadRulesFile
<1>2. CASE NoRulesFile
  BY <1>2 DEF NoRulesFile
<1>3. CASE UnusableRulesFile
  BY <1>3 DEF UnusableRulesFile
<1>4. ASSUME NEW o \in Objects, InitManager(o) PROVE WalkInv'
  BY <1>4 DEF InitManager
<1>5. CASE StartFilter
  BY <1>5 DEF StartFilter
<1>6. CASE StartFilterFails
  BY <1>6 DEF StartFilterFails
<1>7. ASSUME NEW p \in Packets, JudgePacket(p) PROVE WalkInv'
  BY <1>7 DEF JudgePacket
<1>8. ASSUME NEW t \in Threads, LockRules(t) PROVE WalkInv'
  BY <1>8 DEF LockRules
<1>9. ASSUME NEW t \in Threads, UnlockRules(t) PROVE WalkInv'
  BY <1>9 DEF UnlockRules
<1>10. CASE JudgeDisabled
  BY <1>10 DEF JudgeDisabled
<1>11. CASE JudgeEnabled
  BY <1>11 DEF JudgeEnabled
<1>12. CASE BeginCheck
  BY <1>12 DEF BeginCheck
<1>13. CASE EndCheck
  BY <1>13 DEF EndCheck
<1>14. CASE GiveVerdict
  BY <1>14 DEF GiveVerdict
<1>15. ASSUME NEW c \in Conns, NEW q \in Requests, RecvRequest(c, q) PROVE WalkInv'
  BY <1>15 DEF RecvRequest
<1>16. ASSUME NEW c \in Conns, HandleSimple(c) PROVE WalkInv'
  BY <1>16 DEF HandleSimple, Answer
<1>17. ASSUME NEW c \in Conns, HandleScalar(c) PROVE WalkInv'
  BY <1>17 DEF HandleScalar
<1>18. ASSUME NEW c \in Conns, HandleQuery(c) PROVE WalkInv'
  BY <1>18 DEF HandleQuery
<1>19. ASSUME NEW c \in Conns, ToJson(c) PROVE WalkInv'
  BY <1>19 DEF ToJson
<1>20. ASSUME NEW c \in Conns, ToJsonDangling(c) PROVE WalkInv'
  BY <1>20 DEF ToJsonDangling
<1>21. ASSUME NEW c \in Conns, NEW o \in Objects, LoadNew(c, o) PROVE WalkInv'
  BY <1>21 DEF LoadNew
<1>22. ASSUME NEW c \in Conns, LoadThrows(c) PROVE WalkInv'
  BY <1>22 DEF LoadThrows
<1>23. ASSUME NEW c \in Conns, LoadNothing(c) PROVE WalkInv'
  BY <1>23 DEF LoadNothing
<1>24. ASSUME NEW c \in Conns, DeleteRules(c) PROVE WalkInv'
  BY <1>24 DEF DeleteRules
<1>25. ASSUME NEW c \in Conns, AssignRules(c) PROVE WalkInv'
  BY <1>25 DEF AssignRules
<1>26. ASSUME NEW c \in Conns, SetEnabled(c) PROVE WalkInv'
  BY <1>26 DEF SetEnabled
<1>27. ASSUME NEW c \in Conns, SendRsp(c) PROVE WalkInv'
  BY <1>27 DEF SendRsp
<1>28. CASE UNCHANGED vars
  BY <1>28 DEF vars
<1> QED
  BY <1>1, <1>2, <1>3, <1>4, <1>5, <1>6, <1>7, <1>8, <1>9, <1>10, <1>11, <1>12, <1>13,
     <1>14, <1>15, <1>16, <1>17, <1>18, <1>19, <1>20, <1>21, <1>22, <1>23, <1>24, <1>25,
     <1>26, <1>27, <1>28
     DEF Next, Boot, FilterStep, ConnStep, Threads

\* IndInv is an inductive invariant of RuleManager.
THEOREM IndInvariant == Spec => []IndInv
<1>1. IndInv /\ [Next]_vars => IndInv'
  BY TypeStep, LockStep, BootStep, ReqStep, HeapStep, WalkStep DEF IndInv
<1> QED
  BY InitInd, <1>1, PTL DEF Spec

-----------------------------------------------------------------------------
(***************************************************************************)
(* What follows from it.                                                   *)
(***************************************************************************)

\* The variables of RuleManager keep their types: in particular toJson and check
\* never follow a null m_rules, because init() runs before the threads start.
THEOREM TypeCorrect == Spec => []TypeOK
  BY IndInvariant, PTL DEF IndInv

\* lockRules ... unlockRules excludes: of the judge and all the updates at most
\* one is between them.
THEOREM MutualExclusion ==
    Spec => [](\A t, u \in Threads : Critical(t) /\ Critical(u) => t = u)
<1>1. IndInv => \A t, u \in Threads : Critical(t) /\ Critical(u) => t = u
  BY DEF IndInv, LockInv
<1> QED
  BY IndInvariant, <1>1, PTL

\* loadConfigFromJson in any number of connections neither leaks a collection
\* nor frees one twice.
THEOREM Ownership == Spec => []OwnershipExact
<1>1. IndInv => OwnershipExact
  BY DEF IndInv, OwnershipExact, HeapInv, BootInv, Building
<1> QED
  BY IndInvariant, <1>1, PTL

\* RuleCollection::check walks over the current collection, alive, to its end.
THEOREM JudgeSafe == Spec => []JudgeReadsLiveRules
<1>1. IndInv => JudgeReadsLiveRules
  BY ThreadAssumption
     DEF IndInv, JudgeReadsLiveRules, WalkInv, HeapInv, LockInv, Critical, BootInv,
         Replacing
<1> QED
  BY IndInvariant, <1>1, PTL

-----------------------------------------------------------------------------
(***************************************************************************)
(* RuleManager implements PolicyService.                                   *)
(***************************************************************************)

\* What PolicyService sees of the connections, and of the end of init().
AbsTodo == [c \in Conns |-> Todo(c)]
AbsOpened == pc[Filter] \notin {"load", "init"}

\* A step that changes neither m_rules, nor the contents, nor who replaces m_rules
\* by what, leaves the policy alone.
LEMMA PolicyFrame ==
    ASSUME IndInv, UNCHANGED <<m_rules, content>>,
           \A c \in Conns : pc'[c] = "assign" <=> pc[c] = "assign",
           \A c \in Conns : pc[c] = "assign" => mutex' = mutex /\ ptr'[c] = ptr[c]
    PROVE  Policy' = Policy
  BY DEF Policy, Replacing, IndInv, LockInv, Critical

\* A step of the filtering thread leaves what is left to do of the updates alone.
LEMMA TodoFrame ==
    ASSUME UNCHANGED req, \A c \in Conns : pc'[c] = pc[c]
    PROVE  AbsTodo' = AbsTodo
  BY DEF AbsTodo, Todo

\* Each step of RuleManager is one step of PolicyService or changes nothing that
\* PolicyService shows.
LEMMA StepRefines ==
    IndInv /\ IndInv' /\ [Next]_vars => [Abstract!Next]_Abstract!vars
<1> SUFFICES ASSUME IndInv, IndInv', [Next]_vars
             PROVE  [Abstract!Next]_Abstract!vars
  OBVIOUS
<1> USE DataAssumption, ThreadAssumption
<1>1. ASSUME NEW R \in RuleSets, NEW o \in Objects, LoadRulesFile(R, o)
      PROVE  Abstract!LoadFile(R)
  <2>1. Policy' = R
    BY <1>1
       DEF LoadRulesFile, IndInv, TypeOK, Policy, Replacing, HeapInv, Building, LockInv,
           Critical, BootInv, ReqInv, AbsTodo, Todo
  <2>2. AbsTodo' = AbsTodo
    BY <1>1
       DEF LoadRulesFile, IndInv, TypeOK, ReqInv, Requests, NoReq, AbsTodo, Todo,
           Abstract!NoUpdate
  <2>3. Stage' = Stage /\ ~AbsOpened /\ ~AbsOpened'
    BY <1>1
       DEF LoadRulesFile, IndInv, TypeOK, FilterPcs, ConnPcs, BootInv, AbsOpened, Stage
  <2> QED
    BY <1>1, <2>1, <2>2, <2>3
       DEF LoadRulesFile, Abstract!LoadFile, AbsTodo, AbsOpened, Abstract!vars,
           Abstract!jobVars
<1>2. ASSUME NoRulesFile PROVE UNCHANGED Abstract!vars
  <2>1. Policy' = Policy
    BY <1>2, PolicyFrame DEF NoRulesFile, IndInv, TypeOK, LockInv, Critical, BootInv
  <2>2. AbsTodo' = AbsTodo
    BY <1>2, TodoFrame DEF NoRulesFile, IndInv, TypeOK
  <2>3. Stage' = Stage /\ AbsOpened' = AbsOpened
    BY <1>2 DEF NoRulesFile, IndInv, TypeOK, FilterPcs, ConnPcs, BootInv, AbsOpened, Stage
  <2> QED
    BY <1>2, <2>1, <2>2, <2>3
    DEF NoRulesFile, AbsTodo, AbsOpened, Abstract!vars, Abstract!jobVars
<1>3. ASSUME UnusableRulesFile PROVE UNCHANGED Abstract!vars
  <2>1. Policy' = Policy
    BY <1>3, PolicyFrame DEF UnusableRulesFile, IndInv, TypeOK, LockInv, Critical, BootInv
  <2>2. AbsTodo' = AbsTodo
    BY <1>3, TodoFrame DEF UnusableRulesFile, IndInv, TypeOK
  <2>3. Stage' = Stage /\ AbsOpened' = AbsOpened
    BY <1>3
       DEF UnusableRulesFile, IndInv, TypeOK, FilterPcs, ConnPcs, BootInv, AbsOpened,
           Stage
  <2> QED
    BY <1>3, <2>1, <2>2, <2>3
    DEF UnusableRulesFile, AbsTodo, AbsOpened, Abstract!vars, Abstract!jobVars
<1>4. ASSUME NEW o \in Objects, InitManager(o) PROVE Abstract!Open
  <2>1. Policy' = (IF Policy = NULL THEN EmptyRules ELSE Policy)
    BY <1>4
       DEF InitManager, IndInv, TypeOK, Policy, Replacing, HeapInv, Building, LockInv,
           Critical, BootInv, ReqInv, AbsTodo, Todo
  <2>2. AbsTodo' = AbsTodo
    BY <1>4
       DEF InitManager, IndInv, TypeOK, ReqInv, Requests, NoReq, AbsTodo, Todo,
           Abstract!NoUpdate
  <2>3. Stage' = Stage /\ ~AbsOpened /\ AbsOpened'
    BY <1>4 DEF InitManager, IndInv, TypeOK, FilterPcs, ConnPcs, BootInv, AbsOpened, Stage
  <2> QED
    BY <1>4, <2>1, <2>2, <2>3
    DEF InitManager, Abstract!Open, AbsTodo, AbsOpened, Abstract!vars, Abstract!jobVars
<1>5. ASSUME StartFilter PROVE UNCHANGED Abstract!vars
  <2>1. Policy' = Policy
    BY <1>5, PolicyFrame DEF StartFilter, IndInv, TypeOK, LockInv, Critical, BootInv
  <2>2. AbsTodo' = AbsTodo
    BY <1>5, TodoFrame DEF StartFilter, IndInv, TypeOK
  <2>3. Stage' = Stage /\ AbsOpened' = AbsOpened
    BY <1>5 DEF StartFilter, IndInv, TypeOK, FilterPcs, ConnPcs, BootInv, AbsOpened, Stage
  <2> QED
    BY <1>5, <2>1, <2>2, <2>3
    DEF StartFilter, AbsTodo, AbsOpened, Abstract!vars, Abstract!jobVars
<1>6. ASSUME StartFilterFails PROVE UNCHANGED Abstract!vars
  <2>1. Policy' = Policy
    BY <1>6, PolicyFrame DEF StartFilterFails, IndInv, TypeOK, LockInv, Critical, BootInv
  <2>2. AbsTodo' = AbsTodo
    BY <1>6, TodoFrame DEF StartFilterFails, IndInv, TypeOK
  <2>3. Stage' = Stage /\ AbsOpened' = AbsOpened
    BY <1>6
       DEF StartFilterFails, IndInv, TypeOK, FilterPcs, ConnPcs, BootInv, AbsOpened,
           Stage
  <2> QED
    BY <1>6, <2>1, <2>2, <2>3
    DEF StartFilterFails, AbsTodo, AbsOpened, Abstract!vars, Abstract!jobVars
<1>7. ASSUME NEW p \in Packets, JudgePacket(p) PROVE Abstract!Arrive(p)
  <2>1. Policy' = Policy
    BY <1>7, PolicyFrame DEF JudgePacket, IndInv, TypeOK, LockInv, Critical, BootInv
  <2>2. AbsTodo' = AbsTodo
    BY <1>7
       DEF JudgePacket, IndInv, TypeOK, ReqInv, Requests, NoReq, AbsTodo, Todo,
           Abstract!NoUpdate
  <2>3. Stage' = "new" /\ AbsOpened' = AbsOpened
    BY <1>7 DEF JudgePacket, IndInv, TypeOK, FilterPcs, ConnPcs, BootInv, AbsOpened, Stage
  <2> QED
    BY <1>7, <2>1, <2>2, <2>3
       DEF JudgePacket, Abstract!Arrive, BootInv, Stage, IndInv, AbsTodo, AbsOpened,
           Abstract!vars, Abstract!jobVars
<1>8. ASSUME NEW t \in Threads, LockRules(t) PROVE UNCHANGED Abstract!vars
  <2>1. Policy' = Policy
    BY <1>8, PolicyFrame DEF LockRules, IndInv, TypeOK, LockInv, Critical, BootInv
  <2>2. AbsTodo' = AbsTodo
    <3>1. ASSUME NEW d \in Conns PROVE Todo(d)' = Todo(d)
      BY <1>8 DEF LockRules, IndInv, TypeOK, Todo
    <3> QED
      BY <3>1 DEF AbsTodo
  <2>3. Stage' = Stage /\ AbsOpened' = AbsOpened
    BY <1>8 DEF LockRules, IndInv, TypeOK, FilterPcs, ConnPcs, BootInv, AbsOpened, Stage
  <2> QED
    BY <1>8, <2>1, <2>2, <2>3
    DEF LockRules, AbsTodo, AbsOpened, Abstract!vars, Abstract!jobVars
<1>9. ASSUME NEW t \in Threads, UnlockRules(t) PROVE UNCHANGED Abstract!vars
  <2>1. Policy' = Policy
    BY <1>9, PolicyFrame DEF UnlockRules, IndInv, TypeOK, LockInv, Critical, BootInv
  <2>2. AbsTodo' = AbsTodo
    BY <1>9
       DEF UnlockRules, IndInv, TypeOK, ReqInv, Requests, NoReq, AbsTodo, Todo,
           Abstract!NoUpdate
  <2>3. Stage' = Stage /\ AbsOpened' = AbsOpened
    BY <1>9 DEF UnlockRules, IndInv, TypeOK, FilterPcs, ConnPcs, BootInv, AbsOpened, Stage
  <2> QED
    BY <1>9, <2>1, <2>2, <2>3
    DEF UnlockRules, AbsTodo, AbsOpened, Abstract!vars, Abstract!jobVars
<1>10. ASSUME JudgeDisabled PROVE Abstract!Bypass
  <2>1. Policy' = Policy
    BY <1>10, PolicyFrame DEF JudgeDisabled, IndInv, TypeOK, LockInv, Critical, BootInv
  <2>2. AbsTodo' = AbsTodo
    BY <1>10, TodoFrame DEF JudgeDisabled, IndInv, TypeOK
  <2>3. Stage' = "decided" /\ AbsOpened' = AbsOpened
    BY <1>10
       DEF JudgeDisabled, IndInv, TypeOK, FilterPcs, ConnPcs, BootInv, AbsOpened, Stage
  <2> QED
    BY <1>10, <2>1, <2>2, <2>3
       DEF JudgeDisabled, Abstract!Bypass, Stage, AbsTodo, AbsOpened, Abstract!vars,
           Abstract!jobVars
<1>11. ASSUME JudgeEnabled PROVE Abstract!Engage
  <2>1. Policy' = Policy
    BY <1>11, PolicyFrame DEF JudgeEnabled, IndInv, TypeOK, LockInv, Critical, BootInv
  <2>2. AbsTodo' = AbsTodo
    BY <1>11, TodoFrame DEF JudgeEnabled, IndInv, TypeOK
  <2>3. Stage' = "engaged" /\ AbsOpened' = AbsOpened
    BY <1>11
       DEF JudgeEnabled, IndInv, TypeOK, FilterPcs, ConnPcs, BootInv, AbsOpened, Stage
  <2> QED
    BY <1>11, <2>1, <2>2, <2>3
       DEF JudgeEnabled, Abstract!Engage, Stage, AbsTodo, AbsOpened, Abstract!vars,
           Abstract!jobVars
<1>12. ASSUME BeginCheck PROVE UNCHANGED Abstract!vars
  <2>1. Policy' = Policy
    BY <1>12, PolicyFrame DEF BeginCheck, IndInv, TypeOK, LockInv, Critical, BootInv
  <2>2. AbsTodo' = AbsTodo
    BY <1>12, TodoFrame DEF BeginCheck, IndInv, TypeOK
  <2>3. Stage' = Stage /\ AbsOpened' = AbsOpened
    BY <1>12 DEF BeginCheck, IndInv, TypeOK, FilterPcs, ConnPcs, BootInv, AbsOpened, Stage
  <2> QED
    BY <1>12, <2>1, <2>2, <2>3
    DEF BeginCheck, AbsTodo, AbsOpened, Abstract!vars, Abstract!jobVars
<1>13. ASSUME EndCheck PROVE Abstract!Decide
  <2>1. Policy' = Policy
    BY <1>13, PolicyFrame DEF EndCheck, IndInv, TypeOK, LockInv, Critical, BootInv
  <2>2. AbsTodo' = AbsTodo
    BY <1>13, TodoFrame DEF EndCheck, IndInv, TypeOK
  <2>3. Stage' = "decided" /\ AbsOpened' = AbsOpened
    BY <1>13 DEF EndCheck, IndInv, TypeOK, FilterPcs, ConnPcs, BootInv, AbsOpened, Stage
  <2> QED
    BY <1>13, <2>1, <2>2, <2>3
       DEF EndCheck, Abstract!Decide, Policy, Replacing, LockInv, Critical, BootInv,
           WalkInv, IndInv, TypeOK, Stage, AbsTodo, AbsOpened, Abstract!vars,
           Abstract!jobVars
<1>14. ASSUME GiveVerdict PROVE Abstract!Deliver
  <2>1. Policy' = Policy
    BY <1>14, PolicyFrame DEF GiveVerdict, IndInv, TypeOK, LockInv, Critical, BootInv
  <2>2. AbsTodo' = AbsTodo
    BY <1>14, TodoFrame DEF GiveVerdict, IndInv, TypeOK
  <2>3. Stage' = "idle" /\ AbsOpened' = AbsOpened
    BY <1>14
       DEF GiveVerdict, IndInv, TypeOK, FilterPcs, ConnPcs, BootInv, AbsOpened, Stage
  <2> QED
    BY <1>14, <2>1, <2>2, <2>3
       DEF GiveVerdict, Abstract!Deliver, Stage, AbsTodo, AbsOpened, Abstract!vars,
           Abstract!jobVars
<1>15. ASSUME NEW c \in Conns, NEW q \in Requests, RecvRequest(c, q) PROVE
         \/ q.data # BadElement /\ Abstract!Submit(c, q.data, q.flag)
         \/ UNCHANGED Abstract!vars
  <2>1. Policy' = Policy
    BY <1>15, PolicyFrame DEF RecvRequest, IndInv, TypeOK, LockInv, Critical, BootInv
  <2>2. AbsTodo[c] = Abstract!NoUpdate
    BY <1>15
       DEF RecvRequest, IndInv, TypeOK, ReqInv, NoReq, AbsTodo, Todo, Abstract!NoUpdate
  <2>3. \/ AbsTodo' = AbsTodo
        \/ /\ q.data # BadElement
           /\ AbsTodo' = [AbsTodo EXCEPT ![c] =
                              [data |-> q.data, flag |-> q.flag, open |-> TRUE]]
    BY <1>15, <2>2
       DEF RecvRequest, IndInv, TypeOK, Requests, AbsTodo, Todo, Abstract!NoUpdate
  <2>4. AbsOpened /\ AbsOpened' /\ Stage' = Stage
    BY <1>15 DEF RecvRequest, IndInv, TypeOK, BootInv, AbsOpened, Stage
  <2> QED
    BY <1>15, <2>1, <2>2, <2>3, <2>4
    DEF RecvRequest, AbsTodo, AbsOpened, Abstract!Submit, Abstract!vars, Abstract!jobVars
<1>16. ASSUME NEW c \in Conns, HandleSimple(c) PROVE UNCHANGED Abstract!vars
  <2>1. Policy' = Policy
    BY <1>16, PolicyFrame
       DEF HandleSimple, Answer, IndInv, TypeOK, LockInv, Critical, BootInv
  <2>2. AbsTodo' = AbsTodo
    BY <1>16
       DEF HandleSimple, Answer, IndInv, TypeOK, ReqInv, Requests, NoReq, AbsTodo, Todo,
           Abstract!NoUpdate
  <2>3. Stage' = Stage /\ AbsOpened' = AbsOpened
    BY <1>16
       DEF HandleSimple, Answer, IndInv, TypeOK, FilterPcs, ConnPcs, BootInv, AbsOpened,
           Stage
  <2> QED
    BY <1>16, <2>1, <2>2, <2>3
    DEF HandleSimple, Answer, AbsTodo, AbsOpened, Abstract!vars, Abstract!jobVars
<1>17. ASSUME NEW c \in Conns, HandleScalar(c) PROVE UNCHANGED Abstract!vars
  <2>1. Policy' = Policy
    BY <1>17, PolicyFrame DEF HandleScalar, IndInv, TypeOK, LockInv, Critical, BootInv
  <2>2. AbsTodo' = AbsTodo
    BY <1>17
       DEF HandleScalar, IndInv, TypeOK, ReqInv, Requests, NoReq, AbsTodo, Todo,
           Abstract!NoUpdate
  <2>3. Stage' = Stage /\ AbsOpened' = AbsOpened
    BY <1>17
       DEF HandleScalar, IndInv, TypeOK, FilterPcs, ConnPcs, BootInv, AbsOpened, Stage
  <2> QED
    BY <1>17, <2>1, <2>2, <2>3
    DEF HandleScalar, AbsTodo, AbsOpened, Abstract!vars, Abstract!jobVars
<1>18. ASSUME NEW c \in Conns, HandleQuery(c) PROVE UNCHANGED Abstract!vars
  <2>1. Policy' = Policy
    BY <1>18, PolicyFrame DEF HandleQuery, IndInv, TypeOK, LockInv, Critical, BootInv
  <2>2. AbsTodo' = AbsTodo
    BY <1>18
       DEF HandleQuery, IndInv, TypeOK, ReqInv, Requests, NoReq, AbsTodo, Todo,
           Abstract!NoUpdate
  <2>3. Stage' = Stage /\ AbsOpened' = AbsOpened
    BY <1>18
       DEF HandleQuery, IndInv, TypeOK, FilterPcs, ConnPcs, BootInv, AbsOpened, Stage
  <2> QED
    BY <1>18, <2>1, <2>2, <2>3
    DEF HandleQuery, AbsTodo, AbsOpened, Abstract!vars, Abstract!jobVars
<1>19. ASSUME NEW c \in Conns, ToJson(c) PROVE UNCHANGED Abstract!vars
  <2>1. Policy' = Policy
    BY <1>19, PolicyFrame DEF ToJson, IndInv, TypeOK, LockInv, Critical, BootInv
  <2>2. AbsTodo' = AbsTodo
    BY <1>19
       DEF ToJson, IndInv, TypeOK, ReqInv, Requests, NoReq, AbsTodo, Todo,
           Abstract!NoUpdate
  <2>3. Stage' = Stage /\ AbsOpened' = AbsOpened
    BY <1>19 DEF ToJson, IndInv, TypeOK, FilterPcs, ConnPcs, BootInv, AbsOpened, Stage
  <2> QED
    BY <1>19, <2>1, <2>2, <2>3
    DEF ToJson, AbsTodo, AbsOpened, Abstract!vars, Abstract!jobVars
<1>20. ASSUME NEW c \in Conns, ToJsonDangling(c) PROVE UNCHANGED Abstract!vars
  <2>1. Policy' = Policy
    BY <1>20, PolicyFrame DEF ToJsonDangling, IndInv, TypeOK, LockInv, Critical, BootInv
  <2>2. AbsTodo' = AbsTodo
    BY <1>20
       DEF ToJsonDangling, IndInv, TypeOK, ReqInv, Requests, NoReq, AbsTodo, Todo,
           Abstract!NoUpdate
  <2>3. Stage' = Stage /\ AbsOpened' = AbsOpened
    BY <1>20
       DEF ToJsonDangling, IndInv, TypeOK, FilterPcs, ConnPcs, BootInv, AbsOpened, Stage
  <2> QED
    BY <1>20, <2>1, <2>2, <2>3
    DEF ToJsonDangling, AbsTodo, AbsOpened, Abstract!vars, Abstract!jobVars
<1>21. ASSUME NEW c \in Conns, NEW o \in Objects, LoadNew(c, o)
       PROVE  UNCHANGED Abstract!vars
  <2>1. Policy' = Policy
    BY <1>21 DEF LoadNew, IndInv, TypeOK, Policy, Replacing, HeapInv, Building, LockInv,
       Critical, BootInv, ReqInv, AbsTodo, Todo
  <2>2. AbsTodo' = AbsTodo
    BY <1>21
       DEF LoadNew, IndInv, TypeOK, ReqInv, Requests, NoReq, AbsTodo, Todo,
           Abstract!NoUpdate
  <2>3. Stage' = Stage /\ AbsOpened' = AbsOpened
    BY <1>21 DEF LoadNew, IndInv, TypeOK, FilterPcs, ConnPcs, BootInv, AbsOpened, Stage
  <2> QED
    BY <1>21, <2>1, <2>2, <2>3
    DEF LoadNew, AbsTodo, AbsOpened, Abstract!vars, Abstract!jobVars
<1>22. ASSUME NEW c \in Conns, LoadThrows(c) PROVE UNCHANGED Abstract!vars
  <2>1. Policy' = Policy
    BY <1>22, PolicyFrame DEF LoadThrows, IndInv, TypeOK, LockInv, Critical, BootInv
  <2>2. AbsTodo' = AbsTodo
    BY <1>22
       DEF LoadThrows, IndInv, TypeOK, ReqInv, Requests, NoReq, AbsTodo, Todo,
           Abstract!NoUpdate
  <2>3. Stage' = Stage /\ AbsOpened' = AbsOpened
    BY <1>22 DEF LoadThrows, IndInv, TypeOK, FilterPcs, ConnPcs, BootInv, AbsOpened, Stage
  <2> QED
    BY <1>22, <2>1, <2>2, <2>3
    DEF LoadThrows, AbsTodo, AbsOpened, Abstract!vars, Abstract!jobVars
<1>23. ASSUME NEW c \in Conns, LoadNothing(c) PROVE UNCHANGED Abstract!vars
  <2>1. Policy' = Policy
    BY <1>23, PolicyFrame DEF LoadNothing, IndInv, TypeOK, LockInv, Critical, BootInv
  <2>2. AbsTodo' = AbsTodo
    BY <1>23
       DEF LoadNothing, IndInv, TypeOK, ReqInv, Requests, NoReq, AbsTodo, Todo,
           Abstract!NoUpdate
  <2>3. Stage' = Stage /\ AbsOpened' = AbsOpened
    BY <1>23
       DEF LoadNothing, IndInv, TypeOK, FilterPcs, ConnPcs, BootInv, AbsOpened, Stage
  <2> QED
    BY <1>23, <2>1, <2>2, <2>3
    DEF LoadNothing, AbsTodo, AbsOpened, Abstract!vars, Abstract!jobVars
<1>24. ASSUME NEW c \in Conns, DeleteRules(c) PROVE Abstract!Install(c)
  <2>1. Policy' = AbsTodo[c].data
    BY <1>24
       DEF DeleteRules, IndInv, TypeOK, Policy, Replacing, HeapInv, Building, LockInv,
           Critical, BootInv, ReqInv, AbsTodo, Todo
  <2>2. AbsTodo' = [AbsTodo EXCEPT ![c].data = Absent]
    BY <1>24
       DEF DeleteRules, IndInv, TypeOK, ReqInv, Requests, NoReq, AbsTodo, Todo,
           Abstract!NoUpdate
  <2>3. Stage' = Stage /\ AbsOpened' = AbsOpened
    BY <1>24
       DEF DeleteRules, IndInv, TypeOK, FilterPcs, ConnPcs, BootInv, AbsOpened, Stage
  <2> QED
    BY <1>24, <2>1, <2>2, <2>3
       DEF DeleteRules, Abstract!Install, IndInv, ReqInv, Todo, TypeOK, HeapInv,
           Building, AbsTodo, AbsOpened, Abstract!vars, Abstract!jobVars
<1>25. ASSUME NEW c \in Conns, AssignRules(c) PROVE UNCHANGED Abstract!vars
  <2>1. Policy' = Policy
    BY <1>25
       DEF AssignRules, IndInv, TypeOK, Policy, Replacing, HeapInv, Building, LockInv,
           Critical, BootInv, ReqInv, AbsTodo, Todo
  <2>2. AbsTodo' = AbsTodo
    BY <1>25
       DEF AssignRules, IndInv, TypeOK, ReqInv, Requests, NoReq, AbsTodo, Todo,
           Abstract!NoUpdate
  <2>3. Stage' = Stage /\ AbsOpened' = AbsOpened
    BY <1>25
       DEF AssignRules, IndInv, TypeOK, FilterPcs, ConnPcs, BootInv, AbsOpened, Stage
  <2> QED
    BY <1>25, <2>1, <2>2, <2>3
    DEF AssignRules, AbsTodo, AbsOpened, Abstract!vars, Abstract!jobVars
<1>26. ASSUME NEW c \in Conns, SetEnabled(c)
       PROVE  Abstract!Switch(c) \/ UNCHANGED Abstract!vars
  <2>1. Policy' = Policy
    BY <1>26, PolicyFrame DEF SetEnabled, IndInv, TypeOK, LockInv, Critical, BootInv
  <2>2. AbsTodo' = [AbsTodo EXCEPT ![c].flag = "absent"]
    BY <1>26
       DEF SetEnabled, IndInv, TypeOK, ReqInv, Requests, NoReq, AbsTodo, Todo,
           Abstract!NoUpdate
  <2>3. Stage' = Stage /\ AbsOpened' = AbsOpened
    BY <1>26 DEF SetEnabled, IndInv, TypeOK, FilterPcs, ConnPcs, BootInv, AbsOpened, Stage
  <2>4. AbsTodo[c] = [data |-> Absent, flag |-> req[c].flag, open |-> TRUE]
    BY <1>26 DEF SetEnabled, IndInv, TypeOK, ReqInv, AbsTodo, Todo
  <2>5. CASE req[c].flag = "absent"
    <3>1. AbsTodo' = AbsTodo
      <4>1. ASSUME NEW d \in Conns PROVE Todo(d)' = Todo(d)
        BY <1>26, <2>5 DEF SetEnabled, IndInv, TypeOK, ReqInv, Todo
      <4> QED
        BY <4>1 DEF AbsTodo
    <3> QED
      BY <1>26, <2>1, <2>3, <2>5, <3>1
      DEF SetEnabled, AbsTodo, AbsOpened, Abstract!vars, Abstract!jobVars
  <2>6. CASE req[c].flag # "absent"
    BY <1>26, <2>1, <2>2, <2>3, <2>4, <2>6
    DEF SetEnabled, Abstract!Switch, AbsTodo, AbsOpened, Abstract!jobVars
  <2> QED
    BY <2>5, <2>6
<1>27. ASSUME NEW c \in Conns, SendRsp(c)
       PROVE  Abstract!Acknowledge(c) \/ UNCHANGED Abstract!vars
  <2>1. Policy' = Policy
    BY <1>27, PolicyFrame DEF SendRsp, IndInv, TypeOK, LockInv, Critical, BootInv
  <2>2. AbsTodo' = [AbsTodo EXCEPT ![c] = Abstract!NoUpdate]
    BY <1>27
       DEF SendRsp, IndInv, TypeOK, ReqInv, Requests, NoReq, AbsTodo, Todo,
           Abstract!NoUpdate
  <2>3. Stage' = Stage /\ AbsOpened' = AbsOpened
    BY <1>27 DEF SendRsp, IndInv, TypeOK, FilterPcs, ConnPcs, BootInv, AbsOpened, Stage
  <2>4. AbsTodo[c] = Abstract!Done \/ AbsTodo[c] = Abstract!NoUpdate
    BY <1>27 DEF SendRsp, AbsTodo, Todo, Abstract!Done, Abstract!NoUpdate
  <2>5. CASE AbsTodo[c] = Abstract!Done
    BY <1>27, <2>1, <2>2, <2>3, <2>5
    DEF SendRsp, Abstract!Acknowledge, AbsTodo, AbsOpened, Abstract!jobVars
  <2>6. CASE AbsTodo[c] = Abstract!NoUpdate
    <3>1. AbsTodo' = AbsTodo
      BY <2>2, <2>6 DEF AbsTodo
    <3> QED
      BY <1>27, <2>1, <2>3, <3>1
      DEF SendRsp, AbsTodo, AbsOpened, Abstract!vars, Abstract!jobVars
  <2> QED
    BY <2>4, <2>5, <2>6
<1>28. CASE UNCHANGED vars
  BY <1>28
  DEF vars, Policy, Replacing, Todo, Stage, Abstract!vars, Abstract!jobVars
<1> QED
  BY <1>1, <1>2, <1>3, <1>4, <1>5, <1>6, <1>7, <1>8, <1>9, <1>10, <1>11, <1>12, <1>13,
     <1>14, <1>15, <1>16, <1>17, <1>18, <1>19, <1>20, <1>21, <1>22, <1>23, <1>24, <1>25,
     <1>26, <1>27, <1>28
     DEF Next, Boot, FilterStep, ConnStep, Abstract!Next, Requests, Flags

\* The rule manager implements PolicyService: see ImplementsPolicyService.
THEOREM Refinement == Spec => ImplementsPolicyService
<1>1. Init => Abstract!Init
  BY DataAssumption, ThreadAssumption
     DEF Init, Abstract!Init, Abstract!NoUpdate, Policy, Todo, Stage, NoReq
<1> QED
  BY <1>1, StepRefines, IndInvariant, PTL
  DEF Spec, ImplementsPolicyService, Abstract!Spec
=============================================================================
