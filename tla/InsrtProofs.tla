---------------------------- MODULE InsrtProofs ----------------------------
(***************************************************************************)
(* The barrier of insrt() for any number of nodes, tasks, blocks, crashes  *)
(* and lost reads: when a node leaves it, every task whose number both     *)
(* load() and read_file() reach is loaded and registered.                  *)
(***************************************************************************)
EXTENDS Insrt, TLAPS

\* The type invariant of the start-up holds initially.
LEMMA InitType == Init => TypeOK
    BY InsrtSizes, InsrtBounds DEF Init, TypeOK, Points, Roots

\* Whatever comes after a root node is a point of the code.
LEMMA RootReadyType ==
    ASSUME TypeOK, NEW n \in Nodes, RootReady(n)
    PROVE  /\ pc' \in [Nodes -> Points]
           /\ root' \in [Nodes -> Roots]
           /\ cur' \in [Nodes -> Nat]
<1>1. pc' \in [Nodes -> Points]
    BY DEF TypeOK, RootReady, Goto, Points
<1>2. root' \in [Nodes -> Roots]
    BY DEF TypeOK, RootReady, Roots
<1>3. cur' \in [Nodes -> Nat]
    BY DEF TypeOK, RootReady
<1> QED BY <1>1, <1>2, <1>3

\* redis_insert stores what it is told to, or loses it and counts the loss.
LEMMA RedisInsertType ==
    ASSUME TypeOK, NEW S, NEW T, S \subseteq Keys, T \subseteq Nodes, RedisInsert(S, T)
    PROVE  store' \subseteq Keys /\ node_status' \subseteq Nodes /\ failedSets' \in 0 .. MaxFailedSets
<1>1. CASE store' = S /\ node_status' = T /\ UNCHANGED failedSets
    BY <1>1 DEF TypeOK
<1>2. CASE failedSets < MaxFailedSets /\ failedSets' = failedSets + 1 /\ UNCHANGED <<store, node_status>>
    BY <1>2, InsrtBounds DEF TypeOK
<1> QED BY <1>1, <1>2 DEF RedisInsert

\* Every step of the start-up preserves the type invariant.
LEMMA NextType == TypeOK /\ [Next]_vars => TypeOK'
<1> SUFFICES ASSUME TypeOK, [Next]_vars PROVE TypeOK'
    OBVIOUS
<1> USE DEF TypeOK, vars, local, shared, budget
<1>u. CASE UNCHANGED vars
    BY <1>u
<1>b. ASSUME NEW n \in Nodes, NEW t \in Tasks, InsertBlock(n, t) PROVE TypeOK'
  <2>1. <<t, n, block_idx[n][t]>> \in Keys
      BY DEF Keys
  <2>2. store' \subseteq Keys /\ node_status' \subseteq Nodes /\ failedSets' \in 0 .. MaxFailedSets
      BY <1>b, <2>1, RedisInsertType DEF InsertBlock
  <2>3. block_idx' \in [Nodes -> [Tasks -> Nat \ {0}]]
      BY <1>b DEF InsertBlock
  <2> QED BY <1>b, <2>2, <2>3 DEF InsertBlock
<1>1. ASSUME NEW n \in Nodes, GetStatus(n) PROVE TypeOK'
    BY <1>1, InsrtBounds DEF GetStatus, RedisSelect, Goto, Points, Roots, Nodes
<1>2. ASSUME NEW n \in Nodes, LoadReturns(n) PROVE TypeOK'
    BY <1>2, InsrtBounds DEF LoadReturns, Goto, Points, Roots, Nodes
<1>3. ASSUME NEW n \in Nodes, Exists(n) PROVE TypeOK'
    BY <1>3, RootReadyType DEF Exists, Goto, Points, Roots, Nodes
<1>4. ASSUME NEW n \in Nodes, Create(n) PROVE TypeOK'
    BY <1>4, RootReadyType DEF Create, Goto, Points, Roots, Nodes
<1>5. ASSUME NEW n \in Nodes, Insr2clst(n) PROVE TypeOK'
    BY <1>5, InsrtBounds DEF Insr2clst, isMemberOfTask, Goto, Points, Roots, Nodes
<1>6. ASSUME NEW n \in Nodes, ReadFileReturns(n) PROVE TypeOK'
    BY <1>6, InsrtBounds DEF ReadFileReturns, Goto, Points, Roots, Nodes
<1>7. ASSUME NEW n \in Nodes, SetStatus(n) PROVE TypeOK'
    BY <1>7, RedisInsertType DEF SetStatus, Goto, Points, Roots
<1>8. ASSUME NEW n \in Nodes, Poll(n) PROVE TypeOK'
    BY <1>8, InsrtBounds DEF Poll, RedisSelect, Goto, Points, Roots, Nodes
<1>9. ASSUME NEW n \in Nodes, PollReturns(n) PROVE TypeOK'
    BY <1>9, InsrtBounds DEF PollReturns, Flag, Goto, Points, Roots, Nodes
<1>10. ASSUME NEW n \in Nodes, Crash(n) PROVE TypeOK'
    BY <1>10, InsrtBounds DEF Crash, Goto, Points, Roots, Nodes
<1> QED BY <1>u, <1>b, <1>1, <1>2, <1>3, <1>4, <1>5, <1>6, <1>7, <1>8, <1>9, <1>10 DEF Next, insrt, Started

\* For any number of nodes, tasks, blocks, crashes and lost commands every
\* variable of the start-up keeps its type: in particular only tasks that the
\* nodes' files may hold, and blocks of them, reach /files and redis.
THEOREM TypeAlways == Spec => []TypeOK
<1> QED BY InitType, NextType, PTL DEF Spec

-----------------------------------------------------------------------------
(***************************************************************************)
(* A step of one node does not undo what holds of another: redis and       *)
(* ZooKeeper only grow.                                                    *)
(***************************************************************************)
Grows == store \subseteq store' /\ files \subseteq files' /\ node_status \subseteq node_status'

SameAt(m) ==
    /\ pc'[m] = pc[m]
    /\ block_idx'[m] = block_idx[m]
    /\ root'[m] = root[m]
    /\ cur'[m] = cur[m]
    /\ vec'[m] = vec[m]

NodeInv(n) == Loading(n) /\ Registering(n) /\ Waiting(n)

\* What a node has inserted and registered stays so.
LEMMA LoadedStays ==
    ASSUME NEW m \in Nodes, Grows
    PROVE  /\ Inserted(m) => Inserted(m)'
           /\ Registered(m) => Registered(m)'
    BY DEF Grows, Inserted, Registered, isMemberOfTask

\* A step of another node keeps the invariant of node m.
LEMMA OthersKeep ==
    ASSUME TypeOK, TypeOK', NEW m \in Nodes, NodeInv(m), Grows, SameAt(m),
           m \in node_status' => m \in node_status
    PROVE  NodeInv(m)'
<1>1. Loading(m)'
    BY DEF NodeInv, Loading, Grows, SameAt
<1>2. Registering(m)'
    BY LoadedStays DEF NodeInv, Registering, Grows, SameAt, isMemberOfTask
<1>3. Waiting(m)'
    BY LoadedStays DEF NodeInv, Waiting, Grows, SameAt, Released, TypeOK
<1> QED BY <1>1, <1>2, <1>3 DEF NodeInv

(***************************************************************************)
(* The steps of a node, and what they make true of it.                     *)
(***************************************************************************)

\* A covered number is one that the loops of load() and read_file() reach.
LEMMA CoveredIds ==
    ASSUME NEW t \in Covered
    PROVE  t \in Tasks /\ t \in Nat /\ 1 <= t /\ t < LoopNum
    BY InsrtSizes DEF Covered

\* A step of node n leaves the local state of the others alone, and changes
\* what is shared only by adding to it.
LEMMA StepFrame ==
    ASSUME TypeOK, NEW n \in Nodes, insrt(n) \/ Crash(n)
    PROVE  /\ Grows
           /\ \A m \in Nodes \ {n} : SameAt(m) /\ (m \in node_status' => m \in node_status)
           /\ failedSets' = 0 => failedSets = 0
<1> USE DEF TypeOK, Grows, SameAt, Goto, shared, budget
<1>0. ASSUME NEW t \in Tasks, InsertBlock(n, t)
      PROVE  /\ Grows
             /\ \A m \in Nodes \ {n} : SameAt(m) /\ (m \in node_status' => m \in node_status)
             /\ failedSets' = 0 => failedSets = 0
    BY <1>0 DEF InsertBlock, RedisInsert
<1>1. CASE GetStatus(n)
    BY <1>1 DEF GetStatus, RedisSelect
<1>2. CASE LoadReturns(n)
    BY <1>2 DEF LoadReturns
<1>3. CASE Exists(n)
    BY <1>3 DEF Exists, RootReady
<1>4. CASE Create(n)
    BY <1>4 DEF Create, RootReady
<1>5. CASE Insr2clst(n)
    BY <1>5 DEF Insr2clst
<1>6. CASE ReadFileReturns(n)
    BY <1>6 DEF ReadFileReturns
<1>7. CASE SetStatus(n)
    BY <1>7 DEF SetStatus, RedisInsert
<1>8. CASE Poll(n)
    BY <1>8 DEF Poll, RedisSelect
<1>9. CASE PollReturns(n)
    BY <1>9 DEF PollReturns
<1>10. CASE Crash(n)
    BY <1>10 DEF Crash
<1> QED BY <1>0, <1>1, <1>2, <1>3, <1>4, <1>5, <1>6, <1>7, <1>8, <1>9, <1>10 DEF insrt

\* A step of node n keeps its own invariant, unless it loses a write.
LEMMA OwnKeep ==
    ASSUME TypeOK, TypeOK', NEW n \in Nodes, insrt(n) \/ Crash(n), NodeInv(n), failedSets' = 0
    PROVE  NodeInv(n)'
<1> USE DEF TypeOK, NodeInv, Goto, shared, budget
<1>f. Grows /\ failedSets = 0
    BY StepFrame
<1>l. (Inserted(n) => Inserted(n)') /\ (Registered(n) => Registered(n)')
    BY <1>f, LoadedStays
<1>m. isMemberOfTask(n)' = isMemberOfTask(n) /\ isMemberOfTask(n) \subseteq Tasks
    BY DEF isMemberOfTask
<1>b. \A t \in Tasks : Blocks[n][t] \in Nat
    BY BlocksType
<1>t. \A t \in isMemberOfTask(n) \cap Covered : t \in Nat /\ 1 <= t /\ t < LoopNum
    BY CoveredIds
<1>c. cur[n] \in Nat /\ \A t \in Tasks : block_idx[n][t] \in Nat
    OBVIOUS
<1>0. ASSUME NEW t \in Tasks, InsertBlock(n, t) PROVE NodeInv(n)'
  <2>1. /\ store' = store \cup {<<t, n, block_idx[n][t]>>} /\ node_status' = node_status
        /\ pc' = pc /\ pc[n] = "load" /\ vec' = vec /\ root' = root
      BY <1>0, <1>f DEF InsertBlock, RedisInsert
  <2>2. /\ block_idx'[n][t] = block_idx[n][t] + 1
        /\ \A u \in Tasks \ {t} : block_idx'[n][u] = block_idx[n][u]
      BY <1>0 DEF InsertBlock
  <2>3. Loading(n)'
    <3> SUFFICES ASSUME NEW u \in Tasks, NEW b \in 1 .. Blocks[n][u], b < block_idx'[n][u]
                 PROVE <<u, n, b>> \in store'
        BY <2>1 DEF Loading
    <3>1. CASE u = t /\ b = block_idx[n][t]
        BY <2>1, <3>1
    <3>2. CASE ~(u = t /\ b = block_idx[n][t])
      <4>1. b < block_idx[n][u]
          BY ONLY <2>2, <3>2, <1>b, <1>c, b < block_idx'[n][u], b \in 1 .. Blocks[n][u], u \in Tasks
      <4> QED BY <2>1, <4>1 DEF Loading
    <3> QED BY <3>1, <3>2
  <2>4. Registering(n)' /\ Waiting(n)'
      BY <1>l, <2>1 DEF Registering, Waiting, Released
  <2> QED BY <2>3, <2>4
<1>1. CASE GetStatus(n)
  <2>1. /\ pc'[n] \in {"poll", "load"} /\ UNCHANGED <<block_idx, vec, store, node_status, files>>
        /\ pc[n] = "start"
      BY <1>1 DEF GetStatus
  <2>2. \A t \in Tasks : block_idx'[n][t] = 1
      BY <2>1 DEF Loading
  <2>3. Loading(n)'
      BY <2>1, <2>2 DEF Loading
  <2>4. Registering(n)' /\ Waiting(n)'
      BY <1>l, <2>1 DEF Registering, Waiting, Released
  <2> QED BY <2>3, <2>4
<1>2. CASE LoadReturns(n)
  <2>1. /\ pc[n] = "load" /\ pc'[n] = "exists" /\ root'[n] = "files" /\ UNCHANGED <<vec, store, node_status, files>>
      BY <1>2 DEF LoadReturns
  <2>2. Inserted(n)
    <3> SUFFICES ASSUME NEW t \in Covered, NEW b \in 1 .. Blocks[n][t] PROVE <<t, n, b>> \in store
        BY DEF Inserted
    <3>0. t \in Tasks /\ t < LoopNum
        BY CoveredIds
    <3>1. t \in load(n)
        BY <1>b, <3>0 DEF load, isMemberOfTask
    <3>2. b < block_idx[n][t]
        BY <1>2, <1>b, <1>c, <3>0, <3>1 DEF LoadReturns
    <3> QED BY <2>1, <3>0, <3>2 DEF Loading
  <2> QED BY <1>l, <2>1, <2>2 DEF Loading, Registering, Waiting, Released
<1>3. CASE Exists(n) \/ Create(n)
  <2>1. /\ pc[n] \in {"exists", "create"}
        /\ UNCHANGED <<vec, store, node_status, files>>
        /\ \/ RootReady(n)
           \/ pc'[n] = "create" /\ root'[n] = root[n]
      BY <1>3 DEF Exists, Create
  <2>2. CASE pc'[n] = "create" /\ root'[n] = root[n]
      BY <1>l, <2>1, <2>2 DEF Loading, Registering, Waiting, Released
  <2>3. CASE RootReady(n) /\ root[n] = "files"
    <3>1. pc'[n] = "register" /\ cur'[n] = 1 /\ root'[n] = "files"
        BY <2>3 DEF RootReady
    <3>2. \A t \in isMemberOfTask(n) \cap Covered : ~(t < 1)
        BY ONLY <1>t
    <3> QED BY <1>l, <1>m, <2>1, <2>3, <3>1, <3>2 DEF Loading, Registering, Waiting, Released
  <2>4. CASE RootReady(n) /\ root[n] # "files"
    <3>1. pc'[n] = "ready" \/ (pc'[n] = "exists" /\ root'[n] = "elect")
        BY <2>4 DEF RootReady
    <3> QED BY <1>l, <2>1, <2>4, <3>1 DEF Loading, Registering, Waiting, Released
  <2> QED BY <2>1, <2>2, <2>3, <2>4
<1>4. CASE Insr2clst(n)
  <2>1. /\ pc[n] = "register" /\ pc' = pc /\ root' = root /\ UNCHANGED <<vec, store, node_status>>
        /\ files' = files \cup ({cur[n]} \cap isMemberOfTask(n))
        /\ cur'[n] = cur[n] + 1
      BY <1>4, <1>f DEF Insr2clst
  <2>2. \A t \in isMemberOfTask(n) \cap Covered : t < cur'[n] => t \in files'
    <3> SUFFICES ASSUME NEW t \in isMemberOfTask(n) \cap Covered, t < cur[n] + 1 PROVE t \in files'
        BY <2>1
    <3>1. t < cur[n] \/ t = cur[n]
        BY ONLY <1>t, <1>c, t \in isMemberOfTask(n) \cap Covered, t < cur[n] + 1
    <3> QED BY <2>1, <3>1 DEF Registering
  <2> QED BY <1>l, <1>m, <2>1, <2>2 DEF Loading, Registering, Waiting, Released
<1>5. CASE ReadFileReturns(n)
  <2>1. pc[n] = "register" /\ pc'[n] = "status" /\ UNCHANGED <<root, vec, store, node_status, files>>
      BY <1>5 DEF ReadFileReturns
  <2>2. cur[n] > LoopNum
      BY <1>5 DEF ReadFileReturns
  <2>3. \A t \in isMemberOfTask(n) \cap Covered : t < cur[n]
      BY ONLY <1>t, <1>c, <2>2, InsrtSizes
  <2>4. Registered(n)
      BY <2>1, <2>3 DEF Registered, Registering
  <2> QED BY <1>l, <2>1, <2>4 DEF Loading, Registering, Waiting, Released
<1>6. CASE SetStatus(n)
  <2>1. /\ pc[n] = "status" /\ pc'[n] = "poll" /\ UNCHANGED <<root, vec, store, files>>
        /\ node_status' = node_status \cup {n}
      BY <1>6, <1>f DEF SetStatus, RedisInsert
  <2> QED BY <1>l, <2>1 DEF Loading, Registering, Waiting, Released
<1>7. CASE Poll(n)
  <2>1. /\ pc[n] = "poll" /\ pc' = pc /\ UNCHANGED <<root, store, node_status, files>>
        /\ vec'[n] \subseteq vec[n] \cup (IF cur[n] \in node_status THEN {cur[n]} ELSE {})
      BY <1>7 DEF Poll, RedisSelect
  <2> QED BY <1>l, <2>1 DEF Loading, Registering, Waiting, Released
<1>8. CASE PollReturns(n)
  <2>1. /\ pc[n] = "poll" /\ vec'[n] = {} /\ UNCHANGED <<store, node_status, files>>
        /\ \/ pc'[n] = "exists" /\ root'[n] = "works" /\ vec[n] = Nodes
           \/ pc'[n] = "poll"
      BY <1>8 DEF PollReturns, Flag
  <2> QED BY <1>l, <2>1 DEF Loading, Registering, Waiting, Released
<1>9. CASE Crash(n)
  <2>1. /\ pc'[n] = "start" /\ block_idx'[n] = [t \in Tasks |-> 1] /\ vec'[n] = {}
        /\ UNCHANGED <<store, node_status, files>>
      BY <1>9 DEF Crash
  <2> QED BY <1>l, <2>1 DEF Loading, Registering, Waiting, Released
<1> QED BY <1>0, <1>1, <1>2, <1>3, <1>4, <1>5, <1>6, <1>7, <1>8, <1>9 DEF insrt

\* The invariant of loading holds at the start and is kept by every step.
LEMMA LoadAlways == Spec => []LoadInv
<1>1. Init => LoadInv
    BY DEF Init, LoadInv, Loading, Registering, Waiting, Released
<1>2. ASSUME TypeOK, TypeOK', LoadInv, [Next]_vars PROVE LoadInv'
  <2>1. CASE UNCHANGED vars
      BY <1>2, <2>1 DEF vars, local, shared, budget, LoadInv, Loading, Registering, Waiting, Released,
                        Inserted, Registered, isMemberOfTask
  <2>2. ASSUME NEW n \in Nodes, insrt(n) \/ Crash(n), failedSets' = 0, NEW m \in Nodes
        PROVE  NodeInv(m)'
    <3>1. failedSets = 0 /\ Grows
          /\ \A k \in Nodes \ {n} : SameAt(k) /\ (k \in node_status' => k \in node_status)
        BY <1>2, <2>2, StepFrame
    <3>2. NodeInv(m)
        BY <1>2, <3>1 DEF LoadInv, NodeInv
    <3>3. CASE m = n
        BY <1>2, <2>2, <3>2, <3>3, OwnKeep
    <3>4. CASE m # n
        BY <1>2, <3>1, <3>2, <3>4, OthersKeep
    <3> QED BY <3>3, <3>4
  <2>3. CASE \E n \in Nodes : insrt(n) \/ Crash(n)
      BY <2>2, <2>3 DEF LoadInv, NodeInv
  <2> QED BY <1>2, <2>1, <2>3 DEF Next, Started
<1> QED BY <1>1, <1>2, TypeAlways, PTL DEF Spec

\* For any number of nodes, tasks and blocks, any number of crashes and of
\* failing reads: when a node leaves the barrier of insrt() and no write was
\* lost, every block of a task numbered 1 .. loop_num - 1 is in redis,
\* whichever node it comes from, and the task is registered.
THEOREM BarrierHolds == Spec => []BarrierComplete
<1>1. ASSUME LoadInv PROVE BarrierComplete
  <2> SUFFICES ASSUME failedSets = 0, NEW n \in Nodes, Released(n),
                      NEW m \in Nodes, NEW t \in Covered, Blocks[m][t] > 0
               PROVE  t \in files /\ \A b \in 1 .. Blocks[m][t] : <<t, m, b>> \in store
      BY DEF BarrierComplete
  <2>1. m \in node_status
      BY <1>1 DEF LoadInv, Waiting
  <2>2. Inserted(m) /\ Registered(m)
      BY <1>1, <2>1 DEF LoadInv, Waiting
  <2> QED BY <2>2, CoveredIds DEF Inserted, Registered, isMemberOfTask
<1> QED BY <1>1, LoadAlways, PTL
=============================================================================
