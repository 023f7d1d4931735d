-------------------------- MODULE ClustCommProofs --------------------------
(***************************************************************************)
(* Proofs about ClustComm, for every set of processes and of tasks and for *)
(* every bound on failures, in three parts: type correctness; the          *)
(* election, in which only the oldest process with a session acts as the   *)
(* monitor, and which implements MonitorLease; and what dispatch_work and  *)
(* recover do to the commands in /works.  The last part rests on the       *)
(* election: whoever runs dispatch_work or recover is the only one who     *)
(* does, so the listing it walks through and the node it has just looked   *)
(* at change only in the ways that workers change them.                    *)
(***************************************************************************)
EXTENDS MCClustComm, FunctionTheorems, FiniteSetTheorems, TLAPS

-----------------------------------------------------------------------------
(***************************************************************************)
(* The ZooKeeper operators keep the watch tables and event queues typed.   *)
(***************************************************************************)
\* Firing an event takes watches away and puts only keys of watches into the
\* queues (zookeeper's watch events).
LEMMA TriggerType ==
    ASSUME NEW w \in WatchTable, NEW e, evq \in EventQueues, Trigger(e, w)
    PROVE  watch' \in WatchTable /\ evq' \in EventQueues
<1>1. watch' \in WatchTable
  BY DEF Trigger, WatchTable
<1>2. ASSUME NEW q \in Procs
      PROVE  (IF e \in w[q] THEN Append(evq[q], e) ELSE evq[q]) \in Seq(WatchKeys)
  BY DEF WatchTable, EventQueues
<1>3. evq' \in EventQueues
  BY <1>2 DEF Trigger, EventQueues
<1>. QED  BY <1>1, <1>3

\* Setting watches on nodes keeps the table typed.
LEMMA WatchType ==
    ASSUME watch \in WatchTable, NEW p \in Procs
    PROVE  /\ \A keys \in SUBSET WatchKeys : WatchedBy(p, keys) \in WatchTable
           /\ \A q \in Procs : WatchNode(p, q) \in WatchTable
  BY DEF WatchTable, WatchedBy, WatchNode, WatchKeys

\* zoo_set of a /works node keeps the node data and the queues typed.
LEMMA SetWorkType ==
    ASSUME works \in CommandTable, evq \in EventQueues,
           NEW w \in WatchTable, NEW q, NEW d \in WorkData, SetWork(q, d, w)
    PROVE  works' \in CommandTable /\ watch' \in WatchTable /\ evq' \in EventQueues
<1>1. CASE works[q] = NoNode
  BY <1>1 DEF SetWork
<1>2. CASE works[q] # NoNode
  <2>1. works' = [works EXCEPT ![q] = d] /\ Trigger(q, w)
    BY <1>2 DEF SetWork
  <2>2. works' \in CommandTable
    BY <2>1 DEF CommandTable
  <2>. QED  BY <2>1, <2>2, TriggerType
<1>. QED  BY <1>1, <1>2

\* zoo_delete of a /works node does, too.
LEMMA DeleteWorkType ==
    ASSUME works \in CommandTable, evq \in EventQueues, watch \in WatchTable,
           NEW q, DeleteWork(q)
    PROVE  works' \in CommandTable /\ watch' \in WatchTable /\ evq' \in EventQueues
<1>1. works' \in CommandTable
  BY DEF DeleteWork, WorkData, CommandTable
<1>2. [r \in Procs |-> watch[r] \ {q}] \in WatchTable
  BY DEF WatchTable
<1>3. watch' \in WatchTable /\ evq' \in EventQueues
  BY <1>2, TriggerType DEF DeleteWork
<1>. QED  BY <1>1, <1>3

\* So do zoo_create of the two nodes of a process and the end of a session.
LEMMA CreateType ==
    ASSUME ZkType, NEW p \in Procs
    PROVE  /\ CreateElect(p) => /\ cversion' \in Nat /\ seqno' \in [Procs -> Nat]
                                /\ elect' \subseteq Procs
                                /\ watch' \in WatchTable /\ evq' \in EventQueues
           /\ CreateWork(p, Idle) =>
                 works' \in CommandTable /\ watch' \in WatchTable /\ evq' \in EventQueues
<1>1. CreateElect(p) => watch' \in WatchTable /\ evq' \in EventQueues
  BY TriggerType DEF CreateElect, ZkType
<1>2. CreateElect(p) => /\ cversion' \in Nat /\ seqno' \in [Procs -> Nat]
                        /\ elect' \subseteq Procs
  BY DEF CreateElect, ZkType
<1>3. CreateWork(p, Idle) => works' \in CommandTable
  BY DEF CreateWork, WorkData, CommandTable, ZkType
<1>4. CreateWork(p, Idle) => watch' \in WatchTable /\ evq' \in EventQueues
  BY TriggerType DEF CreateWork, ZkType
<1>. QED  BY <1>1, <1>2, <1>3, <1>4

\* Ending a session leaves every ZooKeeper variable in its type.
LEMMA EndSessionType ==
    ASSUME evq \in EventQueues, watch \in WatchTable, NEW p \in Procs, EndSession(p)
    PROVE  watch' \in WatchTable /\ evq' \in EventQueues
<1>1. watch' \in WatchTable
  BY DEF EndSession, WatchTable
<1>2. \A q \in Procs : Append(evq[q], "elect") \in Seq(WatchKeys) /\ <<>> \in Seq(WatchKeys)
  BY DEF EventQueues, WatchKeys
<1>3. evq' \in EventQueues
  BY <1>2 DEF EndSession, EventQueues
<1>. QED  BY <1>1, <1>3

-----------------------------------------------------------------------------
(***************************************************************************)
(* Moving one thread, or ending a process, leaves the other threads alone. *)
(***************************************************************************)
LEMMA GotoType ==
    ASSUME pc \in PcTable, NEW p \in Procs, NEW t \in Threads,
           NEW l \in MainPcs \cup CbPcs, Goto(p, t, l)
    PROVE  /\ pc' \in PcTable
           /\ pc'[p][t] = l
           /\ \A q \in Procs, u \in Threads : q # p \/ u # t => pc'[q][u] = pc[q][u]
  BY DEF PcTable, Goto

\* Stopping both threads leaves pc in its type.
LEMMA HaltType ==
    ASSUME pc \in PcTable, NEW p \in Procs, NEW l \in MainPcs, Halt(p, l)
    PROVE  /\ pc' \in PcTable
           /\ pc'[p]["main"] = l /\ pc'[p]["cb"] = "idle"
           /\ \A q \in Procs, u \in Threads : q # p => pc'[q][u] = pc[q][u]
<1>1. "idle" \in MainPcs \cup CbPcs /\ l \in MainPcs \cup CbPcs
  BY DEF CbPcs
<1>. QED  BY <1>1 DEF PcTable, Halt, ThreadsAt, Threads

\* A thread that goes to a place where no local is used may change its own
\* locals as it likes.
LEMMA MainLocals ==
    ASSUME TypeOK, NEW p \in Procs, NEW l \in MainPcs, Goto(p, "main", l),
           l \notin {"got", "recovery", "retry", "send", "free"},
           \A q \in Procs : q # p => task'[q] = task[q],
           UNCHANGED <<curf, curw, wks>>
    PROVE  LocalsSet'
  BY GotoType DEF TypeOK, ThreadType, LocalsSet, Threads

\* A step of the callback thread that moves to a point where no local of a
\* dispatch is used keeps LocalsSet.
LEMMA CbLocals ==
    ASSUME TypeOK, NEW p \in Procs, NEW l \in CbPcs, Goto(p, "cb", l),
           l \notin {"dWorker", "dAssign", "dHalt"},
           \A q \in Procs : q # p => /\ curf'[q] = curf[q]
                                     /\ curw'[q] = curw[q]
                                     /\ wks'[q] = wks[q],
           UNCHANGED task
    PROVE  LocalsSet'
  BY GotoType DEF TypeOK, ThreadType, LocalsSet, Threads

\* A process whose threads are stopped uses no local.
LEMMA HaltLocals ==
    ASSUME TypeOK, NEW p \in Procs, NEW l \in {"exited", "crashed"}, Halt(p, l),
           \A q \in Procs : q # p => task'[q] = task[q],
           DropLocals(p)
    PROVE  LocalsSet'
<1>1. l \in MainPcs
  BY DEF MainPcs
<1>2. \A q \in Procs : q # p => curf'[q] = curf[q] /\ curw'[q] = curw[q] /\ wks'[q] = wks[q]
  BY DEF DropLocals, TypeOK, LocalType
<1>. QED  BY <1>1, <1>2, HaltType DEF TypeOK, ThreadType, LocalsSet, Threads

-----------------------------------------------------------------------------
(***************************************************************************)
(* Type correctness, one lemma for each part of the program.               *)
(***************************************************************************)
\* Registering in /elect (regist) keeps every variable typed.
LEMMA RegistElectType ==
    ASSUME TypeOK, NEW p \in Procs, RegistElect(p)
    PROVE  TypeOK'
<1>1. ZkType'
  BY CreateType DEF RegistElect, TypeOK, ZkType, zkVars, locals, history, budget
<1>2. ThreadType'
  BY GotoType
  DEF RegistElect, TypeOK, ThreadType, MainPcs, CbPcs, ChoosePcs, DispatchPcs,
      RecoverPcs, Threads, zkVars, locals, history, budget
<1>3. LocalsSet'
  BY MainLocals
  DEF RegistElect, TypeOK, MainPcs, CbPcs, ChoosePcs, DispatchPcs, RecoverPcs,
      zkVars, locals, history, budget
<1>4. LocalType' /\ HistoryType'
  BY
  DEF RegistElect, TypeOK, LocalType, HistoryType, zkVars, locals, history, budget
<1>. QED  BY <1>1, <1>2, <1>3, <1>4 DEF TypeOK

\* So do the other steps of PREWORK,
LEMMA PreworkType ==
    ASSUME TypeOK, NEW p \in Procs, RegistWork(p) \/ Identify(p) \/ MonitorWork(p) \/ WatchChildren(p)
    PROVE  TypeOK'
<1>1. CASE RegistWork(p)
  <2>1. ZkType'
    BY <1>1, CreateType
    DEF RegistWork, TypeOK, ZkType, zkVars, locals, history, budget
  <2>2. ThreadType'
    BY <1>1, GotoType
    DEF RegistWork, TypeOK, ThreadType, MainPcs, CbPcs, ChoosePcs, DispatchPcs,
        RecoverPcs, Threads, zkVars, locals, history, budget
  <2>3. LocalsSet'
    BY <1>1, MainLocals
    DEF RegistWork, TypeOK, MainPcs, CbPcs, ChoosePcs, DispatchPcs, RecoverPcs,
        zkVars, locals, history, budget
  <2>4. LocalType' /\ HistoryType'
    BY <1>1
    DEF RegistWork, TypeOK, LocalType, HistoryType, zkVars, locals, history, budget
  <2>. QED  BY <2>1, <2>2, <2>3, <2>4 DEF TypeOK
<1>2. CASE Identify(p)
  <2>1. ZkType'
    BY <1>2, WatchType
    DEF Identify, TypeOK, ZkType, WatchKeys, zkVars, locals, history, budget
  <2>2. ThreadType'
    BY <1>2, GotoType
    DEF Identify, TypeOK, ThreadType, MainPcs, CbPcs, ChoosePcs, DispatchPcs,
        RecoverPcs, Threads, zkVars, locals, history, budget
  <2>3. LocalsSet'
    BY <1>2, MainLocals
    DEF Identify, TypeOK, MainPcs, CbPcs, ChoosePcs, DispatchPcs, RecoverPcs,
        zkVars, locals, history, budget
  <2>4. LocalType' /\ HistoryType'
    BY <1>2
    DEF Identify, TypeOK, LocalType, HistoryType, zkVars, locals, history, budget
  <2>. QED  BY <2>1, <2>2, <2>3, <2>4 DEF TypeOK
<1>3. CASE MonitorWork(p)
  <2>1. ZkType'
    BY <1>3, WatchType
    DEF MonitorWork, TypeOK, ZkType, WatchKeys, zkVars, locals, history, budget
  <2>2. ThreadType'
    BY <1>3, GotoType
    DEF MonitorWork, TypeOK, ThreadType, MainPcs, CbPcs, ChoosePcs, DispatchPcs,
        RecoverPcs, Threads, zkVars, locals, history, budget
  <2>3. LocalType'
    BY <1>3
    DEF MonitorWork, TypeOK, LocalType, Children, zkVars, locals, history, budget
  <2>4. LocalsSet'
    BY <1>3, MainLocals
    DEF MonitorWork, TypeOK, MainPcs, CbPcs, ChoosePcs, DispatchPcs, RecoverPcs,
        zkVars, locals, history, budget
  <2>5. HistoryType'
    BY <1>3 DEF MonitorWork, TypeOK, HistoryType, zkVars, locals, history, budget
  <2>. QED  BY <2>1, <2>2, <2>3, <2>4, <2>5 DEF TypeOK
<1>4. CASE WatchChildren(p)
  <2>1. ZkType'
    BY <1>4, WatchType
    DEF WatchChildren, TypeOK, ZkType, LocalType, zkVars, locals, history, budget
  <2>2. ThreadType'
    BY <1>4, GotoType
    DEF WatchChildren, TypeOK, ThreadType, MainPcs, CbPcs, ChoosePcs, DispatchPcs,
        RecoverPcs, Threads, zkVars, locals, history, budget
  <2>3. LocalType'
    BY <1>4 DEF WatchChildren, TypeOK, LocalType, zkVars, locals, history, budget
  <2>4. LocalsSet'
    BY <1>4, GotoType
    DEF WatchChildren, TypeOK, LocalsSet, Threads, ThreadType, At, MainPcs, CbPcs,
        ChoosePcs, DispatchPcs, RecoverPcs, zkVars, locals, history, budget
  <2>5. HistoryType'
    BY <1>4 DEF WatchChildren, TypeOK, HistoryType, zkVars, locals, history, budget
  <2>. QED  BY <2>1, <2>2, <2>3, <2>4, <2>5 DEF TypeOK
<1>. QED  BY <1>1, <1>2, <1>3, <1>4

\* the loop of work(int),
LEMMA WorkType ==
    ASSUME TypeOK, NEW p \in Procs, work(p)
    PROVE  TypeOK'
<1>1. CASE RecvWork(p)
  <2>1. ZkType'
    BY <1>1, WatchType DEF RecvWork, TypeOK, ZkType, zkVars, locals, history, budget
  <2>2. ThreadType'
    BY <1>1, GotoType
    DEF RecvWork, TypeOK, ThreadType, MainPcs, CbPcs, ChoosePcs, DispatchPcs,
        RecoverPcs, Threads, zkVars, locals, history, budget
  <2>3. LocalsSet'
    BY <1>1, GotoType
    DEF RecvWork, TypeOK, LocalsSet, Threads, ThreadType, At, MainPcs, CbPcs,
        ChoosePcs, DispatchPcs, RecoverPcs, zkVars, locals, history, budget
  <2>4. LocalType' /\ HistoryType'
    BY <1>1
    DEF RecvWork, TypeOK, LocalType, HistoryType, zkVars, locals, history, budget
  <2>. QED  BY <2>1, <2>2, <2>3, <2>4 DEF TypeOK
<1>2. CASE StY(p)
  <2>1. ZkType'
    BY <1>2 DEF StY, TypeOK, ZkType, zkVars, locals, history, budget
  <2>2. ThreadType'
    BY <1>2, GotoType
    DEF StY, TypeOK, ThreadType, MainPcs, CbPcs, ChoosePcs, DispatchPcs, RecoverPcs,
        Threads, zkVars, locals, history, budget
  <2>3. LocalsSet'
    BY <1>2, GotoType
    DEF StY, TypeOK, LocalsSet, Threads, ThreadType, At, MainPcs, CbPcs, ChoosePcs,
        DispatchPcs, RecoverPcs, zkVars, locals, history, budget
  <2>4. LocalType' /\ HistoryType'
    BY <1>2 DEF StY, TypeOK, LocalType, HistoryType, zkVars, locals, history, budget
  <2>. QED  BY <2>1, <2>2, <2>3, <2>4 DEF TypeOK
<1>3. CASE CsvRecoveryFails(p)
  <2>1. ThreadType'
    BY <1>3, GotoType
    DEF CsvRecoveryFails, TypeOK, ThreadType, MainPcs, CbPcs, ChoosePcs,
        DispatchPcs, RecoverPcs, Threads, zkVars, locals, history, budget
  <2>2. HistoryType'
    BY <1>3, BoundsNat
    DEF CsvRecoveryFails, TypeOK, HistoryType, zkVars, locals, history, budget
  <2>3. LocalsSet'
    BY <1>3, GotoType
    DEF CsvRecoveryFails, TypeOK, LocalsSet, Threads, ThreadType, At, MainPcs,
        CbPcs, ChoosePcs, DispatchPcs, RecoverPcs, zkVars, locals, history, budget
  <2>4. ZkType' /\ LocalType'
    BY <1>3
    DEF CsvRecoveryFails, TypeOK, ZkType, LocalType, zkVars, locals, history, budget
  <2>. QED  BY <2>1, <2>2, <2>3, <2>4 DEF TypeOK
<1>4. CASE StG(p)
  <2>1. ZkType'
    BY <1>4 DEF StG, TypeOK, ZkType, zkVars, locals, history, budget
  <2>2. ThreadType'
    BY <1>4, GotoType
    DEF StG, TypeOK, ThreadType, MainPcs, CbPcs, ChoosePcs, DispatchPcs, RecoverPcs,
        Threads, zkVars, locals, history, budget
  <2>3. LocalsSet'
    BY <1>4, GotoType
    DEF StG, TypeOK, LocalsSet, Threads, ThreadType, At, MainPcs, CbPcs, ChoosePcs,
        DispatchPcs, RecoverPcs, zkVars, locals, history, budget
  <2>4. LocalType' /\ HistoryType'
    BY <1>4 DEF StG, TypeOK, LocalType, HistoryType, zkVars, locals, history, budget
  <2>. QED  BY <2>1, <2>2, <2>3, <2>4 DEF TypeOK
<1>5. CASE SendFile(p)
  <2>1. ThreadType'
    BY <1>5, GotoType
    DEF SendFile, TypeOK, ThreadType, MainPcs, CbPcs, ChoosePcs, DispatchPcs,
        RecoverPcs, Threads, zkVars, locals, history, budget
  <2>2. HistoryType'
    BY <1>5, BoundsNat
    DEF SendFile, TypeOK, HistoryType, LocalsSet, At, zkVars, locals, history,
        budget
  <2>3. LocalsSet'
    BY <1>5, GotoType
    DEF SendFile, TypeOK, LocalsSet, Threads, ThreadType, At, MainPcs, CbPcs,
        ChoosePcs, DispatchPcs, RecoverPcs, zkVars, locals, history, budget
  <2>4. ZkType' /\ LocalType'
    BY <1>5 DEF SendFile, TypeOK, ZkType, LocalType, zkVars, locals, history, budget
  <2>. QED  BY <2>1, <2>2, <2>3, <2>4 DEF TypeOK
<1>6. CASE SetWkSt(p)
  <2>1. ZkType'
    BY <1>6, SetWorkType
    DEF SetWkSt, TypeOK, ZkType, WorkData, zkVars, locals, history, budget
  <2>2. ThreadType'
    BY <1>6, GotoType
    DEF SetWkSt, TypeOK, ThreadType, MainPcs, CbPcs, ChoosePcs, DispatchPcs,
        RecoverPcs, Threads, zkVars, locals, history, budget
  <2>3. LocalsSet'
    BY <1>6, MainLocals
    DEF SetWkSt, TypeOK, MainPcs, CbPcs, ChoosePcs, DispatchPcs, RecoverPcs, zkVars,
        locals, history, budget
  <2>4. LocalType' /\ HistoryType'
    BY <1>6
    DEF SetWkSt, TypeOK, LocalType, HistoryType, zkVars, locals, history, budget
  <2>. QED  BY <2>1, <2>2, <2>3, <2>4 DEF TypeOK
<1>7. CASE Close(p)
  <2>1. ZkType'
    BY <1>7, EndSessionType
    DEF Close, TypeOK, ZkType, EndSession, zkVars, locals, history, budget
  <2>2. ThreadType'
    BY <1>7, HaltType
    DEF Close, TypeOK, ThreadType, DropLocals, MainPcs, CbPcs, ChoosePcs,
        DispatchPcs, RecoverPcs, Threads, zkVars, locals, history, budget
  <2>3. LocalType'
    BY <1>7
    DEF Close, TypeOK, LocalType, DropLocals, zkVars, locals, history, budget
  <2>4. LocalsSet'
    BY <1>7, HaltLocals
    DEF Close, TypeOK, MainPcs, CbPcs, ChoosePcs, DispatchPcs, RecoverPcs, zkVars,
        locals, history, budget
  <2>5. HistoryType'
    BY <1>7 DEF Close, TypeOK, HistoryType, zkVars, locals, history, budget
  <2>. QED  BY <2>1, <2>2, <2>3, <2>4, <2>5 DEF TypeOK
<1>. QED  BY <1>1, <1>2, <1>3, <1>4, <1>5, <1>6, <1>7 DEF work

\* the watcher callback,
LEMMA WatcherType ==
    ASSUME TypeOK, NEW p \in Procs, Watcher(p)
    PROVE  TypeOK'
<1>1. ZkType'
  BY WatchType
  DEF Watcher, TypeOK, ZkType, EventQueues, zkVars, locals, history, budget
<1>2. ThreadType'
  BY GotoType
  DEF Watcher, TypeOK, ThreadType, MainPcs, CbPcs, ChoosePcs, DispatchPcs,
      RecoverPcs, Threads, zkVars, locals, history, budget
<1>3. LocalsSet'
  BY GotoType
  DEF Watcher, TypeOK, LocalsSet, Threads, ThreadType, At, MainPcs, CbPcs,
      ChoosePcs, DispatchPcs, RecoverPcs, zkVars, locals, history, budget
<1>4. LocalType' /\ HistoryType'
  BY DEF Watcher, TypeOK, LocalType, HistoryType, zkVars, locals, history, budget
<1>. QED  BY <1>1, <1>2, <1>3, <1>4 DEF TypeOK

\* reelect,
LEMMA ReelectType ==
    ASSUME TypeOK, NEW p \in Procs, Reelect(p) \/ Compare(p) \/ CheckMode(p)
    PROVE  TypeOK'
<1>1. CASE Reelect(p)
  <2>1. ZkType'
    BY <1>1, WatchType
    DEF Reelect, TypeOK, ZkType, WatchKeys, zkVars, locals, history, budget
  <2>2. ThreadType'
    BY <1>1, GotoType
    DEF Reelect, TypeOK, ThreadType, MainPcs, CbPcs, ChoosePcs, DispatchPcs,
        RecoverPcs, Threads, zkVars, locals, history, budget
  <2>3. LocalType'
    BY <1>1 DEF Reelect, TypeOK, LocalType, ZkType, zkVars, locals, history, budget
  <2>4. LocalsSet'
    BY <1>1, CbLocals
    DEF Reelect, TypeOK, MainPcs, CbPcs, ChoosePcs, DispatchPcs, RecoverPcs, zkVars,
        locals, history, budget
  <2>5. HistoryType'
    BY <1>1 DEF Reelect, TypeOK, HistoryType, zkVars, locals, history, budget
  <2>. QED  BY <2>1, <2>2, <2>3, <2>4, <2>5 DEF TypeOK
<1>2. CASE Compare(p)
  <2>1. ZkType'
    BY <1>2, WatchType
    DEF Compare, TypeOK, ZkType, WatchKeys, zkVars, locals, history, budget
  <2>2. ThreadType'
    BY <1>2, GotoType
    DEF Compare, TypeOK, ThreadType, MainPcs, CbPcs, ChoosePcs, DispatchPcs,
        RecoverPcs, Threads, zkVars, locals, history, budget
  <2>3. LocalType'
    BY <1>2 DEF Compare, TypeOK, LocalType, zkVars, locals, history, budget
  <2>4. LocalsSet'
    BY <1>2, CbLocals
    DEF Compare, TypeOK, MainPcs, CbPcs, ChoosePcs, DispatchPcs, RecoverPcs, zkVars,
        locals, history, budget
  <2>5. HistoryType'
    BY <1>2 DEF Compare, TypeOK, HistoryType, zkVars, locals, history, budget
  <2>. QED  BY <2>1, <2>2, <2>3, <2>4, <2>5 DEF TypeOK
<1>3. CASE CheckMode(p)
  <2>1. ThreadType'
    BY <1>3, GotoType
    DEF CheckMode, TypeOK, ThreadType, MainPcs, CbPcs, ChoosePcs, DispatchPcs,
        RecoverPcs, Threads, zkVars, locals, history, budget
  <2>2. LocalsSet'
    BY <1>3, CbLocals
    DEF CheckMode, TypeOK, MainPcs, CbPcs, ChoosePcs, DispatchPcs, RecoverPcs,
        zkVars, locals, history, budget
  <2>3. ZkType' /\ LocalType' /\ HistoryType'
    BY <1>3
    DEF CheckMode, TypeOK, ZkType, LocalType, HistoryType, zkVars, locals, history,
        budget
  <2>. QED  BY <2>1, <2>2, <2>3 DEF TypeOK
<1>. QED  BY <1>1, <1>2, <1>3

\* recover,
LEMMA RecoverType ==
    ASSUME TypeOK, NEW p \in Procs, recover(p)
    PROVE  TypeOK'
<1>1. CASE RecoverOwn(p)
  <2>1. ZkType'
    BY <1>1, WatchType
    DEF RecoverOwn, TypeOK, ZkType, PutBack, zkVars, locals, history, budget
  <2>2. ThreadType'
    BY <1>1, GotoType
    DEF RecoverOwn, TypeOK, ThreadType, MainPcs, CbPcs, ChoosePcs, DispatchPcs,
        RecoverPcs, Threads, zkVars, locals, history, budget
  <2>3. LocalsSet'
    BY <1>1, CbLocals
    DEF RecoverOwn, TypeOK, MainPcs, CbPcs, ChoosePcs, DispatchPcs, RecoverPcs,
        zkVars, locals, history, budget
  <2>4. LocalType' /\ HistoryType'
    BY <1>1
    DEF RecoverOwn, TypeOK, LocalType, HistoryType, zkVars, locals, history, budget
  <2>. QED  BY <2>1, <2>2, <2>3, <2>4 DEF TypeOK
<1>2. CASE RecoverIdle(p)
  <2>1. ZkType'
    BY <1>2, SetWorkType
    DEF RecoverIdle, TypeOK, ZkType, WorkData, zkVars, locals, history, budget
  <2>2. ThreadType'
    BY <1>2, GotoType
    DEF RecoverIdle, TypeOK, ThreadType, MainPcs, CbPcs, ChoosePcs, DispatchPcs,
        RecoverPcs, Threads, zkVars, locals, history, budget
  <2>3. LocalsSet'
    BY <1>2, CbLocals
    DEF RecoverIdle, TypeOK, MainPcs, CbPcs, ChoosePcs, DispatchPcs, RecoverPcs,
        zkVars, locals, history, budget
  <2>4. LocalType' /\ HistoryType'
    BY <1>2
    DEF RecoverIdle, TypeOK, LocalType, HistoryType, zkVars, locals, history, budget
  <2>. QED  BY <2>1, <2>2, <2>3, <2>4 DEF TypeOK
<1>3. CASE RecoverElect(p)
  <2>1. ZkType'
    BY <1>3, WatchType
    DEF RecoverElect, TypeOK, ZkType, WatchKeys, zkVars, locals, history, budget
  <2>2. ThreadType'
    BY <1>3, GotoType
    DEF RecoverElect, TypeOK, ThreadType, MainPcs, CbPcs, ChoosePcs, DispatchPcs,
        RecoverPcs, Threads, zkVars, locals, history, budget
  <2>3. LocalType'
    BY <1>3
    DEF RecoverElect, TypeOK, LocalType, ZkType, zkVars, locals, history, budget
  <2>4. LocalsSet'
    BY <1>3, CbLocals
    DEF RecoverElect, TypeOK, MainPcs, CbPcs, ChoosePcs, DispatchPcs, RecoverPcs,
        zkVars, locals, history, budget
  <2>5. HistoryType'
    BY <1>3 DEF RecoverElect, TypeOK, HistoryType, zkVars, locals, history, budget
  <2>. QED  BY <2>1, <2>2, <2>3, <2>4, <2>5 DEF TypeOK
<1>4. CASE RecoverGet(p)
  <2>1. ThreadType'
    BY <1>4, GotoType
    DEF RecoverGet, TypeOK, ThreadType, MainPcs, CbPcs, ChoosePcs, DispatchPcs,
        RecoverPcs, Threads, zkVars, locals, history, budget
  <2>2. LocalType'
    BY <1>4 DEF RecoverGet, TypeOK, LocalType, zkVars, locals, history, budget
  <2>3. LocalsSet'
    BY <1>4, GotoType
    DEF RecoverGet, TypeOK, LocalsSet, Threads, ThreadType, At, MainPcs, CbPcs,
        ChoosePcs, DispatchPcs, RecoverPcs, zkVars, locals, history, budget
  <2>4. ZkType' /\ HistoryType'
    BY <1>4
    DEF RecoverGet, TypeOK, ZkType, HistoryType, zkVars, locals, history, budget
  <2>. QED  BY <2>1, <2>2, <2>3, <2>4 DEF TypeOK
<1>5. CASE RecoverWorks(p)
  <2>1. ZkType'
    BY <1>5, WatchType
    DEF RecoverWorks, TypeOK, ZkType, WatchKeys, zkVars, locals, history, budget
  <2>2. ThreadType'
    BY <1>5, GotoType
    DEF RecoverWorks, TypeOK, ThreadType, MainPcs, CbPcs, ChoosePcs, DispatchPcs,
        RecoverPcs, Threads, zkVars, locals, history, budget
  <2>3. LocalType'
    BY <1>5
    DEF RecoverWorks, TypeOK, LocalType, Children, zkVars, locals, history, budget
  <2>4. LocalsSet'
    BY <1>5, CbLocals
    DEF RecoverWorks, TypeOK, MainPcs, CbPcs, ChoosePcs, DispatchPcs, RecoverPcs,
        zkVars, locals, history, budget
  <2>5. HistoryType'
    BY <1>5 DEF RecoverWorks, TypeOK, HistoryType, zkVars, locals, history, budget
  <2>. QED  BY <2>1, <2>2, <2>3, <2>4, <2>5 DEF TypeOK
<1>6. CASE RecoverDelete(p)
  <2>1. ZkType'
    BY <1>6, DeleteWorkType
    DEF RecoverDelete, TypeOK, ZkType, PutBack, zkVars, locals, history, budget
  <2>2. ThreadType'
    BY <1>6, GotoType
    DEF RecoverDelete, TypeOK, ThreadType, MainPcs, CbPcs, ChoosePcs, DispatchPcs,
        RecoverPcs, Threads, zkVars, locals, history, budget
  <2>3. LocalType'
    BY <1>6 DEF RecoverDelete, TypeOK, LocalType, zkVars, locals, history, budget
  <2>4. LocalsSet'
    BY <1>6, GotoType
    DEF RecoverDelete, TypeOK, LocalsSet, LocalType, Threads, ThreadType, At,
        MainPcs, CbPcs, ChoosePcs, DispatchPcs, RecoverPcs, zkVars, locals, history,
        budget
  <2>5. HistoryType'
    BY <1>6 DEF RecoverDelete, TypeOK, HistoryType, zkVars, locals, history, budget
  <2>. QED  BY <2>1, <2>2, <2>3, <2>4, <2>5 DEF TypeOK
<1>. QED  BY <1>1, <1>2, <1>3, <1>4, <1>5, <1>6 DEF recover

\* dispatch_work,
LEMMA DispatchType ==
    ASSUME TypeOK, NEW p \in Procs, dispatch_work(p)
    PROVE  TypeOK'
<1>1. CASE Dispatch(p)
  <2>1. ZkType'
    BY <1>1, WatchType
    DEF Dispatch, TypeOK, ZkType, WatchKeys, zkVars, locals, history, budget
  <2>2. ThreadType'
    BY <1>1, GotoType
    DEF Dispatch, TypeOK, ThreadType, MainPcs, CbPcs, ChoosePcs, DispatchPcs,
        RecoverPcs, Threads, zkVars, locals, history, budget
  <2>3. LocalType'
    BY <1>1
    DEF Dispatch, TypeOK, LocalType, Children, zkVars, locals, history, budget
  <2>4. HistoryType'
    BY <1>1 DEF Dispatch, TypeOK, HistoryType, zkVars, locals, history, budget
  <2>5. LocalsSet'
    BY <1>1, CbLocals
    DEF Dispatch, TypeOK, MainPcs, CbPcs, ChoosePcs, DispatchPcs, RecoverPcs,
        zkVars, locals, history, budget
  <2>. QED  BY <2>1, <2>2, <2>3, <2>4, <2>5 DEF TypeOK
<1>2. CASE DispatchFile(p)
  <2>1. ThreadType'
    BY <1>2, GotoType
    DEF DispatchFile, TypeOK, ThreadType, MainPcs, CbPcs, ChoosePcs, DispatchPcs,
        RecoverPcs, Threads, zkVars, locals, history, budget
  <2>2. LocalType'
    BY <1>2 DEF DispatchFile, TypeOK, LocalType, zkVars, locals, history, budget
  <2>3. LocalsSet'
    BY <1>2, GotoType
    DEF DispatchFile, TypeOK, LocalsSet, LocalType, Threads, ThreadType, At,
        MainPcs, CbPcs, ChoosePcs, DispatchPcs, RecoverPcs, zkVars, locals, history,
        budget
  <2>4. ZkType' /\ HistoryType'
    BY <1>2
    DEF DispatchFile, TypeOK, ZkType, HistoryType, zkVars, locals, history, budget
  <2>. QED  BY <2>1, <2>2, <2>3, <2>4 DEF TypeOK
<1>3. CASE DispatchWorker(p)
  <2>1. ZkType'
    BY <1>3, WatchType
    DEF DispatchWorker, TypeOK, ZkType, LocalType, Look, zkVars, locals, history,
        budget
  <2>2. ThreadType'
    BY <1>3, GotoType
    DEF DispatchWorker, TypeOK, ThreadType, Look, MainPcs, CbPcs, ChoosePcs,
        DispatchPcs, RecoverPcs, Threads, zkVars, locals, history, budget
  <2>3. LocalType'
    BY <1>3
    DEF DispatchWorker, TypeOK, LocalType, Look, zkVars, locals, history, budget
  <2>4. LocalsSet'
    BY <1>3, GotoType
    DEF DispatchWorker, TypeOK, LocalsSet, LocalType, Threads, Look, ThreadType, At,
        MainPcs, CbPcs, ChoosePcs, DispatchPcs, RecoverPcs, zkVars, locals, history,
        budget
  <2>5. HistoryType'
    BY <1>3 DEF DispatchWorker, TypeOK, HistoryType, zkVars, locals, history, budget
  <2>. QED  BY <2>1, <2>2, <2>3, <2>4, <2>5 DEF TypeOK
<1>4. CASE DispatchAssign(p)
  <2>1. ZkType'
    BY <1>4, SetWorkType
    DEF DispatchAssign, TypeOK, ZkType, WorkData, LocalsSet, At, zkVars, locals,
        history, budget
  <2>2. ThreadType'
    BY <1>4, GotoType
    DEF DispatchAssign, TypeOK, ThreadType, MainPcs, CbPcs, ChoosePcs, DispatchPcs,
        RecoverPcs, Threads, zkVars, locals, history, budget
  <2>3. LocalType'
    BY <1>4 DEF DispatchAssign, TypeOK, LocalType, zkVars, locals, history, budget
  <2>4. LocalsSet'
    BY <1>4, CbLocals
    DEF DispatchAssign, TypeOK, MainPcs, CbPcs, ChoosePcs, DispatchPcs, RecoverPcs,
        zkVars, locals, history, budget
  <2>5. HistoryType'
    BY <1>4 DEF DispatchAssign, TypeOK, HistoryType, zkVars, locals, history, budget
  <2>. QED  BY <2>1, <2>2, <2>3, <2>4, <2>5 DEF TypeOK
<1>5. CASE DispatchStop(p)
  <2>1. ZkType'
    BY <1>5, WatchType
    DEF DispatchStop, TypeOK, ZkType, LocalType, Look, zkVars, locals, history,
        budget
  <2>2. ThreadType'
    BY <1>5, GotoType
    DEF DispatchStop, TypeOK, ThreadType, Look, MainPcs, CbPcs, ChoosePcs,
        DispatchPcs, RecoverPcs, Threads, zkVars, locals, history, budget
  <2>3. LocalType'
    BY <1>5
    DEF DispatchStop, TypeOK, LocalType, Look, zkVars, locals, history, budget
  <2>4. LocalsSet'
    BY <1>5, GotoType
    DEF DispatchStop, TypeOK, LocalsSet, LocalType, Threads, Look, ThreadType, At,
        MainPcs, CbPcs, ChoosePcs, DispatchPcs, RecoverPcs, zkVars, locals, history,
        budget
  <2>5. HistoryType'
    BY <1>5 DEF DispatchStop, TypeOK, HistoryType, zkVars, locals, history, budget
  <2>. QED  BY <2>1, <2>2, <2>3, <2>4, <2>5 DEF TypeOK
<1>6. CASE DispatchHalt(p)
  <2>1. ZkType'
    BY <1>6, SetWorkType
    DEF DispatchHalt, TypeOK, ZkType, WorkData, zkVars, locals, history, budget
  <2>2. ThreadType'
    BY <1>6, GotoType
    DEF DispatchHalt, TypeOK, ThreadType, MainPcs, CbPcs, ChoosePcs, DispatchPcs,
        RecoverPcs, Threads, zkVars, locals, history, budget
  <2>3. LocalType'
    BY <1>6 DEF DispatchHalt, TypeOK, LocalType, zkVars, locals, history, budget
  <2>4. LocalsSet'
    BY <1>6, CbLocals
    DEF DispatchHalt, TypeOK, MainPcs, CbPcs, ChoosePcs, DispatchPcs, RecoverPcs,
        zkVars, locals, history, budget
  <2>5. HistoryType'
    BY <1>6 DEF DispatchHalt, TypeOK, HistoryType, zkVars, locals, history, budget
  <2>. QED  BY <2>1, <2>2, <2>3, <2>4, <2>5 DEF TypeOK
<1>. QED  BY <1>1, <1>2, <1>3, <1>4, <1>5, <1>6 DEF dispatch_work

\* crashes, lost and expired sessions,
LEMMA FaultType ==
    ASSUME TypeOK, NEW p \in Procs, Crash(p) \/ Expire(p) \/ LoseSession(p)
    PROVE  TypeOK'
<1>1. CASE Crash(p)
  <2>1. ZkType'
    BY <1>1
    DEF Crash, TypeOK, ZkType, WatchTable, EventQueues, zkVars, locals, history,
        budget
  <2>2. ThreadType'
    BY <1>1, HaltType
    DEF Crash, TypeOK, ThreadType, DropLocals, MainPcs, CbPcs, ChoosePcs,
        DispatchPcs, RecoverPcs, Threads, zkVars, locals, history, budget
  <2>3. LocalType'
    BY <1>1
    DEF Crash, TypeOK, LocalType, DropLocals, zkVars, locals, history, budget
  <2>4. HistoryType'
    BY <1>1, BoundsNat
    DEF Crash, TypeOK, HistoryType, zkVars, locals, history, budget
  <2>5. LocalsSet'
    BY <1>1, HaltLocals
    DEF Crash, TypeOK, MainPcs, CbPcs, ChoosePcs, DispatchPcs, RecoverPcs, zkVars,
        locals, history, budget
  <2>. QED  BY <2>1, <2>2, <2>3, <2>4, <2>5 DEF TypeOK
<1>2. CASE Expire(p)
  <2>1. ZkType'
    BY <1>2, EndSessionType
    DEF Expire, TypeOK, ZkType, EndSession, zkVars, locals, history, budget
  <2>2. LocalsSet'
    BY <1>2
    DEF Expire, TypeOK, LocalsSet, At, MainPcs, CbPcs, ChoosePcs, DispatchPcs,
        RecoverPcs, zkVars, locals, history, budget
  <2>3. ThreadType' /\ LocalType' /\ HistoryType'
    BY <1>2
    DEF Expire, TypeOK, ThreadType, LocalType, HistoryType, zkVars, locals, history,
        budget
  <2>. QED  BY <2>1, <2>2, <2>3 DEF TypeOK
<1>3. CASE LoseSession(p)
  <2>1. ZkType'
    BY <1>3, EndSessionType
    DEF LoseSession, TypeOK, ZkType, EndSession, zkVars, locals, history, budget
  <2>2. ThreadType'
    BY <1>3, GotoType
    DEF LoseSession, TypeOK, ThreadType, Threads, MainPcs, CbPcs, ChoosePcs,
        DispatchPcs, RecoverPcs, zkVars, locals, history, budget
  <2>3. LocalType'
    BY <1>3 DEF LoseSession, TypeOK, LocalType, zkVars, locals, history, budget
  <2>4. HistoryType'
    BY <1>3, BoundsNat
    DEF LoseSession, TypeOK, HistoryType, zkVars, locals, history, budget
  <2>5. LocalsSet'
    BY <1>3, CbLocals
    DEF LoseSession, TypeOK, MainPcs, CbPcs, ChoosePcs, DispatchPcs, RecoverPcs,
        zkVars, locals, history, budget
  <2>. QED  BY <2>1, <2>2, <2>3, <2>4, <2>5 DEF TypeOK
<1>. QED  BY <1>1, <1>2, <1>3

\* and choose_mater, in either thread.
LEMMA ChooseType ==
    ASSUME TypeOK, NEW p \in Procs, NEW t \in Threads, ChooseStep(p, t)
    PROVE  TypeOK'
<1>1. CASE ChooseList(p, t)
  <2>1. ZkType'
    BY <1>1, WatchType
    DEF ChooseList, TypeOK, ZkType, WatchKeys, zkVars, locals, history, budget
  <2>2. cand' \in [Procs -> [Threads -> Procs \cup {None}]]
    <3>1. CASE p \notin elect
      BY <1>1, <3>1 DEF ChooseList, TypeOK, ThreadType
    <3>2. CASE p \in elect
      <4>1. PICK m \in elect : cand' = [cand EXCEPT ![p][t] = m]
        BY <1>1, <3>2 DEF ChooseList
      <4>2. m \in Procs \cup {None}
        BY DEF TypeOK, ZkType
      <4>. QED  BY <4>1, <4>2 DEF TypeOK, ThreadType
    <3>. QED  BY <3>1, <3>2
  <2>3. pc' \in PcTable
    BY <1>1, GotoType
    DEF ChooseList, TypeOK, ThreadType, MainPcs, CbPcs, ChoosePcs, Threads, Return
  <2>4. mode' \in [Procs -> {MODE_MONITOR, MODE_WORKER}] /\ task' \in [Procs ->
      Files \cup {None}]
    BY <1>1 DEF ChooseList, TypeOK, ThreadType
  <2>5. LocalsSet'
    BY <1>1, MainLocals, CbLocals
    DEF ChooseList, TypeOK, Return, Threads, MainPcs, CbPcs, ChoosePcs, DispatchPcs,
        RecoverPcs, zkVars, locals, history, budget
  <2>6. LocalType' /\ HistoryType'
    BY <1>1
    DEF ChooseList, TypeOK, LocalType, HistoryType, zkVars, locals, history, budget
  <2>. QED  BY <2>1, <2>2, <2>3, <2>4, <2>5, <2>6 DEF TypeOK, ThreadType
<1>2. CASE ChooseGet(p, t)
  <2>1. ThreadType'
    BY <1>2, GotoType
    DEF ChooseGet, TypeOK, ThreadType, MainPcs, CbPcs, ChoosePcs, DispatchPcs,
        RecoverPcs, Threads, Return, zkVars, locals, history, budget
  <2>2. LocalsSet'
    BY <1>2, MainLocals, CbLocals
    DEF ChooseGet, TypeOK, Return, Threads, MainPcs, CbPcs, ChoosePcs, DispatchPcs,
        RecoverPcs, zkVars, locals, history, budget
  <2>3. ZkType' /\ LocalType' /\ HistoryType'
    BY <1>2
    DEF ChooseGet, TypeOK, ZkType, LocalType, HistoryType, zkVars, locals, history,
        budget
  <2>. QED  BY <2>1, <2>2, <2>3 DEF TypeOK
<1>3. CASE BecomeMonitor(p, t)
  <2>1. ThreadType'
    BY <1>3, GotoType
    DEF BecomeMonitor, TypeOK, ThreadType, MainPcs, CbPcs, ChoosePcs, DispatchPcs,
        RecoverPcs, Threads, Return, zkVars, locals, history, budget
  <2>2. HistoryType'
    BY <1>3
    DEF BecomeMonitor, TypeOK, HistoryType, ZkType, zkVars, locals, history, budget
  <2>3. LocalsSet'
    BY <1>3, MainLocals, CbLocals
    DEF BecomeMonitor, TypeOK, Return, Threads, MainPcs, CbPcs, ChoosePcs,
        DispatchPcs, RecoverPcs, zkVars, locals, history, budget
  <2>4. ZkType' /\ LocalType'
    BY <1>3
    DEF BecomeMonitor, TypeOK, ZkType, LocalType, zkVars, locals, history, budget
  <2>. QED  BY <2>1, <2>2, <2>3, <2>4 DEF TypeOK
<1>4. CASE BecomeWorker(p, t)
  <2>1. ThreadType'
    BY <1>4, GotoType
    DEF BecomeWorker, TypeOK, ThreadType, MainPcs, CbPcs, ChoosePcs, DispatchPcs,
        RecoverPcs, Threads, Return, zkVars, locals, history, budget
  <2>2. LocalsSet'
    BY <1>4, MainLocals, CbLocals
    DEF BecomeWorker, TypeOK, Return, Threads, MainPcs, CbPcs, ChoosePcs,
        DispatchPcs, RecoverPcs, zkVars, locals, history, budget
  <2>3. ZkType' /\ LocalType' /\ HistoryType'
    BY <1>4
    DEF BecomeWorker, TypeOK, ZkType, LocalType, HistoryType, zkVars, locals,
        history, budget
  <2>. QED  BY <2>1, <2>2, <2>3 DEF TypeOK
<1>. QED  BY <1>1, <1>2, <1>3, <1>4 DEF ChooseStep


\* The initial state has its type.
LEMMA InitType == Init => TypeOK
<1>. SUFFICES ASSUME Init PROVE TypeOK
  OBVIOUS
<1>1. ZkType
  BY DEF Init, ZkType, CommandTable, WorkData, WatchTable, EventQueues
<1>2. ThreadType
  BY DEF Init, ThreadType, PcTable, ThreadsAt, Threads, MainPcs, CbPcs
<1>3. LocalType /\ HistoryType
  BY BoundsNat DEF Init, LocalType, HistoryType
<1>4. LocalsSet
  BY DEF Init, LocalsSet, ThreadsAt, Threads
<1>. QED  BY <1>1, <1>2, <1>3, <1>4 DEF TypeOK

\* Every step of the specification preserves the type invariant.
LEMMA NextType == TypeOK /\ [Next]_vars => TypeOK'
<1>. SUFFICES ASSUME TypeOK, [Next]_vars PROVE TypeOK'
  OBVIOUS
<1>1. CASE UNCHANGED vars
  BY <1>1 DEF TypeOK, ZkType, ThreadType, LocalType, HistoryType, LocalsSet,
              vars, zkVars, locals, history, budget
<1>2. ASSUME NEW p \in Procs,
             RegistElect(p) \/ MainStep(p) \/ CbStep(p) \/ Fault(p) \/ Expire(p)
      PROVE  TypeOK'
  <2>1. CASE RegistElect(p)
    BY <2>1, RegistElectType
  <2>2. CASE PREWORK(p)
    BY <2>2, PreworkType, ChooseType DEF PREWORK, Threads
  <2>3. CASE work(p)
    BY <2>3, WorkType
  <2>4. CASE Watcher(p)
    BY <2>4, WatcherType
  <2>5. CASE reelect(p)
    BY <2>5, ReelectType, ChooseType DEF reelect, Threads
  <2>6. CASE recover(p)
    BY <2>6, RecoverType
  <2>7. CASE dispatch_work(p)
    BY <2>7, DispatchType
  <2>8. CASE Fault(p) \/ Expire(p)
    BY <2>8, FaultType DEF Fault
  <2>. QED  BY <1>2, <2>1, <2>2, <2>3, <2>4, <2>5, <2>6, <2>7, <2>8 DEF MainStep, CbStep
<1>. QED  BY <1>1, <1>2 DEF Next

\* Type correctness of the protocol of clust_comm.cpp and work.cpp: every
\* variable keeps its type, and a thread never uses a local it has not set.
THEOREM TypeCorrect == Spec => []TypeOK
  BY InitType, NextType, PTL DEF Spec

-----------------------------------------------------------------------------
(***************************************************************************)
(* The election.                                                           *)
(***************************************************************************)
\* the part of the state that the election depends on, but for pc and cand
office == <<cversion, seqno, elect, mode, epoch>>

-----------------------------------------------------------------------------
(***************************************************************************)
(* Steps that do not take part in the election.                            *)
(***************************************************************************)

\* Thread "main" moves on to a place outside choose_mater.
LEMMA QuietMain ==
    ASSUME TypeOK, ElectionInv, NEW p \in Procs, NEW l \in MainPcs, Goto(p, "main", l),
           l \notin {"off", "get", "toMonitor"}, UNCHANGED <<office, cand>>
    PROVE  ElectionInv'
<1>1. /\ pc'[p]["main"] = l
      /\ \A q \in Procs, u \in Threads : q # p \/ u # "main" => pc'[q][u] = pc[q][u]
  BY GotoType DEF TypeOK, ThreadType, Threads
<1>2. \A q \in Procs : Candidate(q)' => Candidate(q)
  BY <1>1 DEF Candidate, At
<1>3. \A q \in Procs : Coordinating(q)' <=> Coordinating(q)
  BY <1>1 DEF Coordinating, Threads
<1>4. elect \subseteq Procs
  BY DEF TypeOK, ZkType
<1>5. NotStarted'
  BY <1>1 DEF ElectionInv, NotStarted, At, office, Threads
<1>6. Seniority'
  BY <1>2, <1>3, <1>4 DEF ElectionInv, Seniority, IsOldest, office
<1>7. Numbered' /\ InOffice'
  BY DEF ElectionInv, Numbered, InOffice, office
<1>. QED  BY <1>5, <1>6, <1>7 DEF ElectionInv

\* Thread "cb" moves on outside choose_mater; it becomes busy with recover or
\* dispatch_work only in a monitor, or if it is already.
LEMMA QuietCb ==
    ASSUME TypeOK, ElectionInv, NEW p \in Procs, NEW l \in CbPcs, Goto(p, "cb", l),
           pc[p]["main"] # "off",
           l \notin {"get", "toMonitor"}, UNCHANGED <<office, cand>>,
           l \in DispatchPcs \cup RecoverPcs => mode[p] = MODE_MONITOR \/ Coordinating(p)
    PROVE  ElectionInv'
<1>1. /\ pc'[p]["cb"] = l
      /\ \A q \in Procs, u \in Threads : q # p \/ u # "cb" => pc'[q][u] = pc[q][u]
  BY GotoType DEF TypeOK, ThreadType, Threads
<1>2. \A q \in Procs : Candidate(q)' => Candidate(q)
  BY <1>1 DEF Candidate, At
<1>3. \A q \in Procs : Coordinating(q)' => Coordinating(q) \/ mode[q] = MODE_MONITOR
  BY <1>1 DEF Coordinating, Threads
<1>4. elect \subseteq Procs
  BY DEF TypeOK, ZkType
<1>5. NotStarted'
  BY <1>1 DEF ElectionInv, NotStarted, At, office, Threads
<1>6. Seniority'
  BY <1>2, <1>3, <1>4 DEF ElectionInv, Seniority, IsOldest, office
<1>7. Numbered' /\ InOffice'
  BY DEF ElectionInv, Numbered, InOffice, office
<1>. QED  BY <1>5, <1>6, <1>7 DEF ElectionInv

\* No thread moves.
LEMMA QuietStay ==
    ASSUME ElectionInv, UNCHANGED <<office, pc, cand>>
    PROVE  ElectionInv'
  BY DEF ElectionInv, Numbered, NotStarted, Seniority, InOffice, IsOldest,
         Candidate, Coordinating, At, office

-----------------------------------------------------------------------------
(***************************************************************************)
(* Steps that do.                                                          *)
(***************************************************************************)

\* The process that joins (regist) gets the greatest number so far.
LEMMA JoinKeeps ==
    ASSUME TypeOK, ElectionInv, NEW p \in Procs, RegistElect(p)
    PROVE  ElectionInv'
<1>1. /\ cversion' = cversion + 1 /\ elect' = elect \cup {p}
      /\ seqno' = [seqno EXCEPT ![p] = cversion + 1]
      /\ UNCHANGED <<mode, epoch, cand>>
  BY DEF RegistElect, CreateElect, locals, history
<1>2. /\ pc'[p]["main"] = "register"
      /\ \A q \in Procs, u \in Threads : q # p \/ u # "main" => pc'[q][u] = pc[q][u]
  BY GotoType DEF RegistElect, TypeOK, ThreadType, Threads, MainPcs
<1>3. p \notin elect /\ mode[p] = MODE_WORKER /\ pc[p]["cb"] = "idle"
  BY DEF RegistElect, ElectionInv, NotStarted, At
<1>4. elect \subseteq Procs /\ cversion \in Nat /\ seqno \in [Procs -> Nat] /\ epoch \in Nat
  BY DEF TypeOK, ZkType, HistoryType
<1>5. Numbered'
  BY <1>1, <1>3, <1>4 DEF ElectionInv, Numbered
<1>6. NotStarted'
  BY <1>1, <1>2 DEF ElectionInv, NotStarted, At, Threads
<1>7. ~ Candidate(p)' /\ ~ Coordinating(p)'
  BY <1>2, <1>3 DEF Candidate, Coordinating, At, Threads, DispatchPcs, RecoverPcs
<1>8. \A q \in elect : /\ Candidate(q)' => Candidate(q)
                       /\ Coordinating(q)' => Coordinating(q)
  BY <1>1, <1>2, <1>3, <1>4 DEF Candidate, Coordinating, At, Threads
<1>9. \A q \in elect : IsOldest(q) => IsOldest(q)'
  BY <1>1, <1>3, <1>4 DEF IsOldest, ElectionInv, Numbered
<1>10. Seniority'
  BY <1>1, <1>3, <1>7, <1>8, <1>9 DEF ElectionInv, Seniority, MODE_MONITOR, MODE_WORKER
<1>11. InOffice'
  BY <1>1, <1>3, <1>4 DEF ElectionInv, InOffice, MODE_MONITOR, MODE_WORKER
<1>. QED  BY <1>5, <1>6, <1>10, <1>11 DEF ElectionInv

\* A session that ends takes a process away and makes nobody younger.
LEMMA LeaveKeeps ==
    ASSUME TypeOK, ElectionInv, NEW p \in Procs,
           elect' = elect \ {p} \/ elect' = elect,
           UNCHANGED <<cversion, seqno, mode, epoch>>,
           pc[p]["main"] # "off" /\ pc'[p]["main"] # "off",
           pc'[p]["cb"] = pc[p]["cb"] \/ pc'[p]["cb"] = "idle",
           \A t \in Threads : \/ pc'[p][t] = pc[p][t] /\ cand'[p][t] = cand[p][t]
                             \/ pc'[p][t] \in {"idle", "crashed", "exited"},
           \A q \in Procs \ {p}, t \in Threads :
               pc'[q][t] = pc[q][t] /\ cand'[q][t] = cand[q][t]
    PROVE  ElectionInv'
<1>1. elect \subseteq Procs /\ elect' \subseteq elect
  BY DEF TypeOK, ZkType
<1>2. Numbered' /\ InOffice'
  BY <1>1 DEF ElectionInv, Numbered, InOffice
<1>3. NotStarted'
  BY <1>1 DEF ElectionInv, NotStarted, At, Threads
<1>4. \A q \in elect : Candidate(q)' => Candidate(q)
  BY <1>1 DEF Candidate, At
<1>5. \A q \in elect : Coordinating(q)' => Coordinating(q)
  BY <1>1 DEF Coordinating, Threads, DispatchPcs, RecoverPcs
<1>6. Seniority'
  BY <1>1, <1>4, <1>5 DEF ElectionInv, Seniority, IsOldest
<1>. QED  BY <1>2, <1>3, <1>6 DEF ElectionInv

\* identify and choose_mater: a thread of p comes to think that p is the
\* smallest only if it is, and it stays so; g_mode follows.
LEMMA ThreadMoves ==
    ASSUME TypeOK, ElectionInv, NEW p \in Procs, NEW t \in Threads,
           NEW l \in MainPcs \cup CbPcs, Goto(p, t, l),
           pc[p]["main"] # "off", l # "off",
           l \notin DispatchPcs \cup RecoverPcs,
           UNCHANGED <<cversion, seqno, elect>>,
           \A q \in Procs \ {p}, u \in Threads : cand'[q][u] = cand[q][u],
           \A u \in Threads \ {t} : cand'[p][u] = cand[p][u],
           p \in elect => (l = "toMonitor" \/ (l = "get" /\ cand'[p][t] = p) => IsOldest(p))
    PROVE  /\ UNCHANGED <<mode, epoch>> => ElectionInv'
           /\ (p \in elect => IsOldest(p)) /\ mode' = [mode EXCEPT ![p] = MODE_MONITOR]
                 /\ epoch' = (IF p \in elect THEN seqno[p] ELSE epoch) => ElectionInv'
           /\ mode' = [mode EXCEPT ![p] = MODE_WORKER] /\ epoch' = epoch => ElectionInv'
<1>1. /\ pc'[p][t] = l
      /\ \A q \in Procs, u \in Threads : q # p \/ u # t => pc'[q][u] = pc[q][u]
  BY GotoType DEF TypeOK, ThreadType
<1>2. /\ elect \subseteq Procs /\ elect' = elect /\ seqno' = seqno /\ seqno \in [Procs -> Nat]
      /\ cversion' = cversion /\ cversion \in Nat /\ epoch \in Nat
      /\ mode \in [Procs -> {MODE_MONITOR, MODE_WORKER}]
  BY DEF TypeOK, ZkType, ThreadType, HistoryType
<1>3. \A q \in elect : Candidate(q)' => IsOldest(q)
  <2>. SUFFICES ASSUME NEW q \in elect, Candidate(q)' PROVE IsOldest(q)
    OBVIOUS
  <2>1. PICK u \in Threads :
           (At(q, u, "toMonitor") \/ (At(q, u, "get") /\ cand[q][u] = q))'
    BY DEF Candidate
  <2>2. CASE q = p /\ u = t
    BY <1>1, <2>1, <2>2 DEF At
  <2>3. CASE q # p \/ u # t
    <3>1. Candidate(q)
      BY <1>1, <1>2, <2>1, <2>3 DEF At, Candidate
    <3>. QED  BY <3>1 DEF ElectionInv, Seniority
  <2>. QED  BY <2>2, <2>3
<1>4. \A q \in elect : Coordinating(q)' => IsOldest(q)
  BY <1>1, <1>2 DEF Coordinating, ElectionInv, Seniority, Threads
<1>5. \A q \in elect : IsOldest(q)' <=> IsOldest(q)
  BY <1>2 DEF IsOldest
<1>6. ASSUME \A q \in elect : mode'[q] = MODE_MONITOR => IsOldest(q)
      PROVE  Seniority'
  BY <1>2, <1>3, <1>4, <1>5, <1>6 DEF Seniority
<1>7. ASSUME \A q \in Procs \ {p} : mode'[q] = mode[q]
      PROVE  NotStarted'
  BY <1>1, <1>2, <1>7 DEF ElectionInv, NotStarted, At, Threads
<1>8. ASSUME UNCHANGED <<mode, epoch>>
      PROVE  ElectionInv'
  BY <1>2, <1>6, <1>7, <1>8 DEF ElectionInv, Numbered, InOffice, Seniority
<1>9. ASSUME p \in elect => IsOldest(p), mode' = [mode EXCEPT ![p] = MODE_MONITOR],
             epoch' = (IF p \in elect THEN seqno[p] ELSE epoch)
      PROVE  ElectionInv'
  <2>1. \A q \in elect : mode'[q] = MODE_MONITOR => IsOldest(q)
    BY <1>2, <1>9 DEF ElectionInv, Seniority
  <2>2. Numbered'
    BY <1>2, <1>9 DEF ElectionInv, Numbered, IsOldest
  <2>3. ASSUME NEW q \in elect, p \in elect, IsOldest(q)
        PROVE  q = p
    <3>1. seqno[q] <= seqno[p] /\ seqno[p] <= seqno[q]
      BY <1>9, <2>3 DEF IsOldest
    <3>2. seqno[q] \in Nat /\ seqno[p] \in Nat
      BY <1>2
    <3>3. seqno[q] = seqno[p]
      BY <3>1, <3>2
    <3>. QED  BY <2>3, <3>3 DEF ElectionInv, Numbered
  <2>4. InOffice'
    BY <1>2, <1>9, <2>1, <2>3 DEF ElectionInv, InOffice
  <2>. QED  BY <1>2, <1>6, <1>7, <1>9, <2>1, <2>2, <2>4 DEF ElectionInv
<1>10. ASSUME mode' = [mode EXCEPT ![p] = MODE_WORKER], epoch' = epoch
       PROVE  ElectionInv'
  <2>1. \A q \in elect : mode'[q] = MODE_MONITOR => mode[q] = MODE_MONITOR
    BY <1>2, <1>10 DEF MODE_MONITOR, MODE_WORKER
  <2>2. Numbered' /\ InOffice'
    BY <1>2, <1>10, <2>1 DEF ElectionInv, Numbered, InOffice
  <2>3. Seniority'
    BY <1>6, <2>1 DEF ElectionInv, Seniority
  <2>. QED  BY <1>2, <1>7, <1>10, <2>2, <2>3 DEF ElectionInv
<1>. QED  BY <1>8, <1>9, <1>10

\* A handler runs only in a process that has registered.
LEMMA HandlerStarted ==
    ASSUME ElectionInv, NEW p \in Procs, pc[p]["cb"] # "idle"
    PROVE  pc[p]["main"] # "off"
  BY DEF ElectionInv, NotStarted, At

\* choose_mater, in either thread.
LEMMA ChooseKeeps ==
    ASSUME TypeOK, ElectionInv, NEW p \in Procs, NEW t \in Threads, ChooseStep(p, t)
    PROVE  ElectionInv'
<1>1. pc[p]["main"] # "off" /\ Return(t) \in MainPcs \cup CbPcs
  BY HandlerStarted DEF ChooseStep, ChooseList, ChooseGet, BecomeMonitor, BecomeWorker,
     At, Threads, Return, MainPcs, CbPcs
<1>2. Return(t) \notin DispatchPcs \cup RecoverPcs \cup {"off", "get", "toMonitor"}
  BY DEF Return, DispatchPcs, RecoverPcs
<1>3. cand \in [Procs -> [Threads -> Procs \cup {None}]]
  BY DEF TypeOK, ThreadType
<1>4. CASE ChooseList(p, t)
  <2>1. /\ UNCHANGED <<cversion, seqno, elect, mode, epoch>>
        /\ \A q \in Procs \ {p}, u \in Threads : cand'[q][u] = cand[q][u]
        /\ \A u \in Threads \ {t} : cand'[p][u] = cand[p][u]
    BY <1>3, <1>4 DEF ChooseList, history
  <2>2. CASE p \notin elect
    BY <1>1, <1>2, <1>4, <2>1, <2>2, ThreadMoves DEF ChooseList
  <2>3. CASE p \in elect
    <3>1. PICK m \in elect : Smallest(m) /\ cand' = [cand EXCEPT ![p][t] = m]
      BY <1>4, <2>3 DEF ChooseList
    <3>2. cand'[p][t] = p => IsOldest(p)
      BY <1>3, <3>1 DEF Smallest, IsOldest
    <3>3. Goto(p, t, "get") /\ "get" \in MainPcs /\ "get" \notin DispatchPcs \cup RecoverPcs
      BY <1>4, <2>3 DEF ChooseList, MainPcs, ChoosePcs, DispatchPcs, RecoverPcs
    <3>. QED  BY <1>1, <2>1, <3>2, <3>3, ThreadMoves
  <2>. QED  BY <2>2, <2>3
<1>5. CASE ChooseGet(p, t)
  <2>1. /\ UNCHANGED <<cversion, seqno, elect, mode, epoch>>
        /\ \A q \in Procs \ {p}, u \in Threads : cand'[q][u] = cand[q][u]
        /\ \A u \in Threads \ {t} : cand'[p][u] = cand[p][u]
    BY <1>3, <1>5 DEF ChooseGet, zkVars, history
  <2>2. cand[p][t] = p /\ p \in elect => IsOldest(p)
    BY <1>5 DEF ChooseGet, ElectionInv, Seniority, Candidate
  <2>3. PICK l \in MainPcs \cup CbPcs :
           /\ Goto(p, t, l)
           /\ l \in {Return(t), "toWorker", "toMonitor"}
           /\ l = "toMonitor" => p \in elect /\ cand[p][t] = p
    BY <1>1, <1>2, <1>5 DEF ChooseGet, MainPcs, ChoosePcs
  <2>4. l \notin DispatchPcs \cup RecoverPcs \cup {"off", "get"}
    BY <1>2, <2>3 DEF DispatchPcs, RecoverPcs
  <2>. QED  BY <1>1, <2>1, <2>2, <2>3, <2>4, ThreadMoves
<1>6. CASE BecomeMonitor(p, t)
  <2>1. p \in elect => IsOldest(p)
    BY <1>6 DEF BecomeMonitor, ElectionInv, Seniority, Candidate
  <2>2. /\ UNCHANGED <<cversion, seqno, elect, cand>> /\ Goto(p, t, Return(t))
        /\ mode' = [mode EXCEPT ![p] = MODE_MONITOR]
        /\ epoch' = (IF p \in elect THEN seqno[p] ELSE epoch)
    BY <1>6 DEF BecomeMonitor, zkVars, locals
  <2>. QED  BY <1>1, <1>2, <2>1, <2>2, ThreadMoves
<1>7. CASE BecomeWorker(p, t)
  <2>1. /\ UNCHANGED <<cversion, seqno, elect, cand, epoch>> /\ Goto(p, t, Return(t))
        /\ mode' = [mode EXCEPT ![p] = MODE_WORKER]
    BY <1>7 DEF BecomeWorker, zkVars, locals, history
  <2>. QED  BY <1>1, <1>2, <2>1, ThreadMoves
<1>. QED  BY <1>4, <1>5, <1>6, <1>7 DEF ChooseStep

\* The rest of PREWORK.
LEMMA PreworkKeeps ==
    ASSUME TypeOK, ElectionInv, NEW p \in Procs, PREWORK(p)
    PROVE  ElectionInv'
<1>1. CASE RegistWork(p)
  BY <1>1, QuietMain DEF RegistWork, MainPcs, office, locals, history
<1>2. CASE Identify(p)
  <2>1. UNCHANGED <<cversion, seqno, elect, mode, epoch, cand>>
    BY <1>2 DEF Identify, locals, history
  <2>2. PICK l \in {"toMonitor", "choose", "monitor_work"} :
           Goto(p, "main", l) /\ (l = "toMonitor" => elect = {p})
    BY <1>2 DEF Identify
  <2>3. elect = {p} => IsOldest(p)
    BY DEF IsOldest, TypeOK, ZkType
  <2>4. l \in MainPcs /\ l \notin DispatchPcs \cup RecoverPcs /\ "main" \in Threads
    BY DEF MainPcs, ChoosePcs, DispatchPcs, RecoverPcs, Threads
  <2>5. pc[p]["main"] # "off"
    BY <1>2 DEF Identify, At
  <2>. QED  BY <2>1, <2>2, <2>3, <2>4, <2>5, ThreadMoves
<1>3. CASE ChooseStep(p, "main")
  BY <1>3, ChooseKeeps DEF Threads
<1>4. CASE MonitorWork(p)
  BY <1>4, QuietMain DEF MonitorWork, MainPcs, office, history
<1>5. CASE WatchChildren(p)
  BY <1>5, QuietMain, QuietStay DEF WatchChildren, MainPcs, office, history
<1>. QED  BY <1>1, <1>2, <1>3, <1>4, <1>5 DEF PREWORK

\* Ending a process, with its session or before its session ends.
LEMMA HaltKeeps ==
    ASSUME TypeOK, ElectionInv, NEW p \in Procs, NEW l \in {"exited", "crashed"},
           Halt(p, l), DropLocals(p), pc[p]["main"] # "off",
           elect' = elect \ {p} \/ elect' = elect,
           UNCHANGED <<cversion, seqno, mode, epoch>>
    PROVE  ElectionInv'
<1>1. l \in MainPcs
  BY DEF MainPcs
<1>2. \A q \in Procs \ {p}, t \in Threads : cand'[q][t] = cand[q][t]
  BY DEF DropLocals, TypeOK, ThreadType
<1>3. /\ pc'[p]["main"] = l /\ pc'[p]["cb"] = "idle"
      /\ \A q \in Procs, u \in Threads : q # p => pc'[q][u] = pc[q][u]
  BY <1>1, HaltType DEF TypeOK, ThreadType
<1>. QED  BY <1>2, <1>3, LeaveKeeps DEF Threads

\* The loop of work(int).
LEMMA WorkKeeps ==
    ASSUME TypeOK, ElectionInv, NEW p \in Procs, work(p)
    PROVE  ElectionInv'
<1>1. CASE RecvWork(p)
  BY <1>1, QuietMain, QuietStay DEF RecvWork, MainPcs, office, locals, history
<1>2. CASE StY(p) \/ StG(p)
  BY <1>2, QuietMain DEF StY, StG, MainPcs, office, locals, history
<1>3. CASE CsvRecoveryFails(p) \/ SendFile(p)
  BY <1>3, QuietMain DEF CsvRecoveryFails, SendFile, MainPcs, office, zkVars, locals, history
<1>4. CASE SetWkSt(p)
  BY <1>4, QuietMain DEF SetWkSt, MainPcs, office, locals, history
<1>5. CASE Close(p)
  BY <1>5, HaltKeeps DEF Close, EndSession, At, history
<1>. QED  BY <1>1, <1>2, <1>3, <1>4, <1>5 DEF work

\* The watcher callback and reelect: only a monitor goes on to coordinate.
LEMMA ReelectKeeps ==
    ASSUME TypeOK, ElectionInv, NEW p \in Procs, Watcher(p) \/ reelect(p)
    PROVE  ElectionInv'
<1>1. CASE Watcher(p)
  BY <1>1, QuietCb, QuietStay DEF Watcher, Alive, CbPcs, DispatchPcs, RecoverPcs,
     office, locals, history
<1>2. CASE Reelect(p) \/ Compare(p)
  <2>1. pc[p]["main"] # "off" /\ UNCHANGED <<office, cand>>
    BY <1>2, HandlerStarted DEF Reelect, Compare, At, office, history
  <2>2. PICK l \in {"compare", "choose", "idle"} : Goto(p, "cb", l)
    BY <1>2 DEF Reelect, Compare
  <2>3. l \in CbPcs /\ l \notin DispatchPcs \cup RecoverPcs
    BY DEF CbPcs, ChoosePcs, DispatchPcs, RecoverPcs
  <2>. QED  BY <2>1, <2>2, <2>3, QuietCb
<1>3. CASE ChooseStep(p, "cb")
  BY <1>3, ChooseKeeps DEF Threads
<1>4. CASE CheckMode(p)
  <2>1. pc[p]["main"] # "off" /\ UNCHANGED <<office, cand>>
    BY <1>4, HandlerStarted DEF CheckMode, At, office, zkVars, locals, history
  <2>2. PICK l \in {"recover", "idle"} :
           Goto(p, "cb", l) /\ (l = "recover" => mode[p] = MODE_MONITOR)
    BY <1>4 DEF CheckMode
  <2>3. l \in CbPcs /\ (l \in DispatchPcs \cup RecoverPcs => l = "recover")
    BY DEF CbPcs, DispatchPcs, RecoverPcs
  <2>. QED  BY <2>1, <2>2, <2>3, QuietCb
<1>. QED  BY <1>1, <1>2, <1>3, <1>4 DEF reelect

\* recover and dispatch_work: whoever coordinates already did.
LEMMA CoordinateKeeps ==
    ASSUME TypeOK, ElectionInv, NEW p \in Procs, recover(p) \/ dispatch_work(p)
    PROVE  ElectionInv'
<1>1. Coordinating(p) /\ pc[p]["main"] # "off"
  BY HandlerStarted DEF recover, dispatch_work, RecoverOwn, RecoverIdle, RecoverElect,
     RecoverGet, RecoverWorks, RecoverDelete, Dispatch, DispatchFile, DispatchWorker,
     DispatchAssign, DispatchStop, DispatchHalt, At, Coordinating, DispatchPcs, RecoverPcs
<1>2. UNCHANGED <<office, cand>>
  BY DEF recover, dispatch_work, RecoverOwn, RecoverIdle, RecoverElect,
     RecoverGet, RecoverWorks, RecoverDelete, Dispatch, DispatchFile, DispatchWorker,
     DispatchAssign, DispatchStop, DispatchHalt, Look, SetWork, DeleteWork,
     office, zkVars, locals, history
<1>3. UNCHANGED pc \/ \E l \in DispatchPcs \cup RecoverPcs \cup {"idle"} : Goto(p, "cb", l)
  BY DEF recover, dispatch_work, RecoverOwn, RecoverIdle, RecoverElect,
     RecoverGet, RecoverWorks, RecoverDelete, Dispatch, DispatchFile, DispatchWorker,
     DispatchAssign, DispatchStop, DispatchHalt, Look, DispatchPcs, RecoverPcs
<1>4. DispatchPcs \cup RecoverPcs \cup {"idle"} \subseteq CbPcs \ {"get", "toMonitor"}
  BY DEF DispatchPcs, RecoverPcs, CbPcs
<1>. QED  BY <1>1, <1>2, <1>3, <1>4, QuietCb, QuietStay

\* Crashes, expired and lost sessions.
LEMMA FaultKeeps ==
    ASSUME TypeOK, ElectionInv, NEW p \in Procs, Crash(p) \/ Expire(p) \/ LoseSession(p)
    PROVE  ElectionInv'
<1>1. CASE Crash(p)
  BY <1>1, HaltKeeps DEF Crash, Alive, history
<1>2. CASE Expire(p)
  BY <1>2, LeaveKeeps DEF Expire, EndSession, At, locals, history
<1>3. CASE LoseSession(p)
  <2>1. /\ pc'[p]["cb"] = "idle"
        /\ \A q \in Procs, u \in Threads : q # p \/ u # "cb" => pc'[q][u] = pc[q][u]
    BY <1>3, GotoType DEF LoseSession, TypeOK, ThreadType, Threads, CbPcs
  <2>2. \A q \in Procs, u \in Threads : q # p \/ u # "cb" => cand'[q][u] = cand[q][u]
    BY <1>3 DEF LoseSession, TypeOK, ThreadType
  <2>3. /\ elect' = elect \ {p} /\ UNCHANGED <<cversion, seqno, mode, epoch>>
        /\ pc[p]["main"] # "off"
    BY <1>3 DEF LoseSession, EndSession, Alive, history
  <2>. QED  BY <2>1, <2>2, <2>3, LeaveKeeps DEF Threads
<1>. QED  BY <1>1, <1>2, <1>3

\* Initially nobody has registered, so nobody can be wrong about seniority.
LEMMA InitElection == Init => ElectionInv
  BY DEF Init, ElectionInv, Numbered, NotStarted, Seniority, InOffice, At, ThreadsAt, Threads

\* Every step of the specification preserves the election invariant.
LEMMA NextElection == TypeOK /\ ElectionInv /\ [Next]_vars => ElectionInv'
<1>. SUFFICES ASSUME TypeOK, ElectionInv, [Next]_vars PROVE ElectionInv'
  OBVIOUS
<1>1. CASE UNCHANGED vars
  BY <1>1, QuietStay DEF vars, zkVars, locals, history, office
<1>2. ASSUME NEW p \in Procs,
             RegistElect(p) \/ MainStep(p) \/ CbStep(p) \/ Fault(p) \/ Expire(p)
      PROVE  ElectionInv'
  BY <1>2, JoinKeeps, PreworkKeeps, WorkKeeps, ReelectKeeps, CoordinateKeeps, FaultKeeps
     DEF MainStep, CbStep, Fault
<1>. QED  BY <1>1, <1>2 DEF Next

\* choose_mater: at any time only the process with the oldest live session
\* has g_mode = MODE_MONITOR or is in recover or dispatch_work, however many
\* processes there are and whatever fails.
THEOREM OldestAlways == Spec => []OldestCoordinates
<1>1. TypeOK /\ ElectionInv => OldestCoordinates
  BY DEF ElectionInv, Seniority, OldestCoordinates
<1>. QED  BY <1>1, InitType, NextType, InitElection, NextElection, PTL DEF Spec

-----------------------------------------------------------------------------
(***************************************************************************)
(* The election implements MonitorLease.                                   *)
(***************************************************************************)
Monitors == {q \in elect : mode[q] = MODE_MONITOR}
Holders == {seqno[p] : p \in Monitors}

\* There is at most one monitor with a session.
LEMMA OneMonitor ==
    ASSUME TypeOK, ElectionInv, NEW p \in Monitors
    PROVE  Monitors = {p} /\ Holders = {epoch}
<1>1. elect \subseteq Procs /\ seqno \in [Procs -> Nat]
  BY DEF TypeOK, ZkType
<1>2. \A q \in Monitors : q \in elect /\ IsOldest(q) /\ seqno[q] = epoch
  BY DEF Monitors, ElectionInv, Seniority, InOffice
<1>3. \A q \in Monitors : q = p
  BY <1>1, <1>2 DEF ElectionInv, Numbered
<1>. QED  BY <1>2, <1>3 DEF Holders

\* A step that makes nobody monitor is a Revoke, or changes nothing.
LEMMA NoNewMonitor ==
    ASSUME TypeOK, ElectionInv, Monitors' \subseteq Monitors,
           \A q \in Monitors : seqno'[q] = seqno[q], UNCHANGED epoch
    PROVE  UNCHANGED <<Holders, epoch>> \/ (Holders' = {} /\ UNCHANGED epoch)
<1>1. CASE Monitors' = {}
  BY <1>1 DEF Holders
<1>2. CASE Monitors' # {}
  <2>1. PICK p \in Monitors' : TRUE
    BY <1>2
  <2>2. Monitors = {p}
    BY <2>1, OneMonitor
  <2>3. Monitors' = Monitors
    BY <2>1, <2>2
  <2>. QED  BY <2>3 DEF Holders
<1>. QED  BY <1>1, <1>2

\* Every step is a step of MonitorLease or a stuttering step of it.
LEMMA NextLease ==
    TypeOK /\ ElectionInv /\ ElectionInv' /\ TypeOK' /\ [Next]_vars
        => [Lease!Next]_<<Holders, epoch>>
<1>. SUFFICES ASSUME TypeOK, ElectionInv, ElectionInv', TypeOK', [Next]_vars
              PROVE  [Lease!Next]_<<Holders, epoch>>
  OBVIOUS
<1>0. Lease!Next <=> \/ Holders = {} /\ epoch' >= epoch /\ Holders' = {epoch'}
                     \/ Holders' = {} /\ UNCHANGED epoch
  BY DEF Lease!Next, Lease!Grant, Lease!Revoke, Holders, Monitors
<1>1. ASSUME Monitors' \subseteq Monitors,
             \A q \in Monitors : seqno'[q] = seqno[q], UNCHANGED epoch
      PROVE  [Lease!Next]_<<Holders, epoch>>
  BY <1>0, <1>1, NoNewMonitor
<1>2. CASE UNCHANGED <<elect, seqno, mode, epoch>>
  BY <1>1, <1>2 DEF Monitors
<1>3. ASSUME elect' \subseteq elect, UNCHANGED <<seqno, mode, epoch>>
      PROVE  [Lease!Next]_<<Holders, epoch>>
  BY <1>1, <1>3 DEF Monitors
<1>4. ASSUME NEW p \in Procs,
             RegistElect(p) \/ MainStep(p) \/ CbStep(p) \/ Fault(p) \/ Expire(p)
      PROVE  [Lease!Next]_<<Holders, epoch>>
  <2>1. CASE RegistElect(p)
    <3>1. /\ elect' = elect \cup {p} /\ seqno' = [seqno EXCEPT ![p] = cversion + 1]
          /\ UNCHANGED <<mode, epoch>>
      BY <2>1 DEF RegistElect, CreateElect, history
    <3>2. p \notin elect /\ mode[p] = MODE_WORKER /\ elect \subseteq Procs
          /\ seqno \in [Procs -> Nat]
      BY <2>1 DEF RegistElect, ElectionInv, NotStarted, TypeOK, ZkType
    <3>3. Monitors' = Monitors
      BY <3>1, <3>2 DEF Monitors, MODE_MONITOR, MODE_WORKER
    <3>4. \A q \in Monitors : seqno'[q] = seqno[q]
      BY <3>1, <3>2 DEF Monitors
    <3>. QED  BY <1>1, <3>1, <3>3, <3>4
  <2>2. ASSUME NEW t \in Threads, ChooseStep(p, t)
        PROVE  [Lease!Next]_<<Holders, epoch>>
    <3>1. CASE ChooseList(p, t) \/ ChooseGet(p, t)
      BY <1>2, <3>1 DEF ChooseList, ChooseGet, zkVars, history
    <3>2. CASE BecomeWorker(p, t)
      <4>1. UNCHANGED <<elect, seqno, epoch>> /\ mode' = [mode EXCEPT ![p] = MODE_WORKER]
        BY <3>2 DEF BecomeWorker, zkVars, history
      <4>2. Monitors' \subseteq Monitors
        BY <4>1 DEF Monitors, TypeOK, ThreadType, ZkType, MODE_MONITOR, MODE_WORKER
      <4>. QED  BY <1>1, <4>1, <4>2
    <3>3. CASE BecomeMonitor(p, t) /\ p \notin elect
      <4>1. UNCHANGED <<elect, seqno, epoch>> /\ mode' = [mode EXCEPT ![p] = MODE_MONITOR]
        BY <3>3 DEF BecomeMonitor, zkVars
      <4>2. Monitors' = Monitors
        BY <3>3, <4>1 DEF Monitors, TypeOK, ThreadType, ZkType
      <4>. QED  BY <1>1, <4>1, <4>2
    <3>4. CASE BecomeMonitor(p, t) /\ p \in elect
      <4>1. /\ UNCHANGED <<elect, seqno>> /\ mode' = [mode EXCEPT ![p] = MODE_MONITOR]
            /\ epoch' = seqno[p]
        BY <3>4 DEF BecomeMonitor, zkVars
      <4>2. p \in Monitors'
        BY <3>4, <4>1 DEF Monitors, TypeOK, ThreadType
      <4>3. Monitors' = {p} /\ Holders' = {epoch'}
        <5>1. elect' \subseteq Procs /\ seqno' \in [Procs -> Nat]
          BY DEF TypeOK, ZkType
        <5>2. \A q \in Monitors' : q \in elect' /\ seqno'[q] = epoch'
          BY DEF Monitors, ElectionInv, InOffice
        <5>3. \A q \in Monitors' : q = p
          BY <4>2, <5>1, <5>2 DEF ElectionInv, Numbered
        <5>. QED  BY <4>2, <5>2, <5>3 DEF Holders
      <4>4. Monitors \subseteq Monitors'
        BY <4>1 DEF Monitors, TypeOK, ThreadType, ZkType
      <4>5. CASE Monitors = {}
        <5>1. Holders = {} /\ epoch' >= epoch
          BY <3>4, <4>1, <4>5 DEF Holders, ElectionInv, Numbered, TypeOK, ZkType, HistoryType
        <5>. QED  BY <1>0, <4>3, <5>1
      <4>6. CASE Monitors # {}
        <5>1. p \in Monitors
          BY <4>3, <4>4, <4>6
        <5>2. Holders = {epoch} /\ epoch = seqno[p]
          BY <5>1, OneMonitor DEF Monitors, ElectionInv, InOffice
        <5>. QED  BY <4>1, <4>3, <5>2
      <4>. QED  BY <4>5, <4>6
    <3>. QED  BY <2>2, <3>1, <3>2, <3>3, <3>4 DEF ChooseStep
  <2>3. CASE RegistWork(p) \/ Identify(p) \/ MonitorWork(p) \/ WatchChildren(p)
    BY <1>2, <2>3 DEF RegistWork, Identify, MonitorWork, WatchChildren, history
  <2>4. CASE work(p)
    BY <1>2, <1>3, <2>4 DEF work, RecvWork, StY, CsvRecoveryFails, StG, SendFile, SetWkSt,
       Close, EndSession, zkVars, history
  <2>5. CASE Watcher(p) \/ Reelect(p) \/ Compare(p) \/ CheckMode(p)
    BY <1>2, <2>5 DEF Watcher, Reelect, Compare, CheckMode, zkVars, history
  <2>6. CASE recover(p) \/ dispatch_work(p)
    BY <1>2, <2>6 DEF recover, dispatch_work, RecoverOwn, RecoverIdle, RecoverElect,
       RecoverGet, RecoverWorks, RecoverDelete, Dispatch, DispatchFile, DispatchWorker,
       DispatchAssign, DispatchStop, DispatchHalt, zkVars, history
  <2>7. CASE Crash(p) \/ Expire(p) \/ LoseSession(p)
    BY <1>3, <2>7 DEF Crash, Expire, LoseSession, EndSession, history
  <2>. QED  BY <1>4, <2>1, <2>2, <2>3, <2>4, <2>5, <2>6, <2>7
            DEF MainStep, CbStep, PREWORK, reelect, Fault, Threads
<1>. QED  BY <1>2, <1>4 DEF Next, vars, zkVars, history

\* reelect, identify and choose_mater implement MonitorLease: never two
\* monitors with a session, and monitors in the order of registration.
THEOREM LeaseImplemented == Spec => LeaseSpec
<1>1. Init => Lease!Init
  BY DEF Init, Lease!Init
<1>2. TypeOK /\ ElectionInv /\ [Next]_vars => TypeOK' /\ ElectionInv' /\ [Lease!Next]_<<Holders, epoch>>
  BY NextType, NextElection, NextLease
<1>3. [Lease!Next]_<<Holders, epoch>>
         <=> [Lease!Next]_<<{seqno[p] : p \in {q \in elect : mode[q] = MODE_MONITOR}}, epoch>>
  BY DEF Holders, Monitors
<1>. QED  BY <1>1, <1>2, <1>3, InitType, InitElection, PTL DEF Spec, LeaseSpec, Lease!Spec

-----------------------------------------------------------------------------
(***************************************************************************)
(* Dispatch and recovery.                                                  *)
(***************************************************************************)
Busy == {"got", "recovery", "retry", "send", "free"}
Commanded(q) == \E f \in Files : works[q] = WorkCmd(f)

\* the handler of p has listed /works and still walks through the listing
Walking(p) == pc[p]["cb"] \in (DispatchPcs \ {"dispatch"}) \cup {"rDelete"}

-----------------------------------------------------------------------------
(***************************************************************************)
(* The inductive invariant, process by process.                            *)
(***************************************************************************)

\* without a session there are no watches, no events and no handler, and
\* with the process its handler goes
Session(p) ==
    /\ p \notin elect => watch[p] = {} /\ evq[p] = <<>> /\ At(p, "cb", "idle")
    /\ At(p, "main", "crashed") => At(p, "cb", "idle")

\* the node of a process comes with its registration; a worker with a task
\* has it in its command, unless it is the new monitor and recover has taken
\* the command away; and a task that has been begun is no longer "r"
MainInv(p) ==
    /\ At(p, "main", "off") => works[p] = NoNode
    /\ p \in elect /\ pc[p]["main"] \in Busy =>
          works[p] = WorkCmd(task[p]) \/ (IsOldest(p) /\ ~Commanded(p))
    /\ pc[p]["main"] \in Busy \ {"got"} => files[task[p]] # "r"

\* the nodes of the listing exist, and the node that was found free is free
Walk(p) ==
    /\ IF Walking(p) THEN wks[p] \subseteq Children ELSE wks[p] = {}
    /\ pc[p]["cb"] \in {"dAssign", "dHalt"} => works[curw[p]] = Idle

\* recover deletes no node of a process with a session that has a command
Spares(p) ==
    /\ At(p, "cb", "rWorks") => els[p] = {}
    /\ \A q \in elect :
          /\ pc[p]["cb"] \in {"rGet", "rWorks"} /\ Commanded(q) => q \in els[p] \cup dct[p]
          /\ At(p, "cb", "rDelete") /\ Commanded(q) => q \notin wks[p]

\* the tasks that dispatch_work has passed are not "r", or in a command
Assigned(f) == files[f] = "r" => \E r \in Procs : works[r] = WorkCmd(f)
Passes(p) ==
    /\ pc[p]["cb"] \in {"dStop", "dHalt"} => fls[p] = {}
    /\ pc[p]["cb"] \in DispatchPcs \ {"dispatch"} =>
          \A f \in Files \ fls[p] : Assigned(f) \/ (pc[p]["cb"] \in {"dWorker", "dAssign"} /\ f = curf[p])

CbInv(p) == Walk(p) /\ Spares(p) /\ Passes(p)

(***************************************************************************)
(* Without failures the oldest process stays the oldest: nobody could tell *)
(* it to stop.  It never has a task, and recover never finds a command of  *)
(* its own.  Then a task in progress has a worker that is at it, or that   *)
(* is going to read its command again.                                     *)
(***************************************************************************)
Undisturbed(p) ==
    /\ pc[p]["main"] \in {"off", "exited"} \/ p \in elect
    /\ ~At(p, "main", "crashed")
    /\ p \in elect /\ IsOldest(p) => ~IsCmd(works[p]) /\ pc[p]["main"] \notin Busy \cup {"stopping"}
    /\ ~At(p, "cb", "rIdle")

AtTask(q, f) ==
    \/ task[q] = f /\ pc[q]["main"] \in {"recovery", "retry"}
    \/ works[q] = WorkCmd(f) /\ pc[q]["main"] \in {"loop", "got"}

ProgressInv ==
    faults = 0 =>
        /\ \A p \in Procs : Undisturbed(p)
        /\ \A f \in Files : files[f] = "y" => \E q \in Procs : AtTask(q, f)

(***************************************************************************)
(* Watches.  Every event but one of /elect makes a monitor dispatch, and a *)
(* dispatch sets every watch on /works again: what a monitor does not      *)
(* watch at the moment, it is told of, or is going to look at.             *)
(***************************************************************************)
Waiting(p) == {evq[p][i] : i \in DOMAIN evq[p]}
Told(p) == At(p, "cb", "dispatch") \/ \E e \in Waiting(p) : e # "elect"
Looking(p) == pc[p]["cb"] \in DispatchPcs \ {"dispatch"}

HearsOfElect(p) == "elect" \in watch[p] \cup Waiting(p) \/ At(p, "cb", "reelect")

HearsOfWorks(p) ==
    \/ Told(p)
    \/ /\ "works" \in watch[p]
       /\ \A q \in Children : q \in watch[p] \/ (Looking(p) /\ q \in wks[p])
       /\ At(p, "cb", "dHalt") => curw[p] \in watch[p]

Joining(p) == pc[p]["main"] \in {"register", "identify"}

Notified(p) ==
    p \in elect /\ Alive(p) =>
        /\ IF Joining(p)
           THEN watch[p] = {} /\ evq[p] = <<>> /\ At(p, "cb", "idle") /\ mode[p] = MODE_WORKER
           ELSE HearsOfElect(p)
        /\ p \in served /\ mode[p] = MODE_MONITOR => HearsOfWorks(p)

NotifyInv == \A p \in Procs : Notified(p)

-----------------------------------------------------------------------------
(***************************************************************************)
(* Commands.                                                               *)
(***************************************************************************)

\* The data of /works nodes can be told apart: a command names its task, only
\* "s" is free, and a command is neither free nor absent (recv_work's and
\* dispatch_work's tests of the first character).
LEMMA Commands ==
    /\ IsFree(Idle) /\ ~IsCmd(Idle) /\ Idle # NoNode
    /\ IsCmd(StopCmd) /\ StopCmd # NoNode /\ StopCmd # Idle /\ ~IsFree(StopCmd)
    /\ ~IsCmd(NoNode) /\ ~IsFree(NoNode)
    /\ cmd_task(StopCmd) \notin Files
    /\ \A f \in Files : /\ IsCmd(WorkCmd(f)) /\ ~IsFree(WorkCmd(f)) /\ cmd_task(WorkCmd(f)) = f
                        /\ WorkCmd(f) # NoNode /\ WorkCmd(f) # Idle /\ WorkCmd(f) # StopCmd
    /\ \A f, g \in Files : WorkCmd(f) = WorkCmd(g) => f = g
    /\ \A c \in WorkData : IsFree(c) => c = Idle
    /\ \A c \in WorkData : IsCmd(c) => c = StopCmd \/ \E f \in Files : c = WorkCmd(f)
<1>1. IsFree(Idle) /\ ~IsCmd(Idle) /\ Idle # NoNode
  BY DEF IsFree, IsCmd, Idle, NoNode
<1>2. IsCmd(StopCmd) /\ StopCmd # NoNode /\ StopCmd # Idle /\ ~IsFree(StopCmd)
  BY DEF IsFree, IsCmd, Idle, NoNode, StopCmd
<1>3. ~IsCmd(NoNode) /\ ~IsFree(NoNode)
  BY DEF IsFree, IsCmd
<1>4. cmd_task(StopCmd) \notin Files
  BY TokensDisjoint DEF cmd_task, StopCmd
<1>5. ASSUME NEW f \in Files
      PROVE  /\ IsCmd(WorkCmd(f)) /\ ~IsFree(WorkCmd(f)) /\ cmd_task(WorkCmd(f)) = f
             /\ WorkCmd(f) # NoNode /\ WorkCmd(f) # Idle /\ WorkCmd(f) # StopCmd
  BY DEF IsFree, IsCmd, Idle, NoNode, StopCmd, WorkCmd, cmd_task
<1>6. \A f, g \in Files : WorkCmd(f) = WorkCmd(g) => f = g
  BY <1>5
<1>. QED  BY <1>1, <1>2, <1>3, <1>4, <1>5, <1>6 DEF WorkData

\* recover's put-back hits no file: what follows the first character of a
\* command is not the name of a task.
LEMMA NothingPutBack ==
    ASSUME TypeOK, NEW c \in WorkData, IsCmd(c)
    PROVE  PutBack(c) = files
<1>1. \A f \in Files : Tail(c) # <<f>>
  <2>1. Len(Tail(StopCmd)) = 2
    BY DEF StopCmd
  <2>2. \A f \in Files : Len(Tail(WorkCmd(f))) = 4
    BY DEF WorkCmd
  <2>3. Len(Tail(c)) \in {2, 4}
    BY <2>1, <2>2, Commands
  <2>4. \A f \in Files : Len(<<f>>) = 1
    OBVIOUS
  <2>5. SUFFICES ASSUME NEW f \in Files, Tail(c) = <<f>> PROVE FALSE
    OBVIOUS
  <2>6. Len(Tail(c)) = Len(<<f>>)
    BY <2>5
  <2>. QED  BY <2>3, <2>4, <2>6
<1>. QED  BY <1>1 DEF PutBack, TypeOK, ZkType

-----------------------------------------------------------------------------
(***************************************************************************)
(* Sessions.                                                               *)
(***************************************************************************)
Sessions == \A q \in Procs : Session(q)

\* what is left of the watches and events of those without a session
Silent(E) == \A q \in Procs \ E : watch'[q] = {} /\ evq'[q] = <<>>

\* ZooKeeper sends nothing to a process without a session, and takes no
\* watches from it.
LEMMA SilentCalls ==
    ASSUME TypeOK, Sessions
    PROVE  /\ \A e : Trigger(e, watch) => Silent(elect)
           /\ UNCHANGED <<watch, evq>> => Silent(elect)
           /\ \A p \in elect, K \in SUBSET WatchKeys : watch' = WatchedBy(p, K) /\ evq' = evq => Silent(elect)
           /\ \A p \in elect, q \in Procs : watch' = WatchNode(p, q) /\ evq' = evq => Silent(elect)
           /\ \A q \in Procs : \A d : SetWork(q, d, watch) => Silent(elect)
           /\ \A q \in Procs : DeleteWork(q) => Silent(elect)
           /\ \A p \in Procs : CreateWork(p, Idle) => Silent(elect)
           /\ \A p \in Procs : EndSession(p) => Silent(elect \ {p})
<1>1. watch \in WatchTable /\ evq \in EventQueues /\ elect \subseteq Procs
      /\ \A q \in Procs \ elect : watch[q] = {} /\ evq[q] = <<>>
  BY DEF TypeOK, ZkType, Sessions, Session
<1>2. ASSUME NEW e, NEW w \in WatchTable, \A q \in Procs \ elect : w[q] = {}, Trigger(e, w)
      PROVE  Silent(elect)
  BY <1>1, <1>2 DEF Trigger, Silent, WatchTable, EventQueues
<1>3. UNCHANGED <<watch, evq>> => Silent(elect)
  BY <1>1 DEF Silent
<1>4. \A p \in elect, K \in SUBSET WatchKeys : watch' = WatchedBy(p, K) /\ evq' = evq => Silent(elect)
  BY <1>1 DEF Silent, WatchedBy, WatchTable
<1>5. \A p \in elect, q \in Procs : watch' = WatchNode(p, q) /\ evq' = evq => Silent(elect)
  BY <1>1, <1>3, <1>4 DEF WatchNode, WatchKeys
<1>6. \A q \in Procs : \A d : SetWork(q, d, watch) => Silent(elect)
  BY <1>1, <1>2, <1>3 DEF SetWork
<1>7. \A q \in Procs : DeleteWork(q) => Silent(elect)
  <2>1. \A q \in Procs : [r \in Procs |-> watch[r] \ {q}] \in WatchTable
    BY <1>1 DEF WatchTable
  <2>. QED  BY <1>1, <1>2, <1>3, <2>1 DEF DeleteWork
<1>8. \A p \in Procs : CreateWork(p, Idle) => Silent(elect)
  BY <1>1, <1>2, <1>3 DEF CreateWork
<1>9. \A p \in Procs : EndSession(p) => Silent(elect \ {p})
  BY <1>1 DEF EndSession, Silent, WatchTable, EventQueues
<1>. QED  BY <1>1, <1>2, <1>3, <1>4, <1>5, <1>6, <1>7, <1>8, <1>9

\* A process whose handler runs, or is about to run, has a session.
LEMMA HandlerHasSession ==
    ASSUME Sessions, NEW p \in Procs, CbStep(p)
    PROVE  p \in elect
<1>1. pc[p]["cb"] # "idle" \/ evq[p] # <<>>
  BY DEF CbStep, Watcher, reelect, Reelect, Compare, CheckMode, ChooseStep, ChooseList, ChooseGet,
     BecomeMonitor, BecomeWorker, recover, RecoverOwn, RecoverIdle, RecoverElect, RecoverGet,
     RecoverWorks, RecoverDelete, dispatch_work, Dispatch, DispatchFile, DispatchWorker,
     DispatchAssign, DispatchStop, DispatchHalt, At
<1>. QED  BY <1>1 DEF Sessions, Session, At

\* There is only one process in recover or dispatch_work.
LEMMA OneCoordinator ==
    ASSUME TypeOK, ElectionInv, Sessions, NEW p \in Procs, NEW q \in Procs,
           Coordinating(p), IsOldest(q), q \in elect
    PROVE  p = q /\ p \in elect /\ IsOldest(p)
<1>1. p \in elect
  BY DEF Sessions, Session, Coordinating, At, DispatchPcs, RecoverPcs
<1>2. IsOldest(p)
  BY <1>1 DEF ElectionInv, Seniority
<1>3. seqno[p] \in Nat /\ seqno[q] \in Nat /\ seqno[p] <= seqno[q] /\ seqno[q] <= seqno[p]
  BY <1>1, <1>2 DEF IsOldest, TypeOK, ZkType
<1>. QED  BY <1>1, <1>2, <1>3 DEF ElectionInv, Numbered

-----------------------------------------------------------------------------
(***************************************************************************)
(* What a step leaves alone.                                               *)
(***************************************************************************)
MainStays(q) == pc'[q]["main"] = pc[q]["main"] /\ task'[q] = task[q]
CbStays(q) ==
    /\ pc'[q]["cb"] = pc[q]["cb"]
    /\ els'[q] = els[q] /\ dct'[q] = dct[q] /\ fls'[q] = fls[q]
    /\ wks'[q] = wks[q] /\ curf'[q] = curf[q] /\ curw'[q] = curw[q]

\* Goto moves one thread.
LEMMA GotoFrame ==
    ASSUME TypeOK, NEW p \in Procs, NEW t \in Threads, NEW l, Goto(p, t, l)
    PROVE  /\ pc'[p][t] = l
           /\ \A q \in Procs, u \in Threads : q # p \/ u # t => pc'[q][u] = pc[q][u]
  BY DEF Goto, TypeOK, ThreadType, PcTable

\* A step of thread "main", other than the end of the process, moves nothing
\* else.
LEMMA MainFrame ==
    ASSUME TypeOK, NEW p \in Procs, RegistElect(p) \/ PREWORK(p) \/ (work(p) /\ ~Close(p))
    PROVE  /\ \A q \in Procs \ {p} : MainStays(q)
           /\ \A q \in Procs : CbStays(q)
<1>1. \A q \in Procs : q # p => task'[q] = task[q]
  BY DEF RegistElect, PREWORK, RegistWork, Identify, ChooseStep, ChooseList, ChooseGet, BecomeMonitor,
     BecomeWorker, MonitorWork, WatchChildren, work, RecvWork, StY, CsvRecoveryFails, StG, SendFile,
     SetWkSt, TypeOK, ThreadType
<1>2. UNCHANGED <<els, dct, fls, wks, curf, curw>>
  BY DEF RegistElect, PREWORK, RegistWork, Identify, ChooseStep, ChooseList, ChooseGet, BecomeMonitor,
     BecomeWorker, MonitorWork, WatchChildren, work, RecvWork, StY, CsvRecoveryFails, StG, SendFile,
     SetWkSt, locals
<1>3. UNCHANGED pc \/ \E l : Goto(p, "main", l)
  BY DEF RegistElect, PREWORK, RegistWork, Identify, ChooseStep, ChooseList, ChooseGet, BecomeMonitor,
     BecomeWorker, MonitorWork, WatchChildren, work, RecvWork, StY, CsvRecoveryFails, StG, SendFile,
     SetWkSt
<1>4. \A q \in Procs, u \in Threads : q # p \/ u # "main" => pc'[q][u] = pc[q][u]
  BY <1>3, GotoFrame DEF Threads
<1>. QED  BY <1>1, <1>2, <1>4 DEF MainStays, CbStays, Threads

\* A step of thread "cb" moves nothing else.
LEMMA CbFrame ==
    ASSUME TypeOK, NEW p \in Procs, CbStep(p)
    PROVE  /\ \A q \in Procs : MainStays(q)
           /\ \A q \in Procs \ {p} : CbStays(q)
           /\ UNCHANGED <<elect, seqno>>
<1>1. CASE Watcher(p) \/ reelect(p)
  <2>1. UNCHANGED <<elect, seqno, task, dct, fls, wks, curf, curw>> /\ \A q \in Procs \ {p} : els'[q] = els[q]
    BY <1>1 DEF Watcher, reelect, Reelect, Compare, CheckMode, ChooseStep, ChooseList, ChooseGet,
       BecomeMonitor, BecomeWorker, zkVars, locals, TypeOK, LocalType
  <2>2. UNCHANGED pc \/ \E l : Goto(p, "cb", l)
    BY <1>1 DEF Watcher, reelect, Reelect, Compare, CheckMode, ChooseStep, ChooseList, ChooseGet,
       BecomeMonitor, BecomeWorker
  <2>3. \A q \in Procs, u \in Threads : q # p \/ u # "cb" => pc'[q][u] = pc[q][u]
    BY <2>2, GotoFrame DEF Threads
  <2>. QED  BY <2>1, <2>3 DEF MainStays, CbStays, Threads
<1>2. CASE recover(p)
  <2>1. UNCHANGED <<elect, seqno, task, fls, curf, curw>>
        /\ \A q \in Procs \ {p} : els'[q] = els[q] /\ dct'[q] = dct[q] /\ wks'[q] = wks[q]
    BY <1>2 DEF recover, RecoverOwn, RecoverIdle, RecoverElect, RecoverGet, RecoverWorks,
       RecoverDelete, zkVars, locals, TypeOK, LocalType
  <2>2. UNCHANGED pc \/ \E l : Goto(p, "cb", l)
    BY <1>2 DEF recover, RecoverOwn, RecoverIdle, RecoverElect, RecoverGet, RecoverWorks, RecoverDelete
  <2>3. \A q \in Procs, u \in Threads : q # p \/ u # "cb" => pc'[q][u] = pc[q][u]
    BY <2>2, GotoFrame DEF Threads
  <2>. QED  BY <2>1, <2>3 DEF MainStays, CbStays, Threads
<1>3. CASE dispatch_work(p)
  <2>1. UNCHANGED <<elect, seqno, task, els, dct>>
        /\ \A q \in Procs \ {p} : fls'[q] = fls[q] /\ wks'[q] = wks[q] /\ curf'[q] = curf[q] /\ curw'[q] = curw[q]
    BY <1>3 DEF dispatch_work, Dispatch, DispatchFile, DispatchWorker, DispatchAssign, DispatchStop,
       DispatchHalt, Look, zkVars, TypeOK, LocalType
  <2>2. UNCHANGED pc \/ \E l : Goto(p, "cb", l)
    BY <1>3 DEF dispatch_work, Dispatch, DispatchFile, DispatchWorker, DispatchAssign, DispatchStop,
       DispatchHalt, Look
  <2>3. \A q \in Procs, u \in Threads : q # p \/ u # "cb" => pc'[q][u] = pc[q][u]
    BY <2>2, GotoFrame DEF Threads
  <2>. QED  BY <2>1, <2>3 DEF MainStays, CbStays, Threads
<1>. QED  BY <1>1, <1>2, <1>3 DEF CbStep

\* the tasks never become "r" again
NoneReturns == \A f \in Files : files'[f] = "r" => files[f] = "r"

\* A worker that does not move keeps its part of the invariant as long as
\* its node is not touched and it stays the oldest if it was.
LEMMA MainKept ==
    ASSUME TypeOK, NEW q \in Procs, MainInv(q), MainStays(q), NoneReturns,
           works'[q] = works[q],
           q \in elect' => q \in elect,
           q \in elect' /\ IsOldest(q) => IsOldest(q)'
    PROVE  MainInv(q)'
<1>1. pc[q]["main"] \in Busy => task[q] \in Files
  BY DEF TypeOK, LocalsSet, Busy
<1>2. (At(q, "main", "off") => works[q] = NoNode)'
  BY DEF MainInv, MainStays, At
<1>3. (pc[q]["main"] \in Busy \ {"got"} => files[task[q]] # "r")'
  BY <1>1 DEF MainInv, MainStays, NoneReturns
<1>4. Commanded(q)' <=> Commanded(q)
  BY DEF Commanded
<1>5. (q \in elect /\ pc[q]["main"] \in Busy =>
          works[q] = WorkCmd(task[q]) \/ (IsOldest(q) /\ ~Commanded(q)))'
  BY <1>4 DEF MainInv, MainStays
<1>. QED  BY <1>2, <1>3, <1>5 DEF MainInv

\* A handler that does not move keeps its part as long as no node goes, no
\* command appears, and none is taken away whose task is "r".
LEMMA CbKept ==
    ASSUME TypeOK, NEW q \in Procs, CbInv(q), CbStays(q),
           Coordinating(q) => /\ Children \subseteq Children'
                              /\ \A r \in Procs : works[r] = Idle => works'[r] = Idle
                              /\ \A r \in elect' : Commanded(r)' => r \in elect /\ Commanded(r)
                              /\ \A f \in Files : Assigned(f) => Assigned(f)'
    PROVE  CbInv(q)'
<1>1. CASE ~Coordinating(q)
  BY <1>1 DEF CbInv, CbStays, Coordinating, Walk, Spares, Passes, Walking, At, DispatchPcs, RecoverPcs
<1>2. CASE Coordinating(q)
  <2>1. Walking(q)' <=> Walking(q)
    BY DEF Walking, CbStays
  <2>2. pc[q]["cb"] \in {"dAssign", "dHalt"} => curw[q] \in Procs
    BY DEF TypeOK, LocalsSet, LocalType
  <2>3. Walk(q)'
    BY <1>2, <2>1, <2>2 DEF CbInv, Walk, CbStays
  <2>4. Spares(q)'
    BY <1>2 DEF CbInv, Spares, CbStays, At
  <2>5. Passes(q)'
    BY <1>2 DEF CbInv, Passes, CbStays
  <2>. QED  BY <2>3, <2>4, <2>5 DEF CbInv
<1>. QED  BY <1>1, <1>2

-----------------------------------------------------------------------------
(***************************************************************************)
(* The steps of thread "main".                                             *)
(***************************************************************************)

\* the invariant, but for the sessions
Rest == \A q \in Procs : MainInv(q) /\ CbInv(q)

\* the part of ZooKeeper that the invariant looks at, but for the files
tree == <<works, elect, seqno>>

\* Nothing in ZooKeeper changes but files, and none becomes "r": those that
\* do not move keep their parts.
LEMMA CalmKept ==
    ASSUME TypeOK, Rest, UNCHANGED tree, NoneReturns, NEW q \in Procs
    PROVE  /\ MainStays(q) => MainInv(q)'
           /\ CbStays(q) => CbInv(q)'
<1>1. IsOldest(q) => IsOldest(q)'
  BY DEF tree, IsOldest
<1>2. Children' = Children
  BY DEF tree, Children
<1>3. \A f \in Files : Assigned(f) => Assigned(f)'
  BY DEF tree, Assigned, NoneReturns
<1>4. \A r \in elect : Commanded(r)' <=> Commanded(r)
  BY DEF tree, Commanded
<1>5. MainInv(q) /\ CbInv(q) /\ works' = works /\ elect' = elect
  BY DEF Rest, tree
<1>6. MainStays(q) => MainInv(q)'
  BY <1>1, <1>5, MainKept
<1>7. CbStays(q) => CbInv(q)'
  BY <1>2, <1>3, <1>4, <1>5, CbKept
<1>. QED  BY <1>6, <1>7

\* PREWORK and the work loop, but for the steps that write a /works node or
\* end the process.
LEMMA CalmMain ==
    ASSUME TypeOK, Rest, NEW p \in Procs,
           PREWORK(p) \/ work(p), ~RegistWork(p), ~SetWkSt(p), ~Close(p)
    PROVE  Rest' /\ UNCHANGED tree /\ NoneReturns
<1>1. UNCHANGED tree
  BY DEF PREWORK, Identify, ChooseStep, ChooseList, ChooseGet, BecomeMonitor,
     BecomeWorker, MonitorWork, WatchChildren, work, RecvWork, StY, CsvRecoveryFails, StG, SendFile,
     zkVars, tree
<1>2. NoneReturns
  BY DEF NoneReturns, PREWORK, Identify, ChooseStep, ChooseList, ChooseGet, BecomeMonitor,
     BecomeWorker, MonitorWork, WatchChildren, work, RecvWork, StY, CsvRecoveryFails, StG, SendFile,
     zkVars, TypeOK, ZkType
<1>3. \A q \in Procs \ {p} : MainStays(q)
  BY MainFrame
<1>4. \A q \in Procs : CbStays(q)
  BY MainFrame
<1>5. works' = works /\ elect' = elect /\ seqno' = seqno /\ files \in [Files -> {"r", "y", "g"}]
      /\ works[p] \in WorkData /\ task \in [Procs -> Files \cup {None}]
  BY <1>1 DEF tree, TypeOK, ZkType, ThreadType, CommandTable
<1>6. MainInv(p) /\ (pc[p]["main"] \in Busy => task[p] \in Files)
  BY DEF Rest, TypeOK, LocalsSet, Busy
<1>7. Commanded(p)' <=> Commanded(p)
  BY <1>5 DEF Commanded
<1>8. IsOldest(p)' <=> IsOldest(p)
  BY <1>5 DEF IsOldest
<1>9. ASSUME NEW l, Goto(p, "main", l), l \notin Busy \cup {"off"}
      PROVE  MainInv(p)'
  BY <1>9, GotoFrame DEF MainInv, Threads, At
<1>10. ASSUME UNCHANGED pc, UNCHANGED <<task, files>>
      PROVE  MainInv(p)'
  <2>1. MainStays(p)
    BY <1>10 DEF MainStays
  <2>. QED  BY <1>1, <1>2, <2>1, CalmKept
<1>11. MainInv(p)'
  <2>1. CASE Identify(p) \/ MonitorWork(p)
    BY <1>9, <2>1 DEF Identify, MonitorWork, Busy
  <2>2. CASE ChooseStep(p, "main")
    BY <1>9, <2>2 DEF ChooseStep, ChooseList, ChooseGet, BecomeMonitor, BecomeWorker, Return, Busy
  <2>3. CASE WatchChildren(p)
    BY <1>9, <1>10, <2>3 DEF WatchChildren, Busy
  <2>4. CASE RecvWork(p)
    <3>1. CASE UNCHANGED <<task, pc>>
      BY <1>10, <2>4, <3>1 DEF RecvWork
    <3>2. CASE Goto(p, "main", "stopping")
      BY <1>9, <3>2 DEF Busy
    <3>3. CASE Goto(p, "main", "got")
      <4>1. pc'[p]["main"] = "got"
        BY <3>3, GotoFrame DEF Threads
      <4>2. pc[p]["main"] = "loop"
        BY <2>4 DEF RecvWork, At
      <4>3. IsCmd(works[p]) /\ task'[p] = cmd_task(works[p]) /\ cmd_task(works[p]) \in Files
        BY <1>5, <2>4, <4>1, <4>2, GotoFrame DEF RecvWork, Threads
      <4>4. works[p] = WorkCmd(task'[p])
        BY <1>5, <4>3, Commands
      <4>. QED  BY <1>5, <4>1, <4>4 DEF MainInv, At
    <3>. QED  BY <2>4, <3>1, <3>2, <3>3 DEF RecvWork
  <2>5. CASE StY(p) \/ StG(p)
    <3>1. /\ pc[p]["main"] \in Busy /\ pc'[p]["main"] \in Busy \ {"got"} /\ task' = task
          /\ files'[task[p]] # "r"
      BY <1>5, <1>6, <2>5, GotoFrame DEF StY, StG, Busy, At, Threads
    <3>. QED  BY <1>5, <1>6, <1>7, <1>8, <3>1 DEF MainInv, At, Busy
  <2>6. CASE CsvRecoveryFails(p) \/ SendFile(p)
    <3>1. CASE Goto(p, "main", "loop")
      BY <1>9, <3>1 DEF Busy
    <3>2. CASE ~Goto(p, "main", "loop")
      <4>1. /\ pc[p]["main"] \in Busy \ {"got"} /\ pc'[p]["main"] \in Busy \ {"got"} /\ task' = task
            /\ files' = files
        BY <2>6, <3>2, GotoFrame DEF CsvRecoveryFails, SendFile, Busy, At, Threads, zkVars
      <4>. QED  BY <1>5, <1>6, <1>7, <1>8, <4>1 DEF MainInv, At, Busy
    <3>. QED  BY <3>1, <3>2
  <2>. QED  BY <2>1, <2>2, <2>3, <2>4, <2>5, <2>6 DEF PREWORK, work
<1>12. \A q \in Procs : MainInv(q)' /\ CbInv(q)'
  BY <1>1, <1>2, <1>3, <1>4, <1>11, CalmKept
<1>. QED  BY <1>1, <1>2, <1>12 DEF Rest

\* regist's second zoo_create: a node appears, if there was none.
LEMMA RegistWorkKeeps ==
    ASSUME TypeOK, Rest, NEW p \in Procs, RegistWork(p)
    PROVE  /\ Rest' /\ UNCHANGED <<elect, seqno, files>>
           /\ \A q \in Procs : works'[q] = works[q] \/ (works[q] = NoNode /\ works'[q] = Idle)
<1>1. /\ \A q \in Procs : works'[q] = works[q] \/ (q = p /\ works[q] = NoNode /\ works'[q] = Idle)
      /\ UNCHANGED <<elect, seqno, files>>
  BY DEF RegistWork, CreateWork, TypeOK, ZkType, CommandTable
<1>2. /\ \A q \in Procs \ {p} : MainStays(q)
      /\ \A q \in Procs : CbStays(q)
  BY MainFrame DEF PREWORK
<1>3. pc'[p]["main"] = "identify"
  BY GotoFrame DEF RegistWork, Threads
<1>4. MainInv(p)'
  BY <1>3 DEF MainInv, At, Busy
<1>5. \A q \in Procs \ {p} : MainInv(q)'
  BY <1>1, <1>2, MainKept DEF Rest, IsOldest, NoneReturns
<1>6. /\ Children \subseteq Children'
      /\ \A r \in Procs : works[r] = Idle => works'[r] = Idle
      /\ \A r \in Procs, f \in Files : works'[r] = WorkCmd(f) <=> works[r] = WorkCmd(f)
  BY <1>1, Commands DEF Children
<1>7. elect \subseteq Procs
  BY DEF TypeOK, ZkType
<1>8. \A r \in elect : Commanded(r)' => Commanded(r)
  BY <1>6, <1>7 DEF Commanded
<1>9. \A f \in Files : Assigned(f) => Assigned(f)'
  BY <1>1, <1>6 DEF Assigned
<1>10. \A q \in Procs : CbInv(q)'
  BY <1>1, <1>2, <1>6, <1>8, <1>9, CbKept DEF Rest
<1>. QED  BY <1>1, <1>4, <1>5, <1>10 DEF Rest

\* set_wk_st: the command that goes is that of the task that has been done.
LEMMA SetWkStKeeps ==
    ASSUME TypeOK, Rest, NEW p \in Procs, SetWkSt(p)
    PROVE  /\ Rest' /\ UNCHANGED <<elect, seqno, files>>
           /\ \A q \in Procs \ {p} : works'[q] = works[q]
           /\ works'[p] = works[p] \/ works'[p] = Idle
           /\ p \notin elect => works'[p] = works[p]
<1>1. /\ \A q \in Procs \ {p} : works'[q] = works[q]
      /\ works'[p] = works[p] \/ (p \in elect /\ works[p] # NoNode /\ works'[p] = Idle)
      /\ UNCHANGED <<elect, seqno, files>>
  BY DEF SetWkSt, SetWork, TypeOK, ZkType, CommandTable
<1>2. /\ \A q \in Procs \ {p} : MainStays(q)
      /\ \A q \in Procs : CbStays(q)
  <2>1. ~Close(p)
    BY DEF SetWkSt, Close, At
  <2>. QED  BY <2>1, MainFrame DEF work
<1>3. pc'[p]["main"] = "loop" /\ pc[p]["main"] = "free"
  BY GotoFrame DEF SetWkSt, Threads, At
<1>4. MainInv(p)'
  BY <1>3 DEF MainInv, At, Busy
<1>5. \A q \in Procs \ {p} : MainInv(q)'
  BY <1>1, <1>2, MainKept DEF Rest, IsOldest, NoneReturns
<1>6. /\ Children' = Children
      /\ \A r \in Procs : works[r] = Idle => works'[r] = Idle
      /\ \A r \in Procs, f \in Files : works'[r] = WorkCmd(f) => works[r] = WorkCmd(f)
  BY <1>1, Commands DEF Children
<1>7. elect \subseteq Procs
  BY DEF TypeOK, ZkType
<1>8. \A r \in elect : Commanded(r)' => Commanded(r)
  BY <1>6, <1>7 DEF Commanded
<1>9. \A f \in Files : Assigned(f) => Assigned(f)'
  <2>. SUFFICES ASSUME NEW f \in Files, Assigned(f), files[f] = "r" PROVE \E r \in Procs : works'[r] = WorkCmd(f)
    BY <1>1 DEF Assigned
  <2>1. PICK r \in Procs : works[r] = WorkCmd(f)
    BY DEF Assigned
  <2>2. works'[r] = works[r]
    <3>. SUFFICES ASSUME r = p, p \in elect PROVE FALSE
      BY <1>1
    <3>1. task[p] \in Files /\ files[task[p]] # "r" /\ MainInv(p)
      BY <1>3 DEF Rest, MainInv, Busy, TypeOK, LocalsSet
    <3>2. works[p] = WorkCmd(task[p])
      BY <1>3, <2>1 DEF Rest, MainInv, Busy, Commanded
    <3>. QED  BY <2>1, <3>1, <3>2, Commands
  <2>. QED  BY <2>1, <2>2
<1>10. \A q \in Procs : CbInv(q)'
  BY <1>1, <1>2, <1>6, <1>8, <1>9, CbKept DEF Rest
<1>. QED  BY <1>1, <1>4, <1>5, <1>10 DEF Rest

-----------------------------------------------------------------------------
(***************************************************************************)
(* Sessions that begin and end.                                            *)
(***************************************************************************)

\* A process that joins has no node yet, and is younger than all others.
LEMMA JoinRest ==
    ASSUME TypeOK, ElectionInv, Rest, NEW p \in Procs, RegistElect(p)
    PROVE  Rest' /\ UNCHANGED <<works, files>>
<1>1. /\ elect' = elect \cup {p} /\ seqno' = [seqno EXCEPT ![p] = cversion + 1]
      /\ UNCHANGED <<works, files>>
  BY DEF RegistElect, CreateElect
<1>2. /\ \A q \in Procs \ {p} : MainStays(q)
      /\ \A q \in Procs : CbStays(q)
  BY MainFrame
<1>3. pc'[p]["main"] = "register" /\ pc[p]["main"] = "off"
  BY GotoFrame DEF RegistElect, Threads, At
<1>4. p \notin elect /\ works[p] = NoNode
  BY <1>3 DEF ElectionInv, NotStarted, Rest, MainInv, At
<1>5. elect \subseteq Procs /\ cversion \in Nat /\ seqno \in [Procs -> Nat]
  BY DEF TypeOK, ZkType
<1>6. MainInv(p)'
  BY <1>3 DEF MainInv, At, Busy
<1>7. \A q \in elect : IsOldest(q) => IsOldest(q)'
  BY <1>1, <1>4, <1>5 DEF IsOldest, ElectionInv, Numbered
<1>8. \A q \in Procs \ {p} : MainInv(q)'
  BY <1>1, <1>2, <1>7, MainKept DEF Rest, NoneReturns
<1>9. \A r \in elect' : Commanded(r)' => r \in elect /\ Commanded(r)
  BY <1>1, <1>4, Commands DEF Commanded
<1>10. \A f \in Files : Assigned(f) => Assigned(f)'
  BY <1>1 DEF Assigned
<1>11. \A q \in Procs : CbInv(q)'
  BY <1>1, <1>2, <1>9, <1>10, CbKept DEF Rest, Children
<1>. QED  BY <1>1, <1>6, <1>8, <1>11 DEF Rest

\* A process that leaves, or that stops, drops what its handler was doing;
\* nothing that the others rely on depends on its session.
LEMMA LeaveRest ==
    ASSUME TypeOK, Rest, NEW p \in Procs,
           elect' = elect \ {p} \/ elect' = elect, UNCHANGED <<works, files, seqno>>,
           \A q \in Procs \ {p} : MainStays(q) /\ CbStays(q),
           MainStays(p) \/ pc'[p]["main"] \in {"exited", "crashed"},
           CbStays(p) \/ (pc'[p]["cb"] = "idle" /\ wks'[p] = {})
    PROVE  Rest'
<1>1. \A q \in Procs : IsOldest(q) => IsOldest(q)'
  BY DEF IsOldest
<1>2. \A q \in Procs : MainStays(q) => MainInv(q)'
  BY <1>1, MainKept DEF Rest, NoneReturns
<1>3. MainInv(p)'
  BY <1>2 DEF MainInv, At, Busy
<1>4. /\ \A r \in elect' : Commanded(r)' => r \in elect /\ Commanded(r)
      /\ \A f \in Files : Assigned(f) => Assigned(f)'
      /\ Children' = Children
  BY DEF Commanded, Assigned, Children
<1>5. \A q \in Procs : CbStays(q) => CbInv(q)'
  BY <1>4, CbKept DEF Rest
<1>6. CASE pc'[p]["cb"] = "idle" /\ wks'[p] = {}
  BY <1>2, <1>3, <1>5, <1>6 DEF Rest, CbInv, Walk, Walking, Spares, Passes, At, DispatchPcs
<1>. QED  BY <1>2, <1>3, <1>5, <1>6 DEF Rest

\* The end of a process, a crash, an expired and a lost session.
LEMMA EndRest ==
    ASSUME TypeOK, Rest, NEW p \in Procs, Close(p) \/ Crash(p) \/ Expire(p) \/ LoseSession(p)
    PROVE  Rest' /\ UNCHANGED <<works, files>>
<1>1. UNCHANGED <<works, files, seqno>> /\ (elect' = elect \ {p} \/ elect' = elect)
  BY DEF Close, Crash, Expire, LoseSession, EndSession
<1>2. CASE Close(p) \/ Crash(p)
  <2>1. /\ \A q \in Procs \ {p} : task'[q] = task[q]
        /\ wks'[p] = {}
        /\ \A q \in Procs \ {p} : /\ els'[q] = els[q] /\ dct'[q] = dct[q] /\ fls'[q] = fls[q]
                                  /\ wks'[q] = wks[q] /\ curf'[q] = curf[q] /\ curw'[q] = curw[q]
    BY <1>2 DEF Close, Crash, DropLocals, TypeOK, ThreadType, LocalType
  <2>2. PICK l \in {"exited", "crashed"} : Halt(p, l)
    BY <1>2 DEF Close, Crash
  <2>3. /\ pc'[p]["main"] = l /\ pc'[p]["cb"] = "idle"
        /\ \A q \in Procs, u \in Threads : q # p => pc'[q][u] = pc[q][u]
    BY <2>2, HaltType DEF TypeOK, ThreadType, MainPcs
  <2>. QED  BY <1>1, <2>1, <2>3, LeaveRest DEF MainStays, CbStays, Threads
<1>3. CASE Expire(p)
  <2>1. \A q \in Procs : MainStays(q) /\ CbStays(q)
    BY <1>3 DEF Expire, MainStays, CbStays, locals
  <2>. QED  BY <1>1, <2>1, LeaveRest
<1>4. CASE LoseSession(p)
  <2>1. /\ \A q \in Procs : task'[q] = task[q]
        /\ wks'[p] = {}
        /\ \A q \in Procs \ {p} : /\ els'[q] = els[q] /\ dct'[q] = dct[q] /\ fls'[q] = fls[q]
                                  /\ wks'[q] = wks[q] /\ curf'[q] = curf[q] /\ curw'[q] = curw[q]
    BY <1>4 DEF LoseSession, TypeOK, LocalType
  <2>2. /\ pc'[p]["cb"] = "idle"
        /\ \A q \in Procs, u \in Threads : q # p \/ u # "cb" => pc'[q][u] = pc[q][u]
    BY <1>4, GotoFrame DEF LoseSession, Threads
  <2>. QED  BY <1>1, <2>1, <2>2, LeaveRest DEF MainStays, CbStays, Threads
<1>. QED  BY <1>1, <1>2, <1>3, <1>4

-----------------------------------------------------------------------------
(***************************************************************************)
(* The steps of thread "cb" that write no /works node.                     *)
(***************************************************************************)

\* The handler of p moves to a place where it holds no listing.
LEMMA NoListing ==
    ASSUME NEW p \in Procs, wks'[p] = {},
           pc'[p]["cb"] \notin (DispatchPcs \ {"dispatch"}) \cup {"rGet", "rWorks", "rDelete"}
    PROVE  CbInv(p)'
  BY DEF CbInv, Walk, Walking, Spares, Passes, At, DispatchPcs

\* Watcher, reelect and the beginning of recover hold no listing of /works.
LEMMA ReelectRest ==
    ASSUME TypeOK, Rest, NEW p \in Procs, Watcher(p) \/ reelect(p) \/ RecoverOwn(p)
    PROVE  Rest' /\ UNCHANGED <<tree, files>>
<1>1. UNCHANGED <<tree, wks>>
  BY DEF Watcher, reelect, Reelect, Compare, CheckMode, ChooseStep, ChooseList, ChooseGet,
     BecomeMonitor, BecomeWorker, RecoverOwn, zkVars, locals, tree
<1>2. works[p] \in WorkData
  BY DEF TypeOK, ZkType, CommandTable
<1>3. UNCHANGED files
  BY <1>2, NothingPutBack DEF Watcher, reelect, Reelect, Compare, CheckMode, ChooseStep, ChooseList,
     ChooseGet, BecomeMonitor, BecomeWorker, RecoverOwn, zkVars
<1>4. \/ UNCHANGED pc
      \/ \E l \in {"reelect", "compare", "choose", "get", "toMonitor", "toWorker", "check", "idle",
                   "recover", "rIdle", "rElect", "dispatch"} : Goto(p, "cb", l)
  BY DEF Watcher, reelect, Reelect, Compare, CheckMode, ChooseStep, ChooseList, ChooseGet,
     BecomeMonitor, BecomeWorker, Return, RecoverOwn
<1>5. pc[p]["cb"] \in {"idle", "reelect", "compare", "choose", "get", "toMonitor", "toWorker", "check", "recover"}
  BY DEF Watcher, reelect, Reelect, Compare, CheckMode, ChooseStep, ChooseList, ChooseGet,
     BecomeMonitor, BecomeWorker, RecoverOwn, At
<1>6. wks[p] = {}
  BY <1>5 DEF Rest, CbInv, Walk, Walking, DispatchPcs
<1>7. pc'[p]["cb"] \notin (DispatchPcs \ {"dispatch"}) \cup {"rGet", "rWorks", "rDelete"}
  BY <1>4, <1>5, GotoFrame DEF Threads, DispatchPcs
<1>8. CbInv(p)'
  BY <1>1, <1>6, <1>7, NoListing
<1>9. /\ \A q \in Procs : MainStays(q)
      /\ \A q \in Procs \ {p} : CbStays(q)
  BY CbFrame DEF CbStep, recover
<1>10. NoneReturns
  BY <1>3 DEF NoneReturns
<1>. QED  BY <1>1, <1>3, <1>8, <1>9, <1>10, CalmKept DEF Rest

\* recover's listings: the processes with a session that have a command are
\* among those it is going to read, has read, or does not delete.
LEMMA RecoverListsRest ==
    ASSUME TypeOK, Rest, NEW p \in Procs, RecoverElect(p) \/ RecoverGet(p) \/ RecoverWorks(p)
    PROVE  Rest' /\ UNCHANGED <<tree, files>>
<1>1. UNCHANGED <<tree, files>> /\ NoneReturns
  BY DEF RecoverElect, RecoverGet, RecoverWorks, zkVars, tree, NoneReturns
<1>2. /\ \A q \in Procs : MainStays(q)
      /\ \A q \in Procs \ {p} : CbStays(q)
  BY CbFrame DEF CbStep, recover
<1>3. /\ els \in [Procs -> SUBSET Procs] /\ dct \in [Procs -> SUBSET Procs]
      /\ wks \in [Procs -> SUBSET Procs] /\ elect \subseteq Procs
  BY DEF TypeOK, ZkType, LocalType
<1>4. /\ Children' = Children /\ elect' = elect
      /\ \A q \in elect : Commanded(q)' <=> Commanded(q)
  BY <1>1 DEF tree, Children, Commanded
<1>5. \A q \in elect : Commanded(q) => q \in Children
  BY <1>3, Commands DEF Commanded, Children
<1>6. CbInv(p)'
  <2>1. CASE RecoverElect(p)
    <3>1. pc'[p]["cb"] = "rGet" /\ els'[p] = elect /\ wks'[p] = wks[p] /\ pc[p]["cb"] = "rElect"
      BY <1>3, <2>1, GotoFrame DEF RecoverElect, Threads, At
    <3>2. wks[p] = {}
      BY <3>1 DEF Rest, CbInv, Walk, Walking, DispatchPcs
    <3>3. Walk(p)' /\ Passes(p)'
      BY <3>1, <3>2 DEF Walk, Walking, Passes, DispatchPcs
    <3>4. Spares(p)'
      BY <1>4, <3>1 DEF Spares, At
    <3>. QED  BY <3>3, <3>4 DEF CbInv
  <2>2. CASE RecoverGet(p)
    <3>1. pc[p]["cb"] = "rGet" /\ wks' = wks
      BY <2>2 DEF RecoverGet, At
    <3>2. PICK q \in els[p] : /\ els'[p] = els[p] \ {q}
                              /\ dct'[p] = IF q \in elect THEN dct[p] \cup {q} ELSE dct[p]
                              /\ \/ pc'[p]["cb"] = "rGet"
                                 \/ pc'[p]["cb"] = "rWorks" /\ els[p] = {q}
      BY <1>3, <2>2, <3>1, GotoFrame DEF RecoverGet, Threads
    <3>3. wks[p] = {} /\ Spares(p)
      BY <3>1 DEF Rest, CbInv, Walk, Walking, DispatchPcs
    <3>4. Walk(p)' /\ Passes(p)'
      BY <3>1, <3>2, <3>3 DEF Walk, Walking, Passes, DispatchPcs
    <3>5. \A r \in elect : Commanded(r) => r \in els'[p] \cup dct'[p]
      BY <3>1, <3>2, <3>3 DEF Spares
    <3>6. Spares(p)'
      BY <1>4, <3>2, <3>5 DEF Spares, At
    <3>. QED  BY <3>4, <3>6 DEF CbInv
  <2>3. CASE RecoverWorks(p)
    <3>1. pc[p]["cb"] = "rWorks" /\ wks'[p] = Children \ dct[p]
      BY <1>3, <2>3 DEF RecoverWorks, At
    <3>2. pc'[p]["cb"] = IF Children \subseteq dct[p] THEN "idle" ELSE "rDelete"
      BY <2>3, GotoFrame DEF RecoverWorks, Threads
    <3>3. CASE Children \subseteq dct[p]
      BY <3>1, <3>2, <3>3, NoListing DEF DispatchPcs
    <3>4. CASE ~(Children \subseteq dct[p])
      <4>1. Walk(p)' /\ Passes(p)'
        BY <1>4, <3>1, <3>2, <3>4 DEF Walk, Walking, Passes, DispatchPcs
      <4>2. \A r \in elect : Commanded(r) => r \in dct[p]
        BY <3>1 DEF Rest, CbInv, Spares, At
      <4>3. Spares(p)'
        BY <1>4, <3>1, <3>2, <3>4, <4>2 DEF Spares, At
      <4>. QED  BY <4>1, <4>3 DEF CbInv
    <3>. QED  BY <3>3, <3>4
  <2>. QED  BY <2>1, <2>2, <2>3
<1>. QED  BY <1>1, <1>2, <1>6, CalmKept DEF Rest

\* dispatch_work's loops: a file is passed when it is not "r" or has got its
\* worker, and a worker is taken when its node holds "s".
LEMMA DispatchLoopsRest ==
    ASSUME TypeOK, Rest, NEW p \in Procs,
           Dispatch(p) \/ DispatchFile(p) \/ DispatchWorker(p) \/ DispatchStop(p)
    PROVE  Rest' /\ UNCHANGED <<tree, files>>
<1>1. UNCHANGED <<tree, files>> /\ NoneReturns
  BY DEF Dispatch, DispatchFile, DispatchWorker, DispatchStop, zkVars, tree, NoneReturns
<1>2. /\ \A q \in Procs : MainStays(q)
      /\ \A q \in Procs \ {p} : CbStays(q)
  BY CbFrame DEF CbStep, dispatch_work
<1>3. /\ fls \in [Procs -> SUBSET Files] /\ wks \in [Procs -> SUBSET Procs]
      /\ curf \in [Procs -> Files \cup {None}] /\ curw \in [Procs -> Procs \cup {None}]
      /\ works \in [Procs -> WorkData]
  BY DEF TypeOK, ZkType, LocalType, CommandTable
<1>4. /\ Children' = Children /\ works' = works
      /\ \A f \in Files : Assigned(f)' <=> Assigned(f)
  BY <1>1 DEF tree, Children, Assigned
<1>5. CbInv(p)
  BY DEF Rest
<1>6. CbInv(p)'
  <2>1. CASE Dispatch(p)
    <3>1. pc'[p]["cb"] = "dFile" /\ fls'[p] = Files /\ wks'[p] = Children
      BY <1>3, <2>1, GotoFrame DEF Dispatch, Threads
    <3>. QED  BY <1>4, <3>1 DEF CbInv, Walk, Walking, Spares, Passes, At, DispatchPcs
  <2>2. CASE DispatchFile(p)
    <3>1. /\ pc[p]["cb"] = "dFile" /\ wks' = wks /\ curw' = curw
          /\ \/ fls[p] = {} /\ fls'[p] = {} /\ pc'[p]["cb"] = "dStop"
             \/ \E f \in fls[p] : /\ fls'[p] = fls[p] \ {f}
                                  /\ \/ curf'[p] = f /\ pc'[p]["cb"] = "dWorker"
                                     \/ files[f] # "r" /\ pc'[p]["cb"] = "dFile"
      BY <1>3, <2>2, GotoFrame DEF DispatchFile, Threads, At
    <3>2. wks[p] \subseteq Children /\ \A f \in Files \ fls[p] : Assigned(f)
      BY <1>5, <3>1 DEF CbInv, Walk, Walking, Passes, DispatchPcs
    <3>3. Walk(p)' /\ Spares(p)'
      BY <1>4, <3>1, <3>2 DEF Walk, Walking, Spares, At, DispatchPcs
    <3>4. Passes(p)'
      BY <1>4, <3>1, <3>2 DEF Passes, Assigned
    <3>. QED  BY <3>3, <3>4 DEF CbInv
  <2>3. ASSUME NEW a \in {"dWorker", "dStop"}, NEW found \in {"dAssign", "dHalt"}, NEW q \in wks[p],
               Look(p, q, found), pc[p]["cb"] = a, a = "dWorker" <=> found = "dAssign",
               UNCHANGED <<fls, curf>>
        PROVE  CbInv(p)'
    <3>1. \/ /\ pc'[p]["cb"] = found /\ curw'[p] = q /\ works[q] = Idle /\ wks'[p] = wks[p]
          \/ /\ pc'[p]["cb"] = a /\ wks'[p] = wks[p] \ {q}
      BY <1>3, <2>3, GotoFrame, Commands DEF Look, Threads
    <3>2. wks[p] \subseteq Children
      BY <1>5, <2>3 DEF CbInv, Walk, Walking, DispatchPcs
    <3>3. Walk(p)' /\ Spares(p)'
      BY <1>4, <2>3, <3>1, <3>2 DEF Walk, Walking, Spares, At, DispatchPcs
    <3>4. Passes(p)'
      BY <1>4, <1>5, <2>3, <3>1 DEF CbInv, Passes, DispatchPcs
    <3>. QED  BY <3>3, <3>4 DEF CbInv
  <2>4. CASE wks[p] = {} /\ wks' = wks /\ Goto(p, "cb", "idle")
    BY <2>4, GotoFrame, NoListing DEF Threads, DispatchPcs
  <2>5. CASE DispatchWorker(p)
    BY <2>3, <2>4, <2>5 DEF DispatchWorker, At
  <2>6. CASE DispatchStop(p)
    BY <2>3, <2>4, <2>6 DEF DispatchStop, At
  <2>. QED  BY <2>1, <2>2, <2>5, <2>6
<1>. QED  BY <1>1, <1>2, <1>6, CalmKept DEF Rest

-----------------------------------------------------------------------------
(***************************************************************************)
(* The steps of recover and dispatch_work that write a /works node.  The   *)
(* other handlers hold no listing, because only one process coordinates.   *)
(***************************************************************************)

\* Whoever is not coordinating is not concerned.
LEMMA OthersIdle ==
    ASSUME TypeOK, ElectionInv, Sessions, Rest, NEW p \in Procs, CbStep(p), Coordinating(p)
    PROVE  /\ p \in elect /\ IsOldest(p)
           /\ \A q \in elect : IsOldest(q) => q = p
           /\ \A q \in Procs \ {p} : CbInv(q)'
<1>1. p \in elect
  BY HandlerHasSession
<1>2. IsOldest(p)
  BY <1>1 DEF ElectionInv, Seniority
<1>3. \A q \in Procs \ {p} : ~Coordinating(q)
  BY <1>1, <1>2, OneCoordinator
<1>4. \A q \in Procs \ {p} : CbStays(q)
  BY CbFrame
<1>5. \A q \in Procs \ {p} : CbInv(q)'
  BY <1>3, <1>4, CbKept DEF Rest
<1>6. elect \subseteq Procs
  BY DEF TypeOK, ZkType
<1>. QED  BY <1>1, <1>2, <1>5, <1>6, OneCoordinator

\* The new monitor's own command goes: it is the oldest.
LEMMA RecoverIdleRest ==
    ASSUME TypeOK, ElectionInv, Sessions, Rest, NEW p \in Procs, RecoverIdle(p)
    PROVE  /\ Rest' /\ UNCHANGED <<elect, seqno, files>>
           /\ \A q \in Procs : works'[q] = works[q] \/ (q = p /\ works'[q] = Idle)
<1>1. CbStep(p) /\ Coordinating(p)
  BY DEF RecoverIdle, CbStep, recover, At, Coordinating, RecoverPcs
<1>2. /\ UNCHANGED <<elect, seqno, files, wks>>
      /\ \A q \in Procs : works'[q] = works[q] \/ (q = p /\ works[q] # NoNode /\ works'[q] = Idle)
  BY DEF RecoverIdle, SetWork, TypeOK, ZkType, CommandTable, locals
<1>3. /\ \A q \in Procs : MainStays(q)
      /\ \A q \in Procs \ {p} : CbInv(q)'
      /\ p \in elect /\ IsOldest(p)
  BY <1>1, CbFrame, OthersIdle
<1>4. pc'[p]["cb"] = "rElect" /\ wks[p] = {}
  BY GotoFrame DEF RecoverIdle, Threads, At, Rest, CbInv, Walk, Walking, DispatchPcs
<1>5. CbInv(p)'
  BY <1>2, <1>4, NoListing DEF DispatchPcs
<1>6. \A q \in Procs : works'[q] = works[q] => MainInv(q)'
  BY <1>2, <1>3, MainKept DEF Rest, NoneReturns, IsOldest
<1>7. CASE works'[p] = Idle /\ works[p] # NoNode
  <2>1. IsOldest(p)' /\ ~Commanded(p)'
    BY <1>2, <1>3, <1>7, Commands DEF IsOldest, Commanded
  <2>2. MainInv(p)
    BY DEF Rest
  <2>3. MainInv(p)'
    BY <1>2, <1>3, <1>7, <2>1, <2>2 DEF MainInv, MainStays, At
  <2>. QED  BY <1>2, <1>3, <1>5, <1>6, <2>3 DEF Rest
<1>. QED  BY <1>2, <1>3, <1>5, <1>6, <1>7 DEF Rest

\* recover deletes no node of a process with a session that has a command.
LEMMA RecoverDeleteRest ==
    ASSUME TypeOK, ElectionInv, Sessions, Rest, NEW p \in Procs, RecoverDelete(p)
    PROVE  /\ Rest' /\ UNCHANGED <<elect, seqno, files>>
           /\ \A q \in Procs : works'[q] = works[q]
                                \/ (works'[q] = NoNode /\ (q \in elect => ~Commanded(q)))
<1>1. CbStep(p) /\ Coordinating(p)
  BY DEF RecoverDelete, CbStep, recover, At, Coordinating, RecoverPcs
<1>2. /\ wks \in [Procs -> SUBSET Procs] /\ works \in CommandTable
  BY DEF TypeOK, ZkType, LocalType
<1>3. PICK d \in wks[p] : /\ files' = IF IsCmd(works[d]) THEN PutBack(works[d]) ELSE files
                          /\ DeleteWork(d)
                          /\ wks' = [wks EXCEPT ![p] = @ \ {d}]
                          /\ IF wks[p] = {d} THEN Goto(p, "cb", "idle") ELSE UNCHANGED pc
  BY DEF RecoverDelete
<1>4. files' = files
  BY <1>2, <1>3, NothingPutBack DEF CommandTable
<1>5. /\ UNCHANGED <<elect, seqno>> /\ wks'[p] = wks[p] \ {d} /\ d \in Procs
      /\ works' = [works EXCEPT ![d] = NoNode] /\ works'[d] = NoNode
      /\ \A q \in Procs \ {d} : works'[q] = works[q]
  BY <1>2, <1>3 DEF RecoverDelete, DeleteWork, CommandTable
<1>6. /\ \A q \in Procs : MainStays(q)
      /\ \A q \in Procs \ {p} : CbInv(q)'
      /\ p \in elect /\ IsOldest(p)
  BY <1>1, CbFrame, OthersIdle
<1>7. /\ pc[p]["cb"] = "rDelete" /\ wks[p] \subseteq Children
      /\ \A q \in elect : Commanded(q) => q \notin wks[p]
  BY DEF RecoverDelete, At, Rest, CbInv, Walk, Walking, Spares
<1>8. d \in elect => ~Commanded(d)
  BY <1>7
<1>9. CbInv(p)'
  <2>1. CASE wks[p] = {d}
    <3>1. pc'[p]["cb"] = "idle" /\ wks'[p] = {}
      BY <1>3, <1>5, <2>1, GotoFrame DEF Threads
    <3>. QED  BY <3>1, NoListing DEF DispatchPcs
  <2>2. CASE wks[p] # {d}
    <3>1. pc'[p]["cb"] = "rDelete"
      BY <1>3, <1>7, <2>2
    <3>2. wks'[p] \subseteq Children'
      BY <1>5, <1>7 DEF Children
    <3>3. Walk(p)' /\ Passes(p)'
      BY <3>1, <3>2 DEF Walk, Walking, Passes, DispatchPcs
    <3>4. elect \subseteq Procs
      BY DEF TypeOK, ZkType
    <3>5. \A q \in elect : Commanded(q)' => Commanded(q)
      BY <1>5, <3>4, Commands DEF Commanded
    <3>6. Spares(p)'
      BY <1>5, <1>7, <3>1, <3>5 DEF Spares, At
    <3>. QED  BY <3>3, <3>6 DEF CbInv
  <2>. QED  BY <2>1, <2>2
<1>10. \A q \in Procs \ {d} : MainInv(q)'
  BY <1>4, <1>5, <1>6, MainKept DEF Rest, NoneReturns, IsOldest
<1>11. MainInv(d)'
  <2>1. ~Commanded(d)' /\ (IsOldest(d)' <=> IsOldest(d))
    BY <1>5, Commands DEF Commanded, IsOldest
  <2>2. MainInv(d)
    BY <1>5 DEF Rest
  <2>3. pc[d]["main"] \in Busy => task[d] \in Files
    BY <1>5 DEF TypeOK, LocalsSet, Busy
  <2>4. MainStays(d)
    BY <1>5, <1>6
  <2>5. d \in elect /\ pc[d]["main"] \in Busy => IsOldest(d)
    BY <1>8, <2>2, <2>3 DEF MainInv, Commanded
  <2>. QED  BY <1>4, <1>5, <2>1, <2>2, <2>4, <2>5 DEF MainInv, MainStays, At
<1>. QED  BY <1>4, <1>5, <1>6, <1>8, <1>9, <1>10, <1>11 DEF Rest

\* dispatch_work writes to a node that was found free: its process has no
\* task, because a worker with a task has it in its command, and the oldest
\* process is the one that dispatches.
LEMMA FreeNode ==
    ASSUME TypeOK, ElectionInv, Sessions, Rest, NEW p \in Procs,
           DispatchAssign(p) \/ DispatchHalt(p),
           NEW c \in WorkData, works' = [works EXCEPT ![curw[p]] = c],
           UNCHANGED <<elect, seqno, files>>
    PROVE  /\ curw[p] \in wks[p] \ {p} /\ wks[p] \subseteq Procs /\ works[curw[p]] = Idle
           /\ works'[curw[p]] = c
           /\ \A q \in Procs \ {curw[p]} : works'[q] = works[q]
           /\ \A q \in Procs : MainInv(q)'
           /\ \A q \in Procs \ {p} : CbInv(q)'
<1>1. CbStep(p) /\ Coordinating(p) /\ pc[p]["cb"] \in {"dAssign", "dHalt"}
  BY DEF DispatchAssign, DispatchHalt, CbStep, dispatch_work, At, Coordinating, DispatchPcs
<1>2. curw[p] \in wks[p] \ {p} /\ wks[p] \subseteq Procs /\ works[curw[p]] = Idle
  BY <1>1 DEF TypeOK, LocalsSet, LocalType, Rest, CbInv, Walk
<1>3. works'[curw[p]] = c /\ \A q \in Procs \ {curw[p]} : works'[q] = works[q]
  BY <1>2 DEF TypeOK, ZkType, CommandTable
<1>4. /\ \A q \in Procs : MainStays(q)
      /\ \A q \in Procs \ {p} : CbInv(q)'
      /\ p \in elect /\ \A q \in elect : IsOldest(q) => q = p
  BY <1>1, CbFrame, OthersIdle
<1>5. \A q \in Procs \ {curw[p]} : MainInv(q)'
  BY <1>3, <1>4, MainKept DEF Rest, NoneReturns, IsOldest
<1>6. ASSUME NEW w \in Procs, w = curw[p]
      PROVE  MainInv(w)'
  <2>2. MainInv(w) /\ MainStays(w) /\ works[w] = Idle /\ w # p
    BY <1>2, <1>4, <1>6 DEF Rest
  <2>3. pc[w]["main"] \in Busy => task[w] \in Files
    BY DEF TypeOK, LocalsSet, Busy
  <2>4. ~(w \in elect /\ pc[w]["main"] \in Busy)
    BY <1>4, <2>2, <2>3, Commands DEF MainInv
  <2>5. pc[w]["main"] # "off"
    BY <2>2, Commands DEF MainInv, At
  <2>. QED  BY <2>2, <2>4, <2>5 DEF MainInv, MainStays, At
<1>. QED  BY <1>2, <1>3, <1>4, <1>5, <1>6

\* zoo_set of the work command: the task of the command is curf.
LEMMA AssignRest ==
    ASSUME TypeOK, ElectionInv, Sessions, Rest, NEW p \in Procs, DispatchAssign(p)
    PROVE  /\ Rest' /\ UNCHANGED <<elect, seqno, files>>
           /\ \A q \in Procs : works'[q] = works[q] \/ (works[q] = Idle /\ Commanded(q)')
<1>1. /\ pc[p]["cb"] = "dAssign" /\ curf[p] \in Files /\ curw[p] \in Procs
      /\ works[curw[p]] = Idle /\ CbInv(p)
  BY DEF DispatchAssign, At, TypeOK, LocalsSet, LocalType, Rest, CbInv, Walk
<1>2. /\ works' = [works EXCEPT ![curw[p]] = WorkCmd(curf[p])]
      /\ UNCHANGED <<elect, seqno, files, fls, wks>>
  BY <1>1, Commands DEF DispatchAssign, SetWork
<1>3. WorkCmd(curf[p]) \in WorkData
  BY <1>1 DEF WorkData
<1>4. /\ wks[p] \subseteq Procs /\ works'[curw[p]] = WorkCmd(curf[p])
      /\ \A q \in Procs \ {curw[p]} : works'[q] = works[q]
      /\ \A q \in Procs : MainInv(q)'
      /\ \A q \in Procs \ {p} : CbInv(q)'
  BY <1>2, <1>3, FreeNode
<1>5. pc'[p]["cb"] = "dFile"
  BY GotoFrame DEF DispatchAssign, Threads
<1>6. wks[p] \subseteq Children /\ \A f \in Files \ fls[p] : Assigned(f) \/ f = curf[p]
  BY <1>1 DEF CbInv, Walk, Walking, Passes, DispatchPcs
<1>7. wks[p] \subseteq Children'
  BY <1>1, <1>4, <1>6, Commands DEF Children
<1>8. \A f \in Files : Assigned(f) \/ f = curf[p] => Assigned(f)'
  <2>1. \A f \in Files, r \in Procs : works[r] = WorkCmd(f) => works'[r] = WorkCmd(f)
    BY <1>1, <1>4, Commands
  <2>. QED  BY <1>1, <1>2, <1>4, <2>1 DEF Assigned
<1>9. Walk(p)' /\ Spares(p)'
  BY <1>2, <1>5, <1>7 DEF Walk, Walking, Spares, At, DispatchPcs
<1>10. Passes(p)'
  BY <1>2, <1>5, <1>6, <1>8 DEF Passes
<1>11. \A q \in Procs : works'[q] = works[q] \/ (works[q] = Idle /\ Commanded(q)')
  BY <1>1, <1>4 DEF Commanded
<1>. QED  BY <1>2, <1>4, <1>9, <1>10, <1>11 DEF Rest, CbInv

\* zoo_set of the stop command: every file has been passed.
LEMMA HaltRest ==
    ASSUME TypeOK, ElectionInv, Sessions, Rest, NEW p \in Procs, DispatchHalt(p)
    PROVE  /\ Rest' /\ UNCHANGED <<elect, seqno, files>>
           /\ \A f \in Files : Assigned(f)
           /\ \A q \in Procs : works'[q] = works[q] \/ (works[q] = Idle /\ works'[q] = StopCmd)
<1>1. pc[p]["cb"] = "dHalt" /\ curw[p] \in Procs /\ works[curw[p]] = Idle /\ CbInv(p)
  BY DEF DispatchHalt, At, TypeOK, LocalsSet, LocalType, Rest, CbInv, Walk
<1>2. /\ works' = [works EXCEPT ![curw[p]] = StopCmd]
      /\ UNCHANGED <<elect, seqno, files, fls>>
  BY <1>1, Commands DEF DispatchHalt, SetWork
<1>3. StopCmd \in WorkData
  BY DEF WorkData
<1>4. /\ wks[p] \subseteq Procs /\ works'[curw[p]] = StopCmd
      /\ \A q \in Procs \ {curw[p]} : works'[q] = works[q]
      /\ \A q \in Procs : MainInv(q)'
      /\ \A q \in Procs \ {p} : CbInv(q)'
  BY <1>2, <1>3, FreeNode
<1>5. pc'[p]["cb"] = "dStop" /\ wks'[p] \subseteq wks[p]
  BY GotoFrame DEF DispatchHalt, Threads, TypeOK, LocalType
<1>6. wks[p] \subseteq Children /\ fls[p] = {} /\ \A f \in Files : Assigned(f)
  BY <1>1 DEF CbInv, Walk, Walking, Passes, DispatchPcs
<1>7. wks[p] \subseteq Children'
  BY <1>1, <1>4, <1>6, Commands DEF Children
<1>8. \A f \in Files : Assigned(f)'
  <2>1. \A f \in Files, r \in Procs : works[r] = WorkCmd(f) => works'[r] = WorkCmd(f)
    BY <1>1, <1>4, Commands
  <2>. QED  BY <1>1, <1>2, <1>4, <1>6, <2>1 DEF Assigned
<1>9. Walk(p)' /\ Spares(p)'
  BY <1>2, <1>5, <1>7 DEF Walk, Walking, Spares, At, DispatchPcs
<1>10. Passes(p)'
  BY <1>2, <1>5, <1>6, <1>8 DEF Passes
<1>11. \A q \in Procs : works'[q] = works[q] \/ (works[q] = Idle /\ works'[q] = StopCmd)
  BY <1>1, <1>4
<1>. QED  BY <1>2, <1>4, <1>6, <1>9, <1>10, <1>11 DEF Rest, CbInv

-----------------------------------------------------------------------------
(***************************************************************************)
(* The invariant, and what is written to /works.                           *)
(***************************************************************************)

\* Every step keeps the sessions right.
LEMMA SessionsKept ==
    ASSUME TypeOK, ElectionInv, Sessions, NEW p \in Procs,
           RegistElect(p) \/ MainStep(p) \/ CbStep(p) \/ Fault(p) \/ Expire(p)
    PROVE  Sessions'
<1>1. /\ elect \subseteq Procs /\ watch \in WatchTable /\ evq \in EventQueues
      /\ \A q \in Procs \ elect : watch[q] = {} /\ evq[q] = <<>> /\ pc[q]["cb"] = "idle"
  BY DEF TypeOK, ZkType, Sessions, Session, At
<1>2. ASSUME NEW q \in Procs, ~(q = p /\ CbStep(p))
      PROVE  pc'[q]["cb"] = pc[q]["cb"] \/ pc'[q]["cb"] = "idle"
  <2>1. CASE RegistElect(p) \/ (MainStep(p) /\ ~Close(p))
    <3>1. CASE RegistElect(p) \/ PREWORK(p) \/ (work(p) /\ ~Close(p))
      BY <3>1, MainFrame DEF CbStays
    <3>. QED  BY <2>1, <3>1 DEF MainStep
  <2>2. CASE CbStep(p)
    BY <1>2, <2>2, CbFrame DEF CbStays
  <2>3. CASE Close(p) \/ Crash(p)
    <3>1. PICK l \in {"exited", "crashed"} : Halt(p, l)
      BY <2>3 DEF Close, Crash
    <3>2. /\ pc'[p]["cb"] = "idle"
          /\ \A r \in Procs, u \in Threads : r # p => pc'[r][u] = pc[r][u]
      BY <3>1, HaltType DEF TypeOK, ThreadType, MainPcs
    <3>. QED  BY <3>2 DEF Threads
  <2>4. CASE LoseSession(p)
    BY <2>4, GotoFrame DEF LoseSession, Threads
  <2>5. CASE Expire(p)
    BY <2>5 DEF Expire
  <2>. QED  BY <2>1, <2>2, <2>3, <2>4, <2>5 DEF Fault
<1>3. \A q \in Procs : (At(q, "main", "crashed") => At(q, "cb", "idle"))'
  <2>1. CASE RegistElect(p) \/ PREWORK(p) \/ (work(p) /\ ~Close(p))
    <3>1. UNCHANGED pc \/ \E l : l # "crashed" /\ Goto(p, "main", l)
      BY <2>1 DEF RegistElect, PREWORK, RegistWork, Identify, ChooseStep, ChooseList, ChooseGet, BecomeMonitor,
         BecomeWorker, Return, MonitorWork, WatchChildren, work, RecvWork, StY, CsvRecoveryFails, StG,
         SendFile, SetWkSt
    <3>. QED  BY <3>1, GotoFrame DEF Sessions, Session, At, Threads
  <2>2. CASE CbStep(p)
    <3>1. ~At(p, "main", "crashed")
      BY <2>2 DEF Sessions, Session, CbStep, Watcher, Alive, reelect, Reelect, Compare, CheckMode,
         ChooseStep, ChooseList, ChooseGet, BecomeMonitor, BecomeWorker, recover, RecoverOwn,
         RecoverIdle, RecoverElect, RecoverGet, RecoverWorks, RecoverDelete, dispatch_work, Dispatch,
         DispatchFile, DispatchWorker, DispatchAssign, DispatchStop, DispatchHalt, At
    <3>. QED  BY <2>2, <3>1, CbFrame DEF Sessions, Session, CbStays, MainStays, At
  <2>3. CASE Close(p) \/ Crash(p)
    <3>1. PICK l \in {"exited", "crashed"} : Halt(p, l)
      BY <2>3 DEF Close, Crash
    <3>2. /\ pc'[p]["cb"] = "idle"
          /\ \A r \in Procs, u \in Threads : r # p => pc'[r][u] = pc[r][u]
      BY <3>1, HaltType DEF TypeOK, ThreadType, MainPcs
    <3>. QED  BY <3>2 DEF Sessions, Session, At, Threads
  <2>4. CASE LoseSession(p) \/ Expire(p)
    BY <2>4, GotoFrame DEF LoseSession, Expire, Sessions, Session, At, Threads
  <2>. QED  BY <2>1, <2>2, <2>3, <2>4 DEF MainStep, Fault
<1>4. ASSUME elect \subseteq elect', Silent(elect), CbStep(p) => p \in elect
      PROVE  Sessions'
  BY <1>1, <1>2, <1>4, <1>3 DEF Sessions, Session, Silent, At
<1>5. CASE RegistElect(p)
  <2>1. elect \subseteq elect' /\ Trigger("elect", watch) /\ ~CbStep(p)
    <3>1. evq[p] = <<>> /\ pc[p]["cb"] = "idle" /\ p \notin elect
      BY <1>1, <1>5 DEF RegistElect, ElectionInv, NotStarted
    <3>2. ~CbStep(p)
      BY <3>1, HandlerHasSession
    <3>. QED  BY <1>5, <3>2 DEF RegistElect, CreateElect
  <2>. QED  BY <1>4, <2>1, SilentCalls
<1>6. CASE MainStep(p) /\ ~Close(p)
  <2>1. elect' = elect
    BY <1>6 DEF MainStep, PREWORK, RegistWork, Identify, ChooseStep, ChooseList, ChooseGet, BecomeMonitor,
       BecomeWorker, MonitorWork, WatchChildren, work, RecvWork, StY, CsvRecoveryFails, StG, SendFile,
       SetWkSt, zkVars
  <2>2. Silent(elect)
    <3>1. CASE RegistWork(p) \/ SetWkSt(p)
      BY <3>1, SilentCalls DEF RegistWork, SetWkSt
    <3>2. CASE StY(p) \/ StG(p) \/ SendFile(p) \/ CsvRecoveryFails(p)
      BY <3>2, SilentCalls DEF StY, StG, SendFile, CsvRecoveryFails, zkVars
    <3>3. CASE Identify(p) \/ ChooseStep(p, "main") \/ MonitorWork(p)
      BY <3>3, SilentCalls DEF Identify, ChooseStep, ChooseList, ChooseGet, BecomeMonitor,
         BecomeWorker, MonitorWork, zkVars, WatchKeys
    <3>4. CASE WatchChildren(p)
      BY <3>4, SilentCalls DEF WatchChildren, TypeOK, LocalType
    <3>5. CASE RecvWork(p)
      BY <3>5, SilentCalls DEF RecvWork
    <3>. QED  BY <1>6, <3>1, <3>2, <3>3, <3>4, <3>5 DEF MainStep, PREWORK, work
  <2>3. CbStep(p) => p \in elect
    BY HandlerHasSession
  <2>. QED  BY <1>4, <2>1, <2>2, <2>3
<1>7. CASE CbStep(p)
  <2>1. p \in elect /\ elect' = elect
    BY <1>7, HandlerHasSession, CbFrame
  <2>2. Silent(elect)
    <3>1. CASE Watcher(p)
      <4>1. \A q \in Procs \ {p} : watch'[q] = watch[q] /\ evq'[q] = evq[q]
        BY <1>1, <3>1 DEF Watcher, WatchNode, WatchedBy, WatchTable, EventQueues
      <4>. QED  BY <1>1, <2>1, <4>1 DEF Silent
    <3>2. CASE reelect(p)
      BY <2>1, <3>2, SilentCalls DEF reelect, Reelect, Compare, CheckMode, ChooseStep, ChooseList,
         ChooseGet, BecomeMonitor, BecomeWorker, zkVars, WatchKeys
    <3>3. CASE recover(p)
      BY <2>1, <3>3, SilentCalls DEF recover, RecoverOwn, RecoverIdle, RecoverElect, RecoverGet,
         RecoverWorks, RecoverDelete, zkVars, WatchKeys, TypeOK, LocalType
    <3>4. CASE Dispatch(p) \/ DispatchFile(p)
      BY <2>1, <3>4, SilentCalls DEF Dispatch, DispatchFile, zkVars, WatchKeys
    <3>5. CASE DispatchWorker(p) \/ DispatchStop(p)
      BY <2>1, <3>5, SilentCalls DEF DispatchWorker, DispatchStop, Look, TypeOK, LocalType
    <3>6. CASE DispatchAssign(p) \/ DispatchHalt(p)
      <4>1. curw[p] \in Procs
        BY <3>6 DEF DispatchAssign, DispatchHalt, At, TypeOK, LocalsSet, LocalType
      <4>. QED  BY <3>6, <4>1, SilentCalls DEF DispatchAssign, DispatchHalt
    <3>. QED  BY <1>7, <3>1, <3>2, <3>3, <3>4, <3>5, <3>6 DEF CbStep, dispatch_work
  <2>. QED  BY <1>4, <2>1, <2>2
<1>8. CASE Close(p) \/ Crash(p) \/ LoseSession(p) \/ Expire(p)
  <2>1. Silent(elect')
    <3>1. CASE Crash(p)
      BY <1>1, <3>1 DEF Crash, Silent, WatchTable, EventQueues
    <3>2. EndSession(p) => elect' = elect \ {p} /\ Silent(elect \ {p})
      BY SilentCalls DEF EndSession
    <3>3. CASE Close(p) \/ LoseSession(p) \/ Expire(p)
      BY <1>1, <3>2, <3>3, SilentCalls DEF Close, LoseSession, Expire
    <3>. QED  BY <1>8, <3>1, <3>3
  <2>2. pc'[p]["cb"] = "idle"
    <3>1. CASE Close(p) \/ Crash(p)
      BY <3>1, HaltType DEF Close, Crash, TypeOK, ThreadType, MainPcs
    <3>2. CASE LoseSession(p)
      BY <3>2, GotoFrame DEF LoseSession, Threads
    <3>3. CASE Expire(p)
      BY <3>3 DEF Expire, Sessions, Session, At
    <3>. QED  BY <1>8, <3>1, <3>2, <3>3
  <2>3. elect \subseteq elect' \cup {p}
    BY <1>8 DEF Close, Crash, LoseSession, Expire, EndSession
  <2>. QED
    BY <1>1, <1>2, <1>3, <2>1, <2>2, <2>3 DEF Sessions, Session, Silent, At
<1>. QED  BY <1>5, <1>6, <1>7, <1>8 DEF MainStep, work, Fault

\* what a step may write to a node of /works
Writes(q) ==
    \/ works'[q] = works[q]
    \/ works[q] \in {NoNode, Idle} /\ works'[q] # StopCmd
    \/ works[q] = Idle /\ works'[q] = StopCmd /\ \A f \in Files : Assigned(f)
    \/ works'[q] = Idle /\ ((At(q, "main", "free") /\ q \in elect) \/ At(q, "cb", "rIdle"))
    \/ works'[q] = NoNode /\ (q \in elect => ~Commanded(q))

\* Every step keeps the rest of the invariant, brings no task back to "r" and
\* writes to /works only what Writes allows.
LEMMA RestKept ==
    ASSUME TypeOK, ElectionInv, Sessions, Rest, NEW p \in Procs,
           RegistElect(p) \/ MainStep(p) \/ CbStep(p) \/ Fault(p) \/ Expire(p)
    PROVE  Rest' /\ NoneReturns /\ \A q \in Procs : Writes(q)
<1>1. CASE RegistElect(p)
  BY <1>1, JoinRest DEF NoneReturns, Writes
<1>2. CASE Close(p) \/ Fault(p) \/ Expire(p)
  BY <1>2, EndRest DEF Fault, NoneReturns, Writes
<1>3. CASE RegistWork(p)
  BY <1>3, RegistWorkKeeps, Commands DEF NoneReturns, Writes
<1>4. CASE SetWkSt(p)
  <2>1. At(p, "main", "free")
    BY <1>4 DEF SetWkSt
  <2>2. /\ Rest' /\ UNCHANGED files
        /\ \A q \in Procs \ {p} : works'[q] = works[q]
        /\ works'[p] = works[p] \/ works'[p] = Idle
        /\ p \notin elect => works'[p] = works[p]
    BY <1>4, SetWkStKeeps
  <2>. QED  BY <2>1, <2>2 DEF NoneReturns, Writes
<1>5. CASE (PREWORK(p) \/ work(p)) /\ ~RegistWork(p) /\ ~SetWkSt(p) /\ ~Close(p)
  BY <1>5, CalmMain DEF tree, Writes
<1>6. CASE Watcher(p) \/ reelect(p) \/ RecoverOwn(p)
  BY <1>6, ReelectRest DEF tree, NoneReturns, Writes
<1>7. CASE RecoverElect(p) \/ RecoverGet(p) \/ RecoverWorks(p)
  BY <1>7, RecoverListsRest DEF tree, NoneReturns, Writes
<1>8. CASE Dispatch(p) \/ DispatchFile(p) \/ DispatchWorker(p) \/ DispatchStop(p)
  BY <1>8, DispatchLoopsRest DEF tree, NoneReturns, Writes
<1>9. CASE RecoverIdle(p)
  <2>1. At(p, "cb", "rIdle")
    BY <1>9 DEF RecoverIdle
  <2>. QED  BY <1>9, <2>1, RecoverIdleRest DEF NoneReturns, Writes
<1>10. CASE RecoverDelete(p)
  BY <1>10, RecoverDeleteRest DEF NoneReturns, Writes
<1>11. CASE DispatchAssign(p)
  <2>1. /\ Rest' /\ UNCHANGED files
        /\ \A q \in Procs : works'[q] = works[q] \/ (works[q] = Idle /\ \E f \in Files : works'[q] = WorkCmd(f))
    BY <1>11, AssignRest DEF Commanded
  <2>. QED  BY <2>1, Commands DEF NoneReturns, Writes
<1>12. CASE DispatchHalt(p)
  BY <1>12, HaltRest DEF NoneReturns, Writes
<1>. QED  BY <1>1, <1>2, <1>3, <1>4, <1>5, <1>6, <1>7, <1>8, <1>9, <1>10, <1>11, <1>12
          DEF MainStep, CbStep, recover, dispatch_work, PREWORK, work

\* Before anyone has registered there are no nodes and no sessions.
LEMMA InitDispatch == Init => Sessions /\ Rest
<1>1. Init => Sessions
  BY DEF Init, Sessions, Session, At, ThreadsAt, Threads
<1>2. Init => Rest
  BY DEF Init, Rest, MainInv, CbInv, Walk, Walking, Spares, Passes, At, ThreadsAt, Threads, Busy,
     DispatchPcs
<1>. QED  BY <1>1, <1>2

\* The invariant of the dispatch is inductive.
LEMMA NextDispatch ==
    TypeOK /\ ElectionInv /\ Sessions /\ Rest /\ [Next]_vars
        => Sessions' /\ Rest' /\ NoneReturns /\ \A q \in Procs : Writes(q)
<1>. SUFFICES ASSUME TypeOK, ElectionInv, Sessions, Rest, [Next]_vars
              PROVE  Sessions' /\ Rest' /\ NoneReturns /\ \A q \in Procs : Writes(q)
  OBVIOUS
<1>1. CASE UNCHANGED vars
  <2>1. UNCHANGED <<tree, files, watch, evq, pc, task, els, dct, fls, wks, curf, curw>>
    BY <1>1 DEF vars, zkVars, locals, tree
  <2>2. NoneReturns /\ \A q \in Procs : MainStays(q) /\ CbStays(q) /\ Writes(q)
    BY <2>1 DEF NoneReturns, MainStays, CbStays, Writes, tree
  <2>3. Sessions'
    BY <2>1 DEF Sessions, Session, At, tree
  <2>4. Rest'
    BY <2>1, <2>2, CalmKept DEF Rest
  <2>. QED  BY <2>2, <2>3, <2>4
<1>2. ASSUME NEW p \in Procs,
             RegistElect(p) \/ MainStep(p) \/ CbStep(p) \/ Fault(p) \/ Expire(p)
      PROVE  Sessions' /\ Rest' /\ NoneReturns /\ \A q \in Procs : Writes(q)
  BY <1>2, SessionsKept, RestKept
<1>. QED  BY <1>1, <1>2 DEF Next

\* The inductive invariant always holds.
LEMMA DispatchAlways == Spec => [](TypeOK /\ ElectionInv /\ Sessions /\ Rest)
  BY InitType, NextType, InitElection, NextElection, InitDispatch, NextDispatch, PTL DEF Spec

\* the invariant says of the listings what ListedNodesExist does
LEMMA ListingsFollow == TypeOK /\ Rest => ListedNodesExist
<1>. SUFFICES ASSUME TypeOK, Rest, NEW p \in elect, pc[p]["cb"] \in DispatchPcs \cup {"rDelete"}
              PROVE  wks[p] \subseteq Children
  BY DEF ListedNodesExist
<1>1. p \in Procs
  BY DEF TypeOK, ZkType
<1>. QED  BY <1>1 DEF Rest, CbInv, Walk, Walking, DispatchPcs

\* dispatch_work and recover never visit a node of their listing of /works
\* that another process has deleted: the state that zoo_get leaves in wk_st
\* is the one of the node that is written, whatever joins, fails or recovers
\* in between.
THEOREM ListingsTrue == Spec => []ListedNodesExist
  BY ListingsFollow, DispatchAlways, PTL

\* A work command gives way only to "s" or with its node, as AssignmentKept
\* has it.
LEMMA StepKeepsCommands ==
    TypeOK /\ ElectionInv /\ Sessions /\ Rest /\ [Next]_vars
    => [\A q \in Procs, f \in Files :
          works[q] = WorkCmd(f) /\ works'[q] # works[q] =>
             \/ /\ works'[q] = Idle
                /\ (At(q, "main", "free") /\ task[q] = f) \/ At(q, "cb", "rIdle")
             \/ works'[q] = NoNode /\ q \notin elect]_vars
<1>1. ASSUME TypeOK, Rest, \A q \in Procs : Writes(q), NEW q \in Procs, NEW f \in Files,
             works[q] = WorkCmd(f), works'[q] # works[q]
      PROVE  \/ /\ works'[q] = Idle
                /\ (At(q, "main", "free") /\ task[q] = f) \/ At(q, "cb", "rIdle")
             \/ works'[q] = NoNode /\ q \notin elect
  <2>1. WorkCmd(f) \notin {NoNode, Idle} /\ Commanded(q) /\ MainInv(q)
    BY <1>1, Commands DEF Commanded, Rest
  <2>2. \/ works'[q] = Idle /\ ((At(q, "main", "free") /\ q \in elect) \/ At(q, "cb", "rIdle"))
        \/ works'[q] = NoNode /\ q \notin elect
    BY <1>1, <2>1 DEF Writes
  <2>3. At(q, "main", "free") /\ q \in elect => task[q] = f
    <3>. SUFFICES ASSUME At(q, "main", "free"), q \in elect PROVE task[q] = f
      OBVIOUS
    <3>1. task[q] \in Files
      BY <1>1 DEF TypeOK, LocalsSet, At
    <3>2. works[q] = WorkCmd(task[q])
      BY <2>1 DEF MainInv, At, Busy
    <3>. QED  BY <1>1, <3>1, <3>2, Commands
  <2>. QED  BY <2>2, <2>3
<1>. QED  BY <1>1, NextDispatch

\* dispatch_work, recover and set_wk_st together lose no command: the work
\* command of a process gives way only to "s", when that process has done
\* the task or is the new monitor, or goes with a process that has no session.
THEOREM CommandsKept == Spec => AssignmentKept
  BY StepKeepsCommands, DispatchAlways, PTL DEF Spec, AssignmentKept

\* dispatch_work: no worker is told to stop while a task is left over, in
\* state "r" and in nobody's command.
THEOREM NoEarlyStop == Spec => StopOnlyWhenAllAssigned
<1>1. TypeOK /\ ElectionInv /\ Sessions /\ Rest /\ [Next]_vars
        => [\A q \in Procs : works[q] # StopCmd /\ works'[q] = StopCmd =>
              \A f \in Files : files[f] = "r" => \E r \in Procs : works[r] = WorkCmd(f)]_vars
  BY NextDispatch, Commands DEF Writes, Assigned
<1>. QED  BY <1>1, DispatchAlways, PTL DEF Spec, StopOnlyWhenAllAssigned

-----------------------------------------------------------------------------
(***************************************************************************)
(* Tasks in progress.                                                      *)
(***************************************************************************)
Progressing == \A f \in Files : files[f] = "y" => \E q \in Procs : AtTask(q, f)

\* Thread "main" of q does not move: q stays undisturbed if it gets no
\* command while it is the oldest.
LEMMA UndisturbedKept ==
    ASSUME NEW q \in Procs, Undisturbed(q), MainStays(q), pc'[q]["cb"] # "rIdle",
           q \in elect' <=> q \in elect, q \in elect /\ IsOldest(q)' => IsOldest(q),
           works'[q] = works[q] \/ ~IsCmd(works'[q]) \/ (q \in elect => ~IsOldest(q))
    PROVE  Undisturbed(q)'
  BY DEF Undisturbed, MainStays, At

\* A task in progress stays the task of its worker, or of its command, as
\* long as neither is touched.
LEMMA AtTaskKept ==
    ASSUME NEW q \in Procs, NEW f \in Files, AtTask(q, f), MainStays(q),
           works'[q] = works[q] \/ works[q] # WorkCmd(f)
    PROVE  AtTask(q, f)'
  BY DEF AtTask, MainStays

\* The steps of recover and dispatch_work, and of the events before them.
LEMMA CbProgress ==
    ASSUME TypeOK, ElectionInv, Sessions, Rest, NEW p \in Procs, CbStep(p),
           \A q \in Procs : Undisturbed(q), Progressing
    PROVE  (\A q \in Procs : Undisturbed(q)') /\ Progressing'
<1>1. p \in elect
  BY HandlerHasSession
<1>2. /\ \A q \in Procs : MainStays(q)
      /\ \A q \in Procs \ {p} : CbStays(q)
      /\ UNCHANGED <<elect, seqno>>
  BY CbFrame
<1>3. Coordinating(p) => IsOldest(p) /\ \A q \in elect : IsOldest(q) => q = p
  <2>. SUFFICES ASSUME Coordinating(p) PROVE IsOldest(p) /\ \A q \in elect : IsOldest(q) => q = p
    OBVIOUS
  <2>. QED  BY OthersIdle
<1>4. ~RecoverIdle(p)
  BY DEF RecoverIdle, Undisturbed
<1>5. pc'[p]["cb"] # "rIdle"
  <2>1. CASE RecoverOwn(p)
    <3>1. Coordinating(p)
      BY <2>1 DEF RecoverOwn, Coordinating, At, RecoverPcs
    <3>2. ~IsCmd(works[p])
      BY <1>1, <1>3, <3>1 DEF Undisturbed
    <3>. QED  BY <2>1, <3>2, GotoFrame DEF RecoverOwn, Threads
  <2>2. CASE ~RecoverOwn(p)
    <3>1. UNCHANGED pc \/ \E l : l # "rIdle" /\ Goto(p, "cb", l)
      BY <1>4, <2>2 DEF CbStep, Watcher, reelect, Reelect, Compare, CheckMode, ChooseStep, ChooseList,
         ChooseGet, BecomeMonitor, BecomeWorker, Return, recover, RecoverElect, RecoverGet,
         RecoverWorks, RecoverDelete, dispatch_work, Dispatch, DispatchFile, DispatchWorker,
         DispatchAssign, DispatchStop, DispatchHalt, Look
    <3>. QED  BY <3>1, GotoFrame DEF Undisturbed, At, Threads
  <2>. QED  BY <2>1, <2>2
<1>6. \A q \in Procs : IsOldest(q)' <=> IsOldest(q)
  BY <1>2 DEF IsOldest
<1>7. ASSUME UNCHANGED files,
             \A q \in Procs : \/ works'[q] = works[q]
                              \/ works'[q] = NoNode /\ (q \in elect => ~Commanded(q))
                              \/ works[q] = Idle /\ (q \in elect => ~IsOldest(q))
      PROVE  (\A q \in Procs : Undisturbed(q)') /\ Progressing'
  <2>1. ASSUME NEW q \in Procs
        PROVE  Undisturbed(q)'
    <3>1. pc'[q]["cb"] # "rIdle"
      BY <1>2, <1>5 DEF CbStays, Undisturbed, At
    <3>2. works'[q] = works[q] \/ ~IsCmd(works'[q]) \/ (q \in elect => ~IsOldest(q))
      BY <1>7, Commands
    <3>. QED  BY <1>2, <1>6, <3>1, <3>2, UndisturbedKept
  <2>2. ASSUME NEW q \in Procs, NEW f \in Files, AtTask(q, f)
        PROVE  AtTask(q, f)'
    <3>1. CASE works'[q] = NoNode /\ (q \in elect => ~Commanded(q)) /\ works[q] = WorkCmd(f)
      <4>1. q \notin elect
        BY <3>1 DEF Commanded
      <4>2. pc[q]["main"] \in {"off", "exited"}
        BY <4>1 DEF Undisturbed
      <4>. QED  BY <2>2, <4>2 DEF AtTask
    <3>2. works'[q] = works[q] \/ works[q] # WorkCmd(f) => AtTask(q, f)'
      BY <1>2, <2>2, AtTaskKept
    <3>. QED  BY <1>7, <3>1, <3>2, Commands
  <2>. QED  BY <1>7, <2>1, <2>2 DEF Progressing
<1>8. CASE Watcher(p) \/ reelect(p) \/ RecoverOwn(p)
  BY <1>7, <1>8, ReelectRest DEF tree
<1>9. CASE RecoverElect(p) \/ RecoverGet(p) \/ RecoverWorks(p)
  BY <1>7, <1>9, RecoverListsRest DEF tree
<1>10. CASE Dispatch(p) \/ DispatchFile(p) \/ DispatchWorker(p) \/ DispatchStop(p)
  BY <1>7, <1>10, DispatchLoopsRest DEF tree
<1>11. CASE RecoverDelete(p)
  BY <1>7, <1>11, RecoverDeleteRest
<1>12. CASE DispatchAssign(p) \/ DispatchHalt(p)
  <2>1. Coordinating(p) /\ curw[p] \in Procs \ {p} /\ works[curw[p]] = Idle
    BY <1>12 DEF DispatchAssign, DispatchHalt, At, Coordinating, DispatchPcs, TypeOK, LocalsSet,
       LocalType, Rest, CbInv, Walk
  <2>2. UNCHANGED files /\ \A q \in Procs : works'[q] = works[q] \/ works[q] = Idle
    BY <1>12, AssignRest, HaltRest
  <2>3. \A q \in Procs \ {curw[p]} : works'[q] = works[q]
    BY <1>12, <2>1 DEF DispatchAssign, DispatchHalt, SetWork, TypeOK, ZkType, CommandTable
  <2>4. curw[p] \in elect => ~IsOldest(curw[p])
    BY <1>3, <2>1
  <2>. QED  BY <1>7, <2>1, <2>2, <2>3, <2>4
<1>. QED  BY <1>4, <1>8, <1>9, <1>10, <1>11, <1>12 DEF CbStep, recover, dispatch_work

\* The steps of thread "main", but for the end of the process.
LEMMA MainProgress ==
    ASSUME TypeOK, ElectionInv, Sessions, Rest, NEW p \in Procs, PREWORK(p) \/ work(p), ~Close(p),
           \A q \in Procs : Undisturbed(q), Progressing
    PROVE  (\A q \in Procs : Undisturbed(q)') /\ Progressing'
<1>1. /\ \A q \in Procs \ {p} : MainStays(q)
      /\ \A q \in Procs : CbStays(q)
  BY MainFrame
<1>2. /\ UNCHANGED <<elect, seqno>>
      /\ \A q \in Procs \ {p} : works'[q] = works[q]
      /\ works'[p] = works[p] \/ works'[p] = Idle
  BY DEF PREWORK, RegistWork, CreateWork, Identify, ChooseStep, ChooseList, ChooseGet, BecomeMonitor,
     BecomeWorker, MonitorWork, WatchChildren, work, RecvWork, StY, CsvRecoveryFails, StG, SendFile,
     SetWkSt, SetWork, zkVars, TypeOK, ZkType, CommandTable
<1>3. \A q \in Procs : IsOldest(q)' <=> IsOldest(q)
  BY <1>2 DEF IsOldest
<1>4. \A q \in Procs : pc'[q]["cb"] # "rIdle"
  BY <1>1 DEF CbStays, Undisturbed, At
<1>5. \A q \in Procs \ {p} : Undisturbed(q)'
  BY <1>1, <1>2, <1>3, <1>4, UndisturbedKept
<1>6. \A q \in Procs \ {p}, f \in Files : AtTask(q, f) => AtTask(q, f)'
  BY <1>1, <1>2, AtTaskKept
<1>7. pc[p]["main"] \notin {"off", "exited", "crashed", "stopping"}
  BY DEF PREWORK, RegistWork, Identify, ChooseStep, ChooseList, ChooseGet, BecomeMonitor,
     BecomeWorker, MonitorWork, WatchChildren, work, RecvWork, StY, CsvRecoveryFails, StG, SendFile,
     SetWkSt, At
<1>8. p \in elect
  BY <1>7 DEF Undisturbed
<1>9. ASSUME UNCHANGED pc \/ \E l : Goto(p, "main", l) /\ l \notin {"crashed", "stopping"} \cup Busy
      PROVE  Undisturbed(p)'
  <2>1. /\ pc'[p]["main"] # "crashed"
        /\ pc'[p]["main"] \in Busy \cup {"stopping"} => pc[p]["main"] \in Busy \cup {"stopping"}
    BY <1>7, <1>9, GotoFrame DEF Threads
  <2>2. IsCmd(works'[p]) => IsCmd(works[p])
    BY <1>2, Commands
  <2>. QED  BY <1>2, <1>3, <1>4, <1>8, <2>1, <2>2 DEF Undisturbed, At
<1>10. ASSUME ~IsOldest(p), pc'[p]["main"] # "crashed"
       PROVE  Undisturbed(p)'
  BY <1>2, <1>3, <1>4, <1>8, <1>10 DEF Undisturbed, At
<1>11. pc[p]["main"] \in Busy => ~IsOldest(p) /\ task[p] \in Files /\ works[p] = WorkCmd(task[p])
  BY <1>8 DEF Undisturbed, Rest, MainInv, TypeOK, LocalsSet, Busy
<1>12. ASSUME UNCHANGED files, \A f \in Files : AtTask(p, f) => AtTask(p, f)'
       PROVE  Progressing'
  BY <1>6, <1>12 DEF Progressing
<1>13. CASE PREWORK(p)
  <2>1. UNCHANGED pc \/ \E l : Goto(p, "main", l) /\ l \notin {"crashed", "stopping"} \cup Busy
    BY <1>13 DEF PREWORK, RegistWork, Identify, ChooseStep, ChooseList, ChooseGet, BecomeMonitor,
       BecomeWorker, Return, MonitorWork, WatchChildren, Busy
  <2>2. UNCHANGED files /\ pc[p]["main"] \notin {"loop", "got", "recovery", "retry"}
    BY <1>13 DEF PREWORK, RegistWork, Identify, ChooseStep, ChooseList, ChooseGet, BecomeMonitor,
       BecomeWorker, MonitorWork, WatchChildren, zkVars, At
  <2>3. \A f \in Files : ~AtTask(p, f)
    BY <2>2 DEF AtTask
  <2>. QED  BY <1>5, <1>9, <1>12, <2>1, <2>2, <2>3
<1>14. CASE RecvWork(p)
  <2>1. /\ pc[p]["main"] = "loop" /\ UNCHANGED <<works, files>>
        /\ pc'[p]["main"] = "loop" \/ (pc'[p]["main"] \in {"got", "stopping"} /\ IsCmd(works[p]))
        /\ pc'[p]["main"] = "stopping" => cmd_task(works[p]) \notin Files
    BY <1>14, GotoFrame DEF RecvWork, Threads, At
  <2>2. Undisturbed(p)'
    BY <1>2, <1>3, <1>4, <1>8, <2>1 DEF Undisturbed, At, Busy
  <2>3. \A f \in Files : AtTask(p, f) => AtTask(p, f)'
    BY <2>1, Commands DEF AtTask
  <2>. QED  BY <1>5, <1>12, <2>1, <2>2, <2>3
<1>15. CASE StY(p)
  <2>1. /\ pc[p]["main"] = "got" /\ pc'[p]["main"] = "recovery" /\ UNCHANGED <<task, works>>
        /\ files' = [files EXCEPT ![task[p]] = "y"]
    BY <1>15, GotoFrame DEF StY, Threads, At
  <2>2. ~IsOldest(p) /\ task[p] \in Files /\ works[p] = WorkCmd(task[p])
    BY <1>11, <2>1 DEF Busy
  <2>3. AtTask(p, task[p])'
    BY <2>1 DEF AtTask
  <2>4. \A f \in Files : AtTask(p, f) => f = task[p]
    BY <2>1, <2>2, Commands DEF AtTask
  <2>5. \A f \in Files : files'[f] = "y" => f = task[p] \/ files[f] = "y"
    BY <2>1 DEF TypeOK, ZkType
  <2>6. Progressing'
    BY <1>6, <2>1, <2>3, <2>4, <2>5 DEF Progressing
  <2>. QED  BY <1>5, <1>10, <2>1, <2>2, <2>6
<1>16. CASE CsvRecoveryFails(p)
  <2>1. /\ pc[p]["main"] \in {"recovery", "retry"} /\ UNCHANGED <<works, files>>
        /\ \/ pc'[p]["main"] = "retry" /\ UNCHANGED task
           \/ pc'[p]["main"] = "loop"
    BY <1>16, GotoFrame DEF CsvRecoveryFails, Threads, At, zkVars
  <2>2. ~IsOldest(p) /\ task[p] \in Files /\ works[p] = WorkCmd(task[p])
    BY <1>11, <2>1 DEF Busy
  <2>3. \A f \in Files : AtTask(p, f) => AtTask(p, f)'
    BY <2>1, <2>2 DEF AtTask
  <2>. QED  BY <1>5, <1>10, <1>12, <2>1, <2>2, <2>3
<1>17. CASE StG(p)
  <2>1. /\ pc[p]["main"] \in {"recovery", "retry"} /\ pc'[p]["main"] = "send"
        /\ files' = [files EXCEPT ![task[p]] = "g"]
    BY <1>17, GotoFrame DEF StG, Threads
  <2>2. ~IsOldest(p) /\ task[p] \in Files
    BY <1>11, <2>1 DEF Busy
  <2>3. \A f \in Files : AtTask(p, f) => f = task[p]
    BY <2>1 DEF AtTask
  <2>4. \A f \in Files : files'[f] = "y" => f # task[p] /\ files[f] = "y"
    BY <2>1, <2>2 DEF TypeOK, ZkType
  <2>5. Progressing'
    BY <1>6, <2>3, <2>4 DEF Progressing
  <2>. QED  BY <1>5, <1>10, <2>1, <2>2, <2>5
<1>18. CASE SendFile(p) \/ SetWkSt(p)
  <2>1. /\ pc[p]["main"] \in {"send", "free"} /\ pc'[p]["main"] \in {"free", "loop"}
        /\ UNCHANGED files
    BY <1>18, GotoFrame DEF SendFile, SetWkSt, Threads, At, zkVars
  <2>2. \A f \in Files : ~AtTask(p, f)
    BY <2>1 DEF AtTask
  <2>3. ~IsOldest(p)
    BY <1>11, <2>1 DEF Busy
  <2>. QED  BY <1>5, <1>10, <1>12, <2>1, <2>2, <2>3
<1>. QED  BY <1>13, <1>14, <1>15, <1>16, <1>17, <1>18 DEF work

\* Without failures a process joins as the youngest, and only a process that
\* is not the oldest leaves: nobody becomes the oldest by it.
LEMMA JoinLeaveProgress ==
    ASSUME TypeOK, ElectionInv, Sessions, Rest, NEW p \in Procs, RegistElect(p) \/ Close(p),
           \A q \in Procs : Undisturbed(q), Progressing
    PROVE  (\A q \in Procs : Undisturbed(q)') /\ Progressing'
<1>1. UNCHANGED <<works, files>>
  BY JoinRest, EndRest
<1>2. /\ elect \subseteq Procs /\ cversion \in Nat /\ seqno \in [Procs -> Nat]
      /\ \A q \in Procs : MainInv(q) /\ pc[q]["cb"] # "rIdle"
  BY DEF TypeOK, ZkType, Rest, Undisturbed, At
<1>3. \A f \in Files : ~AtTask(p, f)
  BY DEF RegistElect, Close, At, AtTask
<1>4. ASSUME Undisturbed(p)', \A q \in Procs \ {p} : MainStays(q) /\ pc'[q]["cb"] = pc[q]["cb"],
             \A q \in Procs \ {p} : (q \in elect' <=> q \in elect) /\ (q \in elect /\ IsOldest(q)' => IsOldest(q))
      PROVE  (\A q \in Procs : Undisturbed(q)') /\ Progressing'
  <2>1. \A q \in Procs \ {p} : Undisturbed(q)'
    BY <1>1, <1>2, <1>4, UndisturbedKept
  <2>2. \A q \in Procs \ {p}, f \in Files : AtTask(q, f) => AtTask(q, f)'
    BY <1>1, <1>4, AtTaskKept
  <2>. QED  BY <1>1, <1>3, <1>4, <2>1, <2>2 DEF Progressing
<1>5. CASE RegistElect(p)
  <2>1. /\ elect' = elect \cup {p} /\ seqno' = [seqno EXCEPT ![p] = cversion + 1]
        /\ pc'[p]["main"] = "register" /\ pc[p]["main"] = "off" /\ works[p] = NoNode /\ p \notin elect
    BY <1>2, <1>5, GotoFrame DEF RegistElect, CreateElect, Threads, At, MainInv, ElectionInv, NotStarted
  <2>2. \A q \in Procs \ {p} : MainStays(q) /\ CbStays(q)
    BY <1>5, MainFrame
  <2>3. pc'[p]["cb"] = pc[p]["cb"]
    BY <1>5, MainFrame DEF CbStays
  <2>4. Undisturbed(p)'
    BY <1>1, <1>2, <2>1, <2>3, Commands DEF Undisturbed, At, Busy
  <2>5. \A q \in elect : IsOldest(q)' => IsOldest(q)
    BY <1>2, <2>1 DEF IsOldest
  <2>. QED  BY <1>4, <2>1, <2>2, <2>4, <2>5 DEF CbStays
<1>6. CASE Close(p)
  <2>1. pc[p]["main"] = "stopping" /\ p \in elect /\ ~IsOldest(p)
    BY <1>6 DEF Close, At, Undisturbed
  <2>2. elect' = elect \ {p} /\ seqno' = seqno /\ \A q \in Procs : task'[q] = task[q]
    BY <1>6, <2>1 DEF Close, EndSession
  <2>3. /\ pc'[p]["main"] = "exited" /\ pc'[p]["cb"] = "idle"
        /\ \A q \in Procs, u \in Threads : q # p => pc'[q][u] = pc[q][u]
    BY <1>6, HaltType DEF Close, TypeOK, ThreadType, MainPcs
  <2>4. Undisturbed(p)'
    BY <2>2, <2>3 DEF Undisturbed, At
  <2>5. PICK r \in elect : ~(seqno[p] <= seqno[r])
    BY <2>1 DEF IsOldest
  <2>6. \A q \in elect \ {p} : IsOldest(q)' => IsOldest(q)
    <3>. SUFFICES ASSUME NEW q \in elect \ {p}, IsOldest(q)', NEW s \in elect PROVE seqno[q] <= seqno[s]
      BY DEF IsOldest
    <3>1. r # p /\ seqno[q] <= seqno[r] /\ (s # p => seqno[q] <= seqno[s])
      BY <1>2, <2>2, <2>5 DEF IsOldest
    <3>. QED  BY <1>2, <2>1, <2>5, <3>1
  <2>. QED  BY <1>4, <2>2, <2>3, <2>4, <2>6 DEF MainStays, Threads
<1>. QED  BY <1>5, <1>6

\* dispatch_work, work and recover, as long as no process has failed: a task
\* in state "y" is the task or the command of a process, through every
\* failure and retry of csv_recovery and every join and stop.
THEOREM NothingDropped == Spec => []NoTaskDropped
<1>1. Init => ProgressInv
  BY DEF Init, ProgressInv, Undisturbed, At, ThreadsAt, Threads
<1>2. TypeOK /\ ElectionInv /\ Sessions /\ Rest /\ ProgressInv /\ [Next]_vars => ProgressInv'
  <2>. SUFFICES ASSUME TypeOK, ElectionInv, Sessions, Rest, ProgressInv, [Next]_vars, faults' = 0
                PROVE  (\A q \in Procs : Undisturbed(q)') /\ Progressing'
    BY DEF ProgressInv, Progressing
  <2>1. CASE UNCHANGED vars
    BY <2>1 DEF vars, zkVars, budget, ProgressInv, Progressing, Undisturbed, AtTask, At, IsOldest
  <2>2. ASSUME NEW p \in Procs,
               RegistElect(p) \/ MainStep(p) \/ CbStep(p) \/ Fault(p) \/ Expire(p)
        PROVE  (\A q \in Procs : Undisturbed(q)') /\ Progressing'
    <3>1. faults' = faults \/ faults' = faults + 1
      BY <2>2 DEF RegistElect, MainStep, PREWORK, RegistWork, Identify, ChooseStep, ChooseList,
         ChooseGet, BecomeMonitor, BecomeWorker, MonitorWork, WatchChildren, work, RecvWork, StY,
         CsvRecoveryFails, StG, SendFile, SetWkSt, Close, CbStep, Watcher, reelect, Reelect, Compare,
         CheckMode, recover, RecoverOwn, RecoverIdle, RecoverElect, RecoverGet, RecoverWorks,
         RecoverDelete, dispatch_work, Dispatch, DispatchFile, DispatchWorker, DispatchAssign,
         DispatchStop, DispatchHalt, Fault, Crash, LoseSession, Expire, budget
    <3>2. faults = 0
      BY <3>1 DEF TypeOK, HistoryType
    <3>3. (\A q \in Procs : Undisturbed(q)) /\ Progressing
      BY <3>2 DEF ProgressInv, Progressing
    <3>4. ~Fault(p) /\ ~Expire(p)
      BY <3>2, <3>3 DEF Fault, Crash, LoseSession, Expire, Undisturbed
    <3>. QED  BY <2>2, <3>3, <3>4, CbProgress, MainProgress, JoinLeaveProgress DEF MainStep, work
  <2>. QED  BY <2>1, <2>2 DEF Next
<1>3. ProgressInv => NoTaskDropped
  BY DEF ProgressInv, AtTask, NoTaskDropped, InProgressHasWorker
<1>. QED  BY <1>1, <1>2, <1>3, DispatchAlways, PTL DEF Spec

-----------------------------------------------------------------------------
(***************************************************************************)
(* Watches and events.                                                     *)
(***************************************************************************)

\* The queue of events grows at its end and shrinks at its front.
LEMMA QueueMoves ==
    ASSUME TypeOK, NEW q \in Procs
    PROVE  /\ \A e \in WatchKeys : evq'[q] = Append(evq[q], e) => Waiting(q)' = Waiting(q) \cup {e}
           /\ evq[q] # <<>> /\ evq'[q] = Tail(evq[q]) => Waiting(q) = Waiting(q)' \cup {Head(evq[q])}
           /\ evq'[q] = evq[q] => Waiting(q)' = Waiting(q)
<1>1. evq[q] \in Seq(WatchKeys)
  BY DEF TypeOK, ZkType, EventQueues
<1>2. ASSUME NEW e \in WatchKeys, evq'[q] = Append(evq[q], e)
      PROVE  Waiting(q)' = Waiting(q) \cup {e}
  <2>1. /\ Len(evq[q]) \in Nat /\ DOMAIN evq[q] = 1 .. Len(evq[q])
        /\ DOMAIN evq'[q] = 1 .. Len(evq[q]) + 1
        /\ evq'[q][Len(evq[q]) + 1] = e
        /\ \A i \in 1 .. Len(evq[q]) : evq'[q][i] = evq[q][i]
    BY <1>1, <1>2
  <2>2. \A x \in Waiting(q)' : x \in Waiting(q) \cup {e}
    BY <2>1 DEF Waiting
  <2>3. \A x \in Waiting(q) : x \in Waiting(q)'
    BY <2>1 DEF Waiting
  <2>4. Len(evq[q]) + 1 \in DOMAIN evq'[q]
    BY <2>1
  <2>5. e \in Waiting(q)'
    BY <2>1, <2>4 DEF Waiting
  <2>. QED  BY <2>2, <2>3, <2>5
<1>3. ASSUME evq[q] # <<>>, evq'[q] = Tail(evq[q])
      PROVE  Waiting(q) = Waiting(q)' \cup {Head(evq[q])}
  <2>1. /\ Len(evq[q]) \in Nat /\ Len(evq[q]) # 0 /\ DOMAIN evq[q] = 1 .. Len(evq[q])
        /\ Head(evq[q]) = evq[q][1]
        /\ DOMAIN evq'[q] = 1 .. Len(evq[q]) - 1
        /\ \A i \in 1 .. Len(evq[q]) - 1 : evq'[q][i] = evq[q][i + 1]
    BY <1>1, <1>3
  <2>2. \A x \in Waiting(q)' : x \in Waiting(q)
    <3>. SUFFICES ASSUME NEW i \in DOMAIN evq'[q] PROVE evq'[q][i] \in Waiting(q)
      BY DEF Waiting
    <3>1. i + 1 \in DOMAIN evq[q] /\ evq'[q][i] = evq[q][i + 1]
      BY <2>1
    <3>. QED  BY <3>1 DEF Waiting
  <2>3. \A x \in Waiting(q) : x \in Waiting(q)' \cup {Head(evq[q])}
    <3>. SUFFICES ASSUME NEW i \in DOMAIN evq[q], i # 1 PROVE evq[q][i] \in Waiting(q)'
      BY <2>1 DEF Waiting
    <3>1. i - 1 \in DOMAIN evq'[q] /\ evq'[q][i - 1] = evq[q][i]
      BY <2>1
    <3>. QED  BY <3>1 DEF Waiting
  <2>4. 1 \in DOMAIN evq[q]
    BY <2>1
  <2>5. Head(evq[q]) \in Waiting(q)
    BY <2>1, <2>4 DEF Waiting
  <2>. QED  BY <2>2, <2>3, <2>5
<1>4. evq'[q] = evq[q] => Waiting(q)' = Waiting(q)
  BY DEF Waiting
<1>. QED  BY <1>2, <1>3, <1>4

\* no event of q is lost, and a watch goes only with its event, or with its
\* node; and who watches nothing is told nothing
Lossless(q, gone) ==
    /\ Waiting(q) \subseteq Waiting(q)'
    /\ watch[q] \ gone \subseteq watch'[q] \cup Waiting(q)'
    /\ watch[q] = {} /\ evq[q] = <<>> => watch'[q] = {} /\ evq'[q] = <<>>

\* An event reaches all who watch for it.
LEMMA TriggerTells ==
    ASSUME TypeOK, NEW q \in Procs, NEW e \in WatchKeys, NEW w \in WatchTable, Trigger(e, w)
    PROVE  /\ Waiting(q) \subseteq Waiting(q)'
           /\ w[q] \subseteq watch'[q] \cup Waiting(q)'
           /\ e \in w[q] => e \in Waiting(q)'
           /\ w[q] = {} => watch'[q] = {} /\ evq'[q] = evq[q]
<1>1. watch'[q] = w[q] \ {e} /\ evq'[q] = IF e \in w[q] THEN Append(evq[q], e) ELSE evq[q]
  BY DEF Trigger, TypeOK, ZkType, EventQueues
<1>2. CASE e \in w[q]
  <2>1. evq'[q] = Append(evq[q], e)
    BY <1>1, <1>2
  <2>2. Waiting(q)' = Waiting(q) \cup {e}
    BY <2>1, QueueMoves
  <2>. QED  BY <1>1, <1>2, <2>2
<1>3. CASE e \notin w[q]
  <2>1. evq'[q] = evq[q]
    BY <1>1, <1>3
  <2>2. Waiting(q)' = Waiting(q)
    BY <2>1, QueueMoves
  <2>. QED  BY <1>1, <1>3, <2>1, <2>2
<1>. QED  BY <1>2, <1>3

\* The calls of the ZooKeeper client lose nothing of the others' watches.
LEMMA LosslessCalls ==
    ASSUME TypeOK, NEW q \in Procs
    PROVE  /\ watch'[q] = watch[q] /\ evq'[q] = evq[q] => Lossless(q, {})
           /\ \A p \in Procs \ {q}, K \in SUBSET WatchKeys : watch' = WatchedBy(p, K) /\ evq' = evq => Lossless(q, {})
           /\ \A p \in Procs \ {q}, r \in Procs : watch' = WatchNode(p, r) /\ evq' = evq => Lossless(q, {})
           /\ \A r \in Procs : \A d : SetWork(r, d, watch) => Lossless(q, {})
           /\ \A r \in Procs : DeleteWork(r) => Lossless(q, {r})
           /\ \A p \in Procs : CreateWork(p, Idle) => Lossless(q, {})
           /\ Trigger("elect", watch) => Lossless(q, {})
           /\ \A p \in Procs \ {q} : EndSession(p) => Lossless(q, {})
<1>1. watch \in WatchTable /\ evq \in EventQueues /\ evq[q] \in Seq(WatchKeys) /\ Procs \subseteq WatchKeys
      /\ {"elect", "works"} \subseteq WatchKeys
  BY DEF TypeOK, ZkType, EventQueues, WatchKeys
<1>2. watch'[q] = watch[q] /\ evq'[q] = evq[q] => Lossless(q, {})
  BY QueueMoves DEF Lossless
<1>3. \A e \in WatchKeys : Trigger(e, watch) => Lossless(q, {})
  BY <1>1, TriggerTells DEF Lossless
<1>4. \A p \in Procs \ {q}, K \in SUBSET WatchKeys : watch' = WatchedBy(p, K) /\ evq' = evq => Lossless(q, {})
  BY <1>1, <1>2 DEF WatchedBy, WatchTable
<1>5. \A p \in Procs \ {q}, r \in Procs : watch' = WatchNode(p, r) /\ evq' = evq => Lossless(q, {})
  BY <1>1, <1>2, <1>4 DEF WatchNode
<1>6. \A r \in Procs : \A d : SetWork(r, d, watch) => Lossless(q, {})
  BY <1>1, <1>2, <1>3 DEF SetWork
<1>7. \A r \in Procs : DeleteWork(r) => Lossless(q, {r})
  <2>. SUFFICES ASSUME NEW r \in Procs, DeleteWork(r) PROVE Lossless(q, {r})
    OBVIOUS
  <2>1. CASE works[r] = NoNode
    BY <2>1, QueueMoves DEF DeleteWork, Lossless
  <2>2. CASE works[r] # NoNode
    <3> DEFINE w == [s \in Procs |-> watch[s] \ {r}]
    <3>1. w \in WatchTable /\ Trigger("works", w) /\ w[q] = watch[q] \ {r}
      BY <1>1, <2>2 DEF DeleteWork, WatchTable
    <3>. HIDE DEF w
    <3>. QED  BY <1>1, <3>1, TriggerTells DEF Lossless
  <2>. QED  BY <2>1, <2>2
<1>8. \A p \in Procs : CreateWork(p, Idle) => Lossless(q, {})
  BY <1>1, <1>2, <1>3 DEF CreateWork
<1>9. \A p \in Procs \ {q} : EndSession(p) => Lossless(q, {})
  <2>. SUFFICES ASSUME NEW p \in Procs \ {q}, EndSession(p) PROVE Lossless(q, {})
    OBVIOUS
  <2>1. watch'[q] = watch[q] \ {"elect"}
        /\ evq'[q] = IF "elect" \in watch[q] THEN Append(evq[q], "elect") ELSE evq[q]
    BY <1>1 DEF EndSession, WatchTable
  <2>2. CASE "elect" \in watch[q]
    <3>1. evq'[q] = Append(evq[q], "elect")
      BY <2>1, <2>2
    <3>2. Waiting(q)' = Waiting(q) \cup {"elect"}
      BY <1>1, <3>1, QueueMoves
    <3>. QED  BY <2>1, <2>2, <3>2 DEF Lossless
  <2>3. CASE "elect" \notin watch[q]
    <3>1. evq'[q] = evq[q] /\ watch'[q] = watch[q]
      BY <2>1, <2>3
    <3>. QED  BY <1>2, <3>1
  <2>. QED  BY <2>2, <2>3
<1>. QED  BY <1>1, <1>2, <1>3, <1>4, <1>5, <1>6, <1>7, <1>8, <1>9

\* What a monitor hears of /works, it goes on to hear, as long as no watch is
\* lost, no node appears and its handler goes on with its loop.
LEMMA WorksHeardKept ==
    ASSUME TypeOK, NEW q \in Procs, HearsOfWorks(q), NEW gone \in SUBSET Procs, Lossless(q, gone),
           Children' \subseteq Children \ gone,
           At(q, "cb", "dispatch") => At(q, "cb", "dispatch")',
           Looking(q) => (Looking(q)' /\ wks[q] \subseteq wks'[q]) \/ (wks[q] = {}),
           At(q, "cb", "dHalt")' => At(q, "cb", "dHalt") /\ curw'[q] = curw[q] /\ curw[q] \in Procs \ gone
    PROVE  HearsOfWorks(q)'
<1>1. Told(q) => Told(q)'
  BY DEF Told, Lossless
<1>2. CASE ~Told(q) /\ ~Told(q)'
  <2>1. \A e \in Waiting(q)' : e = "elect"
    BY <1>2 DEF Told
  <2>2. \A k \in watch[q] \ gone : k # "elect" => k \in watch'[q]
    BY <2>1 DEF Lossless
  <2>3. "works" \notin Procs /\ "elect" \notin Procs
    BY KeysDisjoint
  <2>4. "works" \in watch'[q]
    BY <1>2, <2>2, <2>3 DEF HearsOfWorks
  <2>5. \A r \in Children' : r \in watch'[q] \/ (Looking(q)' /\ r \in wks'[q])
    BY <1>2, <2>2, <2>3 DEF HearsOfWorks, Children
  <2>6. (At(q, "cb", "dHalt") => curw[q] \in watch[q])'
    BY <1>2, <2>2, <2>3 DEF HearsOfWorks
  <2>. QED  BY <2>4, <2>5, <2>6 DEF HearsOfWorks
<1>. QED  BY <1>1, <1>2 DEF HearsOfWorks

\* A process that does not move, or moves without a say in the matter.
LEMMA NotifiedKept ==
    ASSUME TypeOK, NEW q \in Procs, Notified(q), NEW gone \in SUBSET Procs, Lossless(q, gone),
           q \in elect' /\ Alive(q)' => q \in elect /\ Alive(q) /\ (Joining(q)' <=> Joining(q)),
           Joining(q) => pc'[q]["cb"] = pc[q]["cb"] /\ mode'[q] = mode[q],
           At(q, "cb", "reelect") => At(q, "cb", "reelect")' \/ "elect" \in watch'[q],
           q \in served' /\ mode'[q] = MODE_MONITOR => q \in served /\ mode[q] = MODE_MONITOR,
           HearsOfWorks(q) => HearsOfWorks(q)'
    PROVE  Notified(q)'
<1>. SUFFICES ASSUME q \in elect', Alive(q)'
              PROVE  /\ IF Joining(q)'
                        THEN watch'[q] = {} /\ evq'[q] = <<>> /\ At(q, "cb", "idle")' /\ mode'[q] = MODE_WORKER
                        ELSE HearsOfElect(q)'
                     /\ q \in served' /\ mode'[q] = MODE_MONITOR => HearsOfWorks(q)'
  BY DEF Notified
<1>1. q \in elect /\ Alive(q) /\ (Joining(q)' <=> Joining(q))
  OBVIOUS
<1>2. CASE Joining(q)
  BY <1>1, <1>2 DEF Notified, Lossless, At, MODE_MONITOR, MODE_WORKER
<1>3. CASE ~Joining(q)
  <2>1. HearsOfElect(q)
    BY <1>1, <1>3 DEF Notified
  <2>2. "elect" \notin gone
    BY KeysDisjoint
  <2>3. HearsOfElect(q)'
    BY <2>1, <2>2 DEF HearsOfElect, Lossless
  <2>. QED  BY <1>1, <1>3, <2>3 DEF Notified
<1>. QED  BY <1>2, <1>3

\* Steps of another process.
LEMMA OthersNotified ==
    ASSUME TypeOK, ElectionInv, Sessions, Rest, NotifyInv, NEW p \in Procs,
           RegistElect(p) \/ MainStep(p) \/ CbStep(p) \/ Fault(p) \/ Expire(p),
           NEW q \in Procs, q # p
    PROVE  Notified(q)'
<1>1. MainStays(q) /\ CbStays(q)
  <2>1. CASE RegistElect(p) \/ (MainStep(p) /\ ~Close(p))
    <3>1. CASE RegistElect(p) \/ PREWORK(p) \/ (work(p) /\ ~Close(p))
      BY <3>1, MainFrame
    <3>. QED  BY <2>1, <3>1 DEF MainStep
  <2>2. CASE CbStep(p)
    BY <2>2, CbFrame
  <2>3. CASE Close(p) \/ Crash(p)
    <3>1. PICK l \in {"exited", "crashed"} : Halt(p, l)
      BY <2>3 DEF Close, Crash
    <3>2. \A r \in Procs, u \in Threads : r # p => pc'[r][u] = pc[r][u]
      BY <3>1, HaltType DEF TypeOK, ThreadType, MainPcs
    <3>. QED  BY <2>3, <3>2 DEF Close, Crash, DropLocals, TypeOK, ThreadType, LocalType,
              MainStays, CbStays, Threads
  <2>4. CASE LoseSession(p)
    BY <2>4, GotoFrame DEF LoseSession, TypeOK, LocalType, MainStays, CbStays, Threads
  <2>5. CASE Expire(p)
    BY <2>5 DEF Expire, locals, MainStays, CbStays
  <2>. QED  BY <2>1, <2>2, <2>3, <2>4, <2>5 DEF MainStep, work, Fault
<1>2. /\ Joining(q)' <=> Joining(q)
      /\ Alive(q)' <=> Alive(q)
      /\ Looking(q)' <=> Looking(q)
      /\ pc'[q]["cb"] = pc[q]["cb"]
      /\ At(q, "cb", "reelect") => At(q, "cb", "reelect")'
      /\ At(q, "cb", "dispatch") => At(q, "cb", "dispatch")'
      /\ At(q, "cb", "dHalt")' <=> At(q, "cb", "dHalt")
  BY <1>1 DEF Joining, Alive, Looking, MainStays, CbStays, At
<1>3. /\ q \in elect' => q \in elect
      /\ mode'[q] = mode[q]
      /\ q \in served' => q \in served
  BY DEF RegistElect, CreateElect, MainStep, PREWORK, RegistWork, Identify, ChooseStep, ChooseList,
     ChooseGet, BecomeMonitor, BecomeWorker, MonitorWork, WatchChildren, work, RecvWork, StY,
     CsvRecoveryFails, StG, SendFile, SetWkSt, Close, CbStep, Watcher, reelect, Reelect, Compare,
     CheckMode, recover, RecoverOwn, RecoverIdle, RecoverElect, RecoverGet, RecoverWorks,
     RecoverDelete, dispatch_work, Dispatch, DispatchFile, DispatchWorker, DispatchAssign,
     DispatchStop, DispatchHalt, Fault, Crash, LoseSession, Expire, EndSession, zkVars, history,
     TypeOK, ThreadType
<1>4. curw'[q] = curw[q] /\ wks'[q] = wks[q] /\ (At(q, "cb", "dHalt") => curw[q] \in Procs)
  BY <1>1 DEF CbStays, At, TypeOK, LocalsSet, LocalType
<1>5. Notified(q) /\ {} \in SUBSET Procs
  BY DEF NotifyInv
<1>6. ASSUME Lossless(q, {}), Children' \subseteq Children
      PROVE  Notified(q)'
  <2>1. HearsOfWorks(q) => HearsOfWorks(q)'
    BY <1>2, <1>4, <1>5, <1>6, WorksHeardKept
  <2>. QED  BY <1>2, <1>3, <1>5, <1>6, <2>1, NotifiedKept
<1>7. CASE RegistElect(p)
  BY <1>6, <1>7, LosslessCalls DEF RegistElect, CreateElect, Children
<1>8. CASE Close(p) \/ Crash(p) \/ LoseSession(p) \/ Expire(p)
  <2>1. EndSession(p) => Lossless(q, {})
    BY LosslessCalls
  <2>2. Children' = Children
    BY <1>8 DEF Close, Crash, LoseSession, Expire, Children
  <2>3. Lossless(q, {})
    <3>1. CASE EndSession(p)
      BY <2>1, <3>1
    <3>2. CASE ~EndSession(p)
      <4>1. watch'[q] = watch[q] /\ evq'[q] = evq[q]
        BY <1>8, <3>2 DEF Close, Crash, LoseSession, Expire, TypeOK, ZkType, WatchTable, EventQueues
      <4>. QED  BY <4>1, LosslessCalls
    <3>. QED  BY <3>1, <3>2
  <2>. QED  BY <1>6, <2>2, <2>3
<1>9. CASE RegistWork(p)
  <2>1. Lossless(q, {})
    BY <1>9, LosslessCalls DEF RegistWork
  <2>2. CASE UNCHANGED works
    BY <1>6, <2>1, <2>2 DEF Children
  <2>3. CASE ~UNCHANGED works
    <3>1. Trigger("works", watch)
      BY <1>9, <2>3 DEF RegistWork, CreateWork
    <3>2. "works" \in WatchKeys /\ watch \in WatchTable
      BY DEF WatchKeys, TypeOK, ZkType
    <3>3. "works" \in watch[q] => "works" \in Waiting(q)'
      BY <3>1, <3>2, TriggerTells
    <3>4. HearsOfWorks(q) => HearsOfWorks(q)'
      BY <1>2, <2>1, <3>3 DEF HearsOfWorks, Told, Lossless
    <3>. QED  BY <1>2, <1>3, <1>5, <2>1, <3>4, NotifiedKept
  <2>. QED  BY <2>2, <2>3
<1>10. CASE RecoverDelete(p)
  <2>1. PICK d \in wks[p] : DeleteWork(d)
    BY <1>10 DEF RecoverDelete
  <2>2. d \in Procs
    BY <2>1 DEF TypeOK, LocalType
  <2>3. Lossless(q, {d}) /\ {d} \in SUBSET Procs
    BY <2>1, <2>2, LosslessCalls
  <2>4. Children' \subseteq Children \ {d}
    BY <2>1, <2>2 DEF DeleteWork, Children, TypeOK, ZkType, CommandTable
  <2>5. ~At(q, "cb", "dHalt")'
    <3>1. CbStep(p) /\ Coordinating(p)
      BY <1>10 DEF RecoverDelete, CbStep, recover, At, Coordinating, RecoverPcs
    <3>2. ~Coordinating(q)
      BY <3>1, OthersIdle, OneCoordinator
    <3>. QED  BY <1>2, <3>2 DEF Coordinating, At, DispatchPcs
  <2>6. HearsOfWorks(q) => HearsOfWorks(q)'
    BY <1>2, <1>4, <2>3, <2>4, <2>5, WorksHeardKept
  <2>. QED  BY <1>2, <1>3, <1>5, <2>3, <2>6, NotifiedKept
<1>11. CASE SetWkSt(p) \/ RecoverIdle(p) \/ DispatchAssign(p) \/ DispatchHalt(p)
  <2>1. CASE SetWkSt(p) /\ p \notin elect
    BY <1>6, <2>1, LosslessCalls DEF SetWkSt, Children
  <2>2. CASE ~(SetWkSt(p) /\ p \notin elect)
    <3>1. PICK r \in Procs, d \in WorkData : SetWork(r, d, watch)
      BY <1>11, <2>2 DEF SetWkSt, RecoverIdle, DispatchAssign, DispatchHalt, At, TypeOK, LocalsSet,
         LocalType, WorkData
    <3>2. Lossless(q, {})
      BY <3>1, LosslessCalls
    <3>3. Children' \subseteq Children
      BY <3>1 DEF SetWork, Children, TypeOK, ZkType, CommandTable
    <3>. QED  BY <1>6, <3>2, <3>3
  <2>. QED  BY <2>1, <2>2
<1>12. CASE /\ MainStep(p) \/ CbStep(p)
            /\ ~RegistWork(p) /\ ~SetWkSt(p) /\ ~Close(p)
            /\ ~RecoverIdle(p) /\ ~RecoverDelete(p) /\ ~DispatchAssign(p) /\ ~DispatchHalt(p)
  <2>1. Children' = Children
    BY <1>12 DEF MainStep, PREWORK, Identify, ChooseStep, ChooseList,
       ChooseGet, BecomeMonitor, BecomeWorker, MonitorWork, WatchChildren, work, RecvWork, StY,
       CsvRecoveryFails, StG, SendFile, CbStep, Watcher, reelect, Reelect, Compare,
       CheckMode, recover, RecoverOwn, RecoverElect, RecoverGet, RecoverWorks,
       dispatch_work, Dispatch, DispatchFile, DispatchWorker, DispatchStop, zkVars, Children
  <2>2. watch'[q] = watch[q] /\ evq'[q] = evq[q]
    <3>1. watch \in WatchTable /\ evq \in EventQueues
      BY DEF TypeOK, ZkType
    <3>2. \A K \in SUBSET WatchKeys : watch' = WatchedBy(p, K) => watch'[q] = watch[q]
      BY <3>1 DEF WatchedBy, WatchTable
    <3>3. \A r \in Procs : watch' = WatchNode(p, r) => watch'[q] = watch[q]
      BY <3>1 DEF WatchNode, WatchedBy, WatchTable
    <3>4. CASE MainStep(p)
      <4>1. evq' = evq
        BY <1>12, <3>4 DEF MainStep, PREWORK, Identify, ChooseStep, ChooseList,
           ChooseGet, BecomeMonitor, BecomeWorker, MonitorWork, WatchChildren, work, RecvWork, StY,
           CsvRecoveryFails, StG, SendFile, zkVars
      <4>2. chd[p] \subseteq Procs
        BY DEF TypeOK, LocalType
      <4>3. watch'[q] = watch[q]
        BY <1>12, <3>2, <3>3, <3>4, <4>2 DEF MainStep, PREWORK, Identify, ChooseStep, ChooseList,
           ChooseGet, BecomeMonitor, BecomeWorker, MonitorWork, WatchChildren, work, RecvWork, StY,
           CsvRecoveryFails, StG, SendFile, zkVars, WatchKeys
      <4>. QED  BY <4>1, <4>3
    <3>5. CASE CbStep(p)
      <4>1. evq'[q] = evq[q]
        BY <1>12, <3>1, <3>5 DEF CbStep, Watcher, reelect, Reelect, Compare,
           CheckMode, ChooseStep, ChooseList, ChooseGet, BecomeMonitor, BecomeWorker, recover,
           RecoverOwn, RecoverElect, RecoverGet, RecoverWorks,
           dispatch_work, Dispatch, DispatchFile, DispatchWorker, DispatchStop, zkVars, EventQueues
      <4>2. wks[p] \subseteq Procs
        BY DEF TypeOK, LocalType
      <4>3. watch'[q] = watch[q]
        BY <1>12, <3>2, <3>3, <3>5, <4>2 DEF CbStep, Watcher, reelect, Reelect, Compare,
           CheckMode, ChooseStep, ChooseList, ChooseGet, BecomeMonitor, BecomeWorker, recover,
           RecoverOwn, RecoverElect, RecoverGet, RecoverWorks,
           dispatch_work, Dispatch, DispatchFile, DispatchWorker, DispatchStop, Look, zkVars, WatchKeys
      <4>. QED  BY <4>1, <4>3
    <3>. QED  BY <1>12, <3>4, <3>5
  <2>. QED  BY <1>6, <2>1, <2>2, LosslessCalls
<1>. QED  BY <1>7, <1>8, <1>9, <1>10, <1>11, <1>12 DEF Fault

\* Own watches are only added to.
LEMMA OwnWatches ==
    ASSUME TypeOK, NEW q \in Procs, evq'[q] = evq[q],
           NEW K \in SUBSET WatchKeys, watch' = watch \/ watch' = WatchedBy(q, K)
    PROVE  /\ Waiting(q)' = Waiting(q) /\ watch[q] \subseteq watch'[q]
           /\ watch' = WatchedBy(q, K) => K \subseteq watch'[q]
  BY QueueMoves DEF WatchedBy, TypeOK, ZkType, WatchTable

\* The steps of thread "main".
LEMMA MainNotified ==
    ASSUME TypeOK, ElectionInv, Sessions, Rest, Sessions', NotifyInv, NEW p \in Procs,
           RegistElect(p) \/ MainStep(p)
    PROVE  Notified(p)'
<1>1. /\ watch \in WatchTable /\ evq \in EventQueues /\ mode \in [Procs -> {MODE_MONITOR, MODE_WORKER}]
      /\ Notified(p) /\ served \subseteq Procs /\ Procs \subseteq WatchKeys
  BY DEF TypeOK, ZkType, ThreadType, HistoryType, NotifyInv, WatchKeys
<1>2. CASE RegistElect(p)
  <2>1. /\ p \notin elect /\ mode'[p] = MODE_WORKER /\ pc[p]["cb"] = "idle"
        /\ watch[p] = {} /\ evq[p] = <<>> /\ Trigger("elect", watch)
    BY <1>2 DEF RegistElect, CreateElect, ElectionInv, NotStarted, Sessions, Session, At
  <2>2. watch'[p] = {} /\ evq'[p] = <<>>
    BY <1>1, <2>1 DEF Trigger
  <2>3. pc'[p]["main"] = "register" /\ pc'[p]["cb"] = "idle"
    BY <1>2, <2>1, GotoFrame DEF RegistElect, Threads
  <2>. QED  BY <2>1, <2>2, <2>3 DEF Notified, Joining, At, MODE_MONITOR, MODE_WORKER
<1>3. CASE Close(p)
  <2>1. pc'[p]["main"] = "exited"
    BY <1>3, HaltType DEF Close, TypeOK, ThreadType, MainPcs
  <2>. QED  BY <2>1 DEF Notified, Alive
<1>. SUFFICES ASSUME MainStep(p), ~Close(p) PROVE Notified(p)'
  BY <1>2, <1>3
<1>4. CbStays(p) /\ elect' = elect
  <2>1. CASE PREWORK(p) \/ (work(p) /\ ~Close(p))
    BY <2>1, MainFrame DEF PREWORK, RegistWork, Identify, ChooseStep, ChooseList, ChooseGet, BecomeMonitor,
       BecomeWorker, MonitorWork, WatchChildren, work, RecvWork, StY, CsvRecoveryFails, StG, SendFile,
       SetWkSt, zkVars
  <2>. QED  BY <2>1 DEF MainStep
<1>5. /\ Looking(p)' <=> Looking(p)
      /\ pc'[p]["cb"] = pc[p]["cb"] /\ curw'[p] = curw[p] /\ wks'[p] = wks[p]
      /\ At(p, "cb", "reelect") => At(p, "cb", "reelect")'
      /\ At(p, "cb", "dispatch") => At(p, "cb", "dispatch")'
      /\ At(p, "cb", "dHalt")' <=> At(p, "cb", "dHalt")
      /\ At(p, "cb", "dHalt") => curw[p] \in Procs
  BY <1>4 DEF CbStays, Looking, At, TypeOK, LocalsSet, LocalType
<1>6. ASSUME Lossless(p, {}), Children' \subseteq Children
      PROVE  HearsOfWorks(p) => HearsOfWorks(p)'
  BY <1>5, <1>6, WorksHeardKept
<1>7. CASE RegistWork(p)
  <2>1. pc[p]["main"] = "register" /\ pc'[p]["main"] = "identify"
    BY <1>7, GotoFrame DEF RegistWork, Threads, At
  <2>2. Lossless(p, {})
    BY <1>7, LosslessCalls DEF RegistWork
  <2>. QED  BY <1>1, <1>4, <1>5, <1>7, <2>1, <2>2 DEF Notified, Lossless, Joining, Alive, RegistWork, At,
            MODE_MONITOR, MODE_WORKER
<1>8. CASE Identify(p)
  <2>1. pc[p]["main"] = "identify" /\ pc'[p]["main"] \notin {"register", "identify"} /\ mode' = mode
    BY <1>8, GotoFrame DEF Identify, Threads, At
  <2>2. p \in elect => "elect" \in watch'[p] /\ mode[p] = MODE_WORKER
    BY <1>1, <1>8, <2>1 DEF Identify, WatchedBy, WatchTable, Notified, Joining, Alive
  <2>. QED  BY <1>4, <2>1, <2>2 DEF Notified, Joining, HearsOfElect, MODE_MONITOR, MODE_WORKER
<1>9. CASE ~RegistWork(p) /\ ~Identify(p)
  <2>1. /\ pc[p]["main"] \notin {"off", "register", "identify", "crashed", "exited"}
        /\ pc'[p]["main"] \notin {"register", "identify"}
    <3>1. UNCHANGED pc \/ \E l : Goto(p, "main", l) /\ l \notin {"register", "identify"}
      BY <1>9 DEF MainStep, PREWORK, ChooseStep, ChooseList, ChooseGet, BecomeMonitor, BecomeWorker,
         Return, MonitorWork, WatchChildren, work, RecvWork, StY, CsvRecoveryFails, StG, SendFile, SetWkSt
    <3>2. pc[p]["main"] \notin {"off", "register", "identify", "crashed", "exited"}
      BY <1>9 DEF MainStep, PREWORK, ChooseStep, ChooseList, ChooseGet, BecomeMonitor, BecomeWorker,
         Return, MonitorWork, WatchChildren, work, RecvWork, StY, CsvRecoveryFails, StG, SendFile, SetWkSt, At
    <3>. QED  BY <3>1, <3>2, GotoFrame DEF Threads
  <2>2. p \in served' /\ mode'[p] = MODE_MONITOR => p \in served /\ mode[p] = MODE_MONITOR
    <3>1. CASE BecomeMonitor(p, "main")
      BY <1>1, <3>1 DEF BecomeMonitor
    <3>2. CASE BecomeWorker(p, "main")
      BY <1>1, <3>2 DEF BecomeWorker, MODE_MONITOR, MODE_WORKER
    <3>3. CASE ~BecomeMonitor(p, "main") /\ ~BecomeWorker(p, "main")
      <4>1. UNCHANGED <<served, mode>>
        BY <1>9, <3>3 DEF MainStep, PREWORK, ChooseStep, ChooseList, ChooseGet,
           MonitorWork, WatchChildren, work, RecvWork, StY, CsvRecoveryFails, StG, SendFile, SetWkSt, history
      <4>. QED  BY <4>1
    <3>. QED  BY <3>1, <3>2, <3>3
  <2>3. ASSUME NEW K \in SUBSET WatchKeys, watch' = watch \/ watch' = WatchedBy(p, K), evq' = evq,
               UNCHANGED works
        PROVE  Notified(p)'
    <3>1. Waiting(p)' = Waiting(p) /\ watch[p] \subseteq watch'[p]
      BY <2>3, OwnWatches
    <3>2. HearsOfWorks(p) => HearsOfWorks(p)'
      BY <1>5, <2>3, <3>1 DEF HearsOfWorks, Told, Children
    <3>3. HearsOfElect(p) => HearsOfElect(p)'
      BY <1>5, <3>1 DEF HearsOfElect
    <3>. QED  BY <1>1, <1>4, <2>1, <2>2, <3>2, <3>3 DEF Notified, Alive, Joining
  <2>4. CASE SetWkSt(p)
    <3>1. Lossless(p, {}) /\ Children' \subseteq Children
      BY <1>1, <2>4, LosslessCalls DEF SetWkSt, SetWork, Children, TypeOK, ZkType, CommandTable
    <3>2. HearsOfWorks(p) => HearsOfWorks(p)'
      BY <1>6, <3>1
    <3>3. ~Joining(p) /\ ~Joining(p)' /\ Alive(p)
      BY <2>1 DEF Joining, Alive
    <3>4. {} \in SUBSET Procs
      OBVIOUS
    <3>. QED  BY <1>1, <1>4, <1>5, <2>2, <3>1, <3>2, <3>3, <3>4, NotifiedKept
  <2>5. CASE ~SetWkSt(p)
    <3>1. evq' = evq /\ UNCHANGED works
      BY <1>9, <2>5 DEF MainStep, PREWORK, ChooseStep, ChooseList, ChooseGet, BecomeMonitor, BecomeWorker,
         MonitorWork, WatchChildren, work, RecvWork, StY, CsvRecoveryFails, StG, SendFile, zkVars
    <3>2. chd[p] \subseteq Procs
      BY DEF TypeOK, LocalType
    <3>3. \E K \in SUBSET WatchKeys : watch' = watch \/ watch' = WatchedBy(p, K)
      <4>1. \A r \in Procs : watch' = WatchNode(p, r) => \E K \in SUBSET WatchKeys : watch' = watch \/ watch' = WatchedBy(p, K)
        BY <1>1 DEF WatchNode
      <4>2. CASE UNCHANGED watch
        BY <4>2
      <4>3. CASE ~UNCHANGED watch
        <5>1. CASE ChooseStep(p, "main") \/ MonitorWork(p)
          BY <1>1, <4>3, <5>1 DEF ChooseStep, ChooseList, ChooseGet, BecomeMonitor, BecomeWorker,
             MonitorWork, zkVars, WatchKeys
        <5>2. CASE WatchChildren(p)
          BY <3>2, <4>1, <4>3, <5>2 DEF WatchChildren
        <5>3. CASE work(p)
          BY <2>5, <4>1, <4>3, <5>3 DEF work, RecvWork, StY, CsvRecoveryFails, StG, SendFile, zkVars
        <5>. QED  BY <1>9, <5>1, <5>2, <5>3 DEF MainStep, PREWORK
      <4>. QED  BY <4>2, <4>3
    <3>. QED  BY <2>3, <3>1, <3>3
  <2>. QED  BY <2>4, <2>5
<1>. QED  BY <1>7, <1>8, <1>9

\* The steps of thread "cb".
LEMMA CbNotified ==
    ASSUME TypeOK, ElectionInv, Sessions, Rest, NotifyInv, NEW p \in Procs, CbStep(p)
    PROVE  Notified(p)'
<1>1. /\ watch \in WatchTable /\ evq \in EventQueues /\ mode \in [Procs -> {MODE_MONITOR, MODE_WORKER}]
      /\ wks \in [Procs -> SUBSET Procs] /\ works \in CommandTable /\ curw \in [Procs -> Procs \cup {None}]
      /\ Notified(p) /\ served \subseteq Procs /\ Procs \subseteq WatchKeys
      /\ {} \in SUBSET Procs /\ {"elect", "works"} \subseteq WatchKeys
  BY DEF TypeOK, ZkType, ThreadType, LocalType, HistoryType, NotifyInv, WatchKeys
<1>2. p \in elect /\ elect' = elect /\ MainStays(p)
  BY HandlerHasSession, CbFrame
<1>3. /\ Joining(p)' <=> Joining(p)
      /\ Alive(p)' <=> Alive(p)
  BY <1>2 DEF Joining, Alive, MainStays
<1>. SUFFICES ASSUME Alive(p) PROVE Notified(p)'
  BY <1>3 DEF Notified
<1>4. ~Joining(p)
  <2>1. Joining(p) => evq[p] = <<>> /\ pc[p]["cb"] = "idle"
    BY <1>1, <1>2 DEF Notified, At
  <2>. QED  BY <2>1 DEF CbStep, Watcher, reelect, Reelect, Compare, CheckMode, ChooseStep, ChooseList, ChooseGet,
     BecomeMonitor, BecomeWorker, recover, RecoverOwn, RecoverIdle, RecoverElect, RecoverGet,
     RecoverWorks, RecoverDelete, dispatch_work, Dispatch, DispatchFile, DispatchWorker,
     DispatchAssign, DispatchStop, DispatchHalt, At
<1>5. HearsOfElect(p) /\ (p \in served /\ mode[p] = MODE_MONITOR => HearsOfWorks(p))
  BY <1>1, <1>2, <1>4 DEF Notified
<1>6. ASSUME HearsOfElect(p)', p \in served' /\ mode'[p] = MODE_MONITOR => HearsOfWorks(p)'
      PROVE  Notified(p)'
  BY <1>3, <1>4, <1>6 DEF Notified
<1>7. ASSUME NEW K \in SUBSET WatchKeys, watch' = watch \/ watch' = WatchedBy(p, K), evq' = evq,
             At(p, "cb", "reelect") => "elect" \in watch'[p],
             p \in served' /\ mode'[p] = MODE_MONITOR => p \in served /\ mode[p] = MODE_MONITOR,
             UNCHANGED works, pc[p]["cb"] # "dispatch", pc'[p]["cb"] # "dHalt",
             Looking(p) => wks[p] = {} \/ (Looking(p)' /\ wks'[p] = wks[p])
      PROVE  Notified(p)'
  <2>1. Waiting(p)' = Waiting(p) /\ watch[p] \subseteq watch'[p]
    BY <1>7, OwnWatches
  <2>2. HearsOfWorks(p) => HearsOfWorks(p)'
    BY <1>7, <2>1 DEF HearsOfWorks, Told, Children, At
  <2>3. HearsOfElect(p)'
    BY <1>5, <1>7, <2>1 DEF HearsOfElect
  <2>. QED  BY <1>5, <1>6, <1>7, <2>2, <2>3
<1>8. CASE Watcher(p)
  <2>1. /\ evq[p] # <<>> /\ evq'[p] = Tail(evq[p]) /\ UNCHANGED <<works, mode, served, wks>>
        /\ pc[p]["cb"] = "idle"
    BY <1>1, <1>8 DEF Watcher, locals, history, EventQueues, At
  <2>2. Waiting(p) = Waiting(p)' \cup {Head(evq[p])}
    BY <2>1, QueueMoves
  <2>3. watch[p] \subseteq watch'[p]
    BY <1>1, <1>8 DEF Watcher, WatchNode, WatchedBy, WatchTable
  <2>4. pc'[p]["cb"] = "idle" \/ pc'[p]["cb"] \in {"reelect", "dispatch"}
    BY <1>8, <2>1, GotoFrame DEF Watcher, Threads
  <2>5. CASE Head(evq[p]) = "elect"
    <3>1. pc'[p]["cb"] = "reelect"
      BY <1>8, <2>5, GotoFrame DEF Watcher, Threads
    <3>2. Told(p) => Told(p)'
      BY <2>1, <2>2, <2>5 DEF Told, At
    <3>3. HearsOfWorks(p) => HearsOfWorks(p)'
      BY <2>1, <2>3, <3>1, <3>2 DEF HearsOfWorks, Children, At, Looking, DispatchPcs
    <3>. QED  BY <1>5, <1>6, <2>1, <3>1, <3>3 DEF HearsOfElect, At
  <2>6. CASE Head(evq[p]) # "elect"
    <3>1. HearsOfElect(p)'
      BY <1>5, <2>1, <2>2, <2>3, <2>6 DEF HearsOfElect, At
    <3>2. mode[p] = MODE_MONITOR => pc'[p]["cb"] = "dispatch"
      BY <1>8, <2>6, GotoFrame DEF Watcher, Threads, MODE_MONITOR, MODE_WORKER
    <3>3. mode'[p] = MODE_MONITOR => HearsOfWorks(p)'
      BY <2>1, <3>2 DEF HearsOfWorks, Told, At
    <3>. QED  BY <1>6, <3>1, <3>3
  <2>. QED  BY <2>5, <2>6
<1>9. CASE reelect(p) \/ RecoverOwn(p) \/ RecoverElect(p) \/ RecoverGet(p) \/ RecoverWorks(p)
  <2>1. /\ pc[p]["cb"] \in ChoosePcs \cup {"reelect", "compare", "check"} \cup RecoverPcs
        /\ pc'[p]["cb"] \in ChoosePcs \cup {"compare", "check", "idle"} \cup RecoverPcs
    <3>1. UNCHANGED pc \/ \E l \in ChoosePcs \cup {"compare", "check", "idle"} \cup RecoverPcs : Goto(p, "cb", l)
      BY <1>9 DEF reelect, Reelect, Compare, CheckMode, ChooseStep, ChooseList, ChooseGet,
         BecomeMonitor, BecomeWorker, Return, RecoverOwn, RecoverElect, RecoverGet, RecoverWorks,
         ChoosePcs, RecoverPcs
    <3>2. pc[p]["cb"] \in ChoosePcs \cup {"reelect", "compare", "check"} \cup RecoverPcs
      BY <1>9 DEF reelect, Reelect, Compare, CheckMode, ChooseStep, ChooseList, ChooseGet,
         BecomeMonitor, BecomeWorker, RecoverOwn, RecoverElect, RecoverGet, RecoverWorks,
         ChoosePcs, RecoverPcs, At
    <3>3. pc[p]["cb"] = "reelect" => pc'[p]["cb"] = "compare"
      BY <1>9, GotoFrame DEF reelect, Reelect, Compare, CheckMode, ChooseStep, ChooseList, ChooseGet,
         BecomeMonitor, BecomeWorker, RecoverOwn, RecoverElect, RecoverGet, RecoverWorks, At, Threads
    <3>. QED  BY <3>1, <3>2, <3>3, GotoFrame DEF Threads
  <2>2. UNCHANGED works /\ evq' = evq
    BY <1>9 DEF reelect, Reelect, Compare, CheckMode, ChooseStep, ChooseList, ChooseGet,
       BecomeMonitor, BecomeWorker, RecoverOwn, RecoverElect, RecoverGet, RecoverWorks, zkVars
  <2>3. PICK K \in SUBSET WatchKeys : watch' = watch \/ watch' = WatchedBy(p, K)
    BY <1>1, <1>9 DEF reelect, Reelect, Compare, CheckMode, ChooseStep, ChooseList, ChooseGet,
       BecomeMonitor, BecomeWorker, RecoverOwn, RecoverElect, RecoverGet, RecoverWorks, zkVars,
       WatchNode, WatchKeys
  <2>4. At(p, "cb", "reelect") => "elect" \in watch'[p]
    BY <1>1, <1>9 DEF reelect, Reelect, Compare, CheckMode, ChooseStep, ChooseList, ChooseGet,
       BecomeMonitor, BecomeWorker, RecoverOwn, RecoverElect, RecoverGet, RecoverWorks, At,
       WatchedBy, WatchTable
  <2>5. p \in served' /\ mode'[p] = MODE_MONITOR => p \in served /\ mode[p] = MODE_MONITOR
    <3>1. CASE BecomeMonitor(p, "cb")
      BY <1>1, <3>1 DEF BecomeMonitor
    <3>2. CASE BecomeWorker(p, "cb")
      BY <1>1, <3>2 DEF BecomeWorker, MODE_MONITOR, MODE_WORKER
    <3>3. CASE ~BecomeMonitor(p, "cb") /\ ~BecomeWorker(p, "cb")
      <4>1. UNCHANGED <<served, mode>>
        BY <1>9, <3>3 DEF reelect, Reelect, Compare, CheckMode, ChooseStep, ChooseList, ChooseGet,
           RecoverOwn, RecoverElect, RecoverGet, RecoverWorks, history
      <4>. QED  BY <4>1
    <3>. QED  BY <3>1, <3>2, <3>3
  <2>6. pc[p]["cb"] # "dispatch" /\ pc'[p]["cb"] # "dHalt" /\ ~Looking(p)
    BY <2>1 DEF Looking, DispatchPcs, RecoverPcs, ChoosePcs
  <2>. QED  BY <1>7, <2>2, <2>3, <2>4, <2>5, <2>6
<1>10. ASSUME Lossless(p, {}), Children' \subseteq Children, UNCHANGED <<mode, served>>,
              pc[p]["cb"] \notin {"reelect", "dispatch"}, pc'[p]["cb"] # "dHalt",
              Looking(p) => Looking(p)' /\ wks'[p] = wks[p]
       PROVE  Notified(p)'
  <2>1. HearsOfElect(p)'
    BY <1>5, <1>10 DEF HearsOfElect, Lossless, At
  <2>2. HearsOfWorks(p) => HearsOfWorks(p)'
    BY <1>1, <1>10, WorksHeardKept DEF At
  <2>. QED  BY <1>5, <1>6, <1>10, <2>1, <2>2
<1>11. CASE RecoverIdle(p)
  <2>1. Lossless(p, {}) /\ Children' \subseteq Children
    BY <1>1, <1>11, LosslessCalls DEF RecoverIdle, SetWork, Children, CommandTable
  <2>2. pc[p]["cb"] = "rIdle" /\ pc'[p]["cb"] = "rElect" /\ UNCHANGED <<mode, served>>
    BY <1>11, GotoFrame DEF RecoverIdle, At, Threads, history
  <2>. QED  BY <1>10, <2>1, <2>2 DEF Looking, DispatchPcs
<1>12. CASE RecoverDelete(p)
  <2>1. PICK d \in wks[p] : DeleteWork(d)
    BY <1>12 DEF RecoverDelete
  <2>2. d \in Procs /\ {d} \in SUBSET Procs
    BY <1>1, <2>1
  <2>3. Lossless(p, {d}) /\ Children' \subseteq Children \ {d} /\ "elect" # d
    BY <1>1, <2>1, <2>2, LosslessCalls, KeysDisjoint DEF DeleteWork, Children, CommandTable
  <2>4. pc[p]["cb"] = "rDelete" /\ pc'[p]["cb"] \in {"rDelete", "idle"} /\ UNCHANGED <<mode, served>>
    BY <1>12, GotoFrame DEF RecoverDelete, At, Threads, history
  <2>5. HearsOfElect(p)'
    BY <1>5, <2>3, <2>4 DEF HearsOfElect, Lossless, At
  <2>6. HearsOfWorks(p) => HearsOfWorks(p)'
    BY <2>2, <2>3, <2>4, WorksHeardKept DEF At, Looking, DispatchPcs
  <2>. QED  BY <1>5, <1>6, <2>4, <2>5, <2>6
<1>13. CASE Dispatch(p)
  <2>1. /\ pc'[p]["cb"] = "dFile" /\ wks'[p] = Children /\ watch' = WatchedBy(p, {"works"}) /\ evq' = evq
        /\ Children' = Children /\ pc[p]["cb"] = "dispatch"
    BY <1>1, <1>13, GotoFrame DEF Dispatch, Threads, Children, At
  <2>2. Waiting(p)' = Waiting(p) /\ watch[p] \subseteq watch'[p] /\ "works" \in watch'[p]
    <3>1. {"works"} \in SUBSET WatchKeys
      BY <1>1
    <3>. QED  BY <2>1, <3>1, OwnWatches
  <2>3. HearsOfElect(p)'
    BY <1>5, <2>1, <2>2 DEF HearsOfElect, At
  <2>4. HearsOfWorks(p)'
    BY <2>1, <2>2 DEF HearsOfWorks, Looking, At, DispatchPcs
  <2>. QED  BY <1>6, <2>3, <2>4
<1>14. CASE DispatchFile(p)
  <2>1. /\ pc[p]["cb"] = "dFile" /\ pc'[p]["cb"] \in {"dFile", "dWorker", "dStop"}
        /\ UNCHANGED <<works, evq, watch, mode, served, wks>>
    BY <1>14, GotoFrame DEF DispatchFile, Threads, At, zkVars, history
  <2>. QED  BY <1>7, <1>1, <2>1 DEF Looking, DispatchPcs, At
<1>15. CASE DispatchWorker(p) \/ DispatchStop(p)
  <2>1. /\ pc[p]["cb"] \in {"dWorker", "dStop"} /\ evq' = evq
        /\ UNCHANGED <<works, mode, served>> /\ Children' = Children
    BY <1>15 DEF DispatchWorker, DispatchStop, At, history, Children
  <2>2. CASE Goto(p, "cb", "idle") /\ wks[p] = {} /\ UNCHANGED watch
    <3>1. pc'[p]["cb"] = "idle"
      BY <2>2, GotoFrame DEF Threads
    <3>. QED  BY <1>1, <1>7, <2>1, <2>2, <3>1 DEF At
  <2>3. ASSUME NEW q \in wks[p], NEW found \in {"dAssign", "dHalt"}, Look(p, q, found)
        PROVE  Notified(p)'
    <3>1. q \in Procs /\ watch' = WatchNode(p, q)
      BY <1>1, <2>3 DEF Look
    <3>2. Waiting(p)' = Waiting(p) /\ watch[p] \subseteq watch'[p] /\ (q \in Children => q \in watch'[p])
      <4>1. {q} \in SUBSET WatchKeys
        BY <1>1, <3>1
      <4>2. works[q] # NoNode => watch' = WatchedBy(p, {q})
        BY <3>1 DEF WatchNode
      <4>3. works[q] = NoNode => watch' = watch
        BY <3>1 DEF WatchNode
      <4>. QED  BY <2>1, <4>1, <4>2, <4>3, OwnWatches DEF Children
    <3>3. HearsOfElect(p)'
      BY <1>5, <2>1, <3>2 DEF HearsOfElect, At
    <3>4. /\ pc'[p]["cb"] \in {"dWorker", "dStop", "dAssign", "dHalt"}
          /\ wks[p] \ {q} \subseteq wks'[p]
          /\ pc'[p]["cb"] = "dHalt" => curw'[p] = q /\ works[q] # NoNode
      <4>1. CASE IsFree(works[q]) /\ q # p
        <5>1. pc'[p]["cb"] = found /\ curw'[p] = q /\ wks' = wks
          BY <1>1, <2>3, <4>1, GotoFrame DEF Look, Threads
        <5>. QED  BY <4>1, <5>1 DEF IsFree
      <4>2. CASE ~(IsFree(works[q]) /\ q # p)
        BY <1>1, <2>1, <2>3, <4>2 DEF Look
      <4>. QED  BY <4>1, <4>2
    <3>5. Looking(p)'
      BY <3>4 DEF Looking, DispatchPcs
    <3>6. Told(p) => Told(p)'
      BY <2>1, <3>2 DEF Told, At
    <3>7. \A r \in Children : r \in watch[p] \/ (Looking(p) /\ r \in wks[p]) => r \in watch'[p] \/ r \in wks'[p]
      BY <3>2, <3>4
    <3>8. (At(p, "cb", "dHalt") => curw[p] \in watch[p])'
      BY <3>1, <3>2, <3>4 DEF At, Children
    <3>9. HearsOfWorks(p) => HearsOfWorks(p)'
      BY <2>1, <3>2, <3>5, <3>6, <3>7, <3>8 DEF HearsOfWorks
    <3>. QED  BY <1>5, <1>6, <2>1, <3>3, <3>9
  <2>4. CASE DispatchWorker(p)
    BY <2>2, <2>3, <2>4 DEF DispatchWorker
  <2>5. CASE DispatchStop(p)
    BY <2>2, <2>3, <2>5 DEF DispatchStop
  <2>. QED  BY <1>15, <2>4, <2>5
<1>16. CASE DispatchAssign(p)
  <2>1. pc[p]["cb"] = "dAssign" /\ curw[p] \in Procs /\ SetWork(curw[p], WorkCmd(curf[p]), watch)
        /\ UNCHANGED <<mode, served, wks>> /\ pc'[p]["cb"] = "dFile"
    BY <1>16, GotoFrame DEF DispatchAssign, At, TypeOK, LocalsSet, LocalType, history, Threads
  <2>2. Lossless(p, {}) /\ Children' \subseteq Children
    BY <1>1, <2>1, LosslessCalls DEF SetWork, Children, CommandTable
  <2>. QED  BY <1>10, <2>1, <2>2 DEF Looking, DispatchPcs
<1>17. CASE DispatchHalt(p)
  <2>1. /\ pc[p]["cb"] = "dHalt" /\ curw[p] \in Procs /\ works[curw[p]] = Idle
        /\ UNCHANGED <<mode, served>> /\ pc'[p]["cb"] = "dStop" /\ wks'[p] = wks[p] \ {curw[p]}
    BY <1>1, <1>17, GotoFrame DEF DispatchHalt, At, TypeOK, LocalsSet, LocalType, history, Threads, Rest,
       CbInv, Walk
  <2>2. Trigger(curw[p], watch) /\ SetWork(curw[p], StopCmd, watch)
    BY <1>17, <2>1, Commands DEF DispatchHalt, SetWork
  <2>3. /\ Waiting(p) \subseteq Waiting(p)' /\ watch[p] \subseteq watch'[p] \cup Waiting(p)'
        /\ curw[p] \in watch[p] => curw[p] \in Waiting(p)'
    BY <1>1, <2>1, <2>2, TriggerTells
  <2>4. HearsOfElect(p)'
    BY <1>5, <2>1, <2>3 DEF HearsOfElect, At
  <2>5. HearsOfWorks(p) => Told(p)'
    BY <2>1, <2>3, KeysDisjoint DEF HearsOfWorks, Told, At
  <2>. QED  BY <1>5, <1>6, <2>1, <2>4, <2>5 DEF HearsOfWorks
<1>. QED  BY <1>8, <1>9, <1>11, <1>12, <1>13, <1>14, <1>15, <1>16, <1>17 DEF CbStep, recover, dispatch_work

\* A process that fails, or whose session ends, hears of nothing any more.
LEMMA FaultNotified ==
    ASSUME TypeOK, NEW p \in Procs, Fault(p) \/ Expire(p)
    PROVE  Notified(p)'
<1>1. CASE Crash(p)
  <2>1. pc'[p]["main"] = "crashed"
    BY <1>1, HaltType DEF Crash, TypeOK, ThreadType, MainPcs
  <2>. QED  BY <2>1 DEF Notified, Alive
<1>2. CASE LoseSession(p) \/ Expire(p)
  BY <1>2 DEF LoseSession, Expire, EndSession, Notified
<1>. QED  BY <1>1, <1>2 DEF Fault

\* Nobody is in /elect in the beginning.
LEMMA InitNotify == Init => NotifyInv
  BY DEF Init, NotifyInv, Notified

\* Every step keeps every process notified.
LEMMA NextNotify == TypeOK /\ ElectionInv /\ Sessions /\ Rest /\ NotifyInv /\ [Next]_vars => NotifyInv'
<1>. SUFFICES ASSUME TypeOK, ElectionInv, Sessions, Rest, NotifyInv, [Next]_vars
              PROVE  NotifyInv'
  OBVIOUS
<1>1. CASE Next
  <2>1. PICK p \in Procs : RegistElect(p) \/ MainStep(p) \/ CbStep(p) \/ Fault(p) \/ Expire(p)
    BY <1>1 DEF Next
  <2>2. Sessions'
    BY NextDispatch
  <2>3. Notified(p)'
    BY <2>1, <2>2, MainNotified, CbNotified, FaultNotified
  <2>4. \A q \in Procs : q # p => Notified(q)'
    BY <2>1, OthersNotified
  <2>. QED  BY <2>3, <2>4 DEF NotifyInv
<1>2. CASE UNCHANGED vars
  BY <1>2 DEF vars, zkVars, locals, history, NotifyInv, Notified, Alive, Joining, HearsOfElect, HearsOfWorks,
     Waiting, Told, Looking, At, Children
<1>. QED  BY <1>1, <1>2

\* a process that is notified watches all that MonitorStaysNotified names
LEMMA NotifiedFollows == TypeOK /\ NotifyInv => MonitorStaysNotified
<1>. SUFFICES ASSUME TypeOK, NotifyInv, NEW p \in elect \cap served,
                     mode[p] = MODE_MONITOR, At(p, "cb", "idle"), evq[p] = <<>>, Alive(p)
              PROVE  {"elect", "works"} \cup Children \subseteq watch[p]
  BY DEF MonitorStaysNotified
<1>1. p \in Procs /\ Notified(p)
  BY DEF TypeOK, ZkType, NotifyInv
<1>2. Waiting(p) = {} /\ ~Told(p) /\ ~Looking(p)
  BY DEF Waiting, Told, Looking, At, DispatchPcs
<1>3. HearsOfElect(p) /\ HearsOfWorks(p)
  BY <1>1 DEF Notified, MODE_MONITOR, MODE_WORKER
<1>4. "elect" \in watch[p]
  BY <1>2, <1>3 DEF HearsOfElect, At
<1>5. "works" \in watch[p] /\ Children \subseteq watch[p]
  BY <1>2, <1>3 DEF HearsOfWorks
<1>. QED  BY <1>4, <1>5

\* MonitorStaysNotified: no change of /elect or /works can escape a monitor
\* that has dispatched, because all its watches are set again by the time its
\* watcher callback has no event left to handle.
THEOREM MonitorNotified == Spec => []MonitorStaysNotified
  BY NotifiedFollows, InitNotify, NextNotify, DispatchAlways, PTL DEF Spec

-----------------------------------------------------------------------------
(***************************************************************************)
(* Once every process has joined.  The names in /elect only become fewer,  *)
(* so a listing of /elect is never too short: recover spares every process *)
(* with a session, although it reads their names one by one before it      *)
(* lists /works.                                                           *)
(***************************************************************************)
SparesLive(p) ==
    /\ At(p, "cb", "rGet") => elect \subseteq els[p] \cup dct[p]
    /\ At(p, "cb", "rWorks") => elect \subseteq dct[p]
    /\ At(p, "cb", "rDelete") => wks[p] \cap elect = {}

ListedInv ==
    /\ \A p \in Procs : ~At(p, "main", "off")
    /\ elect \subseteq Children
    /\ \A p \in Procs : SparesLive(p)

\* no node of a process with a session goes, and nobody joins
NoneLeft ==
    /\ elect' \subseteq elect
    /\ \A q \in elect : works[q] # NoNode => works'[q] # NoNode

\* zoo_set deletes no node.
LEMMA SetWorkLeavesNodes ==
    ASSUME TypeOK, NEW q, NEW data, NEW w, data # NoNode, SetWork(q, data, w)
    PROVE  \A r \in Procs : works[r] # NoNode => works'[r] # NoNode
<1>1. CASE works[q] = NoNode
  BY <1>1 DEF SetWork
<1>2. CASE works[q] # NoNode
  <2>1. works' = [works EXCEPT ![q] = data]
    BY <1>2 DEF SetWork
  <2>. QED  BY <2>1 DEF TypeOK, ZkType, CommandTable
<1>. QED  BY <1>1, <1>2

\* A step of thread "main" deletes no node, and no process starts.
LEMMA MainListed ==
    ASSUME TypeOK, ListedInv, NEW p \in Procs, MainStep(p)
    PROVE  NoneLeft /\ ~At(p, "main", "off")'
<1>1. elect' \subseteq elect
  BY DEF MainStep, PREWORK, RegistWork, Identify, ChooseStep, ChooseList, ChooseGet, BecomeMonitor,
     BecomeWorker, MonitorWork, WatchChildren, work, RecvWork, StY, CsvRecoveryFails, StG, SendFile,
     SetWkSt, Close, EndSession, zkVars
<1>2. \A q \in Procs : works[q] # NoNode => works'[q] # NoNode
  <2>1. CASE RegistWork(p) \/ SetWkSt(p)
    <3>1. CASE RegistWork(p)
      <4>1. works' = [works EXCEPT ![p] = Idle] \/ UNCHANGED works
        BY <3>1 DEF RegistWork, CreateWork
      <4>. QED  BY <4>1, Commands DEF TypeOK, ZkType, CommandTable
    <3>2. CASE SetWkSt(p)
      <4>1. SetWork(p, Idle, watch) \/ UNCHANGED works
        BY <3>2 DEF SetWkSt
      <4>. QED  BY <4>1, SetWorkLeavesNodes, Commands
    <3>. QED  BY <2>1, <3>1, <3>2
  <2>2. CASE ~RegistWork(p) /\ ~SetWkSt(p)
    BY <2>2 DEF MainStep, PREWORK, Identify, ChooseStep, ChooseList, ChooseGet, BecomeMonitor,
       BecomeWorker, MonitorWork, WatchChildren, work, RecvWork, StY, CsvRecoveryFails, StG, SendFile,
       Close, zkVars
  <2>. QED  BY <2>1, <2>2
<1>3. UNCHANGED pc \/ Halt(p, "exited") \/ \E l \in MainPcs \ {"off"} : Goto(p, "main", l)
  BY DEF MainStep, PREWORK, RegistWork, Identify, ChooseStep, ChooseList, ChooseGet, BecomeMonitor,
     BecomeWorker, MonitorWork, WatchChildren, work, RecvWork, StY, CsvRecoveryFails, StG, SendFile,
     SetWkSt, Close, Return, MainPcs, ChoosePcs
<1>4. ~At(p, "main", "off")'
  BY <1>3, GotoFrame, HaltType DEF ListedInv, At, Threads, TypeOK, ThreadType, MainPcs
<1>. QED  BY <1>1, <1>2, <1>4 DEF NoneLeft, TypeOK, ZkType

\* A step of thread "cb" deletes only nodes of processes without a session,
\* and what recover has listed stays enough.
LEMMA CbListed ==
    ASSUME TypeOK, ListedInv, NEW p \in Procs, CbStep(p)
    PROVE  NoneLeft /\ SparesLive(p)'
<1>1. UNCHANGED elect
  BY CbFrame
<1>2. CASE Watcher(p) \/ reelect(p) \/ dispatch_work(p) \/ RecoverOwn(p) \/ RecoverIdle(p)
  <2>1. \A q \in Procs : works[q] # NoNode => works'[q] # NoNode
    <3>1. CASE RecoverIdle(p) \/ DispatchAssign(p) \/ DispatchHalt(p)
      <4>1. \E q, data : data # NoNode /\ SetWork(q, data, watch)
        <5>1. DispatchAssign(p) => curf[p] \in Files
          BY DEF DispatchAssign, At, TypeOK, LocalsSet
        <5>. QED  BY <3>1, <5>1, Commands DEF RecoverIdle, DispatchAssign, DispatchHalt
      <4>. QED  BY <4>1, SetWorkLeavesNodes
    <3>2. CASE ~RecoverIdle(p) /\ ~DispatchAssign(p) /\ ~DispatchHalt(p)
      BY <1>2, <3>2 DEF Watcher, reelect, Reelect, Compare, CheckMode, ChooseStep, ChooseList,
         ChooseGet, BecomeMonitor, BecomeWorker, RecoverOwn, dispatch_work, Dispatch, DispatchFile,
         DispatchWorker, DispatchStop, zkVars
    <3>. QED  BY <3>1, <3>2
  <2>2. \/ UNCHANGED pc /\ pc[p]["cb"] \notin {"rGet", "rWorks", "rDelete"}
        \/ \E l : l \notin {"rGet", "rWorks", "rDelete"} /\ Goto(p, "cb", l)
    BY <1>2 DEF Watcher, reelect, Reelect, Compare, CheckMode, ChooseStep, ChooseList,
       ChooseGet, BecomeMonitor, BecomeWorker, RecoverOwn, RecoverIdle, dispatch_work, Dispatch,
       DispatchFile, DispatchWorker, DispatchStop, DispatchAssign, DispatchHalt, Look, At, Return
  <2>3. pc'[p]["cb"] \notin {"rGet", "rWorks", "rDelete"}
    BY <2>2, GotoFrame DEF Threads
  <2>. QED  BY <1>1, <2>1, <2>3 DEF NoneLeft, SparesLive, At, TypeOK, ZkType
<1>3. CASE RecoverElect(p)
  <2>1. pc'[p]["cb"] = "rGet" /\ els'[p] = elect /\ UNCHANGED works
    BY <1>3, GotoFrame DEF RecoverElect, Threads, TypeOK, LocalType
  <2>. QED  BY <1>1, <2>1 DEF NoneLeft, SparesLive, At
<1>4. CASE RecoverGet(p)
  <2>1. PICK q \in els[p] :
          /\ els' = [els EXCEPT ![p] = @ \ {q}]
          /\ dct' = [dct EXCEPT ![p] = IF q \in elect THEN @ \cup {q} ELSE @]
          /\ IF els[p] = {q} THEN Goto(p, "cb", "rWorks") ELSE UNCHANGED pc
    BY <1>4 DEF RecoverGet
  <2>2. At(p, "cb", "rGet") /\ UNCHANGED works
    BY <1>4 DEF RecoverGet, zkVars
  <2>3. /\ els'[p] = els[p] \ {q}
        /\ dct'[p] = IF q \in elect THEN dct[p] \cup {q} ELSE dct[p]
    BY <2>1 DEF TypeOK, LocalType
  <2>4. elect \subseteq els'[p] \cup dct'[p]
    BY <2>2, <2>3 DEF ListedInv, SparesLive
  <2>5. \/ pc'[p]["cb"] = "rWorks" /\ els'[p] = {}
        \/ pc'[p]["cb"] = "rGet"
    BY <2>1, <2>2, <2>3, GotoFrame DEF At, Threads
  <2>. QED  BY <1>1, <2>2, <2>4, <2>5 DEF NoneLeft, SparesLive, At
<1>5. CASE RecoverWorks(p)
  <2>1. At(p, "cb", "rWorks") /\ UNCHANGED works /\ wks'[p] = Children \ dct[p]
    BY <1>5 DEF RecoverWorks, TypeOK, LocalType
  <2>2. pc'[p]["cb"] \in {"idle", "rDelete"}
    BY <1>5, GotoFrame DEF RecoverWorks, Threads
  <2>. QED  BY <1>1, <2>1, <2>2 DEF ListedInv, NoneLeft, SparesLive, At
<1>6. CASE RecoverDelete(p)
  <2>1. PICK q \in wks[p] :
          /\ DeleteWork(q)
          /\ wks' = [wks EXCEPT ![p] = @ \ {q}]
          /\ IF wks[p] = {q} THEN Goto(p, "cb", "idle") ELSE UNCHANGED pc
    BY <1>6 DEF RecoverDelete
  <2>2. At(p, "cb", "rDelete")
    BY <1>6 DEF RecoverDelete
  <2>3. wks'[p] = wks[p] \ {q} /\ q \notin elect
    BY <2>1, <2>2 DEF ListedInv, SparesLive, TypeOK, LocalType
  <2>4. \A r \in elect : works'[r] = works[r]
    BY <2>1, <2>3 DEF DeleteWork, TypeOK, ZkType, CommandTable
  <2>5. pc'[p]["cb"] \in {"idle", "rDelete"}
    BY <2>1, <2>2, GotoFrame DEF At, Threads
  <2>. QED  BY <1>1, <2>2, <2>3, <2>4, <2>5 DEF ListedInv, NoneLeft, SparesLive, At
<1>. QED  BY <1>2, <1>3, <1>4, <1>5, <1>6 DEF CbStep, recover

\* Every step keeps the nodes of the processes with a session.
LEMMA NextListed == TypeOK /\ ListedInv /\ [Next]_vars => ListedInv'
<1>. SUFFICES ASSUME TypeOK, ListedInv, [Next]_vars PROVE ListedInv'
  OBVIOUS
<1>1. ASSUME NEW q \in Procs, NoneLeft, CbStays(q) PROVE SparesLive(q)'
  BY <1>1 DEF ListedInv, SparesLive, NoneLeft, CbStays, At
<1>2. NoneLeft => (elect \subseteq Children)'
  BY DEF ListedInv, NoneLeft, Children, TypeOK, ZkType
<1>3. CASE UNCHANGED vars
  BY <1>3 DEF ListedInv, SparesLive, Children, At, vars, zkVars, locals
<1>4. ASSUME NEW p \in Procs,
             RegistElect(p) \/ MainStep(p) \/ CbStep(p) \/ Fault(p) \/ Expire(p)
      PROVE  ListedInv'
  <2>1. ~RegistElect(p)
    BY DEF RegistElect, ListedInv
  <2>2. CASE MainStep(p) /\ ~Close(p)
    <3>1. NoneLeft /\ ~At(p, "main", "off")'
      BY <2>2, MainListed
    <3>2. (\A q \in Procs \ {p} : MainStays(q)) /\ \A q \in Procs : CbStays(q)
      BY <2>2, MainFrame DEF MainStep
    <3>3. \A q \in Procs : ~At(q, "main", "off")'
      BY <3>1, <3>2 DEF ListedInv, MainStays, At
    <3>. QED  BY <1>1, <1>2, <3>1, <3>2, <3>3 DEF ListedInv
  <2>3. CASE CbStep(p)
    <3>1. NoneLeft /\ SparesLive(p)'
      BY <2>3, CbListed
    <3>2. (\A q \in Procs : MainStays(q)) /\ \A q \in Procs \ {p} : CbStays(q)
      BY <2>3, CbFrame
    <3>3. \A q \in Procs : ~At(q, "main", "off")'
      BY <3>2 DEF ListedInv, MainStays, At
    <3>. QED  BY <1>1, <1>2, <3>1, <3>2, <3>3 DEF ListedInv
  <2>4. CASE Close(p) \/ Fault(p) \/ Expire(p)
    <3>1. NoneLeft
      BY <2>4 DEF Close, Fault, Crash, LoseSession, Expire, EndSession, NoneLeft
    <3>2. /\ \A q \in Procs : pc'[q]["main"] # "off"
          /\ \A q \in Procs \ {p} : pc'[q]["cb"] = pc[q]["cb"]
          /\ pc'[p]["cb"] \in {"idle", pc[p]["cb"]}
      <4>1. \/ Halt(p, "exited") \/ Halt(p, "crashed") \/ Goto(p, "cb", "idle") \/ UNCHANGED pc
        BY <2>4 DEF Close, Fault, Crash, LoseSession, Expire
      <4>2. CASE \E l \in {"exited", "crashed"} : Halt(p, l)
        <5>1. PICK l \in {"exited", "crashed"} : Halt(p, l)
          BY <4>2
        <5>2. /\ pc'[p]["main"] = l /\ pc'[p]["cb"] = "idle"
              /\ \A q \in Procs, u \in Threads : q # p => pc'[q][u] = pc[q][u]
          BY <5>1, HaltType DEF TypeOK, ThreadType, MainPcs
        <5>. QED  BY <5>2 DEF ListedInv, At, Threads
      <4>3. CASE Goto(p, "cb", "idle") \/ UNCHANGED pc
        BY <4>3, GotoFrame DEF ListedInv, At, Threads
      <4>. QED  BY <4>1, <4>2, <4>3
    <3>3. /\ \A q \in Procs \ {p} : els'[q] = els[q] /\ dct'[q] = dct[q] /\ wks'[q] = wks[q]
          /\ pc'[p]["cb"] # "idle" => els'[p] = els[p] /\ dct'[p] = dct[p] /\ wks'[p] = wks[p]
      <4>1. CASE Expire(p)
        BY <4>1 DEF Expire, locals
      <4>2. CASE Close(p) \/ Crash(p)
        <5>1. \E l \in {"exited", "crashed"} : Halt(p, l)
          BY <4>2 DEF Close, Crash
        <5>2. pc'[p]["cb"] = "idle"
          BY <5>1, HaltType DEF TypeOK, ThreadType, MainPcs
        <5>. QED  BY <4>2, <5>2 DEF Close, Crash, DropLocals, TypeOK, LocalType
      <4>3. CASE LoseSession(p)
        BY <4>3, GotoFrame DEF LoseSession, TypeOK, LocalType, Threads
      <4>. QED  BY <2>4, <4>1, <4>2, <4>3 DEF Fault
    <3>4. \A q \in Procs : SparesLive(q)'
      BY <3>1, <3>2, <3>3 DEF NoneLeft, ListedInv, SparesLive, At
    <3>. QED  BY <1>2, <3>1, <3>2, <3>4 DEF ListedInv, At
  <2>. QED  BY <1>4, <2>1, <2>2, <2>3, <2>4
<1>. QED  BY <1>3, <1>4 DEF Next

\* The numbers of a cluster that runs are those of an order of registration.
LEMMA NumberingExists ==
    ASSUME IsFiniteSet(Procs)
    PROVE  LET n == Numbering(Procs)
           IN  /\ Cardinality(Procs) \in Nat
               /\ n \in [Procs -> 1 .. Cardinality(Procs)]
               /\ \A p, q \in Procs : n[p] = n[q] => p = q
               /\ Procs # {} => \E p \in Procs : n[p] = 1
<1>. DEFINE n == Numbering(Procs)
            c == Cardinality(Procs)
<1>1. c \in Nat
  BY FS_CardinalityType
<1>2. /\ n \in [Procs -> 1 .. c]
      /\ \A p, q \in Procs : n[p] = n[q] => p = q
  <2>1. ExistsBijection(1 .. c, Procs)
    BY FS_CardinalityType
  <2>2. ExistsBijection(Procs, 1 .. c)
    BY <2>1, Fun_ExistsBijSymmetric
  <2>3. PICK f \in Bijection(Procs, 1 .. c) : TRUE
    BY <2>2 DEF ExistsBijection
  <2>4. /\ f \in [Procs -> 1 .. c]
        /\ \A p, q \in Procs : f[p] = f[q] => p = q
    BY <2>3 DEF Bijection, Injection, IsInjective
  <2>. QED  BY <2>4 DEF Numbering
<1>3. ASSUME Procs # {} PROVE \E p \in Procs : n[p] = 1
  <2>1. IsFiniteSet(1 .. c) /\ Cardinality(1 .. c) = c
    BY <1>1, FS_Interval
  <2>2. n \in Injection(Procs, 1 .. c)
    BY <1>2 DEF Injection, IsInjective
  <2>3. n \in Surjection(Procs, 1 .. c)
    BY <2>1, <2>2, FS_Injection
  <2>4. 1 \in 1 .. c
    BY <1>1, <1>3, FS_EmptySet
  <2>. QED  BY <2>3, <2>4 DEF Surjection
<1>. QED  BY <1>1, <1>2, <1>3

\* A cluster that runs, as ClusterUp has it, is of the right type.
LEMMA UpType == ASSUME IsFiniteSet(Procs) PROVE ClusterUp(Procs) => TypeOK
<1>. SUFFICES ASSUME ClusterUp(Procs) PROVE TypeOK
  OBVIOUS
<1>. DEFINE n == Numbering(Procs)
            m == CHOOSE p \in Procs : n[p] = 1
<1>1. Cardinality(Procs) \in Nat
  BY NumberingExists
<1>2. n \in [Procs -> 1 .. Cardinality(Procs)]
  BY NumberingExists
<1>3. ZkType
  <2>1. cversion \in Nat /\ seqno \in [Procs -> Nat] /\ elect \subseteq Procs
    BY <1>1, <1>2 DEF ClusterUp
  <2>2. works \in CommandTable /\ files \in [Files -> {"r", "y", "g"}]
    BY DEF ClusterUp, CommandTable, WorkData
  <2>3. watch \in WatchTable /\ evq \in EventQueues
    <3>1. watch = [p \in Procs |-> IF p = m THEN {"elect", "works", m} ELSE {"elect", p}]
      BY DEF ClusterUp
    <3>2. evq = [p \in Procs |-> IF p = m THEN <<"works">> ELSE <<>>]
      BY DEF ClusterUp
    <3>3. {"elect", "works"} \cup Procs = WatchKeys
      BY DEF WatchKeys
    <3>4. \A p \in Procs : IF p = m THEN {"elect", "works", m} \subseteq WatchKeys
                                    ELSE {"elect", p} \subseteq WatchKeys
      BY <3>3
    <3>5. watch \in WatchTable
      BY <3>1, <3>4 DEF WatchTable
    <3>6. <<"works">> \in Seq(WatchKeys) /\ <<>> \in Seq(WatchKeys)
      BY <3>3
    <3>7. evq \in EventQueues
      BY <3>2, <3>6 DEF EventQueues
    <3>. QED  BY <3>5, <3>7
  <2>. QED  BY <2>1, <2>2, <2>3 DEF ZkType
<1>4. ThreadType
  BY DEF ClusterUp, ThreadType, PcTable, ThreadsAt, MainPcs, CbPcs
<1>5. LocalType /\ HistoryType
  BY BoundsNat DEF ClusterUp, LocalType, HistoryType
<1>6. LocalsSet
  BY DEF ClusterUp, LocalsSet, ThreadsAt, Threads
<1>. QED  BY <1>3, <1>4, <1>5, <1>6 DEF TypeOK

\* A cluster that runs satisfies the inductive invariants: the runs that
\* begin there miss nothing that a run from the start would have ruled out.
LEMMA UpInvariants ==
    ASSUME IsFiniteSet(Procs), Procs # {}
    PROVE  ClusterUp(Procs) => ElectionInv /\ Sessions /\ Rest /\ NotifyInv
<1>. SUFFICES ASSUME ClusterUp(Procs) PROVE ElectionInv /\ Sessions /\ Rest /\ NotifyInv
  OBVIOUS
<1>. DEFINE n == Numbering(Procs)
            m == CHOOSE p \in Procs : n[p] = 1
<1>1. /\ n \in [Procs -> 1 .. Cardinality(Procs)] /\ Cardinality(Procs) \in Nat
      /\ \A p, q \in Procs : n[p] = n[q] => p = q
  BY NumberingExists
<1>2. m \in Procs /\ n[m] = 1
  <2>1. \E p \in Procs : n[p] = 1
    BY NumberingExists
  <2>. QED  BY <2>1
<1>3. /\ cversion = Cardinality(Procs) /\ elect = Procs /\ epoch = 1 /\ served = {}
      /\ \A p \in Procs : /\ seqno[p] = n[p] /\ works[p] = Idle
                          /\ pc[p]["main"] = "loop" /\ pc[p]["cb"] = "idle"
                          /\ mode[p] = IF p = m THEN MODE_MONITOR ELSE MODE_WORKER
                          /\ wks[p] = {} /\ "elect" \in watch[p]
  BY DEF ClusterUp, ThreadsAt, Threads
<1>4. ElectionInv
  <2>1. Cardinality(Procs) >= 1 /\ \A p \in Procs : 1 <= n[p] /\ n[p] <= Cardinality(Procs)
    BY <1>1, <1>2
  <2>2. Numbered
    BY <1>1, <1>3, <2>1 DEF Numbered
  <2>3. NotStarted
    BY <1>3 DEF NotStarted, At
  <2>4. \A p \in Procs : mode[p] = MODE_MONITOR => p = m
    BY <1>3 DEF MODE_MONITOR, MODE_WORKER
  <2>5. \A p \in Procs : ~Coordinating(p) /\ ~Candidate(p)
    BY <1>3 DEF Coordinating, Candidate, At, Threads, DispatchPcs, RecoverPcs
  <2>6. IsOldest(m)
    BY <1>2, <1>3, <2>1 DEF IsOldest
  <2>7. Seniority
    BY <1>3, <2>4, <2>5, <2>6 DEF Seniority
  <2>8. InOffice
    BY <1>2, <1>3, <2>4 DEF InOffice
  <2>. QED  BY <2>2, <2>3, <2>7, <2>8 DEF ElectionInv
<1>5. Sessions
  BY <1>3 DEF Sessions, Session, At
<1>6. Rest
  BY <1>3 DEF Rest, MainInv, CbInv, Walk, Walking, Spares, Passes, At, Busy, DispatchPcs
<1>7. NotifyInv
  BY <1>3 DEF NotifyInv, Notified, Joining, HearsOfElect
<1>. QED  BY <1>4, <1>5, <1>6, <1>7

\* In a cluster that every process has joined, recover takes no process with
\* a session for dead: each keeps its node of /works, by which dispatch_work
\* finds it, through every failure, reelection and recovery of the others.
THEOREM LiveWorkersStayListed == ASSUME IsFiniteSet(Procs) PROVE FullSpec => []LiveWorkerListed
<1>1. ClusterUp(Procs) => ListedInv
  <2>1. ASSUME ClusterUp(Procs), NEW p \in Procs
        PROVE  pc[p]["main"] = "loop" /\ pc[p]["cb"] = "idle"
    BY <2>1 DEF ClusterUp, ThreadsAt, Threads
  <2>2. ClusterUp(Procs) => elect \subseteq Children
    BY Commands DEF ClusterUp, Children
  <2>. QED  BY <2>1, <2>2 DEF ListedInv, SparesLive, At
<1>2. ListedInv => LiveWorkerListed
  BY DEF ListedInv, LiveWorkerListed
<1>. QED  BY <1>1, <1>2, UpType, NextType, NextListed, PTL DEF FullSpec

\* In a cluster that every process has joined, too, only the oldest process
\* with a session coordinates, no listing of dispatch_work or recover names a
\* node that has gone, no command is lost, and the monitor stays notified.
THEOREM UpAsFromTheStart ==
    ASSUME IsFiniteSet(Procs), Procs # {}
    PROVE  FullSpec => /\ [](OldestCoordinates /\ ListedNodesExist /\ MonitorStaysNotified)
                       /\ AssignmentKept
<1>1. ElectionInv => OldestCoordinates
  BY DEF ElectionInv, Seniority, OldestCoordinates
<1>2. FullSpec => [](TypeOK /\ ElectionInv /\ Sessions /\ Rest /\ NotifyInv)
  BY UpType, UpInvariants, NextType, NextElection, NextDispatch, NextNotify, PTL DEF FullSpec
<1>. QED  BY <1>1, <1>2, ListingsFollow, NotifiedFollows, StepKeepsCommands, PTL
          DEF FullSpec, AssignmentKept

=============================================================================
