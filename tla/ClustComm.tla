----------------------------- MODULE ClustComm -----------------------------
(***************************************************************************)
(* The cluster protocol of _zk_server/clust_comm.cpp together with the     *)
(* main loop of work.cpp that drives it.                                   *)
(*                                                                         *)
(* Every process has two threads.  "main" runs work(int): it registers     *)
(* (PREWORK) and then, as a worker, polls its /works node for a command.   *)
(* "cb" is the completion thread of the ZooKeeper client library: it runs  *)
(* zktest_watcher_g for one event at a time, and with it reelect, recover  *)
(* and dispatch_work.  A step is one call of the ZooKeeper client (or one  *)
(* assignment to g_mode, which both threads share without a lock), so the  *)
(* threads of all processes interleave between any two calls.              *)
(*                                                                         *)
(* The root nodes /elect, /works and /files exist and /files holds every   *)
(* task in state "r": insrt() ends, on every node, only after every node   *)
(* has registered its tasks.                                               *)
(***************************************************************************)
EXTENDS ZooKeeper

CONSTANTS None,         \* no process, no task
          MaxFaults,    \* bound on crashes and lost sessions
          MaxErrors     \* bound on failures of csv_recovery and of scp

VARIABLES mode,     \* g_mode
          pc,       \* where each thread of each process is
          cand,     \* choose_mater's local "master", per thread
          task,     \* work's local task_id
          chd,      \* monitor_work's local "children", not yet examined
          els,      \* reelect's local "els"; recover's local "procs"
          dct,      \* recover's local "dct"
          fls,      \* dispatch_work's local "fls", from i_fls on
          wks,      \* the local "wks" of dispatch_work (from i_wks on) or recover
          curf,     \* the file at i_fls
          curw,     \* the worker at i_wks, None when it has not been looked at
          sent,     \* history: the files scp has delivered
          served,   \* history: the processes that have begun a dispatch, a monitor
                    \* since it last took the office
          epoch,    \* history: the number of the last process made monitor
          faults, errors

locals == <<cand, chd, els, dct, fls, wks, curf, curw>>
history == <<sent, served, epoch>>
budget == <<faults, errors>>
vars == <<zkVars, mode, pc, task, locals, history, budget>>

ASSUME NoneFresh == None \notin Procs \cup Files
ASSUME BoundsNat == MaxFaults \in Nat /\ MaxErrors \in Nat

-----------------------------------------------------------------------------
(***************************************************************************)
(* What is written to a /works node, as tokens.  The last token of a work  *)
(* command is calc_dest_no's answer, which only send_file looks at.        *)
(***************************************************************************)
Idle == <<"s">>
WorkCmd(f) == <<"w", "_", f, "_", "d">>
StopCmd == <<"w", "_", "-1">>

ASSUME TokensDisjoint == Files \cap {"s", "w", "_", "d", "-1"} = {}

IsCmd(c) == c # NoNode /\ c[1] = "w"
IsFree(c) == c # NoNode /\ c[1] = "s"

\* mutant: substr starts at the first "_" instead of behind it
cmd_task_WithSeparator(c) == c[2]

\* work's parse of a command: what is between the first and the last "_", or
\* after the only one (find, rfind and a substr whose length wraps to npos)
cmd_task(c) == c[3]

\* recover's put-back: the file name is the command without its first
\* character, and zoo_set of a node that does not exist has no effect
PutBack(c) == [f \in Files |-> IF Tail(c) = <<f>> THEN "r" ELSE files[f]]

-----------------------------------------------------------------------------
Threads == {"main", "cb"}
MODE_MONITOR == "MONITOR"
MODE_WORKER == "WORKER"

ChoosePcs == {"choose", "get", "toMonitor", "toWorker"}
MainPcs == ChoosePcs \cup
    {"off", "register", "identify", "monitor_work", "watching", "loop", "got",
     "recovery", "retry", "send", "free", "stopping", "exited", "crashed"}
DispatchPcs == {"dispatch", "dFile", "dWorker", "dAssign", "dStop", "dHalt"}
RecoverPcs == {"recover", "rIdle", "rElect", "rGet", "rWorks", "rDelete"}
CbPcs == ChoosePcs \cup DispatchPcs \cup RecoverPcs \cup {"idle", "reelect", "compare", "check"}

ThreadsAt(main, cb) == [t \in Threads |-> IF t = "main" THEN main ELSE cb]
Halt(p, l) == pc' = [pc EXCEPT ![p] = ThreadsAt(l, "idle")]
Goto(p, t, l) == pc' = [pc EXCEPT ![p][t] = l]
At(p, t, l) == pc[p][t] = l

Alive(p) == pc[p]["main"] \notin {"off", "crashed", "exited"}

\* mutant: the comparison of names the other way round
Smallest_Reversed(m) == \A q \in elect : seqno[m] >= seqno[q]

\* m has the smallest name in /elect: strcmp order is number order, because
\* ZooKeeper pads the numbers with zeroes
Smallest(m) == \A q \in elect : seqno[m] <= seqno[q]

\* zoo_get with watch = 1 leaves a watch only on a node that exists
WatchNode(p, q) == IF works[q] = NoNode THEN watch ELSE WatchedBy(p, {q})

Init ==
    /\ cversion = 0
    /\ seqno = [p \in Procs |-> 0]
    /\ elect = {}
    /\ works = [p \in Procs |-> NoNode]
    /\ files = [f \in Files |-> "r"]
    /\ watch = [p \in Procs |-> {}]
    /\ evq = [p \in Procs |-> <<>>]
    /\ mode = [p \in Procs |-> MODE_WORKER]
    /\ pc = [p \in Procs |-> ThreadsAt("off", "idle")]
    /\ cand = [p \in Procs |-> [t \in Threads |-> None]]
    /\ task = [p \in Procs |-> None]
    /\ chd = [p \in Procs |-> {}]
    /\ els = [p \in Procs |-> {}]
    /\ dct = [p \in Procs |-> {}]
    /\ fls = [p \in Procs |-> {}]
    /\ wks = [p \in Procs |-> {}]
    /\ curf = [p \in Procs |-> None]
    /\ curw = [p \in Procs |-> None]
    /\ sent = {}
    /\ served = {}
    /\ epoch = 0
    /\ faults = 0
    /\ errors = 0

-----------------------------------------------------------------------------
(***************************************************************************)
(* PREWORK, in thread "main".  A process whose session has gone (it is not *)
(* in elect) gets an error from every call on zkhandle: choose_mater and   *)
(* identify leave g_mode alone, the other calls have no effect.            *)
(***************************************************************************)

\* INIT, create_works, create_elect, and regist's first zoo_create
RegistElect(p) ==
    /\ At(p, "main", "off")
    /\ CreateElect(p)
    /\ Goto(p, "main", "register")
    /\ UNCHANGED <<works, files, mode, task, locals, history, budget>>

\* regist's second zoo_create
RegistWork(p) ==
    /\ At(p, "main", "register")
    /\ IF p \in elect THEN CreateWork(p, Idle) ELSE UNCHANGED <<works, watch, evq>>
    /\ Goto(p, "main", "identify")
    /\ UNCHANGED <<cversion, seqno, elect, files, mode, task, locals, history, budget>>

\* identify's zoo_get_children: alone, or choose_mater decides
Identify(p) ==
    /\ At(p, "main", "identify")
    /\ IF p \in elect
       THEN /\ watch' = WatchedBy(p, {"elect"})
            /\ Goto(p, "main", IF elect = {p} THEN "toMonitor" ELSE "choose")
       ELSE /\ Goto(p, "main", "monitor_work")
            /\ UNCHANGED watch
    /\ UNCHANGED <<cversion, seqno, elect, works, files, evq, mode, task, locals, history, budget>>

\* where choose_mater returns to: identify's or reelect's next statement
Return(t) == IF t = "main" THEN "monitor_work" ELSE "check"

\* choose_mater: zoo_get_children and the smallest name among the answers
ChooseList(p, t) ==
    /\ At(p, t, "choose")
    /\ IF p \in elect
       THEN /\ watch' = WatchedBy(p, {"elect"})
            /\ \E m \in elect : Smallest(m) /\ cand' = [cand EXCEPT ![p][t] = m]
            /\ Goto(p, t, "get")
       ELSE /\ Goto(p, t, Return(t))
            /\ UNCHANGED <<watch, cand>>
    /\ UNCHANGED <<cversion, seqno, elect, works, files, evq, mode, task,
                   chd, els, dct, fls, wks, curf, curw, history, budget>>

\* choose_mater: zoo_get of that node; g_mode is left alone if it has gone
ChooseGet(p, t) ==
    /\ At(p, t, "get")
    /\ Goto(p, t, IF p \notin elect \/ cand[p][t] \notin elect THEN Return(t)
                  ELSE IF cand[p][t] = p THEN "toMonitor" ELSE "toWorker")
    /\ cand' = [cand EXCEPT ![p][t] = None]
    /\ UNCHANGED <<zkVars, mode, task, chd, els, dct, fls, wks, curf, curw, history, budget>>

\* identify and choose_mater: g_mode = MODE_MONITOR
BecomeMonitor(p, t) ==
    /\ At(p, t, "toMonitor")
    /\ mode' = [mode EXCEPT ![p] = MODE_MONITOR]
    /\ epoch' = IF p \in elect THEN seqno[p] ELSE epoch
    /\ served' = IF mode[p] = MODE_MONITOR THEN served ELSE served \ {p}
    /\ Goto(p, t, Return(t))
    /\ UNCHANGED <<zkVars, task, locals, sent, budget>>

\* choose_mater: g_mode = MODE_WORKER
BecomeWorker(p, t) ==
    /\ At(p, t, "toWorker")
    /\ mode' = [mode EXCEPT ![p] = MODE_WORKER]
    /\ Goto(p, t, Return(t))
    /\ UNCHANGED <<zkVars, task, locals, history, budget>>

\* monitor_work: a monitor lists /works, a worker watches its own node
MonitorWork(p) ==
    /\ At(p, "main", "monitor_work")
    /\ IF p \in elect /\ mode[p] = MODE_MONITOR
       THEN /\ watch' = WatchedBy(p, {"works"})
            /\ chd' = [chd EXCEPT ![p] = Children]
            /\ Goto(p, "main", IF Children = {} THEN "loop" ELSE "watching")
       ELSE /\ watch' = IF p \in elect THEN WatchedBy(p, {p}) ELSE watch
            /\ Goto(p, "main", "loop")
            /\ UNCHANGED chd
    /\ UNCHANGED <<cversion, seqno, elect, works, files, evq, mode, task,
                   cand, els, dct, fls, wks, curf, curw, history, budget>>

\* monitor_work: zoo_get, with a watch, of every node listed
WatchChildren(p) ==
    /\ At(p, "main", "watching")
    /\ \E q \in chd[p] :
          /\ watch' = IF p \in elect THEN WatchNode(p, q) ELSE watch
          /\ chd' = [chd EXCEPT ![p] = @ \ {q}]
          /\ IF chd[p] = {q} THEN Goto(p, "main", "loop") ELSE UNCHANGED pc
    /\ UNCHANGED <<cversion, seqno, elect, works, files, evq, mode, task,
                   cand, els, dct, fls, wks, curf, curw, history, budget>>

-----------------------------------------------------------------------------
(***************************************************************************)
(* The loop of work(int), in thread "main".                                *)
(***************************************************************************)

\* mutant: no test for -1, every answer is taken for a task
RecvWork_NoStop(p) ==
    /\ At(p, "main", "loop")
    /\ mode[p] = MODE_WORKER
    /\ p \in elect
    /\ watch' = WatchNode(p, p)
    /\ IsCmd(works[p])
    /\ task' = [task EXCEPT ![p] = cmd_task(works[p])]
    /\ Goto(p, "main", "got")
    /\ UNCHANGED <<cversion, seqno, elect, works, files, evq, mode, locals, history, budget>>

\* recv_work and the parse of its answer.  Anything but a command is
\* "cmd error": the loop goes round.
RecvWork(p) ==
    /\ At(p, "main", "loop")
    /\ mode[p] = MODE_WORKER
    /\ p \in elect
    /\ watch' = WatchNode(p, p)
    /\ IF IsCmd(works[p])
       THEN LET t == cmd_task(works[p])
            IN  IF t \in Files
                THEN /\ task' = [task EXCEPT ![p] = t]
                     /\ Goto(p, "main", "got")
                ELSE /\ Goto(p, "main", "stopping")
                     /\ UNCHANGED task
       ELSE UNCHANGED <<task, pc>>
    /\ UNCHANGED <<cversion, seqno, elect, works, files, evq, mode, locals, history, budget>>

\* pre_clst, st(task, "y"): f_zkhandle is a session of its own
StY(p) ==
    /\ At(p, "main", "got")
    /\ files' = [files EXCEPT ![task[p]] = "y"]
    /\ Goto(p, "main", "recovery")
    /\ UNCHANGED <<cversion, seqno, elect, works, watch, evq, mode, task, locals, history, budget>>

\* mutant: set_wk_st outside the test of ret
CsvRecoveryFails_Frees(p) ==
    /\ errors < MaxErrors
    /\ errors' = errors + 1
    /\ \/ /\ At(p, "main", "recovery")
          /\ Goto(p, "main", "retry")
          /\ UNCHANGED <<task, works, watch, evq>>
       \/ /\ At(p, "main", "retry")
          /\ Goto(p, "main", "loop")
          /\ task' = [task EXCEPT ![p] = None]
          /\ SetWork(p, Idle, watch)
    /\ UNCHANGED <<cversion, seqno, elect, files, mode, locals, history, faults>>

\* csv_recovery(task_id) returns -1: one more try, then fin_clst and the
\* command is read again, the file still "y"
CsvRecoveryFails(p) ==
    /\ errors < MaxErrors
    /\ errors' = errors + 1
    /\ \/ /\ At(p, "main", "recovery")
          /\ Goto(p, "main", "retry")
          /\ UNCHANGED task
       \/ /\ At(p, "main", "retry")
          /\ Goto(p, "main", "loop")
          /\ task' = [task EXCEPT ![p] = None]
    /\ UNCHANGED <<zkVars, mode, locals, history, faults>>

\* csv_recovery(task_id) returns 0: st(task, "g")
StG(p) ==
    /\ pc[p]["main"] \in {"recovery", "retry"}
    /\ files' = [files EXCEPT ![task[p]] = "g"]
    /\ Goto(p, "main", "send")
    /\ UNCHANGED <<cversion, seqno, elect, works, watch, evq, mode, task, locals, history, budget>>

\* send_file: the exit status of scp is not looked at
SendFile(p) ==
    /\ At(p, "main", "send")
    /\ Goto(p, "main", "free")
    /\ \/ /\ sent' = sent \cup {task[p]}
          /\ UNCHANGED errors
       \/ /\ errors < MaxErrors
          /\ errors' = errors + 1
          /\ UNCHANGED sent
    /\ UNCHANGED <<zkVars, mode, task, locals, served, epoch, faults>>

\* mutant: set_wk_st is not called
SetWkSt_Missing(p) ==
    /\ At(p, "main", "free")
    /\ Goto(p, "main", "loop")
    /\ task' = [task EXCEPT ![p] = None]
    /\ UNCHANGED <<zkVars, mode, locals, history, budget>>

\* set_wk_st and fin_clst
SetWkSt(p) ==
    /\ At(p, "main", "free")
    /\ IF p \in elect THEN SetWork(p, Idle, watch) ELSE UNCHANGED <<works, watch, evq>>
    /\ Goto(p, "main", "loop")
    /\ task' = [task EXCEPT ![p] = None]
    /\ UNCHANGED <<cversion, seqno, elect, files, mode, locals, history, budget>>

\* the handler of p, if one is running, is abandoned
DropLocals(p) ==
    /\ cand' = [cand EXCEPT ![p] = [t \in Threads |-> None]]
    /\ chd' = [chd EXCEPT ![p] = {}]
    /\ els' = [els EXCEPT ![p] = {}]
    /\ dct' = [dct EXCEPT ![p] = {}]
    /\ fls' = [fls EXCEPT ![p] = {}]
    /\ wks' = [wks EXCEPT ![p] = {}]
    /\ curf' = [curf EXCEPT ![p] = None]
    /\ curw' = [curw EXCEPT ![p] = None]

\* task_id = -1: "files have been recovered!", CLOSE, and the process ends.
\* ZooKeeper keeps its /works node, which holds the stop command.
Close(p) ==
    /\ At(p, "main", "stopping")
    /\ IF p \in elect THEN EndSession(p) ELSE UNCHANGED <<elect, watch, evq>>
    /\ Halt(p, "exited")
    /\ DropLocals(p)
    /\ UNCHANGED <<cversion, seqno, works, files, mode, task, history, budget>>

-----------------------------------------------------------------------------
(***************************************************************************)
(* zktest_watcher_g, in thread "cb": one event, looked at in the light of  *)
(* g_mode.  A worker's recv_work only sets the watch on its own node again *)
(* (its answer is dropped); a worker ignores child events of /works.       *)
(***************************************************************************)
Watcher(p) ==
    /\ Alive(p)
    /\ At(p, "cb", "idle")
    /\ evq[p] # <<>>
    /\ LET e == Head(evq[p])
       IN  \/ /\ e = "elect"
              /\ Goto(p, "cb", "reelect")
              /\ UNCHANGED watch
           \/ /\ e # "elect"
              /\ mode[p] = MODE_MONITOR
              /\ Goto(p, "cb", "dispatch")
              /\ UNCHANGED watch
           \/ /\ e # "elect"
              /\ mode[p] = MODE_WORKER
              /\ watch' = IF e \in Procs THEN WatchNode(p, p) ELSE watch
              /\ UNCHANGED pc
    /\ evq' = [evq EXCEPT ![p] = Tail(@)]
    /\ UNCHANGED <<cversion, seqno, elect, works, files, mode, task, locals, history, budget>>

\* reelect: zoo_get_children of /elect
Reelect(p) ==
    /\ At(p, "cb", "reelect")
    /\ watch' = WatchedBy(p, {"elect"})
    /\ els' = [els EXCEPT ![p] = elect]
    /\ Goto(p, "cb", "compare")
    /\ UNCHANGED <<cversion, seqno, elect, works, files, evq, mode, task,
                   cand, chd, dct, fls, wks, curf, curw, history, budget>>

\* mutant: a process that has gone is not a reason to elect
Compare_OnlyMore(p) ==
    /\ At(p, "cb", "compare")
    /\ watch' = WatchedBy(p, {"works"})
    /\ els' = [els EXCEPT ![p] = {}]
    /\ Goto(p, "cb", IF Cardinality(els[p]) > Cardinality(Children) THEN "choose" ELSE "idle")
    /\ UNCHANGED <<cversion, seqno, elect, works, files, evq, mode, task,
                   cand, chd, dct, fls, wks, curf, curw, history, budget>>

\* reelect: zoo_get_children of /works; equal counts mean nothing to do
Compare(p) ==
    /\ At(p, "cb", "compare")
    /\ watch' = WatchedBy(p, {"works"})
    /\ els' = [els EXCEPT ![p] = {}]
    /\ Goto(p, "cb", IF Cardinality(els[p]) # Cardinality(Children) THEN "choose" ELSE "idle")
    /\ UNCHANGED <<cversion, seqno, elect, works, files, evq, mode, task,
                   cand, chd, dct, fls, wks, curf, curw, history, budget>>

\* mutant: every process recovers
CheckMode_NoTest(p) ==
    /\ At(p, "cb", "check")
    /\ Goto(p, "cb", "recover")
    /\ UNCHANGED <<zkVars, mode, task, locals, history, budget>>

\* reelect: if (g_mode == MODE_MONITOR) recover
CheckMode(p) ==
    /\ At(p, "cb", "check")
    /\ Goto(p, "cb", IF mode[p] = MODE_MONITOR THEN "recover" ELSE "idle")
    /\ UNCHANGED <<zkVars, mode, task, locals, history, budget>>

-----------------------------------------------------------------------------
(***************************************************************************)
(* recover                                                                 *)
(***************************************************************************)

\* the new monitor's own command: its file is "put back"
RecoverOwn(p) ==
    /\ At(p, "cb", "recover")
    /\ watch' = WatchNode(p, p)
    /\ IF IsCmd(works[p])
       THEN /\ files' = PutBack(works[p])
            /\ Goto(p, "cb", "rIdle")
       ELSE /\ Goto(p, "cb", "rElect")
            /\ UNCHANGED files
    /\ UNCHANGED <<cversion, seqno, elect, works, evq, mode, task, locals, history, budget>>

\* ... and its own node is set to "s"
RecoverIdle(p) ==
    /\ At(p, "cb", "rIdle")
    /\ SetWork(p, Idle, watch)
    /\ Goto(p, "cb", "rElect")
    /\ UNCHANGED <<cversion, seqno, elect, files, mode, task, locals, history, budget>>

\* zoo_get_children of /elect
RecoverElect(p) ==
    /\ At(p, "cb", "rElect")
    /\ watch' = WatchedBy(p, {"elect"})
    /\ els' = [els EXCEPT ![p] = elect]
    /\ Goto(p, "cb", "rGet")
    /\ UNCHANGED <<cversion, seqno, elect, works, files, evq, mode, task,
                   cand, chd, dct, fls, wks, curf, curw, history, budget>>

\* mutant: the last name is not read
RecoverGet_OneLess(p) ==
    /\ At(p, "cb", "rGet")
    /\ \E q \in els[p] :
          /\ els' = [els EXCEPT ![p] = @ \ {q}]
          /\ dct' = [dct EXCEPT ![p] = IF q \in elect THEN @ \cup {q} ELSE @]
          /\ IF \E r \in els[p] : els[p] \subseteq {q, r} THEN Goto(p, "cb", "rWorks") ELSE UNCHANGED pc
    /\ UNCHANGED <<zkVars, mode, task, cand, chd, fls, wks, curf, curw, history, budget>>

\* zoo_get of each of them gives the names of the live processes
RecoverGet(p) ==
    /\ At(p, "cb", "rGet")
    /\ \E q \in els[p] :
          /\ els' = [els EXCEPT ![p] = @ \ {q}]
          /\ dct' = [dct EXCEPT ![p] = IF q \in elect THEN @ \cup {q} ELSE @]
          /\ IF els[p] = {q} THEN Goto(p, "cb", "rWorks") ELSE UNCHANGED pc
    /\ UNCHANGED <<zkVars, mode, task, cand, chd, fls, wks, curf, curw, history, budget>>

\* zoo_get_children of /works; the nodes whose process is in dct are skipped
RecoverWorks(p) ==
    /\ At(p, "cb", "rWorks")
    /\ watch' = WatchedBy(p, {"works"})
    /\ wks' = [wks EXCEPT ![p] = Children \ dct[p]]
    /\ dct' = [dct EXCEPT ![p] = {}]
    /\ Goto(p, "cb", IF Children \subseteq dct[p] THEN "idle" ELSE "rDelete")
    /\ UNCHANGED <<cversion, seqno, elect, works, files, evq, mode, task,
                   cand, chd, els, fls, curf, curw, history, budget>>

\* the others: a command's file is "put back" and the node is deleted
RecoverDelete(p) ==
    /\ At(p, "cb", "rDelete")
    /\ \E q \in wks[p] :
          /\ files' = IF IsCmd(works[q]) THEN PutBack(works[q]) ELSE files
          /\ DeleteWork(q)
          /\ wks' = [wks EXCEPT ![p] = @ \ {q}]
          /\ IF wks[p] = {q} THEN Goto(p, "cb", "idle") ELSE UNCHANGED pc
    /\ UNCHANGED <<cversion, seqno, elect, mode, task,
                   cand, chd, els, dct, fls, curf, curw, history, budget>>

-----------------------------------------------------------------------------
(***************************************************************************)
(* dispatch_work.  The order of the names zoo_get_children returns is not  *)
(* specified: it is chosen name by name as the loops reach them.  curw is  *)
(* kept after an assignment because i_wks is not incremented there, so the *)
(* next file starts by looking at the same worker again.                   *)
(***************************************************************************)

\* zoo_get_children of /files and of /works
Dispatch(p) ==
    /\ At(p, "cb", "dispatch")
    /\ watch' = WatchedBy(p, {"works"})
    /\ fls' = [fls EXCEPT ![p] = Files]
    /\ wks' = [wks EXCEPT ![p] = Children]
    /\ served' = served \cup {p}
    /\ Goto(p, "cb", "dFile")
    /\ UNCHANGED <<cversion, seqno, elect, works, files, evq, mode, task,
                   cand, chd, els, dct, curf, curw, sent, epoch, budget>>

\* mutant: looks for files in state "y"
DispatchFile_Yellow(p) ==
    /\ At(p, "cb", "dFile")
    /\ \/ /\ fls[p] = {}
          /\ Goto(p, "cb", "dStop")
          /\ UNCHANGED <<fls, curf>>
       \/ \E f \in fls[p] :
          /\ fls' = [fls EXCEPT ![p] = @ \ {f}]
          /\ IF files[f] = "y"
             THEN /\ curf' = [curf EXCEPT ![p] = f]
                  /\ Goto(p, "cb", "dWorker")
             ELSE UNCHANGED <<curf, pc>>
    /\ UNCHANGED <<zkVars, mode, task, cand, chd, els, dct, wks, curw, history, budget>>

\* the next file: only one in state "r" needs a worker
DispatchFile(p) ==
    /\ At(p, "cb", "dFile")
    /\ \/ /\ fls[p] = {}
          /\ Goto(p, "cb", "dStop")
          /\ UNCHANGED <<fls, curf>>
       \/ \E f \in fls[p] :
          /\ fls' = [fls EXCEPT ![p] = @ \ {f}]
          /\ IF files[f] = "r"
             THEN /\ curf' = [curf EXCEPT ![p] = f]
                  /\ Goto(p, "cb", "dWorker")
             ELSE UNCHANGED <<curf, pc>>
    /\ UNCHANGED <<zkVars, mode, task, cand, chd, els, dct, wks, curw, history, budget>>

\* the workers from i_wks on: the one a lookup is for
AtCursor(p) == IF curw[p] = None THEN wks[p] ELSE {curw[p]}

\* mutant: zoo_get without a watch
Look_NoWatch(p, q, found) ==
    /\ UNCHANGED watch
    /\ IF IsFree(works[q]) /\ q # p
       THEN /\ curw' = [curw EXCEPT ![p] = q]
            /\ Goto(p, "cb", found)
            /\ UNCHANGED wks
       ELSE /\ curw' = [curw EXCEPT ![p] = None]
            /\ wks' = [wks EXCEPT ![p] = @ \ {q}]
            /\ UNCHANGED pc

\* mutant: a busy worker is taken as well
Look_Busy(p, q, found) ==
    /\ watch' = WatchNode(p, q)
    /\ IF works[q] # NoNode /\ q # p
       THEN /\ curw' = [curw EXCEPT ![p] = q]
            /\ Goto(p, "cb", found)
            /\ UNCHANGED wks
       ELSE /\ curw' = [curw EXCEPT ![p] = None]
            /\ wks' = [wks EXCEPT ![p] = @ \ {q}]
            /\ UNCHANGED pc

\* zoo_get of worker q with a watch: take it, or go on to the next
Look(p, q, found) ==
    /\ watch' = WatchNode(p, q)
    /\ IF IsFree(works[q]) /\ q # p
       THEN /\ curw' = [curw EXCEPT ![p] = q]
            /\ Goto(p, "cb", found)
            /\ UNCHANGED wks
       ELSE /\ curw' = [curw EXCEPT ![p] = None]
            /\ wks' = [wks EXCEPT ![p] = @ \ {q}]
            /\ UNCHANGED pc

\* mutant: with no worker left, only the inner loop ends and i_wks restarts
DispatchWorker_Restart(p) ==
    /\ At(p, "cb", "dWorker")
    /\ \/ /\ wks[p] = {}
          /\ Goto(p, "cb", "dFile")
          /\ wks' = [wks EXCEPT ![p] = Children]
          /\ curf' = [curf EXCEPT ![p] = None]
          /\ UNCHANGED <<watch, curw, fls>>
       \/ \E q \in AtCursor(p) \cap wks[p] :
          /\ Look(p, q, "dAssign")
          /\ UNCHANGED <<fls, curf>>
    /\ UNCHANGED <<cversion, seqno, elect, works, files, evq, mode, task,
                   cand, chd, els, dct, history, budget>>

\* a worker for file curf; with none left both loops end
DispatchWorker(p) ==
    /\ At(p, "cb", "dWorker")
    /\ \/ /\ wks[p] = {}
          /\ Goto(p, "cb", "idle")
          /\ fls' = [fls EXCEPT ![p] = {}]
          /\ curf' = [curf EXCEPT ![p] = None]
          /\ UNCHANGED <<watch, curw, wks>>
       \/ \E q \in AtCursor(p) \cap wks[p] :
          /\ Look(p, q, "dAssign")
          /\ UNCHANGED <<fls, curf>>
    /\ UNCHANGED <<cversion, seqno, elect, works, files, evq, mode, task,
                   cand, chd, els, dct, history, budget>>

\* zoo_set of the work command
DispatchAssign(p) ==
    /\ At(p, "cb", "dAssign")
    /\ SetWork(curw[p], WorkCmd(curf[p]), watch)
    /\ curf' = [curf EXCEPT ![p] = None]
    /\ Goto(p, "cb", "dFile")
    /\ UNCHANGED <<cversion, seqno, elect, files, mode, task,
                   cand, chd, els, dct, fls, wks, curw, history, budget>>

\* every file has been passed: the free workers from i_wks on
DispatchStop(p) ==
    /\ At(p, "cb", "dStop")
    /\ \/ /\ wks[p] = {}
          /\ Goto(p, "cb", "idle")
          /\ UNCHANGED <<watch, curw, wks>>
       \/ \E q \in AtCursor(p) \cap wks[p] : Look(p, q, "dHalt")
    /\ UNCHANGED <<cversion, seqno, elect, works, files, evq, mode, task,
                   cand, chd, els, dct, fls, curf, history, budget>>

\* ... are told to stop
DispatchHalt(p) ==
    /\ At(p, "cb", "dHalt")
    /\ SetWork(curw[p], StopCmd, watch)
    /\ wks' = [wks EXCEPT ![p] = @ \ {curw[p]}]
    /\ curw' = [curw EXCEPT ![p] = None]
    /\ Goto(p, "cb", "dStop")
    /\ UNCHANGED <<cversion, seqno, elect, files, mode, task,
                   cand, chd, els, dct, fls, curf, history, budget>>

-----------------------------------------------------------------------------
(***************************************************************************)
(* Failures.  A crashed process stops at once; its /elect node stays until *)
(* ZooKeeper lets the session expire.  A live process can lose its session *)
(* too (30000 ms without contact): its handler then gets an error from     *)
(* every call, and so has no further effect on the cluster.                *)
(***************************************************************************)
Crash(p) ==
    /\ faults < MaxFaults
    /\ faults' = faults + 1
    /\ Alive(p)
    /\ Halt(p, "crashed")
    /\ watch' = [watch EXCEPT ![p] = {}]
    /\ evq' = [evq EXCEPT ![p] = <<>>]
    /\ task' = [task EXCEPT ![p] = None]
    /\ DropLocals(p)
    /\ UNCHANGED <<cversion, seqno, elect, works, files, mode, history, errors>>

Expire(p) ==
    /\ At(p, "main", "crashed")
    /\ p \in elect
    /\ EndSession(p)
    /\ UNCHANGED <<cversion, seqno, works, files, mode, pc, task, locals, history, budget>>

LoseSession(p) ==
    /\ faults < MaxFaults
    /\ faults' = faults + 1
    /\ Alive(p)
    /\ p \in elect
    /\ EndSession(p)
    /\ Goto(p, "cb", "idle")
    /\ cand' = [cand EXCEPT ![p]["cb"] = None]
    /\ els' = [els EXCEPT ![p] = {}]
    /\ dct' = [dct EXCEPT ![p] = {}]
    /\ fls' = [fls EXCEPT ![p] = {}]
    /\ wks' = [wks EXCEPT ![p] = {}]
    /\ curf' = [curf EXCEPT ![p] = None]
    /\ curw' = [curw EXCEPT ![p] = None]
    /\ UNCHANGED <<cversion, seqno, works, files, mode, task, chd, history, errors>>

-----------------------------------------------------------------------------
ChooseStep(p, t) ==
    ChooseList(p, t) \/ ChooseGet(p, t) \/ BecomeMonitor(p, t) \/ BecomeWorker(p, t)

PREWORK(p) ==
    \/ RegistWork(p)
    \/ Identify(p)
    \/ ChooseStep(p, "main")
    \/ MonitorWork(p)
    \/ WatchChildren(p)

work(p) ==
    \/ RecvWork(p)
    \/ StY(p)
    \/ CsvRecoveryFails(p)
    \/ StG(p)
    \/ SendFile(p)
    \/ SetWkSt(p)
    \/ Close(p)

dispatch_work(p) ==
    \/ Dispatch(p)
    \/ DispatchFile(p)
    \/ DispatchWorker(p)
    \/ DispatchAssign(p)
    \/ DispatchStop(p)
    \/ DispatchHalt(p)

recover(p) ==
    \/ RecoverOwn(p)
    \/ RecoverIdle(p)
    \/ RecoverElect(p)
    \/ RecoverGet(p)
    \/ RecoverWorks(p)
    \/ RecoverDelete(p)

reelect(p) == Reelect(p) \/ Compare(p) \/ ChooseStep(p, "cb") \/ CheckMode(p)

MainStep(p) == PREWORK(p) \/ work(p)
CbStep(p) == Watcher(p) \/ reelect(p) \/ recover(p) \/ dispatch_work(p)
Fault(p) == Crash(p) \/ LoseSession(p)

Next == \E p \in Procs :
    RegistElect(p) \/ MainStep(p) \/ CbStep(p) \/ Fault(p) \/ Expire(p)

Spec == Init /\ [][Next]_vars

(***************************************************************************)
(* Both threads of a live process keep running, and ZooKeeper expires the  *)
(* session of a dead process.  Nothing obliges a process to start or to    *)
(* fail.                                                                   *)
(***************************************************************************)
Fairness == \A p \in Procs :
    WF_vars(MainStep(p)) /\ WF_vars(CbStep(p)) /\ WF_vars(Expire(p))

FairSpec == Spec /\ Fairness

-----------------------------------------------------------------------------
(***************************************************************************)
(* Properties.                                                             *)
(***************************************************************************)
WorkData == {NoNode, Idle, StopCmd} \cup {WorkCmd(f) : f \in Files}
CommandTable == [Procs -> WorkData]
WatchTable == [Procs -> SUBSET WatchKeys]
EventQueues == [Procs -> Seq(WatchKeys)]
PcTable == [Procs -> [Threads -> MainPcs \cup CbPcs]]

\* a thread that is going to use a local has set it
LocalsSet ==
    \A p \in Procs :
        /\ pc[p]["main"] \in {"got", "recovery", "retry", "send", "free"} => task[p] \in Files
        /\ pc[p]["cb"] \in {"dWorker", "dAssign"} => curf[p] \in Files
        /\ pc[p]["cb"] \in {"dAssign", "dHalt"} => curw[p] \in wks[p] \ {p}

ZkType ==
    /\ cversion \in Nat
    /\ seqno \in [Procs -> Nat]
    /\ elect \subseteq Procs
    /\ works \in CommandTable
    /\ files \in [Files -> {"r", "y", "g"}]
    /\ watch \in WatchTable
    /\ evq \in EventQueues

ThreadType ==
    /\ mode \in [Procs -> {MODE_MONITOR, MODE_WORKER}]
    /\ pc \in PcTable
    /\ cand \in [Procs -> [Threads -> Procs \cup {None}]]
    /\ task \in [Procs -> Files \cup {None}]

LocalType ==
    /\ chd \in [Procs -> SUBSET Procs]
    /\ els \in [Procs -> SUBSET Procs]
    /\ dct \in [Procs -> SUBSET Procs]
    /\ fls \in [Procs -> SUBSET Files]
    /\ wks \in [Procs -> SUBSET Procs]
    /\ curf \in [Procs -> Files \cup {None}]
    /\ curw \in [Procs -> Procs \cup {None}]

HistoryType ==
    /\ sent \subseteq Files
    /\ served \subseteq Procs
    /\ epoch \in Nat
    /\ faults \in 0 .. MaxFaults
    /\ errors \in 0 .. MaxErrors

\* Every variable has its type, and every local is set where it is used: the
\* task of a worker, and the file and the worker of a dispatch.
TypeOK == ZkType /\ ThreadType /\ LocalType /\ HistoryType /\ LocalsSet

IsOldest(p) == \A q \in elect : seqno[p] <= seqno[q]

\* p writes the /works nodes of others, or may go on to do so
Coordinating(p) == pc[p]["cb"] \in DispatchPcs \cup RecoverPcs

\* choose_mater: only the process with the oldest live session is, or acts
\* as, the monitor - whatever events are still on their way to the others.
OldestCoordinates ==
    \A p \in elect : (mode[p] = MODE_MONITOR \/ Coordinating(p)) => IsOldest(p)

(***************************************************************************)
(* Why that is so: numbers are given out in increasing order, a process    *)
(* takes itself for the smallest only while it is, and stays the smallest  *)
(* as long as its session lives, because those that join are younger.      *)
(***************************************************************************)
Numbered ==
    /\ epoch <= cversion
    /\ \A p \in Procs : seqno[p] <= cversion
    /\ \A p \in elect : epoch <= seqno[p]
    /\ \A p, q \in elect : seqno[p] = seqno[q] => p = q

NotStarted == \A p \in Procs : At(p, "main", "off") =>
    p \notin elect /\ mode[p] = MODE_WORKER /\ At(p, "cb", "idle")

\* a thread of p has found, or is about to find, that p is the smallest
Candidate(p) == \E t \in Threads :
    At(p, t, "toMonitor") \/ (At(p, t, "get") /\ cand[p][t] = p)

Seniority ==
    \A p \in elect :
        (mode[p] = MODE_MONITOR \/ Coordinating(p) \/ Candidate(p)) => IsOldest(p)

InOffice == \A p \in elect : mode[p] = MODE_MONITOR => epoch = seqno[p]

ElectionInv == Numbered /\ NotStarted /\ Seniority /\ InOffice

\* The election implements MonitorLease: at most one process with a session
\* is monitor, and the monitors follow each other in order of registration.
Lease == INSTANCE MonitorLease WITH
    holders <- {seqno[p] : p \in {q \in elect : mode[q] = MODE_MONITOR}}
LeaseSpec == Lease!Spec

\* dispatch_work and recover walk through a listing of /works, and
\* dispatch_work trusts wk_st after a zoo_get whose result it does not look
\* at: every node still to be visited exists when it is visited, although
\* nodes are deleted by other processes' recover.
ListedNodesExist ==
    \A p \in elect : pc[p]["cb"] \in DispatchPcs \cup {"rDelete"} => wks[p] \subseteq Children

\* A command is not lost to another one: the work command of a live process
\* only gives way to "s", either when that process has done that very task,
\* or when the process is the new monitor.  A node that goes is one of a
\* process without a session.
AssignmentKept ==
    [][\A q \in Procs, f \in Files :
          works[q] = WorkCmd(f) /\ works'[q] # works[q] =>
             \/ /\ works'[q] = Idle
                /\ (At(q, "main", "free") /\ task[q] = f) \/ At(q, "cb", "rIdle")
             \/ works'[q] = NoNode /\ q \notin elect]_vars

\* dispatch_work tells a worker to stop only when no task is left over:
\* every task still in state "r" is in the command of some process.
StopOnlyWhenAllAssigned ==
    [][\A q \in Procs : works[q] # StopCmd /\ works'[q] = StopCmd =>
          \A f \in Files : files[f] = "r" => \E r \in Procs : works[r] = WorkCmd(f)]_vars

\* Watches are one-shot and every dispatch has to set them again: a monitor
\* that has dispatched since it took the office and has no event to handle
\* watches /elect, /works and every node of /works, so no change can escape it.
MonitorStaysNotified ==
    \A p \in elect \cap served :
        mode[p] = MODE_MONITOR /\ At(p, "cb", "idle") /\ evq[p] = <<>> /\ Alive(p)
            => {"elect", "works"} \cup Children \subseteq watch[p]

\* A task in progress is somebody's: a file in state "y" is the task of a
\* process, or the command of a process, which will read it again.
InProgressHasWorker ==
    \A f \in Files : files[f] = "y" =>
        \E q \in Procs : works[q] = WorkCmd(f) \/ task[q] = f

\* ... and as long as no process has failed that is so, through every failure
\* and retry of csv_recovery and every join and recovery in between.
NoTaskDropped == faults = 0 => InProgressHasWorker

AllDone == \A f \in Files : files[f] = "g"

\* Without failures of processes or of scp, once the monitor has begun to
\* dispatch, every task is done in the end and stays done, and its file is at
\* its destination, although it counts as done before it is copied.
ServedThenDone == (served # {}) ~> [](AllDone /\ Files \subseteq sent)

\* ... and every worker is told to stop, and ends.
WorkersEnd == (served # {}) ~> \A p \in Procs : Alive(p) => mode[p] = MODE_MONITOR

\* reelect: while a process with a session runs, the office of monitor is
\* always taken again by a live process, if joins do not get in the way.
MonitorPresent == \E p \in elect : Alive(p) /\ mode[p] = MODE_MONITOR
MonitorReturns == [](\E p \in elect : Alive(p)) => []<>MonitorPresent

\* recover takes a process for dead when its name is not among those read
\* from /elect a moment ago.  Once every process has joined, a worker with a
\* session keeps its node of /works, by which dispatch_work finds it, through
\* the failures, reelections and recoveries of the others.  (A process that
\* joins between the two listings of recover does lose it.)
LiveWorkerListed ==
    \A p \in elect : At(p, "main", "loop") => p \in Children
=============================================================================
