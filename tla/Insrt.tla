------------------------------- MODULE Insrt -------------------------------
(***************************************************************************)
(* The start of a node, from main() of work.cpp to the moment at which it  *)
(* registers itself in the cluster (where ClustComm begins): insrt() loads *)
(* the node's file into redis and its tasks into /files, tells the others  *)
(* through redis that it has done so and waits until every node has;       *)
(* PREWORK then makes sure that /works and /elect exist.                   *)
(*                                                                         *)
(* The pool of read_csv::load is taken at its word (see ThreadPool): its   *)
(* jobs run side by side, and load() returns when all of them have run.    *)
(* A node may die anywhere and be started again with the same number;      *)
(* redis and ZooKeeper keep what they have been given.                     *)
(***************************************************************************)
EXTENDS Naturals

CONSTANTS NumNodes,      \* the nodes are 0 .. NumNodes - 1; 5 in insrt()
          Tasks,         \* the task numbers that occur in the files of the nodes
          Blocks,        \* Blocks[n][t]: how many blocks of lines node n has of task t
          LoopNum,       \* loop_num of read_file(); 20 there
          MaxCrashes,    \* bound: crashes
          MaxFailedSets, \* bound: redis_insert and insr2clst calls that get no reply
          MaxFailedGets  \* bound: redis_select calls that get no reply

Nodes == 0 .. NumNodes - 1

ASSUME InsrtSizes == NumNodes \in Nat \ {0} /\ LoopNum \in Nat /\ Tasks \subseteq Nat
ASSUME BlocksType == Blocks \in [Nodes -> [Tasks -> Nat]]
ASSUME InsrtBounds == MaxCrashes \in Nat /\ MaxFailedSets \in Nat /\ MaxFailedGets \in Nat

VARIABLES pc,            \* where each node is
          block_idx,     \* the next block each insert_to_redis job of a node inserts
          root,          \* the node of ZooKeeper that create(), create_works() or create_elect() is about
          cur,           \* the loop counter of read_file() or of insrt()
          vec,           \* the nodes that this round of insrt() has found to be ready
          store,         \* redis: the blocks, as <<task, node, block>>
          node_status,   \* redis: the nodes whose node_status is "ok"
          roots,         \* ZooKeeper: which of /files, /works and /elect exist
          files,         \* ZooKeeper: the tasks that have a node under /files
          crashes, failedSets, failedGets

local == <<pc, block_idx, root, cur, vec>>
shared == <<store, node_status, roots, files>>
budget == <<crashes, failedSets, failedGets>>
vars == <<local, shared, budget>>

Roots == {"files", "works", "elect"}
Points == {"start", "load", "exists", "create", "register", "status", "poll", "ready"}
Keys == Tasks \X Nodes \X (Nat \ {0})

\* What insrt(), read_file() and load() keep in their locals, in redis and in
\* ZooKeeper; only tasks that there are get into /files.
TypeOK ==
    /\ pc \in [Nodes -> Points]
    /\ block_idx \in [Nodes -> [Tasks -> Nat \ {0}]]
    /\ root \in [Nodes -> Roots]
    /\ cur \in [Nodes -> Nat]
    /\ vec \in [Nodes -> SUBSET Nodes]
    /\ store \subseteq Keys
    /\ node_status \subseteq Nodes
    /\ roots \subseteq Roots
    /\ files \subseteq Tasks
    /\ crashes \in 0 .. MaxCrashes
    /\ failedSets \in 0 .. MaxFailedSets
    /\ failedGets \in 0 .. MaxFailedGets

\* Root nodes may be there from an earlier start, which may have ended
\* between any two of them.
Init ==
    /\ pc = [n \in Nodes |-> "start"]
    /\ block_idx = [n \in Nodes |-> [t \in Tasks |-> 1]]
    /\ root = [n \in Nodes |-> "files"]
    /\ cur = [n \in Nodes |-> 0]
    /\ vec = [n \in Nodes |-> {}]
    /\ store = {}
    /\ node_status = {}
    /\ roots \in {{}, {"files"}, {"files", "works"}, Roots}
    /\ files = {}
    /\ crashes = 0
    /\ failedSets = 0
    /\ failedGets = 0

Goto(n, point) == pc' = [pc EXCEPT ![n] = point]

(***************************************************************************)
(* redis_insert and redis_select.  A command without a reply is printed    *)
(* and forgotten; a get then returns "error", which is not "ok".           *)
(***************************************************************************)
RedisInsert(newStore, newStatus) ==
    \/ store' = newStore /\ node_status' = newStatus /\ UNCHANGED failedSets
    \/ /\ failedSets < MaxFailedSets
       /\ failedSets' = failedSets + 1
       /\ UNCHANGED <<store, node_status>>

\* the values that redis_select may find: is node i's status "ok"?
RedisSelect(i, ok) ==
    \/ ok = (i \in node_status) /\ UNCHANGED failedGets
    \/ /\ failedGets < MaxFailedGets
       /\ failedGets' = failedGets + 1
       /\ ok = FALSE

-----------------------------------------------------------------------------
\* isMemberOfTask after FindTotalTaskNum: the tasks in the node's file
isMemberOfTask(n) == {t \in Tasks : Blocks[n][t] > 0}

\* the loop of load()
load(n) == {t \in isMemberOfTask(n) : t < LoopNum}

\* insrt() asks whether the node has been here before
GetStatus(n) ==
    /\ pc[n] = "start"
    /\ \E ok \in BOOLEAN : RedisSelect(n, ok) /\ Goto(n, IF ok THEN "poll" ELSE "load")
    /\ UNCHANGED <<block_idx, root, cur, vec, shared, crashes, failedSets>>

\* The job of task t inserts its next block.  (If the last block is full, the
\* code ends with one more SET, which has no value and which redis refuses.)
InsertBlock(n, t) ==
    /\ pc[n] = "load"
    /\ t \in load(n)
    /\ block_idx[n][t] <= Blocks[n][t]
    /\ RedisInsert(store \cup {<<t, n, block_idx[n][t]>>}, node_status)
    /\ block_idx' = [block_idx EXCEPT ![n][t] = @ + 1]
    /\ UNCHANGED <<pc, root, cur, vec, roots, files, crashes, failedGets>>

\* the pool of load() has run every job; pre_clst() connects to ZooKeeper
LoadReturns(n) ==
    /\ pc[n] = "load"
    /\ \A t \in load(n) : block_idx[n][t] > Blocks[n][t]
    /\ Goto(n, "exists")
    /\ root' = [root EXCEPT ![n] = "files"]
    /\ UNCHANGED <<block_idx, cur, vec, shared, budget>>

-----------------------------------------------------------------------------
(***************************************************************************)
(* create(), create_works() and create_elect() are the same loop for       *)
(* another path: zoo_exists once, and zoo_create until it says ZOK.        *)
(***************************************************************************)

\* what comes after the root node is there
RootReady(n) ==
    \/ /\ root[n] = "files"
       /\ Goto(n, "register")
       /\ cur' = [cur EXCEPT ![n] = 1]
       /\ UNCHANGED root
    \/ /\ root[n] = "works"
       /\ Goto(n, "exists")
       /\ root' = [root EXCEPT ![n] = "elect"]
       /\ UNCHANGED cur
    \/ /\ root[n] = "elect"
       /\ Goto(n, "ready")
       /\ UNCHANGED <<root, cur>>

Exists(n) ==
    /\ pc[n] = "exists"
    /\ \/ root[n] \in roots /\ RootReady(n)
       \/ root[n] \notin roots /\ Goto(n, "create") /\ UNCHANGED <<root, cur>>
    /\ UNCHANGED <<block_idx, vec, shared, budget>>

\* zoo_create makes the node, or says ZNODEEXISTS, and the loop goes round
Create(n) ==
    /\ pc[n] = "create"
    /\ \/ root[n] \in roots /\ UNCHANGED <<pc, root, cur, roots>>
       \/ root[n] \notin roots /\ roots' = roots \cup {root[n]} /\ RootReady(n)
    /\ UNCHANGED <<block_idx, vec, store, node_status, files, budget>>

-----------------------------------------------------------------------------
\* the loop of read_file(): insr2clst ignores what zoo_create says, be it
\* that the node exists or that the connection was lost
Insr2clst(n) ==
    /\ pc[n] = "register"
    /\ cur[n] <= LoopNum
    /\ \/ files' = files \cup ({cur[n]} \cap isMemberOfTask(n)) /\ UNCHANGED failedSets
       \/ /\ cur[n] \in isMemberOfTask(n) /\ failedSets < MaxFailedSets
          /\ failedSets' = failedSets + 1
          /\ UNCHANGED files
    /\ cur' = [cur EXCEPT ![n] = @ + 1]
    /\ UNCHANGED <<pc, block_idx, root, vec, store, node_status, roots, crashes, failedGets>>

ReadFileReturns(n) ==
    /\ pc[n] = "register"
    /\ cur[n] > LoopNum
    /\ Goto(n, "status")
    /\ UNCHANGED <<block_idx, root, cur, vec, shared, budget>>

\* mutant: the node does not say that it is ready
SetStatus_Missing(n) ==
    /\ pc[n] = "status"
    /\ Goto(n, "poll")
    /\ cur' = [cur EXCEPT ![n] = 0]
    /\ UNCHANGED <<block_idx, root, vec, shared, budget>>

\* set node_status<n> ok
SetStatus(n) ==
    /\ pc[n] = "status"
    /\ RedisInsert(store, node_status \cup {n})
    /\ Goto(n, "poll")
    /\ cur' = [cur EXCEPT ![n] = 0]
    /\ UNCHANGED <<block_idx, root, vec, roots, files, crashes, failedGets>>

\* one turn of the for loop of insrt()
Poll(n) ==
    /\ pc[n] = "poll"
    /\ cur[n] \in Nodes
    /\ \E ok \in BOOLEAN :
          /\ RedisSelect(cur[n], ok)
          /\ vec' = [vec EXCEPT ![n] = IF ok THEN @ \cup {cur[n]} ELSE @]
    /\ cur' = [cur EXCEPT ![n] = @ + 1]
    /\ UNCHANGED <<pc, block_idx, root, shared, crashes, failedSets>>

\* mutant: one node that is ready is enough
Flag_Any(n) == vec[n] # {}

\* flag = vec[0] && ... && vec[4]
Flag(n) == vec[n] = Nodes

\* while (!flag); work() begins with create_works
PollReturns(n) ==
    /\ pc[n] = "poll"
    /\ cur[n] \notin Nodes
    /\ IF Flag(n) THEN Goto(n, "exists") /\ root' = [root EXCEPT ![n] = "works"]
       ELSE UNCHANGED <<pc, root>>
    /\ cur' = [cur EXCEPT ![n] = 0]
    /\ vec' = [vec EXCEPT ![n] = {}]
    /\ UNCHANGED <<block_idx, shared, budget>>

insrt(n) ==
    \/ GetStatus(n)
    \/ \E t \in Tasks : InsertBlock(n, t)
    \/ LoadReturns(n) \/ Exists(n) \/ Create(n)
    \/ Insr2clst(n) \/ ReadFileReturns(n) \/ SetStatus(n)
    \/ Poll(n) \/ PollReturns(n)

\* a node dies and is started again; what it had read and loaded is forgotten
Crash(n) ==
    /\ crashes < MaxCrashes
    /\ crashes' = crashes + 1
    /\ Goto(n, "start")
    /\ block_idx' = [block_idx EXCEPT ![n] = [t \in Tasks |-> 1]]
    /\ root' = [root EXCEPT ![n] = "files"]
    /\ cur' = [cur EXCEPT ![n] = 0]
    /\ vec' = [vec EXCEPT ![n] = {}]
    /\ UNCHANGED <<shared, failedSets, failedGets>>

\* every node has gone on to register itself
Started == (\A n \in Nodes : pc[n] = "ready") /\ UNCHANGED vars

Next == (\E n \in Nodes : insrt(n) \/ Crash(n)) \/ Started

Spec == Init /\ [][Next]_vars

\* the nodes run on their own machines, and none is held up for ever
Fairness == \A n \in Nodes : WF_vars(insrt(n))

FairSpec == Spec /\ Fairness

-----------------------------------------------------------------------------
(***************************************************************************)
(* What the start-up is for.                                               *)
(***************************************************************************)

\* n has left insrt(), and is about to take part in the election
Released(n) == pc[n] = "ready" \/ (pc[n] \in {"exists", "create"} /\ root[n] # "files")

\* the task numbers that both load(), 0 .. loop_num - 1, and read_file(),
\* 1 .. loop_num, reach
Covered == {t \in Tasks : 1 <= t /\ t < LoopNum}

\* Once a node has passed the barrier of insrt() (and no write was lost
\* without notice), every block that any node has of a covered task is in
\* redis and the task is under /files, whichever nodes died on the way and
\* whatever they had done by then: nobody recovers a half-loaded task.
BarrierComplete ==
    failedSets = 0 /\ (\E n \in Nodes : Released(n)) =>
        \A m \in Nodes, t \in Covered : Blocks[m][t] > 0 =>
            /\ t \in files
            /\ \A b \in 1 .. Blocks[m][t] : <<t, m, b>> \in store

\* Every node gets through the start-up: the nodes wait for each other in
\* the barrier of insrt(), and the wait ends although nodes die and restart.
NodesStart == \A n \in Nodes : <>[](pc[n] = "ready")

\* ... provided that the root nodes are there when the nodes start, and that
\* no node_status is lost.
UsedNodesStart == roots = Roots /\ [](failedSets = 0) => NodesStart
-----------------------------------------------------------------------------
(***************************************************************************)
(* The inductive invariant behind BarrierComplete: how far a node has come *)
(* says what it has put into redis and into ZooKeeper.                     *)
(***************************************************************************)
Inserted(n) == \A t \in Covered : \A b \in 1 .. Blocks[n][t] : <<t, n, b>> \in store

Registered(n) == isMemberOfTask(n) \cap Covered \subseteq files

\* a job starts with block 1, and what it has passed is stored
Loading(n) ==
    /\ pc[n] = "start" => block_idx[n] = [t \in Tasks |-> 1]
    /\ pc[n] = "load" => \A t \in Tasks : \A b \in 1 .. Blocks[n][t] :
                            b < block_idx[n][t] => <<t, n, b>> \in store

\* after load() all of it is stored, and read_file() registers task by task
Registering(n) ==
    /\ pc[n] \in {"exists", "create"} /\ root[n] = "files" => Inserted(n)
    /\ pc[n] \in {"register", "status"} => Inserted(n)
    /\ pc[n] = "register" => \A t \in isMemberOfTask(n) \cap Covered : t < cur[n] => t \in files
    /\ pc[n] = "status" => Registered(n)

\* who is told to be ready is, and stays so
Waiting(n) ==
    /\ n \in node_status => Inserted(n) /\ Registered(n)
    /\ vec[n] \subseteq node_status
    /\ Released(n) => node_status = Nodes

LoadInv == failedSets = 0 => \A n \in Nodes : Loading(n) /\ Registering(n) /\ Waiting(n)
=============================================================================
