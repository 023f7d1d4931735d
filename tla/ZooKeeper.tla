----------------------------- MODULE ZooKeeper -----------------------------
(***************************************************************************)
(* The part of the ZooKeeper service that _zk_server/clust_comm.cpp uses,  *)
(* modelled from the calls it makes (zoo_create, zoo_get, zoo_set,         *)
(* zoo_delete, zoo_get_children, zoo_exists, zookeeper_close) and from the *)
(* way its watcher callback is driven:                                     *)
(*                                                                         *)
(*   /elect/proc-N   one ephemeral, sequential node per process; it lives  *)
(*                   as long as the session of the process that made it;   *)
(*   /works/ip:pid   one persistent node per process, holding the command  *)
(*                   for that process;                                     *)
(*   /files/t        one persistent node per task, holding its state.      *)
(*                                                                         *)
(* Every call is atomic at the server.  Watches are one-shot: a change     *)
(* consumes the watch and puts one event into the queue of the client's    *)
(* completion thread, which runs the watcher callback for one event at a   *)
(* time, in order.                                                         *)
(***************************************************************************)
EXTENDS Naturals, Sequences, FiniteSets

CONSTANTS Procs,    \* the processes, named as in getlocalhost(): ip:pid
          Files     \* the tasks, named by their number

VARIABLES cversion, \* how many sequential nodes /elect has ever had
          seqno,    \* the N of the process's /elect/proc-N node, 0 before it exists
          elect,    \* the processes whose /elect node exists
          works,    \* the data of /works/<process>, NoNode when there is no such node
          files,    \* the data of /files/<task>
          watch,    \* the watches a process has set and that have not fired
          evq       \* the events waiting for the process's watcher callback

zkVars == <<cversion, seqno, elect, works, files, watch, evq>>

(***************************************************************************)
(* A watch is named by what it watches: "elect" and "works" are the child  *)
(* watches on /elect and /works, a process q is the data watch on          *)
(* /works/q.  The same name is used for the event it gives rise to.        *)
(***************************************************************************)
WatchKeys == {"elect", "works"} \cup Procs

(***************************************************************************)
(* Node data is a sequence of tokens; NoNode stands for an absent node.    *)
(***************************************************************************)
NoNode == <<>>

ASSUME KeysDisjoint == {"elect", "works"} \cap Procs = {}

\* zoo_get_children("/works")
Children == {q \in Procs : works[q] # NoNode}

\* the watch table after process p has set the watches in keys
WatchedBy(p, keys) == [watch EXCEPT ![p] = @ \cup keys]

\* event e reaches every process that watches it in table w
Trigger(e, w) ==
    /\ watch' = [q \in Procs |-> w[q] \ {e}]
    /\ evq' = [q \in Procs |-> IF e \in w[q] THEN Append(evq[q], e) ELSE evq[q]]

\* zoo_set of /works/q by a process whose watches are those of table w;
\* ZNONODE, and no effect, if the node is gone
SetWork(q, data, w) ==
    IF works[q] = NoNode
    THEN /\ watch' = w
         /\ UNCHANGED <<works, evq>>
    ELSE /\ works' = [works EXCEPT ![q] = data]
         /\ Trigger(q, w)

\* zoo_delete of /works/q.  The data watch on /works/q is consumed by a
\* ZOO_DELETED_EVENT, which the watcher callback ignores.
DeleteWork(q) ==
    /\ works' = [works EXCEPT ![q] = NoNode]
    /\ IF works[q] = NoNode
       THEN UNCHANGED <<watch, evq>>
       ELSE Trigger("works", [r \in Procs |-> watch[r] \ {q}])

\* zoo_create of the ephemeral, sequential node /elect/proc-N of p
CreateElect(p) ==
    /\ cversion' = cversion + 1
    /\ seqno' = [seqno EXCEPT ![p] = cversion + 1]
    /\ elect' = elect \cup {p}
    /\ Trigger("elect", watch)

\* zoo_create of /works/p with data "data"; an existing node is left alone
CreateWork(p, data) ==
    IF works[p] = NoNode
    THEN /\ works' = [works EXCEPT ![p] = data]
         /\ Trigger("works", watch)
    ELSE UNCHANGED <<works, watch, evq>>

\* the session of p ends: its /elect node goes, p gets no more events
EndSession(p) ==
    LET mine == [watch EXCEPT ![p] = {}]
    IN  /\ elect' = elect \ {p}
        /\ watch' = [q \in Procs |-> mine[q] \ {"elect"}]
        /\ evq' = [q \in Procs |-> IF q = p THEN <<>>
                                   ELSE IF "elect" \in mine[q]
                                   THEN Append(evq[q], "elect") ELSE evq[q]]
=============================================================================
