---------------------------- MODULE MCClustComm ----------------------------
(***************************************************************************)
(* ClustComm for TLC.  Processes are interchangeable, and so are tasks.    *)
(***************************************************************************)
EXTENDS ClustComm, TLC

Symmetry == Permutations(Procs) \cup Permutations(Files)

(***************************************************************************)
(* A cluster at work, to look at failures without the start-up: the        *)
(* processes in up have run PREWORK one after the other, the first one, m, *)
(* is the monitor and has not yet handled the child event of /works.       *)
(* (Reached from Init when m runs PREWORK alone and its reelect sees the   *)
(* others before they have created their /works nodes.)                    *)
(***************************************************************************)
Numbering(up) == CHOOSE n \in [up -> 1 .. Cardinality(up)] :
                    \A p, q \in up : n[p] = n[q] => p = q

ClusterUp(up) ==
    LET n == Numbering(up)
        m == CHOOSE p \in up : n[p] = 1
    IN  /\ cversion = Cardinality(up)
        /\ seqno = [p \in Procs |-> IF p \in up THEN n[p] ELSE 0]
        /\ elect = up
        /\ works = [p \in Procs |-> IF p \in up THEN Idle ELSE NoNode]
        /\ files = [f \in Files |-> "r"]
        /\ watch = [p \in Procs |-> IF p = m THEN {"elect", "works", m}
                                    ELSE IF p \in up THEN {"elect", p} ELSE {}]
        /\ evq = [p \in Procs |-> IF p = m THEN <<"works">> ELSE <<>>]
        /\ mode = [p \in Procs |-> IF p = m THEN MODE_MONITOR ELSE MODE_WORKER]
        /\ pc = [p \in Procs |-> ThreadsAt(IF p \in up THEN "loop" ELSE "off", "idle")]
        /\ cand = [p \in Procs |-> [t \in Threads |-> None]]
        /\ task = [p \in Procs |-> None]
        /\ chd = [p \in Procs |-> {}]
        /\ els = [p \in Procs |-> {}]
        /\ dct = [p \in Procs |-> {}]
        /\ fls = [p \in Procs |-> {}]
        /\ wks = [p \in Procs |-> {}]
        /\ curf = [p \in Procs |-> None]
        /\ curw = [p \in Procs |-> None]
        /\ sent = {}
        /\ served = {}
        /\ epoch = 1
        /\ faults = 0
        /\ errors = 0

\* every process has joined
FullSpec == ClusterUp(Procs) /\ [][Next]_vars
FullFairSpec == FullSpec /\ Fairness
=============================================================================
