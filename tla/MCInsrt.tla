------------------------------ MODULE MCInsrt ------------------------------
(***************************************************************************)
(* Insrt for TLC: files of the nodes in which a task is spread over        *)
(* several nodes and over several blocks of one node.                      *)
(***************************************************************************)
EXTENDS Insrt

\* task 1 is in the files of node 0, in two blocks, and of node 1, in one; the
\* other task, which is loop_num in Insrt.cfg, is in that of node 0; the
\* remaining nodes have nothing to load
SpreadBlocks == [n \in Nodes |-> [t \in Tasks |->
    IF n = 0 THEN (IF t = 1 THEN 2 ELSE 1) ELSE IF n = 1 /\ t = 1 THEN 1 ELSE 0]]
=============================================================================
