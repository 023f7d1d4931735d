---------------------------- MODULE MonitorLease ----------------------------
(***************************************************************************)
(* What the election of clust_comm.cpp promises, and nothing of how it is  *)
(* done: there is never more than one monitor, the office is free before   *)
(* it is taken, and it is taken in the order in which the processes        *)
(* registered - a process never becomes monitor after one that registered  *)
(* later has been monitor.  A holder is named by the number of its /elect  *)
(* node.                                                                   *)
(***************************************************************************)
EXTENDS Naturals

VARIABLES holders,  \* the monitors that have a session
          epoch     \* the number of the last one

Init == holders = {} /\ epoch = 0

\* the office is free, and the new monitor is no older than the last one
Grant ==
    /\ holders = {}
    /\ epoch' >= epoch
    /\ holders' = {epoch'}

\* the monitor has gone, or is no longer the monitor
Revoke ==
    /\ holders' = {}
    /\ UNCHANGED epoch

Next == Grant \/ Revoke

Spec == Init /\ [][Next]_<<holders, epoch>>
=============================================================================
