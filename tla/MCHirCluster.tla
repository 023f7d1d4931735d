---------------------------- MODULE MCHirCluster ----------------------------
(***************************************************************************)
(* HirCluster for TLC.                                                     *)
(***************************************************************************)
EXTENDS HirCluster

CONSTANTS a1, a2

OneOrBoth == {{1}, {1, 2}}
AllSlots == {1, 2}

\* one server has both slots, or each has one
OneOrTwo == {[s \in AllSlots |-> a1], [s \in AllSlots |-> IF s = 1 THEN a1 ELSE a2]}

\* all servers run, the one that has the first slot does not, or none does
AllOneNone == {{a1, a2}, {a2}, {}}
=============================================================================
