---------------------------- MODULE MCRecovery ----------------------------
(***************************************************************************)
(* Recovery for TLC: every file of up to three lines out of two lines of   *)
(* the task and one of another task, with or without a newline at the end, *)
(* and files with a line that is too long for the buffers of sort_blocks,  *)
(* alone in its block or not.                                              *)
(***************************************************************************)
EXTENDS Recovery

CONSTANTS MaxLines, MaxLine

SmallFiles ==
    UNION {{f \in [1 .. n -> -MaxLine .. MaxLine] : \A i \in 1 .. n - 1 : f[i] >= 0} : n \in 0 .. MaxLines}

Long == MaxLine + 1
FilesWithLong == {<<Long>>, <<1, Long>>, <<Long, 1>>, <<1, 2, Long>>, <<1, -Long>>}

Files == SmallFiles \cup FilesWithLong
=============================================================================
