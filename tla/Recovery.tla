------------------------------ MODULE Recovery ------------------------------
(***************************************************************************)
(* The way of the lines of one task: from the CSV files of the nodes into  *)
(* blocks in redis (insert_to_redis of read_csv.cpp), out of redis again   *)
(* and through two merges into the file of the task (csv_recovery of       *)
(* re_file.cpp, which work.cpp calls).                                     *)
(*                                                                         *)
(* A line is its number, which is all that the code looks at: the number   *)
(* of a line of this task is positive, that of a last line without a       *)
(* newline negative, and 0 is a line of another task.  csv_recovery waits  *)
(* for each job of its pool before it enqueues the next, so its steps come *)
(* one after the other.  The nodes fill redis side by side, but under keys *)
(* of their own, so here they do it in turn.                               *)
(***************************************************************************)
EXTENDS Integers, Sequences, FiniteSets, Functions

CONSTANTS NODE_NUM,     \* how many nodes there are; 5 in the code
          Inputs,       \* what the CSV file of a node may hold
          LinePerInsert,\* mLinePerInsert: the lines of a full block
          LongLines,    \* the numbers of the lines of MAX_LINE_SIZE or more characters
          MaxLost,      \* bound: SET commands without a reply, or with an error
          MaxErrors     \* bound: GET commands without a reply, or with an error

Nodes == 1 .. NODE_NUM

ASSUME RecoverySizes ==
    /\ NODE_NUM \in Nat \ {0}
    /\ LinePerInsert \in Nat \ {0}
    /\ MaxLost \in Nat
    /\ MaxErrors \in Nat
ASSUME InputsType == Inputs \subseteq Seq(Int) /\ LongLines \subseteq Int

VARIABLES pc,
          file,     \* the CSV file of each node
          node,     \* the node whose turn it is
          at,       \* insert_to_redis: the line that fgets reads next
          str,      \* insert_to_redis: the block in the making
          store,    \* redis: the blocks of each node; <<>> is a key without a value
          bfile,    \* the files task<t>_<node>_<block> of the node whose turn it is
          nfile,    \* the files task<t>_<node>
          src,      \* the files that are being merged
          pos,      \* the line of each that is in buf
          out,      \* what has been written to the output of the merge
          flag,     \* line_flag: the line numbers for which it is set
          junk,     \* what line_flag held when it was allocated
          ub,       \* history: uninitialised memory has been taken for a line
          lost, errors

input == <<file, store>>
merge == <<src, pos, out>>
result == <<flag, junk>>
vars == <<pc, node, at, str, input, bfile, nfile, merge, result, ub, lost, errors>>

NoLines == <<>>

Init ==
    /\ pc = "insert"
    /\ file \in [Nodes -> Inputs]
    /\ node = 1
    /\ at = 1
    /\ str = NoLines
    /\ store = [n \in Nodes |-> <<>>]
    /\ bfile = <<>>
    /\ nfile = <<>>
    /\ src = <<>>
    /\ pos = <<>>
    /\ out = NoLines
    /\ flag = {}
    /\ junk = {}
    /\ ub = FALSE
    /\ lost = 0
    /\ errors = 0

-----------------------------------------------------------------------------
(***************************************************************************)
(* insert_to_redis, on each node.                                          *)
(***************************************************************************)

\* redis_insert of the block in the making under the next key
Set ==
    \/ store' = [store EXCEPT ![node] = Append(@, str)] /\ UNCHANGED lost
    \/ /\ lost < MaxLost
       /\ lost' = lost + 1
       /\ store' = [store EXCEPT ![node] = Append(@, NoLines)]

\* mutant: the line that finds the block full is not added to the next one
InsertLine_Skips ==
    /\ pc = "insert"
    /\ at \in DOMAIN file[node]
    /\ IF Len(str) = LinePerInsert
       THEN Set /\ str' = NoLines
       ELSE /\ str' = IF file[node][at] = 0 THEN str ELSE Append(str, file[node][at])
            /\ UNCHANGED <<store, lost>>
    /\ at' = at + 1
    /\ UNCHANGED <<pc, node, file, bfile, nfile, merge, result, ub, errors>>

\* fgets: a full block is sent first, whatever task the line is of
InsertLine ==
    /\ pc = "insert"
    /\ at \in DOMAIN file[node]
    /\ LET full == Len(str) = LinePerInsert
           kept == IF full THEN NoLines ELSE str
       IN  /\ IF full THEN Set ELSE UNCHANGED <<store, lost>>
           /\ str' = IF file[node][at] = 0 THEN kept ELSE Append(kept, file[node][at])
    /\ at' = at + 1
    /\ UNCHANGED <<pc, node, file, bfile, nfile, merge, result, ub, errors>>

\* the end of the file: what is left is sent; redis refuses a SET without a
\* value, and the reply is not looked at
InsertRest ==
    /\ pc = "insert"
    /\ at \notin DOMAIN file[node]
    /\ IF str = NoLines THEN UNCHANGED <<store, lost>> ELSE Set
    /\ str' = NoLines
    /\ at' = 1
    /\ IF node = NODE_NUM
       THEN pc' = "get" /\ node' = 1
       ELSE node' = node + 1 /\ UNCHANGED pc
    /\ UNCHANGED <<file, bfile, nfile, merge, result, ub, errors>>

-----------------------------------------------------------------------------
(***************************************************************************)
(* sort_blocks.  A get gives "" for a key without a value, and "error" if  *)
(* there is no reply, on which csv_recovery returns -1; work() calls it    *)
(* again, and again whenever it reads the command, and every file is then  *)
(* opened with "w".                                                        *)
(***************************************************************************)

\* mutant: what stands behind the last newline is taken for a line
Terminated_Any(b) == {k \in DOMAIN b : b[k] # 0}

\* the lines of b that end with a newline: the only ones find("\n") sees
Terminated(b) == {k \in DOMAIN b : b[k] > 0}

IsSorted(s) == \A i, k \in DOMAIN s : i < k => s[i] <= s[k]

\* std::sort of those lines, written to a file
Sorted(b) ==
    LET n == Cardinality(Terminated(b))
    IN  {s \in {[i \in 1 .. n |-> b[p[i]]] : p \in Bijection(1 .. n, Terminated(b))} : IsSorted(s)}

block_id == Len(bfile) + 1

\* the key exists
HasBlock == block_id \in DOMAIN store[node] /\ store[node][block_id] # NoLines

\* every line that find("\n") sees in b has its place in buf
Fits(b) == \A k \in Terminated(b) : b[k] \notin LongLines

GetBlock ==
    /\ pc = "get"
    /\ HasBlock
    /\ Terminated(store[node][block_id]) # {} /\ Fits(store[node][block_id])
    /\ \E s \in Sorted(store[node][block_id]) : bfile' = Append(bfile, s)
    /\ UNCHANGED <<pc, node, at, str, input, nfile, merge, result, ub, lost, errors>>

\* buf_vec.back() of an empty vector: what get gives is one line without a
\* newline, or the text of an error reply, which is taken for a block
GetBlockEmpty ==
    /\ pc = "get"
    /\ \/ HasBlock /\ Terminated(store[node][block_id]) = {} /\ UNCHANGED errors
       \/ errors < MaxErrors /\ errors' = errors + 1
    /\ pc' = "crashed"
    /\ UNCHANGED <<node, at, str, input, bfile, nfile, merge, result, ub, lost>>

\* strcpy of a line that is longer than buf[idx]: it is written over what new
\* keeps in front of the next buffer, on which the delete[] of that buffer
\* ends the process
GetBlockLong ==
    /\ pc = "get"
    /\ HasBlock
    /\ ~Fits(store[node][block_id])
    /\ pc' = "crashed"
    /\ UNCHANGED <<node, at, str, input, bfile, nfile, merge, result, ub, lost, errors>>

\* no reply: all over again
GetFails ==
    /\ pc = "get"
    /\ errors < MaxErrors
    /\ errors' = errors + 1
    /\ node' = 1
    /\ bfile' = <<>>
    /\ nfile' = <<>>
    /\ UNCHANGED <<pc, at, str, input, merge, result, ub, lost>>

\* the files fs are opened, their first lines read, and the output emptied
Open(fs) ==
    /\ src' = fs
    /\ pos' = [i \in DOMAIN fs |-> 1]
    /\ out' = NoLines

\* "": the loop over the blocks ends, and sort_nodes begins
GetEnds ==
    /\ pc = "get"
    /\ ~HasBlock
    /\ pc' = "merge"
    /\ Open(bfile)
    /\ UNCHANGED <<node, at, str, input, bfile, nfile, result, ub, lost, errors>>

-----------------------------------------------------------------------------
(***************************************************************************)
(* The merges of sort_nodes and sort_file: a priority queue of the lines   *)
(* in buf.                                                                 *)
(***************************************************************************)
Queue == {i \in DOMAIN src : pos[i] \in DOMAIN src[i]}
Line(i) == src[i][pos[i]]

\* pri_queue.top(), any of those with the smallest number
Top(i) == i \in Queue /\ \A k \in Queue : Line(i) <= Line(k)

\* fgets into buf[i]
Advance(i) == pos' = [pos EXCEPT ![i] = @ + 1]

MergeNode ==
    /\ pc = "merge"
    /\ \E i \in DOMAIN src : Top(i) /\ out' = Append(out, Line(i)) /\ Advance(i)
    /\ UNCHANGED <<pc, node, at, str, input, bfile, nfile, src, result, ub, lost, errors>>

\* sort_nodes returns; the next node, or sort_file, begins
NodeDone ==
    /\ pc = "merge"
    /\ Queue = {}
    /\ nfile' = Append(nfile, out)
    /\ bfile' = <<>>
    /\ IF node = NODE_NUM
       THEN pc' = "open" /\ UNCHANGED node
       ELSE pc' = "get" /\ node' = node + 1
    /\ UNCHANGED <<at, str, input, merge, result, ub, lost, errors>>

(***************************************************************************)
(* sort_file.  line_flag is not initialised: it may be set for any line.   *)
(* From an empty file fgets reads nothing, and the buf of that node is     *)
(* taken for a line as it is: whatever number it gives, or no comma, which *)
(* ends the process.                                                       *)
(***************************************************************************)
AllLines == UNION {Range(f) : f \in Inputs}
LineNos == {l \in AllLines : l > 0}

OpenNodes ==
    /\ pc = "open"
    /\ junk' \in SUBSET LineNos
    /\ flag' = junk'
    /\ \/ /\ \A n \in Nodes : nfile[n] # NoLines
          /\ pc' = "file"
          /\ Open(nfile)
          /\ UNCHANGED ub
       \/ /\ \E n \in Nodes : nfile[n] = NoLines
          /\ pc' = "file"
          /\ \E buf \in [Nodes -> LineNos] :
                Open([n \in Nodes |-> IF nfile[n] = NoLines THEN <<buf[n]>> ELSE nfile[n]])
          /\ ub' = TRUE
       \/ /\ \E n \in Nodes : nfile[n] = NoLines
          /\ pc' = "crashed"
          /\ ub' = TRUE
          /\ UNCHANGED merge
    /\ UNCHANGED <<node, at, str, input, bfile, nfile, lost, errors>>

\* mutant: no test of line_flag
MergeFile_Repeats ==
    /\ pc = "file"
    /\ \E i \in DOMAIN src :
          /\ Top(i)
          /\ out' = Append(out, Line(i))
          /\ flag' = flag \cup {Line(i)}
          /\ Advance(i)
    /\ UNCHANGED <<pc, node, at, str, input, bfile, nfile, src, junk, ub, lost, errors>>

MergeFile ==
    /\ pc = "file"
    /\ \E i \in DOMAIN src :
          /\ Top(i)
          /\ out' = IF Line(i) \in flag THEN out ELSE Append(out, Line(i))
          /\ flag' = flag \cup {Line(i)}
          /\ Advance(i)
    /\ UNCHANGED <<pc, node, at, str, input, bfile, nfile, src, junk, ub, lost, errors>>

\* sort_file returns: "done" is the return of csv_recovery.  line_flag has
\* been written one place behind its end, which delete[] may or may not notice.
FileDone ==
    /\ pc = "file"
    /\ Queue = {}
    /\ pc' \in {"done", "crashed"}
    /\ UNCHANGED <<node, at, str, input, bfile, nfile, merge, result, ub, lost, errors>>

\* the task is over for this process
Over == pc \in {"done", "crashed"} /\ UNCHANGED vars

insert_to_redis == InsertLine \/ InsertRest
sort_blocks == GetBlock \/ GetBlockEmpty \/ GetBlockLong \/ GetFails \/ GetEnds
sort_nodes == MergeNode \/ NodeDone
sort_file == OpenNodes \/ MergeFile \/ FileDone

Next == insert_to_redis \/ sort_blocks \/ sort_nodes \/ sort_file \/ Over

Spec == Init /\ [][Next]_vars

-----------------------------------------------------------------------------
(***************************************************************************)
(* Properties.                                                             *)
(***************************************************************************)
Points == {"insert", "get", "merge", "open", "file", "done", "crashed"}

\* The locals of insert_to_redis and csv_recovery, and the files; there are
\* never more node files than nodes, also when csv_recovery is called again.
TypeOK ==
    /\ pc \in Points
    /\ file \in [Nodes -> Inputs]
    /\ node \in Nodes
    /\ at \in Nat \ {0}
    /\ str \in Seq(Int)
    /\ store \in [Nodes -> Seq(Seq(Int))]
    /\ bfile \in Seq(Seq(Int))
    /\ nfile \in Seq(Seq(Int)) /\ Len(nfile) <= NODE_NUM
    /\ src \in Seq(Seq(Int))
    /\ pos \in [DOMAIN src -> Nat \ {0}]
    /\ out \in Seq(Int)
    /\ flag \subseteq Int
    /\ junk \subseteq Int
    /\ ub \in BOOLEAN
    /\ lost \in 0 .. MaxLost
    /\ errors \in 0 .. MaxErrors

\* sort_file writes the lines in increasing order, and none twice, although
\* the nodes hold them in any order, in several blocks, and more than one
\* node may hold the same line.
FileSorted ==
    pc \in {"file", "done"} =>
        \A i, k \in DOMAIN out : i < k => out[i] < out[k]

\* the lines of the task in the CSV files, without those that end a file
\* without a newline
TaskLines == {l \in UNION {Range(file[n]) : n \in Nodes} : l > 0}

\* When csv_recovery has returned 0 and redis lost no block, the file holds
\* every line of the task, apart from those for which line_flag happened to
\* be set - through full and half-full blocks, lines of other tasks between
\* them, retries after a failing get, and both merges.
NoLineLost ==
    pc = "done" /\ ~ub /\ lost = 0 => Range(out) = TaskLines \ junk

\* Whatever redis loses, nothing is made up: what is written is a line of
\* the task, as long as no uninitialised memory was taken for one.
NothingInvented == pc \in {"file", "done"} /\ ~ub => Range(out) \subseteq TaskLines
=============================================================================
