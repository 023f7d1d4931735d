--------------------------- MODULE RecoveryProofs ---------------------------
(***************************************************************************)
(* What csv_recovery writes, for every number of nodes, every content of   *)
(* their CSV files, every size of a block, whichever of the lines are too  *)
(* long for a buffer, and any number of failing redis commands.            *)
(*                                                                         *)
(* The argument follows a line on its way: a block holds lines of the CSV  *)
(* file it was filled from, a block file the lines of its block in order,  *)
(* and a merge has written exactly the lines it has read, none of which is *)
(* greater than one it has still to read.                                  *)
(***************************************************************************)
EXTENDS Recovery, FiniteSetTheorems, TLAPS

\* the numbers of the lines of s that end with a newline
Lines(s) == {s[k] : k \in Terminated(s)}

\* the lines in the blocks bs
Held(bs) == UNION {Lines(bs[k]) : k \in DOMAIN bs}

\* the lines of its CSV file that a node has read
Scanned == {file[node][k] : k \in {k \in Terminated(file[node]) : k < at}}

-----------------------------------------------------------------------------
(***************************************************************************)
(* The inductive invariant.                                                *)
(***************************************************************************)

\* redis holds lines of the CSV files, and all of them if no SET was lost
StoreInv ==
    /\ pc = "insert" => bfile = <<>> /\ nfile = <<>> /\ Lines(str) \subseteq Lines(file[node])
    /\ \A n \in Nodes : Held(store[n]) \subseteq Lines(file[n])
    /\ lost = 0 =>
          /\ \A n \in Nodes : \A b \in DOMAIN store[n] : store[n][b] # NoLines
          /\ \A n \in Nodes : pc # "insert" \/ n < node => Lines(file[n]) \subseteq Held(store[n])
          /\ pc = "insert" => Scanned \subseteq Held(store[node]) \cup Lines(str)

\* the block files are those of the first blocks of the node
BlocksInv ==
    /\ \A k \in DOMAIN bfile : IsSorted(bfile[k])
    /\ pc = "get" =>
          /\ Len(bfile) <= Len(store[node])
          /\ \A k \in DOMAIN bfile : Range(bfile[k]) = Lines(store[node][k])

\* the node files are those of the first nodes
NodesInv ==
    /\ pc \in {"get", "merge"} => Len(nfile) = node - 1
    /\ pc = "open" => Len(nfile) = NODE_NUM
    /\ \A n \in DOMAIN nfile :
          /\ IsSorted(nfile[n])
          /\ Range(nfile[n]) \subseteq Lines(file[n])
          /\ lost = 0 => Lines(file[n]) \subseteq Range(nfile[n])

Merging == pc \in {"merge", "file", "done"}

\* the lines to merge, and those that have been read
SrcLines == UNION {Range(src[i]) : i \in DOMAIN src}
Read == UNION {{src[i][k] : k \in {k \in DOMAIN src[i] : k < pos[i]}} : i \in DOMAIN src}

\* the files are in order, and what is written is not greater than what is
\* still to be read
OrderInv ==
    Merging =>
        /\ \A i \in DOMAIN src : IsSorted(src[i]) /\ pos[i] <= Len(src[i]) + 1
        /\ \A j \in DOMAIN out : \A i \in DOMAIN src : \A k \in DOMAIN src[i] :
              k >= pos[i] => out[j] <= src[i][k]

\* sort_nodes writes every line it has read
NodeMergeInv ==
    pc = "merge" =>
        /\ IsSorted(out) /\ Range(out) = Read
        /\ SrcLines \subseteq Lines(file[node])
        /\ lost = 0 => Lines(file[node]) \subseteq SrcLines

Increasing(s) == \A i, k \in DOMAIN s : i < k => s[i] < s[k]

\* sort_file writes every line it has read whose line_flag was not set
FileMergeInv ==
    /\ pc \in {"file", "done"} =>
          /\ Increasing(out)
          /\ flag = junk \cup Read
          /\ Range(out) = Read \ junk
          /\ ~ub => SrcLines \subseteq TaskLines
          /\ ~ub /\ lost = 0 => TaskLines \subseteq SrcLines
    /\ pc = "done" => Queue = {}

RecoveryInv == StoreInv /\ BlocksInv /\ NodesInv /\ OrderInv /\ NodeMergeInv /\ FileMergeInv

-----------------------------------------------------------------------------
(***************************************************************************)
(* Sequences of lines.                                                     *)
(***************************************************************************)

\* std::sort of a block neither loses nor makes up a line.
LEMMA SortedBlock ==
    ASSUME NEW b \in Seq(Int), NEW s \in Sorted(b)
    PROVE  s \in Seq(Int) /\ IsSorted(s) /\ Range(s) = Lines(b)
<1>. DEFINE n == Cardinality(Terminated(b))
<1>1. Terminated(b) \subseteq 1 .. Len(b) /\ \A k \in Terminated(b) : b[k] \in Int
  BY DEF Terminated
<1>2. n \in Nat
  <2>1. IsFiniteSet(1 .. Len(b))
    BY FS_Interval
  <2>2. IsFiniteSet(Terminated(b))
    BY <1>1, <2>1, FS_Subset
  <2>. QED  BY <2>2, FS_CardinalityType
<1>3. PICK p \in Bijection(1 .. n, Terminated(b)) : s = [i \in 1 .. n |-> b[p[i]]]
  BY DEF Sorted
<1>4. /\ p \in [1 .. n -> Terminated(b)]
      /\ \A k \in Terminated(b) : \E i \in 1 .. n : p[i] = k
  BY <1>3 DEF Bijection, Injection, Surjection
<1>5. IsSorted(s)
  BY DEF Sorted
<1>6. s \in [1 .. n -> Int]
  BY <1>1, <1>3, <1>4
<1>7. s \in Seq(Int) /\ DOMAIN s = 1 .. n
  BY <1>2, <1>6
<1>8. Range(s) = Lines(b)
  BY <1>3, <1>4, <1>7 DEF Range, Lines
<1>. QED  BY <1>5, <1>7, <1>8

\* What Append does to a sequence of lines.
LEMMA Appended ==
    ASSUME NEW s \in Seq(Int), NEW l \in Int
    PROVE  /\ DOMAIN s = 1 .. Len(s) /\ Len(s) \in Nat
           /\ DOMAIN Append(s, l) = DOMAIN s \cup {Len(s) + 1}
           /\ Append(s, l)[Len(s) + 1] = l
           /\ \A k \in DOMAIN s : Append(s, l)[k] = s[k]
  OBVIOUS

\* A line more in a block, in a file.
LEMMA OneLineMore ==
    ASSUME NEW s \in Seq(Int), NEW l \in Int
    PROVE  /\ Lines(Append(s, l)) = Lines(s) \cup {k \in {l} : k > 0}
           /\ Range(Append(s, l)) = Range(s) \cup {l}
           /\ Lines(NoLines) = {} /\ Range(NoLines) = {}
<1>. DEFINE t == Append(s, l)
<1>1. /\ DOMAIN t = DOMAIN s \cup {Len(s) + 1} /\ DOMAIN s = 1 .. Len(s) /\ t[Len(s) + 1] = l
      /\ \A k \in DOMAIN s : t[k] = s[k]
  BY Appended
<1>2. Range(t) = Range(s) \cup {l}
  BY <1>1 DEF Range
<1>3. Terminated(t) = Terminated(s) \cup {k \in {Len(s) + 1} : l > 0}
  BY <1>1 DEF Terminated
<1>4. Lines(t) = Lines(s) \cup {k \in {l} : k > 0}
  <2>1. CASE l > 0
    BY <1>1, <1>3, <2>1 DEF Lines, Terminated
  <2>2. CASE ~(l > 0)
    BY <1>1, <1>3, <2>2 DEF Lines, Terminated
  <2>. QED  BY <2>1, <2>2
<1>5. Lines(NoLines) = {} /\ Range(NoLines) = {}
  BY DEF Lines, Terminated, NoLines, Range
<1>. QED  BY <1>2, <1>4, <1>5

-----------------------------------------------------------------------------
(***************************************************************************)
(* Types.                                                                  *)
(***************************************************************************)

\* the lines of the CSV files are numbers
LEMMA FilesType ==
    ASSUME TypeOK
    PROVE  file \in [Nodes -> Seq(Int)] /\ LineNos \subseteq Int /\ NoLines \in Seq(Int)
           /\ Nodes \subseteq Int /\ 1 \in Nodes
<1>1. LineNos \subseteq Int
  BY InputsType DEF LineNos, AllLines, Range
<1>2. Nodes \subseteq Int /\ 1 \in Nodes
  BY RecoverySizes DEF Nodes
<1>. QED  BY <1>1, <1>2, InputsType DEF TypeOK, NoLines

\* Every variable starts with its type.
LEMMA InitType == Init => TypeOK
<1>. SUFFICES ASSUME Init PROVE TypeOK
  OBVIOUS
<1>1. <<>> \in Seq(Int) /\ <<>> \in Seq(Seq(Int)) /\ 1 \in Nodes /\ Len(<<>>) = 0
  BY RecoverySizes DEF Nodes
<1>2. src \in Seq(Seq(Int)) /\ pos \in [DOMAIN src -> Nat \ {0}]
  BY DEF Init
<1>3. store \in [Nodes -> Seq(Seq(Int))] /\ node \in Nodes /\ file \in [Nodes -> Inputs]
  BY <1>1 DEF Init
<1>4. ub \in BOOLEAN
  BY DEF Init
<1>5. pc \in Points /\ at \in Nat \ {0} /\ lost \in 0 .. MaxLost /\ errors \in 0 .. MaxErrors
  BY RecoverySizes DEF Init, Points
<1>6. /\ str \in Seq(Int) /\ out \in Seq(Int)
      /\ bfile \in Seq(Seq(Int)) /\ nfile \in Seq(Seq(Int)) /\ Len(nfile) <= NODE_NUM
      /\ flag \subseteq Int /\ junk \subseteq Int
  BY <1>1, RecoverySizes DEF Init, NoLines
<1>. QED  BY <1>2, <1>3, <1>4, <1>5, <1>6 DEF TypeOK

\* The next line of a file of the merge, and the step to the one behind it.
LEMMA NextLine ==
    ASSUME TypeOK, NEW i \in Queue
    PROVE  /\ src[i] \in Seq(Int) /\ pos[i] \in DOMAIN src[i]
           /\ Line(i) \in Int
           /\ Advance(i) => pos' \in [DOMAIN src -> Nat \ {0}]
<1>1. i \in DOMAIN src /\ pos[i] \in DOMAIN src[i]
  BY DEF Queue
<1>2. src[i] \in Seq(Int)
  BY <1>1 DEF TypeOK
<1>3. Line(i) \in Int
  BY <1>1, <1>2 DEF Line
<1>4. Advance(i) => pos' \in [DOMAIN src -> Nat \ {0}]
  BY <1>1 DEF Advance, TypeOK
<1>. QED  BY <1>1, <1>2, <1>3, <1>4

\* insert_to_redis keeps the types.
LEMMA InsertType == TypeOK /\ insert_to_redis => TypeOK'
<1>. SUFFICES ASSUME TypeOK, insert_to_redis PROVE TypeOK'
  OBVIOUS
<1>1. NoLines \in Seq(Int) /\ file \in [Nodes -> Seq(Int)] /\ node \in Nodes
  BY FilesType DEF TypeOK
<1>2. Set \/ UNCHANGED <<store, lost>> => store' \in [Nodes -> Seq(Seq(Int))] /\ lost' \in 0 .. MaxLost
  <2>1. \A b \in Seq(Int) : [store EXCEPT ![node] = Append(@, b)] \in [Nodes -> Seq(Seq(Int))]
    BY <1>1 DEF TypeOK
  <2>2. str \in Seq(Int) /\ lost \in 0 .. MaxLost /\ MaxLost \in Nat /\ store \in [Nodes -> Seq(Seq(Int))]
    BY RecoverySizes DEF TypeOK
  <2>3. CASE store' = [store EXCEPT ![node] = Append(@, str)] /\ UNCHANGED lost
    BY <2>1, <2>2, <2>3
  <2>4. CASE /\ lost < MaxLost /\ lost' = lost + 1
             /\ store' = [store EXCEPT ![node] = Append(@, NoLines)]
    BY <1>1, <2>1, <2>2, <2>4
  <2>. QED  BY <2>2, <2>3, <2>4 DEF Set
<1>3. CASE InsertLine
  <2>1. file[node][at] \in Int
    BY <1>1, <1>3 DEF InsertLine
  <2>2. str' \in Seq(Int)
    BY <1>1, <1>3, <2>1 DEF InsertLine, TypeOK
  <2>3. at' \in Nat \ {0}
    BY <1>3 DEF InsertLine, TypeOK
  <2>. QED  BY <1>2, <1>3, <2>2, <2>3 DEF InsertLine, TypeOK, input, merge, result
<1>4. CASE InsertRest
  <2>1. node' \in Nodes /\ pc' \in Points
    BY <1>4, RecoverySizes DEF InsertRest, TypeOK, Nodes, Points
  <2>2. store' \in [Nodes -> Seq(Seq(Int))] /\ lost' \in 0 .. MaxLost
    BY <1>2, <1>4 DEF InsertRest
  <2>3. str' \in Seq(Int) /\ at' \in Nat \ {0}
    BY <1>1, <1>4 DEF InsertRest
  <2>. QED  BY <1>4, <2>1, <2>2, <2>3 DEF InsertRest, TypeOK, merge, result
<1>. QED  BY <1>3, <1>4 DEF insert_to_redis

\* sort_blocks keeps the types.
LEMMA BlocksType == TypeOK /\ BlocksInv /\ NodesInv /\ sort_blocks => TypeOK'
<1>. SUFFICES ASSUME TypeOK, BlocksInv, NodesInv, sort_blocks PROVE TypeOK'
  OBVIOUS
<1>1. CASE GetBlock
  <2>1. bfile' \in Seq(Seq(Int))
    BY <1>1, SortedBlock DEF GetBlock, HasBlock, TypeOK
  <2>. QED  BY <1>1, <2>1 DEF GetBlock, TypeOK, input, merge, result
<1>2. CASE GetBlockEmpty
  BY <1>2, RecoverySizes DEF GetBlockEmpty, TypeOK, Points, input, merge, result
<1>3. CASE GetBlockLong
  BY <1>3 DEF GetBlockLong, TypeOK, Points, input, merge, result
<1>4. CASE GetFails
  BY <1>4, RecoverySizes DEF GetFails, TypeOK, Nodes, input, merge, result
<1>5. CASE GetEnds
  BY <1>5 DEF GetEnds, Open, TypeOK, Points, NoLines, input, result
<1>. QED  BY <1>1, <1>2, <1>3, <1>4, <1>5 DEF sort_blocks

\* sort_nodes keeps the types.
LEMMA NodesType == TypeOK /\ NodesInv /\ sort_nodes => TypeOK'
<1>. SUFFICES ASSUME TypeOK, NodesInv, sort_nodes PROVE TypeOK'
  OBVIOUS
<1>1. CASE MergeNode
  <2>1. PICK i \in DOMAIN src : Top(i) /\ out' = Append(out, Line(i)) /\ Advance(i)
    BY <1>1 DEF MergeNode
  <2>2. Line(i) \in Int /\ pos' \in [DOMAIN src -> Nat \ {0}]
    BY <2>1, NextLine DEF Top
  <2>3. out' \in Seq(Int)
    BY <2>1, <2>2 DEF TypeOK
  <2>. QED  BY <1>1, <2>2, <2>3 DEF MergeNode, TypeOK, input, result
<1>2. CASE NodeDone
  <2>1. Len(nfile) = node - 1 /\ node \in 1 .. NODE_NUM
    BY <1>2 DEF NodeDone, NodesInv, TypeOK, Nodes
  <2>2. nfile' \in Seq(Seq(Int)) /\ Len(nfile') <= NODE_NUM
    BY <1>2, <2>1, RecoverySizes DEF NodeDone, TypeOK
  <2>3. node' \in Nodes /\ pc' \in Points
    BY <1>2, <2>1, RecoverySizes DEF NodeDone, TypeOK, Nodes, Points
  <2>. QED  BY <1>2, <2>2, <2>3 DEF NodeDone, TypeOK, input, merge, result
<1>. QED  BY <1>1, <1>2 DEF sort_nodes

\* sort_file and the end keep the types.
LEMMA FileType == TypeOK /\ NodesInv /\ (sort_file \/ Over) => TypeOK'
<1>. SUFFICES ASSUME TypeOK, NodesInv, sort_file \/ Over PROVE TypeOK'
  OBVIOUS
<1>1. LineNos \subseteq Int
  BY FilesType
<1>2. CASE OpenNodes
  <2>1. nfile \in Seq(Seq(Int)) /\ DOMAIN nfile = Nodes /\ NODE_NUM \in Nat
    BY <1>2, RecoverySizes DEF OpenNodes, NodesInv, TypeOK, Nodes
  <2>2. \A fs \in Seq(Seq(Int)) : Open(fs) =>
           src' \in Seq(Seq(Int)) /\ pos' \in [DOMAIN src' -> Nat \ {0}] /\ out' \in Seq(Int)
    BY DEF Open, NoLines
  <2>3. \A buf \in [Nodes -> LineNos] : [n \in Nodes |-> IF nfile[n] = NoLines THEN <<buf[n]>> ELSE nfile[n]] \in Seq(Seq(Int))
    <3>1. SUFFICES ASSUME NEW buf \in [Nodes -> LineNos]
                   PROVE  [n \in Nodes |-> IF nfile[n] = NoLines THEN <<buf[n]>> ELSE nfile[n]] \in Seq(Seq(Int))
      OBVIOUS
    <3>2. [n \in Nodes |-> IF nfile[n] = NoLines THEN <<buf[n]>> ELSE nfile[n]] \in [1 .. NODE_NUM -> Seq(Int)]
      <4>1. \A n \in Nodes : nfile[n] \in Seq(Int)
        BY <2>1
      <4>2. \A n \in Nodes : buf[n] \in Int
        BY <1>1, <3>1
      <4>3. \A n \in Nodes : <<buf[n]>> \in Seq(Int)
        BY <4>2
      <4>. QED  BY <4>1, <4>3 DEF Nodes
    <3>. QED  BY <2>1, <3>2
  <2>4. src' \in Seq(Seq(Int)) /\ pos' \in [DOMAIN src' -> Nat \ {0}] /\ out' \in Seq(Int)
    <3>1. CASE Open(nfile)
      BY <2>1, <2>2, <3>1
    <3>2. CASE \E buf \in [Nodes -> LineNos] : Open([n \in Nodes |-> IF nfile[n] = NoLines THEN <<buf[n]>> ELSE nfile[n]])
      BY <2>2, <2>3, <3>2
    <3>3. CASE UNCHANGED merge
      BY <3>3 DEF merge, TypeOK
    <3>. QED  BY <1>2, <3>1, <3>2, <3>3 DEF OpenNodes
  <2>5. ub' \in BOOLEAN
    <3>1. ub' = ub \/ ub' = TRUE
      BY <1>2 DEF OpenNodes
    <3>. QED  BY <3>1 DEF TypeOK
  <2>6. flag' \subseteq Int /\ junk' \subseteq Int
    <3>1. junk' \subseteq LineNos /\ flag' = junk'
      BY <1>2 DEF OpenNodes
    <3>. QED  BY <1>1, <3>1
  <2>7. pc' \in Points /\ UNCHANGED <<node, at, str, file, store, bfile, nfile, lost, errors>>
    BY <1>2 DEF OpenNodes, Points, input
  <2>. QED  BY <2>4, <2>5, <2>6, <2>7 DEF TypeOK
<1>3. CASE MergeFile
  <2>1. PICK i \in DOMAIN src :
           /\ Top(i)
           /\ out' = IF Line(i) \in flag THEN out ELSE Append(out, Line(i))
           /\ flag' = flag \cup {Line(i)}
           /\ Advance(i)
    BY <1>3 DEF MergeFile
  <2>2. Line(i) \in Int /\ pos' \in [DOMAIN src -> Nat \ {0}]
    BY <2>1, NextLine DEF Top
  <2>3. out' \in Seq(Int) /\ flag' \subseteq Int
    <3>1. out \in Seq(Int) /\ flag \subseteq Int
      BY DEF TypeOK
    <3>2. Append(out, Line(i)) \in Seq(Int)
      BY <2>2, <3>1
    <3>3. flag' = flag \cup {Line(i)} /\ (out' = out \/ out' = Append(out, Line(i)))
      BY <2>1
    <3>. QED  BY <2>2, <3>1, <3>2, <3>3
  <2>. QED  BY <1>3, <2>2, <2>3 DEF MergeFile, TypeOK, input
<1>4. CASE FileDone
  BY <1>4 DEF FileDone, TypeOK, Points, input, merge, result
<1>5. CASE Over
  BY <1>5 DEF Over, vars, TypeOK, Points, input, merge, result
<1>. QED  BY <1>2, <1>3, <1>4, <1>5 DEF sort_file

-----------------------------------------------------------------------------
(***************************************************************************)
(* insert_to_redis.                                                        *)
(***************************************************************************)

\* redis_insert adds the lines of the block in the making, or, if the SET is
\* lost, a key without a value.
LEMMA SetHolds ==
    ASSUME TypeOK, Set
    PROVE  /\ \A n \in Nodes : n # node => store'[n] = store[n]
           /\ \/ /\ lost' = lost /\ Held(store'[node]) = Held(store[node]) \cup Lines(str)
                 /\ \A k \in DOMAIN store'[node] : \/ k \in DOMAIN store[node] /\ store'[node][k] = store[node][k]
                                                   \/ store'[node][k] = str
              \/ lost' # 0 /\ Held(store'[node]) = Held(store[node])
<1>1. node \in Nodes /\ store \in [Nodes -> Seq(Seq(Int))] /\ str \in Seq(Int) /\ lost \in Nat
      /\ NoLines \in Seq(Int)
  BY RecoverySizes DEF TypeOK, NoLines
<1>2. PICK b \in Seq(Int) : /\ store' = [store EXCEPT ![node] = Append(@, b)]
                            /\ (b = str /\ lost' = lost) \/ (b = NoLines /\ lost' = lost + 1)
  BY <1>1 DEF Set
<1>3. \A n \in Nodes : n # node => store'[n] = store[n]
  BY <1>1, <1>2
<1>4. store'[node] = Append(store[node], b) /\ store[node] \in Seq(Seq(Int))
  BY <1>1, <1>2
<1>5. /\ DOMAIN store'[node] = DOMAIN store[node] \cup {Len(store[node]) + 1}
      /\ store'[node][Len(store[node]) + 1] = b
      /\ \A k \in DOMAIN store[node] : store'[node][k] = store[node][k]
  BY <1>4
<1>6. Held(store'[node]) = Held(store[node]) \cup Lines(b)
  BY <1>5 DEF Held
<1>7. Lines(NoLines) = {}
  BY OneLineMore
<1>8. CASE b = str /\ lost' = lost
  BY <1>3, <1>5, <1>6, <1>8
<1>9. CASE b = NoLines /\ lost' = lost + 1
  BY <1>1, <1>3, <1>6, <1>7, <1>9
<1>. QED  BY <1>2, <1>8, <1>9

\* While redis is filled nothing is read or merged yet.
LEMMA NotMerging ==
    ASSUME TypeOK', pc' \in {"insert", "get"}, bfile' = <<>>, nfile' = <<>>, pc' = "get" => node' = 1
    PROVE  BlocksInv' /\ NodesInv' /\ OrderInv' /\ NodeMergeInv' /\ FileMergeInv'
<1>1. DOMAIN bfile' = {} /\ DOMAIN nfile' = {} /\ Len(bfile') = 0 /\ Len(nfile') = 0
  OBVIOUS
<1>2. pc' = "get" => Len(store'[node']) \in Nat
  BY DEF TypeOK
<1>3. BlocksInv'
  BY <1>1, <1>2 DEF BlocksInv
<1>4. NodesInv'
  BY <1>1 DEF NodesInv
<1>5. OrderInv' /\ NodeMergeInv' /\ FileMergeInv'
  BY DEF OrderInv, Merging, NodeMergeInv, FileMergeInv
<1>. QED  BY <1>3, <1>4, <1>5

\* insert_to_redis puts every line it reads into a block.
LEMMA InsertKeeps ==
    ASSUME TypeOK, TypeOK', RecoveryInv, insert_to_redis
    PROVE  RecoveryInv'
<1>1. /\ node \in Nodes /\ file \in [Nodes -> Seq(Int)] /\ str \in Seq(Int) /\ at \in Nat \ {0}
      /\ NoLines \in Seq(Int) /\ Nodes = 1 .. NODE_NUM /\ NODE_NUM \in Nat \ {0}
      /\ LinePerInsert \in Nat \ {0} /\ store \in [Nodes -> Seq(Seq(Int))]
  BY FilesType, RecoverySizes DEF TypeOK, Nodes
<1>2. /\ pc = "insert" /\ StoreInv /\ UNCHANGED <<file, bfile, nfile>>
      /\ bfile = <<>> /\ nfile = <<>> /\ Lines(str) \subseteq Lines(file[node])
  BY DEF RecoveryInv, StoreInv, insert_to_redis, InsertLine, InsertRest
<1>3. BlocksInv' /\ NodesInv' /\ OrderInv' /\ NodeMergeInv' /\ FileMergeInv'
  <2>1. pc' \in {"insert", "get"} /\ (pc' = "get" => node' = 1)
    BY <1>2 DEF insert_to_redis, InsertLine, InsertRest
  <2>. QED  BY <1>2, <2>1, NotMerging
<1>4. Lines(NoLines) = {} /\ (NoLines # str <=> Len(str) # 0)
  BY <1>1, OneLineMore DEF NoLines
<1>5. CASE InsertLine
  <2>. DEFINE l == file[node][at]
              full == Len(str) = LinePerInsert
              kept == IF full THEN NoLines ELSE str
              mine == {k \in {l} : k > 0}
  <2>1. /\ at \in DOMAIN file[node] /\ l \in Int /\ kept \in Seq(Int) /\ UNCHANGED <<pc, node>>
        /\ at' = at + 1
        /\ str' = IF l = 0 THEN kept ELSE Append(kept, l)
        /\ IF full THEN Set ELSE UNCHANGED <<store, lost>>
    BY <1>1, <1>5 DEF InsertLine
  <2>2. Lines(str') = Lines(kept) \cup mine
    BY <2>1, OneLineMore
  <2>3. mine \subseteq Lines(file[node])
    BY <1>1, <2>1 DEF Lines, Terminated
  <2>4. Scanned' \subseteq Scanned \cup mine
    <3>1. \A k \in Terminated(file[node]) : k < at + 1 => k < at \/ k = at
      <4>1. file[node] \in Seq(Int)
        BY <1>1
      <4>2. \A k \in Terminated(file[node]) : k \in Nat
        BY <4>1 DEF Terminated
      <4>. QED  BY <1>1, <4>2
    <3>. QED  BY <1>2, <2>1, <3>1 DEF Scanned, Terminated
  <2>5. Lines(str') \subseteq Lines(file[node])
    BY <1>2, <1>4, <2>2, <2>3
  <2>6. \A n \in Nodes : n # node => store'[n] = store[n]
    BY <2>1, SetHolds
  <2>7. \/ /\ lost' = lost /\ Held(store'[node]) \cup Lines(kept) = Held(store[node]) \cup Lines(str)
           /\ lost = 0 => \A k \in DOMAIN store'[node] : store'[node][k] # NoLines
        \/ lost' # 0 /\ Held(store'[node]) = Held(store[node])
    <3>1. CASE full
      BY <1>1, <1>2, <1>4, <2>1, <3>1, SetHolds DEF StoreInv
    <3>2. CASE ~full
      BY <1>1, <1>2, <2>1, <3>2 DEF StoreInv
    <3>. QED  BY <3>1, <3>2
  <2>8. \A n \in Nodes : Held(store'[n]) \subseteq Lines(file[n])
    BY <1>2, <2>6, <2>7 DEF StoreInv
  <2>9. lost' = 0 =>
          /\ \A n \in Nodes : \A b \in DOMAIN store'[n] : store'[n][b] # NoLines
          /\ \A n \in Nodes : n < node => Lines(file[n]) \subseteq Held(store'[n])
          /\ Scanned' \subseteq Held(store'[node]) \cup Lines(str')
    <3>. SUFFICES ASSUME lost' = 0
                  PROVE  /\ \A n \in Nodes : \A b \in DOMAIN store'[n] : store'[n][b] # NoLines
                         /\ \A n \in Nodes : n < node => Lines(file[n]) \subseteq Held(store'[n])
                         /\ Scanned' \subseteq Held(store'[node]) \cup Lines(str')
      OBVIOUS
    <3>1. /\ lost = 0 /\ Held(store'[node]) \cup Lines(kept) = Held(store[node]) \cup Lines(str)
          /\ \A k \in DOMAIN store'[node] : store'[node][k] # NoLines
      BY <2>7
    <3>2. \A n \in Nodes : \A b \in DOMAIN store'[n] : store'[n][b] # NoLines
      BY <1>2, <2>6, <3>1 DEF StoreInv
    <3>3. \A n \in Nodes : n < node => Lines(file[n]) \subseteq Held(store'[n])
      BY <1>1, <1>2, <2>6, <3>1 DEF StoreInv
    <3>4. Scanned \subseteq Held(store[node]) \cup Lines(str)
      BY <1>2, <3>1 DEF StoreInv
    <3>5. Scanned' \subseteq Held(store'[node]) \cup Lines(str')
      BY <2>2, <2>4, <3>1, <3>4
    <3>. QED  BY <3>2, <3>3, <3>5
  <2>10. StoreInv'
    BY <1>2, <2>1, <2>5, <2>8, <2>9 DEF StoreInv
  <2>. QED  BY <1>3, <2>10 DEF RecoveryInv
<1>6. CASE InsertRest
  <2>1. /\ at \notin DOMAIN file[node] /\ str' = NoLines /\ at' = 1
        /\ IF node = NODE_NUM THEN pc' = "get" /\ node' = 1 ELSE pc' = "insert" /\ node' = node + 1
        /\ IF str = NoLines THEN UNCHANGED <<store, lost>> ELSE Set
    BY <1>2, <1>6 DEF InsertRest
  <2>2. Scanned = Lines(file[node])
    <3>1. \A k \in Terminated(file[node]) : k < at
      BY <1>1, <2>1 DEF Terminated
    <3>. QED  BY <3>1 DEF Scanned, Lines
  <2>3. Scanned' = {}
    BY <2>1, <1>1, <1>2, FilesType DEF Scanned, Terminated
  <2>4. \A n \in Nodes : n # node => store'[n] = store[n]
    BY <2>1, SetHolds
  <2>5. \/ /\ lost' = lost /\ Held(store'[node]) = Held(store[node]) \cup Lines(str)
           /\ lost = 0 => \A k \in DOMAIN store'[node] : store'[node][k] # NoLines
        \/ lost' # 0 /\ Held(store'[node]) = Held(store[node])
    <3>1. CASE str # NoLines
      BY <1>1, <1>2, <2>1, <3>1, SetHolds DEF StoreInv
    <3>2. CASE str = NoLines
      BY <1>1, <1>2, <1>4, <2>1, <3>2 DEF StoreInv
    <3>. QED  BY <3>1, <3>2
  <2>6. \A n \in Nodes : Held(store'[n]) \subseteq Lines(file[n])
    BY <1>2, <2>4, <2>5 DEF StoreInv
  <2>7. lost' = 0 =>
          /\ \A n \in Nodes : \A b \in DOMAIN store'[n] : store'[n][b] # NoLines
          /\ \A n \in Nodes : n <= node => Lines(file[n]) \subseteq Held(store'[n])
    <3>. SUFFICES ASSUME lost' = 0
                  PROVE  /\ \A n \in Nodes : \A b \in DOMAIN store'[n] : store'[n][b] # NoLines
                         /\ \A n \in Nodes : n <= node => Lines(file[n]) \subseteq Held(store'[n])
      OBVIOUS
    <3>1. /\ lost = 0 /\ Held(store'[node]) = Held(store[node]) \cup Lines(str)
          /\ \A k \in DOMAIN store'[node] : store'[node][k] # NoLines
      BY <2>5
    <3>2. \A n \in Nodes : \A b \in DOMAIN store'[n] : store'[n][b] # NoLines
      BY <1>2, <2>4, <3>1 DEF StoreInv
    <3>3. \A n \in Nodes : n < node => Lines(file[n]) \subseteq Held(store'[n])
      BY <1>1, <1>2, <2>4, <3>1 DEF StoreInv
    <3>4. Lines(file[node]) \subseteq Held(store'[node])
      BY <1>2, <2>2, <3>1 DEF StoreInv
    <3>5. \A n \in Nodes : n <= node => n < node \/ n = node
      BY <1>1
    <3>. QED  BY <3>2, <3>3, <3>4, <3>5
  <2>8. \A n \in Nodes : pc' # "insert" \/ n < node' => n <= node
    BY <1>1, <2>1
  <2>9. StoreInv'
    BY <1>2, <1>4, <2>1, <2>3, <2>6, <2>7, <2>8 DEF StoreInv
  <2>. QED  BY <1>3, <2>9 DEF RecoveryInv
<1>. QED  BY <1>5, <1>6 DEF insert_to_redis

-----------------------------------------------------------------------------
(***************************************************************************)
(* sort_blocks.                                                            *)
(***************************************************************************)

\* Once redis is filled, nothing changes in it.
LEMMA StoreKept ==
    ASSUME StoreInv, pc # "insert", pc' # "insert", UNCHANGED <<file, store, lost>>
    PROVE  StoreInv'
  BY DEF StoreInv

\* The block files are those of the blocks up to the last one in a row, and
\* in them are all lines of the node if no SET was lost.
LEMMA BlocksKeep ==
    ASSUME TypeOK, TypeOK', RecoveryInv, sort_blocks
    PROVE  RecoveryInv'
<1>1. /\ node \in Nodes /\ store \in [Nodes -> Seq(Seq(Int))] /\ bfile \in Seq(Seq(Int))
      /\ store[node] \in Seq(Seq(Int)) /\ file \in [Nodes -> Seq(Int)]
  BY FilesType DEF TypeOK
<1>2. /\ pc = "get" /\ StoreInv /\ BlocksInv /\ NodesInv /\ UNCHANGED <<file, store, lost>>
      /\ pc' # "insert"
  BY DEF RecoveryInv, sort_blocks, GetBlock, GetBlockEmpty, GetBlockLong, GetFails, GetEnds, input
<1>3. StoreInv'
  BY <1>2, StoreKept
<1>4. Len(bfile) <= Len(store[node]) /\ \A k \in DOMAIN bfile : Range(bfile[k]) = Lines(store[node][k])
  BY <1>2 DEF BlocksInv
<1>5. ASSUME pc' \in {"get", "crashed"}
      PROVE  OrderInv' /\ NodeMergeInv' /\ FileMergeInv'
  BY <1>5 DEF OrderInv, Merging, NodeMergeInv, FileMergeInv
<1>6. CASE GetBlock
  <2>1. block_id \in DOMAIN store[node] /\ UNCHANGED <<pc, node, nfile>>
    BY <1>6 DEF GetBlock, HasBlock
  <2>2. PICK s \in Sorted(store[node][block_id]) : bfile' = Append(bfile, s)
    BY <1>6 DEF GetBlock
  <2>3. store[node][block_id] \in Seq(Int)
    BY <1>1, <2>1
  <2>4. s \in Seq(Int) /\ IsSorted(s) /\ Range(s) = Lines(store[node][block_id])
    BY <2>2, <2>3, SortedBlock
  <2>5. /\ DOMAIN bfile' = DOMAIN bfile \cup {block_id} /\ bfile'[block_id] = s /\ Len(bfile') = block_id
        /\ \A k \in DOMAIN bfile : bfile'[k] = bfile[k]
    BY <1>1, <2>2, <2>4 DEF block_id
  <2>6. Len(bfile') <= Len(store[node])
    BY <1>1, <2>1, <2>5
  <2>7. BlocksInv'
    BY <1>2, <1>4, <2>1, <2>4, <2>5, <2>6 DEF BlocksInv
  <2>8. NodesInv'
    BY <1>2, <2>1 DEF NodesInv
  <2>. QED  BY <1>2, <1>3, <1>5, <2>1, <2>7, <2>8 DEF RecoveryInv
<1>7. CASE GetBlockEmpty
  <2>1. pc' = "crashed" /\ UNCHANGED <<bfile, nfile>>
    BY <1>7 DEF GetBlockEmpty
  <2>2. BlocksInv' /\ NodesInv'
    BY <1>2, <2>1 DEF BlocksInv, NodesInv
  <2>. QED  BY <1>3, <1>5, <2>1, <2>2 DEF RecoveryInv
<1>8. CASE GetBlockLong
  <2>1. pc' = "crashed" /\ UNCHANGED <<bfile, nfile>>
    BY <1>8 DEF GetBlockLong
  <2>2. BlocksInv' /\ NodesInv'
    BY <1>2, <2>1 DEF BlocksInv, NodesInv
  <2>. QED  BY <1>3, <1>5, <2>1, <2>2 DEF RecoveryInv
<1>9. CASE GetFails
  <2>1. pc' = "get" /\ bfile' = <<>> /\ nfile' = <<>> /\ node' = 1
    BY <1>2, <1>9 DEF GetFails
  <2>. QED  BY <1>3, <2>1, NotMerging DEF RecoveryInv
<1>10. CASE GetEnds
  <2>1. /\ pc' = "merge" /\ UNCHANGED <<node, nfile, bfile>> /\ ~HasBlock
        /\ src' = bfile /\ pos' = [i \in DOMAIN bfile |-> 1] /\ out' = NoLines
    BY <1>10 DEF GetEnds, Open
  <2>2. BlocksInv' /\ NodesInv'
    BY <1>2, <2>1 DEF BlocksInv, NodesInv
  <2>3. DOMAIN out' = {} /\ Range(out') = {}
    BY <2>1 DEF NoLines, Range
  <2>4. OrderInv'
    <3>1. \A i \in DOMAIN bfile : IsSorted(bfile[i]) /\ pos'[i] = 1 /\ Len(bfile[i]) \in Nat
      BY <1>1, <1>2, <2>1 DEF BlocksInv
    <3>. QED  BY <2>1, <2>3, <3>1 DEF OrderInv
  <2>5. Read' = {}
    <3>1. \A i \in DOMAIN src' : \A k \in DOMAIN src'[i] : ~(k < pos'[i])
      BY <1>1, <2>1
    <3>. QED  BY <3>1 DEF Read
  <2>6. SrcLines' \subseteq Held(store[node])
    <3>1. \A i \in DOMAIN bfile : i \in DOMAIN store[node] /\ Range(bfile[i]) = Lines(store[node][i])
      BY <1>1, <1>4
    <3>. QED  BY <2>1, <3>1 DEF SrcLines, Held
  <2>7. lost = 0 => Held(store[node]) \subseteq SrcLines'
    <3>. SUFFICES ASSUME lost = 0 PROVE Held(store[node]) \subseteq SrcLines'
      OBVIOUS
    <3>1. block_id \notin DOMAIN store[node]
      BY <1>1, <1>2, <2>1 DEF HasBlock, StoreInv
    <3>2. DOMAIN store[node] = DOMAIN bfile
      BY <1>1, <1>4, <3>1 DEF block_id
    <3>. QED  BY <1>4, <2>1, <3>2 DEF SrcLines, Held
  <2>8. NodeMergeInv'
    <3>1. IsSorted(out)'
      BY <2>3 DEF IsSorted
    <3>2. SrcLines' \subseteq Lines(file[node]) /\ (lost = 0 => Lines(file[node]) \subseteq SrcLines')
      BY <1>1, <1>2, <2>6, <2>7 DEF StoreInv
    <3>. QED  BY <1>2, <2>1, <2>3, <2>5, <3>1, <3>2 DEF NodeMergeInv
  <2>9. FileMergeInv'
    BY <2>1 DEF FileMergeInv
  <2>. QED  BY <1>3, <2>2, <2>4, <2>8, <2>9 DEF RecoveryInv
<1>. QED  BY <1>6, <1>7, <1>8, <1>9, <1>10 DEF sort_blocks

-----------------------------------------------------------------------------
(***************************************************************************)
(* The merges.                                                             *)
(***************************************************************************)

\* pri_queue.top() is not smaller than what has been written, and not greater
\* than what is still to be read.
LEMMA MergeStep ==
    ASSUME TypeOK, OrderInv, Merging, NEW i \in DOMAIN src, Top(i), Advance(i), UNCHANGED src,
           out' = out \/ out' = Append(out, Line(i)), Merging'
    PROVE  /\ Line(i) \in Int
           /\ \A j \in DOMAIN out : out[j] <= Line(i)
           /\ OrderInv'
           /\ Read' = Read \cup {Line(i)}
<1>1. i \in Queue
  BY DEF Top
<1>2. src[i] \in Seq(Int) /\ pos[i] \in DOMAIN src[i] /\ Line(i) \in Int
  BY <1>1, NextLine
<1>3. /\ pos \in [DOMAIN src -> Nat \ {0}] /\ src \in Seq(Seq(Int)) /\ out \in Seq(Int)
      /\ pos'[i] = pos[i] + 1 /\ \A k \in DOMAIN src : k # i => pos'[k] = pos[k]
  BY DEF TypeOK, Advance
<1>4. \A k \in DOMAIN src : src[k] \in Seq(Int) /\ IsSorted(src[k]) /\ pos[k] \in Nat
  BY <1>3 DEF OrderInv
<1>5. \A j \in DOMAIN out : out[j] <= Line(i)
  BY <1>2, <1>3 DEF OrderInv, Line
<1>6. ASSUME NEW m \in DOMAIN src, NEW k \in DOMAIN src[m], k >= pos'[m]
      PROVE  Line(i) <= src[m][k] /\ k >= pos[m]
  <2>0. k \in Nat /\ src[m][k] \in Int
    BY <1>4
  <2>1. k >= pos[m]
    <3>1. CASE m = i
      BY <1>3, <1>4, <1>6, <2>0, <3>1
    <3>2. CASE m # i
      BY <1>3, <1>6, <3>2
    <3>. QED  BY <3>1, <3>2
  <2>2. m \in Queue /\ src[m][pos[m]] \in Int /\ pos[m] \in DOMAIN src[m]
    <3>1. src[m] \in Seq(Int) /\ pos[m] \in Nat \ {0} /\ k \in 1 .. Len(src[m]) /\ Len(src[m]) \in Nat
      BY <1>3, <1>4
    <3>2. pos[m] \in 1 .. Len(src[m])
      BY <2>1, <3>1
    <3>3. pos[m] \in DOMAIN src[m]
      BY <3>1, <3>2
    <3>. QED  BY <3>1, <3>3 DEF Queue
  <2>3. Line(i) <= src[m][pos[m]]
    BY <2>2 DEF Top, Line
  <2>4. src[m][pos[m]] <= src[m][k]
    BY <1>4, <2>0, <2>1, <2>2 DEF IsSorted
  <2>. QED  BY <1>2, <2>0, <2>1, <2>2, <2>3, <2>4
<1>7. \A k \in DOMAIN src : pos'[k] <= Len(src[k]) + 1
  <2>1. \A k \in DOMAIN src : pos[k] <= Len(src[k]) + 1
    BY DEF OrderInv
  <2>2. pos'[i] <= Len(src[i]) + 1
    BY <1>2, <1>3
  <2>. QED  BY <1>3, <2>1, <2>2
<1>8. \A j \in DOMAIN out' : (j \in DOMAIN out /\ out'[j] = out[j]) \/ out'[j] = Line(i)
  <2>1. CASE out' = out
    BY <2>1
  <2>2. CASE out' = Append(out, Line(i))
    BY <1>2, <1>3, <2>2, Appended
  <2>. QED  BY <2>1, <2>2
<1>9. \A j \in DOMAIN out' : \A m \in DOMAIN src : \A k \in DOMAIN src[m] : k >= pos'[m] => out'[j] <= src[m][k]
  BY <1>6, <1>8 DEF OrderInv
<1>10. OrderInv'
  BY <1>4, <1>7, <1>9 DEF OrderInv
<1>11. Read' = Read \cup {Line(i)}
  <2>1. \A m \in DOMAIN src : \A k \in DOMAIN src[m] : k < pos'[m] <=> k < pos[m] \/ (m = i /\ k = pos[m])
    <3>1. \A m \in DOMAIN src : \A k \in DOMAIN src[m] : k \in Nat
      BY <1>4
    <3>2. \A k \in DOMAIN src[i] : k < pos'[i] <=> k < pos[i] \/ k = pos[i]
      BY <1>3, <1>4, <3>1
    <3>. QED  BY <1>3, <3>2
  <2>2. Read' \subseteq Read \cup {Line(i)}
    BY <2>1 DEF Read, Line
  <2>3. Read \subseteq Read'
    BY <2>1 DEF Read
  <2>4. Line(i) \in Read'
    BY <1>2, <2>1 DEF Read, Line
  <2>. QED  BY <2>2, <2>3, <2>4
<1>. QED  BY <1>2, <1>5, <1>10, <1>11

\* When the queue is empty every line has been read.
LEMMA AllRead ==
    ASSUME TypeOK, OrderInv, Merging, Queue = {}
    PROVE  Read = SrcLines
<1>1. \A i \in DOMAIN src : src[i] \in Seq(Int) /\ pos[i] \in Nat \ {0} /\ pos[i] \notin DOMAIN src[i]
  BY DEF TypeOK, Queue
<1>2. \A i \in DOMAIN src : \A k \in DOMAIN src[i] : k < pos[i]
  BY <1>1 DEF OrderInv
<1>. QED  BY <1>2 DEF Read, SrcLines, Range

\* A file with a line more at its end is in order if that line is not smaller.
LEMMA AppendSorted ==
    ASSUME NEW s \in Seq(Int), NEW l \in Int
    PROVE  /\ IsSorted(s) /\ (\A j \in DOMAIN s : s[j] <= l) => IsSorted(Append(s, l))
           /\ Increasing(s) /\ (\A j \in DOMAIN s : s[j] < l) => Increasing(Append(s, l))
<1>1. \A i, k \in DOMAIN Append(s, l) : i < k => i \in DOMAIN s /\ (k \in DOMAIN s \/ k = Len(s) + 1)
  BY Appended
<1>2. /\ \A k \in DOMAIN s : Append(s, l)[k] = s[k]
      /\ Append(s, l)[Len(s) + 1] = l
  BY Appended
<1>3. IsSorted(s) /\ (\A j \in DOMAIN s : s[j] <= l) => IsSorted(Append(s, l))
  BY <1>1, <1>2 DEF IsSorted
<1>4. Increasing(s) /\ (\A j \in DOMAIN s : s[j] < l) => Increasing(Append(s, l))
  BY <1>1, <1>2 DEF Increasing
<1>. QED  BY <1>3, <1>4

\* sort_nodes: the file of a node holds the lines of its blocks, in order.
LEMMA NodesKeep ==
    ASSUME TypeOK, TypeOK', RecoveryInv, sort_nodes
    PROVE  RecoveryInv'
<1>1. /\ pc = "merge" /\ Merging /\ UNCHANGED <<file, store, lost, src>>
      /\ pc' \in {"merge", "get", "open"} /\ pc' # "insert"
      /\ StoreInv /\ BlocksInv /\ NodesInv /\ OrderInv /\ NodeMergeInv
  BY DEF RecoveryInv, sort_nodes, MergeNode, NodeDone, input, merge, Merging
<1>2. StoreInv'
  BY <1>1, StoreKept
<1>3. FileMergeInv'
  BY <1>1 DEF FileMergeInv
<1>4. CASE MergeNode
  <2>1. PICK i \in DOMAIN src : Top(i) /\ out' = Append(out, Line(i)) /\ Advance(i)
    BY <1>4 DEF MergeNode
  <2>2. UNCHANGED <<pc, node, bfile, nfile>> /\ Merging'
    BY <1>1, <1>4 DEF MergeNode, Merging
  <2>3. /\ Line(i) \in Int /\ \A j \in DOMAIN out : out[j] <= Line(i)
        /\ OrderInv' /\ Read' = Read \cup {Line(i)}
    BY <1>1, <2>1, <2>2, MergeStep
  <2>4. out \in Seq(Int)
    BY DEF TypeOK
  <2>5. IsSorted(out') /\ Range(out') = Read'
    BY <1>1, <2>1, <2>3, <2>4, AppendSorted, OneLineMore DEF NodeMergeInv
  <2>6. SrcLines' = SrcLines
    BY <1>1 DEF SrcLines
  <2>7. NodeMergeInv'
    BY <1>1, <2>2, <2>5, <2>6 DEF NodeMergeInv
  <2>8. BlocksInv' /\ NodesInv'
    BY <1>1, <2>2 DEF BlocksInv, NodesInv
  <2>. QED  BY <1>2, <1>3, <2>3, <2>7, <2>8 DEF RecoveryInv
<1>5. CASE NodeDone
  <2>1. /\ Queue = {} /\ nfile' = Append(nfile, out) /\ bfile' = <<>> /\ out \in Seq(Int)
        /\ IF node = NODE_NUM THEN pc' = "open" ELSE pc' = "get" /\ node' = node + 1
        /\ nfile \in Seq(Seq(Int)) /\ node \in 1 .. NODE_NUM /\ NODE_NUM \in Nat
        /\ Len(nfile) = node - 1
    BY <1>1, <1>5, RecoverySizes DEF NodeDone, TypeOK, Nodes, NodesInv
  <2>2. Range(out) = SrcLines /\ IsSorted(out)
    BY <1>1, <2>1, AllRead DEF NodeMergeInv
  <2>3. /\ Range(out) \subseteq Lines(file[node])
        /\ lost = 0 => Lines(file[node]) \subseteq Range(out)
    BY <1>1, <2>2 DEF NodeMergeInv
  <2>4. /\ DOMAIN nfile' = DOMAIN nfile \cup {node} /\ nfile'[node] = out /\ Len(nfile') = node
        /\ \A n \in DOMAIN nfile : nfile'[n] = nfile[n]
    BY <2>1
  <2>5. NodesInv'
    <3>1. \A n \in DOMAIN nfile' :
             /\ IsSorted(nfile'[n])
             /\ Range(nfile'[n]) \subseteq Lines(file[n])
             /\ lost = 0 => Lines(file[n]) \subseteq Range(nfile'[n])
      BY <1>1, <2>2, <2>3, <2>4 DEF NodesInv
    <3>2. /\ pc' \in {"get", "merge"} => Len(nfile') = node' - 1
          /\ pc' = "open" => Len(nfile') = NODE_NUM
      BY <2>1, <2>4
    <3>. QED  BY <1>1, <3>1, <3>2 DEF NodesInv
  <2>6. BlocksInv'
    <3>1. pc' = "get" => Len(store'[node']) \in Nat
      BY DEF TypeOK
    <3>. QED  BY <2>1, <3>1 DEF BlocksInv
  <2>7. OrderInv' /\ NodeMergeInv'
    BY <2>1 DEF OrderInv, Merging, NodeMergeInv
  <2>. QED  BY <1>2, <1>3, <2>5, <2>6, <2>7 DEF RecoveryInv
<1>. QED  BY <1>4, <1>5 DEF sort_nodes

-----------------------------------------------------------------------------
(***************************************************************************)
(* sort_file.                                                              *)
(***************************************************************************)

\* The lines of the task are those of the CSV files of the nodes.
LEMMA LinesOfTask == TaskLines = UNION {Lines(file[n]) : n \in Nodes}
<1>1. \A n \in Nodes : \A l : l \in Lines(file[n]) <=> l \in Range(file[n]) /\ l > 0
  BY DEF Lines, Terminated, Range
<1>. QED  BY <1>1 DEF TaskLines

\* sort_file begins with nothing written, and with the files of all nodes
\* unless one of them is empty.
LEMMA OpenKeeps ==
    ASSUME TypeOK, TypeOK', RecoveryInv, OpenNodes
    PROVE  RecoveryInv'
<1>1. /\ pc = "open" /\ pc' \in {"file", "crashed"} /\ pc' # "insert"
      /\ UNCHANGED <<file, store, lost, node, bfile, nfile>>
      /\ StoreInv /\ BlocksInv /\ NodesInv
  BY DEF RecoveryInv, OpenNodes, input
<1>2. StoreInv' /\ BlocksInv' /\ NodesInv' /\ NodeMergeInv'
  <2>1. StoreInv'
    BY <1>1, StoreKept
  <2>. QED  BY <1>1, <2>1 DEF BlocksInv, NodesInv, NodeMergeInv
<1>3. CASE pc' = "crashed"
  <2>1. OrderInv' /\ FileMergeInv'
    BY <1>3 DEF OrderInv, Merging, FileMergeInv
  <2>. QED  BY <1>2, <2>1 DEF RecoveryInv
<1>4. CASE pc' = "file"
  <2>1. /\ NODE_NUM \in Nat /\ nfile \in Seq(Seq(Int)) /\ Len(nfile) = NODE_NUM /\ Nodes = 1 .. NODE_NUM
        /\ LineNos \subseteq Int
    BY <1>1, RecoverySizes, FilesType DEF NodesInv, TypeOK, Nodes
  <2>2. DOMAIN nfile = Nodes
    BY <2>1
  <2>3. \/ Open(nfile)
        \/ /\ ub' = TRUE
           /\ \E buf \in [Nodes -> LineNos] : Open([n \in Nodes |-> IF nfile[n] = NoLines THEN <<buf[n]>> ELSE nfile[n]])
    BY <1>4 DEF OpenNodes
  <2>4. /\ out' = NoLines /\ DOMAIN src' = Nodes /\ pos' = [n \in Nodes |-> 1]
        /\ \A n \in Nodes : src'[n] = nfile[n] \/ \E l \in LineNos : src'[n] = <<l>>
        /\ ~ub' => src' = nfile
    BY <2>2, <2>3 DEF Open
  <2>5. DOMAIN out' = {} /\ Range(out') = {} /\ Len(out') = 0
    BY <2>4 DEF NoLines, Range
  <2>6. \A l : IsSorted(<<l>>)
    BY DEF IsSorted
  <2>7. \A n \in Nodes : IsSorted(src'[n]) /\ Len(src'[n]) \in Nat
    <3>1. \A n \in Nodes : IsSorted(nfile[n])
      BY <1>1, <2>2 DEF NodesInv
    <3>2. \A n \in Nodes : Len(nfile[n]) \in Nat
      BY <2>1, <2>2
    <3>3. \A l : Len(<<l>>) \in Nat
      OBVIOUS
    <3>4. SUFFICES ASSUME NEW n \in Nodes PROVE IsSorted(src'[n]) /\ Len(src'[n]) \in Nat
      OBVIOUS
    <3>5. CASE src'[n] = nfile[n]
      BY <3>1, <3>2, <3>5
    <3>6. CASE \E l \in LineNos : src'[n] = <<l>>
      BY <2>6, <3>3, <3>6
    <3>. QED  BY <2>4, <3>5, <3>6
  <2>8. OrderInv'
    BY <2>4, <2>5, <2>7 DEF OrderInv
  <2>9. Read' = {}
    <3>1. \A n \in Nodes : src'[n] \in Seq(Int)
      <4>1. src' \in Seq(Seq(Int))
        BY DEF TypeOK
      <4>. QED  BY <2>4, <4>1
    <3>2. \A n \in Nodes : \A k \in DOMAIN src'[n] : ~(k < pos'[n])
      BY <2>4, <3>1
    <3>. QED  BY <2>4, <3>2 DEF Read
  <2>10. flag' = junk'
    BY DEF OpenNodes
  <2>11. ~ub' => SrcLines' \subseteq TaskLines /\ (lost = 0 => TaskLines \subseteq SrcLines')
    BY <1>1, <2>2, <2>4, LinesOfTask DEF NodesInv, SrcLines
  <2>12. TaskLines' = TaskLines
    BY <1>1 DEF TaskLines
  <2>13. FileMergeInv'
    <3>1. Increasing(out')
      BY <2>5 DEF Increasing
    <3>. QED  BY <1>1, <1>4, <2>5, <2>9, <2>10, <2>11, <2>12, <3>1 DEF FileMergeInv
  <2>. QED  BY <1>2, <2>8, <2>13 DEF RecoveryInv
<1>. QED  BY <1>1, <1>3, <1>4

\* sort_file: a line that is already in the file is in line_flag.
LEMMA FileKeeps ==
    ASSUME TypeOK, TypeOK', RecoveryInv, MergeFile
    PROVE  RecoveryInv'
<1>1. /\ pc = "file" /\ pc' = "file" /\ UNCHANGED <<file, store, lost, node, bfile, nfile, src, junk, ub>>
      /\ StoreInv /\ BlocksInv /\ NodesInv /\ OrderInv /\ FileMergeInv /\ Merging /\ Merging'
  BY DEF RecoveryInv, MergeFile, input, Merging
<1>2. StoreInv' /\ BlocksInv' /\ NodesInv' /\ NodeMergeInv'
  <2>1. StoreInv'
    BY <1>1, StoreKept
  <2>. QED  BY <1>1, <2>1 DEF BlocksInv, NodesInv, NodeMergeInv
<1>3. PICK i \in DOMAIN src :
         /\ Top(i)
         /\ out' = IF Line(i) \in flag THEN out ELSE Append(out, Line(i))
         /\ flag' = flag \cup {Line(i)}
         /\ Advance(i)
  BY DEF MergeFile
<1>4. out' = out \/ out' = Append(out, Line(i))
  BY <1>3
<1>5. /\ Line(i) \in Int /\ \A j \in DOMAIN out : out[j] <= Line(i)
      /\ OrderInv' /\ Read' = Read \cup {Line(i)}
  BY <1>1, <1>3, <1>4, MergeStep
<1>6. out \in Seq(Int)
  BY DEF TypeOK
<1>7. Increasing(out) /\ flag = junk \cup Read /\ Range(out) = Read \ junk
  BY <1>1 DEF FileMergeInv
<1>8. Increasing(out') /\ Range(out') = Read' \ junk
  <2>1. CASE Line(i) \in flag
    BY <1>3, <1>5, <1>7, <2>1
  <2>2. CASE Line(i) \notin flag
    <3>1. \A j \in DOMAIN out : out[j] # Line(i)
      BY <1>7, <2>2 DEF Range
    <3>2. \A j \in DOMAIN out : out[j] \in Int /\ out[j] < Line(i)
      BY <1>5, <1>6, <3>1
    <3>. QED  BY <1>3, <1>5, <1>6, <1>7, <2>2, <3>2, AppendSorted, OneLineMore
  <2>. QED  BY <2>1, <2>2
<1>9. FileMergeInv'
  <2>1. SrcLines' = SrcLines /\ TaskLines' = TaskLines
    BY <1>1 DEF SrcLines, TaskLines
  <2>. QED  BY <1>1, <1>3, <1>5, <1>7, <1>8, <2>1 DEF FileMergeInv
<1>. QED  BY <1>2, <1>5, <1>9 DEF RecoveryInv

\* The end of sort_file.
LEMMA EndKeeps ==
    ASSUME TypeOK, RecoveryInv, FileDone \/ UNCHANGED vars
    PROVE  RecoveryInv'
<1>1. UNCHANGED <<node, at, str, file, store, bfile, nfile, src, pos, out, flag, junk, ub, lost>>
  BY DEF FileDone, vars, input, merge, result
<1>2. \/ pc = "file" /\ pc' \in {"done", "crashed"} /\ Queue = {}
      \/ pc' = pc
  BY DEF FileDone, vars
<1>3. /\ StoreInv /\ BlocksInv /\ NodesInv /\ OrderInv /\ NodeMergeInv /\ FileMergeInv
  BY DEF RecoveryInv
<1>4. /\ Scanned' = Scanned /\ SrcLines' = SrcLines /\ Read' = Read
      /\ TaskLines' = TaskLines /\ Queue' = Queue
  BY <1>1 DEF Scanned, SrcLines, Read, TaskLines, Queue
<1>5. StoreInv'
  BY <1>1, <1>2, <1>3, <1>4 DEF StoreInv
<1>6. BlocksInv' /\ NodesInv'
  BY <1>1, <1>2, <1>3 DEF BlocksInv, NodesInv
<1>7. OrderInv' /\ NodeMergeInv'
  BY <1>1, <1>2, <1>3, <1>4 DEF OrderInv, Merging, NodeMergeInv
<1>8. FileMergeInv'
  BY <1>1, <1>2, <1>3, <1>4 DEF FileMergeInv
<1>. QED  BY <1>5, <1>6, <1>7, <1>8 DEF RecoveryInv

-----------------------------------------------------------------------------
(***************************************************************************)
(* The theorems.                                                           *)
(***************************************************************************)

\* Before the first line is read there is nothing anywhere.
LEMMA InitRecovery == Init => RecoveryInv
<1>. SUFFICES ASSUME Init PROVE RecoveryInv
  OBVIOUS
<1>1. TypeOK /\ Lines(NoLines) = {}
  BY InitType DEF Lines, Terminated, NoLines
<1>2. StoreInv
  <2>1. Scanned = {}
    BY <1>1, FilesType DEF Init, Scanned, Terminated
  <2>2. \A n \in Nodes : Held(store[n]) = {} /\ DOMAIN store[n] = {}
    BY DEF Init, Held
  <2>. QED  BY <1>1, <2>1, <2>2 DEF Init, StoreInv, Nodes
<1>3. BlocksInv /\ NodesInv
  BY DEF Init, BlocksInv, NodesInv
<1>4. OrderInv /\ NodeMergeInv /\ FileMergeInv
  BY DEF Init, OrderInv, Merging, NodeMergeInv, FileMergeInv
<1>. QED  BY <1>2, <1>3, <1>4 DEF RecoveryInv

\* The invariant is inductive.
LEMMA NextRecovery == TypeOK /\ RecoveryInv /\ [Next]_vars => TypeOK' /\ RecoveryInv'
<1>. SUFFICES ASSUME TypeOK, RecoveryInv, [Next]_vars PROVE TypeOK' /\ RecoveryInv'
  OBVIOUS
<1>1. BlocksInv /\ NodesInv
  BY DEF RecoveryInv
<1>2. CASE insert_to_redis
  BY <1>2, InsertType, InsertKeeps
<1>3. CASE sort_blocks
  BY <1>1, <1>3, BlocksType, BlocksKeep
<1>4. CASE sort_nodes
  BY <1>1, <1>4, NodesType, NodesKeep
<1>5. CASE sort_file \/ Over
  <2>1. TypeOK'
    BY <1>1, <1>5, FileType
  <2>. QED  BY <1>5, <2>1, OpenKeeps, FileKeeps, EndKeeps DEF sort_file, Over
<1>6. CASE UNCHANGED vars
  <2>1. TypeOK'
    BY <1>6 DEF vars, TypeOK, input, merge, result
  <2>. QED  BY <1>6, <2>1, EndKeeps
<1>. QED  BY <1>2, <1>3, <1>4, <1>5, <1>6 DEF Next

\* It always holds.
LEMMA RecoveryAlways == Spec => [](TypeOK /\ RecoveryInv)
  BY InitType, InitRecovery, NextRecovery, PTL DEF Spec

\* sort_file writes the lines of the task in increasing order and none twice,
\* whatever the nodes hold and in however many blocks.
THEOREM FileInOrder == Spec => []FileSorted
<1>1. RecoveryInv => FileSorted
  BY DEF RecoveryInv, FileMergeInv, FileSorted, Increasing
<1>. QED  BY <1>1, RecoveryAlways, PTL

\* Nothing is made up on the way through redis and the two merges.
THEOREM OnlyTaskLines == Spec => []NothingInvented
<1>1. TypeOK /\ RecoveryInv => NothingInvented
  <2>1. Read \subseteq SrcLines
    BY DEF Read, SrcLines, Range
  <2>. QED  BY <2>1 DEF RecoveryInv, FileMergeInv, NothingInvented
<1>. QED  BY <1>1, RecoveryAlways, PTL

\* When csv_recovery has returned 0 and no SET was lost, every line of the
\* task is in the file, apart from those whose line_flag happened to be set.
THEOREM EveryLineKept == Spec => []NoLineLost
<1>1. TypeOK /\ RecoveryInv => NoLineLost
  <2>. SUFFICES ASSUME TypeOK, RecoveryInv, pc = "done", ~ub, lost = 0
                PROVE  Range(out) = TaskLines \ junk
    BY DEF NoLineLost
  <2>1. Read = SrcLines
    BY AllRead DEF RecoveryInv, FileMergeInv, Merging
  <2>. QED  BY <2>1 DEF RecoveryInv, FileMergeInv
<1>. QED  BY <1>1, RecoveryAlways, PTL
=============================================================================
