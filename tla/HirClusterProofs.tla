--------------------------- MODULE HirClusterProofs ---------------------------
(***************************************************************************)
(* Theorems about HirCluster: for any servers, slots, calls and failures,  *)
(* a caller that resets the pipeline after an error gets the replies to    *)
(* its own commands, no command is executed twice, and nothing is left on  *)
(* a good connection between calls.                                        *)
(***************************************************************************)
EXTENDS HirCluster, FiniteSetTheorems, TLAPS

(***************************************************************************)
(* The connections: what the steps of the client, of the servers and of    *)
(* their failures do to what travels on them, and why every sub-command    *)
(* that may still be executed is somewhere once.                           *)
(***************************************************************************)

(***************************************************************************)
(* Types.                                                                  *)
(***************************************************************************)
Sent == [t : {"cmd"}, id : 1 .. MaxCalls, slot : Slots] \cup {Asking, Ping}
Replies == [t : {"ok", "moved", "ask", "again", "error", "pong", "status"},
            id : 0 .. MaxCalls, slot : Slots \cup {None}, to : Addrs]
Contexts == [to : Addrs, err : BOOLEAN, up : BOOLEAN, asking : BOOLEAN,
             out : Seq(Sent), wire : Seq(Sent), in : Seq(Replies)]
Orphans == [msg : [t : {"cmd"}, id : 1 .. MaxCalls, slot : Slots], to : Addrs, asking : BOOLEAN]
Jobs == [id : 0 .. MaxCalls, todo : Seq(Slots), got : Seq(Sent \cup Replies)]

Calling == {"retry", "ping", "pong", "update", "asking", "reply"}
Fetching == {"get", "collect"}
Working == Calling \cup Fetching \cup {"append"}
Pcs == Working \cup {"connect", "idle", "drain", "reset", "freed"}

ServerType ==
    /\ alive \subseteq Addrs
    /\ view \in [Addrs -> [Slots -> Addrs]]
    /\ mig \in [Slots -> Addrs \cup {None}]
    /\ orphans \subseteq Orphans
    /\ executed \in [1 .. MaxCalls -> [Slots -> Nat]]

RouteType ==
    /\ nodes \subseteq Addrs \cup Slots
    /\ host \in [Slots \cup {Leaked} -> Addrs \cup {None}]
    /\ \A k \in nodes \ Addrs : host[k] \in Addrs
    /\ table \in [Slots -> Addrs \cup {None}]
    /\ con \in [Keys -> Contexts \cup {NoCon}]

\* the slots of a command are in increasing order
Increasing(q) == \A i, j \in 1 .. Len(q) : i < j => q[i] < q[j]

CallType ==
    /\ pc \in Pcs
    /\ calls \in 0 .. MaxCalls
    /\ cur \in Jobs
    /\ pc \in Working => cur.id \in 1 .. calls /\ Increasing(cur.todo) /\ Len(cur.got) < Len(cur.todo)
    /\ c \in Keys \cup {None}
    /\ requests \in Seq(Jobs)
    /\ \A j \in 1 .. Len(requests) :
          /\ requests[j].id \in 1 .. calls
          /\ Increasing(requests[j].todo)
          /\ requests[j].todo # <<>>
          /\ requests[j].got = <<>>
    /\ \A i, j \in 1 .. Len(requests) : i < j => requests[i].id < requests[j].id
    /\ {err, piping, draining} \subseteq BOOLEAN

Types == ServerType /\ RouteType /\ CallType

\* a context without an error, and one that carries nothing
Good(x) == x # NoCon /\ ~x.err
Empty(x) == x.in = <<>> /\ x.wire = <<>> /\ x.out = <<>>

\* what a context carries, in the order of the replies
All(x) == x.in \o x.wire \o x.out

-----------------------------------------------------------------------------
(***************************************************************************)
(* Every sub-command that may still be executed is somewhere once.         *)
(***************************************************************************)

\* what is on its way to a server
Unserved(x) == IF x = NoCon THEN <<>> ELSE x.wire \o x.out

IsCmd(m, i, s) == m.t = "cmd" /\ m.id = i /\ m.slot = s

\* sub-command (i, s) is not on its way and has not been executed
Clear(cn, orp, ex, i, s) ==
    /\ \A k \in Keys : \A n \in 1 .. Len(Unserved(cn[k])) : ~IsCmd(Unserved(cn[k])[n], i, s)
    /\ \A o \in orp : ~IsCmd(o.msg, i, s)
    /\ ex[i][s] = 0

Once(cn, orp, ex) ==
    /\ \A k, l \in Keys : \A m \in 1 .. Len(Unserved(cn[k])), n \in 1 .. Len(Unserved(cn[l])) :
          /\ Unserved(cn[k])[m].t = "cmd"
          /\ Unserved(cn[k])[m] = Unserved(cn[l])[n]
          => k = l /\ m = n
    /\ \A k \in Keys : \A n \in 1 .. Len(Unserved(cn[k])) :
          LET m == Unserved(cn[k])[n]
          IN  m.t = "cmd" => ex[m.id][m.slot] = 0 /\ \A o \in orp : o.msg # m
    /\ \A o \in orp : ex[o.msg.id][o.msg.slot] = 0
    /\ \A o, p \in orp : o.msg = p.msg => o = p
    /\ \A i \in 1 .. MaxCalls, s \in Slots : ex[i][s] <= 1

Fresh(i, s) == Clear(con, orphans, executed, i, s)

-----------------------------------------------------------------------------
(***************************************************************************)
(* Contexts.                                                               *)
(***************************************************************************)

\* What the assumption on the constants says of None and Leaked.
LEMMA Constants ==
    /\ None # Leaked
    /\ None \notin Addrs \cup Slots /\ Leaked \notin Addrs \cup Slots
    /\ Slots \subseteq Nat
    /\ Addrs \cap Slots = {}
    /\ None \notin Keys
    /\ MaxCalls \in Nat
<1>1. None # Leaked
  <2>. SUFFICES ASSUME None = Leaked PROVE FALSE
    OBVIOUS
  <2>1. {None, Leaked} = {None}
    OBVIOUS
  <2>2. Cardinality({None}) = 1
    BY FS_Singleton
  <2>3. Cardinality({None, Leaked}) = 2
    BY HirConstants DEF HirConstants
  <2>. QED  BY <2>1, <2>2, <2>3
<1>. QED  BY <1>1, HirConstants DEF Keys

\* A context is not the absence of one.
LEMMA ContextIsOne == ASSUME NEW x \in Contexts PROVE x # NoCon
  BY Constants DEF Contexts, NoCon

\* Concatenation, element by element.
LEMMA Joined ==
    ASSUME NEW S, NEW a \in Seq(S), NEW b \in Seq(S)
    PROVE  /\ a \o b \in Seq(S)
           /\ Len(a \o b) = Len(a) + Len(b)
           /\ \A i \in 1 .. Len(a) : (a \o b)[i] = a[i]
           /\ \A i \in 1 .. Len(b) : (a \o b)[Len(a) + i] = b[i]
  OBVIOUS

\* An index of a sequence.
LEMMA Inside ==
    ASSUME NEW S, NEW s \in Seq(S), NEW i \in 1 .. Len(s)
    PROVE  s # <<>> /\ i <= Len(s) /\ s[i] \in S /\ i \in Nat
  OBVIOUS

\* The same of three sequences.
LEMMA JoinedThree ==
    ASSUME NEW S, NEW a \in Seq(S), NEW b \in Seq(S), NEW d \in Seq(S)
    PROVE  /\ a \o b \o d \in Seq(S)
           /\ Len(a \o b \o d) = Len(a) + Len(b) + Len(d)
           /\ \A i \in 1 .. Len(a) : (a \o b \o d)[i] = a[i]
           /\ \A i \in 1 .. Len(b) : (a \o b \o d)[Len(a) + i] = b[i]
           /\ \A i \in 1 .. Len(d) : (a \o b \o d)[Len(a) + Len(b) + i] = d[i]
  OBVIOUS

\* What is added to the last of them is added to the whole.
LEMMA JoinedAppend ==
    ASSUME NEW S, NEW a \in Seq(S), NEW b \in Seq(S), NEW d \in Seq(S), NEW m \in S
    PROVE  /\ b \o Append(d, m) = Append(b \o d, m)
           /\ a \o b \o Append(d, m) = Append(a \o b \o d, m)
<1>1. b \o Append(d, m) = Append(b \o d, m)
  OBVIOUS
<1>2. a \o b \o Append(d, m) = Append(a \o b \o d, m)
  OBVIOUS
<1>. QED  BY <1>1, <1>2

\* What is taken from the first of them is taken from the whole.
LEMMA JoinedTail ==
    ASSUME NEW S, NEW a \in Seq(S), NEW b \in Seq(S), a # <<>>
    PROVE  a \o b # <<>> /\ Head(a \o b) = Head(a) /\ Tail(a) \o b = Tail(a \o b)
  OBVIOUS

\* The first element of the second of three sequences is moved to the end of
\* the first, as something else.
LEMMA JoinedReplace ==
    ASSUME NEW S, NEW a \in Seq(S), NEW d \in Seq(S), NEW e \in Seq(S), NEW r \in S, d # <<>>
    PROVE  /\ (Append(a, r) \o Tail(d) \o e)[Len(a) + 1] = r
           /\ (a \o d \o e)[Len(a) + 1] = Head(d)
           /\ \A i \in 1 .. Len(a \o d \o e) : i # Len(a) + 1 =>
                 (Append(a, r) \o Tail(d) \o e)[i] = (a \o d \o e)[i]
<1>. DEFINE f == Append(a, r)
            g == Tail(d)
            p == f \o g \o e
            q == a \o d \o e
<1>1. /\ f \in Seq(S) /\ g \in Seq(S) /\ Len(f) = Len(a) + 1 /\ Len(g) = Len(d) - 1 /\ Len(d) >= 1
      /\ \A i \in 1 .. Len(a) : f[i] = a[i]
      /\ f[Len(a) + 1] = r
      /\ \A i \in 1 .. Len(g) : g[i] = d[i + 1]
      /\ Head(d) = d[1]
      /\ Len(a) \in Nat /\ Len(d) \in Nat /\ Len(e) \in Nat
  OBVIOUS
<1>2. /\ \A i \in 1 .. Len(f) : p[i] = f[i]
      /\ \A i \in 1 .. Len(g) : p[Len(f) + i] = g[i]
      /\ \A i \in 1 .. Len(e) : p[Len(f) + Len(g) + i] = e[i]
  <2>1. f \in Seq(S) /\ g \in Seq(S)
    BY <1>1
  <2>. HIDE DEF f, g
  <2>. QED  BY <2>1, JoinedThree
<1>. HIDE DEF f, g
<1>3. /\ Len(q) = Len(a) + Len(d) + Len(e)
      /\ \A i \in 1 .. Len(a) : q[i] = a[i]
      /\ \A i \in 1 .. Len(d) : q[Len(a) + i] = d[i]
      /\ \A i \in 1 .. Len(e) : q[Len(a) + Len(d) + i] = e[i]
  BY JoinedThree
<1>. HIDE DEF p, q
<1>4. p[Len(a) + 1] = r
  BY <1>1, <1>2
<1>5. q[Len(a) + 1] = Head(d)
  BY <1>1, <1>3
<1>6. ASSUME NEW i \in 1 .. Len(q), i # Len(a) + 1
      PROVE  p[i] = q[i]
  <2>1. CASE i <= Len(a)
    BY <1>1, <1>2, <1>3, <2>1
  <2>2. CASE i > Len(a) + 1 /\ i <= Len(a) + Len(d)
    <3>. DEFINE j == i - Len(a) - 1
    <3>1. /\ j \in 1 .. Len(g) /\ j + 1 \in 1 .. Len(d)
          /\ i = Len(f) + j /\ i = Len(a) + (j + 1)
      BY <1>1, <2>2
    <3>. HIDE DEF j
    <3>2. p[i] = g[j] /\ q[i] = d[j + 1]
      BY <1>2, <1>3, <3>1
    <3>. QED  BY <1>1, <3>1, <3>2
  <2>3. CASE i > Len(a) + Len(d)
    <3>. DEFINE j == i - Len(a) - Len(d)
    <3>1. j \in 1 .. Len(e) /\ i = Len(a) + Len(d) + j
      BY <1>1, <1>3, <2>3
    <3>. HIDE DEF j
    <3>2. i = Len(f) + Len(g) + j
      BY <1>1, <3>1
    <3>. QED  BY <1>2, <1>3, <3>1, <3>2
  <2>. QED  BY <1>1, <1>6, <2>1, <2>2, <2>3
<1>. QED  BY <1>4, <1>5, <1>6 DEF f, g, p, q

\* The parts of a context, and what it carries.
LEMMA Parts ==
    ASSUME NEW x \in Contexts
    PROVE  /\ x.in \in Seq(Replies) /\ x.wire \in Seq(Sent) /\ x.out \in Seq(Sent)
           /\ x.in \in Seq(Sent \cup Replies) /\ x.wire \in Seq(Sent \cup Replies)
           /\ x.out \in Seq(Sent \cup Replies)
           /\ All(x) = x.in \o x.wire \o x.out
           /\ Unserved(x) = x.wire \o x.out
           /\ x # NoCon
<1>1. x # NoCon
  BY ContextIsOne
<1>2. x.in \in Seq(Replies) /\ x.wire \in Seq(Sent) /\ x.out \in Seq(Sent)
  BY DEF Contexts
<1>3. /\ x.in \in Seq(Sent \cup Replies) /\ x.wire \in Seq(Sent \cup Replies)
      /\ x.out \in Seq(Sent \cup Replies)
  <2>1. \A S, T : \A a \in Seq(S) : a \in Seq(S \cup T) /\ a \in Seq(T \cup S)
    OBVIOUS
  <2>. QED  BY <1>2, <2>1, Zenon
<1>4. All(x) = x.in \o x.wire \o x.out
  BY DEF All
<1>5. Unserved(x) = x.wire \o x.out
  BY <1>1 DEF Unserved
<1>. QED  BY <1>1, <1>2, <1>3, <1>4, <1>5

\* What a context carries is its three parts one after the other.
LEMMA AllParts ==
    ASSUME NEW x \in Contexts
    PROVE  /\ Len(x.in) \in Nat /\ Len(x.wire) \in Nat /\ Len(x.out) \in Nat
           /\ All(x) \in Seq(Sent \cup Replies)
           /\ Len(All(x)) = Len(x.in) + Len(x.wire) + Len(x.out)
           /\ \A i \in 1 .. Len(x.in) : All(x)[i] = x.in[i]
           /\ \A i \in 1 .. Len(x.wire) : All(x)[Len(x.in) + i] = x.wire[i]
           /\ \A i \in 1 .. Len(x.out) : All(x)[Len(x.in) + Len(x.wire) + i] = x.out[i]
           /\ Unserved(x) \in Seq(Sent)
           /\ Len(Unserved(x)) = Len(x.wire) + Len(x.out)
           /\ \A i \in 1 .. Len(x.wire) : Unserved(x)[i] = x.wire[i]
           /\ \A i \in 1 .. Len(x.out) : Unserved(x)[Len(x.wire) + i] = x.out[i]
<1>. DEFINE T == Sent \cup Replies
            a == x.in
            b == x.wire
            d == x.out
            q == All(x)
            u == Unserved(x)
<1>1. /\ a \in Seq(T) /\ b \in Seq(T) /\ d \in Seq(T)
      /\ b \in Seq(Sent) /\ d \in Seq(Sent)
      /\ q = a \o b \o d /\ u = b \o d
  BY Parts
<1>. HIDE DEF T, a, b, d, q, u
<1>2. /\ Len(a) \in Nat /\ Len(b) \in Nat /\ Len(d) \in Nat
      /\ q \in Seq(T)
      /\ Len(q) = Len(a) + Len(b) + Len(d)
      /\ \A i \in 1 .. Len(a) : q[i] = a[i]
      /\ \A i \in 1 .. Len(b) : q[Len(a) + i] = b[i]
      /\ \A i \in 1 .. Len(d) : q[Len(a) + Len(b) + i] = d[i]
  BY <1>1, JoinedThree
<1>3. /\ u \in Seq(Sent)
      /\ Len(u) = Len(b) + Len(d)
      /\ \A i \in 1 .. Len(b) : u[i] = b[i]
      /\ \A i \in 1 .. Len(d) : u[Len(b) + i] = d[i]
  BY <1>1, Joined
<1>. QED  BY <1>2, <1>3, Zenon DEF T, a, b, d, q, u

\* __redisAppendCommand adds a message at the end.
LEMMA PutContext ==
    ASSUME NEW x \in Contexts, NEW m \in Sent
    PROVE  /\ Put(x, m) \in Contexts
           /\ Put(x, m).in = x.in /\ Put(x, m).up = x.up /\ Put(x, m).err = x.err
           /\ All(Put(x, m)) = Append(All(x), m)
           /\ Unserved(Put(x, m)) = Append(Unserved(x), m)
<1>. DEFINE y == Put(x, m)
            T == Sent \cup Replies
            a == x.in
            b == x.wire
            d == x.out
            e == y.out
            q == All(x)
            r == All(y)
            u == Unserved(x)
            v == Unserved(y)
<1>1. /\ y.in = x.in /\ y.wire = x.wire /\ e = Append(d, m)
      /\ y.up = x.up /\ y.err = x.err
  BY DEF Contexts, Put
<1>2. d \in Seq(Sent)
  BY Parts
<1>3. Append(d, m) \in Seq(Sent)
  <2>. HIDE DEF d
  <2>. QED  BY <1>2
<1>4. y \in Contexts
  BY <1>3 DEF Contexts, Put
<1>5. /\ a \in Seq(T) /\ b \in Seq(T) /\ d \in Seq(T) /\ m \in T
      /\ q = a \o b \o d /\ u = b \o d
      /\ r = a \o b \o e /\ v = b \o e
  BY <1>1, <1>4, Parts
<1>. HIDE DEF T, a, b, d, e, q, r, u, v
<1>6. e = Append(d, m)
  BY <1>1
<1>7. r = Append(q, m) /\ v = Append(u, m)
  <2>1. r = a \o b \o Append(d, m) /\ v = b \o Append(d, m)
    BY <1>5, <1>6, Zenon
  <2>2. a \in Seq(T) /\ b \in Seq(T) /\ d \in Seq(T) /\ m \in T
    BY <1>5
  <2>3. b \o Append(d, m) = Append(b \o d, m) /\ a \o b \o Append(d, m) = Append(a \o b \o d, m)
    BY <2>2, JoinedAppend
  <2>. QED  BY <1>5, <2>1, <2>3, Zenon
<1>. QED  BY <1>1, <1>4, <1>7 DEF q, r, u, v, e

\* redisBufferWrite moves what is buffered to the wire.
LEMMA WriteContext ==
    ASSUME NEW x \in Contexts, NEW y, y = [x EXCEPT !.wire = x.wire \o x.out, !.out = <<>>]
    PROVE  /\ y \in Contexts
           /\ y.in = x.in /\ y.up = x.up /\ y.err = x.err
           /\ All(y) = All(x)
           /\ Unserved(y) = Unserved(x)
<1>. DEFINE T == Sent \cup Replies
            a == x.in
            b == x.wire
            d == x.out
            e == y.wire
            f == y.out
<1>1. /\ y.in = x.in /\ y.up = x.up /\ y.err = x.err
      /\ e = b \o d /\ f = <<>>
  BY DEF Contexts
<1>2. a \in Seq(T) /\ b \in Seq(T) /\ d \in Seq(T) /\ b \in Seq(Sent) /\ d \in Seq(Sent)
  BY Parts
<1>3. b \o d \in Seq(Sent) /\ <<>> \in Seq(Sent)
  <2>. HIDE DEF b, d
  <2>. QED  BY <1>2
<1>4. y \in Contexts
  BY <1>3 DEF Contexts
<1>5. /\ All(x) = a \o b \o d /\ Unserved(x) = b \o d
      /\ All(y) = a \o e \o f /\ Unserved(y) = e \o f
  BY <1>1, <1>4, Parts
<1>6. e = b \o d /\ f = <<>>
  BY <1>1
<1>. HIDE DEF T, a, b, d, e, f
<1>7. (b \o d) \o <<>> = b \o d /\ a \o (b \o d) \o <<>> = a \o b \o d
  BY <1>2
<1>8. All(y) = All(x) /\ Unserved(y) = Unserved(x)
  BY <1>5, <1>6, <1>7, Zenon
<1>. QED  BY <1>1, <1>4, <1>8

\* redisGetReply takes the first reply.
LEMMA ReadContext ==
    ASSUME NEW x \in Contexts, x.in # <<>>, NEW y, y = [x EXCEPT !.in = Tail(x.in)]
    PROVE  /\ y \in Contexts
           /\ y.in = Tail(x.in) /\ y.up = x.up /\ y.err = x.err
           /\ All(y) = Tail(All(x))
           /\ Unserved(y) = Unserved(x)
<1>. DEFINE T == Sent \cup Replies
            a == x.in
            b == x.wire
            d == x.out
            e == y.in
<1>1. y.wire = x.wire /\ y.out = x.out /\ y.up = x.up /\ y.err = x.err
  BY DEF Contexts
<1>2. e = Tail(a)
  BY DEF Contexts
<1>3. a \in Seq(T) /\ b \in Seq(T) /\ d \in Seq(T) /\ a \in Seq(Replies)
  BY Parts
<1>4. Tail(a) \in Seq(Replies)
  <2>1. a # <<>>
    OBVIOUS
  <2>. HIDE DEF a
  <2>. QED  BY <1>3, <2>1
<1>5. y \in Contexts
  BY <1>4 DEF Contexts
<1>6. /\ All(x) = a \o b \o d /\ Unserved(x) = b \o d
      /\ All(y) = e \o b \o d /\ Unserved(y) = b \o d
  BY <1>1, <1>5, Parts
<1>7. a # <<>>
  OBVIOUS
<1>. HIDE DEF T, a, b, d, e
<1>8. Tail(a) \o b \o d = Tail(a \o b \o d)
  <2>1. Tail(a) \o b = Tail(a \o b) /\ a \o b # <<>> /\ a \o b \in Seq(T)
    BY <1>3, <1>7, Joined, JoinedTail
  <2>2. Tail(a \o b) \o d = Tail((a \o b) \o d)
    BY <1>3, <2>1, JoinedTail
  <2>. QED  BY <2>1, <2>2, Zenon
<1>9. All(y) = Tail(All(x)) /\ Unserved(y) = Unserved(x)
  BY <1>2, <1>6, <1>8, Zenon
<1>. QED  BY <1>1, <1>2, <1>5, <1>9 DEF a, e

\* A server replaces the first message on the wire by its reply.
LEMMA ServeContext ==
    ASSUME NEW x \in Contexts, x.wire # <<>>, NEW r \in Replies, NEW y \in Contexts,
           y.wire = Tail(x.wire), y.in = Append(x.in, r), y.out = x.out
    PROVE  /\ Len(All(y)) = Len(All(x))
           /\ Len(x.in) + 1 \in 1 .. Len(All(x))
           /\ All(y)[Len(x.in) + 1] = r
           /\ All(x)[Len(x.in) + 1] = Head(x.wire)
           /\ \A i \in 1 .. Len(All(x)) : i # Len(x.in) + 1 => All(y)[i] = All(x)[i]
           /\ Unserved(x) # <<>> /\ Head(Unserved(x)) = Head(x.wire)
           /\ Unserved(y) = Tail(Unserved(x))
<1>. DEFINE T == Sent \cup Replies
            a == x.in
            d == x.wire
            e == x.out
            f == y.in
            g == y.wire
            q == All(x)
            p == All(y)
            u == Unserved(x)
            v == Unserved(y)
<1>2. f = Append(a, r) /\ g = Tail(d) /\ d # <<>>
  OBVIOUS
<1>3. /\ a \in Seq(T) /\ d \in Seq(T) /\ e \in Seq(T) /\ r \in T
  BY Parts
<1>6. q = a \o d \o e /\ u = d \o e /\ p = f \o g \o e /\ v = g \o e
  BY Parts
<1>. HIDE DEF T, a, d, e, f, g, p, q, u, v
<1>8. p = Append(a, r) \o Tail(d) \o e /\ v = Tail(d) \o e
  BY <1>2, <1>6, Zenon
<1>9. Tail(d) \o e = Tail(d \o e) /\ d \o e # <<>> /\ Head(d \o e) = Head(d)
  BY <1>2, <1>3
<1>10. /\ Len(Append(a, r) \o Tail(d) \o e) = Len(a \o d \o e)
       /\ Len(a) + 1 \in 1 .. Len(a \o d \o e)
  BY <1>2, <1>3
<1>11. /\ (Append(a, r) \o Tail(d) \o e)[Len(a) + 1] = r
       /\ (a \o d \o e)[Len(a) + 1] = Head(d)
       /\ \A i \in 1 .. Len(a \o d \o e) : i # Len(a) + 1 =>
             (Append(a, r) \o Tail(d) \o e)[i] = (a \o d \o e)[i]
  BY <1>2, <1>3, JoinedReplace
<1>12. /\ Len(p) = Len(q) /\ Len(a) + 1 \in 1 .. Len(q) /\ p[Len(a) + 1] = r /\ q[Len(a) + 1] = Head(d)
       /\ \A i \in 1 .. Len(q) : i # Len(a) + 1 => p[i] = q[i]
       /\ u # <<>> /\ Head(u) = Head(d) /\ v = Tail(u)
  BY <1>6, <1>8, <1>9, <1>10, <1>11, Zenon
<1>. QED  BY <1>12 DEF a, d, p, q, u, v

\* redisGetReply gives no reply.
LEMMA FailContext ==
    ASSUME NEW x \in Contexts, NEW y, y = [x EXCEPT !.err = TRUE]
    PROVE  y \in Contexts /\ y.err /\ Unserved(y) = Unserved(x)
<1>1. y \in Contexts /\ y.err /\ y.wire = x.wire /\ y.out = x.out
  BY DEF Contexts
<1>. QED  BY <1>1, Parts

\* A new connection carries nothing.
LEMMA FreshContext ==
    ASSUME NEW a \in Addrs
    PROVE  /\ redisConnect(a) \in Contexts
           /\ Empty(redisConnect(a))
           /\ Unserved(redisConnect(a)) = <<>>
<1>. DEFINE x == redisContextInit(a)
            y == redisConnect(a)
<1>1. x \in Contexts
  BY DEF redisContextInit, Contexts
<1>2. y = [x EXCEPT !.up = TRUE] \/ y = [x EXCEPT !.err = TRUE]
  BY DEF redisConnect, redisContextConnectTcp
<1>3. y \in Contexts /\ y.in = x.in /\ y.wire = x.wire /\ y.out = x.out
  BY <1>1, <1>2 DEF Contexts
<1>4. x.in = <<>> /\ x.wire = <<>> /\ x.out = <<>>
  BY DEF redisContextInit
<1>5. Empty(y)
  BY <1>3, <1>4 DEF Empty
<1>6. Unserved(y) = <<>> \o <<>>
  BY <1>3, <1>4, Parts
<1>7. Unserved(y) = <<>>
  BY <1>6
<1>. QED  BY <1>3, <1>5, <1>7

\* ctx_get_by_node gives the good context that is there, or a new one.
LEMMA GetContext ==
    ASSUME Types, NEW k \in nodes \cup Addrs
    PROVE  /\ k \in Keys
           /\ ctx_get_by_node(k) \in Contexts
           /\ con[k] \in Contexts \cup {NoCon}
           /\ Good(con[k]) => ctx_get_by_node(k) = con[k]
           /\ ~Good(con[k]) => Empty(ctx_get_by_node(k)) /\ Unserved(ctx_get_by_node(k)) = <<>>
           /\ con[k] # NoCon /\ con[k].err <=> con[k] # NoCon /\ ~Good(con[k])
<1>1. k \in Keys /\ con[k] \in Contexts \cup {NoCon}
  BY DEF Types, RouteType, Keys
<1>2. Host(k) \in Addrs
  BY DEF Types, RouteType, Host
<1>3. CASE con[k] = NoCon
  BY <1>1, <1>2, <1>3, FreshContext DEF ctx_get_by_node, Good
<1>4. CASE con[k] # NoCon
  <2>1. con[k] \in Contexts /\ con[k].to \in Addrs /\ con[k].err \in BOOLEAN
    BY <1>1, <1>4 DEF Contexts
  <2>2. CASE con[k].err
    BY <1>1, <1>4, <2>1, <2>2, FreshContext DEF ctx_get_by_node, redisReconnect, Good
  <2>3. CASE ~con[k].err
    BY <1>1, <1>4, <2>1, <2>3 DEF ctx_get_by_node, Good
  <2>. QED  BY <2>1, <2>2, <2>3
<1>. QED  BY <1>3, <1>4

\* redisFree leaves the sub-commands on the wire as orphans.
LEMMA Freed ==
    ASSUME NEW x \in Contexts
    PROVE  /\ redisFree(x) \subseteq Orphans
           /\ \A o \in redisFree(x) : \E i \in 1 .. Len(x.wire) : o.msg = x.wire[i]
           /\ (\A i, j \in 1 .. Len(x.wire) : x.wire[i].t = "cmd" /\ x.wire[i] = x.wire[j] => i = j)
                 => \A o, p \in redisFree(x) : o.msg = p.msg => o = p
<1>. DEFINE w == x.wire
            first == x.asking
            O(i) == [msg |-> w[i], to |-> x.to, asking |-> IF i = 1 THEN first ELSE w[i-1] = Asking]
            I == {j \in DOMAIN w : w[j].t = "cmd"}
<1>1. redisFree(x) = {O(i) : i \in I}
  BY ContextIsOne DEF redisFree
<1>2. w \in Seq(Sent) /\ first \in BOOLEAN /\ x.to \in Addrs
  BY DEF Contexts
<1>3. \A i \in I : i \in 1 .. Len(w) /\ w[i].t = "cmd" /\ w[i] \in Sent
  <2>. HIDE DEF w
  <2>. QED  BY <1>2
<1>4. \A m \in Sent : m.t = "cmd" => m \in [t : {"cmd"}, id : 1 .. MaxCalls, slot : Slots]
  BY DEF Sent, Asking, Ping
<1>. HIDE DEF w, I, first
<1>5. \A i \in I : O(i) \in Orphans
  BY <1>2, <1>3, <1>4 DEF Orphans
<1>6. \A i \in I : O(i).msg = w[i]
  OBVIOUS
<1>7. ASSUME \A i, j \in 1 .. Len(w) : w[i].t = "cmd" /\ w[i] = w[j] => i = j
      PROVE  \A i, j \in I : O(i).msg = O(j).msg => O(i) = O(j)
  BY <1>3, <1>6, <1>7
<1>. HIDE DEF O
<1>. QED  BY <1>1, <1>3, <1>5, <1>6, <1>7 DEF w

-----------------------------------------------------------------------------
(***************************************************************************)
(* What steps do to the sub-commands that may still be executed.           *)
(***************************************************************************)

\* v is u without some of its first elements
Suffix(u, v) ==
    /\ Len(v) <= Len(u)
    /\ \A i \in 1 .. Len(v) : v[i] = u[Len(u) - Len(v) + i]

\* Nothing, everything, all but the first, and what is not on the wire.
LEMMA Suffixes ==
    ASSUME NEW S, NEW u \in Seq(S)
    PROVE  /\ Suffix(u, u)
           /\ Suffix(u, <<>>)
           /\ u # <<>> => Suffix(u, Tail(u))
           /\ \A w \in Seq(S) : Suffix(w \o u, u)
<1>1. Suffix(u, u) /\ Suffix(u, <<>>)
  BY DEF Suffix
<1>2. u # <<>> => Suffix(u, Tail(u))
  BY DEF Suffix
<1>3. ASSUME NEW w \in Seq(S)
      PROVE  Suffix(w \o u, u)
  BY Joined DEF Suffix
<1>. QED  BY <1>1, <1>2, <1>3

Connections == [Keys -> Contexts \cup {NoCon}]
Executions == [1 .. MaxCalls -> [Slots -> Nat]]

\* What is on its way on any of the connections.
LEMMA UnservedType ==
    ASSUME NEW cn \in Connections, NEW k \in Keys
    PROVE  Unserved(cn[k]) \in Seq(Sent) /\ (cn[k] = NoCon => Unserved(cn[k]) = <<>>)
<1>1. CASE cn[k] = NoCon
  BY <1>1 DEF Unserved
<1>2. CASE cn[k] \in Contexts
  BY <1>2, AllParts, ContextIsOne
<1>. QED  BY <1>1, <1>2 DEF Connections

\* What is on its way may disappear, and what was on the wire of a connection
\* that is closed may become an orphan.
LEMMA LessKeeps ==
    ASSUME NEW cn \in Connections, NEW cm \in Connections,
           NEW orp \in SUBSET Orphans, NEW ors \in SUBSET Orphans, NEW ex \in Executions,
           \A k \in Keys : Suffix(Unserved(cn[k]), Unserved(cm[k])),
           \A o \in ors : o \in orp \/ \E k \in Keys :
              /\ cn[k] # NoCon
              /\ o \in redisFree(cn[k])
              /\ Len(Unserved(cm[k])) <= Len(cn[k].out),
           Once(cn, orp, ex)
    PROVE  /\ Once(cm, ors, ex)
           /\ \A i \in 1 .. MaxCalls, s \in Slots : Clear(cn, orp, ex, i, s) => Clear(cm, ors, ex, i, s)
<1>. DEFINE U(k) == Unserved(cn[k])
            V(k) == Unserved(cm[k])
            at(k, n) == Len(U(k)) - Len(V(k)) + n
<1>1. \A k \in Keys : U(k) \in Seq(Sent) /\ V(k) \in Seq(Sent)
  BY UnservedType
<1>2. ASSUME NEW k \in Keys, NEW n \in 1 .. Len(V(k))
      PROVE  at(k, n) \in 1 .. Len(U(k)) /\ V(k)[n] = U(k)[at(k, n)] /\ V(k)[n] \in Sent
  <2>1. Len(U(k)) \in Nat /\ Len(V(k)) \in Nat /\ Len(V(k)) <= Len(U(k)) /\ V(k)[n] = U(k)[at(k, n)]
    BY <1>1 DEF Suffix
  <2>2. V(k)[n] \in Sent
    BY <1>1
  <2>. QED  BY <2>1, <2>2
\* a new orphan and where it was
<1>3. ASSUME NEW o \in ors \ orp
      PROVE  \E k \in Keys : \E i \in 1 .. Len(U(k)) :
                /\ o.msg = U(k)[i] /\ o \in redisFree(cn[k]) /\ cn[k] \in Contexts
                /\ \A n \in 1 .. Len(V(k)) : at(k, n) # i
  <2>1. PICK k \in Keys : cn[k] # NoCon /\ o \in redisFree(cn[k]) /\ Len(Unserved(cm[k])) <= Len(cn[k].out)
    BY <1>3
  <2>2. cn[k] \in Contexts
    BY <2>1 DEF Connections
  <2>3. PICK i \in 1 .. Len(cn[k].wire) : o.msg = cn[k].wire[i]
    BY <2>1, <2>2, Freed
  <2>4. /\ Len(cn[k].wire) \in Nat /\ Len(cn[k].out) \in Nat
        /\ Len(U(k)) = Len(cn[k].wire) + Len(cn[k].out)
        /\ U(k)[i] = cn[k].wire[i]
    BY <2>2, AllParts
  <2>5. i \in 1 .. Len(U(k)) /\ \A n \in 1 .. Len(V(k)) : at(k, n) # i
    <3>. DEFINE lw == Len(cn[k].wire)
                lo == Len(cn[k].out)
                lu == Len(U(k))
                lv == Len(V(k))
    <3>1. lw \in Nat /\ lo \in Nat /\ lu = lw + lo /\ i \in 1 .. lw
      BY <2>3, <2>4
    <3>2. lv \in Nat /\ lv <= lo
      BY <1>1, <2>1
    <3>3. \A n \in 1 .. lv : at(k, n) = lu - lv + n
      OBVIOUS
    <3>. HIDE DEF lw, lo, lu, lv, at
    <3>4. i \in 1 .. lu /\ \A n \in 1 .. lv : at(k, n) # i
      BY <3>1, <3>2, <3>3
    <3>. QED  BY <3>4 DEF lu, lv
  <2>. QED  BY <2>1, <2>2, <2>3, <2>4, <2>5
<1>4. \A o \in ors : o.msg \in Sent /\ o.msg.t = "cmd" /\ o.msg.id \in 1 .. MaxCalls /\ o.msg.slot \in Slots
  BY DEF Orphans, Sent
<1>13. \A k, l \in Keys : \A m \in 1 .. Len(U(k)), n \in 1 .. Len(U(l)) :
          U(k)[m].t = "cmd" /\ U(k)[m] = U(l)[n] => k = l /\ m = n
  BY DEF Once
<1>. HIDE DEF U, V, at
<1>5. ASSUME NEW k \in Keys, NEW l \in Keys, NEW m \in 1 .. Len(V(k)), NEW n \in 1 .. Len(V(l)),
             V(k)[m].t = "cmd", V(k)[m] = V(l)[n]
      PROVE  k = l /\ m = n
  <2>1. k = l /\ at(k, m) = at(l, n)
    BY <1>2, <1>5 DEF Once, U
  <2>2. Len(U(k)) \in Nat /\ Len(V(k)) \in Nat
    BY <1>1
  <2>. QED  BY <2>1, <2>2 DEF at
<1>6. ASSUME NEW k \in Keys, NEW n \in 1 .. Len(V(k)), V(k)[n].t = "cmd"
      PROVE  ex[V(k)[n].id][V(k)[n].slot] = 0 /\ \A o \in ors : o.msg # V(k)[n]
  <2>1. ex[V(k)[n].id][V(k)[n].slot] = 0 /\ \A o \in orp : o.msg # V(k)[n]
    BY <1>2, <1>6 DEF Once, U
  <2>2. ASSUME NEW o \in ors \ orp, o.msg = V(k)[n]
        PROVE  FALSE
    <3>1. PICK l \in Keys : \E i \in 1 .. Len(U(l)) :
             o.msg = U(l)[i] /\ \A j \in 1 .. Len(V(l)) : at(l, j) # i
      BY <1>3, <2>2
    <3>2. PICK i \in 1 .. Len(U(l)) : o.msg = U(l)[i] /\ \A j \in 1 .. Len(V(l)) : at(l, j) # i
      BY <3>1
    <3>3. k = l /\ at(k, n) = i
      <4>1. /\ at(k, n) \in 1 .. Len(U(k))
            /\ U(k)[at(k, n)].t = "cmd" /\ U(k)[at(k, n)] = U(l)[i]
        BY <1>2, <1>6, <2>2, <3>2, Zenon
      <4>. QED  BY <1>13, <4>1
    <3>. QED  BY <3>2, <3>3
  <2>. QED  BY <2>1, <2>2
<1>7. ASSUME NEW o \in ors
      PROVE  ex[o.msg.id][o.msg.slot] = 0
  BY <1>3, <1>4, <1>7 DEF Once, U
<1>8. ASSUME NEW o \in ors, NEW p \in ors, o.msg = p.msg
      PROVE  o = p
  <2>1. CASE o \in orp /\ p \in orp
    BY <1>8, <2>1 DEF Once
  <2>2. ASSUME NEW a \in ors \ orp, NEW b \in orp, a.msg = b.msg
        PROVE  FALSE
    BY <1>3, <1>4, <2>2 DEF Once, U
  <2>3. CASE o \notin orp /\ p \notin orp
    <3>1. PICK k \in Keys : \E i \in 1 .. Len(U(k)) :
             o.msg = U(k)[i] /\ o \in redisFree(cn[k]) /\ cn[k] \in Contexts
      BY <1>3, <2>3
    <3>2. PICK l \in Keys : \E i \in 1 .. Len(U(l)) :
             p.msg = U(l)[i] /\ p \in redisFree(cn[l])
      BY <1>3, <2>3
    <3>3. k = l
      <4>1. PICK i \in 1 .. Len(U(k)) : o.msg = U(k)[i]
        BY <3>1
      <4>2. PICK j \in 1 .. Len(U(l)) : p.msg = U(l)[j]
        BY <3>2
      <4>3. U(k)[i].t = "cmd" /\ U(k)[i] = U(l)[j]
        BY <1>4, <1>8, <4>1, <4>2, Zenon
      <4>. QED  BY <1>13, <4>3
    <3>4. \A i, j \in 1 .. Len(cn[k].wire) : cn[k].wire[i].t = "cmd" /\ cn[k].wire[i] = cn[k].wire[j] => i = j
      <4>. DEFINE lw == Len(cn[k].wire)
                  lo == Len(cn[k].out)
      <4>1. /\ lw \in Nat /\ lo \in Nat
            /\ Len(U(k)) = lw + lo
            /\ \A i \in 1 .. lw : U(k)[i] = cn[k].wire[i]
        BY <3>1, AllParts DEF U
      <4>2. \A i \in 1 .. lw : i \in 1 .. Len(U(k))
        <5>. HIDE DEF lw, lo
        <5>. QED  BY <4>1
      <4>. HIDE DEF lw
      <4>3. ASSUME NEW i \in 1 .. lw, NEW j \in 1 .. lw, cn[k].wire[i].t = "cmd", cn[k].wire[i] = cn[k].wire[j]
            PROVE  i = j
        <5>1. U(k)[i].t = "cmd" /\ U(k)[i] = U(k)[j]
          BY <4>1, <4>3, Zenon
        <5>. QED  BY <1>13, <4>2, <5>1
      <4>. QED  BY <4>3 DEF lw
    <3>. QED  BY <1>8, <3>1, <3>2, <3>3, <3>4, Freed
  <2>. QED  BY <1>8, <2>1, <2>2, <2>3
<1>9. Once(cm, ors, ex)
  <2>1. \A i \in 1 .. MaxCalls, s \in Slots : ex[i][s] <= 1
    BY DEF Once
  <2>. QED  BY <1>5, <1>6, <1>7, <1>8, <2>1 DEF Once, V
<1>10. ASSUME NEW i \in 1 .. MaxCalls, NEW s \in Slots, Clear(cn, orp, ex, i, s)
       PROVE  Clear(cm, ors, ex, i, s)
  <2>1. \A k \in Keys : \A n \in 1 .. Len(V(k)) : ~IsCmd(V(k)[n], i, s)
    BY <1>2, <1>10 DEF Clear, U
  <2>2. \A o \in ors : ~IsCmd(o.msg, i, s)
    BY <1>3, <1>10 DEF Clear, U
  <2>. QED  BY <1>10, <2>1, <2>2 DEF Clear, V
<1>. QED  BY <1>9, <1>10

\* A message is added to a connection: a sub-command only if it is clear.
LEMMA PutKeeps ==
    ASSUME NEW cn \in Connections, NEW cm \in Connections, NEW k \in Keys, NEW m \in Sent,
           NEW orp \in SUBSET Orphans, NEW ex \in Executions,
           Unserved(cm[k]) = Append(Unserved(cn[k]), m),
           \A l \in Keys \ {k} : Unserved(cm[l]) = Unserved(cn[l]),
           m.t = "cmd" => Clear(cn, orp, ex, m.id, m.slot),
           Once(cn, orp, ex)
    PROVE  /\ Once(cm, orp, ex)
           /\ \A i \in 1 .. MaxCalls, s \in Slots :
                 Clear(cn, orp, ex, i, s) /\ ~IsCmd(m, i, s) => Clear(cm, orp, ex, i, s)
<1>. DEFINE U(l) == Unserved(cn[l])
            V(l) == Unserved(cm[l])
            new(l, n) == l = k /\ n = Len(U(k)) + 1
<1>1. \A l \in Keys : U(l) \in Seq(Sent)
  BY UnservedType
<1>2. \A l, o \in Keys : \A i \in 1 .. Len(U(l)), j \in 1 .. Len(U(o)) :
          U(l)[i].t = "cmd" /\ U(l)[i] = U(o)[j] => l = o /\ i = j
  BY DEF Once
<1>3. /\ \A l \in Keys : \A n \in 1 .. Len(U(l)) :
            U(l)[n].t = "cmd" => ex[U(l)[n].id][U(l)[n].slot] = 0 /\ \A o \in orp : o.msg # U(l)[n]
      /\ m.t = "cmd" => /\ \A l \in Keys : \A n \in 1 .. Len(U(l)) : U(l)[n] # m
                        /\ \A o \in orp : o.msg # m
                        /\ ex[m.id][m.slot] = 0
  <2>1. \A l \in Keys : \A n \in 1 .. Len(U(l)) :
            U(l)[n].t = "cmd" => ex[U(l)[n].id][U(l)[n].slot] = 0 /\ \A o \in orp : o.msg # U(l)[n]
    BY DEF Once
  <2>2. ASSUME m.t = "cmd"
        PROVE  /\ \A l \in Keys : \A n \in 1 .. Len(U(l)) : ~IsCmd(U(l)[n], m.id, m.slot)
               /\ \A o \in orp : ~IsCmd(o.msg, m.id, m.slot)
               /\ ex[m.id][m.slot] = 0
    BY <2>2 DEF Clear
  <2>3. m.t = "cmd" => IsCmd(m, m.id, m.slot)
    BY DEF IsCmd
  <2>. QED  BY <2>1, <2>2, <2>3, Zenon
<1>4. V(k) = Append(U(k), m) /\ \A l \in Keys \ {k} : V(l) = U(l)
  OBVIOUS
<1>. HIDE DEF U, V
<1>5. ASSUME NEW l \in Keys, NEW n \in 1 .. Len(V(l))
      PROVE  \/ n \in 1 .. Len(U(l)) /\ V(l)[n] = U(l)[n] /\ ~new(l, n)
             \/ new(l, n) /\ V(l)[n] = m
  BY <1>1, <1>4, <1>5
<1>. HIDE DEF new
<1>6. ASSUME NEW l \in Keys, NEW o \in Keys, NEW i \in 1 .. Len(V(l)), NEW j \in 1 .. Len(V(o)),
             V(l)[i].t = "cmd", V(l)[i] = V(o)[j]
      PROVE  l = o /\ i = j
  <2>1. CASE new(l, i) /\ new(o, j)
    BY <2>1 DEF new
  <2>2. CASE ~new(l, i) /\ ~new(o, j)
    <3>1. /\ i \in 1 .. Len(U(l)) /\ j \in 1 .. Len(U(o))
          /\ U(l)[i].t = "cmd" /\ U(l)[i] = U(o)[j]
      BY <1>5, <1>6, <2>2, Zenon
    <3>. QED  BY <1>2, <3>1
  <2>3. CASE ~(new(l, i) <=> new(o, j))
    BY <1>3, <1>5, <1>6, <2>3, Zenon
  <2>. QED  BY <2>1, <2>2, <2>3
<1>7. ASSUME NEW l \in Keys, NEW n \in 1 .. Len(V(l)), V(l)[n].t = "cmd"
      PROVE  ex[V(l)[n].id][V(l)[n].slot] = 0 /\ \A o \in orp : o.msg # V(l)[n]
  <2>. DEFINE a == V(l)[n]
  <2>1. a.t = "cmd"
    BY <1>7
  <2>2. \/ n \in 1 .. Len(U(l)) /\ a = U(l)[n]
        \/ a = m
    BY <1>5
  <2>. HIDE DEF a
  <2>3. ex[a.id][a.slot] = 0 /\ \A o \in orp : o.msg # a
    BY <1>3, <2>1, <2>2, Zenon
  <2>. QED  BY <2>3 DEF a
<1>8. Once(cm, orp, ex)
  <2>1. /\ \A o \in orp : ex[o.msg.id][o.msg.slot] = 0
        /\ \A o, p \in orp : o.msg = p.msg => o = p
        /\ \A i \in 1 .. MaxCalls, s \in Slots : ex[i][s] <= 1
    BY DEF Once
  <2>. QED  BY <1>6, <1>7, <2>1 DEF Once, V
<1>9. ASSUME NEW i \in 1 .. MaxCalls, NEW s \in Slots, Clear(cn, orp, ex, i, s), ~IsCmd(m, i, s)
      PROVE  Clear(cm, orp, ex, i, s)
  <2>1. \A l \in Keys : \A n \in 1 .. Len(U(l)) : ~IsCmd(U(l)[n], i, s)
    BY <1>9 DEF Clear, U
  <2>2. \A l \in Keys : \A n \in 1 .. Len(V(l)) : ~IsCmd(V(l)[n], i, s)
    BY <1>5, <1>9, <2>1, Zenon
  <2>. QED  BY <1>9, <2>2 DEF Clear, V
<1>. QED  BY <1>8, <1>9

\* Where a sub-command was replied to, with its execution or without.
Executed(ex, m, done) == IF done THEN [ex EXCEPT ![m.id][m.slot] = @ + 1] ELSE ex

\* A server takes a message from a connection.
LEMMA ServeKeeps ==
    ASSUME NEW cn \in Connections, NEW cm \in Connections, NEW k \in Keys, NEW m \in Sent,
           NEW orp \in SUBSET Orphans, NEW ex \in Executions, NEW done \in BOOLEAN,
           Unserved(cn[k]) # <<>>, m = Head(Unserved(cn[k])), Unserved(cm[k]) = Tail(Unserved(cn[k])),
           \A l \in Keys \ {k} : Unserved(cm[l]) = Unserved(cn[l]),
           done => m.t = "cmd",
           Once(cn, orp, ex)
    PROVE  /\ Executed(ex, m, done) \in Executions
           /\ Once(cm, orp, Executed(ex, m, done))
           /\ \A i \in 1 .. MaxCalls, s \in Slots :
                 Clear(cn, orp, ex, i, s) => Clear(cm, orp, Executed(ex, m, done), i, s)
           /\ m.t = "cmd" /\ ~done => Clear(cm, orp, ex, m.id, m.slot)
<1>. DEFINE U(l) == Unserved(cn[l])
            V(l) == Unserved(cm[l])
            at(l, n) == IF l = k THEN n + 1 ELSE n
            ey == Executed(ex, m, done)
<1>1. \A l \in Keys : U(l) \in Seq(Sent)
  BY UnservedType
<1>2. \A l, o \in Keys : \A i \in 1 .. Len(U(l)), j \in 1 .. Len(U(o)) :
          U(l)[i].t = "cmd" /\ U(l)[i] = U(o)[j] => l = o /\ i = j
  BY DEF Once
<1>3. \A l \in Keys : \A n \in 1 .. Len(U(l)) :
          U(l)[n].t = "cmd" => ex[U(l)[n].id][U(l)[n].slot] = 0 /\ \A o \in orp : o.msg # U(l)[n]
  BY DEF Once
<1>4. V(k) = Tail(U(k)) /\ U(k) # <<>> /\ m = Head(U(k)) /\ \A l \in Keys \ {k} : V(l) = U(l)
  OBVIOUS
<1>5. \A o \in orp : o.msg.t = "cmd" /\ o.msg \in Sent
  BY DEF Orphans, Sent
<1>6. \A a \in Sent : a.t = "cmd" => a \in [t : {"cmd"}, id : 1 .. MaxCalls, slot : Slots]
  BY DEF Sent, Asking, Ping
<1>7. \A a, b \in Sent : a.t = "cmd" /\ b.t = "cmd" /\ a.id = b.id /\ a.slot = b.slot => a = b
  BY <1>6
<1>. HIDE DEF U, V
<1>8. 1 \in 1 .. Len(U(k)) /\ U(k)[1] = m
  BY <1>1, <1>4
<1>9. ASSUME NEW l \in Keys, NEW n \in 1 .. Len(V(l))
      PROVE  at(l, n) \in 1 .. Len(U(l)) /\ V(l)[n] = U(l)[at(l, n)] /\ V(l)[n] \in Sent
             /\ (l = k => at(l, n) # 1)
  BY <1>1, <1>4, <1>9
<1>10. \A l \in Keys : \A i, j \in 1 .. Len(V(l)) : at(l, i) = at(l, j) => i = j
  <2>. SUFFICES ASSUME NEW l \in Keys, NEW i \in 1 .. Len(V(l)), NEW j \in 1 .. Len(V(l)), at(l, i) = at(l, j)
                PROVE  i = j
    OBVIOUS
  <2>1. i \in Int /\ j \in Int
    OBVIOUS
  <2>. QED  BY <2>1
<1>. HIDE DEF at
\* what is still on its way is something else
<1>11. ASSUME NEW l \in Keys, NEW n \in 1 .. Len(V(l)), m.t = "cmd"
       PROVE  ~IsCmd(V(l)[n], m.id, m.slot)
  <2>. SUFFICES ASSUME IsCmd(V(l)[n], m.id, m.slot) PROVE FALSE
    OBVIOUS
  <2>1. V(l)[n] = m
    BY <1>7, <1>9, <1>11 DEF IsCmd
  <2>2. U(k)[1].t = "cmd" /\ U(k)[1] = U(l)[at(l, n)]
    BY <1>8, <1>9, <1>11, <2>1, Zenon
  <2>. QED  BY <1>2, <1>8, <1>9, <2>2
<1>12. ASSUME NEW o \in orp, m.t = "cmd"
       PROVE  ~IsCmd(o.msg, m.id, m.slot)
  <2>. SUFFICES ASSUME IsCmd(o.msg, m.id, m.slot) PROVE FALSE
    OBVIOUS
  <2>1. o.msg = m
    BY <1>5, <1>7, <1>12 DEF IsCmd
  <2>. QED  BY <1>3, <1>8, <1>12, <2>1
<1>13. m.t = "cmd" => ex[m.id][m.slot] = 0
  BY <1>3, <1>8
<1>14. /\ ey \in Executions
       /\ \A i \in 1 .. MaxCalls, s \in Slots : (done /\ i = m.id /\ s = m.slot) \/ ey[i][s] = ex[i][s]
       /\ done => ey[m.id][m.slot] = 1
       /\ ~done => ey = ex
  <2>1. CASE ~done
    BY <2>1 DEF Executed
  <2>2. CASE done
    <3>. DEFINE i0 == m.id
                s0 == m.slot
    <3>1. i0 \in 1 .. MaxCalls /\ s0 \in Slots /\ ex[i0][s0] = 0
      BY <1>6, <1>13, <2>2
    <3>2. ey = [ex EXCEPT ![i0][s0] = @ + 1]
      BY <2>2 DEF Executed
    <3>. HIDE DEF i0, s0, ey
    <3>3. /\ ey \in Executions /\ ey[i0][s0] = 1
          /\ \A i \in 1 .. MaxCalls, s \in Slots : (i = i0 /\ s = s0) \/ ey[i][s] = ex[i][s]
      BY <3>1, <3>2 DEF Executions
    <3>. QED  BY <2>2, <3>3 DEF i0, s0
  <2>. QED  BY <2>1, <2>2
<1>. HIDE DEF ey
<1>15. ASSUME NEW l \in Keys, NEW o \in Keys, NEW i \in 1 .. Len(V(l)), NEW j \in 1 .. Len(V(o)),
              V(l)[i].t = "cmd", V(l)[i] = V(o)[j]
       PROVE  l = o /\ i = j
  <2>1. /\ at(l, i) \in 1 .. Len(U(l)) /\ at(o, j) \in 1 .. Len(U(o))
        /\ U(l)[at(l, i)].t = "cmd" /\ U(l)[at(l, i)] = U(o)[at(o, j)]
    BY <1>9, <1>15, Zenon
  <2>2. l = o /\ at(l, i) = at(o, j)
    BY <1>2, <2>1
  <2>. QED  BY <1>10, <2>2
<1>16. ASSUME NEW l \in Keys, NEW n \in 1 .. Len(V(l)), V(l)[n].t = "cmd"
       PROVE  ey[V(l)[n].id][V(l)[n].slot] = 0 /\ \A o \in orp : o.msg # V(l)[n]
  <2>1. ex[V(l)[n].id][V(l)[n].slot] = 0 /\ \A o \in orp : o.msg # V(l)[n]
    <3>. DEFINE a == V(l)[n]
    <3>1. a.t = "cmd" /\ at(l, n) \in 1 .. Len(U(l)) /\ a = U(l)[at(l, n)]
      BY <1>9, <1>16
    <3>. HIDE DEF a
    <3>2. ex[a.id][a.slot] = 0 /\ \A o \in orp : o.msg # a
      BY <1>3, <3>1, Zenon
    <3>. QED  BY <3>2 DEF a
  <2>2. V(l)[n].id \in 1 .. MaxCalls /\ V(l)[n].slot \in Slots
    BY <1>6, <1>9, <1>16
  <2>3. ~(done /\ V(l)[n].id = m.id /\ V(l)[n].slot = m.slot)
    BY <1>11, <1>16 DEF IsCmd
  <2>. QED  BY <1>14, <2>1, <2>2, <2>3
<1>17. ASSUME NEW o \in orp
       PROVE  ey[o.msg.id][o.msg.slot] = 0
  <2>1. ex[o.msg.id][o.msg.slot] = 0
    BY DEF Once
  <2>2. o.msg.id \in 1 .. MaxCalls /\ o.msg.slot \in Slots
    BY <1>5, <1>6
  <2>3. ~(done /\ o.msg.id = m.id /\ o.msg.slot = m.slot)
    BY <1>5, <1>12 DEF IsCmd
  <2>. QED  BY <1>14, <2>1, <2>2, <2>3
<1>18. Once(cm, orp, ey)
  <2>1. \A o, p \in orp : o.msg = p.msg => o = p
    BY DEF Once
  <2>2. \A i \in 1 .. MaxCalls, s \in Slots : ey[i][s] <= 1
    <3>1. \A i \in 1 .. MaxCalls, s \in Slots : ex[i][s] <= 1
      BY DEF Once
    <3>. QED  BY <1>14, <3>1
  <2>. QED  BY <1>15, <1>16, <1>17, <2>1, <2>2 DEF Once, V
<1>19. ASSUME NEW i \in 1 .. MaxCalls, NEW s \in Slots, Clear(cn, orp, ex, i, s)
       PROVE  Clear(cm, orp, ey, i, s)
  <2>1. \A l \in Keys : \A n \in 1 .. Len(U(l)) : ~IsCmd(U(l)[n], i, s)
    BY <1>19 DEF Clear, U
  <2>2. \A l \in Keys : \A n \in 1 .. Len(V(l)) : ~IsCmd(V(l)[n], i, s)
    BY <1>9, <2>1, Zenon
  <2>3. ~(done /\ i = m.id /\ s = m.slot)
    BY <1>8, <2>1 DEF IsCmd
  <2>4. ey[i][s] = 0
    BY <1>14, <1>19, <2>3 DEF Clear
  <2>. QED  BY <1>19, <2>2, <2>4 DEF Clear, V
<1>20. m.t = "cmd" /\ ~done => Clear(cm, orp, ex, m.id, m.slot)
  BY <1>11, <1>12, <1>13 DEF Clear, V
<1>. QED  BY <1>14, <1>18, <1>19, <1>20 DEF ey

\* A server gets to an orphan.
LEMMA LateKeeps ==
    ASSUME NEW cn \in Connections, NEW orp \in SUBSET Orphans, NEW ex \in Executions,
           NEW o \in orp, NEW done \in BOOLEAN,
           Once(cn, orp, ex)
    PROVE  /\ Executed(ex, o.msg, done) \in Executions
           /\ Once(cn, orp \ {o}, Executed(ex, o.msg, done))
           /\ \A i \in 1 .. MaxCalls, s \in Slots :
                 Clear(cn, orp, ex, i, s) => Clear(cn, orp \ {o}, Executed(ex, o.msg, done), i, s)
<1>. DEFINE m == o.msg
            U(l) == Unserved(cn[l])
            ey == Executed(ex, m, done)
<1>1. \A p \in orp : p.msg \in [t : {"cmd"}, id : 1 .. MaxCalls, slot : Slots]
  BY DEF Orphans
<1>2. \A l \in Keys : U(l) \in Seq(Sent)
  BY UnservedType
<1>3. \A a \in Sent : a.t = "cmd" => a \in [t : {"cmd"}, id : 1 .. MaxCalls, slot : Slots]
  BY DEF Sent, Asking, Ping
<1>4. \A l \in Keys : \A n \in 1 .. Len(U(l)) :
          U(l)[n].t = "cmd" => ex[U(l)[n].id][U(l)[n].slot] = 0 /\ \A p \in orp : p.msg # U(l)[n]
  BY DEF Once
<1>. HIDE DEF U
<1>5. \A l \in Keys : \A n \in 1 .. Len(U(l)) : U(l)[n] \in Sent
  BY <1>2
<1>6. ASSUME NEW l \in Keys, NEW n \in 1 .. Len(U(l)), U(l)[n].t = "cmd", U(l)[n].id = m.id, U(l)[n].slot = m.slot
      PROVE  FALSE
  <2>1. U(l)[n] = m
    BY <1>1, <1>3, <1>5, <1>6
  <2>. QED  BY <1>4, <1>6, <2>1
<1>7. ASSUME NEW p \in orp \ {o}
      PROVE  ~(p.msg.id = m.id /\ p.msg.slot = m.slot)
  <2>. SUFFICES ASSUME p.msg.id = m.id, p.msg.slot = m.slot PROVE FALSE
    OBVIOUS
  <2>1. p.msg = m
    BY <1>1
  <2>. QED  BY <2>1 DEF Once
<1>8. ex[m.id][m.slot] = 0
  BY DEF Once
<1>9. /\ ey \in Executions
      /\ \A i \in 1 .. MaxCalls, s \in Slots : (done /\ i = m.id /\ s = m.slot) \/ ey[i][s] = ex[i][s]
      /\ done => ey[m.id][m.slot] = 1
      /\ ~done => ey = ex
  <2>1. CASE ~done
    BY <2>1 DEF Executed
  <2>2. CASE done
    <3>. DEFINE i0 == m.id
                s0 == m.slot
    <3>1. i0 \in 1 .. MaxCalls /\ s0 \in Slots /\ ex[i0][s0] = 0
      BY <1>1, <1>8
    <3>2. ey = [ex EXCEPT ![i0][s0] = @ + 1]
      BY <2>2 DEF Executed
    <3>. HIDE DEF i0, s0, ey
    <3>3. /\ ey \in Executions /\ ey[i0][s0] = 1
          /\ \A i \in 1 .. MaxCalls, s \in Slots : (i = i0 /\ s = s0) \/ ey[i][s] = ex[i][s]
      BY <3>1, <3>2 DEF Executions
    <3>. QED  BY <2>2, <3>3 DEF i0, s0
  <2>. QED  BY <2>1, <2>2
<1>. HIDE DEF ey, m
<1>10. ASSUME NEW l \in Keys, NEW n \in 1 .. Len(U(l)), U(l)[n].t = "cmd"
       PROVE  ey[U(l)[n].id][U(l)[n].slot] = 0 /\ \A p \in orp : p.msg # U(l)[n]
  <2>1. U(l)[n].id \in 1 .. MaxCalls /\ U(l)[n].slot \in Slots
    BY <1>3, <1>5, <1>10
  <2>. QED  BY <1>4, <1>6, <1>9, <1>10, <2>1
<1>11. ASSUME NEW p \in orp \ {o}
       PROVE  ey[p.msg.id][p.msg.slot] = 0
  <2>1. ex[p.msg.id][p.msg.slot] = 0 /\ p.msg.id \in 1 .. MaxCalls /\ p.msg.slot \in Slots
    BY <1>1 DEF Once
  <2>. QED  BY <1>7, <1>9, <2>1
<1>12. Once(cn, orp \ {o}, ey)
  <2>1. \A p, q \in orp : p.msg = q.msg => p = q
    BY DEF Once
  <2>2. \A i \in 1 .. MaxCalls, s \in Slots : ey[i][s] <= 1
    <3>1. \A i \in 1 .. MaxCalls, s \in Slots : ex[i][s] <= 1
      BY DEF Once
    <3>. QED  BY <1>9, <3>1
  <2>3. \A k, l \in Keys : \A a \in 1 .. Len(Unserved(cn[k])), n \in 1 .. Len(Unserved(cn[l])) :
          /\ Unserved(cn[k])[a].t = "cmd"
          /\ Unserved(cn[k])[a] = Unserved(cn[l])[n]
          => k = l /\ a = n
    BY DEF Once
  <2>. QED  BY <1>10, <1>11, <2>1, <2>2, <2>3 DEF Once, U
<1>13. ASSUME NEW i \in 1 .. MaxCalls, NEW s \in Slots, Clear(cn, orp, ex, i, s)
       PROVE  Clear(cn, orp \ {o}, ey, i, s)
  <2>1. ~(i = m.id /\ s = m.slot)
    BY <1>1, <1>13 DEF Clear, IsCmd, m
  <2>2. ey[i][s] = 0
    BY <1>9, <1>13, <2>1 DEF Clear
  <2>. QED  BY <1>13, <2>2 DEF Clear
<1>. QED  BY <1>9, <1>12, <1>13 DEF ey, m

-----------------------------------------------------------------------------
(***************************************************************************)
(* What the parts of the steps do to the connections.                      *)
(***************************************************************************)
OnceNow == Once(con, orphans, executed)

\* the part of the invariant that is about connections only
Wires == con \in Connections /\ orphans \in SUBSET Orphans /\ executed \in Executions /\ OnceNow

StaysFresh(i, s) == Fresh(i, s) => Fresh(i, s)'
AllStayFresh == \A i \in 1 .. MaxCalls, s \in Slots : StaysFresh(i, s)

\* The types contain what is needed of the connections.
LEMMA WiresType == ASSUME Types, OnceNow PROVE Wires
  BY DEF Types, ServerType, RouteType, Wires, Connections, Executions

\* Nothing happens to the connections.
LEMMA SameWires ==
    ASSUME Wires, UNCHANGED <<con, orphans, executed>>
    PROVE  Wires' /\ AllStayFresh
  BY DEF Wires, OnceNow, Once, AllStayFresh, StaysFresh, Fresh, Clear

\* A good context is a context.
LEMMA GoodContext ==
    ASSUME Wires, NEW k \in Keys, Good(con[k])
    PROVE  con[k] \in Contexts /\ ~con[k].err
  BY DEF Wires, Connections, Good

\* The messages on their way only get fewer.
LEMMA LessWires ==
    ASSUME Wires, con' \in Connections, orphans' \in SUBSET Orphans, executed' = executed,
           \A k \in Keys : Suffix(Unserved(con[k]), Unserved(con'[k])),
           \A o \in orphans' : o \in orphans \/ \E k \in Keys :
              con[k] # NoCon /\ o \in redisFree(con[k]) /\ Len(Unserved(con'[k])) <= Len(con[k].out)
    PROVE  Wires' /\ AllStayFresh
<1>1. /\ Once(con', orphans', executed)
      /\ \A i \in 1 .. MaxCalls, s \in Slots :
            Clear(con, orphans, executed, i, s) => Clear(con', orphans', executed, i, s)
  <2>1. con \in Connections /\ orphans \in SUBSET Orphans /\ executed \in Executions /\ Once(con, orphans, executed)
    BY DEF Wires, OnceNow
  <2>. QED  BY <2>1, LessKeeps
<1>2. Once(con', orphans', executed') /\ executed' \in Executions
  BY <1>1 DEF Wires
<1>3. \A i \in 1 .. MaxCalls, s \in Slots :
         Clear(con, orphans, executed, i, s) => Clear(con', orphans', executed', i, s)
  BY <1>1
<1>. QED  BY <1>2, <1>3 DEF Wires, OnceNow, AllStayFresh, StaysFresh, Fresh

\* redisGetReply takes a reply.
LEMMA ReadWires ==
    ASSUME Wires, c \in Keys, Good(con[c]), con[c].in # <<>>, Read, executed' = executed
    PROVE  /\ Wires' /\ AllStayFresh
           /\ con'[c] \in Contexts /\ Good(con'[c]) /\ con'[c].up = con[c].up /\ con'[c].in = Tail(con[c].in)
           /\ All(con'[c]) = Tail(All(con[c]))
           /\ \A k \in Keys \ {c} : con'[k] = con[k]
<1>1. con[c] \in Contexts /\ ~con[c].err /\ con \in Connections
  BY GoodContext DEF Wires
<1>2. /\ con'[c] = [con[c] EXCEPT !.in = Tail(con[c].in)]
      /\ \A k \in Keys \ {c} : con'[k] = con[k]
      /\ DOMAIN con' = Keys /\ con' = [k \in Keys |-> con'[k]]
      /\ orphans' = orphans
  BY <1>1 DEF Read, Connections
<1>3. /\ con'[c] \in Contexts /\ con'[c].in = Tail(con[c].in) /\ con'[c].up = con[c].up
      /\ con'[c].err = con[c].err /\ All(con'[c]) = Tail(All(con[c]))
      /\ Unserved(con'[c]) = Unserved(con[c])
  BY <1>1, <1>2, ReadContext
<1>4. con' \in Connections
  BY <1>1, <1>2, <1>3 DEF Connections
<1>5. \A k \in Keys : Suffix(Unserved(con[k]), Unserved(con'[k]))
  <2>. SUFFICES ASSUME NEW k \in Keys PROVE Suffix(Unserved(con[k]), Unserved(con'[k]))
    OBVIOUS
  <2>1. Unserved(con'[k]) = Unserved(con[k])
    BY <1>2, <1>3
  <2>. QED  BY <1>1, <2>1, UnservedType, Suffixes
<1>6. Wires' /\ AllStayFresh
  BY <1>2, <1>4, <1>5, LessWires DEF Wires
<1>7. Good(con'[c])
  BY <1>1, <1>3, ContextIsOne DEF Good
<1>. QED  BY <1>2, <1>3, <1>6, <1>7

\* redisGetReply gives none.
LEMMA FailWires ==
    ASSUME Wires, c \in Keys, Good(con[c]), ReadFails, executed' = executed
    PROVE  /\ Wires' /\ AllStayFresh
           /\ ~Good(con'[c])
           /\ \A k \in Keys \ {c} : con'[k] = con[k]
<1>1. con[c] \in Contexts /\ con \in Connections
  BY GoodContext DEF Wires
<1>2. /\ con'[c] = [con[c] EXCEPT !.err = TRUE]
      /\ \A k \in Keys \ {c} : con'[k] = con[k]
      /\ DOMAIN con' = Keys /\ con' = [k \in Keys |-> con'[k]]
      /\ orphans' = orphans
  BY <1>1 DEF ReadFails, Connections
<1>3. con'[c] \in Contexts /\ con'[c].err /\ Unserved(con'[c]) = Unserved(con[c])
  BY <1>1, <1>2, FailContext
<1>4. con' \in Connections
  BY <1>1, <1>2, <1>3 DEF Connections
<1>5. \A k \in Keys : Suffix(Unserved(con[k]), Unserved(con'[k]))
  <2>. SUFFICES ASSUME NEW k \in Keys PROVE Suffix(Unserved(con[k]), Unserved(con'[k]))
    OBVIOUS
  <2>1. Unserved(con'[k]) = Unserved(con[k])
    BY <1>2, <1>3
  <2>. QED  BY <1>1, <2>1, UnservedType, Suffixes
<1>6. Wires' /\ AllStayFresh
  BY <1>2, <1>4, <1>5, LessWires DEF Wires
<1>. QED  BY <1>2, <1>3, <1>6 DEF Good

\* The messages that are sent are of their type.
LEMMA MessageTypes ==
    /\ Asking \in Sent /\ Ping \in Sent /\ Asking.t # "cmd" /\ Ping.t # "cmd"
    /\ \A i \in 1 .. MaxCalls, s \in Slots :
          /\ Cmd(i, s) \in Sent /\ Cmd(i, s).t = "cmd" /\ Cmd(i, s).id = i /\ Cmd(i, s).slot = s
          /\ \A j, u : IsCmd(Cmd(i, s), j, u) <=> j = i /\ u = s
  BY DEF Sent, Asking, Ping, Cmd, IsCmd

\* Everything but the sub-command m stays as fresh as it was.
OthersStayFresh(m) == \A i \in 1 .. MaxCalls, s \in Slots : IsCmd(m, i, s) \/ StaysFresh(i, s)

\* A message is added to a connection, which may have been replaced.
LEMMA PutWires ==
    ASSUME Wires, NEW cn \in Connections, orphans' \in SUBSET Orphans, executed' = executed,
           \A k \in Keys : Suffix(Unserved(con[k]), Unserved(cn[k])),
           \A o \in orphans' : o \in orphans \/ \E k \in Keys :
              con[k] # NoCon /\ o \in redisFree(con[k]) /\ Len(Unserved(cn[k])) <= Len(con[k].out),
           NEW k \in Keys, cn[k] \in Contexts, NEW m \in Sent,
           con' = [cn EXCEPT ![k] = Put(cn[k], m)],
           m.t = "cmd" => Fresh(m.id, m.slot) /\ m.id \in 1 .. MaxCalls /\ m.slot \in Slots
    PROVE  /\ Wires' /\ OthersStayFresh(m)
           /\ con'[k] = Put(cn[k], m) /\ con'[k] \in Contexts
           /\ \A l \in Keys \ {k} : con'[l] = cn[l]
<1>1. con \in Connections /\ orphans \in SUBSET Orphans /\ executed \in Executions /\ Once(con, orphans, executed)
  BY DEF Wires, OnceNow
<1>2. /\ Once(cn, orphans', executed)
      /\ \A i \in 1 .. MaxCalls, s \in Slots :
            Clear(con, orphans, executed, i, s) => Clear(cn, orphans', executed, i, s)
  BY <1>1, LessKeeps
<1>3. /\ con'[k] = Put(cn[k], m) /\ con'[k] \in Contexts
      /\ Unserved(con'[k]) = Append(Unserved(cn[k]), m)
  BY PutContext DEF Connections
<1>4. \A l \in Keys \ {k} : con'[l] = cn[l]
  BY DEF Connections
<1>5. con' \in Connections
  BY <1>3, <1>4 DEF Connections
<1>6. m.t = "cmd" => Clear(cn, orphans', executed, m.id, m.slot)
  BY <1>2 DEF Fresh
<1>7. \A l \in Keys \ {k} : Unserved(con'[l]) = Unserved(cn[l])
  BY <1>4
<1>8. /\ Once(con', orphans', executed)
      /\ \A i \in 1 .. MaxCalls, s \in Slots :
            Clear(cn, orphans', executed, i, s) /\ ~IsCmd(m, i, s) => Clear(con', orphans', executed, i, s)
  BY <1>1, <1>2, <1>3, <1>5, <1>6, <1>7, PutKeeps
<1>9. Wires'
  <2>1. Once(con', orphans', executed') /\ executed' \in Executions
    BY <1>1, <1>8
  <2>. QED  BY <1>5, <2>1 DEF Wires, OnceNow
<1>10. OthersStayFresh(m)
  <2>. SUFFICES ASSUME NEW i \in 1 .. MaxCalls, NEW s \in Slots, ~IsCmd(m, i, s), Fresh(i, s)
                PROVE  Fresh(i, s)'
    BY DEF OthersStayFresh, StaysFresh
  <2>1. Clear(con', orphans', executed, i, s)
    BY <1>2, <1>8 DEF Fresh
  <2>2. Clear(con', orphans', executed', i, s)
    BY <2>1
  <2>. QED  BY <2>2 DEF Fresh
<1>. QED  BY <1>3, <1>4, <1>9, <1>10

\* What a node's context is replaced by has what is on its way, or nothing;
\* what was on the wire of a closed connection is left as orphans.
LEMMA GetFades ==
    ASSUME Types, OnceNow, NEW n \in nodes \cup Addrs, NEW cn, cn = [con EXCEPT ![n] = ctx_get_by_node(n)],
           orphans' = orphans \cup IF con[n] # NoCon /\ con[n].err THEN redisFree(con[n]) ELSE {}
    PROVE  /\ cn \in Connections /\ cn[n] = ctx_get_by_node(n) /\ cn[n] \in Contexts /\ n \in Keys
           /\ \A k \in Keys \ {n} : cn[k] = con[k]
           /\ orphans' \in SUBSET Orphans
           /\ \A k \in Keys : Suffix(Unserved(con[k]), Unserved(cn[k]))
           /\ \A o \in orphans' : o \in orphans \/ \E k \in Keys :
                 con[k] # NoCon /\ o \in redisFree(con[k]) /\ Len(Unserved(cn[k])) <= Len(con[k].out)
<1>1. Wires
  BY WiresType
<1>2. con \in Connections /\ orphans \in SUBSET Orphans
  BY <1>1 DEF Wires
<1>3. n \in Keys /\ ctx_get_by_node(n) \in Contexts
  BY GetContext
<1>4. cn \in Connections /\ cn[n] = ctx_get_by_node(n) /\ \A k \in Keys \ {n} : cn[k] = con[k]
  BY <1>2, <1>3 DEF Connections
<1>5. \/ Good(con[n]) /\ cn[n] = con[n]
      \/ ~Good(con[n]) /\ Unserved(cn[n]) = <<>>
  BY <1>4, GetContext
<1>6. \A k \in Keys : Suffix(Unserved(con[k]), Unserved(cn[k]))
  <2>. SUFFICES ASSUME NEW k \in Keys PROVE Suffix(Unserved(con[k]), Unserved(cn[k]))
    OBVIOUS
  <2>1. Unserved(con[k]) \in Seq(Sent)
    BY <1>2, UnservedType
  <2>2. cn[k] = con[k] \/ Unserved(cn[k]) = <<>>
    BY <1>4, <1>5
  <2>. QED  BY <2>1, <2>2, Suffixes
<1>7. ASSUME con[n] # NoCon, con[n].err
      PROVE  /\ redisFree(con[n]) \subseteq Orphans
             /\ Len(Unserved(cn[n])) <= Len(con[n].out)
  <2>1. con[n] \in Contexts
    BY <1>2, <1>3, <1>7 DEF Connections
  <2>2. Unserved(cn[n]) = <<>>
    BY <1>5, <1>7 DEF Good
  <2>3. Len(con[n].out) \in Nat
    BY <2>1, AllParts
  <2>. QED  BY <2>1, <2>2, <2>3, Freed
<1>. QED  BY <1>2, <1>3, <1>4, <1>6, <1>7

\* ctx_get_by_node for node n.
LEMMA GetWires ==
    ASSUME Types, OnceNow, NEW n \in nodes \cup Addrs, SetCon(n, ctx_get_by_node(n)), executed' = executed
    PROVE  /\ Wires' /\ AllStayFresh
           /\ con'[n] = ctx_get_by_node(n) /\ con'[n] \in Contexts /\ n \in Keys
           /\ \A k \in Keys \ {n} : con'[k] = con[k]
<1>1. /\ con' = [con EXCEPT ![n] = ctx_get_by_node(n)]
      /\ orphans' = orphans \cup IF con[n] # NoCon /\ con[n].err THEN redisFree(con[n]) ELSE {}
  BY DEF SetCon
<1>. DEFINE cn == [con EXCEPT ![n] = ctx_get_by_node(n)]
<1>2. /\ cn \in Connections /\ cn[n] = ctx_get_by_node(n) /\ cn[n] \in Contexts /\ n \in Keys
      /\ \A k \in Keys \ {n} : cn[k] = con[k]
      /\ orphans' \in SUBSET Orphans
      /\ \A k \in Keys : Suffix(Unserved(con[k]), Unserved(cn[k]))
      /\ \A o \in orphans' : o \in orphans \/ \E k \in Keys :
            con[k] # NoCon /\ o \in redisFree(con[k]) /\ Len(Unserved(cn[k])) <= Len(con[k].out)
  BY <1>1, GetFades
<1>3. con' = cn
  BY <1>1
<1>. HIDE DEF cn
<1>4. Wires' /\ AllStayFresh
  BY <1>2, <1>3, WiresType, LessWires
<1>. QED  BY <1>2, <1>3, <1>4

\* A message is appended to the context that it gives.
LEMMA GetPutWires ==
    ASSUME Types, OnceNow, NEW n \in nodes \cup Addrs, NEW m \in Sent,
           SetCon(n, Put(ctx_get_by_node(n), m)), executed' = executed,
           m.t = "cmd" => Fresh(m.id, m.slot) /\ m.id \in 1 .. MaxCalls /\ m.slot \in Slots
    PROVE  /\ Wires' /\ OthersStayFresh(m)
           /\ con'[n] = Put(ctx_get_by_node(n), m) /\ con'[n] \in Contexts /\ n \in Keys
           /\ \A k \in Keys \ {n} : con'[k] = con[k]
<1>. DEFINE cn == [con EXCEPT ![n] = ctx_get_by_node(n)]
<1>1. /\ con' = [con EXCEPT ![n] = Put(ctx_get_by_node(n), m)]
      /\ orphans' = orphans \cup IF con[n] # NoCon /\ con[n].err THEN redisFree(con[n]) ELSE {}
  BY DEF SetCon
<1>2. /\ cn \in Connections /\ cn[n] = ctx_get_by_node(n) /\ cn[n] \in Contexts /\ n \in Keys
      /\ \A k \in Keys \ {n} : cn[k] = con[k]
      /\ orphans' \in SUBSET Orphans
      /\ \A k \in Keys : Suffix(Unserved(con[k]), Unserved(cn[k]))
      /\ \A o \in orphans' : o \in orphans \/ \E k \in Keys :
            con[k] # NoCon /\ o \in redisFree(con[k]) /\ Len(Unserved(cn[k])) <= Len(con[k].out)
  BY <1>1, GetFades
<1>3. con' = [cn EXCEPT ![n] = Put(cn[n], m)]
  <2>1. con \in [Keys -> Contexts \cup {NoCon}]
    BY DEF Types, RouteType
  <2>. QED  BY <1>1, <1>2, <2>1
<1>4. Wires
  BY WiresType
<1>. HIDE DEF cn
<1>5. /\ Wires' /\ OthersStayFresh(m)
      /\ con'[n] = Put(cn[n], m) /\ con'[n] \in Contexts
      /\ \A l \in Keys \ {n} : con'[l] = cn[l]
  BY <1>2, <1>3, <1>4, PutWires
<1>. QED  BY <1>2, <1>5

\* A reply is taken, and the sub-command goes to the same node.
LEMMA ReadPutWires ==
    ASSUME Wires, c \in Keys, Good(con[c]), con[c].in # <<>>, NEW m \in Sent,
           NEW y, y = [con[c] EXCEPT !.in = Tail(con[c].in)],
           con' = [con EXCEPT ![c] = Put(y, m)],
           orphans' = orphans, executed' = executed,
           m.t = "cmd" => Fresh(m.id, m.slot) /\ m.id \in 1 .. MaxCalls /\ m.slot \in Slots
    PROVE  /\ Wires' /\ OthersStayFresh(m)
           /\ con'[c] \in Contexts /\ Good(con'[c]) /\ con'[c].in = Tail(con[c].in)
           /\ All(con'[c]) = Append(Tail(All(con[c])), m)
           /\ \A k \in Keys \ {c} : con'[k] = con[k]
<1>. DEFINE cn == [con EXCEPT ![c] = y]
<1>1. con[c] \in Contexts /\ ~con[c].err /\ con \in Connections
  BY GoodContext DEF Wires
<1>2. /\ y \in Contexts /\ y.in = Tail(con[c].in) /\ y.up = con[c].up /\ y.err = con[c].err
      /\ All(y) = Tail(All(con[c])) /\ Unserved(y) = Unserved(con[c])
  BY <1>1, ReadContext
<1>4. cn \in Connections /\ cn[c] = y /\ \A k \in Keys \ {c} : cn[k] = con[k]
  BY <1>1, <1>2 DEF Connections
<1>5. con' = [cn EXCEPT ![c] = Put(cn[c], m)]
  <2>1. cn[c] = y
    BY <1>4
  <2>. QED  BY <1>1, <2>1 DEF Connections
<1>. HIDE DEF cn
<1>6. \A k \in Keys : Suffix(Unserved(con[k]), Unserved(cn[k]))
  <2>. SUFFICES ASSUME NEW k \in Keys PROVE Suffix(Unserved(con[k]), Unserved(cn[k]))
    OBVIOUS
  <2>1. Unserved(cn[k]) = Unserved(con[k])
    BY <1>2, <1>4
  <2>. QED  BY <1>1, <2>1, UnservedType, Suffixes
<1>7. /\ Wires' /\ OthersStayFresh(m)
      /\ con'[c] = Put(cn[c], m) /\ con'[c] \in Contexts
      /\ \A l \in Keys \ {c} : con'[l] = cn[l]
  <2>1. orphans' \in SUBSET Orphans /\ \A o \in orphans' : o \in orphans
    BY DEF Wires
  <2>2. cn \in Connections /\ cn[c] \in Contexts
    BY <1>2, <1>4
  <2>3. \A o \in orphans' : o \in orphans \/ \E k \in Keys :
           con[k] # NoCon /\ o \in redisFree(con[k]) /\ Len(Unserved(cn[k])) <= Len(con[k].out)
    BY <2>1
  <2>. QED  BY <1>5, <1>6, <2>1, <2>2, <2>3, PutWires
<1>8. con'[c].in = y.in /\ con'[c].err = y.err /\ All(con'[c]) = Append(All(y), m)
  <2>1. con'[c] = Put(y, m)
    BY <1>4, <1>7
  <2>2. Put(y, m).in = y.in /\ Put(y, m).err = y.err /\ All(Put(y, m)) = Append(All(y), m)
    BY <1>2, PutContext
  <2>. QED  BY <2>1, <2>2, Zenon
<1>9. Good(con'[c])
  BY <1>1, <1>2, <1>7, <1>8, ContextIsOne DEF Good
<1>. QED  BY <1>2, <1>4, <1>7, <1>8, <1>9

\* Connections are closed, or kept.
LEMMA CloseWires ==
    ASSUME Wires, NEW K \in SUBSET Keys, con' = [k \in Keys |-> IF k \in K THEN NoCon ELSE con[k]],
           orphans' = orphans \cup UNION {redisFree(con[k]) : k \in K},
           executed' = executed
    PROVE  Wires' /\ AllStayFresh
<1>1. con \in Connections /\ orphans \in SUBSET Orphans
  BY DEF Wires
<1>2. con' \in Connections
  BY <1>1 DEF Connections
<1>3. \A k \in Keys : Unserved(con[k]) \in Seq(Sent)
  BY <1>1, UnservedType
<1>4. \A k \in Keys : Suffix(Unserved(con[k]), Unserved(con'[k]))
  <2>. SUFFICES ASSUME NEW k \in Keys PROVE Suffix(Unserved(con[k]), Unserved(con'[k]))
    OBVIOUS
  <2>1. con'[k] = con[k] \/ Unserved(con'[k]) = <<>>
    BY DEF Unserved
  <2>. QED  BY <1>3, <2>1, Suffixes
<1>5. ASSUME NEW k \in K, NEW o \in redisFree(con[k])
      PROVE  /\ o \in Orphans
             /\ con[k] # NoCon /\ Len(Unserved(con'[k])) <= Len(con[k].out)
  <2>1. con[k] # NoCon
    BY <1>5 DEF redisFree
  <2>2. con[k] \in Contexts
    BY <1>1, <2>1 DEF Connections
  <2>3. Len(con[k].out) \in Nat
    BY <2>2, AllParts
  <2>4. Unserved(con'[k]) = <<>>
    BY DEF Unserved
  <2>. QED  BY <2>1, <2>2, <2>3, <2>4, <1>5, Freed
<1>6. orphans' \in SUBSET Orphans
  BY <1>1, <1>5
<1>7. \A o \in orphans' : o \in orphans \/ \E k \in Keys :
              con[k] # NoCon /\ o \in redisFree(con[k]) /\ Len(Unserved(con'[k])) <= Len(con[k].out)
  BY <1>5
<1>. QED  BY <1>2, <1>4, <1>6, <1>7, LessWires

\* redisBufferWrite.
LEMMA WriteWires ==
    ASSUME Wires, c \in Keys, Good(con[c]), Write
    PROVE  /\ Wires' /\ AllStayFresh
           /\ con'[c] \in Contexts /\ con'[c].in = con[c].in /\ con'[c].up = con[c].up
           /\ con'[c].err = con[c].err /\ All(con'[c]) = All(con[c])
           /\ \A k \in Keys \ {c} : con'[k] = con[k]
<1>1. con[c] \in Contexts /\ con \in Connections
  BY GoodContext DEF Wires
<1>2. /\ con'[c] = [con[c] EXCEPT !.wire = con[c].wire \o con[c].out, !.out = <<>>]
      /\ \A k \in Keys \ {c} : con'[k] = con[k]
      /\ DOMAIN con' = Keys /\ con' = [k \in Keys |-> con'[k]]
      /\ orphans' = orphans /\ executed' = executed
  BY <1>1 DEF Write, Connections
<1>3. /\ con'[c] \in Contexts /\ con'[c].in = con[c].in /\ con'[c].up = con[c].up
      /\ con'[c].err = con[c].err /\ All(con'[c]) = All(con[c])
      /\ Unserved(con'[c]) = Unserved(con[c])
  BY <1>1, <1>2, WriteContext
<1>4. con' \in Connections
  BY <1>1, <1>2, <1>3 DEF Connections
<1>5. \A k \in Keys : Suffix(Unserved(con[k]), Unserved(con'[k]))
  <2>. SUFFICES ASSUME NEW k \in Keys PROVE Suffix(Unserved(con[k]), Unserved(con'[k]))
    OBVIOUS
  <2>1. Unserved(con'[k]) = Unserved(con[k])
    BY <1>2, <1>3
  <2>. QED  BY <1>1, <2>1, UnservedType, Suffixes
<1>6. Wires' /\ AllStayFresh
  BY <1>2, <1>4, <1>5, LessWires DEF Wires
<1>. QED  BY <1>2, <1>3, <1>6

\* What may happen to a context while the client does nothing with it, or
\* writes: it carries the same, partly replied to, or its connection breaks.
Drifts(x, y) ==
    \/ y = x
    \/ /\ x \in Contexts /\ y \in Contexts /\ y.err = x.err
       /\ \/ /\ x.up /\ y.up
             /\ Len(All(y)) = Len(All(x))
             /\ \A i \in 1 .. Len(All(x)) : All(y)[i].id = All(x)[i].id /\ All(y)[i].slot = All(x)[i].slot
          \/ ~y.up /\ y.wire = <<>> /\ y.out = x.out /\ y.in \in {x.in, <<>>}

\* a redirection has come by which sub-command (i, s) has not been executed
NewReplies ==
    \A k \in Keys : con'[k] # NoCon => \A i \in 1 .. Len(con'[k].in) :
        \/ con[k] # NoCon /\ i <= Len(con[k].in) /\ con'[k].in[i] = con[k].in[i]
        \/ con'[k].in[i].t \in Redirects =>
              Clear(con', orphans', executed', con'[k].in[i].id, con'[k].in[i].slot)

\* A server takes a message and replies.
LEMMA ServeWires ==
    ASSUME Types, OnceNow, Serve
    PROVE  Wires' /\ AllStayFresh /\ NewReplies /\ \A k \in Keys : Drifts(con[k], con'[k])
<1>1. Wires /\ con \in Connections /\ executed \in Executions /\ orphans \in SUBSET Orphans
      /\ Once(con, orphans, executed)
  BY WiresType DEF Wires, OnceNow
<1>2. PICK k \in Keys :
          /\ con[k] # NoCon
          /\ con[k].up
          /\ con[k].wire # <<>>
          /\ LET m == Head(con[k].wire)
             IN  \E r \in IF m.t = "cmd"
                          THEN Answers(con[k].to, m, con[k].asking)
                                  \cup IF refusals < MaxRefusals THEN Refusals(m, con[k].to) ELSE {}
                          ELSE {Reply(IF m.t = "ping" THEN "pong" ELSE "status", m, con[k].to)} :
                    /\ con' = [con EXCEPT ![k].wire = Tail(@), ![k].in = Append(@, r),
                                          ![k].asking = m = Asking]
                    /\ Execute(r)
  BY DEF Serve
<1>. DEFINE m == Head(con[k].wire)
<1>3. PICK r \in IF m.t = "cmd"
                 THEN Answers(con[k].to, m, con[k].asking)
                         \cup IF refusals < MaxRefusals THEN Refusals(m, con[k].to) ELSE {}
                 ELSE {Reply(IF m.t = "ping" THEN "pong" ELSE "status", m, con[k].to)} :
          /\ con' = [con EXCEPT ![k].wire = Tail(@), ![k].in = Append(@, r), ![k].asking = m = Asking]
          /\ Execute(r)
  BY <1>2
<1>4. con[k] \in Contexts /\ con[k].to \in Addrs
  BY <1>1, <1>2 DEF Connections, Contexts
<1>5. m \in Sent
  <2>. DEFINE w == con[k].wire
  <2>1. w \in Seq(Sent) /\ w # <<>>
    BY <1>2, <1>4, Parts
  <2>. HIDE DEF w
  <2>2. Head(w) \in Sent
    BY <2>1
  <2>. QED  BY <2>2 DEF w
<1>6. orphans' = orphans
  BY DEF Serve
<1>. HIDE DEF m
<1>7. /\ r \in Replies /\ r.id = m.id /\ r.slot = m.slot
      /\ r.t \in Redirects \cup {"ok"} => m.t = "cmd"
  <2>1. CASE m.t = "cmd"
    <3>1. m.id \in 1 .. MaxCalls /\ m.slot \in Slots
      BY <1>5, <2>1 DEF Sent, Asking, Ping
    <3>2. PICK t \in {"ok", "moved", "ask", "again", "error"}, a \in Addrs : r = Reply(t, m, a)
      <4>1. view[con[k].to][m.slot] \in Addrs
        BY <1>4, <3>1 DEF Types, ServerType
      <4>2. mig[m.slot] = None \/ mig[m.slot] \in Addrs
        BY <3>1 DEF Types, ServerType
      <4>. QED  BY <1>3, <1>4, <2>1, <4>1, <4>2 DEF Answers, Refusals
    <3>. QED  BY <2>1, <3>1, <3>2 DEF Reply, Replies
  <2>2. CASE m.t # "cmd"
    <3>1. m.id = 0 /\ m.slot = None
      BY <1>5, <2>2 DEF Sent, Asking, Ping
    <3>2. PICK t \in {"pong", "status"} : r = Reply(t, m, con[k].to)
      BY <1>3, <2>2
    <3>3. 0 \in 0 .. MaxCalls
      BY Constants
    <3>. QED  BY <1>4, <2>2, <3>1, <3>2, <3>3 DEF Reply, Replies, Redirects
  <2>. QED  BY <2>1, <2>2
<1>. DEFINE done == r.t = "ok"
            b == m = Asking
<1>8. executed' = Executed(executed, m, done)
  BY <1>3, <1>7 DEF Execute, Executed
<1>9. /\ con'[k] = [con[k] EXCEPT !.wire = Tail(con[k].wire), !.in = Append(con[k].in, r), !.asking = b]
      /\ \A l \in Keys \ {k} : con'[l] = con[l]
      /\ DOMAIN con' = Keys /\ con' = [l \in Keys |-> con'[l]]
  BY <1>1, <1>3 DEF Connections
<1>. HIDE DEF b
<1>10. b \in BOOLEAN
  BY DEF b
<1>11. /\ con'[k] \in Contexts
       /\ con'[k].in = Append(con[k].in, r) /\ con'[k].up = con[k].up /\ con'[k].err = con[k].err
       /\ Len(All(con'[k])) = Len(All(con[k]))
       /\ Len(con[k].in) + 1 \in 1 .. Len(All(con[k]))
       /\ All(con'[k])[Len(con[k].in) + 1] = r
       /\ All(con[k])[Len(con[k].in) + 1] = m
       /\ \A i \in 1 .. Len(All(con[k])) : i # Len(con[k].in) + 1 => All(con'[k])[i] = All(con[k])[i]
       /\ Unserved(con[k]) # <<>> /\ Head(Unserved(con[k])) = m
       /\ Unserved(con'[k]) = Tail(Unserved(con[k]))
  <2>. DEFINE x == con[k]
              y == con'[k]
  <2>1. x \in Contexts /\ x.wire # <<>> /\ r \in Replies
    BY <1>2, <1>4, <1>7
  <2>7. y = [x EXCEPT !.wire = Tail(x.wire), !.in = Append(x.in, r), !.asking = b]
    BY <1>9
  <2>2. m = Head(x.wire)
    BY DEF m
  <2>. HIDE DEF x, y
  <2>5. Tail(x.wire) \in Seq(Sent) /\ Append(x.in, r) \in Seq(Replies)
    <3>. DEFINE d == x.wire
                a == x.in
    <3>1. d \in Seq(Sent) /\ d # <<>> /\ a \in Seq(Replies)
      BY <2>1, Parts
    <3>. HIDE DEF a, d
    <3>2. Tail(d) \in Seq(Sent) /\ Append(a, r) \in Seq(Replies)
      BY <2>1, <3>1
    <3>. QED  BY <3>2 DEF a, d
  <2>6. /\ y \in Contexts
        /\ y.wire = Tail(x.wire) /\ y.in = Append(x.in, r) /\ y.out = x.out
        /\ y.up = x.up /\ y.err = x.err
    BY <1>10, <2>1, <2>5, <2>7 DEF Contexts
  <2>3. /\ Len(All(y)) = Len(All(x))
        /\ Len(x.in) + 1 \in 1 .. Len(All(x))
        /\ All(y)[Len(x.in) + 1] = r
        /\ All(x)[Len(x.in) + 1] = Head(x.wire)
        /\ \A i \in 1 .. Len(All(x)) : i # Len(x.in) + 1 => All(y)[i] = All(x)[i]
        /\ Unserved(x) # <<>> /\ Head(Unserved(x)) = Head(x.wire)
        /\ Unserved(y) = Tail(Unserved(x))
    BY <2>1, <2>6, ServeContext
  <2>4. All(x)[Len(x.in) + 1] = m /\ Head(Unserved(x)) = m
    BY <2>2, <2>3, Zenon
  <2>. QED  BY <2>3, <2>4, <2>6 DEF x, y
<1>12. con' \in Connections
  BY <1>1, <1>9, <1>11 DEF Connections
<1>13. \A l \in Keys \ {k} : Unserved(con'[l]) = Unserved(con[l])
  BY <1>9
<1>14. /\ Executed(executed, m, done) \in Executions
       /\ Once(con', orphans, Executed(executed, m, done))
       /\ \A i \in 1 .. MaxCalls, s \in Slots :
             Clear(con, orphans, executed, i, s) => Clear(con', orphans, Executed(executed, m, done), i, s)
       /\ m.t = "cmd" /\ ~done => Clear(con', orphans, executed, m.id, m.slot)
  <2>1. done => m.t = "cmd"
    BY <1>7
  <2>2. done \in BOOLEAN
    OBVIOUS
  <2>. HIDE DEF done
  <2>. QED  BY <1>1, <1>5, <1>11, <1>12, <1>13, <2>1, <2>2, ServeKeeps
<1>15. /\ Once(con', orphans', executed') /\ executed' \in Executions
       /\ \A i \in 1 .. MaxCalls, s \in Slots :
             Clear(con, orphans, executed, i, s) => Clear(con', orphans', executed', i, s)
  BY <1>6, <1>8, <1>14, Zenon
<1>16. Wires' /\ AllStayFresh
  BY <1>1, <1>6, <1>12, <1>15 DEF Wires, OnceNow, AllStayFresh, StaysFresh, Fresh
<1>17. r.t \in Redirects => Clear(con', orphans', executed', r.id, r.slot)
  <2>. SUFFICES ASSUME r.t \in Redirects PROVE Clear(con', orphans', executed', r.id, r.slot)
    OBVIOUS
  <2>1. ~done /\ m.t = "cmd"
    BY <1>7 DEF Redirects
  <2>2. executed' = executed
    BY <1>8, <2>1 DEF Executed
  <2>3. Clear(con', orphans', executed', m.id, m.slot)
    BY <1>6, <1>14, <2>1, <2>2, Zenon
  <2>. QED  BY <1>7, <2>3
<1>18. NewReplies
  <2>. SUFFICES ASSUME NEW l \in Keys, con'[l] # NoCon, NEW i \in 1 .. Len(con'[l].in)
                PROVE  \/ con[l] # NoCon /\ i <= Len(con[l].in) /\ con'[l].in[i] = con[l].in[i]
                       \/ con'[l].in[i].t \in Redirects =>
                             Clear(con', orphans', executed', con'[l].in[i].id, con'[l].in[i].slot)
    BY DEF NewReplies
  <2>1. CASE l # k
    <3>1. con'[l] = con[l]
      BY <1>9, <2>1
    <3>2. con[l] \in Contexts
      BY <1>1, <3>1 DEF Connections
    <3>3. Len(con[l].in) \in Nat
      BY <3>2, AllParts
    <3>. QED  BY <3>1, <3>3
  <2>2. CASE l = k
    <3>. DEFINE q == con[k].in
                p == con'[k].in
    <3>1. q \in Seq(Replies) /\ p = Append(q, r) /\ i \in 1 .. Len(p)
      BY <1>4, <1>11, <2>2, Parts
    <3>. HIDE DEF p, q
    <3>2. \/ i <= Len(q) /\ p[i] = q[i]
          \/ p[i] = r
      BY <1>7, <3>1
    <3>3. \/ i <= Len(q) /\ p[i] = q[i]
          \/ p[i].t \in Redirects => Clear(con', orphans', executed', p[i].id, p[i].slot)
      BY <1>17, <3>2, Zenon
    <3>. QED  BY <1>2, <2>2, <3>3, Zenon DEF p, q
  <2>. QED  BY <2>1, <2>2
<1>19. \A l \in Keys : Drifts(con[l], con'[l])
  <2>1. Drifts(con[k], con'[k])
    <3>1. \A i \in 1 .. Len(All(con[k])) :
             All(con'[k])[i].id = All(con[k])[i].id /\ All(con'[k])[i].slot = All(con[k])[i].slot
      BY <1>7, <1>11, Zenon
    <3>. QED  BY <1>2, <1>4, <1>11, <3>1 DEF Drifts
  <2>2. \A l \in Keys \ {k} : Drifts(con[l], con'[l])
    <3>. SUFFICES ASSUME NEW l \in Keys \ {k} PROVE con'[l] = con[l]
      BY DEF Drifts
    <3>. QED  BY <1>9
  <2>. QED  BY <2>1, <2>2
<1>. QED  BY <1>16, <1>18, <1>19

\* A connection that breaks keeps what is buffered.
LEMMA BreakDrifts ==
    ASSUME NEW x \in Contexts, NEW i \in {x.in, <<>>},
           NEW y, y = [x EXCEPT !.up = FALSE, !.wire = <<>>, !.in = i]
    PROVE  /\ y \in Contexts /\ Drifts(x, y)
           /\ Suffix(Unserved(x), Unserved(y)) /\ Len(Unserved(y)) <= Len(x.out)
           /\ y.in \in {x.in, <<>>}
<1>1. y \in Contexts /\ ~y.up /\ y.err = x.err /\ y.in = i /\ y.wire = <<>> /\ y.out = x.out /\ Unserved(y) = x.out
  <2>1. ~y.up /\ y.err = x.err /\ y.in = i /\ y.wire = <<>> /\ y.out = x.out
    BY DEF Contexts
  <2>2. i \in Seq(Replies) /\ <<>> \in Seq(Sent)
    <3>1. <<>> \in Seq(Replies) /\ <<>> \in Seq(Sent)
      OBVIOUS
    <3>2. x.in \in Seq(Replies)
      BY Parts
    <3>. QED  BY <3>1, <3>2, Zenon
  <2>3. y \in Contexts
    BY <2>2 DEF Contexts
  <2>. DEFINE d == x.out
  <2>4. Unserved(y) = <<>> \o d /\ d \in Seq(Sent)
    BY <2>1, <2>3, Parts
  <2>. HIDE DEF d
  <2>5. <<>> \o d = d
    BY <2>4
  <2>. QED  BY <2>1, <2>3, <2>4, <2>5 DEF d
<1>2. Drifts(x, y)
  BY <1>1 DEF Drifts
<1>. DEFINE d == x.out
            w == x.wire
<1>3. w \in Seq(Sent) /\ d \in Seq(Sent) /\ Unserved(x) = w \o d /\ Unserved(y) = d
  BY <1>1, Parts
<1>. HIDE DEF d, w
<1>4. Suffix(w \o d, d) /\ Len(d) <= Len(d)
  BY <1>3, Suffixes
<1>5. Suffix(Unserved(x), Unserved(y)) /\ Len(Unserved(y)) <= Len(d)
  BY <1>3, <1>4, Zenon
<1>. QED  BY <1>1, <1>2, <1>5 DEF d

\* Connections break: what is on their wires is lost or left as orphans.
LEMMA BrokenWires ==
    ASSUME Types, OnceNow, con' = [k \in Keys |-> con'[k]], executed' = executed,
           \A k \in Keys : con'[k] = con[k] \/ (con[k] # NoCon /\ \E i \in {con[k].in, <<>>} :
              con'[k] = [con[k] EXCEPT !.up = FALSE, !.wire = <<>>, !.in = i]),
           \A o \in orphans' : o \in orphans \/ \E k \in Keys :
              con[k] # NoCon /\ o \in redisFree(con[k]) /\ con'[k] # con[k]
    PROVE  Wires' /\ AllStayFresh /\ NewReplies /\ \A k \in Keys : Drifts(con[k], con'[k])
<1>1. Wires /\ con \in Connections
  BY WiresType DEF Wires
<1>2. \A k \in Keys : con[k] \in Contexts \cup {NoCon} /\ Unserved(con[k]) \in Seq(Sent)
  BY <1>1, UnservedType DEF Connections
<1>3. ASSUME NEW k \in Keys
      PROVE  \/ con'[k] = con[k]
             \/ /\ con[k] \in Contexts /\ con'[k] \in Contexts /\ Drifts(con[k], con'[k])
                /\ Suffix(Unserved(con[k]), Unserved(con'[k])) /\ Len(Unserved(con'[k])) <= Len(con[k].out)
                /\ con'[k].in \in {con[k].in, <<>>}
  <2>1. CASE con'[k] = con[k]
    BY <2>1
  <2>2. CASE con'[k] # con[k]
    <3>1. con[k] \in Contexts
      BY <1>2, <2>2
    <3>2. PICK i \in {con[k].in, <<>>} : con'[k] = [con[k] EXCEPT !.up = FALSE, !.wire = <<>>, !.in = i]
      BY <2>2
    <3>. DEFINE x == con[k]
                y == con'[k]
    <3>3. x \in Contexts /\ i \in {x.in, <<>>} /\ y = [x EXCEPT !.up = FALSE, !.wire = <<>>, !.in = i]
      BY <3>1, <3>2
    <3>. HIDE DEF x, y
    <3>4. /\ y \in Contexts /\ Drifts(x, y)
          /\ Suffix(Unserved(x), Unserved(y)) /\ Len(Unserved(y)) <= Len(x.out)
          /\ y.in \in {x.in, <<>>}
      BY <3>3, BreakDrifts
    <3>. QED  BY <3>1, <3>4 DEF x, y
  <2>. QED  BY <2>1, <2>2
<1>4. con' \in Connections
  BY <1>2, <1>3 DEF Connections
<1>5. \A k \in Keys : Suffix(Unserved(con[k]), Unserved(con'[k])) /\ Drifts(con[k], con'[k])
  <2>. SUFFICES ASSUME NEW k \in Keys PROVE Suffix(Unserved(con[k]), Unserved(con'[k])) /\ Drifts(con[k], con'[k])
    OBVIOUS
  <2>1. CASE con'[k] = con[k]
    BY <1>2, <2>1, Suffixes DEF Drifts
  <2>2. CASE con'[k] # con[k]
    BY <1>3, <2>2
  <2>. QED  BY <2>1, <2>2
<1>6. ASSUME NEW o \in orphans'
      PROVE  /\ o \in Orphans
             /\ o \in orphans \/ \E k \in Keys :
                   con[k] # NoCon /\ o \in redisFree(con[k]) /\ Len(Unserved(con'[k])) <= Len(con[k].out)
  <2>1. CASE o \in orphans
    BY <1>1, <2>1 DEF Wires
  <2>2. CASE o \notin orphans
    <3>1. PICK k \in Keys : con[k] # NoCon /\ o \in redisFree(con[k]) /\ con'[k] # con[k]
      BY <2>2
    <3>2. con[k] \in Contexts /\ Len(Unserved(con'[k])) <= Len(con[k].out)
      BY <1>3, <3>1
    <3>. QED  BY <3>1, <3>2, Freed
  <2>. QED  BY <2>1, <2>2
<1>7. Wires' /\ AllStayFresh
  <2>1. orphans' \in SUBSET Orphans
    BY <1>6
  <2>. QED  BY <1>1, <1>4, <1>5, <1>6, <2>1, LessWires
<1>8. NewReplies
  <2>. SUFFICES ASSUME NEW k \in Keys, con'[k] # NoCon, NEW i \in 1 .. Len(con'[k].in)
                PROVE  con[k] # NoCon /\ i <= Len(con[k].in) /\ con'[k].in[i] = con[k].in[i]
    BY DEF NewReplies
  <2>1. con[k] \in Contexts /\ con'[k].in \in {con[k].in, <<>>} /\ con'[k] \in Contexts
    BY <1>2, <1>3, <1>4 DEF Connections
  <2>2. con'[k].in \in Seq(Replies)
    BY <2>1, Parts
  <2>3. con'[k].in # <<>> /\ i <= Len(con'[k].in)
    BY <2>2, Inside, Zenon
  <2>4. con'[k].in = con[k].in
    BY <2>1, <2>3
  <2>5. con[k] # NoCon
    BY <2>1, ContextIsOne
  <2>. QED  BY <2>3, <2>4, <2>5, Zenon
<1>. QED  BY <1>5, <1>7, <1>8

\* A server gets to an orphan.
LEMMA LateWires ==
    ASSUME Types, OnceNow, ServeLate
    PROVE  Wires' /\ AllStayFresh
<1>1. con \in Connections /\ executed \in Executions /\ orphans \in SUBSET Orphans
      /\ Once(con, orphans, executed)
  BY WiresType DEF Wires, OnceNow
<1>2. PICK o \in orphans :
          /\ \E r \in Answers(o.to, o.msg, o.asking) : Execute(r)
          /\ orphans' = orphans \ {o}
  BY DEF ServeLate
<1>3. PICK r \in Answers(o.to, o.msg, o.asking) : Execute(r)
  BY <1>2
<1>. DEFINE m == o.msg
            done == r.t = "ok"
<1>4. r.id = m.id /\ r.slot = m.slot
  BY <1>3 DEF Answers, Reply
<1>5. executed' = Executed(executed, m, done)
  BY <1>3, <1>4 DEF Execute, Executed
<1>6. con' = con
  BY DEF ServeLate
<1>7. done \in BOOLEAN
  OBVIOUS
<1>. HIDE DEF done
<1>8. /\ Executed(executed, o.msg, done) \in Executions
      /\ Once(con, orphans \ {o}, Executed(executed, o.msg, done))
      /\ \A i \in 1 .. MaxCalls, s \in Slots :
            Clear(con, orphans, executed, i, s)
               => Clear(con, orphans \ {o}, Executed(executed, o.msg, done), i, s)
  BY <1>1, <1>7, LateKeeps
<1>9. /\ executed' \in Executions /\ Once(con', orphans', executed')
      /\ \A i \in 1 .. MaxCalls, s \in Slots :
            Clear(con, orphans, executed, i, s) => Clear(con', orphans', executed', i, s)
  BY <1>2, <1>5, <1>6, <1>8, Zenon
<1>. QED  BY <1>1, <1>2, <1>6, <1>9 DEF Wires, OnceNow, AllStayFresh, StaysFresh, Fresh

\* All that happens without the client, and what it writes.
LEMMA DriftWires ==
    ASSUME Types, OnceNow, Waiting => c \in Keys /\ Good(con[c]), Write \/ environment
    PROVE  Wires' /\ AllStayFresh /\ NewReplies /\ \A k \in Keys : Drifts(con[k], con'[k])
<1>1. Wires /\ con \in Connections
  BY WiresType DEF Wires
<1>2. \A k \in Keys : con[k] \in Contexts \cup {NoCon}
  BY <1>1 DEF Connections
<1>3. ASSUME con' = con
      PROVE  NewReplies /\ \A k \in Keys : Drifts(con[k], con'[k])
  <2>1. \A k \in Keys : con[k] # NoCon => Len(con[k].in) \in Nat
    BY <1>2, AllParts
  <2>. QED  BY <1>3, <2>1 DEF NewReplies, Drifts
<1>4. CASE Write
  <2>1. Waiting
    BY <1>4 DEF Write
  <2>2. /\ Wires' /\ AllStayFresh
        /\ con'[c] \in Contexts /\ con'[c].in = con[c].in /\ con'[c].up = con[c].up
        /\ con'[c].err = con[c].err /\ All(con'[c]) = All(con[c])
        /\ \A k \in Keys \ {c} : con'[k] = con[k]
    BY <1>1, <1>4, <2>1, WriteWires
  <2>3. con[c] \in Contexts /\ con[c].up /\ c \in Keys
    BY <1>1, <1>4, <2>1, GoodContext DEF Write
  <2>4. Drifts(con[c], con'[c])
    BY <2>2, <2>3 DEF Drifts
  <2>5. \A k \in Keys : Drifts(con[k], con'[k])
    BY <2>2, <2>4 DEF Drifts
  <2>6. \A k \in Keys : con'[k] # NoCon => con[k] # NoCon /\ con'[k].in = con[k].in
    BY <2>2, <2>3, ContextIsOne
  <2>7. NewReplies
    <3>1. \A k \in Keys : con[k] # NoCon => Len(con[k].in) \in Nat
      BY <1>2, AllParts
    <3>. QED  BY <2>6, <3>1 DEF NewReplies
  <2>. QED  BY <2>2, <2>5, <2>7
<1>5. CASE Serve
  BY <1>5, ServeWires
<1>6. CASE ServeLate
  BY <1>3, <1>6, LateWires DEF ServeLate
<1>7. CASE Break
  <2>1. PICK k \in Keys :
          /\ con[k] # NoCon
          /\ con[k].up
          /\ \E lost \in BOOLEAN :
                con' = [con EXCEPT ![k].up = FALSE, ![k].wire = <<>>, ![k].in = IF lost THEN <<>> ELSE @]
          /\ orphans' = orphans \cup redisFree(con[k])
    BY <1>7 DEF Break
  <2>2. con[k] \in Contexts
    BY <1>2, <2>1
  <2>3. PICK i \in {con[k].in, <<>>} :
           con' = [con EXCEPT ![k] = [con[k] EXCEPT !.up = FALSE, !.wire = <<>>, !.in = i]]
    <3>1. PICK lost \in BOOLEAN :
             con' = [con EXCEPT ![k].up = FALSE, ![k].wire = <<>>, ![k].in = IF lost THEN <<>> ELSE @]
      BY <2>1
    <3>. DEFINE i == IF lost THEN <<>> ELSE con[k].in
    <3>2. con' = [con EXCEPT ![k] = [con[k] EXCEPT !.up = FALSE, !.wire = <<>>, !.in = i]]
      BY <1>1, <2>2, <3>1 DEF Connections, Contexts
    <3>. QED  BY <3>2
  <2>4. /\ con'[k] = [con[k] EXCEPT !.up = FALSE, !.wire = <<>>, !.in = i]
        /\ \A l \in Keys \ {k} : con'[l] = con[l]
        /\ con' = [l \in Keys |-> con'[l]]
    BY <1>1, <2>3 DEF Connections
  <2>5. con'[k] # con[k]
    BY <2>1, <2>2, <2>4 DEF Contexts
  <2>6. executed' = executed
    BY <1>7 DEF Break
  <2>7. \A l \in Keys : con'[l] = con[l] \/ (con[l] # NoCon /\ \E j \in {con[l].in, <<>>} :
           con'[l] = [con[l] EXCEPT !.up = FALSE, !.wire = <<>>, !.in = j])
    BY <2>1, <2>4
  <2>8. \A o \in orphans' : o \in orphans \/ \E l \in Keys :
           con[l] # NoCon /\ o \in redisFree(con[l]) /\ con'[l] # con[l]
    BY <2>1, <2>5
  <2>. QED  BY <2>4, <2>6, <2>7, <2>8, BrokenWires
<1>8. CASE Crash
  <2>1. PICK a \in alive :
          /\ con' = [k \in Keys |-> IF con[k].to = a /\ a # None
                                    THEN [con[k] EXCEPT !.up = FALSE, !.wire = <<>>, !.in = <<>>]
                                    ELSE con[k]]
          /\ orphans' = {o \in orphans : o.to # a}
          /\ executed' = executed
    BY <1>8 DEF Crash
  <2>2. ASSUME NEW k \in Keys, con'[k] # con[k]
        PROVE  con[k] # NoCon /\ con'[k] = [con[k] EXCEPT !.up = FALSE, !.wire = <<>>, !.in = <<>>]
    <3>1. con[k].to = a /\ a # None /\ con'[k] = [con[k] EXCEPT !.up = FALSE, !.wire = <<>>, !.in = <<>>]
      BY <2>1, <2>2
    <3>2. con[k] # NoCon
      BY <3>1 DEF NoCon
    <3>. QED  BY <3>1, <3>2
  <2>3. con' = [k \in Keys |-> con'[k]] /\ \A o \in orphans' : o \in orphans
    BY <2>1
  <2>4. \A l \in Keys : con'[l] = con[l] \/ (con[l] # NoCon /\ \E j \in {con[l].in, <<>>} :
           con'[l] = [con[l] EXCEPT !.up = FALSE, !.wire = <<>>, !.in = j])
    <3>1. \A l \in Keys : <<>> \in {con[l].in, <<>>}
      OBVIOUS
    <3>. QED  BY <2>2, <3>1, Zenon
  <2>. QED  BY <2>1, <2>3, <2>4, BrokenWires
<1>9. CASE Restart \/ Migrate \/ Migrated \/ Gossip
  <2>1. UNCHANGED <<con, orphans, executed>>
    BY <1>9 DEF Restart, Migrate, Migrated, Gossip
  <2>. QED  BY <1>1, <1>3, <2>1, SameWires
<1>. QED  BY <1>4, <1>5, <1>6, <1>7, <1>8, <1>9 DEF environment

\* redisCLusterSendAll writes what is buffered, or finds that it cannot.
LEMMA FlushContext ==
    ASSUME NEW x \in Contexts
    PROVE  /\ Flush(x) \in Contexts
           /\ Flush(x).in = x.in /\ Flush(x).up = x.up
           /\ All(Flush(x)) = All(x)
           /\ Unserved(Flush(x)) = Unserved(x)
<1>1. CASE x.err \/ x.out = <<>>
  BY <1>1 DEF Flush
<1>2. CASE ~x.err /\ x.out # <<>> /\ x.up
  <2>. DEFINE y == [x EXCEPT !.wire = x.wire \o x.out, !.out = <<>>]
  <2>1. Flush(x) = y
    BY <1>2 DEF Flush
  <2>2. y = [x EXCEPT !.wire = x.wire \o x.out, !.out = <<>>]
    OBVIOUS
  <2>. HIDE DEF y
  <2>3. y \in Contexts /\ y.in = x.in /\ y.up = x.up /\ All(y) = All(x) /\ Unserved(y) = Unserved(x)
    BY <2>2, WriteContext
  <2>. QED  BY <2>1, <2>3, Zenon
<1>3. CASE ~x.err /\ x.out # <<>> /\ ~x.up
  <2>. DEFINE y == [x EXCEPT !.err = TRUE]
  <2>1. Flush(x) = y
    BY <1>3 DEF Flush
  <2>2. y \in Contexts /\ y.in = x.in /\ y.wire = x.wire /\ y.out = x.out /\ y.up = x.up
    BY DEF Contexts
  <2>. HIDE DEF y
  <2>3. All(y) = All(x) /\ Unserved(y) = Unserved(x)
    BY <2>2, Parts
  <2>. QED  BY <2>1, <2>2, <2>3, Zenon
<1>. QED  BY <1>1, <1>2, <1>3

\* What redisCLusterSendAll makes of the contexts.
LEMMA SendWires ==
    ASSUME Types, OnceNow, SendAll, executed' = executed
    PROVE  /\ Wires' /\ AllStayFresh
           /\ \A k \in Keys :
                 \/ con'[k] = con[k]
                 \/ /\ con'[k] \in Contexts
                    /\ \/ Empty(con'[k])
                       \/ /\ con[k] \in Contexts /\ Good(con[k])
                          /\ con'[k].in = con[k].in /\ con'[k].up = con[k].up /\ All(con'[k]) = All(con[k])
<1>1. Wires /\ con \in Connections /\ orphans \in SUBSET Orphans
  BY WiresType DEF Wires
<1>2. PICK S \in SUBSET nodes :
         /\ con' = [k \in Keys |-> IF k \in S THEN Flush(ctx_get_by_node(k)) ELSE con[k]]
         /\ orphans' = orphans \cup UNION {redisFree(con[k]) : k \in {k \in S : con[k] # NoCon /\ con[k].err}}
  BY DEF SendAll
<1>3. ASSUME NEW k \in S
      PROVE  /\ k \in Keys /\ con'[k] \in Contexts
             /\ con[k] \in Contexts \cup {NoCon}
             /\ Good(con[k]) => /\ con'[k].in = con[k].in /\ con'[k].up = con[k].up
                                /\ All(con'[k]) = All(con[k]) /\ Unserved(con'[k]) = Unserved(con[k])
             /\ ~Good(con[k]) => Empty(con'[k]) /\ Unserved(con'[k]) = <<>>
  <2>. DEFINE x == ctx_get_by_node(k)
  <2>1. /\ k \in Keys /\ x \in Contexts /\ con[k] \in Contexts \cup {NoCon}
        /\ Good(con[k]) => x = con[k]
        /\ ~Good(con[k]) => Empty(x) /\ Unserved(x) = <<>>
    BY GetContext
  <2>2. con'[k] = Flush(x)
    BY <1>2, <2>1
  <2>. HIDE DEF x
  <2>3. /\ Flush(x) \in Contexts /\ Flush(x).in = x.in /\ Flush(x).up = x.up
        /\ All(Flush(x)) = All(x) /\ Unserved(Flush(x)) = Unserved(x)
    BY <2>1, FlushContext
  <2>4. Empty(x) => Empty(Flush(x))
    <3>1. x.out = <<>> => Flush(x) = x
      BY DEF Flush
    <3>. QED  BY <3>1 DEF Empty
  <2>5. ~Good(con[k]) => Empty(con'[k]) /\ Unserved(con'[k]) = <<>>
    BY <2>1, <2>2, <2>3, <2>4, Zenon
  <2>6. Good(con[k]) => /\ con'[k].in = con[k].in /\ con'[k].up = con[k].up
                        /\ All(con'[k]) = All(con[k]) /\ Unserved(con'[k]) = Unserved(con[k])
    BY <2>1, <2>2, <2>3, Zenon
  <2>7. con'[k] \in Contexts
    BY <2>2, <2>3, Zenon
  <2>. QED  BY <2>1, <2>5, <2>6, <2>7
<1>4. \A k \in Keys \ S : con'[k] = con[k]
  BY <1>2
<1>5. con' \in Connections
  BY <1>1, <1>2, <1>3, <1>4 DEF Connections
<1>6. \A k \in Keys : Suffix(Unserved(con[k]), Unserved(con'[k]))
  <2>. SUFFICES ASSUME NEW k \in Keys PROVE Suffix(Unserved(con[k]), Unserved(con'[k]))
    OBVIOUS
  <2>1. Unserved(con'[k]) = Unserved(con[k]) \/ Unserved(con'[k]) = <<>>
    BY <1>3, <1>4
  <2>. QED  BY <1>1, <2>1, UnservedType, Suffixes
<1>7. ASSUME NEW o \in orphans', o \notin orphans
      PROVE  o \in Orphans /\ \E k \in Keys :
                con[k] # NoCon /\ o \in redisFree(con[k]) /\ Len(Unserved(con'[k])) <= Len(con[k].out)
  <2>1. PICK k \in S : con[k] # NoCon /\ con[k].err /\ o \in redisFree(con[k])
    BY <1>2, <1>7
  <2>2. con[k] \in Contexts /\ ~Good(con[k])
    BY <1>3, <2>1 DEF Good
  <2>3. Unserved(con'[k]) = <<>> /\ k \in Keys
    BY <1>3, <2>2
  <2>4. Len(Unserved(con'[k])) <= Len(con[k].out)
    <3>1. Len(con[k].out) \in Nat
      BY <2>2, AllParts
    <3>. QED  BY <2>3, <3>1
  <2>. QED  BY <2>1, <2>2, <2>3, <2>4, Freed
<1>8. Wires' /\ AllStayFresh
  <2>1. orphans' \in SUBSET Orphans
    BY <1>1, <1>7
  <2>2. \A o \in orphans' : o \in orphans \/ \E k \in Keys :
           con[k] # NoCon /\ o \in redisFree(con[k]) /\ Len(Unserved(con'[k])) <= Len(con[k].out)
    BY <1>7
  <2>. QED  BY <1>1, <1>5, <1>6, <2>1, <2>2, LessWires
<1>9. ASSUME NEW k \in Keys
      PROVE  \/ con'[k] = con[k]
             \/ /\ con'[k] \in Contexts
                /\ \/ Empty(con'[k])
                   \/ /\ con[k] \in Contexts /\ Good(con[k])
                      /\ con'[k].in = con[k].in /\ con'[k].up = con[k].up /\ All(con'[k]) = All(con[k])
  <2>1. CASE k \notin S
    BY <1>4, <2>1
  <2>2. CASE k \in S
    <3>1. Good(con[k]) => con[k] \in Contexts
      BY <1>3, <2>2 DEF Good
    <3>. QED  BY <1>3, <2>2, <3>1
  <2>. QED  BY <2>1, <2>2
<1>. QED  BY <1>8, <1>9

\* The contexts when ASK is followed, before ASKING is appended: the one that
\* the reply was read from, that of the named node k at address a, and all.
ReadFrom == [con[c] EXCEPT !.in = Tail(con[c].in)]
Named(k, a) == IF k \in Addrs THEN ctx_get_by_node(k) ELSE redisConnect(a)
AskedOf(k, a) == IF k = c /\ k \in Addrs THEN ReadFrom ELSE Named(k, a)
AskedFrom(k, a) == [l \in Keys |-> IF l = k THEN AskedOf(k, a) ELSE IF l = c THEN ReadFrom ELSE con[l]]

\* They are new, or the ones that were there.
LEMMA AskFades ==
    ASSUME Types, OnceNow, c \in Keys, Good(con[c]), con[c].in # <<>>,
           NEW s \in Slots, NEW a \in Addrs, NEW k, k = AskKey(s, a),
           orphans' = orphans \cup IF con[k] # NoCon /\ (con[k].err \/ k = Leaked) THEN redisFree(con[k]) ELSE {}
    PROVE  /\ k \in Keys /\ ReadFrom \in Contexts /\ AskedOf(k, a) \in Contexts /\ AskedFrom(k, a) \in Connections
           /\ All(ReadFrom) = Tail(All(con[c])) /\ ~ReadFrom.err
           /\ k # c \/ k \notin Addrs =>
                 /\ AskedOf(k, a) = Named(k, a)
                 /\ Empty(AskedOf(k, a)) \/ (k # c /\ Good(con[k]) /\ AskedOf(k, a) = con[k])
           /\ k = c /\ k \in Addrs => AskedOf(k, a) = ReadFrom /\ ~Named(k, a).err
           /\ orphans' \in SUBSET Orphans
           /\ \A l \in Keys : Suffix(Unserved(con[l]), Unserved(AskedFrom(k, a)[l]))
           /\ \A o \in orphans' : o \in orphans \/ \E l \in Keys :
                 con[l] # NoCon /\ o \in redisFree(con[l]) /\ Len(Unserved(AskedFrom(k, a)[l])) <= Len(con[l].out)
<1>. DEFINE x == Named(k, a)
            y == ReadFrom
            z == AskedOf(k, a)
            cn == AskedFrom(k, a)
<1>0. /\ x = IF k \in Addrs THEN ctx_get_by_node(k) ELSE redisConnect(a)
      /\ y = [con[c] EXCEPT !.in = Tail(con[c].in)]
      /\ z = IF k = c /\ k \in Addrs THEN y ELSE x
      /\ cn = [l \in Keys |-> IF l = k THEN z ELSE IF l = c THEN y ELSE con[l]]
  BY DEF Named, ReadFrom, AskedOf, AskedFrom
<1>. HIDE DEF x, y, z, cn
<1>. USE <1>0
<1>1. Wires /\ con \in Connections /\ orphans \in SUBSET Orphans
  BY WiresType DEF Wires
<1>2. con[c] \in Contexts /\ ~con[c].err
  BY <1>1, GoodContext
<1>3. /\ y \in Contexts /\ y.err = con[c].err /\ All(y) = Tail(All(con[c])) /\ Unserved(y) = Unserved(con[c])
  BY <1>2, ReadContext
<1>4. k \in Keys /\ (k \in Addrs => k \in nodes)
  BY Constants DEF AskKey, Keys
<1>5. /\ x \in Contexts
      /\ \/ Empty(x) /\ Unserved(x) = <<>> /\ ~(k \in Addrs /\ Good(con[k]))
         \/ k \in Addrs /\ Good(con[k]) /\ x = con[k]
  <2>1. CASE k \in Addrs
    BY <1>4, <2>1, GetContext
  <2>2. CASE k \notin Addrs
    BY <2>2, FreshContext
  <2>. QED  BY <2>1, <2>2
<1>6. z \in Contexts
  BY <1>3, <1>5
<1>7. cn \in Connections
  BY <1>1, <1>3, <1>6 DEF Connections
<1>8. k # c \/ k \notin Addrs => z = x /\ (Empty(z) \/ (k # c /\ Good(con[k]) /\ z = con[k]))
  BY <1>5
<1>9. k = c /\ k \in Addrs => z = y /\ ~x.err
  BY <1>2, <1>5
<1>10. cn[k] = z /\ (c # k => cn[c] = y) /\ \A l \in Keys \ {k, c} : cn[l] = con[l]
  BY <1>4
<1>11. Unserved(z) = <<>> \/ Unserved(z) = Unserved(con[k])
  BY <1>3, <1>5
<1>12. \A l \in Keys : Suffix(Unserved(con[l]), Unserved(cn[l]))
  <2>. SUFFICES ASSUME NEW l \in Keys PROVE Suffix(Unserved(con[l]), Unserved(cn[l]))
    OBVIOUS
  <2>1. Unserved(cn[l]) = Unserved(con[l]) \/ Unserved(cn[l]) = <<>>
    <3>1. CASE l = k
      BY <1>10, <1>11, <3>1
    <3>2. CASE l # k /\ l = c
      <4>1. cn[l] = y
        BY <1>10, <3>2
      <4>. QED  BY <1>3, <3>2, <4>1, Zenon
    <3>3. CASE l # k /\ l # c
      <4>1. cn[l] = con[l]
        BY <1>10, <3>3
      <4>. QED  BY <4>1, Zenon
    <3>. QED  BY <3>1, <3>2, <3>3
  <2>. QED  BY <1>1, <2>1, UnservedType, Suffixes
<1>13. ASSUME NEW o \in orphans', o \notin orphans
       PROVE  o \in Orphans /\ \E l \in Keys :
                 con[l] # NoCon /\ o \in redisFree(con[l]) /\ Len(Unserved(cn[l])) <= Len(con[l].out)
  <2>1. con[k] # NoCon /\ (con[k].err \/ k = Leaked) /\ o \in redisFree(con[k])
    BY <1>13
  <2>2. con[k] \in Contexts
    BY <1>1, <1>4, <2>1 DEF Connections
  <2>3. ~(k \in Addrs /\ Good(con[k]))
    BY <2>1, Constants DEF Good
  <2>4. Unserved(z) = <<>>
    <3>1. k # c \/ k \notin Addrs
      BY <2>3
    <3>. QED  BY <1>5, <1>8, <2>3, <3>1
  <2>5. Len(Unserved(cn[k])) <= Len(con[k].out)
    <3>1. Len(con[k].out) \in Nat
      BY <2>2, AllParts
    <3>2. Len(Unserved(cn[k])) = 0
      <4>1. cn[k] = z
        BY <1>10
      <4>2. Unserved(cn[k]) = <<>>
        BY <2>4, <4>1, Zenon
      <4>. QED  BY <4>2
    <3>. QED  BY <3>1, <3>2
  <2>. QED  BY <1>4, <2>1, <2>2, <2>5, Freed
<1>14. orphans' \in SUBSET Orphans
  BY <1>1, <1>13
<1>15. \A o \in orphans' : o \in orphans \/ \E l \in Keys :
          con[l] # NoCon /\ o \in redisFree(con[l]) /\ Len(Unserved(cn[l])) <= Len(con[l].out)
  BY <1>13
<1>16. ~y.err
  BY <1>2, <1>3
<1>. QED  BY <1>3, <1>4, <1>6, <1>7, <1>8, <1>9, <1>12, <1>14, <1>15, <1>16, Zenon DEF x, y, z, cn

-----------------------------------------------------------------------------
(***************************************************************************)
(* Where the client is.                                                    *)
(***************************************************************************)
Control ==
    /\ pc \in Calling \cup {"connect", "freed"} => ~draining
    /\ pc \in Calling \cup {"connect"} => ~piping
    /\ pc \in Fetching \cup {"append", "reset", "drain"} => piping
    /\ pc \in {"idle", "append", "reset", "freed"} => ~draining
    /\ pc = "drain" => draining
    /\ pc \in Fetching => ~err
    /\ ~piping \/ pc = "reset" => requests = <<>>
    /\ Waiting => c \in Keys /\ Good(con[c])
    /\ pc = "append" => \A j \in 1 .. Len(requests) : requests[j].id < cur.id
    /\ pc \in Fetching => \A j \in 1 .. Len(requests) : cur.id < requests[j].id
    /\ pc = "collect" => c = table[AtSlot]

-----------------------------------------------------------------------------
(***************************************************************************)
(* The sub-commands that the client may still send.                        *)
(***************************************************************************)
Unsent ==
    /\ \A i \in calls + 1 .. MaxCalls, s \in Slots : Fresh(i, s)
    /\ pc \in Calling \cup {"append"} =>
          \A n \in Len(cur.got) + 1 .. Len(cur.todo) :
              (pc = "reply" /\ n = Len(cur.got) + 1) \/ Fresh(cur.id, cur.todo[n])

-----------------------------------------------------------------------------
(***************************************************************************)
(* One call at a time.                                                     *)
(***************************************************************************)
Quiet ==
    ~piping \/ pc = "reset" =>
        \A k \in Keys : Good(con[k]) => Empty(con[k]) \/ (Waiting /\ k = c)

\* the only thing that the client waits for
Awaited ==
    Waiting /\ ~piping =>
        /\ Len(All(con[c])) <= 1
        /\ pc = "reply" => \A i \in 1 .. Len(All(con[c])) :
              /\ All(con[c])[i].id = cur.id
              /\ All(con[c])[i].slot = AtSlot
        /\ pc = "reply" => \A i \in 1 .. Len(con[c].in) :
              con[c].in[i].t \in Redirects => Fresh(cur.id, AtSlot)

Matched(id, slots, got) == \A i \in 1 .. Len(got) : got[i].id = id /\ got[i].slot = slots[i]

Collecting == pc \in Working => Matched(cur.id, cur.todo, cur.got)

Given == answer \in [id : 0 .. MaxCalls, slots : Seq(Slots), got : Seq(Sent \cup Replies)]
         /\ Matched(answer.id, answer.slots, answer.got)

-----------------------------------------------------------------------------
(***************************************************************************)
(* The pipeline.                                                           *)
(***************************************************************************)

\* sub-commands that have been appended and whose replies are not yet fetched
Pending ==
    {p \in (1 .. MaxCalls) \X Slots :
        \/ \E j \in 1 .. Len(requests) :
              p[1] = requests[j].id /\ \E n \in 1 .. Len(requests[j].todo) : p[2] = requests[j].todo[n]
        \/ pc \in Fetching /\ p[1] = cur.id
              /\ \E n \in Len(cur.got) + 1 .. Len(cur.todo) : p[2] = cur.todo[n]
        \/ pc = "append" /\ p[1] = cur.id
              /\ \E n \in 1 .. Len(cur.got) : p[2] = cur.todo[n]}

Before(p, q) == p[1] < q[1] \/ (p[1] = q[1] /\ p[2] < q[2])

\* context x of node k, when P is pending: it carries pending sub-commands
\* of its node in their order, and the replies that may come leave none out
Queued(x, k, P) ==
    LET q(i) == <<All(x)[i].id, All(x)[i].slot>>
        len == Len(All(x))
    IN  /\ \A i \in 1 .. len : q(i) \in P /\ table[All(x)[i].slot] = k
        /\ \A i, j \in 1 .. len : i < j => Before(q(i), q(j))
        /\ \A i \in 1 .. len : x.up \/ i <= Len(x.in) =>
              \A p \in P : table[p[2]] = k /\ Before(p, q(i)) => \E j \in 1 .. i - 1 : q(j) = p

\* what is pending is on a good context, and in it if that is connected
Kept(x, k, P) ==
    \A p \in P : table[p[2]] = k =>
        Good(x) /\ (x.up => \E j \in 1 .. Len(All(x)) : p = <<All(x)[j].id, All(x)[j].slot>>)

Pipeline ==
    piping /\ ~err /\ pc # "reset" =>
        \A k \in Keys :
            /\ Good(con[k]) => Queued(con[k], k, Pending)
            /\ ~draining => Kept(con[k], k, Pending)

HirInv ==
    /\ Types
    /\ Control
    /\ Once(con, orphans, executed)
    /\ Unsent
    /\ Quiet
    /\ Awaited
    /\ Collecting
    /\ Given
    /\ Pipeline

-----------------------------------------------------------------------------
(***************************************************************************)
(* A call outside the pipeline.                                            *)
(***************************************************************************)
StaticType ==
    /\ alive \subseteq Addrs
    /\ view \in [Addrs -> [Slots -> Addrs]]
    /\ mig \in [Slots -> Addrs \cup {None}]
    /\ nodes \subseteq Addrs \cup Slots
    /\ host \in [Slots \cup {Leaked} -> Addrs \cup {None}]
    /\ \A k \in nodes \ Addrs : host[k] \in Addrs
    /\ table \in [Slots -> Addrs \cup {None}]

LaterFresh == \A i \in calls + 1 .. MaxCalls, s \in Slots : Fresh(i, s)

\* The types are those of the connections, of the call, and of the rest.
LEMMA TypesAre ==
    /\ Types => StaticType
    /\ Types /\ OnceNow => Wires
    /\ (StaticType' /\ Wires' /\ CallType') => Types' /\ OnceNow'
<1>1. Types => StaticType
  BY DEF Types, StaticType, ServerType, RouteType
<1>2. (StaticType' /\ Wires' /\ CallType') => Types' /\ OnceNow'
  BY DEF Types, StaticType, ServerType, RouteType, Wires, Connections, Executions
<1>. QED  BY <1>1, <1>2, WiresType

\* A context that carries nothing, and one that has a reply.
LEMMA Carried ==
    ASSUME NEW x \in Contexts
    PROVE  /\ Empty(x) <=> All(x) = <<>>
           /\ Empty(x) <=> Len(All(x)) = 0
           /\ x.in # <<>> => /\ x.in[1] \in Replies /\ All(x)[1] = x.in[1] /\ Len(All(x)) >= 1
                             /\ 1 \in 1 .. Len(x.in) /\ 1 \in 1 .. Len(All(x))
                             /\ All(x) # <<>>
                             /\ Len(All(x)) <= 1 => Tail(All(x)) = <<>> /\ Tail(x.in) = <<>>
<1>. DEFINE a == x.in
            b == x.wire
            d == x.out
            u == All(x)
<1>1. /\ a \in Seq(Replies) /\ b \in Seq(Sent) /\ d \in Seq(Sent) /\ u \in Seq(Sent \cup Replies)
      /\ Len(u) = Len(a) + Len(b) + Len(d)
      /\ \A i \in 1 .. Len(a) : u[i] = a[i]
  BY Parts, AllParts
<1>2. Empty(x) <=> a = <<>> /\ b = <<>> /\ d = <<>>
  BY DEF Empty
<1>. HIDE DEF a, b, d, u
<1>3. /\ Len(a) \in Nat /\ Len(b) \in Nat /\ Len(d) \in Nat
      /\ a = <<>> <=> Len(a) = 0
      /\ b = <<>> <=> Len(b) = 0
      /\ d = <<>> <=> Len(d) = 0
      /\ u = <<>> <=> Len(u) = 0
  BY <1>1
<1>4. (Empty(x) <=> Len(u) = 0) /\ (Empty(x) <=> u = <<>>)
  BY <1>1, <1>2, <1>3
<1>5. ASSUME a # <<>>
      PROVE  /\ a[1] \in Replies /\ u[1] = a[1] /\ Len(u) >= 1
             /\ 1 \in 1 .. Len(a) /\ 1 \in 1 .. Len(u)
             /\ u # <<>>
  BY <1>1, <1>3, <1>5
<1>6. ASSUME a # <<>>, Len(u) <= 1
      PROVE  Tail(u) = <<>> /\ Tail(a) = <<>>
  <2>1. Len(u) = Len(a) + Len(b) + Len(d)
    BY <1>1
  <2>2. Len(a) # 0
    BY <1>3, <1>6
  <2>3. Len(a) = 1 /\ Len(u) = 1
    <3>. DEFINE m == Len(a)
                n == Len(b)
                o == Len(d)
                l == Len(u)
    <3>1. m \in Nat /\ n \in Nat /\ o \in Nat /\ l = m + n + o /\ m # 0 /\ l <= 1
      BY <1>3, <1>6, <2>1, <2>2
    <3>. HIDE DEF l, m, n, o
    <3>2. m = 1 /\ l = 1
      BY <3>1
    <3>. QED  BY <3>2 DEF l, m
  <2>. QED  BY <1>1, <2>3
<1>. QED  BY <1>4, <1>5, <1>6 DEF a, u

\* What a call that is going on can rely on.
LEMMA DuringCall ==
    ASSUME HirInv, pc \in Calling
    PROVE  /\ Types /\ OnceNow /\ Wires /\ StaticType /\ con \in Connections
           /\ piping = FALSE /\ draining = FALSE /\ requests = <<>> /\ err \in BOOLEAN
           /\ calls \in 0 .. MaxCalls /\ cur \in Jobs /\ cur.id \in 1 .. calls /\ cur.id \in 1 .. MaxCalls
           /\ cur.todo \in Seq(Slots) /\ cur.got \in Seq(Sent \cup Replies)
           /\ Increasing(cur.todo) /\ Len(cur.got) < Len(cur.todo)
           /\ Len(cur.got) \in Nat /\ Len(cur.todo) \in Nat
           /\ c \in Keys \cup {None}
           /\ Waiting => c \in Keys /\ Good(con[c])
           /\ AtSlot \in Slots /\ AtSlot = cur.todo[Len(cur.got) + 1]
           /\ This \in Sent /\ This.t = "cmd" /\ This.id = cur.id /\ This.slot = AtSlot
           /\ LaterFresh
           /\ Matched(cur.id, cur.todo, cur.got)
           /\ \A k \in Keys : Good(con[k]) => Empty(con[k]) \/ (Waiting /\ k = c)
<1>1. Types /\ OnceNow /\ Wires /\ StaticType /\ con \in Connections
  <2>1. Types /\ OnceNow
    BY DEF HirInv, OnceNow
  <2>. QED  BY <2>1, TypesAre DEF Wires
<1>2. /\ piping = FALSE /\ draining = FALSE /\ requests = <<>> /\ err \in BOOLEAN
      /\ calls \in 0 .. MaxCalls /\ cur \in Jobs /\ cur.id \in 1 .. calls /\ cur.id \in 1 .. MaxCalls
      /\ Increasing(cur.todo) /\ Len(cur.got) < Len(cur.todo)
      /\ c \in Keys \cup {None}
  BY Constants DEF HirInv, Control, Types, CallType, Calling, Working
<1>3. Waiting => c \in Keys /\ Good(con[c])
  BY DEF HirInv, Control
<1>4. cur.todo \in Seq(Slots) /\ cur.got \in Seq(Sent \cup Replies)
  BY <1>2 DEF Jobs
<1>. DEFINE u == cur.todo
            g == cur.got
<1>5. Len(g) \in Nat /\ Len(u) \in Nat /\ u[Len(g) + 1] \in Slots
  <2>1. u \in Seq(Slots) /\ g \in Seq(Sent \cup Replies) /\ Len(g) < Len(u)
    BY <1>2, <1>4
  <2>. HIDE DEF u, g
  <2>. QED  BY <2>1
<1>6. AtSlot = cur.todo[Len(cur.got) + 1] /\ AtSlot \in Slots
  BY <1>5 DEF AtSlot
<1>7. This \in Sent /\ This.t = "cmd" /\ This.id = cur.id /\ This.slot = AtSlot
  BY <1>2, <1>6, MessageTypes DEF This
<1>8. LaterFresh /\ Matched(cur.id, cur.todo, cur.got)
  BY DEF HirInv, Unsent, LaterFresh, Collecting, Working
<1>9. \A k \in Keys : Good(con[k]) => Empty(con[k]) \/ (Waiting /\ k = c)
  BY <1>2 DEF HirInv, Quiet
<1>. QED  BY <1>1, <1>2, <1>3, <1>4, <1>5, <1>6, <1>7, <1>8, <1>9

\* What the types say of the requests holds when there are none.
LEMMA NoRequests ==
    ASSUME requests' = <<>>
    PROVE  /\ requests' \in Seq(Jobs)
           /\ (\A j \in 1 .. Len(requests) :
                  /\ requests[j].id \in 1 .. calls
                  /\ Increasing(requests[j].todo)
                  /\ requests[j].todo # <<>>
                  /\ requests[j].got = <<>>)'
           /\ (\A i, j \in 1 .. Len(requests) : i < j => requests[i].id < requests[j].id)'
<1>1. requests' \in Seq(Jobs) /\ Len(requests') = 0
  OBVIOUS
<1>. QED  BY <1>1

\* The invariant after a step by which a call goes on.
LEMMA CallGoesOn ==
    ASSUME StaticType', Wires', pc' \in Calling, piping' = FALSE, draining' = FALSE, requests' = <<>>,
           calls' \in 0 .. MaxCalls, err' \in BOOLEAN,
           cur' \in Jobs, cur'.id \in 1 .. calls', Increasing(cur'.todo), Len(cur'.got) < Len(cur'.todo),
           c' \in Keys \cup {None}, Waiting' => c' \in Keys /\ Good(con'[c']),
           Unsent', Quiet', Awaited', Matched(cur'.id, cur'.todo, cur'.got), Given'
    PROVE  HirInv'
<1>1. CallType'
  <2>1. (pc \in Working => cur.id \in 1 .. calls /\ Increasing(cur.todo) /\ Len(cur.got) < Len(cur.todo))'
    OBVIOUS
  <2>2. pc' \in Pcs
    BY DEF Pcs, Working
  <2>. QED  BY <2>1, <2>2, NoRequests DEF CallType
<1>2. Types' /\ OnceNow'
  BY <1>1, TypesAre
<1>3. Control'
  BY DEF Control, Calling, Fetching
<1>4. Collecting' /\ Pipeline'
  BY DEF Collecting, Pipeline
<1>. QED  BY <1>2, <1>3, <1>4 DEF HirInv, OnceNow

\* The invariant after a step by which no call is going on.
LEMMA CallEnds ==
    ASSUME StaticType', Wires', pc' \in {"idle", "connect", "reset"},
           piping' = (pc' = "reset"), draining' = FALSE, requests' = <<>>,
           calls' \in 0 .. MaxCalls, err' \in BOOLEAN, cur' \in Jobs, c' \in Keys \cup {None},
           LaterFresh', \A k \in Keys : Good(con'[k]) => Empty(con'[k]), Given'
    PROVE  HirInv'
<1>0. ~Waiting' /\ pc' \notin Working /\ pc' \in Pcs
  BY DEF Waiting, Working, Calling, Fetching, Pcs
<1>1. CallType'
  <2>1. (pc \in Working => cur.id \in 1 .. calls /\ Increasing(cur.todo) /\ Len(cur.got) < Len(cur.todo))'
    BY <1>0
  <2>. QED  BY <1>0, <2>1, NoRequests DEF CallType
<1>2. Types' /\ OnceNow'
  BY <1>1, TypesAre
<1>3. Control'
  BY <1>0 DEF Control, Calling, Fetching
<1>4. Collecting' /\ Pipeline' /\ Awaited'
  BY <1>0 DEF Collecting, Pipeline, Awaited
<1>5. Quiet'
  BY DEF Quiet
<1>6. Unsent'
  BY <1>0 DEF Unsent, LaterFresh, Working
<1>. QED  BY <1>2, <1>3, <1>4, <1>5, <1>6 DEF HirInv, OnceNow

\* Jobs and answers that are nothing.
LEMMA NothingIsTyped == NoCall \in Jobs /\ NoCall.got = <<>> /\ NoAnswer = [id |-> 0, slots |-> <<>>, got |-> <<>>]
<1>1. <<>> \in Seq(Slots) /\ <<>> \in Seq(Sent \cup Replies) /\ 0 \in 0 .. MaxCalls
  BY Constants
<1>. QED  BY <1>1 DEF NoCall, NoAnswer, Jobs

\* No answer is right.
LEMMA NoAnswerGiven == ASSUME answer' = NoAnswer PROVE Given'
<1>1. <<>> \in Seq(Slots) /\ <<>> \in Seq(Sent \cup Replies) /\ 0 \in 0 .. MaxCalls /\ Len(<<>>) = 0
  BY Constants
<1>2. answer' = [id |-> 0, slots |-> <<>>, got |-> <<>>]
  BY DEF NoAnswer
<1>. QED  BY <1>1, <1>2 DEF Given, Matched

\* A call fails.
LEMMA FailEnds ==
    ASSUME HirInv, pc \in Calling, StaticType', Wires', AllStayFresh, Fail,
           UNCHANGED <<piping, draining, requests, calls>>,
           \A k \in Keys : Good(con'[k]) => Empty(con'[k])
    PROVE  HirInv'
<1>1. draining = FALSE /\ piping = FALSE /\ requests = <<>> /\ calls \in 0 .. MaxCalls /\ LaterFresh
  BY DuringCall
<1>2. pc' = "idle" /\ cur' = NoCall /\ c' = None /\ err' = TRUE /\ answer' = NoAnswer
  BY <1>1 DEF Fail, Idle
<1>3. LaterFresh'
  BY <1>1, Constants DEF LaterFresh, AllStayFresh, StaysFresh
<1>. QED  BY <1>1, <1>2, <1>3, CallEnds, NothingIsTyped, NoAnswerGiven

\* What is left alone keeps its type.
LEMMA SameStatic == ASSUME StaticType, UNCHANGED <<server, route>> PROVE StaticType'
  BY DEF StaticType, server, route

\* An answer that stays is still right.
LEMMA SameAnswer == ASSUME Given, answer' = answer PROVE Given'
  BY DEF Given, Matched

\* What the invariant says of the sub-commands that are still to be sent.
LEMMA StillToSend ==
    ASSUME HirInv, pc \in Calling
    PROVE  /\ \A n \in Len(cur.got) + 1 .. Len(cur.todo) :
                 n # Len(cur.got) + 1 \/ pc # "reply" => Fresh(cur.id, cur.todo[n])
           /\ pc # "reply" => Fresh(cur.id, AtSlot)
           /\ \A n \in Len(cur.got) + 1 .. Len(cur.todo) : cur.todo[n] \in Slots
           /\ \A n \in Len(cur.got) + 2 .. Len(cur.todo) : cur.todo[n] # AtSlot
<1>1. /\ cur.todo \in Seq(Slots) /\ Len(cur.got) \in Nat /\ Len(cur.todo) \in Nat
      /\ Len(cur.got) < Len(cur.todo) /\ Increasing(cur.todo)
      /\ AtSlot = cur.todo[Len(cur.got) + 1]
  BY DuringCall
<1>2. \A n \in Len(cur.got) + 1 .. Len(cur.todo) :
         n # Len(cur.got) + 1 \/ pc # "reply" => Fresh(cur.id, cur.todo[n])
  BY DEF HirInv, Unsent
<1>. DEFINE u == cur.todo
            g == Len(cur.got)
<1>3. u \in Seq(Slots) /\ g \in Nat /\ Len(u) \in Nat /\ g < Len(u)
  BY <1>1
<1>. HIDE DEF u, g
<1>4. \A n \in g + 1 .. Len(u) : u[n] \in Slots
  BY <1>3
<1>5. \A n \in g + 2 .. Len(u) : u[n] # u[g + 1]
  <2>. SUFFICES ASSUME NEW n \in g + 2 .. Len(u) PROVE u[n] # u[g + 1]
    OBVIOUS
  <2>1. g + 1 \in 1 .. Len(u) /\ n \in 1 .. Len(u) /\ g + 1 < n
    BY <1>3
  <2>2. u[g + 1] < u[n]
    BY <1>1, <2>1 DEF Increasing, u
  <2>3. u[g + 1] \in Slots /\ u[n] \in Slots
    BY <1>3, <2>1
  <2>4. u[g + 1] \in Nat /\ u[n] \in Nat
    BY <2>3, Constants
  <2>. QED  BY <2>2, <2>4
<1>6. pc # "reply" => Fresh(cur.id, AtSlot)
  <2>1. g + 1 \in g + 1 .. Len(u)
    BY <1>3
  <2>. QED  BY <1>1, <1>2, <2>1 DEF g, u
<1>. QED  BY <1>1, <1>2, <1>4, <1>5, <1>6 DEF u, g

\* A call goes on, and waits for nothing.
LEMMA Searches ==
    ASSUME HirInv, pc \in Calling, pc' \in {"retry", "ping", "update"}, StaticType', Wires', AllStayFresh,
           UNCHANGED <<piping, draining, requests, calls, cur, answer>>,
           err' \in BOOLEAN, c' \in Keys \cup {None},
           pc = "reply" => Fresh(cur.id, AtSlot),
           \A k \in Keys : Good(con'[k]) => Empty(con'[k])
    PROVE  HirInv'
<1>1. /\ piping = FALSE /\ draining = FALSE /\ requests = <<>> /\ calls \in 0 .. MaxCalls
      /\ cur \in Jobs /\ cur.id \in 1 .. calls /\ cur.id \in 1 .. MaxCalls
      /\ Increasing(cur.todo) /\ Len(cur.got) < Len(cur.todo)
      /\ Matched(cur.id, cur.todo, cur.got) /\ LaterFresh
      /\ AtSlot = cur.todo[Len(cur.got) + 1] /\ AtSlot \in Slots
      /\ Len(cur.got) \in Nat /\ Len(cur.todo) \in Nat
  BY DuringCall
<1>2. ~Waiting' /\ pc' # "reply" /\ pc' \in Calling
  BY DEF Waiting, Calling
<1>3. Quiet' /\ Awaited'
  BY <1>2 DEF Quiet, Awaited
<1>4. Unsent'
  <2>1. LaterFresh'
    BY <1>1, Constants DEF LaterFresh, AllStayFresh, StaysFresh
  <2>2. \A n \in Len(cur.got) + 1 .. Len(cur.todo) : Fresh(cur.id, cur.todo[n])
    BY <1>1, StillToSend
  <2>3. \A n \in Len(cur.got) + 1 .. Len(cur.todo) : Fresh(cur.id, cur.todo[n])'
    BY <1>1, <2>2, StillToSend DEF AllStayFresh, StaysFresh
  <2>. QED  BY <2>1, <2>3 DEF Unsent, LaterFresh
<1>5. Given'
  BY SameAnswer DEF HirInv
<1>. QED  BY <1>1, <1>2, <1>3, <1>4, <1>5, CallGoesOn

\* A call goes on, and waits for the reply to m.
LEMMA Waits ==
    ASSUME HirInv, pc \in Calling, pc' \in {"reply", "pong", "asking"}, StaticType', Wires',
           UNCHANGED <<piping, draining, requests, calls, cur, answer>>, err' \in BOOLEAN,
           c' \in Keys, Good(con'[c']), con'[c'].in = <<>>,
           NEW m \in Sent, All(con'[c']) = <<m>>, OthersStayFresh(m),
           IF pc' = "reply" THEN m = This ELSE m.t # "cmd",
           pc = "reply" => Fresh(cur.id, AtSlot),
           \A k \in Keys \ {c'} : Good(con'[k]) => Empty(con'[k])
    PROVE  HirInv'
<1>1. /\ piping = FALSE /\ draining = FALSE /\ requests = <<>> /\ calls \in 0 .. MaxCalls
      /\ cur \in Jobs /\ cur.id \in 1 .. calls /\ cur.id \in 1 .. MaxCalls
      /\ Increasing(cur.todo) /\ Len(cur.got) < Len(cur.todo)
      /\ Matched(cur.id, cur.todo, cur.got) /\ LaterFresh
      /\ AtSlot = cur.todo[Len(cur.got) + 1] /\ AtSlot \in Slots
      /\ Len(cur.got) \in Nat /\ Len(cur.todo) \in Nat
      /\ This.id = cur.id /\ This.slot = AtSlot
  BY DuringCall
<1>2. Waiting' /\ pc' \in Calling
  BY DEF Waiting, Calling
<1>3. Quiet'
  BY <1>2 DEF Quiet
<1>4. AtSlot' = AtSlot
  BY DEF AtSlot
<1>5. Awaited'
  <2>1. Len(All(con'[c'])) = 1 /\ All(con'[c'])[1] = m /\ Len(con'[c'].in) = 0
    OBVIOUS
  <2>2. pc' = "reply" => All(con'[c'])[1].id = cur.id /\ All(con'[c'])[1].slot = AtSlot
    BY <1>1, <2>1
  <2>. HIDE DEF All
  <2>3. \A i \in 1 .. Len(All(con'[c'])) : i = 1
    BY <2>1
  <2>4. ~\E i \in 1 .. Len(con'[c'].in) : TRUE
    BY <2>1
  <2>. QED  BY <1>4, <2>1, <2>2, <2>3, <2>4 DEF Awaited
<1>6. Unsent'
  <2>1. ASSUME NEW i \in 1 .. MaxCalls, NEW s \in Slots, Fresh(i, s), i # cur.id \/ s # AtSlot
        PROVE  Fresh(i, s)'
    <3>1. ~IsCmd(m, i, s)
      BY <1>1, <2>1 DEF IsCmd
    <3>. QED  BY <2>1, <3>1 DEF OthersStayFresh, StaysFresh
  <2>2. LaterFresh'
    <3>. SUFFICES ASSUME NEW i \in calls + 1 .. MaxCalls, NEW s \in Slots PROVE Fresh(i, s)'
      BY DEF LaterFresh
    <3>1. i \in 1 .. MaxCalls /\ i # cur.id /\ Fresh(i, s)
      BY <1>1, Constants DEF LaterFresh
    <3>. QED  BY <2>1, <3>1
  <2>3. ASSUME NEW n \in Len(cur.got) + 1 .. Len(cur.todo), pc' # "reply" \/ n # Len(cur.got) + 1
        PROVE  Fresh(cur.id, cur.todo[n])'
    <3>1. Fresh(cur.id, cur.todo[n]) /\ cur.todo[n] \in Slots
      BY <1>1, StillToSend
    <3>2. CASE n # Len(cur.got) + 1
      <4>1. n \in Len(cur.got) + 2 .. Len(cur.todo)
        BY <1>1, <3>2
      <4>2. cur.todo[n] # AtSlot
        BY <4>1, StillToSend
      <4>3. Fresh(cur.id, cur.todo[n])'
        BY <1>1, <2>1, <3>1, <4>2
      <4>. QED  BY <4>3
    <3>3. CASE pc' # "reply"
      <4>1. ~IsCmd(m, cur.id, cur.todo[n])
        BY <3>3 DEF IsCmd
      <4>. QED  BY <1>1, <3>1, <4>1 DEF OthersStayFresh, StaysFresh
    <3>. QED  BY <2>3, <3>2, <3>3
  <2>. QED  BY <2>2, <2>3 DEF Unsent, LaterFresh
<1>7. Given'
  BY SameAnswer DEF HirInv
<1>. QED  BY <1>1, <1>2, <1>3, <1>5, <1>6, <1>7, CallGoesOn

\* There is no node for the slot, or none can be reached.
LEMMA UnreachedKeeps == ASSUME HirInv, NoNode \/ NoneReachable PROVE HirInv'
<1>1. pc \in Calling /\ ~Waiting /\ Fail /\ UNCHANGED <<server, orphans, executed, route, con, pipe, bounds>>
  BY DEF NoNode, NoneReachable, Calling, Waiting
<1>2. Wires /\ StaticType /\ \A k \in Keys : Good(con[k]) => Empty(con[k])
  BY <1>1, DuringCall
<1>3. Wires' /\ AllStayFresh /\ StaticType'
  BY <1>1, <1>2, SameWires, SameStatic
<1>4. con' = con /\ UNCHANGED <<piping, draining, requests, calls>>
  BY <1>1 DEF pipe, bounds
<1>. QED  BY <1>1, <1>2, <1>3, <1>4, FailEnds

\* A node is looked up: its context is the good one that is there, or a new one.
LEMMA LookedUp ==
    ASSUME HirInv, NEW n \in nodes \cup Addrs, NEW x, x = ctx_get_by_node(n),
           Good(con[n]) => Empty(con[n]),
           NEW m \in Sent, executed' = executed,
           IF x.err THEN SetCon(n, x) ELSE SetCon(n, Put(x, m)),
           m.t = "cmd" => Fresh(m.id, m.slot) /\ m.id \in 1 .. MaxCalls /\ m.slot \in Slots
    PROVE  /\ Wires' /\ n \in Keys
           /\ \A k \in Keys \ {n} : con'[k] = con[k]
           /\ x.err => AllStayFresh /\ ~Good(con'[n])
           /\ ~x.err => /\ OthersStayFresh(m) /\ Good(con'[n])
                        /\ con'[n].in = <<>> /\ All(con'[n]) = <<m>>
<1>1. Types /\ OnceNow
  BY DEF HirInv, OnceNow
<1>2. n \in Keys /\ x \in Contexts /\ Empty(x)
  BY <1>1, GetContext
<1>3. CASE x.err
  <2>1. SetCon(n, ctx_get_by_node(n))
    BY <1>3
  <2>2. /\ Wires' /\ AllStayFresh /\ con'[n] = ctx_get_by_node(n)
        /\ \A k \in Keys \ {n} : con'[k] = con[k]
    BY <1>1, <2>1, GetWires
  <2>. QED  BY <1>2, <1>3, <2>2 DEF Good
<1>4. CASE ~x.err
  <2>1. SetCon(n, Put(ctx_get_by_node(n), m))
    BY <1>4
  <2>2. /\ Wires' /\ OthersStayFresh(m) /\ con'[n] = Put(ctx_get_by_node(n), m)
        /\ con'[n] \in Contexts
        /\ \A k \in Keys \ {n} : con'[k] = con[k]
    BY <1>1, <2>1, GetPutWires
  <2>3. con'[n] = Put(x, m)
    BY <2>2, Zenon
  <2>4. Put(x, m).in = x.in /\ Put(x, m).err = x.err /\ All(Put(x, m)) = Append(All(x), m)
    BY <1>2, PutContext
  <2>5. x.in = <<>> /\ All(x) = <<>>
    BY <1>2, Carried DEF Empty
  <2>6. Append(<<>>, m) = <<m>>
    OBVIOUS
  <2>7. con'[n].in = <<>> /\ con'[n].err = x.err /\ All(con'[n]) = <<m>>
    BY <2>3, <2>4, <2>5, <2>6, Zenon
  <2>8. Good(con'[n])
    BY <1>4, <2>2, <2>7, ContextIsOne DEF Good
  <2>. QED  BY <1>2, <1>4, <2>2, <2>7, <2>8
<1>. QED  BY <1>3, <1>4

\* The context of the slot's node, or a search for another one.
LEMMA RetryKeeps == ASSUME HirInv, Retry PROVE HirInv'
<1>1. pc = "retry" /\ pc \in Calling /\ ~Waiting /\ UNCHANGED <<server, executed, route, err, retry_count, pipe, cur, answer, bounds>>
  BY DEF Retry, Calling, Waiting
<1>2. /\ Wires /\ StaticType /\ err \in BOOLEAN /\ AtSlot \in Slots /\ c \in Keys \cup {None}
      /\ This \in Sent /\ This.t = "cmd" /\ This.id = cur.id /\ This.slot = AtSlot /\ cur.id \in 1 .. MaxCalls
      /\ \A k \in Keys : Good(con[k]) => Empty(con[k])
  BY <1>1, DuringCall
<1>3. StaticType' /\ err' = err /\ UNCHANGED <<piping, draining, requests, calls, cur, answer, executed>>
  BY <1>1, <1>2, SameStatic DEF pipe, bounds
<1>. DEFINE n == table[AtSlot]
            x == ctx_get_by_node(n)
<1>4. /\ n \in Addrs
      /\ IF x.err
         THEN SetCon(n, x) /\ pc' = "ping" /\ tried' = {} /\ UNCHANGED c
         ELSE SetCon(n, Put(x, This)) /\ pc' = "reply" /\ c' = n /\ UNCHANGED tried
  BY <1>2 DEF Retry, StaticType
<1>5. x = ctx_get_by_node(n)
  OBVIOUS
<1>. HIDE DEF n, x
<1>6. n \in Keys /\ n \in nodes \cup Addrs
  BY <1>4 DEF Keys
<1>7. Fresh(cur.id, AtSlot)
  BY <1>1, StillToSend
<1>8. /\ Wires'
      /\ \A k \in Keys \ {n} : con'[k] = con[k]
      /\ x.err => AllStayFresh /\ ~Good(con'[n])
      /\ ~x.err => /\ OthersStayFresh(This) /\ Good(con'[n])
                   /\ con'[n].in = <<>> /\ All(con'[n]) = <<This>>
  <2>1. IF x.err THEN SetCon(n, x) ELSE SetCon(n, Put(x, This))
    BY <1>4
  <2>. QED  BY <1>2, <1>3, <1>5, <1>6, <1>7, <2>1, LookedUp
<1>9. CASE x.err
  <2>1. \A k \in Keys : Good(con'[k]) => Empty(con'[k])
    BY <1>2, <1>8, <1>9
  <2>. QED  BY <1>1, <1>2, <1>3, <1>4, <1>8, <1>9, <2>1, Searches
<1>10. CASE ~x.err
  <2>1. \A k \in Keys \ {c'} : Good(con'[k]) => Empty(con'[k])
    BY <1>2, <1>4, <1>8, <1>10
  <2>2. c' = n /\ pc' = "reply"
    BY <1>4, <1>10
  <2>3. c' \in Keys /\ Good(con'[c']) /\ con'[c'].in = <<>> /\ All(con'[c']) = <<This>> /\ OthersStayFresh(This)
    BY <1>6, <1>8, <1>10, <2>2
  <2>. QED  BY <1>1, <1>2, <1>3, <1>8, <2>1, <2>2, <2>3, Waits
<1>. QED  BY <1>9, <1>10

\* The next node of cc->nodes.
LEMMA TryNodeKeeps == ASSUME HirInv, TryNode PROVE HirInv'
<1>1. pc = "ping" /\ pc \in Calling /\ ~Waiting /\ UNCHANGED <<server, executed, route, err, retry_count, pipe, cur, answer, bounds>>
  BY DEF TryNode, Calling, Waiting
<1>2. /\ Wires /\ StaticType /\ err \in BOOLEAN /\ c \in Keys \cup {None}
      /\ \A k \in Keys : Good(con[k]) => Empty(con[k])
  BY <1>1, DuringCall
<1>3. StaticType' /\ err' = err /\ UNCHANGED <<piping, draining, requests, calls, cur, answer, executed>>
  BY <1>1, <1>2, SameStatic DEF pipe, bounds
<1>4. PICK n \in nodes \ tried :
          LET x == ctx_get_by_node(n)
          IN  IF x.err
              THEN SetCon(n, x) /\ tried' = tried \cup {n} /\ UNCHANGED <<pc, c>>
              ELSE SetCon(n, Put(x, Ping)) /\ pc' = "pong" /\ c' = n /\ UNCHANGED tried
  BY DEF TryNode
<1>. DEFINE x == ctx_get_by_node(n)
<1>5. /\ x = ctx_get_by_node(n)
      /\ IF x.err
         THEN SetCon(n, x) /\ tried' = tried \cup {n} /\ UNCHANGED <<pc, c>>
         ELSE SetCon(n, Put(x, Ping)) /\ pc' = "pong" /\ c' = n /\ UNCHANGED tried
  BY <1>4
<1>. HIDE DEF x
<1>6. n \in Keys /\ n \in nodes \cup Addrs
  BY <1>2 DEF StaticType, Keys
<1>7. Ping \in Sent /\ Ping.t # "cmd"
  BY MessageTypes
<1>8. /\ Wires'
      /\ \A k \in Keys \ {n} : con'[k] = con[k]
      /\ x.err => AllStayFresh /\ ~Good(con'[n])
      /\ ~x.err => /\ OthersStayFresh(Ping) /\ Good(con'[n])
                   /\ con'[n].in = <<>> /\ All(con'[n]) = <<Ping>>
  <2>1. IF x.err THEN SetCon(n, x) ELSE SetCon(n, Put(x, Ping))
    BY <1>5
  <2>. QED  BY <1>2, <1>3, <1>5, <1>6, <1>7, <2>1, LookedUp
<1>9. CASE x.err
  <2>1. \A k \in Keys : Good(con'[k]) => Empty(con'[k])
    BY <1>2, <1>8, <1>9
  <2>2. pc' = "ping" /\ c' = c
    BY <1>1, <1>5, <1>9
  <2>. QED  BY <1>1, <1>2, <1>3, <1>8, <1>9, <2>1, <2>2, Searches
<1>10. CASE ~x.err
  <2>1. \A k \in Keys \ {c'} : Good(con'[k]) => Empty(con'[k])
    BY <1>2, <1>5, <1>8, <1>10
  <2>2. c' = n /\ pc' = "pong"
    BY <1>5, <1>10
  <2>3. c' \in Keys /\ Good(con'[c']) /\ con'[c'].in = <<>> /\ All(con'[c']) = <<Ping>> /\ OthersStayFresh(Ping)
    BY <1>6, <1>8, <1>10, <2>2
  <2>. QED  BY <1>1, <1>2, <1>3, <1>7, <1>8, <2>1, <2>2, <2>3, Waits
<1>. QED  BY <1>9, <1>10

\* The reply that a call waits for is there.
LEMMA Arrived ==
    ASSUME HirInv, pc \in {"reply", "asking", "pong"}
    PROVE  /\ pc \in Calling /\ Waiting /\ c \in Keys /\ Good(con[c]) /\ con[c] \in Contexts
           /\ \A k \in Keys \ {c} : Good(con[k]) => Empty(con[k])
           /\ con[c].in # <<>> =>
                 /\ con[c].in[1] \in Replies /\ 1 \in DOMAIN con[c].in
                 /\ Tail(All(con[c])) = <<>> /\ Tail(con[c].in) = <<>>
                 /\ pc = "reply" => /\ con[c].in[1].id = cur.id /\ con[c].in[1].slot = AtSlot
                                    /\ con[c].in[1].t \in Redirects => Fresh(cur.id, AtSlot)
<1>1. pc \in Calling /\ Waiting
  BY DEF Calling, Waiting
<1>2. /\ Wires /\ c \in Keys /\ Good(con[c]) /\ ~piping
      /\ \A k \in Keys : Good(con[k]) => Empty(con[k]) \/ (Waiting /\ k = c)
  BY <1>1, DuringCall
<1>3. con[c] \in Contexts
  BY <1>2, GoodContext
<1>4. /\ Len(All(con[c])) <= 1
      /\ pc = "reply" => \A i \in 1 .. Len(All(con[c])) :
            /\ All(con[c])[i].id = cur.id
            /\ All(con[c])[i].slot = AtSlot
      /\ pc = "reply" => \A i \in 1 .. Len(con[c].in) :
            con[c].in[i].t \in Redirects => Fresh(cur.id, AtSlot)
  BY <1>1, <1>2 DEF HirInv, Awaited
<1>5. ASSUME con[c].in # <<>>
      PROVE  /\ con[c].in[1] \in Replies /\ 1 \in DOMAIN con[c].in
             /\ Tail(All(con[c])) = <<>> /\ Tail(con[c].in) = <<>>
             /\ pc = "reply" => /\ con[c].in[1].id = cur.id /\ con[c].in[1].slot = AtSlot
                                /\ con[c].in[1].t \in Redirects => Fresh(cur.id, AtSlot)
  <2>1. /\ con[c].in[1] \in Replies /\ All(con[c])[1] = con[c].in[1]
        /\ 1 \in 1 .. Len(con[c].in) /\ 1 \in 1 .. Len(All(con[c]))
        /\ Tail(All(con[c])) = <<>> /\ Tail(con[c].in) = <<>>
    BY <1>3, <1>4, <1>5, Carried
  <2>2. DOMAIN con[c].in = 1 .. Len(con[c].in)
    <3>1. con[c].in \in Seq(Replies)
      BY <1>3, Parts
    <3>. QED  BY <3>1
  <2>3. pc = "reply" => /\ con[c].in[1].id = cur.id /\ con[c].in[1].slot = AtSlot
                        /\ con[c].in[1].t \in Redirects => Fresh(cur.id, AtSlot)
    <3>1. pc = "reply" => All(con[c])[1].id = cur.id /\ All(con[c])[1].slot = AtSlot
      BY <1>4, <2>1
    <3>2. pc = "reply" => (con[c].in[1].t \in Redirects => Fresh(cur.id, AtSlot))
      BY <1>4, <2>1
    <3>3. con[c].in[1].id = All(con[c])[1].id /\ con[c].in[1].slot = All(con[c])[1].slot
      BY <2>1, Zenon
    <3>. QED  BY <3>1, <3>2, <3>3
  <2>. QED  BY <2>1, <2>2, <2>3
<1>. QED  BY <1>1, <1>2, <1>3, <1>5

\* What Incoming is.
LEMMA IncomingIs ==
    ASSUME HirInv, pc \in {"reply", "asking", "pong"}
    PROVE  \A r \in Incoming : r = con[c].in[1] /\ con[c].in # <<>>
<1>1. con[c] \in Contexts
  BY Arrived
<1>2. con[c].in \in Seq(Replies)
  BY <1>1, Parts
<1>. DEFINE q == con[c].in
<1>3. q \in Seq(Replies)
  BY <1>2
<1>4. Incoming = {q[i] : i \in DOMAIN q \cap {1}}
  BY DEF Incoming
<1>. HIDE DEF q
<1>5. \A r \in Incoming : r = q[1] /\ q # <<>>
  <2>. SUFFICES ASSUME NEW r \in Incoming PROVE r = q[1] /\ q # <<>>
    OBVIOUS
  <2>1. r = q[1] /\ 1 \in DOMAIN q
    BY <1>4
  <2>. QED  BY <1>3, <2>1
<1>. QED  BY <1>5 DEF q

\* It is read: nothing is outstanding any more.
LEMMA ReadsOut ==
    ASSUME HirInv, pc \in {"reply", "asking", "pong"}, con[c].in # <<>>, Read, executed' = executed
    PROVE  Wires' /\ AllStayFresh /\ \A k \in Keys : Good(con'[k]) => Empty(con'[k])
<1>1. /\ pc \in Calling /\ c \in Keys /\ Good(con[c])
      /\ \A k \in Keys \ {c} : Good(con[k]) => Empty(con[k])
      /\ Tail(All(con[c])) = <<>>
  BY Arrived
<1>2. Wires
  BY <1>1, DuringCall
<1>3. /\ Wires' /\ AllStayFresh /\ con'[c] \in Contexts /\ All(con'[c]) = Tail(All(con[c]))
      /\ \A k \in Keys \ {c} : con'[k] = con[k]
  BY <1>1, <1>2, ReadWires
<1>4. Empty(con'[c])
  BY <1>1, <1>3, Carried
<1>. QED  BY <1>1, <1>3, <1>4

\* There is none: the connection is not used any more.
LEMMA FailsToRead ==
    ASSUME HirInv, pc \in {"reply", "asking", "pong"}, ReadFails, executed' = executed
    PROVE  Wires' /\ AllStayFresh /\ \A k \in Keys : Good(con'[k]) => Empty(con'[k])
<1>1. /\ pc \in Calling /\ c \in Keys /\ Good(con[c])
      /\ \A k \in Keys \ {c} : Good(con[k]) => Empty(con[k])
  BY Arrived
<1>2. Wires
  BY <1>1, DuringCall
<1>3. Wires' /\ AllStayFresh /\ ~Good(con'[c]) /\ \A k \in Keys \ {c} : con'[k] = con[k]
  BY <1>1, <1>2, FailWires
<1>. QED  BY <1>1, <1>3

\* It is read, and the sub-command goes to the same node.
LEMMA ReadsAndSends ==
    ASSUME HirInv, pc \in {"asking", "pong"}, con[c].in # <<>>, StaticType',
           con' = [con EXCEPT ![c].in = Tail(@), ![c].out = Append(@, This)],
           orphans' = orphans, executed' = executed, pc' = "reply", err' \in BOOLEAN,
           UNCHANGED <<piping, draining, requests, calls, cur, answer, c>>
    PROVE  HirInv'
<1>1. /\ pc \in Calling /\ c \in Keys /\ Good(con[c]) /\ con[c] \in Contexts
      /\ \A k \in Keys \ {c} : Good(con[k]) => Empty(con[k])
      /\ Tail(All(con[c])) = <<>> /\ Tail(con[c].in) = <<>>
  BY Arrived
<1>2. /\ Wires /\ con \in Connections /\ This \in Sent /\ This.t = "cmd" /\ This.id = cur.id /\ This.slot = AtSlot
      /\ AtSlot \in Slots /\ cur.id \in 1 .. MaxCalls
  BY <1>1, DuringCall
<1>3. Fresh(cur.id, AtSlot)
  BY <1>1, StillToSend
<1>. DEFINE y == [con[c] EXCEPT !.in = Tail(con[c].in)]
<1>4. y = [con[c] EXCEPT !.in = Tail(con[c].in)]
  OBVIOUS
<1>5. con' = [con EXCEPT ![c] = Put(y, This)]
  <2>. DEFINE z == [con[c] EXCEPT !.in = Tail(con[c].in), !.out = Append(con[c].out, This)]
  <2>1. con' = [con EXCEPT ![c] = z]
    BY <1>1, <1>2 DEF Connections, Contexts
  <2>2. z = Put(y, This)
    BY <1>1 DEF Put, Contexts
  <2>. QED  BY <2>1, <2>2
<1>. HIDE DEF y
<1>6. /\ Wires' /\ OthersStayFresh(This)
      /\ con'[c] \in Contexts /\ Good(con'[c]) /\ con'[c].in = Tail(con[c].in)
      /\ All(con'[c]) = Append(Tail(All(con[c])), This)
      /\ \A k \in Keys \ {c} : con'[k] = con[k]
  BY <1>1, <1>2, <1>3, <1>4, <1>5, ReadPutWires
<1>7. Append(<<>>, This) = <<This>>
  OBVIOUS
<1>8. All(con'[c]) = <<This>> /\ con'[c].in = <<>>
  BY <1>1, <1>6, <1>7, Zenon
<1>9. c' = c /\ \A k \in Keys \ {c'} : Good(con'[k]) => Empty(con'[k])
  BY <1>1, <1>6
<1>10. c' \in Keys /\ Good(con'[c']) /\ con'[c'].in = <<>> /\ All(con'[c']) = <<This>>
  BY <1>1, <1>6, <1>8, <1>9
<1>. QED  BY <1>1, <1>2, <1>6, <1>9, <1>10, Waits

\* The reply to PING.
LEMMA PongKeeps == ASSUME HirInv, Pong PROVE HirInv'
<1>1. pc = "pong" /\ pc \in {"reply", "asking", "pong"} /\ UNCHANGED <<server, executed, route, pipe, bounds>>
  BY DEF Pong
<1>2. pc \in Calling /\ c \in Keys
  BY <1>1, Arrived
<1>3. StaticType /\ err \in BOOLEAN
  BY <1>2, DuringCall
<1>4. StaticType' /\ UNCHANGED <<piping, draining, requests, calls>> /\ executed' = executed
  BY <1>1, <1>3, SameStatic DEF pipe, bounds
<1>5. PICK r \in Incoming :
         IF r.t = "pong"
         THEN IF MayRedirect
              THEN /\ Redirect("reply")
                   /\ con' = [con EXCEPT ![c].in = Tail(@), ![c].out = Append(@, This)]
                   /\ UNCHANGED <<c, tried, orphans>>
              ELSE Read /\ TooMany
         ELSE /\ Read
              /\ pc' = "ping"
              /\ tried' = tried \cup {c}
              /\ UNCHANGED <<c, cur, err, retry_count, answer>>
  BY DEF Pong
<1>6. con[c].in # <<>>
  BY <1>1, <1>5, IncomingIs
<1>7. CASE r.t = "pong" /\ MayRedirect
  <2>1. pc' = "reply" /\ UNCHANGED <<err, answer, cur, c, orphans>>
        /\ con' = [con EXCEPT ![c].in = Tail(@), ![c].out = Append(@, This)]
    BY <1>5, <1>7 DEF Redirect
  <2>. QED  BY <1>1, <1>3, <1>4, <1>6, <2>1, ReadsAndSends
<1>8. CASE r.t = "pong" /\ ~MayRedirect
  <2>1. Read /\ Fail
    BY <1>5, <1>8 DEF TooMany
  <2>2. Wires' /\ AllStayFresh /\ \A k \in Keys : Good(con'[k]) => Empty(con'[k])
    BY <1>1, <1>4, <1>6, <2>1, ReadsOut
  <2>. QED  BY <1>2, <1>4, <2>1, <2>2, FailEnds
<1>9. CASE r.t # "pong"
  <2>1. Read /\ pc' = "ping" /\ UNCHANGED <<c, cur, err, answer>>
    BY <1>5, <1>9
  <2>2. Wires' /\ AllStayFresh /\ \A k \in Keys : Good(con'[k]) => Empty(con'[k])
    BY <1>1, <1>4, <1>6, <2>1, ReadsOut
  <2>. QED  BY <1>1, <1>2, <1>3, <1>4, <2>1, <2>2, Searches
<1>. QED  BY <1>7, <1>8, <1>9

\* No reply to PING, or to the command.
LEMMA SilenceKeeps == ASSUME HirInv, PongFails \/ NoReply PROVE HirInv'
<1>1. /\ pc \in {"reply", "asking", "pong"} /\ ReadFails
      /\ UNCHANGED <<server, executed, route, pipe, calls>>
  BY DEF PongFails, NoReply
<1>2. pc \in Calling /\ c \in Keys
  BY <1>1, Arrived
<1>3. StaticType /\ err \in BOOLEAN
  BY <1>2, DuringCall
<1>4. StaticType' /\ UNCHANGED <<piping, draining, requests, calls>> /\ executed' = executed
  BY <1>1, <1>3, SameStatic DEF pipe
<1>5. Wires' /\ AllStayFresh /\ \A k \in Keys : Good(con'[k]) => Empty(con'[k])
  BY <1>1, <1>4, FailsToRead
<1>6. CASE PongFails
  <2>1. pc = "pong" /\ pc' = "ping" /\ UNCHANGED <<err, cur, c, answer>>
    BY <1>6 DEF PongFails
  <2>. QED  BY <1>2, <1>3, <1>4, <1>5, <2>1, Searches
<1>7. CASE NoReply
  <2>1. Fail
    BY <1>7 DEF NoReply
  <2>. QED  BY <1>2, <1>4, <1>5, <2>1, FailEnds
<1>. QED  BY <1>6, <1>7

\* MOVED, TRYAGAIN and their like.
LEMMA MovedKeeps == ASSUME HirInv, Moved PROVE HirInv'
<1>1. pc = "reply" /\ pc \in {"reply", "asking", "pong"} /\ UNCHANGED <<server, executed, route, pipe, bounds>>
  BY DEF Moved
<1>2. pc \in Calling /\ c \in Keys
  BY <1>1, Arrived
<1>3. StaticType /\ err \in BOOLEAN
  BY <1>2, DuringCall
<1>4. StaticType' /\ UNCHANGED <<piping, draining, requests, calls>> /\ executed' = executed
  BY <1>1, <1>3, SameStatic DEF pipe, bounds
<1>5. PICK r \in Incoming :
          /\ Read
          /\ r.t \in Redirects \ {"ask"}
          /\ \/ Redirect(IF r.t = "moved" THEN "update" ELSE "retry") /\ tried' = {} /\ UNCHANGED c
             \/ TooMany
  BY DEF Moved
<1>6. con[c].in # <<>> /\ r = con[c].in[1]
  BY <1>1, <1>5, IncomingIs
<1>7. Fresh(cur.id, AtSlot)
  BY <1>1, <1>5, <1>6, Arrived
<1>8. Wires' /\ AllStayFresh /\ \A k \in Keys : Good(con'[k]) => Empty(con'[k])
  BY <1>1, <1>4, <1>5, <1>6, ReadsOut
<1>9. CASE TooMany
  <2>1. Fail
    BY <1>9 DEF TooMany
  <2>. QED  BY <1>2, <1>4, <1>8, <2>1, FailEnds
<1>10. CASE Redirect(IF r.t = "moved" THEN "update" ELSE "retry") /\ c' = c
  <2>1. pc' \in {"update", "retry"} /\ UNCHANGED <<err, answer, cur>>
    BY <1>10 DEF Redirect
  <2>. QED  BY <1>2, <1>3, <1>4, <1>7, <1>8, <1>10, <2>1, Searches
<1>. QED  BY <1>5, <1>9, <1>10

\* The reply to ASKING.
LEMMA AskingReplyKeeps == ASSUME HirInv, AskingReply PROVE HirInv'
<1>1. /\ pc = "asking" /\ pc \in {"reply", "asking", "pong"} /\ con[c].in # <<>> /\ pc' = "reply"
      /\ con' = [con EXCEPT ![c].in = Tail(@), ![c].out = Append(@, This)]
      /\ UNCHANGED <<server, orphans, executed, route, err, pipe, cur, c, answer, bounds>>
  BY DEF AskingReply
<1>2. pc \in Calling
  BY <1>1, Arrived
<1>3. StaticType /\ err \in BOOLEAN
  BY <1>2, DuringCall
<1>4. StaticType' /\ UNCHANGED <<piping, draining, requests, calls>>
  BY <1>1, <1>3, SameStatic DEF pipe, bounds
<1>. QED  BY <1>1, <1>3, <1>4, ReadsAndSends

\* One more reply, or one more sub-command that is in the buffers.
LEMMA OneMore ==
    ASSUME NEW j \in Jobs, Matched(j.id, j.todo, j.got), NEW r \in Sent \cup Replies,
           r.id = j.id, r.slot = j.todo[Len(j.got) + 1]
    PROVE  /\ Append(j.got, r) \in Seq(Sent \cup Replies)
           /\ Len(Append(j.got, r)) = Len(j.got) + 1
           /\ Matched(j.id, j.todo, Append(j.got, r))
           /\ [j EXCEPT !.got = Append(j.got, r)] \in Jobs
<1>. DEFINE g == j.got
            u == j.todo
<1>1. g \in Seq(Sent \cup Replies) /\ u \in Seq(Slots) /\ r.slot = u[Len(g) + 1]
  BY DEF Jobs
<1>2. \A i \in 1 .. Len(g) : g[i].id = j.id /\ g[i].slot = u[i]
  BY DEF Matched
<1>. HIDE DEF g, u
<1>. DEFINE h == Append(g, r)
<1>3. /\ h \in Seq(Sent \cup Replies) /\ Len(h) = Len(g) + 1 /\ Len(g) \in Nat
      /\ h[Len(g) + 1] = r /\ \A i \in 1 .. Len(g) : h[i] = g[i]
  BY <1>1
<1>. HIDE DEF h
<1>4. \A i \in 1 .. Len(h) : h[i].id = j.id /\ h[i].slot = u[i]
  <2>. SUFFICES ASSUME NEW i \in 1 .. Len(h) PROVE h[i].id = j.id /\ h[i].slot = u[i]
    OBVIOUS
  <2>1. CASE i = Len(g) + 1
    <3>1. h[i] = r /\ u[i] = u[Len(g) + 1]
      BY <1>3, <2>1
    <3>. QED  BY <1>1, <3>1
  <2>2. CASE i # Len(g) + 1
    <3>1. i \in 1 .. Len(g)
      BY <1>3, <2>2
    <3>2. h[i] = g[i]
      BY <1>3, <3>1
    <3>. QED  BY <1>2, <3>1, <3>2
  <2>. QED  BY <2>1, <2>2
<1>5. Matched(j.id, u, h)
  BY <1>4 DEF Matched
<1>6. [j EXCEPT !.got = h] \in Jobs
  BY <1>3 DEF Jobs
<1>. QED  BY <1>3, <1>5, <1>6, Zenon DEF g, u, h

\* Replies that match are a right answer.
LEMMA AnswerGiven ==
    ASSUME NEW g \in Seq(Sent \cup Replies), cur \in Jobs, Matched(cur.id, cur.todo, g),
           answer' = [id |-> cur.id, slots |-> cur.todo, got |-> g]
    PROVE  Given'
<1>1. answer' \in [id : 0 .. MaxCalls, slots : Seq(Slots), got : Seq(Sent \cup Replies)]
  BY DEF Jobs
<1>2. answer'.id = cur.id /\ answer'.slots = cur.todo /\ answer'.got = g
  OBVIOUS
<1>3. Matched(answer'.id, answer'.slots, answer'.got)
  BY <1>2, Zenon
<1>. QED  BY <1>1, <1>3 DEF Given, Matched

\* A reply that is not a redirection.
LEMMA AcceptKeeps == ASSUME HirInv, Accept PROVE HirInv'
<1>1. pc = "reply" /\ pc \in {"reply", "asking", "pong"} /\ UNCHANGED <<server, executed, route, pipe, bounds>>
  BY DEF Accept
<1>2. pc \in Calling /\ c \in Keys
  BY <1>1, Arrived
<1>3. /\ StaticType /\ err \in BOOLEAN /\ calls \in 0 .. MaxCalls
      /\ piping = FALSE /\ draining = FALSE /\ requests = <<>>
      /\ cur \in Jobs /\ cur.id \in 1 .. calls /\ cur.id \in 1 .. MaxCalls
      /\ Increasing(cur.todo) /\ Len(cur.got) < Len(cur.todo)
      /\ Len(cur.got) \in Nat /\ Len(cur.todo) \in Nat
      /\ Matched(cur.id, cur.todo, cur.got) /\ LaterFresh /\ AtSlot = cur.todo[Len(cur.got) + 1]
  BY <1>2, DuringCall
<1>4. StaticType' /\ UNCHANGED <<piping, draining, requests, calls>> /\ executed' = executed
  BY <1>1, <1>3, SameStatic DEF pipe, bounds
<1>5. PICK r \in Incoming :
          /\ Read
          /\ LET got == Append(cur.got, r)
             IN  IF r.t = "error" \/ Len(got) = Len(cur.todo)
                 THEN Give(got)
                 ELSE /\ cur' = [cur EXCEPT !.got = got]
                      /\ pc' = "retry"
                      /\ UNCHANGED <<c, tried, err, retry_count, answer>>
  BY DEF Accept
<1>6. con[c].in # <<>> /\ r = con[c].in[1]
  BY <1>1, <1>5, IncomingIs
<1>7. r \in Replies /\ r.id = cur.id /\ r.slot = AtSlot
  BY <1>1, <1>6, Arrived
<1>8. Wires' /\ AllStayFresh /\ \A k \in Keys : Good(con'[k]) => Empty(con'[k])
  BY <1>1, <1>4, <1>5, <1>6, ReadsOut
<1>9. LaterFresh'
  BY <1>3, <1>4, <1>8, Constants DEF LaterFresh, AllStayFresh, StaysFresh
<1>. DEFINE got == Append(cur.got, r)
<1>10. /\ got \in Seq(Sent \cup Replies) /\ Len(got) = Len(cur.got) + 1
       /\ Matched(cur.id, cur.todo, got) /\ [cur EXCEPT !.got = got] \in Jobs
  <2>1. r \in Sent \cup Replies /\ r.slot = cur.todo[Len(cur.got) + 1]
    BY <1>3, <1>7
  <2>. QED  BY <1>3, <1>7, <2>1, OneMore
<1>11. IF r.t = "error" \/ Len(got) = Len(cur.todo)
       THEN Give(got)
       ELSE /\ cur' = [cur EXCEPT !.got = got]
            /\ pc' = "retry"
            /\ UNCHANGED <<c, tried, err, retry_count, answer>>
  BY <1>5
<1>. HIDE DEF got
<1>12. CASE Give(got)
  <2>1. pc' = "idle" /\ cur' = NoCall /\ c' = None /\ err' = err
        /\ answer' = [id |-> cur.id, slots |-> cur.todo, got |-> got]
    BY <1>3, <1>12 DEF Give, Idle
  <2>2. Given'
    BY <1>3, <1>10, <2>1, AnswerGiven
  <2>. QED  BY <1>3, <1>4, <1>8, <1>9, <2>1, <2>2, CallEnds, NothingIsTyped
<1>13. CASE cur' = [cur EXCEPT !.got = got] /\ pc' = "retry" /\ UNCHANGED <<c, err, answer>> /\ Len(got) # Len(cur.todo)
  <2>1. cur' \in Jobs /\ cur'.id = cur.id /\ cur'.todo = cur.todo /\ cur'.got = got
    BY <1>3, <1>10, <1>13 DEF Jobs
  <2>2. Len(cur'.got) = Len(cur.got) + 1 /\ Len(cur'.got) < Len(cur'.todo)
    BY <1>3, <1>10, <1>13, <2>1
  <2>3. ~Waiting' /\ pc' # "reply" /\ pc' \in Calling
    BY <1>13 DEF Waiting, Calling
  <2>4. Quiet' /\ Awaited'
    BY <1>8, <2>3 DEF Quiet, Awaited
  <2>5. Unsent'
    <3>1. \A n \in Len(cur.got) + 2 .. Len(cur.todo) : Fresh(cur.id, cur.todo[n]) /\ cur.todo[n] \in Slots
      BY <1>2, <1>3, StillToSend
    <3>2. \A n \in Len(cur.got) + 2 .. Len(cur.todo) : Fresh(cur.id, cur.todo[n])'
      BY <1>3, <1>8, <2>1, <3>1 DEF AllStayFresh, StaysFresh
    <3>. QED  BY <1>3, <1>9, <2>1, <2>2, <2>3, <3>2 DEF Unsent, LaterFresh
  <2>6. Given'
    BY <1>13, SameAnswer DEF HirInv
  <2>7. Matched(cur'.id, cur'.todo, cur'.got)
    BY <1>10, <2>1, Zenon
  <2>. QED  BY <1>2, <1>3, <1>4, <1>8, <1>13, <2>1, <2>2, <2>3, <2>4, <2>5, <2>6, <2>7, CallGoesOn
<1>. QED  BY <1>11, <1>12, <1>13

\* The slots of a command, as it is split.
LEMMA SplitIs ==
    ASSUME NEW S \in Commands, NEW q \in Split(S)
    PROVE  q \in Seq(Slots) /\ Increasing(q) /\ q # <<>> /\ Len(q) \in Nat \ {0}
<1>1. S \subseteq Slots /\ S # {} /\ IsFiniteSet(S)
  BY HirConstants DEF HirConstants
<1>2. Cardinality(S) \in Nat \ {0}
  BY <1>1, FS_CardinalityType, FS_EmptySet
<1>. DEFINE n == Cardinality(S)
<1>3. q \in [1 .. n -> S] /\ \A i, j \in DOMAIN q : i < j => q[i] < q[j]
  BY DEF Split
<1>4. n \in Nat \ {0}
  BY <1>2
<1>. HIDE DEF n
<1>5. q \in Seq(S) /\ Len(q) = n /\ DOMAIN q = 1 .. n
  BY <1>3, <1>4
<1>6. q \in Seq(Slots)
  BY <1>1, <1>3, <1>4
<1>7. Increasing(q)
  BY <1>3, <1>5 DEF Increasing
<1>8. q # <<>>
  BY <1>4, <1>5
<1>. QED  BY <1>4, <1>5, <1>6, <1>7, <1>8

\* A command is called.
LEMMA CallKeeps == ASSUME HirInv, Call PROVE HirInv'
<1>1. /\ pc = "idle" /\ ~piping /\ calls < MaxCalls /\ calls' = calls + 1
      /\ pc' = "retry" /\ err' = FALSE /\ answer' = NoAnswer
      /\ UNCHANGED <<server, orphans, executed, route, con, retry_count, pipe, c, tried, faults, refusals, moves>>
  BY DEF Call
<1>2. PICK S \in Commands : \E q \in Split(S) : cur' = [id |-> calls', todo |-> q, got |-> <<>>]
  BY DEF Call
<1>3. PICK q \in Split(S) : cur' = [id |-> calls', todo |-> q, got |-> <<>>]
  BY <1>2
<1>4. q \in Seq(Slots) /\ Increasing(q) /\ Len(q) \in Nat \ {0}
  BY SplitIs
<1>5. Types /\ OnceNow
  BY DEF HirInv, OnceNow
<1>6. StaticType' /\ Wires' /\ AllStayFresh
  BY <1>1, <1>5, TypesAre, SameStatic, SameWires
<1>7. /\ piping' = FALSE /\ draining' = FALSE /\ requests' = <<>> /\ calls \in 0 .. MaxCalls
      /\ c' \in Keys \cup {None}
  BY <1>1, <1>5 DEF HirInv, Control, Types, CallType, pipe
<1>8. calls' \in 0 .. MaxCalls /\ calls' \in 1 .. MaxCalls /\ calls' = calls + 1
  BY <1>1, <1>7, Constants
<1>9. cur'.id = calls' /\ cur'.todo = q /\ cur'.got = <<>>
  BY <1>3
<1>10. cur' \in Jobs /\ Len(cur'.got) = 0 /\ Len(cur'.got) < Len(cur'.todo)
  <2>1. <<>> \in Seq(Sent \cup Replies) /\ Len(<<>>) = 0
    OBVIOUS
  <2>. QED  BY <1>3, <1>4, <1>8, <1>9, <2>1 DEF Jobs
<1>11. ~Waiting' /\ pc' \in Calling /\ pc' # "reply"
  BY <1>1 DEF Waiting, Calling
<1>12. Quiet' /\ Awaited'
  <2>1. \A k \in Keys : Good(con[k]) => Empty(con[k])
    BY <1>1 DEF HirInv, Quiet, Waiting
  <2>. QED  BY <1>1, <1>11, <2>1 DEF Quiet, Awaited
<1>13. Unsent'
  <2>1. \A i \in calls + 1 .. MaxCalls, s \in Slots : Fresh(i, s)
    BY DEF HirInv, Unsent
  <2>2. \A i \in calls + 1 .. MaxCalls, s \in Slots : Clear(con', orphans', executed', i, s)
    BY <1>6, <1>7, <2>1 DEF AllStayFresh, StaysFresh, Fresh
  <2>3. calls' \in calls + 1 .. MaxCalls /\ \A i \in calls' + 1 .. MaxCalls : i \in calls + 1 .. MaxCalls
    BY <1>7, <1>8
  <2>4. \A n \in 1 .. Len(q) : q[n] \in Slots
    BY <1>4
  <2>5. \A i \in calls' + 1 .. MaxCalls, s \in Slots : Clear(con', orphans', executed', i, s)
    BY <2>2, <2>3
  <2>6. \A n \in 1 .. Len(q) : Clear(con', orphans', executed', calls', q[n])
    BY <2>2, <2>3, <2>4
  <2>7. \A n \in Len(cur'.got) + 1 .. Len(cur'.todo) : Clear(con', orphans', executed', cur'.id, cur'.todo[n])
    BY <1>9, <1>10, <2>6
  <2>. QED  BY <2>5, <2>7 DEF Unsent, Fresh
<1>14. Given'
  BY <1>1, NoAnswerGiven
<1>15. Matched(cur'.id, cur'.todo, cur'.got)
  BY <1>10 DEF Matched
<1>16. err' \in BOOLEAN /\ cur'.id \in 1 .. calls' /\ Increasing(cur'.todo)
  <2>1. cur'.id \in 1 .. calls'
    BY <1>8, <1>9
  <2>2. Increasing(cur'.todo)
    BY <1>4, <1>9, Zenon
  <2>. QED  BY <1>1, <2>1, <2>2
<1>. QED  BY <1>6, <1>7, <1>8, <1>10, <1>11, <1>12, <1>13, <1>14, <1>15, <1>16, CallGoesOn

\* ASK: the named node gets ASKING, unless it cannot be reached.
LEMMA AskKeeps == ASSUME HirInv, Ask PROVE HirInv'
<1>1. pc = "reply" /\ pc \in {"reply", "asking", "pong"} /\ UNCHANGED <<server, executed, table, pipe, bounds>>
  BY DEF Ask
<1>2. /\ pc \in Calling /\ c \in Keys /\ Good(con[c]) /\ con[c] \in Contexts
      /\ \A l \in Keys \ {c} : Good(con[l]) => Empty(con[l])
  BY <1>1, Arrived
<1>3. Types /\ OnceNow /\ Wires /\ StaticType /\ con \in Connections /\ err \in BOOLEAN /\ AtSlot \in Slots
  BY <1>2, DuringCall
<1>4. UNCHANGED <<piping, draining, requests, calls>> /\ executed' = executed
  BY <1>1 DEF pipe, bounds
<1>5. PICK r \in Incoming :
        /\ r.t = "ask"
        /\ LET k == AskKey(r.slot, r.to)
               x == IF k \in Addrs THEN ctx_get_by_node(k) ELSE redisConnect(r.to)
               read == [con EXCEPT ![c].in = Tail(@)]
           IN  IF ~MayRedirect
               THEN TooMany /\ con' = read /\ UNCHANGED <<nodes, host, orphans>>
               ELSE /\ nodes' = IF k = r.slot THEN nodes \cup {k} ELSE nodes
                    /\ host' = IF k \in Addrs THEN host ELSE [host EXCEPT ![k] = r.to]
                    /\ orphans' = orphans \cup IF con[k] # NoCon /\ (con[k].err \/ k = Leaked) THEN redisFree(con[k]) ELSE {}
                    /\ IF x.err
                       THEN con' = [read EXCEPT ![k] = x] /\ Fail
                       ELSE /\ con' = [read EXCEPT ![k] = Put(IF k = c /\ k \in Addrs THEN read[c] ELSE x, Asking)]
                            /\ c' = k
                            /\ Redirect("asking")
                            /\ UNCHANGED tried
  BY DEF Ask
<1>6. con[c].in # <<>> /\ r = con[c].in[1]
  BY <1>1, <1>5, IncomingIs
<1>7. /\ r \in Replies /\ r.slot = AtSlot /\ r.slot \in Slots /\ r.to \in Addrs
      /\ Fresh(cur.id, AtSlot) /\ Tail(All(con[c])) = <<>>
  <2>1. r \in Replies /\ r.slot = AtSlot /\ Tail(All(con[c])) = <<>>
    BY <1>1, <1>6, Arrived
  <2>2. r.t \in Redirects
    BY <1>5 DEF Redirects
  <2>3. Fresh(cur.id, AtSlot)
    BY <1>1, <1>6, <2>2, Arrived
  <2>. QED  BY <1>3, <2>1, <2>3 DEF Replies
<1>8. CASE ~MayRedirect
  <2>1. Fail /\ con' = [con EXCEPT ![c].in = Tail(@)] /\ UNCHANGED <<nodes, host, orphans>>
    BY <1>5, <1>8 DEF TooMany
  <2>2. Read
    BY <2>1 DEF Read
  <2>3. Wires' /\ AllStayFresh /\ \A k \in Keys : Good(con'[k]) => Empty(con'[k])
    BY <1>1, <1>4, <1>6, <2>2, ReadsOut
  <2>4. StaticType'
    BY <1>1, <1>3, <2>1, SameStatic DEF route
  <2>. QED  BY <1>2, <1>4, <2>1, <2>3, <2>4, FailEnds
<1>9. CASE MayRedirect
  <2>. DEFINE k == AskKey(r.slot, r.to)
              x == Named(k, r.to)
              y == ReadFrom
              z == AskedOf(k, r.to)
              cn == AskedFrom(k, r.to)
              read == [con EXCEPT ![c].in = Tail(@)]
  <2>1. /\ nodes' = IF k = r.slot THEN nodes \cup {k} ELSE nodes
        /\ host' = IF k \in Addrs THEN host ELSE [host EXCEPT ![k] = r.to]
        /\ orphans' = orphans \cup IF con[k] # NoCon /\ (con[k].err \/ k = Leaked) THEN redisFree(con[k]) ELSE {}
        /\ IF x.err
           THEN con' = [read EXCEPT ![k] = x] /\ Fail
           ELSE /\ con' = [read EXCEPT ![k] = Put(IF k = c /\ k \in Addrs THEN read[c] ELSE x, Asking)]
                /\ c' = k
                /\ Redirect("asking")
    BY <1>5, <1>9 DEF Named
  <2>2. read = [con EXCEPT ![c] = y] /\ read[c] = y
    BY <1>2, <1>3 DEF Connections, ReadFrom
  <2>3. /\ k = AskKey(r.slot, r.to)
        /\ x = IF k \in Addrs THEN ctx_get_by_node(k) ELSE redisConnect(r.to)
        /\ y = [con[c] EXCEPT !.in = Tail(con[c].in)]
        /\ z = IF k = c /\ k \in Addrs THEN y ELSE x
        /\ cn = [l \in Keys |-> IF l = k THEN z ELSE IF l = c THEN y ELSE con[l]]
    BY DEF Named, ReadFrom, AskedOf, AskedFrom
  <2>. HIDE DEF k, x, y, z, cn, read
  <2>4. /\ k \in Keys /\ y \in Contexts /\ z \in Contexts /\ cn \in Connections
        /\ All(y) = Tail(All(con[c])) /\ ~y.err
        /\ k # c \/ k \notin Addrs => z = x /\ (Empty(z) \/ (k # c /\ Good(con[k]) /\ z = con[k]))
        /\ k = c /\ k \in Addrs => z = y /\ ~x.err
        /\ orphans' \in SUBSET Orphans
        /\ \A l \in Keys : Suffix(Unserved(con[l]), Unserved(cn[l]))
        /\ \A o \in orphans' : o \in orphans \/ \E l \in Keys :
              con[l] # NoCon /\ o \in redisFree(con[l]) /\ Len(Unserved(cn[l])) <= Len(con[l].out)
    <3>1. orphans' = orphans \cup IF con[k] # NoCon /\ (con[k].err \/ k = Leaked) THEN redisFree(con[k]) ELSE {}
      BY <2>1
    <3>2. Types /\ OnceNow /\ c \in Keys /\ Good(con[c]) /\ con[c].in # <<>> /\ r.slot \in Slots /\ r.to \in Addrs
      BY <1>2, <1>3, <1>6, <1>7
    <3>3. k = AskKey(r.slot, r.to)
      BY <2>3
    <3>. QED  BY <3>1, <3>2, <3>3, AskFades DEF x, y, z, cn
  <2>5. Empty(y)
    BY <1>7, <2>4, Carried
  <2>6. Empty(z)
    BY <1>2, <2>4, <2>5
  <2>7. StaticType'
    <3>1. k \in Addrs \cup Slots \cup {Leaked} /\ (k = r.slot => k \notin Addrs)
      BY <1>7, <2>4, Constants DEF Keys
    <3>2. nodes' \subseteq Addrs \cup Slots
      BY <1>3, <1>7, <2>1 DEF StaticType
    <3>3. host' \in [Slots \cup {Leaked} -> Addrs \cup {None}]
      BY <1>3, <1>7, <2>1, <3>1 DEF StaticType
    <3>4. \A l \in nodes' \ Addrs : host'[l] \in Addrs
      BY <1>3, <1>7, <2>1, <3>1 DEF StaticType
    <3>. QED  BY <1>1, <1>3, <3>2, <3>3, <3>4 DEF StaticType, server
  <2>8. CASE x.err
    <3>1. z = x /\ ~Good(z)
      BY <2>4, <2>8 DEF Good
    <3>2. con' = cn
      BY <1>3, <2>1, <2>2, <2>3, <2>4, <2>8, <3>1 DEF Connections
    <3>3. Wires' /\ AllStayFresh
      BY <1>3, <1>4, <2>4, <3>2, LessWires
    <3>4. \A l \in Keys : Good(con'[l]) => Empty(con'[l])
      BY <1>2, <2>3, <2>5, <3>1, <3>2
    <3>5. Fail
      BY <2>1, <2>8
    <3>. QED  BY <1>2, <1>4, <2>7, <3>3, <3>4, <3>5, FailEnds
  <2>9. CASE ~x.err
    <3>1. cn[k] = z /\ \A l \in Keys \ {k} : Good(cn[l]) => Empty(cn[l])
      BY <1>2, <2>3, <2>4, <2>5
    <3>2. con' = [cn EXCEPT ![k] = Put(cn[k], Asking)]
      <4>1. con' = [read EXCEPT ![k] = Put(z, Asking)]
        BY <2>1, <2>2, <2>3, <2>9
      <4>. QED  BY <1>3, <2>2, <2>3, <2>4, <3>1, <4>1 DEF Connections
    <3>3. Asking \in Sent /\ Asking.t # "cmd"
      BY MessageTypes
    <3>4. /\ Wires' /\ OthersStayFresh(Asking)
          /\ con'[k] = Put(cn[k], Asking) /\ con'[k] \in Contexts
          /\ \A l \in Keys \ {k} : con'[l] = cn[l]
      BY <1>3, <1>4, <2>4, <3>1, <3>2, <3>3, PutWires
    <3>5. Put(z, Asking).in = z.in /\ Put(z, Asking).err = z.err /\ All(Put(z, Asking)) = Append(All(z), Asking)
      BY <2>4, <3>3, PutContext
    <3>6. z.in = <<>> /\ All(z) = <<>> /\ ~z.err
      BY <2>4, <2>6, <2>9, Carried DEF Empty
    <3>7. Append(<<>>, Asking) = <<Asking>>
      OBVIOUS
    <3>8. con'[k].in = <<>> /\ con'[k].err = z.err /\ All(con'[k]) = <<Asking>>
      BY <3>1, <3>4, <3>5, <3>6, <3>7, Zenon
    <3>9. Good(con'[k])
      BY <3>4, <3>6, <3>8, ContextIsOne DEF Good
    <3>10. c' = k /\ pc' = "asking" /\ UNCHANGED <<err, answer, cur>>
      BY <2>1, <2>9 DEF Redirect
    <3>11. \A l \in Keys \ {c'} : Good(con'[l]) => Empty(con'[l])
      BY <3>1, <3>4, <3>10
    <3>12. c' \in Keys /\ Good(con'[c']) /\ con'[c'].in = <<>> /\ All(con'[c']) = <<Asking>>
      BY <2>4, <3>8, <3>9, <3>10
    <3>. QED  BY <1>2, <1>3, <1>4, <1>7, <2>7, <3>3, <3>4, <3>10, <3>11, <3>12, Waits
  <2>. QED  BY <2>8, <2>9
<1>. QED  BY <1>8, <1>9

\* While the route is updated outside of a call, nothing is outstanding.
LEMMA DuringUpdate ==
    ASSUME HirInv, Updating
    PROVE  /\ Types /\ OnceNow /\ Wires /\ StaticType /\ con \in Connections
           /\ draining = FALSE /\ requests = <<>> /\ err \in BOOLEAN
           /\ piping = (pc = "reset")
           /\ calls \in 0 .. MaxCalls /\ cur \in Jobs /\ c \in Keys \cup {None}
           /\ LaterFresh /\ Given
           /\ \A k \in Keys : Good(con[k]) => Empty(con[k])
<1>1. Types /\ OnceNow /\ Wires /\ StaticType /\ con \in Connections
  <2>1. Types /\ OnceNow
    BY DEF HirInv, OnceNow
  <2>. QED  BY <2>1, TypesAre DEF Wires
<1>2. pc \in {"connect", "update", "reset"} /\ ~Waiting
  BY DEF Updating, Waiting
<1>3. /\ err \in BOOLEAN /\ piping \in BOOLEAN /\ draining \in BOOLEAN /\ calls \in 0 .. MaxCalls
      /\ cur \in Jobs /\ c \in Keys \cup {None}
  BY <1>1 DEF Types, CallType
<1>4. draining = FALSE /\ requests = <<>> /\ piping = (pc = "reset")
  BY <1>2, <1>3 DEF HirInv, Control, Calling
<1>5. \A k \in Keys : Good(con[k]) => Empty(con[k])
  BY <1>2, <1>4 DEF HirInv, Quiet
<1>6. LaterFresh /\ Given
  BY DEF HirInv, Unsent, LaterFresh
<1>. QED  BY <1>1, <1>3, <1>4, <1>5, <1>6

\* A server gives its slots.
LEMMA UpdateKeeps == ASSUME HirInv, Update PROVE HirInv'
<1>1. /\ Updating
      /\ UNCHANGED <<server, executed, host, retry_count, requests, draining, cur, answer, bounds>>
      /\ con' = Swapped(nodes')
      /\ orphans' = orphans \cup UNION {redisFree(con[k]) : k \in {k \in Keys : con'[k] = NoCon}}
      /\ err' = FALSE /\ c' = None
      /\ IF pc = "update"
         THEN pc' = "retry" /\ UNCHANGED <<need_update_route, piping>>
         ELSE pc' = "idle" /\ need_update_route' = FALSE /\ piping' = FALSE
  BY DEF Update
<1>2. PICK n \in nodes \ tried :
          /\ Host(n) \in alive
          /\ table' = view[Host(n)]
          /\ nodes' = {view[Host(n)][s] : s \in Slots}
  BY DEF Update
<1>3. /\ Types /\ OnceNow /\ Wires /\ StaticType /\ con \in Connections
      /\ draining = FALSE /\ requests = <<>> /\ piping = (pc = "reset")
      /\ calls \in 0 .. MaxCalls /\ cur \in Jobs /\ LaterFresh /\ Given
      /\ \A k \in Keys : Good(con[k]) => Empty(con[k])
  BY <1>1, DuringUpdate
<1>4. StaticType'
  BY <1>1, <1>2, <1>3 DEF StaticType, server
<1>5. con' = [k \in Keys |-> IF k \in nodes' \cap nodes THEN con[k] ELSE NoCon]
  BY <1>1 DEF Swapped
<1>. DEFINE K == {k \in Keys : con'[k] = NoCon}
<1>6. con' = [k \in Keys |-> IF k \in K THEN NoCon ELSE con[k]]
  BY <1>5
<1>7. K \in SUBSET Keys /\ orphans' = orphans \cup UNION {redisFree(con[k]) : k \in K} /\ executed' = executed
  BY <1>1
<1>. HIDE DEF K
<1>8. Wires' /\ AllStayFresh
  BY <1>3, <1>6, <1>7, CloseWires
<1>9. \A k \in Keys : Good(con'[k]) => Empty(con'[k])
  BY <1>3, <1>6 DEF Good
<1>10. LaterFresh' /\ calls' = calls
  BY <1>1, <1>3, <1>8, Constants DEF LaterFresh, AllStayFresh, StaysFresh, bounds
<1>11. CASE pc = "update"
  <2>1. pc \in Calling /\ pc' = "retry" /\ UNCHANGED <<piping, draining, requests, calls, cur, answer>>
    BY <1>1, <1>10, <1>11 DEF Calling
  <2>. QED  BY <1>1, <1>4, <1>8, <1>9, <1>11, <2>1, Searches
<1>12. CASE pc # "update"
  <2>1. pc' = "idle" /\ piping' = FALSE /\ piping' = (pc' = "reset") /\ draining' = FALSE /\ requests' = <<>>
    BY <1>1, <1>3, <1>12
  <2>2. Given'
    BY <1>1, <1>3, SameAnswer
  <2>3. cur' \in Jobs /\ calls' \in 0 .. MaxCalls
    BY <1>1, <1>3, <1>10
  <2>. QED  BY <1>1, <1>4, <1>8, <1>9, <1>10, <2>1, <2>2, <2>3, CallEnds
<1>. QED  BY <1>11, <1>12

\* A server does not give its slots, or none does.
LEMMA UpdateTryKeeps == ASSUME HirInv, UpdateTry \/ UpdateFails PROVE HirInv'
<1>1. Updating /\ UNCHANGED <<server, route, con, orphans, executed, requests, draining, calls>>
  BY DEF UpdateTry, UpdateFails, UpdateError, pipe, bounds
<1>2. /\ Types /\ OnceNow /\ Wires /\ StaticType /\ con \in Connections
      /\ draining = FALSE /\ requests = <<>> /\ err \in BOOLEAN /\ piping = (pc = "reset")
      /\ calls \in 0 .. MaxCalls /\ cur \in Jobs /\ c \in Keys \cup {None} /\ LaterFresh /\ Given
      /\ \A k \in Keys : Good(con[k]) => Empty(con[k])
  BY <1>1, DuringUpdate
<1>3. Wires' /\ AllStayFresh /\ StaticType'
  BY <1>1, <1>2, SameWires, SameStatic
<1>4. (\A k \in Keys : Good(con'[k]) => Empty(con'[k])) /\ LaterFresh'
  BY <1>1, <1>2 DEF LaterFresh, Fresh
<1>5. CASE UpdateTry
  <2>1. err' = TRUE /\ UNCHANGED <<retry_count, pipe, pc, cur, c, answer, calls, refusals, moves>>
    BY <1>5 DEF UpdateTry, UpdateError
  <2>2. CASE pc = "update"
    <3>1. pc \in Calling /\ pc' = "update" /\ UNCHANGED <<piping, draining, requests, calls, cur, answer>>
      BY <2>1, <2>2 DEF Calling, pipe
    <3>2. c' \in Keys \cup {None} /\ err' \in BOOLEAN /\ pc # "reply"
      BY <1>2, <2>1, <2>2
    <3>. QED  BY <1>3, <1>4, <3>1, <3>2, Searches
  <2>3. CASE pc # "update"
    <3>1. pc' \in {"idle", "connect", "reset"} /\ piping' = (pc' = "reset")
      BY <1>1, <1>2, <2>1, <2>3 DEF Updating, pipe
    <3>2. Given'
      BY <1>2, <2>1, SameAnswer
    <3>3. /\ draining' = FALSE /\ requests' = <<>> /\ calls' \in 0 .. MaxCalls /\ err' \in BOOLEAN
          /\ cur' \in Jobs /\ c' \in Keys \cup {None}
      BY <1>1, <1>2, <2>1
    <3>. QED  BY <1>3, <1>4, <3>1, <3>2, <3>3, CallEnds
  <2>. QED  BY <2>2, <2>3
<1>6. CASE UpdateFails
  <2>1. IF pc = "update"
        THEN Fail /\ UNCHANGED piping
        ELSE Idle /\ err' = TRUE /\ piping' = FALSE /\ UNCHANGED <<retry_count, answer>>
    BY <1>6 DEF UpdateFails
  <2>2. CASE pc = "update"
    <3>1. pc \in Calling /\ Fail /\ UNCHANGED <<piping, draining, requests, calls>>
      BY <1>1, <2>1, <2>2 DEF Calling
    <3>. QED  BY <1>3, <1>4, <3>1, FailEnds
  <2>3. CASE pc # "update"
    <3>1. /\ pc' = "idle" /\ piping' = FALSE /\ piping' = (pc' = "reset") /\ err' = TRUE /\ answer' = answer
          /\ cur' = NoCall /\ c' = None
      BY <1>2, <2>1, <2>3 DEF Idle
    <3>2. Given'
      BY <1>2, <3>1, SameAnswer
    <3>3. draining' = FALSE /\ requests' = <<>> /\ calls' \in 0 .. MaxCalls /\ err' \in BOOLEAN
      BY <1>1, <1>2, <3>1
    <3>. QED  BY <1>3, <1>4, <3>1, <3>2, <3>3, CallEnds, NothingIsTyped
  <2>. QED  BY <2>2, <2>3
<1>. QED  BY <1>5, <1>6

-----------------------------------------------------------------------------
(***************************************************************************)
(* What the connections of the pipeline carry.                             *)
(***************************************************************************)
Subs == (1 .. MaxCalls) \X Slots
Sub(m) == <<m.id, m.slot>>

\* The order of the sub-commands.
LEMMA Order ==
    /\ \A p, q \in Subs : ~(Before(p, q) /\ Before(q, p))
    /\ \A p \in Subs : ~Before(p, p)
    /\ \A p \in Subs : p[1] \in 1 .. MaxCalls /\ p[2] \in Slots /\ p = <<p[1], p[2]>>
<1>1. \A p \in Subs : p[1] \in 1 .. MaxCalls /\ p[2] \in Slots /\ p = <<p[1], p[2]>>
  BY DEF Subs
<1>2. \A p \in Subs : p[1] \in Nat /\ p[2] \in Nat
  BY <1>1, Constants
<1>3. \A p, q \in Subs : ~(Before(p, q) /\ Before(q, p))
  BY <1>2 DEF Before
<1>4. \A p \in Subs : ~Before(p, p)
  BY <1>3
<1>. QED  BY <1>1, <1>3, <1>4

\* What it means to be queued and to be kept, for the sequence u of what a
\* context carries, of which the first n are replies.
QueuedSeq(u, n, up, k, P) ==
    /\ \A i \in 1 .. Len(u) : Sub(u[i]) \in P /\ table[u[i].slot] = k
    /\ \A i, j \in 1 .. Len(u) : i < j => Before(Sub(u[i]), Sub(u[j]))
    /\ \A i \in 1 .. Len(u) : up \/ i <= n =>
          \A p \in P : table[p[2]] = k /\ Before(p, Sub(u[i])) => \E j \in 1 .. i - 1 : Sub(u[j]) = p
KeptSeq(u, up, k, P) ==
    \A p \in P : table[p[2]] = k => (up => \E j \in 1 .. Len(u) : p = Sub(u[j]))

\* The same as Queued and Kept.
LEMMA QueuedIs ==
    ASSUME NEW x, NEW k, NEW P
    PROVE  /\ Queued(x, k, P) <=> QueuedSeq(All(x), Len(x.in), x.up, k, P)
           /\ Good(x) /\ KeptSeq(All(x), x.up, k, P) => Kept(x, k, P)
           /\ Kept(x, k, P) => KeptSeq(All(x), x.up, k, P)
           /\ (\A p \in P : table[p[2]] # k) => Kept(x, k, P)
           /\ Kept(x, k, P) => Good(x) \/ \A p \in P : table[p[2]] # k
  BY DEF Queued, QueuedSeq, Kept, KeptSeq, Sub

\* A context that carries nothing is in order.
LEMMA EmptyQueued ==
    ASSUME NEW x \in Contexts, Empty(x), NEW k, NEW P
    PROVE  Queued(x, k, P)
<1>1. All(x) = <<>>
  BY Carried
<1>. DEFINE u == All(x)
            n == Len(x.in)
<1>2. Len(u) = 0
  BY <1>1
<1>. HIDE DEF u, n
<1>3. QueuedSeq(u, n, x.up, k, P)
  BY <1>2 DEF QueuedSeq
<1>. QED  BY <1>3, QueuedIs DEF u, n

\* When nothing is pending, a context that is in order carries nothing.
LEMMA NothingQueued ==
    ASSUME NEW x \in Contexts, NEW k, Queued(x, k, {})
    PROVE  Empty(x)
<1>. DEFINE u == All(x)
            n == Len(x.in)
<1>1. QueuedSeq(u, n, x.up, k, {})
  BY QueuedIs
<1>2. Len(u) \in Nat
  BY AllParts
<1>. HIDE DEF u, n
<1>3. Len(u) = 0
  BY <1>1, <1>2 DEF QueuedSeq
<1>. QED  BY <1>3, Carried DEF u

\* What is pending for another node makes no difference.
LEMMA OtherNode ==
    ASSUME NEW x, NEW k, NEW P, NEW p, table[p[2]] # k
    PROVE  /\ Queued(x, k, P) => Queued(x, k, P \cup {p})
           /\ Kept(x, k, P) => Kept(x, k, P \cup {p})
           /\ Kept(x, k, P) => Kept(x, k, P \ {p})
<1>1. Queued(x, k, P) => Queued(x, k, P \cup {p})
  <2>. DEFINE u == All(x)
              n == Len(x.in)
  <2>. HIDE DEF u, n
  <2>1. QueuedSeq(u, n, x.up, k, P) => QueuedSeq(u, n, x.up, k, P \cup {p})
    BY DEF QueuedSeq
  <2>. QED  BY <2>1, QueuedIs DEF u, n
<1>. QED  BY <1>1 DEF Kept

\* Nor does what has been collected from another node.
LEMMA OtherCollected ==
    ASSUME NEW x, NEW k, NEW P, NEW p, table[p[2]] # k, Queued(x, k, P)
    PROVE  Queued(x, k, P \ {p})
<1>. DEFINE u == All(x)
            n == Len(x.in)
<1>1. QueuedSeq(u, n, x.up, k, P)
  BY QueuedIs
<1>. HIDE DEF u, n
<1>2. \A i \in 1 .. Len(u) : Sub(u[i]) # p
  <2>. SUFFICES ASSUME NEW i \in 1 .. Len(u), Sub(u[i]) = p PROVE FALSE
    OBVIOUS
  <2>1. p[2] = u[i].slot
    BY DEF Sub
  <2>2. table[u[i].slot] = k
    BY <1>1 DEF QueuedSeq
  <2>. QED  BY <2>1, <2>2
<1>3. QueuedSeq(u, n, x.up, k, P \ {p})
  BY <1>1, <1>2 DEF QueuedSeq
<1>. QED  BY <1>3, QueuedIs DEF u, n

\* A sub-command that comes after all that is pending is appended.
LEMMA PutQueued ==
    ASSUME NEW x \in Contexts, NEW k, NEW P \in SUBSET Subs, NEW m \in Sent, Sub(m) \in Subs,
           table[m.slot] = k, ~x.err, \A q \in P : Before(q, Sub(m)),
           Queued(x, k, P), Kept(x, k, P)
    PROVE  Queued(Put(x, m), k, P \cup {Sub(m)}) /\ Kept(Put(x, m), k, P \cup {Sub(m)})
<1>. DEFINE u == All(x)
            n == Len(x.in)
            up == x.up
            y == Put(x, m)
            v == All(y)
            s == Sub(m)
            R == P \cup {s}
<1>1. QueuedSeq(u, n, up, k, P) /\ KeptSeq(u, up, k, P)
  BY QueuedIs
<1>2. /\ y \in Contexts /\ y.in = x.in /\ y.up = up /\ y.err = x.err
      /\ v = Append(u, m) /\ u \in Seq(Sent \cup Replies) /\ n \in Nat /\ n <= Len(u)
  <2>1. /\ y \in Contexts /\ y.in = x.in /\ y.up = up /\ y.err = x.err /\ v = Append(u, m)
    BY PutContext
  <2>2. /\ u \in Seq(Sent \cup Replies) /\ n \in Nat /\ Len(x.wire) \in Nat /\ Len(x.out) \in Nat
        /\ Len(u) = n + Len(x.wire) + Len(x.out)
    BY AllParts
  <2>3. n <= Len(u)
    <3>. DEFINE a == Len(x.wire)
                b == Len(x.out)
    <3>1. n \in Nat /\ a \in Nat /\ b \in Nat /\ Len(u) = n + a + b
      BY <2>2
    <3>. HIDE DEF u, n, a, b
    <3>. QED  BY <3>1
  <2>. QED  BY <2>1, <2>2, <2>3
<1>3. s[2] = m.slot
  BY DEF Sub
<1>4. s \in Subs /\ \A q \in P : Before(q, s) /\ q \in Subs
  OBVIOUS
<1>. HIDE DEF u, n, up, y, v, s
<1>5. /\ Len(v) = Len(u) + 1 /\ Len(u) \in Nat /\ \A i \in 1 .. Len(u) : v[i] = u[i]
      /\ v[Len(u) + 1] = m
  <2>1. m \in Sent \cup Replies
    OBVIOUS
  <2>. QED  BY <1>2, <2>1
<1>6. \A i \in 1 .. Len(v) : Sub(v[i]) \in R /\ table[v[i].slot] = k
  <2>. SUFFICES ASSUME NEW i \in 1 .. Len(v) PROVE Sub(v[i]) \in R /\ table[v[i].slot] = k
    OBVIOUS
  <2>1. CASE i = Len(u) + 1
    <3>1. v[i] = m
      BY <1>5, <2>1
    <3>. QED  BY <3>1 DEF s
  <2>2. CASE i # Len(u) + 1
    <3>1. i \in 1 .. Len(u)
      BY <1>5, <2>2
    <3>. QED  BY <1>1, <1>5, <3>1 DEF QueuedSeq
  <2>. QED  BY <2>1, <2>2
<1>7. \A i \in 1 .. Len(u) : Sub(u[i]) \in P
  BY <1>1 DEF QueuedSeq
<1>8. \A i, j \in 1 .. Len(v) : i < j => Before(Sub(v[i]), Sub(v[j]))
  <2>. SUFFICES ASSUME NEW i \in 1 .. Len(v), NEW j \in 1 .. Len(v), i < j
                PROVE  Before(Sub(v[i]), Sub(v[j]))
    OBVIOUS
  <2>1. i \in 1 .. Len(u) /\ v[i] = u[i]
    BY <1>5
  <2>2. CASE j = Len(u) + 1
    <3>1. Sub(v[j]) = s
      BY <1>5, <2>2 DEF s
    <3>2. Sub(v[i]) \in P
      BY <1>7, <2>1
    <3>. QED  BY <1>4, <3>1, <3>2
  <2>3. CASE j # Len(u) + 1
    <3>1. j \in 1 .. Len(u) /\ v[j] = u[j]
      BY <1>5, <2>3
    <3>2. Before(Sub(u[i]), Sub(u[j]))
      BY <1>1, <2>1, <3>1 DEF QueuedSeq
    <3>. QED  BY <2>1, <3>1, <3>2
  <2>. QED  BY <2>2, <2>3
<1>9. ASSUME NEW i \in 1 .. Len(v), up \/ i <= n, NEW p \in R, table[p[2]] = k, Before(p, Sub(v[i]))
      PROVE  \E j \in 1 .. i - 1 : Sub(v[j]) = p
  <2>1. CASE i = Len(u) + 1
    <3>1. up
      BY <1>2, <1>5, <1>9, <2>1
    <3>2. Sub(v[i]) = s
      BY <1>5, <2>1 DEF s
    <3>3. p # s
      BY <1>4, <1>9, <3>2, Order
    <3>4. p \in P
      BY <3>3
    <3>5. PICK j \in 1 .. Len(u) : p = Sub(u[j])
      BY <1>1, <1>9, <3>1, <3>4 DEF KeptSeq
    <3>6. j \in 1 .. i - 1 /\ v[j] = u[j]
      BY <1>5, <2>1
    <3>. QED  BY <3>5, <3>6
  <2>2. CASE i # Len(u) + 1
    <3>1. i \in 1 .. Len(u) /\ v[i] = u[i]
      BY <1>5, <2>2
    <3>2. Before(Sub(u[i]), s) /\ Sub(u[i]) \in Subs
      BY <1>4, <1>7, <3>1
    <3>3. p # s
      BY <1>4, <1>9, <3>1, <3>2, Order
    <3>4. p \in P
      BY <3>3
    <3>5. PICK j \in 1 .. i - 1 : Sub(u[j]) = p
      BY <1>1, <1>9, <3>1, <3>4 DEF QueuedSeq
    <3>6. v[j] = u[j]
      BY <1>5, <3>1
    <3>. QED  BY <3>5, <3>6
  <2>. QED  BY <2>1, <2>2
<1>10. QueuedSeq(v, n, up, k, R)
  BY <1>6, <1>8, <1>9 DEF QueuedSeq
<1>11. KeptSeq(v, up, k, R)
  <2>. SUFFICES ASSUME NEW p \in R, table[p[2]] = k, up PROVE \E j \in 1 .. Len(v) : p = Sub(v[j])
    BY DEF KeptSeq
  <2>1. CASE p = s
    <3>1. Len(u) + 1 \in 1 .. Len(v) /\ Sub(v[Len(u) + 1]) = s
      BY <1>5 DEF s
    <3>. QED  BY <2>1, <3>1
  <2>2. CASE p # s
    <3>1. PICK j \in 1 .. Len(u) : p = Sub(u[j])
      BY <1>1, <2>2 DEF KeptSeq
    <3>2. j \in 1 .. Len(v) /\ v[j] = u[j]
      BY <1>5
    <3>. QED  BY <3>1, <3>2
  <2>. QED  BY <2>1, <2>2
<1>12. Good(y)
  BY <1>2, ContextIsOne DEF Good
<1>13. Len(y.in) = n
  BY <1>2 DEF n
<1>14. QueuedSeq(All(y), Len(y.in), y.up, k, R) /\ KeptSeq(All(y), y.up, k, R)
  BY <1>2, <1>10, <1>11, <1>13 DEF v
<1>. HIDE DEF R
<1>15. Queued(y, k, R) /\ Kept(y, k, R)
  BY <1>12, <1>14, QueuedIs
<1>. QED  BY <1>15 DEF y, R, s

\* the first reply of context x of node k, that to p, is fetched
Fetched(x, y, k, P, p) ==
    /\ x \in Contexts /\ x.in # <<>> /\ y \in Contexts
    /\ All(y) = Tail(All(x)) /\ y.in = Tail(x.in) /\ y.up = x.up /\ Good(y)
    /\ P \in SUBSET Subs /\ p \in P /\ table[p[2]] = k
    /\ \A q \in P : q = p \/ Before(p, q)
    /\ Queued(x, k, P)

\* The first reply is that to the first of all that is pending.
LEMMA ReadQueued ==
    ASSUME NEW x, NEW y, NEW k, NEW P, NEW p, Fetched(x, y, k, P, p)
    PROVE  /\ Sub(All(x)[1]) = p
           /\ Queued(y, k, P \ {p})
           /\ Kept(x, k, P) => Kept(y, k, P \ {p})
<1>0. /\ x \in Contexts /\ x.in # <<>> /\ y \in Contexts
      /\ All(y) = Tail(All(x)) /\ y.in = Tail(x.in) /\ y.up = x.up /\ Good(y)
      /\ P \in SUBSET Subs /\ p \in P /\ table[p[2]] = k
      /\ \A q \in P : q = p \/ Before(p, q)
      /\ Queued(x, k, P)
  BY DEF Fetched
<1>. USE <1>0
<1>. DEFINE u == All(x)
            a == x.in
            n == Len(x.in)
            up == x.up
            v == All(y)
            R == P \ {p}
<1>1. QueuedSeq(u, n, up, k, P)
  BY QueuedIs
<1>2. u \in Seq(Sent \cup Replies) /\ a \in Seq(Replies) /\ u # <<>> /\ n \in Nat /\ Len(u) >= 1
  BY Parts, AllParts, Carried
<1>3. a # <<>> /\ v = Tail(u) /\ y.in = Tail(a) /\ n = Len(a)
  OBVIOUS
<1>4. \A q \in P : q \in Subs
  OBVIOUS
<1>. HIDE DEF u, a, n, up, v
<1>5. /\ n >= 1 /\ Len(y.in) = n - 1
      /\ Len(u) \in Nat /\ Len(u) >= 1 /\ Len(v) = Len(u) - 1
      /\ \A i \in 1 .. Len(v) : v[i] = u[i + 1]
  <2>1. Len(a) >= 1 /\ Len(Tail(a)) = Len(a) - 1
    <3>1. a \in Seq(Replies) /\ a # <<>>
      BY <1>2, <1>3
    <3>. QED  BY <3>1
  <2>2. /\ Len(u) \in Nat /\ Len(Tail(u)) = Len(u) - 1
        /\ \A i \in 1 .. Len(Tail(u)) : Tail(u)[i] = u[i + 1]
    <3>1. u \in Seq(Sent \cup Replies) /\ u # <<>>
      BY <1>2
    <3>. QED  BY <3>1
  <2>3. n >= 1 /\ Len(y.in) = n - 1
    BY <1>3, <2>1, Zenon
  <2>. QED  BY <1>2, <1>3, <2>2, <2>3
<1>6. Sub(u[1]) = p
  <2>1. 1 \in 1 .. Len(u) /\ 1 <= n
    BY <1>5
  <2>2. Sub(u[1]) \in P
    BY <1>1, <2>1 DEF QueuedSeq
  <2>. SUFFICES ASSUME Sub(u[1]) # p PROVE FALSE
    OBVIOUS
  <2>3. Before(p, Sub(u[1]))
    BY <2>2
  <2>4. \E j \in 1 .. 1 - 1 : Sub(u[j]) = p
    BY <1>1, <2>1, <2>3 DEF QueuedSeq
  <2>. QED  BY <2>4
<1>7. \A i \in 1 .. Len(v) : i + 1 \in 1 .. Len(u) /\ Sub(v[i]) = Sub(u[i + 1]) /\ Sub(v[i]) \in P /\ Sub(v[i]) # p
  <2>. SUFFICES ASSUME NEW i \in 1 .. Len(v)
                PROVE  i + 1 \in 1 .. Len(u) /\ Sub(v[i]) = Sub(u[i + 1]) /\ Sub(v[i]) \in P /\ Sub(v[i]) # p
    OBVIOUS
  <2>1. i + 1 \in 1 .. Len(u) /\ 1 \in 1 .. Len(u) /\ 1 < i + 1 /\ v[i] = u[i + 1]
    BY <1>5
  <2>2. Sub(u[i + 1]) \in P /\ Before(Sub(u[1]), Sub(u[i + 1]))
    BY <1>1, <2>1 DEF QueuedSeq
  <2>3. Sub(u[i + 1]) # p
    BY <1>4, <1>6, <2>2, Order
  <2>. QED  BY <2>1, <2>2, <2>3
<1>8. \A i \in 1 .. Len(v) : Sub(v[i]) \in R /\ table[v[i].slot] = k
  <2>. SUFFICES ASSUME NEW i \in 1 .. Len(v) PROVE Sub(v[i]) \in R /\ table[v[i].slot] = k
    OBVIOUS
  <2>1. v[i] = u[i + 1] /\ i + 1 \in 1 .. Len(u)
    BY <1>5, <1>7
  <2>2. table[u[i + 1].slot] = k
    BY <1>1, <2>1 DEF QueuedSeq
  <2>. QED  BY <1>7, <2>1, <2>2
<1>9. \A i, j \in 1 .. Len(v) : i < j => Before(Sub(v[i]), Sub(v[j]))
  <2>. SUFFICES ASSUME NEW i \in 1 .. Len(v), NEW j \in 1 .. Len(v), i < j
                PROVE  Before(Sub(v[i]), Sub(v[j]))
    OBVIOUS
  <2>1. /\ i + 1 \in 1 .. Len(u) /\ j + 1 \in 1 .. Len(u) /\ i + 1 < j + 1
        /\ Sub(v[i]) = Sub(u[i + 1]) /\ Sub(v[j]) = Sub(u[j + 1])
    BY <1>7
  <2>2. Before(Sub(u[i + 1]), Sub(u[j + 1]))
    BY <1>1, <2>1 DEF QueuedSeq
  <2>. QED  BY <2>1, <2>2
<1>10. ASSUME NEW i \in 1 .. Len(v), up \/ i <= n - 1, NEW q \in R, table[q[2]] = k, Before(q, Sub(v[i]))
       PROVE  \E j \in 1 .. i - 1 : Sub(v[j]) = q
  <2>1. i + 1 \in 1 .. Len(u) /\ (up \/ i + 1 <= n) /\ Sub(v[i]) = Sub(u[i + 1])
    BY <1>2, <1>7, <1>10
  <2>2. PICK j \in 1 .. (i + 1) - 1 : Sub(u[j]) = q
    BY <1>1, <1>10, <2>1 DEF QueuedSeq
  <2>3. j # 1
    BY <1>6, <2>2
  <2>4. j - 1 \in 1 .. i - 1 /\ j - 1 \in 1 .. Len(v) /\ (j - 1) + 1 = j
    BY <1>5, <2>2, <2>3
  <2>5. v[j - 1] = u[j]
    BY <1>5, <2>4
  <2>. QED  BY <2>2, <2>4, <2>5
<1>11. QueuedSeq(v, n - 1, up, k, R)
  BY <1>8, <1>9, <1>10 DEF QueuedSeq
<1>12. ASSUME KeptSeq(u, up, k, P)
       PROVE  KeptSeq(v, up, k, R)
  <2>. SUFFICES ASSUME NEW q \in R, table[q[2]] = k, up PROVE \E j \in 1 .. Len(v) : q = Sub(v[j])
    BY DEF KeptSeq
  <2>1. PICK j \in 1 .. Len(u) : q = Sub(u[j])
    BY <1>12 DEF KeptSeq
  <2>2. j # 1
    BY <1>6, <2>1
  <2>3. j - 1 \in 1 .. Len(v) /\ (j - 1) + 1 = j
    BY <1>5, <2>1, <2>2
  <2>4. v[j - 1] = u[j]
    BY <1>5, <2>3
  <2>. QED  BY <2>1, <2>3, <2>4
<1>13. QueuedSeq(All(y), Len(y.in), y.up, k, R)
  BY <1>5, <1>11 DEF v, up
<1>14. KeptSeq(u, up, k, P) => KeptSeq(All(y), y.up, k, R)
  BY <1>12 DEF v, up
<1>. HIDE DEF R
<1>15. Queued(y, k, R) /\ (Kept(x, k, P) => Kept(y, k, R))
  <2>1. Kept(x, k, P) => KeptSeq(u, up, k, P)
    BY QueuedIs DEF u, up
  <2>. QED  BY <1>13, <1>14, <2>1, QueuedIs
<1>. QED  BY <1>6, <1>15 DEF R, u

\* A context that drifts is as good as it was.
LEMMA DriftGood ==
    ASSUME NEW x \in Contexts \cup {NoCon}, NEW y, Drifts(x, y)
    PROVE  /\ Good(y) <=> Good(x)
           /\ y \in Contexts \cup {NoCon}
  BY ContextIsOne DEF Drifts, Good

\* A broken connection: what is left is in order.
LEMMA BrokenQueued ==
    ASSUME NEW x \in Contexts, NEW y \in Contexts, ~y.up, y.wire = <<>>, y.out = x.out, y.in \in {x.in, <<>>},
           NEW k, NEW P, Queued(x, k, P)
    PROVE  Queued(y, k, P)
<1>. DEFINE a == x.in
            b == x.wire
            d == x.out
            e == y.in
            u == All(x)
            v == All(y)
            up == x.up
<1>1. QueuedSeq(u, Len(a), up, k, P)
  BY QueuedIs
<1>2. /\ Len(a) \in Nat /\ Len(b) \in Nat /\ Len(d) \in Nat /\ Len(u) = Len(a) + Len(b) + Len(d)
      /\ \A i \in 1 .. Len(a) : u[i] = a[i]
      /\ \A i \in 1 .. Len(d) : u[Len(a) + Len(b) + i] = d[i]
  BY AllParts
<1>3. /\ Len(e) \in Nat /\ Len(v) = Len(e) + Len(d)
      /\ \A i \in 1 .. Len(e) : v[i] = e[i]
      /\ \A i \in 1 .. Len(d) : v[Len(e) + i] = d[i]
      /\ e = a \/ Len(e) = 0
  <2>. DEFINE w == y.wire
              f == y.out
  <2>1. /\ Len(e) \in Nat /\ Len(w) \in Nat /\ Len(f) \in Nat /\ Len(v) = Len(e) + Len(w) + Len(f)
        /\ \A i \in 1 .. Len(e) : v[i] = e[i]
        /\ \A i \in 1 .. Len(f) : v[Len(e) + Len(w) + i] = f[i]
    BY AllParts
  <2>2. w = <<>> /\ f = d /\ (e = a \/ e = <<>>)
    OBVIOUS
  <2>. HIDE DEF e, w, f, v, d, a
  <2>3. Len(w) = 0 /\ (e = a \/ Len(e) = 0)
    BY <2>2
  <2>4. Len(e) + 0 = Len(e) /\ \A i \in 1 .. Len(d) : Len(e) + 0 + i = Len(e) + i
    BY <2>1, <2>2
  <2>5. Len(v) = Len(e) + Len(d)
    BY <2>1, <2>2, <2>3
  <2>6. \A i \in 1 .. Len(d) : v[Len(e) + i] = d[i]
    BY <2>1, <2>2, <2>3
  <2>. QED  BY <2>1, <2>3, <2>5, <2>6
<1>. HIDE DEF a, b, d, e, u, v, up
<1>. DEFINE at(i) == IF i <= Len(e) THEN i ELSE (i - Len(e)) + Len(a) + Len(b)
<1>4. \A i \in 1 .. Len(v) : at(i) \in 1 .. Len(u) /\ v[i] = u[at(i)] /\ (i <= Len(e) => i <= Len(a) /\ at(i) = i)
  <2>. SUFFICES ASSUME NEW i \in 1 .. Len(v)
                PROVE  at(i) \in 1 .. Len(u) /\ v[i] = u[at(i)] /\ (i <= Len(e) => i <= Len(a) /\ at(i) = i)
    OBVIOUS
  <2>1. CASE i <= Len(e)
    <3>1. e = a /\ i \in 1 .. Len(e)
      BY <1>3, <2>1
    <3>2. i \in 1 .. Len(a) /\ at(i) = i /\ i \in 1 .. Len(u)
      BY <1>2, <3>1, <2>1
    <3>. QED  BY <1>2, <1>3, <3>1, <3>2
  <2>2. CASE i > Len(e)
    <3>. DEFINE n == i - Len(e)
    <3>1. n \in 1 .. Len(d) /\ i = Len(e) + n /\ at(i) = Len(a) + Len(b) + n
      BY <1>2, <1>3, <2>2
    <3>. HIDE DEF n
    <3>2. v[i] = d[n]
      BY <1>3, <3>1
    <3>3. u[at(i)] = d[n] /\ at(i) \in 1 .. Len(u)
      BY <1>2, <3>1
    <3>. QED  BY <1>3, <2>2, <3>2, <3>3
  <2>. QED  BY <1>3, <2>1, <2>2
<1>5. \A i, j \in 1 .. Len(v) : i < j => at(i) < at(j)
  <2>. SUFFICES ASSUME NEW i \in 1 .. Len(v), NEW j \in 1 .. Len(v), i < j PROVE at(i) < at(j)
    OBVIOUS
  <2>. DEFINE f == Len(e)
              g == Len(a)
              h == Len(b)
  <2>1. f \in Nat /\ g \in Nat /\ h \in Nat /\ i \in Nat /\ j \in Nat /\ (f = g \/ f = 0)
    BY <1>2, <1>3
  <2>2. /\ at(i) = IF i <= f THEN i ELSE (i - f) + g + h
        /\ at(j) = IF j <= f THEN j ELSE (j - f) + g + h
    OBVIOUS
  <2>. HIDE DEF f, g, h, at
  <2>. QED  BY <2>1, <2>2
<1>. HIDE DEF at
<1>6. \A i \in 1 .. Len(v) : Sub(v[i]) \in P /\ table[v[i].slot] = k
  BY <1>1, <1>4 DEF QueuedSeq
<1>7. \A i, j \in 1 .. Len(v) : i < j => Before(Sub(v[i]), Sub(v[j]))
  BY <1>1, <1>4, <1>5 DEF QueuedSeq
<1>8. ASSUME NEW i \in 1 .. Len(v), i <= Len(e), NEW p \in P, table[p[2]] = k, Before(p, Sub(v[i]))
      PROVE  \E j \in 1 .. i - 1 : Sub(v[j]) = p
  <2>1. at(i) = i /\ i \in 1 .. Len(u) /\ i <= Len(a) /\ v[i] = u[i]
    BY <1>4, <1>8
  <2>2. PICK j \in 1 .. i - 1 : Sub(u[j]) = p
    BY <1>1, <1>8, <2>1 DEF QueuedSeq
  <2>3. j \in 1 .. Len(v) /\ j <= Len(e)
    BY <1>3, <1>8, <2>2
  <2>4. v[j] = u[j]
    BY <1>4, <2>3
  <2>. QED  BY <2>2, <2>4
<1>9. QueuedSeq(v, Len(e), FALSE, k, P)
  BY <1>6, <1>7, <1>8 DEF QueuedSeq
<1>10. QueuedSeq(All(y), Len(y.in), y.up, k, P)
  <2>1. y.up = FALSE
    BY DEF Contexts
  <2>. QED  BY <1>9, <2>1, Zenon DEF v, e
<1>. QED  BY <1>10, QueuedIs

\* Drifting keeps a context in order.
LEMMA DriftQueued ==
    ASSUME NEW x \in Contexts \cup {NoCon}, NEW y, Drifts(x, y), NEW k, NEW P
    PROVE  /\ Good(x) /\ Queued(x, k, P) => Queued(y, k, P)
           /\ Kept(x, k, P) => Kept(y, k, P)
<1>1. CASE y = x
  BY <1>1
<1>2. CASE /\ x \in Contexts /\ y \in Contexts /\ y.err = x.err
           /\ ~y.up /\ y.wire = <<>> /\ y.out = x.out /\ y.in \in {x.in, <<>>}
  <2>1. Queued(x, k, P) => Queued(y, k, P)
    BY <1>2, BrokenQueued
  <2>2. Kept(x, k, P) => Kept(y, k, P)
    BY <1>2, ContextIsOne DEF Kept, Good
  <2>. QED  BY <2>1, <2>2
<1>3. CASE /\ x \in Contexts /\ y \in Contexts /\ y.err = x.err
           /\ x.up /\ y.up
           /\ Len(All(y)) = Len(All(x))
           /\ \A i \in 1 .. Len(All(x)) : All(y)[i].id = All(x)[i].id /\ All(y)[i].slot = All(x)[i].slot
  <2>. DEFINE u == All(x)
              v == All(y)
              m == Len(x.in)
              n == Len(y.in)
  <2>1. /\ Len(v) = Len(u)
        /\ \A i \in 1 .. Len(u) : Sub(v[i]) = Sub(u[i]) /\ v[i].slot = u[i].slot
    BY <1>3 DEF Sub
  <2>. HIDE DEF u, v, m, n
  <2>2. QueuedSeq(u, m, TRUE, k, P) => QueuedSeq(v, n, TRUE, k, P)
    <3>. SUFFICES ASSUME QueuedSeq(u, m, TRUE, k, P) PROVE QueuedSeq(v, n, TRUE, k, P)
      OBVIOUS
    <3>1. \A i \in 1 .. Len(v) : Sub(v[i]) \in P /\ table[v[i].slot] = k
      BY <2>1 DEF QueuedSeq
    <3>2. \A i, j \in 1 .. Len(v) : i < j => Before(Sub(v[i]), Sub(v[j]))
      BY <2>1 DEF QueuedSeq
    <3>3. ASSUME NEW i \in 1 .. Len(v), NEW p \in P, table[p[2]] = k, Before(p, Sub(v[i]))
          PROVE  \E j \in 1 .. i - 1 : Sub(v[j]) = p
      <4>1. PICK j \in 1 .. i - 1 : Sub(u[j]) = p
        BY <2>1, <3>3 DEF QueuedSeq
      <4>2. Len(u) \in Nat
        BY <1>3, AllParts DEF u
      <4>3. j \in 1 .. Len(u)
        BY <2>1, <4>1, <4>2
      <4>. QED  BY <2>1, <4>1, <4>3
    <3>. QED  BY <3>1, <3>2, <3>3 DEF QueuedSeq
  <2>3. KeptSeq(u, TRUE, k, P) => KeptSeq(v, TRUE, k, P)
    BY <2>1 DEF KeptSeq
  <2>4. x.up = TRUE /\ y.up = TRUE
    BY <1>3 DEF Contexts
  <2>5. Queued(x, k, P) => Queued(y, k, P)
    <3>1. Queued(x, k, P) => QueuedSeq(u, m, TRUE, k, P)
      BY <2>4, QueuedIs, Zenon DEF u, m
    <3>2. QueuedSeq(v, n, TRUE, k, P) => Queued(y, k, P)
      BY <2>4, QueuedIs, Zenon DEF v, n
    <3>. QED  BY <2>2, <3>1, <3>2
  <2>6. Kept(x, k, P) => Kept(y, k, P)
    <3>1. Kept(x, k, P) => KeptSeq(u, TRUE, k, P) /\ (Good(x) \/ \A p \in P : table[p[2]] # k)
      BY <2>4, QueuedIs, Zenon DEF u
    <3>2. KeptSeq(v, TRUE, k, P) /\ (Good(y) \/ \A p \in P : table[p[2]] # k) => Kept(y, k, P)
      BY <2>4, QueuedIs, Zenon DEF v
    <3>3. Good(y) <=> Good(x)
      BY DriftGood
    <3>. QED  BY <2>3, <3>1, <3>2, <3>3
  <2>. QED  BY <2>5, <2>6
<1>. QED  BY <1>1, <1>2, <1>3 DEF Drifts

\* What drifts carries no more than it did, and nothing else.
LEMMA DriftCarries ==
    ASSUME NEW x \in Contexts, NEW y, Drifts(x, y)
    PROVE  /\ y \in Contexts /\ Len(All(x)) \in Nat /\ Len(All(y)) \in Nat /\ Len(All(y)) <= Len(All(x))
           /\ \A i \in 1 .. Len(All(y)) : \E n \in 1 .. Len(All(x)) :
                 All(y)[i].id = All(x)[n].id /\ All(y)[i].slot = All(x)[n].slot
<1>1. y \in Contexts
  BY DEF Drifts
<1>2. Len(All(x)) \in Nat /\ Len(All(y)) \in Nat
  <2>1. \A z \in Contexts : Len(All(z)) \in Nat
    <3>. SUFFICES ASSUME NEW z \in Contexts PROVE Len(All(z)) \in Nat
      OBVIOUS
    <3>. DEFINE u == All(z)
    <3>1. u \in Seq(Sent \cup Replies)
      BY AllParts
    <3>. HIDE DEF u
    <3>2. Len(u) \in Nat
      BY <3>1
    <3>. QED  BY <3>2 DEF u
  <2>. QED  BY <1>1, <2>1
<1>3. CASE y = x \/ (/\ Len(All(y)) = Len(All(x))
                     /\ \A i \in 1 .. Len(All(x)) : All(y)[i].id = All(x)[i].id /\ All(y)[i].slot = All(x)[i].slot)
  BY <1>1, <1>2, <1>3
<1>4. CASE y.wire = <<>> /\ y.out = x.out /\ y.in \in {x.in, <<>>}
  <2>. DEFINE a == x.in
              b == x.wire
              d == x.out
              e == y.in
              u == All(x)
              v == All(y)
              w == y.wire
              f == y.out
  <2>1. /\ Len(a) \in Nat /\ Len(b) \in Nat /\ Len(d) \in Nat /\ Len(u) = Len(a) + Len(b) + Len(d)
        /\ \A i \in 1 .. Len(a) : u[i] = a[i]
        /\ \A i \in 1 .. Len(d) : u[Len(a) + Len(b) + i] = d[i]
    BY AllParts
  <2>2. /\ Len(e) \in Nat /\ Len(w) \in Nat /\ Len(f) \in Nat /\ Len(v) = Len(e) + Len(w) + Len(f)
        /\ \A i \in 1 .. Len(e) : v[i] = e[i]
        /\ \A i \in 1 .. Len(f) : v[Len(e) + Len(w) + i] = f[i]
    BY <1>1, AllParts
  <2>3. w = <<>> /\ f = d /\ (e = a \/ e = <<>>)
    BY <1>4
  <2>. HIDE DEF a, b, d, e, u, v, w, f
  <2>4. Len(w) = 0 /\ (e = a \/ Len(e) = 0)
    BY <2>3
  <2>5. Len(v) = Len(e) + Len(d) /\ \A i \in 1 .. Len(d) : v[Len(e) + i] = d[i]
    BY <2>2, <2>3, <2>4
  <2>6. Len(v) <= Len(u)
    BY <2>1, <2>2, <2>4, <2>5
  <2>7. \A i \in 1 .. Len(v) : \E n \in 1 .. Len(u) : v[i] = u[n]
    <3>. SUFFICES ASSUME NEW i \in 1 .. Len(v) PROVE \E n \in 1 .. Len(u) : v[i] = u[n]
      OBVIOUS
    <3>1. CASE i <= Len(e)
      <4>1. e = a /\ i \in 1 .. Len(e)
        BY <2>2, <2>4, <3>1
      <4>2. i \in 1 .. Len(u) /\ v[i] = u[i]
        BY <2>1, <2>2, <4>1
      <4>. QED  BY <4>2
    <3>2. CASE i > Len(e)
      <4>. DEFINE n == i - Len(e)
      <4>1. n \in 1 .. Len(d) /\ i = Len(e) + n
        BY <2>1, <2>2, <2>5, <3>2
      <4>. HIDE DEF n
      <4>2. v[i] = d[n] /\ u[Len(a) + Len(b) + n] = d[n] /\ Len(a) + Len(b) + n \in 1 .. Len(u)
        BY <2>1, <2>5, <4>1
      <4>. QED  BY <4>2
    <3>. QED  BY <2>2, <3>1, <3>2
  <2>8. \A i \in 1 .. Len(v) : \E n \in 1 .. Len(u) : v[i].id = u[n].id /\ v[i].slot = u[n].slot
    BY <2>7
  <2>. QED  BY <1>1, <1>2, <2>6, <2>8 DEF u, v
<1>. QED  BY <1>3, <1>4 DEF Drifts

\* What the invariant says of a command that is being made.
LEMMA DuringWork ==
    ASSUME HirInv
    PROVE  /\ Types /\ OnceNow /\ Wires /\ StaticType /\ con \in Connections /\ LaterFresh
           /\ pc \in Working =>
                 /\ cur \in Jobs /\ cur.id \in 1 .. calls /\ cur.id \in 1 .. MaxCalls
                 /\ cur.todo \in Seq(Slots) /\ cur.got \in Seq(Sent \cup Replies)
                 /\ Increasing(cur.todo) /\ Len(cur.got) < Len(cur.todo)
                 /\ Len(cur.got) \in Nat /\ Len(cur.todo) \in Nat
                 /\ AtSlot \in Slots /\ AtSlot = cur.todo[Len(cur.got) + 1]
                 /\ This \in Sent /\ This.t = "cmd" /\ This.id = cur.id /\ This.slot = AtSlot
                 /\ \A n \in 1 .. Len(cur.todo) : cur.todo[n] \in Slots
                 /\ Matched(cur.id, cur.todo, cur.got)
<1>1. Types /\ OnceNow /\ Wires /\ StaticType /\ con \in Connections /\ LaterFresh
  <2>1. Types /\ OnceNow /\ LaterFresh
    BY DEF HirInv, OnceNow, Unsent, LaterFresh
  <2>. QED  BY <2>1, TypesAre DEF Wires
<1>2. ASSUME pc \in Working
      PROVE  /\ cur \in Jobs /\ cur.id \in 1 .. calls /\ cur.id \in 1 .. MaxCalls
             /\ Increasing(cur.todo) /\ Len(cur.got) < Len(cur.todo)
             /\ cur.todo \in Seq(Slots) /\ cur.got \in Seq(Sent \cup Replies)
             /\ Matched(cur.id, cur.todo, cur.got)
  <2>1. /\ cur \in Jobs /\ cur.id \in 1 .. calls /\ cur.id \in 1 .. MaxCalls
        /\ Increasing(cur.todo) /\ Len(cur.got) < Len(cur.todo)
    BY <1>1, <1>2, Constants DEF Types, CallType
  <2>. QED  BY <1>2, <2>1 DEF Jobs, HirInv, Collecting
<1>3. ASSUME pc \in Working
      PROVE  /\ Len(cur.got) \in Nat /\ Len(cur.todo) \in Nat
             /\ AtSlot \in Slots /\ AtSlot = cur.todo[Len(cur.got) + 1]
             /\ This \in Sent /\ This.t = "cmd" /\ This.id = cur.id /\ This.slot = AtSlot
             /\ \A n \in 1 .. Len(cur.todo) : cur.todo[n] \in Slots
  <2>. DEFINE u == cur.todo
              g == cur.got
  <2>1. u \in Seq(Slots) /\ g \in Seq(Sent \cup Replies) /\ Len(g) < Len(u)
    BY <1>2, <1>3
  <2>. HIDE DEF u, g
  <2>2. Len(g) \in Nat /\ Len(u) \in Nat /\ u[Len(g) + 1] \in Slots /\ \A n \in 1 .. Len(u) : u[n] \in Slots
    BY <2>1
  <2>3. AtSlot = u[Len(g) + 1]
    BY DEF AtSlot, u, g
  <2>4. This \in Sent /\ This.t = "cmd" /\ This.id = cur.id /\ This.slot = AtSlot
    BY <1>2, <1>3, <2>2, <2>3, MessageTypes DEF This
  <2>. QED  BY <2>2, <2>3, <2>4 DEF u, g
<1>. QED  BY <1>1, <1>2, <1>3

\* The pipeline in the next state, when the table is the same and P is pending.
LEMMA PipelineThen ==
    ASSUME table' = table, NEW P, Pending' = P,
           \A k \in Keys : /\ Good(con'[k]) => Queued(con'[k], k, P)
                           /\ ~draining' => Kept(con'[k], k, P)
    PROVE  Pipeline'
  BY DEF Pipeline, Queued, Kept

\* What happens without the client, and writing, leaves its state alone.
LEMMA DriftStays ==
    ASSUME HirInv, Write \/ environment
    PROVE  StaticType' /\ UNCHANGED <<route, err, pipe, control, answer, calls>>
<1>1. StaticType
  BY DuringWork
<1>2. CASE Write \/ Serve \/ ServeLate \/ Break
  <2>1. UNCHANGED <<server, route, err, pipe, control, answer, calls>>
    BY <1>2 DEF Write, Serve, ServeLate, Break, bounds
  <2>. QED  BY <1>1, <2>1, SameStatic
<1>3. CASE Crash
  <2>1. UNCHANGED <<view, mig, route, err, pipe, control, answer, calls>> /\ alive' \subseteq alive
    BY <1>3 DEF Crash
  <2>. QED  BY <1>1, <2>1 DEF StaticType, route
<1>4. CASE Restart
  <2>1. UNCHANGED <<view, mig, route, err, pipe, control, answer, calls>> /\ alive' \subseteq alive \cup Addrs
    BY <1>4 DEF Restart, bounds
  <2>. QED  BY <1>1, <2>1 DEF StaticType, route
<1>5. CASE Migrate
  <2>1. UNCHANGED <<alive, view, route, err, pipe, control, answer, calls>>
    BY <1>5 DEF Migrate
  <2>2. mig' \in [Slots -> Addrs \cup {None}]
    BY <1>1, <1>5 DEF Migrate, StaticType
  <2>. QED  BY <1>1, <2>1, <2>2 DEF StaticType, route
<1>6. CASE Migrated
  <2>1. UNCHANGED <<alive, mig, route, err, pipe, control, answer, calls>>
    BY <1>6 DEF Migrated, bounds
  <2>2. PICK s \in Slots : mig[s] # None /\ view' = [view EXCEPT ![mig[s]][s] = mig[s]]
    BY <1>6 DEF Migrated
  <2>3. mig[s] \in Addrs
    BY <1>1, <2>2 DEF StaticType
  <2>4. view' \in [Addrs -> [Slots -> Addrs]]
    BY <1>1, <2>2, <2>3 DEF StaticType
  <2>. QED  BY <1>1, <2>1, <2>4 DEF StaticType, route
<1>7. CASE Gossip
  <2>1. UNCHANGED <<alive, route, err, pipe, control, answer, calls>>
    BY <1>7 DEF Gossip, bounds
  <2>2. PICK a \in Addrs, b \in Addrs, s \in Slots :
           /\ view' = [view EXCEPT ![a][s] = b]
           /\ mig' = IF \A x \in Addrs : view'[x][s] = b THEN [mig EXCEPT ![s] = None] ELSE mig
    BY <1>7 DEF Gossip
  <2>3. view' \in [Addrs -> [Slots -> Addrs]]
    BY <1>1, <2>2 DEF StaticType
  <2>4. mig' \in [Slots -> Addrs \cup {None}]
    BY <1>1, <2>2 DEF StaticType
  <2>. QED  BY <1>1, <2>1, <2>3, <2>4 DEF StaticType, route
<1>. QED  BY <1>2, <1>3, <1>4, <1>5, <1>6, <1>7 DEF environment

\* It keeps the invariant.
LEMMA DriftKeeps == ASSUME HirInv, Write \/ environment PROVE HirInv'
<1>1. StaticType' /\ UNCHANGED <<route, err, pipe, control, answer, calls>>
  BY DriftStays
<1>2. /\ UNCHANGED <<table, err, requests, piping, draining, pc, cur, c, answer, calls>>
  BY <1>1 DEF route, pipe, control
<1>3. /\ Types /\ OnceNow /\ con \in Connections /\ Control /\ (Waiting => c \in Keys /\ Good(con[c]))
  BY DuringWork DEF HirInv, Control
<1>4. Wires' /\ AllStayFresh /\ NewReplies /\ \A k \in Keys : Drifts(con[k], con'[k])
  BY <1>3, DriftWires
<1>5. \A k \in Keys : con[k] \in Contexts \cup {NoCon}
  BY <1>3 DEF Connections
<1>6. \A k \in Keys : Good(con'[k]) <=> Good(con[k])
  BY <1>4, <1>5, DriftGood
<1>7. Types' /\ OnceNow'
  <2>1. CallType
    BY <1>3 DEF Types
  <2>2. CallType'
    BY <1>2, <2>1 DEF CallType, Increasing
  <2>. QED  BY <1>1, <1>4, <2>2, TypesAre
<1>8. Waiting' = Waiting /\ AtSlot' = AtSlot /\ Pending' = Pending
  BY <1>2 DEF Waiting, AtSlot, Pending
<1>9. Control'
  <2>1. Waiting' => c' \in Keys /\ Good(con'[c'])
    BY <1>2, <1>3, <1>6, <1>8
  <2>. QED  BY <1>2, <1>3, <1>8, <2>1 DEF Control
<1>10. Unsent'
  <2>1. LaterFresh'
    <3>1. LaterFresh /\ calls \in 0 .. MaxCalls
      BY <1>3, DuringWork DEF Types, CallType
    <3>. QED  BY <1>2, <1>4, <3>1, Constants DEF LaterFresh, AllStayFresh, StaysFresh
  <2>2. ASSUME pc \in Calling \cup {"append"}, NEW n \in Len(cur.got) + 1 .. Len(cur.todo),
               ~(pc = "reply" /\ n = Len(cur.got) + 1)
        PROVE  Fresh(cur.id, cur.todo[n])'
    <3>1. Fresh(cur.id, cur.todo[n])
      BY <2>2 DEF HirInv, Unsent
    <3>2. pc \in Working
      BY <2>2 DEF Working
    <3>3. cur.id \in 1 .. MaxCalls /\ cur.todo[n] \in Slots
      BY <3>2, DuringWork
    <3>. QED  BY <1>2, <1>4, <3>1, <3>3 DEF AllStayFresh, StaysFresh
  <2>. QED  BY <1>2, <2>1, <2>2 DEF Unsent, LaterFresh
<1>11. Quiet'
  <2>. SUFFICES ASSUME ~piping' \/ pc' = "reset", NEW k \in Keys, Good(con'[k]), ~(Waiting' /\ k = c')
                PROVE  Empty(con'[k])
    BY DEF Quiet
  <2>1. Good(con[k]) /\ con[k] \in Contexts /\ Empty(con[k])
    BY <1>2, <1>5, <1>6, <1>8 DEF HirInv, Quiet, Good
  <2>2. Drifts(con[k], con'[k])
    BY <1>4
  <2>3. /\ con'[k] \in Contexts /\ Len(All(con[k])) \in Nat /\ Len(All(con'[k])) \in Nat
        /\ Len(All(con'[k])) <= Len(All(con[k]))
    BY <2>1, <2>2, DriftCarries
  <2>4. Len(All(con[k])) = 0
    BY <2>1, Carried
  <2>5. Len(All(con'[k])) = 0
    BY <2>3, <2>4
  <2>. QED  BY <2>3, <2>5, Carried
<1>12. Awaited'
  <2>. SUFFICES ASSUME Waiting, ~piping
                PROVE  /\ Len(All(con'[c])) <= 1
                       /\ pc = "reply" => \A i \in 1 .. Len(All(con'[c])) :
                             /\ All(con'[c])[i].id = cur.id
                             /\ All(con'[c])[i].slot = AtSlot
                       /\ pc = "reply" => \A i \in 1 .. Len(con'[c].in) :
                             con'[c].in[i].t \in Redirects => Clear(con', orphans', executed', cur.id, AtSlot)
    BY <1>2, <1>8 DEF Awaited, Fresh
  <2>1. /\ Len(All(con[c])) <= 1
        /\ pc = "reply" => \A i \in 1 .. Len(All(con[c])) :
              /\ All(con[c])[i].id = cur.id
              /\ All(con[c])[i].slot = AtSlot
        /\ pc = "reply" => \A i \in 1 .. Len(con[c].in) :
              con[c].in[i].t \in Redirects => Fresh(cur.id, AtSlot)
    BY DEF HirInv, Awaited
  <2>2. c \in Keys /\ con[c] \in Contexts /\ Drifts(con[c], con'[c]) /\ con[c] # NoCon
    BY <1>3, <1>4, <1>5 DEF Good
  <2>3. /\ con'[c] \in Contexts /\ Len(All(con[c])) \in Nat /\ Len(All(con'[c])) \in Nat
        /\ Len(All(con'[c])) <= Len(All(con[c]))
        /\ \A i \in 1 .. Len(All(con'[c])) : \E n \in 1 .. Len(All(con[c])) :
              All(con'[c])[i].id = All(con[c])[n].id /\ All(con'[c])[i].slot = All(con[c])[n].slot
    BY <2>2, DriftCarries
  <2>4. Len(All(con'[c])) <= 1
    BY <2>1, <2>3
  <2>5. pc = "reply" => \A i \in 1 .. Len(All(con'[c])) :
           /\ All(con'[c])[i].id = cur.id
           /\ All(con'[c])[i].slot = AtSlot
    BY <2>1, <2>3
  <2>6. ASSUME pc = "reply", NEW i \in 1 .. Len(con'[c].in), con'[c].in[i].t \in Redirects
        PROVE  Clear(con', orphans', executed', cur.id, AtSlot)
    <3>1. cur.id \in 1 .. MaxCalls /\ AtSlot \in Slots
      BY <2>6, DuringWork DEF Working, Calling
    <3>2. con'[c] # NoCon
      BY <2>3, ContextIsOne
    <3>3. CASE i <= Len(con[c].in) /\ con'[c].in[i] = con[c].in[i]
      <4>1. i \in 1 .. Len(con[c].in)
        <5>1. Len(con[c].in) \in Nat /\ i \in Nat /\ i >= 1
          BY <2>2, AllParts
        <5>. QED  BY <3>3, <5>1
      <4>2. Fresh(cur.id, AtSlot)
        BY <2>1, <2>6, <3>3, <4>1
      <4>. QED  BY <1>4, <3>1, <4>2 DEF AllStayFresh, StaysFresh, Fresh
    <3>4. CASE Clear(con', orphans', executed', con'[c].in[i].id, con'[c].in[i].slot)
      <4>1. All(con'[c])[i] = con'[c].in[i] /\ i \in 1 .. Len(All(con'[c]))
        <5>. DEFINE a == con'[c].in
                    b == con'[c].wire
                    d == con'[c].out
                    u == All(con'[c])
        <5>1. /\ Len(a) \in Nat /\ Len(b) \in Nat /\ Len(d) \in Nat /\ Len(u) = Len(a) + Len(b) + Len(d)
              /\ \A j \in 1 .. Len(a) : u[j] = a[j]
              /\ i \in 1 .. Len(a)
          BY <2>3, AllParts
        <5>. HIDE DEF a, b, d, u
        <5>2. u[i] = a[i] /\ i \in 1 .. Len(u)
          BY <5>1
        <5>. QED  BY <5>2 DEF a, u
      <4>2. con'[c].in[i].id = cur.id /\ con'[c].in[i].slot = AtSlot
        BY <2>5, <2>6, <4>1
      <4>. QED  BY <3>4, <4>2, Zenon
    <3>. QED  BY <1>4, <2>2, <2>6, <3>2, <3>3, <3>4 DEF NewReplies
  <2>. QED  BY <2>4, <2>5, <2>6
<1>13. Collecting' /\ Given'
  <2>1. Given'
    BY <1>2, SameAnswer DEF HirInv
  <2>2. Collecting'
    BY <1>2 DEF HirInv, Collecting, Matched
  <2>. QED  BY <2>1, <2>2
<1>14. Pipeline'
  <2>1. CASE piping /\ ~err /\ pc # "reset"
    <3>1. \A k \in Keys : /\ Good(con[k]) => Queued(con[k], k, Pending)
                          /\ ~draining => Kept(con[k], k, Pending)
      BY <2>1 DEF HirInv, Pipeline
    <3>2. \A k \in Keys : /\ Good(con'[k]) => Queued(con'[k], k, Pending)
                          /\ ~draining' => Kept(con'[k], k, Pending)
      BY <1>2, <1>4, <1>5, <1>6, <3>1, DriftQueued
    <3>. QED  BY <1>2, <1>8, <3>2, PipelineThen
  <2>2. CASE ~(piping /\ ~err /\ pc # "reset")
    BY <1>2, <2>2 DEF Pipeline
  <2>. QED  BY <2>1, <2>2
<1>. QED  BY <1>7, <1>9, <1>10, <1>11, <1>12, <1>13, <1>14 DEF HirInv, OnceNow

-----------------------------------------------------------------------------
(***************************************************************************)
(* What is pending.                                                        *)
(***************************************************************************)

\* the sub-commands a to b of a command, and those of a sequence of commands
PartOf(id, u, a, b) == {p \in Subs : p[1] = id /\ \E n \in a .. b : p[2] = u[n]}
Listed(rs) == {p \in Subs : \E j \in 1 .. Len(rs) : p[1] = rs[j].id /\ \E n \in 1 .. Len(rs[j].todo) : p[2] = rs[j].todo[n]}

\* What is pending, by the state of the client.
LEMMA PendingIs ==
    /\ Pending = Listed(requests) \cup
                 (IF pc \in Fetching THEN PartOf(cur.id, cur.todo, Len(cur.got) + 1, Len(cur.todo)) ELSE {}) \cup
                 (IF pc = "append" THEN PartOf(cur.id, cur.todo, 1, Len(cur.got)) ELSE {})
    /\ Pending' = Listed(requests') \cup
                 (IF pc' \in Fetching THEN PartOf(cur'.id, cur'.todo, Len(cur'.got) + 1, Len(cur'.todo)) ELSE {}) \cup
                 (IF pc' = "append" THEN PartOf(cur'.id, cur'.todo, 1, Len(cur'.got)) ELSE {})
<1>1. Pending = Listed(requests) \cup
                 (IF pc \in Fetching THEN PartOf(cur.id, cur.todo, Len(cur.got) + 1, Len(cur.todo)) ELSE {}) \cup
                 (IF pc = "append" THEN PartOf(cur.id, cur.todo, 1, Len(cur.got)) ELSE {})
  BY Zenon DEF Pending, Listed, PartOf, Subs
<1>2. Pending' = Listed(requests') \cup
                 (IF pc' \in Fetching THEN PartOf(cur'.id, cur'.todo, Len(cur'.got) + 1, Len(cur'.todo)) ELSE {}) \cup
                 (IF pc' = "append" THEN PartOf(cur'.id, cur'.todo, 1, Len(cur'.got)) ELSE {})
  BY Zenon DEF Pending, Listed, PartOf, Subs
<1>. QED  BY <1>1, <1>2

\* Parts of a command.
LEMMA PartsOf ==
    ASSUME NEW id \in 1 .. MaxCalls, NEW u \in Seq(Slots), Increasing(u), NEW a \in Nat
    PROVE  /\ PartOf(id, u, 1, 0) = {} /\ (a >= Len(u) => PartOf(id, u, a + 1, Len(u)) = {})
           /\ a < Len(u) =>
                 LET p == <<id, u[a + 1]>>
                 IN  /\ p \in Subs
                     /\ PartOf(id, u, 1, a + 1) = PartOf(id, u, 1, a) \cup {p}
                     /\ PartOf(id, u, a + 1, Len(u)) = PartOf(id, u, a + 2, Len(u)) \cup {p}
                     /\ \A q \in PartOf(id, u, 1, a) : Before(q, p)
                     /\ \A q \in PartOf(id, u, a + 2, Len(u)) : Before(p, q)
<1>1. Len(u) \in Nat /\ Slots \subseteq Nat
  BY Constants
<1>2. PartOf(id, u, 1, 0) = {} /\ (a >= Len(u) => PartOf(id, u, a + 1, Len(u)) = {})
  BY <1>1 DEF PartOf
<1>3. ASSUME a < Len(u)
      PROVE  LET p == <<id, u[a + 1]>>
             IN  /\ p \in Subs
                 /\ PartOf(id, u, 1, a + 1) = PartOf(id, u, 1, a) \cup {p}
                 /\ PartOf(id, u, a + 1, Len(u)) = PartOf(id, u, a + 2, Len(u)) \cup {p}
                 /\ \A q \in PartOf(id, u, 1, a) : Before(q, p)
                 /\ \A q \in PartOf(id, u, a + 2, Len(u)) : Before(p, q)
  <2>. DEFINE s == u[a + 1]
              p == <<id, s>>
  <2>1. a + 1 \in 1 .. Len(u) /\ s \in Slots
    BY <1>1, <1>3
  <2>2. p \in Subs /\ p[1] = id /\ p[2] = s
    BY <2>1 DEF Subs
  <2>3. \A q \in Subs : q[1] = id /\ q[2] = s => q = p
    BY DEF Subs
  <2>4. PartOf(id, u, 1, a + 1) = PartOf(id, u, 1, a) \cup {p}
    <3>1. \A n : n \in 1 .. a + 1 <=> n \in 1 .. a \/ n = a + 1
      BY <1>1
    <3>2. ASSUME NEW q \in Subs
          PROVE  q \in PartOf(id, u, 1, a + 1) <=> q \in PartOf(id, u, 1, a) \/ q = p
      <4>1. (\E n \in 1 .. a + 1 : q[2] = u[n]) <=> (\E n \in 1 .. a : q[2] = u[n]) \/ q[2] = s
        BY <3>1, Zenon DEF s
      <4>. QED  BY <2>2, <2>3, <4>1, Zenon DEF PartOf
    <3>. QED  BY <2>2, <3>2 DEF PartOf
  <2>5. PartOf(id, u, a + 1, Len(u)) = PartOf(id, u, a + 2, Len(u)) \cup {p}
    <3>1. \A n : n \in a + 1 .. Len(u) <=> n \in a + 2 .. Len(u) \/ n = a + 1
      BY <1>1, <2>1
    <3>2. ASSUME NEW q \in Subs
          PROVE  q \in PartOf(id, u, a + 1, Len(u)) <=> q \in PartOf(id, u, a + 2, Len(u)) \/ q = p
      <4>1. (\E n \in a + 1 .. Len(u) : q[2] = u[n]) <=> (\E n \in a + 2 .. Len(u) : q[2] = u[n]) \/ q[2] = s
        BY <3>1, Zenon DEF s
      <4>. QED  BY <2>2, <2>3, <4>1, Zenon DEF PartOf
    <3>. QED  BY <2>2, <3>2 DEF PartOf
  <2>6. ASSUME NEW q \in PartOf(id, u, 1, a) PROVE Before(q, p)
    <3>1. PICK n \in 1 .. a : q[2] = u[n]
      BY DEF PartOf
    <3>2. n \in 1 .. Len(u) /\ n < a + 1
      BY <1>1, <1>3
    <3>3. u[n] < u[a + 1]
      BY <2>1, <3>2 DEF Increasing
    <3>. QED  BY <2>2, <3>1, <3>3 DEF Before, PartOf
  <2>7. ASSUME NEW q \in PartOf(id, u, a + 2, Len(u)) PROVE Before(p, q)
    <3>1. PICK n \in a + 2 .. Len(u) : q[2] = u[n]
      BY DEF PartOf
    <3>2. n \in 1 .. Len(u) /\ a + 1 < n
      BY <1>1, <1>3
    <3>3. u[a + 1] < u[n]
      BY <2>1, <3>2 DEF Increasing
    <3>. QED  BY <2>2, <3>1, <3>3 DEF Before, PartOf
  <2>. QED  BY <2>2, <2>4, <2>5, <2>6, <2>7
<1>. QED  BY <1>2, <1>3

\* The sequence of requests: the first one taken, and a last one added.
LEMMA ListedIs ==
    ASSUME NEW rs \in Seq(Jobs)
    PROVE  /\ rs = <<>> => Listed(rs) = {}
           /\ rs # <<>> => /\ Head(rs) \in Jobs /\ Tail(rs) \in Seq(Jobs) /\ Len(Tail(rs)) = Len(rs) - 1
                           /\ Head(rs) = rs[1] /\ 1 \in 1 .. Len(rs)
                           /\ \A j \in 1 .. Len(Tail(rs)) : Tail(rs)[j] = rs[j + 1] /\ j + 1 \in 1 .. Len(rs)
                           /\ Listed(rs) = Listed(Tail(rs)) \cup PartOf(rs[1].id, rs[1].todo, 1, Len(rs[1].todo))
           /\ \A q \in Jobs : /\ Append(rs, q) \in Seq(Jobs) /\ Len(Append(rs, q)) = Len(rs) + 1
                              /\ \A j \in 1 .. Len(rs) : Append(rs, q)[j] = rs[j]
                              /\ Append(rs, q)[Len(rs) + 1] = q
                              /\ Listed(Append(rs, q)) = Listed(rs) \cup PartOf(q.id, q.todo, 1, Len(q.todo))
<1>. DEFINE In(p, j) == p[1] = j.id /\ \E n \in 1 .. Len(j.todo) : p[2] = j.todo[n]
<1>1. \A w : Listed(w) = {p \in Subs : \E j \in 1 .. Len(w) : In(p, w[j])}
  BY Zenon DEF Listed
<1>2. \A q : PartOf(q.id, q.todo, 1, Len(q.todo)) = {p \in Subs : In(p, q)}
  BY Zenon DEF PartOf
<1>. HIDE DEF In
<1>3. Len(rs) \in Nat
  OBVIOUS
<1>4. rs = <<>> => Listed(rs) = {}
  BY <1>1
<1>5. ASSUME rs # <<>>
      PROVE  /\ Head(rs) \in Jobs /\ Tail(rs) \in Seq(Jobs) /\ Len(Tail(rs)) = Len(rs) - 1
             /\ Head(rs) = rs[1] /\ 1 \in 1 .. Len(rs)
             /\ \A j \in 1 .. Len(Tail(rs)) : Tail(rs)[j] = rs[j + 1] /\ j + 1 \in 1 .. Len(rs)
             /\ Listed(rs) = Listed(Tail(rs)) \cup PartOf(rs[1].id, rs[1].todo, 1, Len(rs[1].todo))
  <2>. DEFINE t == Tail(rs)
  <2>1. Head(rs) \in Jobs /\ t \in Seq(Jobs) /\ Len(t) = Len(rs) - 1 /\ Head(rs) = rs[1] /\ 1 \in 1 .. Len(rs)
    BY <1>3, <1>5
  <2>2. \A j \in 1 .. Len(t) : t[j] = rs[j + 1] /\ j + 1 \in 1 .. Len(rs)
    BY <1>3, <1>5, <2>1
  <2>. HIDE DEF t
  <2>3. ASSUME NEW p PROVE (\E j \in 1 .. Len(rs) : In(p, rs[j])) <=> (\E j \in 1 .. Len(t) : In(p, t[j])) \/ In(p, rs[1])
    <3>1. ASSUME NEW j \in 1 .. Len(rs), In(p, rs[j]) PROVE (\E i \in 1 .. Len(t) : In(p, t[i])) \/ In(p, rs[1])
      <4>1. CASE j = 1
        BY <3>1, <4>1
      <4>2. CASE j # 1
        <5>. DEFINE i == j - 1
        <5>1. i \in 1 .. Len(t) /\ i + 1 = j
          BY <1>3, <2>1, <4>2
        <5>2. t[i] = rs[j]
          BY <2>2, <5>1
        <5>. HIDE DEF i
        <5>. QED  BY <3>1, <5>1, <5>2
      <4>. QED  BY <4>1, <4>2
    <3>2. ASSUME NEW j \in 1 .. Len(t), In(p, t[j]) PROVE \E i \in 1 .. Len(rs) : In(p, rs[i])
      BY <2>2, <3>2
    <3>. QED  BY <2>1, <3>1, <3>2
  <2>4. Listed(rs) = Listed(t) \cup PartOf(rs[1].id, rs[1].todo, 1, Len(rs[1].todo))
    BY <1>1, <1>2, <2>3
  <2>. QED  BY <2>1, <2>2, <2>4 DEF t
<1>6. ASSUME NEW q \in Jobs
      PROVE  /\ Append(rs, q) \in Seq(Jobs) /\ Len(Append(rs, q)) = Len(rs) + 1
             /\ \A j \in 1 .. Len(rs) : Append(rs, q)[j] = rs[j]
             /\ Append(rs, q)[Len(rs) + 1] = q
             /\ Listed(Append(rs, q)) = Listed(rs) \cup PartOf(q.id, q.todo, 1, Len(q.todo))
  <2>. DEFINE w == Append(rs, q)
  <2>1. /\ w \in Seq(Jobs) /\ Len(w) = Len(rs) + 1 /\ w[Len(rs) + 1] = q
        /\ \A j \in 1 .. Len(rs) : w[j] = rs[j]
    OBVIOUS
  <2>. HIDE DEF w
  <2>2. ASSUME NEW p PROVE (\E j \in 1 .. Len(w) : In(p, w[j])) <=> (\E j \in 1 .. Len(rs) : In(p, rs[j])) \/ In(p, q)
    <3>1. \A j : j \in 1 .. Len(w) <=> j \in 1 .. Len(rs) \/ j = Len(rs) + 1
      BY <1>3, <2>1
    <3>. QED  BY <2>1, <3>1, Zenon
  <2>3. Listed(w) = Listed(rs) \cup PartOf(q.id, q.todo, 1, Len(q.todo))
    BY <1>1, <1>2, <2>2
  <2>. QED  BY <2>1, <2>3 DEF w
<1>. QED  BY <1>4, <1>5, <1>6

\* the type of the requests, and their order
RequestsType ==
    /\ requests \in Seq(Jobs)
    /\ \A j \in 1 .. Len(requests) :
          /\ requests[j].id \in 1 .. calls
          /\ Increasing(requests[j].todo)
          /\ requests[j].todo # <<>>
          /\ requests[j].got = <<>>
    /\ \A i, j \in 1 .. Len(requests) : i < j => requests[i].id < requests[j].id

\* Requests that stay, or of which the first one is taken.
LEMMA RequestsStay ==
    ASSUME Types, calls' \in 0 .. MaxCalls, calls' >= calls
    PROVE  /\ RequestsType
           /\ requests' = requests => RequestsType'
           /\ requests # <<>> /\ requests' = Tail(requests) =>
                 /\ RequestsType'
                 /\ \A j \in 1 .. Len(requests') : Head(requests).id < requests'[j].id
<1>1. RequestsType /\ calls \in 0 .. MaxCalls /\ MaxCalls \in Nat
  BY Constants DEF Types, CallType, RequestsType
<1>2. \A i \in 1 .. calls : i \in 1 .. calls'
  BY <1>1
<1>3. requests' = requests => RequestsType'
  BY <1>1, <1>2 DEF RequestsType
<1>4. ASSUME requests # <<>>, requests' = Tail(requests)
      PROVE  /\ RequestsType'
             /\ \A j \in 1 .. Len(requests') : Head(requests).id < requests'[j].id
  <2>1. requests \in Seq(Jobs)
    BY <1>1 DEF RequestsType
  <2>2. /\ requests' \in Seq(Jobs) /\ Head(requests) = requests[1] /\ 1 \in 1 .. Len(requests)
        /\ \A j \in 1 .. Len(requests') : requests'[j] = requests[j + 1] /\ j + 1 \in 1 .. Len(requests)
    BY <1>4, <2>1, ListedIs
  <2>3. \A j \in 1 .. Len(requests') :
           /\ requests'[j].id \in 1 .. calls'
           /\ Increasing(requests'[j].todo)
           /\ requests'[j].todo # <<>>
           /\ requests'[j].got = <<>>
    BY <1>1, <1>2, <2>2 DEF RequestsType
  <2>4. ASSUME NEW i \in 1 .. Len(requests'), NEW j \in 1 .. Len(requests'), i < j
        PROVE  requests'[i].id < requests'[j].id
    <3>1. i + 1 \in 1 .. Len(requests) /\ j + 1 \in 1 .. Len(requests) /\ i + 1 < j + 1
      BY <2>2, <2>4
    <3>. QED  BY <1>1, <2>2, <3>1 DEF RequestsType
  <2>5. ASSUME NEW j \in 1 .. Len(requests') PROVE Head(requests).id < requests'[j].id
    <3>1. j + 1 \in 1 .. Len(requests) /\ 1 < j + 1
      BY <2>2
    <3>. QED  BY <1>1, <2>2, <3>1 DEF RequestsType
  <2>. QED  BY <2>2, <2>3, <2>4, <2>5 DEF RequestsType
<1>. QED  BY <1>1, <1>3, <1>4

\* A request that is added.
LEMMA RequestAdded ==
    ASSUME RequestsType, calls \in 0 .. MaxCalls, calls' = calls, NEW q \in Jobs,
           q.id \in 1 .. calls, Increasing(q.todo), q.todo # <<>>, q.got = <<>>,
           \A j \in 1 .. Len(requests) : requests[j].id < q.id,
           requests' = Append(requests, q)
    PROVE  RequestsType'
<1>1. /\ requests' \in Seq(Jobs) /\ Len(requests') = Len(requests) + 1 /\ Len(requests) \in Nat
      /\ \A j \in 1 .. Len(requests) : requests'[j] = requests[j]
      /\ requests'[Len(requests) + 1] = q
  BY ListedIs DEF RequestsType
<1>2. \A j \in 1 .. Len(requests') : j \in 1 .. Len(requests) \/ j = Len(requests) + 1
  BY <1>1
<1>3. \A j \in 1 .. Len(requests') :
         /\ requests'[j].id \in 1 .. calls
         /\ Increasing(requests'[j].todo)
         /\ requests'[j].todo # <<>>
         /\ requests'[j].got = <<>>
  BY <1>1, <1>2 DEF RequestsType
<1>4. ASSUME NEW i \in 1 .. Len(requests'), NEW j \in 1 .. Len(requests'), i < j
      PROVE  requests'[i].id < requests'[j].id
  <2>1. i \in 1 .. Len(requests)
    BY <1>1, <1>4
  <2>2. CASE j \in 1 .. Len(requests)
    BY <1>1, <1>4, <2>1, <2>2 DEF RequestsType
  <2>3. CASE j = Len(requests) + 1
    BY <1>1, <2>1, <2>3
  <2>. QED  BY <1>2, <2>2, <2>3
<1>. QED  BY <1>1, <1>3, <1>4 DEF RequestsType

\* A step after which the pipeline is in use.
LEMMA PipelineGoesOn ==
    ASSUME StaticType', Wires', RequestsType', piping' = TRUE, err' \in BOOLEAN, calls' \in 0 .. MaxCalls,
           cur' \in Jobs, c' \in Keys \cup {None}, pc' \in Fetching \cup {"append", "idle", "drain"},
           pc' \in Fetching \cup {"append"} =>
              /\ cur'.id \in 1 .. calls' /\ Increasing(cur'.todo) /\ Len(cur'.got) < Len(cur'.todo)
              /\ Matched(cur'.id, cur'.todo, cur'.got),
           draining' \in BOOLEAN, pc' \notin Fetching => (draining' <=> pc' = "drain"),
           pc' \in Fetching => ~err' /\ \A j \in 1 .. Len(requests') : cur'.id < requests'[j].id,
           pc' = "append" =>
              /\ \A j \in 1 .. Len(requests') : requests'[j].id < cur'.id
              /\ \A n \in Len(cur'.got) + 1 .. Len(cur'.todo) :
                    Clear(con', orphans', executed', cur'.id, cur'.todo[n]),
           pc' = "collect" => /\ c' \in Keys /\ Good(con'[c'])
                              /\ c' = table'[cur'.todo[Len(cur'.got) + 1]],
           LaterFresh', Given', Pipeline'
    PROVE  HirInv'
<1>1. pc' \in Working <=> pc' \in Fetching \cup {"append"}
  BY DEF Working, Calling, Fetching
<1>2. CallType'
  <2>1. pc' \in Pcs
    BY DEF Pcs, Working
  <2>. QED  BY <1>1, <2>1 DEF CallType, RequestsType
<1>3. Types' /\ OnceNow'
  BY <1>2, TypesAre
<1>4. Control'
  <2>1. Waiting' => pc' = "collect"
    BY DEF Waiting, Fetching
  <2>2. pc' \notin Calling \cup {"connect", "freed", "reset"}
    BY DEF Calling, Fetching
  <2>3. pc' = "drain" => pc' \notin Fetching
    BY DEF Fetching
  <2>4. pc' \in {"idle", "append"} => pc' \notin Fetching /\ pc' # "drain"
    BY DEF Fetching
  <2>. QED  BY <2>1, <2>2, <2>3, <2>4 DEF Control, AtSlot
<1>5. Unsent'
  <2>1. pc' \notin Calling
    BY DEF Calling, Fetching
  <2>. QED  BY <2>1 DEF Unsent, LaterFresh, Fresh
<1>6. Quiet' /\ Awaited'
  <2>1. pc' # "reset"
    BY DEF Fetching
  <2>. QED  BY <2>1 DEF Quiet, Awaited
<1>7. Collecting'
  BY <1>1 DEF Collecting, Matched
<1>. QED  BY <1>3, <1>4, <1>5, <1>6, <1>7 DEF HirInv, OnceNow

\* What the invariant says while the pipeline is in use.
LEMMA DuringPipe ==
    ASSUME HirInv, piping, pc # "reset"
    PROVE  /\ RequestsType /\ requests \in Seq(Jobs) /\ Given
           /\ calls \in 0 .. MaxCalls /\ cur \in Jobs /\ c \in Keys \cup {None}
           /\ {err, piping, draining} \subseteq BOOLEAN
           /\ \A j \in 1 .. Len(requests) :
                 /\ requests[j] \in Jobs /\ requests[j].id \in 1 .. MaxCalls /\ requests[j].todo \in Seq(Slots)
                 /\ Increasing(requests[j].todo)
           /\ ~err => \A k \in Keys : /\ Good(con[k]) => Queued(con[k], k, Pending)
                                      /\ ~draining => Kept(con[k], k, Pending)
           /\ Pending \in SUBSET Subs
<1>1. Types /\ Given
  BY DEF HirInv
<1>2. /\ RequestsType /\ requests \in Seq(Jobs)
      /\ calls \in 0 .. MaxCalls /\ cur \in Jobs /\ c \in Keys \cup {None}
      /\ {err, piping, draining} \subseteq BOOLEAN
  BY <1>1 DEF Types, CallType, RequestsType
<1>3. ASSUME NEW j \in 1 .. Len(requests)
      PROVE  /\ requests[j] \in Jobs /\ requests[j].id \in 1 .. MaxCalls /\ requests[j].todo \in Seq(Slots)
             /\ Increasing(requests[j].todo)
  <2>1. requests[j] \in Jobs
    BY <1>2
  <2>2. requests[j].id \in 1 .. calls /\ Increasing(requests[j].todo)
    BY <1>2 DEF RequestsType
  <2>. QED  BY <1>2, <2>1, <2>2, Constants DEF Jobs
<1>4. ~err => \A k \in Keys : /\ Good(con[k]) => Queued(con[k], k, Pending)
                              /\ ~draining => Kept(con[k], k, Pending)
  BY DEF HirInv, Pipeline
<1>5. Pending \in SUBSET Subs
  BY DEF Pending, Subs
<1>. QED  BY <1>1, <1>2, <1>3, <1>4, <1>5

\* Calls that have not been made yet have appended nothing.
LEMMA LaterCalls ==
    ASSUME AllStayFresh, LaterFresh, calls \in 0 .. MaxCalls, calls' = calls
    PROVE  LaterFresh'
<1>1. \A i \in calls + 1 .. MaxCalls : i \in 1 .. MaxCalls
  BY Constants
<1>. QED  BY <1>1 DEF AllStayFresh, StaysFresh, LaterFresh

-----------------------------------------------------------------------------
(***************************************************************************)
(* The calls of the pipeline.                                              *)
(***************************************************************************)

\* redisClusterAppendCommand is called: nothing more is pending yet.
LEMMA AppendCallKeeps == ASSUME HirInv, AppendCall PROVE HirInv'
<1>1. /\ pc = "idle" /\ calls < MaxCalls /\ calls' = calls + 1
      /\ pc' = "append" /\ piping' = TRUE /\ answer' = NoAnswer
      /\ UNCHANGED <<server, orphans, executed, route, con, err, requests, draining, c>>
  BY DEF AppendCall
<1>2. PICK S \in Commands : \E q \in Split(S) : cur' = [id |-> calls', todo |-> q, got |-> <<>>]
  BY DEF AppendCall
<1>3. PICK q \in Split(S) : cur' = [id |-> calls', todo |-> q, got |-> <<>>]
  BY <1>2
<1>4. q \in Seq(Slots) /\ Increasing(q) /\ Len(q) \in Nat \ {0}
  BY SplitIs
<1>5. Types /\ OnceNow /\ LaterFresh
  BY DuringWork
<1>6. StaticType' /\ Wires' /\ AllStayFresh
  BY <1>1, <1>5, TypesAre, SameStatic, SameWires
<1>7. /\ draining' = FALSE /\ calls \in 0 .. MaxCalls
      /\ c' \in Keys \cup {None} /\ err' \in BOOLEAN /\ requests' = requests
  BY <1>1, <1>5 DEF HirInv, Control, Types, CallType
<1>8. calls' \in 0 .. MaxCalls /\ calls' \in 1 .. MaxCalls /\ calls' = calls + 1 /\ calls' >= calls
      /\ calls' \in calls + 1 .. MaxCalls /\ \A i \in calls' + 1 .. MaxCalls : i \in calls + 1 .. MaxCalls
  BY <1>1, <1>7, Constants
<1>9. cur'.id = calls' /\ cur'.todo = q /\ cur'.got = <<>>
  BY <1>3
<1>10. cur' \in Jobs /\ Len(cur'.got) = 0 /\ Len(cur'.got) < Len(cur'.todo)
  <2>1. <<>> \in Seq(Sent \cup Replies) /\ Len(<<>>) = 0
    OBVIOUS
  <2>. QED  BY <1>3, <1>4, <1>8, <1>9, <2>1 DEF Jobs
<1>11. RequestsType /\ RequestsType'
  BY <1>5, <1>7, <1>8, RequestsStay
<1>12. cur'.id \in 1 .. calls' /\ Increasing(cur'.todo) /\ Matched(cur'.id, cur'.todo, cur'.got)
  <2>1. cur'.id \in 1 .. calls'
    BY <1>8, <1>9
  <2>2. Increasing(cur'.todo)
    BY <1>4, <1>9, Zenon
  <2>3. Matched(cur'.id, cur'.todo, cur'.got)
    BY <1>10 DEF Matched
  <2>. QED  BY <2>1, <2>2, <2>3
<1>13. \A j \in 1 .. Len(requests') : requests'[j].id < cur'.id
  BY <1>7, <1>8, <1>9, <1>11 DEF RequestsType
<1>14. \A i \in calls + 1 .. MaxCalls, s \in Slots : Clear(con', orphans', executed', i, s)
  <2>1. \A i \in calls + 1 .. MaxCalls : i \in 1 .. MaxCalls
    BY <1>7, Constants
  <2>. QED  BY <1>5, <1>6, <2>1 DEF AllStayFresh, StaysFresh, Fresh, LaterFresh
<1>15. \A n \in Len(cur'.got) + 1 .. Len(cur'.todo) : Clear(con', orphans', executed', cur'.id, cur'.todo[n])
  <2>1. \A n \in 1 .. Len(q) : q[n] \in Slots
    BY <1>4
  <2>2. \A n \in 1 .. Len(q) : Clear(con', orphans', executed', calls', q[n])
    BY <1>8, <1>14, <2>1
  <2>. QED  BY <1>9, <1>10, <2>2
<1>16. LaterFresh'
  BY <1>8, <1>14 DEF LaterFresh, Fresh
<1>17. Given'
  BY <1>1, NoAnswerGiven
<1>18. Pipeline'
  <2>1. CASE err'
    BY <2>1 DEF Pipeline
  <2>2. CASE ~err'
    <3>1. ~err /\ pc # "append" /\ pc \notin Fetching /\ pc' \notin Fetching /\ table' = table /\ con' = con
      BY <1>1, <2>2 DEF Fetching, route
    <3>2. PartOf(cur'.id, cur'.todo, 1, Len(cur'.got)) = {}
      BY <1>10 DEF PartOf
    <3>3. Pending = Listed(requests) /\ Pending' = Pending
      BY <1>1, <1>7, <3>1, <3>2, PendingIs
    <3>4. ASSUME NEW k \in Keys
          PROVE  (Good(con[k]) => Queued(con[k], k, Pending)) /\ Kept(con[k], k, Pending)
      <4>1. CASE piping
        <5>1. draining = FALSE
          BY <1>1, <1>7
        <5>. QED  BY <1>1, <3>1, <4>1, <5>1, DuringPipe
      <4>2. CASE ~piping
        <5>1. requests = <<>>
          BY <4>2 DEF HirInv, Control
        <5>2. Pending = {}
          BY <1>11, <3>3, <5>1, ListedIs DEF RequestsType
        <5>3. Good(con[k]) => Empty(con[k]) /\ con[k] \in Contexts
          <6>1. ~Waiting
            BY <1>1 DEF Waiting
          <6>. QED  BY <4>2, <6>1, DuringWork DEF HirInv, Quiet, Connections, Good
        <5>. QED  BY <5>2, <5>3, EmptyQueued, QueuedIs
      <4>. QED  BY <4>1, <4>2
    <3>. QED  BY <3>1, <3>3, <3>4, PipelineThen
  <2>. QED  BY <2>1, <2>2
<1>19. pc' \in Fetching \cup {"append", "idle", "drain"} /\ pc' \notin Fetching
      /\ draining' \in BOOLEAN /\ (draining' <=> pc' = "drain") /\ pc' # "collect"
  BY <1>1, <1>7 DEF Fetching
<1>. QED  BY <1>1, <1>6, <1>7, <1>8, <1>10, <1>11, <1>12, <1>13, <1>15, <1>16, <1>17, <1>18, <1>19, PipelineGoesOn

\* redisClusterGetReply is called: what is pending is still pending.
LEMMA GetReplyKeeps == ASSUME HirInv, Careful, GetReply PROVE HirInv'
<1>1. /\ pc \in {"idle", "drain"} /\ requests # <<>>
      /\ cur' = Head(requests) /\ requests' = Tail(requests)
      /\ pc' = "get" /\ err' = FALSE /\ answer' = NoAnswer
      /\ UNCHANGED <<server, orphans, executed, route, con, piping, draining, c>>
      /\ calls' = calls
  BY DEF GetReply, bounds
<1>2. ~err
  BY DEF GetReply
<1>3. piping /\ pc # "reset"
  BY <1>1 DEF HirInv, Control
<1>4. Types /\ OnceNow /\ LaterFresh
  BY DuringWork
<1>5. StaticType' /\ Wires' /\ AllStayFresh
  BY <1>1, <1>4, TypesAre, SameStatic, SameWires
<1>6. /\ RequestsType /\ requests \in Seq(Jobs) /\ calls \in 0 .. MaxCalls
      /\ c' \in Keys \cup {None} /\ draining' \in BOOLEAN /\ piping' = TRUE
      /\ calls' \in 0 .. MaxCalls /\ calls' >= calls
  BY <1>1, <1>3, DuringPipe
<1>7. RequestsType' /\ \A j \in 1 .. Len(requests') : cur'.id < requests'[j].id
  BY <1>1, <1>4, <1>6, RequestsStay
<1>8. /\ cur' \in Jobs /\ 1 \in 1 .. Len(requests) /\ cur' = requests[1]
      /\ Listed(requests) = Listed(requests') \cup PartOf(cur'.id, cur'.todo, 1, Len(cur'.todo))
  BY <1>1, <1>6, ListedIs
<1>9. cur'.id \in 1 .. calls' /\ Increasing(cur'.todo) /\ cur'.todo # <<>> /\ cur'.got = <<>>
  BY <1>1, <1>6, <1>8 DEF RequestsType
<1>10. Len(cur'.got) = 0 /\ Len(cur'.got) < Len(cur'.todo)
  <2>1. cur'.todo \in Seq(Slots)
    BY <1>8 DEF Jobs
  <2>. DEFINE u == cur'.todo
  <2>2. u \in Seq(Slots) /\ u # <<>>
    BY <1>9, <2>1
  <2>. HIDE DEF u
  <2>3. Len(u) \in Nat /\ Len(u) > 0
    BY <2>2
  <2>. QED  BY <1>9, <2>3 DEF u
<1>11. Matched(cur'.id, cur'.todo, cur'.got)
  BY <1>10 DEF Matched
<1>12. LaterFresh'
  BY <1>1, <1>4, <1>5, <1>6, LaterCalls
<1>13. Given'
  BY <1>1, NoAnswerGiven
<1>14. Pipeline'
  <2>1. pc # "append" /\ pc \notin Fetching /\ pc' \in Fetching /\ pc' # "append" /\ table' = table /\ con' = con
    BY <1>1 DEF Fetching, route
  <2>2. Pending = Listed(requests)
    BY <2>1, PendingIs
  <2>3. Pending' = Listed(requests') \cup PartOf(cur'.id, cur'.todo, 1, Len(cur'.todo))
    BY <1>10, <2>1, PendingIs
  <2>4. Pending' = Pending
    BY <1>8, <2>2, <2>3
  <2>5. \A k \in Keys : /\ Good(con'[k]) => Queued(con'[k], k, Pending)
                        /\ ~draining' => Kept(con'[k], k, Pending)
    BY <1>1, <1>2, <1>3, <2>1, DuringPipe
  <2>. QED  BY <2>1, <2>4, <2>5, PipelineThen
<1>15. pc' \in Fetching
  BY <1>1 DEF Fetching
<1>. QED  BY <1>1, <1>5, <1>6, <1>7, <1>8, <1>9, <1>10, <1>11, <1>12, <1>13, <1>14, <1>15, PipelineGoesOn

\* What is pending while a command is appended: less than what comes next.
LEMMA AppendPending ==
    ASSUME HirInv, pc = "append"
    PROVE  /\ Sub(This) \in Subs /\ Sub(This) = <<cur.id, AtSlot>> /\ Sub(This)[2] = AtSlot
           /\ \A q \in Pending : Before(q, Sub(This))
           /\ Pending \cup {Sub(This)} = Listed(requests) \cup PartOf(cur.id, cur.todo, 1, Len(cur.got) + 1)
<1>. DEFINE id == cur.id
            u == cur.todo
            a == Len(cur.got)
            p == <<id, u[a + 1]>>
<1>1. /\ id \in 1 .. MaxCalls /\ u \in Seq(Slots) /\ Increasing(u) /\ a \in Nat /\ a < Len(u)
      /\ AtSlot = u[a + 1] /\ This.id = id /\ This.slot = AtSlot
  BY DuringWork DEF Working
<1>2. Pending = Listed(requests) \cup PartOf(id, u, 1, a)
  BY PendingIs DEF Fetching
<1>3. Sub(This) = p /\ Sub(This) = <<cur.id, AtSlot>>
  BY <1>1 DEF Sub
<1>. HIDE DEF id, u, a
<1>4. /\ p \in Subs /\ p[2] = u[a + 1]
      /\ PartOf(id, u, 1, a + 1) = PartOf(id, u, 1, a) \cup {p}
      /\ \A q \in PartOf(id, u, 1, a) : Before(q, p)
  BY <1>1, PartsOf
<1>5. ASSUME NEW q \in Listed(requests) PROVE Before(q, p)
  <2>1. PICK j \in 1 .. Len(requests) : q[1] = requests[j].id
    BY DEF Listed
  <2>2. requests[j].id < id
    BY DEF HirInv, Control, id
  <2>. QED  BY <2>1, <2>2 DEF Before
<1>6. Pending \cup {Sub(This)} = Listed(requests) \cup PartOf(id, u, 1, a + 1)
  BY <1>2, <1>3, <1>4
<1>7. \A q \in Pending : Before(q, Sub(This))
  BY <1>2, <1>3, <1>4, <1>5
<1>. QED  BY <1>1, <1>3, <1>4, <1>6, <1>7 DEF id, u, a

\* What is pending while replies are fetched: nothing less than the one that
\* is fetched.
LEMMA FetchPending ==
    ASSUME HirInv, pc \in Fetching
    PROVE  /\ <<cur.id, AtSlot>> \in Pending /\ <<cur.id, AtSlot>>[2] = AtSlot
           /\ \A q \in Pending : q = <<cur.id, AtSlot>> \/ Before(<<cur.id, AtSlot>>, q)
           /\ Pending \ {<<cur.id, AtSlot>>} =
                 Listed(requests) \cup PartOf(cur.id, cur.todo, Len(cur.got) + 2, Len(cur.todo))
           /\ Len(cur.got) + 1 >= Len(cur.todo) => PartOf(cur.id, cur.todo, Len(cur.got) + 2, Len(cur.todo)) = {}
           /\ Pending = Listed(requests) \cup PartOf(cur.id, cur.todo, Len(cur.got) + 1, Len(cur.todo))
<1>. DEFINE id == cur.id
            u == cur.todo
            a == Len(cur.got)
            p == <<id, u[a + 1]>>
<1>1. /\ id \in 1 .. MaxCalls /\ u \in Seq(Slots) /\ Increasing(u) /\ a \in Nat /\ a < Len(u)
      /\ AtSlot = u[a + 1]
  BY DuringWork DEF Working
<1>2. Pending = Listed(requests) \cup PartOf(id, u, a + 1, Len(u))
  BY PendingIs DEF Fetching
<1>. HIDE DEF id, u, a
<1>3. /\ p \in Subs /\ p[2] = u[a + 1]
      /\ PartOf(id, u, a + 1, Len(u)) = PartOf(id, u, a + 2, Len(u)) \cup {p}
      /\ \A q \in PartOf(id, u, a + 2, Len(u)) : Before(p, q)
  BY <1>1, PartsOf
<1>4. a + 1 >= Len(u) => PartOf(id, u, a + 2, Len(u)) = {}
  BY <1>1 DEF PartOf
<1>5. ASSUME NEW q \in Listed(requests) PROVE Before(p, q)
  <2>1. PICK j \in 1 .. Len(requests) : q[1] = requests[j].id
    BY DEF Listed
  <2>2. id < requests[j].id
    BY DEF HirInv, Control, id
  <2>. QED  BY <2>1, <2>2 DEF Before
<1>6. p \notin Listed(requests) /\ p \notin PartOf(id, u, a + 2, Len(u))
  BY <1>3, <1>5, Order
<1>7. Pending \ {p} = Listed(requests) \cup PartOf(id, u, a + 2, Len(u))
  BY <1>2, <1>3, <1>6
<1>8. p \in Pending /\ \A q \in Pending : q = p \/ Before(p, q)
  BY <1>2, <1>3, <1>5
<1>9. p = <<cur.id, AtSlot>>
  BY <1>1 DEF id
<1>. QED  BY <1>1, <1>2, <1>3, <1>4, <1>7, <1>8, <1>9 DEF id, u, a

\* The next sub-command is appended to the buffer of its node.
LEMMA SubAppended ==
    ASSUME HirInv, pc = "append", NEW n \in Addrs, n = table[AtSlot], table' = table, ~ctx_get_by_node(n).err,
           con'[n] = Put(ctx_get_by_node(n), This), \A k \in Keys \ {n} : con'[k] = con[k],
           ~err, Pending' = Pending \cup {Sub(This)}
    PROVE  Pipeline'
<1>1. /\ piping /\ pc # "reset" /\ draining = FALSE
  BY DEF HirInv, Control
<1>2. /\ Types /\ n \in Keys /\ This \in Sent /\ This.slot = AtSlot
  BY DuringWork, GetContext DEF Working
<1>3. /\ Sub(This) \in Subs /\ Sub(This)[2] = AtSlot
      /\ \A q \in Pending : Before(q, Sub(This))
  BY AppendPending
<1>4. Pending \in SUBSET Subs
      /\ \A k \in Keys : (Good(con[k]) => Queued(con[k], k, Pending)) /\ Kept(con[k], k, Pending)
  BY <1>1, DuringPipe
<1>. DEFINE x == ctx_get_by_node(n)
            P == Pending
            m == This
<1>5. /\ x \in Contexts /\ (Good(con[n]) => x = con[n]) /\ (~Good(con[n]) => Empty(x)) /\ ~x.err
  BY <1>2, GetContext
<1>6. Queued(x, n, P) /\ Kept(x, n, P)
  <2>1. CASE Good(con[n])
    BY <1>2, <1>4, <1>5, <2>1
  <2>2. CASE ~Good(con[n])
    <3>1. Queued(x, n, P)
      BY <1>5, <2>2, EmptyQueued
    <3>2. \A p \in P : table[p[2]] # n
      BY <1>2, <1>4, <2>2, QueuedIs
    <3>3. Kept(x, n, P)
      BY <3>2, QueuedIs
    <3>. QED  BY <3>1, <3>3
  <2>. QED  BY <2>1, <2>2
<1>7. Queued(Put(x, m), n, P \cup {Sub(m)}) /\ Kept(Put(x, m), n, P \cup {Sub(m)})
  <2>. HIDE DEF x, P, m
  <2>1. P \in SUBSET Subs /\ m \in Sent /\ Sub(m) \in Subs /\ table[m.slot] = n /\ \A q \in P : Before(q, Sub(m))
    BY <1>2, <1>3, <1>4 DEF P, m
  <2>. QED  BY <1>5, <1>6, <2>1, PutQueued
<1>8. ASSUME NEW k \in Keys
      PROVE  (Good(con'[k]) => Queued(con'[k], k, Pending')) /\ Kept(con'[k], k, Pending')
  <2>1. CASE k = n
    BY <1>7, <2>1
  <2>2. CASE k # n
    <3>1. con'[k] = con[k] /\ table[Sub(This)[2]] # k
      BY <1>3, <2>2
    <3>2. /\ Queued(con[k], k, P) => Queued(con[k], k, P \cup {Sub(This)})
          /\ Kept(con[k], k, P) => Kept(con[k], k, P \cup {Sub(This)})
      BY <3>1, OtherNode
    <3>. QED  BY <1>4, <3>1, <3>2
  <2>. QED  BY <2>1, <2>2
<1>. QED  BY <1>8, PipelineThen

\* A call of the pipeline fails.
LEMMA PipelineFails ==
    ASSUME HirInv, piping, pc \in Working \cup {"idle", "drain"}, Idle, err' = TRUE, Given', LaterFresh',
           StaticType', Wires', UNCHANGED <<requests, piping, draining, calls>>
    PROVE  HirInv'
<1>1. pc # "reset"
  BY DEF Working, Calling, Fetching
<1>2. /\ calls \in 0 .. MaxCalls /\ draining \in BOOLEAN /\ Types
  BY <1>1, DuringPipe, DuringWork
<1>3. calls' \in 0 .. MaxCalls /\ calls' >= calls
  BY <1>2
<1>4. RequestsType'
  BY <1>2, <1>3, RequestsStay
<1>5. cur' \in Jobs /\ c' \in Keys \cup {None} /\ pc' = (IF draining THEN "drain" ELSE "idle")
  BY NothingIsTyped DEF Idle
<1>6. /\ pc' \in Fetching \cup {"append", "idle", "drain"} /\ pc' \notin Fetching \cup {"append"}
      /\ (draining' <=> pc' = "drain") /\ pc' # "collect" /\ draining' \in BOOLEAN /\ err' \in BOOLEAN
      /\ piping' = TRUE
  BY <1>2, <1>5 DEF Fetching, HirInv, Types, CallType
<1>7. Pipeline'
  BY DEF Pipeline
<1>. QED  BY <1>3, <1>4, <1>5, <1>6, <1>7, PipelineGoesOn

\* A sub-command is appended, or cannot be.
LEMMA AppendSubKeeps == ASSUME HirInv, AppendSub PROVE HirInv'
<1>. DEFINE n == table[AtSlot]
            x == ctx_get_by_node(n)
            got == Append(cur.got, This)
<1>1. /\ pc = "append" /\ calls' = calls
      /\ UNCHANGED <<server, executed, route, retry_count, need_update_route, piping, draining, answer>>
  BY DEF AppendSub, bounds
<1>2. /\ pc \in Working /\ Types /\ OnceNow /\ Wires /\ StaticType /\ LaterFresh
      /\ cur \in Jobs /\ cur.id \in 1 .. calls /\ cur.id \in 1 .. MaxCalls
      /\ Increasing(cur.todo) /\ Len(cur.got) < Len(cur.todo)
      /\ Len(cur.got) \in Nat /\ Len(cur.todo) \in Nat
      /\ AtSlot \in Slots /\ AtSlot = cur.todo[Len(cur.got) + 1]
      /\ This \in Sent /\ This.t = "cmd" /\ This.id = cur.id /\ This.slot = AtSlot
      /\ \A i \in 1 .. Len(cur.todo) : cur.todo[i] \in Slots
      /\ Matched(cur.id, cur.todo, cur.got)
  <2>1. pc \in Working
    BY <1>1 DEF Working
  <2>. QED  BY <2>1, DuringWork
<1>3. /\ piping /\ pc # "reset" /\ draining = FALSE
      /\ \A j \in 1 .. Len(requests) : requests[j].id < cur.id
  BY <1>1 DEF HirInv, Control
<1>4. /\ RequestsType /\ Given /\ calls \in 0 .. MaxCalls /\ c \in Keys \cup {None} /\ err \in BOOLEAN
      /\ calls' \in 0 .. MaxCalls /\ calls' >= calls
  BY <1>1, <1>3, DuringPipe
<1>5. StaticType' /\ Given'
  BY <1>1, <1>2, <1>4, SameStatic, SameAnswer
<1>6. n \in Addrs \cup {None}
  BY <1>2 DEF StaticType
<1>7. \A i \in Len(cur.got) + 1 .. Len(cur.todo) : Fresh(cur.id, cur.todo[i])
  BY <1>1 DEF HirInv, Unsent
<1>8. CASE n = None \/ (n # None /\ x.err)
  <2>1. /\ IF n = None THEN UNCHANGED <<con, orphans>> ELSE SetCon(n, x)
        /\ Idle /\ err' = TRUE /\ UNCHANGED requests
    BY <1>8 DEF AppendSub
  <2>2. Wires' /\ AllStayFresh
    <3>1. CASE n = None
      BY <1>1, <1>2, <2>1, <3>1, SameWires
    <3>2. CASE n # None
      <4>1. n \in nodes \cup Addrs /\ SetCon(n, x) /\ executed' = executed
        BY <1>1, <1>6, <2>1, <3>2
      <4>. HIDE DEF n
      <4>. QED  BY <1>2, <4>1, GetWires
    <3>. QED  BY <3>1, <3>2
  <2>3. LaterFresh'
    BY <1>1, <1>2, <1>4, <2>2, LaterCalls
  <2>. QED  BY <1>1, <1>2, <1>3, <1>5, <2>1, <2>2, <2>3, PipelineFails
<1>9. CASE ~(n = None \/ (n # None /\ x.err))
  <2>1. /\ SetCon(n, Put(x, This)) /\ UNCHANGED err
        /\ IF Len(got) < Len(cur.todo)
           THEN cur' = [cur EXCEPT !.got = got] /\ UNCHANGED <<pc, c, tried, requests>>
           ELSE Idle /\ requests' = Append(requests, [cur EXCEPT !.got = <<>>])
    BY <1>9 DEF AppendSub
  <2>2. n \in Addrs /\ ~x.err
    BY <1>6, <1>9
  <2>3. /\ Wires' /\ OthersStayFresh(This) /\ con'[n] = Put(x, This)
        /\ \A k \in Keys \ {n} : con'[k] = con[k]
    <3>1. Fresh(This.id, This.slot) /\ This.id \in 1 .. MaxCalls /\ This.slot \in Slots
      <4>1. Len(cur.got) + 1 \in Len(cur.got) + 1 .. Len(cur.todo)
        BY <1>2
      <4>. QED  BY <1>2, <1>7, <4>1
    <3>2. executed' = executed /\ n \in nodes \cup Addrs /\ SetCon(n, Put(ctx_get_by_node(n), This))
      BY <1>1, <2>1, <2>2
    <3>. HIDE DEF n
    <3>. QED  BY <1>2, <3>1, <3>2, GetPutWires
  <2>4. LaterFresh'
    <3>1. ASSUME NEW i \in calls + 1 .. MaxCalls, NEW s \in Slots PROVE Fresh(i, s)'
      <4>1. i \in 1 .. MaxCalls /\ i # cur.id
        BY <1>2, <1>4, Constants
      <4>2. ~IsCmd(This, i, s)
        BY <1>2, <4>1 DEF IsCmd
      <4>3. Fresh(i, s)
        BY <1>2, <3>1 DEF LaterFresh
      <4>. QED  BY <2>3, <4>1, <4>2, <4>3 DEF OthersStayFresh, StaysFresh
    <3>. QED  BY <1>1, <3>1 DEF LaterFresh
  <2>5. \A i \in Len(cur.got) + 2 .. Len(cur.todo) : Clear(con', orphans', executed', cur.id, cur.todo[i])
    <3>1. ASSUME NEW i \in Len(cur.got) + 2 .. Len(cur.todo)
          PROVE  Clear(con', orphans', executed', cur.id, cur.todo[i])
      <4>1. i \in 1 .. Len(cur.todo) /\ Len(cur.got) + 1 \in 1 .. Len(cur.todo) /\ Len(cur.got) + 1 < i
            /\ i \in Len(cur.got) + 1 .. Len(cur.todo)
        BY <1>2
      <4>2. cur.todo[Len(cur.got) + 1] < cur.todo[i] /\ cur.todo[i] \in Slots
        BY <1>2, <4>1 DEF Increasing
      <4>3. cur.todo[i] # AtSlot
        BY <1>2, <4>2, Constants
      <4>4. ~IsCmd(This, cur.id, cur.todo[i])
        BY <1>2, <4>3 DEF IsCmd
      <4>5. Fresh(cur.id, cur.todo[i])
        BY <1>7, <4>1
      <4>. QED  BY <1>2, <2>3, <4>2, <4>4, <4>5 DEF OthersStayFresh, StaysFresh, Fresh
    <3>. QED  BY <3>1
  <2>6. This.id = cur.id /\ This.slot = cur.todo[Len(cur.got) + 1] /\ This \in Sent \cup Replies
    BY <1>2
  <2>7. /\ Len(got) = Len(cur.got) + 1 /\ got \in Seq(Sent \cup Replies)
        /\ Matched(cur.id, cur.todo, got) /\ [cur EXCEPT !.got = got] \in Jobs
    BY <1>2, <2>6, OneMore
  <2>8. ASSUME ~err, Pending' = Pending \cup {Sub(This)} PROVE Pipeline'
    <3>1. table' = table
      BY <1>1 DEF route
    <3>. HIDE DEF n
    <3>2. n = table[AtSlot]
      BY DEF n
    <3>. QED  BY <1>1, <2>2, <2>3, <2>8, <3>1, <3>2, SubAppended
  <2>9. CASE Len(got) < Len(cur.todo)
    <3>1. /\ cur' = [cur EXCEPT !.got = got] /\ requests' = requests /\ pc' = "append" /\ c' = c
      BY <1>1, <2>1, <2>9
    <3>2. cur' \in Jobs /\ cur'.id = cur.id /\ cur'.todo = cur.todo /\ cur'.got = got
      BY <1>2, <2>7, <3>1 DEF Jobs
    <3>3. Matched(cur'.id, cur'.todo, cur'.got) /\ Increasing(cur'.todo)
      BY <1>2, <2>7, <3>2, Zenon
    <3>4. Len(cur'.got) = Len(cur.got) + 1 /\ Len(cur'.todo) = Len(cur.todo) /\ Len(cur'.got) < Len(cur'.todo)
          /\ cur'.id \in 1 .. calls'
      BY <1>1, <1>2, <2>7, <2>9, <3>2
    <3>5. RequestsType' /\ \A j \in 1 .. Len(requests') : requests'[j].id < cur'.id
      BY <1>2, <1>3, <1>4, <3>1, <3>2, RequestsStay
    <3>6. \A i \in Len(cur'.got) + 1 .. Len(cur'.todo) : Clear(con', orphans', executed', cur'.id, cur'.todo[i])
      BY <1>2, <2>5, <3>2, <3>4
    <3>7. Pipeline'
      <4>1. CASE err
        BY <2>1, <4>1 DEF Pipeline
      <4>2. CASE ~err
        <5>1. pc' = "append" /\ pc' \notin Fetching
          BY <3>1 DEF Fetching
        <5>2. Pending' = Listed(requests) \cup PartOf(cur.id, cur.todo, 1, Len(cur.got) + 1)
          BY <3>1, <3>2, <3>4, <5>1, PendingIs
        <5>3. Pending' = Pending \cup {Sub(This)}
          BY <1>1, <5>2, AppendPending
        <5>. QED  BY <2>8, <4>2, <5>3
      <4>. QED  BY <1>4, <4>1, <4>2
    <3>8. /\ pc' \in Fetching \cup {"append", "idle", "drain"} /\ pc' \notin Fetching /\ pc' # "drain" /\ pc' # "collect"
          /\ draining' \in BOOLEAN /\ draining' = FALSE /\ piping' = TRUE /\ err' \in BOOLEAN /\ c' \in Keys \cup {None}
      BY <1>1, <1>3, <1>4, <2>1, <3>1 DEF Fetching, HirInv, Types, CallType
    <3>. QED  BY <1>4, <1>5, <2>3, <2>4, <3>1, <3>2, <3>3, <3>4, <3>5, <3>6, <3>7, <3>8, PipelineGoesOn
  <2>10. CASE ~(Len(got) < Len(cur.todo))
    <3>. DEFINE q == [cur EXCEPT !.got = <<>>]
    <3>1. Idle /\ requests' = Append(requests, q)
      BY <2>1, <2>10
    <3>2. Len(cur.todo) = Len(cur.got) + 1
      BY <1>2, <2>7, <2>10
    <3>3. q \in Jobs /\ q.id = cur.id /\ q.todo = cur.todo /\ q.got = <<>>
      <4>1. <<>> \in Seq(Sent \cup Replies)
        OBVIOUS
      <4>. QED  BY <1>2, <4>1 DEF Jobs
    <3>. HIDE DEF q
    <3>4. q.id \in 1 .. calls /\ Increasing(q.todo) /\ q.todo # <<>> /\ \A j \in 1 .. Len(requests) : requests[j].id < q.id
      <4>1. cur.todo # <<>>
        BY <1>2
      <4>. QED  BY <1>2, <1>3, <3>3, <4>1
    <3>5. RequestsType'
      BY <1>1, <1>4, <3>1, <3>3, <3>4, RequestAdded
    <3>6. pc' = "idle" /\ cur' = NoCall /\ c' = None
      BY <1>3, <3>1 DEF Idle
    <3>7. Pipeline'
      <4>1. CASE err
        BY <2>1, <4>1 DEF Pipeline
      <4>2. CASE ~err
        <5>1. pc' # "append" /\ pc' \notin Fetching
          BY <3>6 DEF Fetching
        <5>2. Pending' = Listed(requests')
          BY <5>1, PendingIs
        <5>3. Listed(requests') = Listed(requests) \cup PartOf(q.id, q.todo, 1, Len(q.todo))
          BY <1>4, <3>1, <3>3, ListedIs DEF RequestsType
        <5>4. Pending' = Listed(requests) \cup PartOf(cur.id, cur.todo, 1, Len(cur.got) + 1)
          BY <3>2, <3>3, <5>2, <5>3
        <5>5. Pending' = Pending \cup {Sub(This)}
          BY <1>1, <5>4, AppendPending
        <5>. QED  BY <2>8, <4>2, <5>5
      <4>. QED  BY <1>4, <4>1, <4>2
    <3>8. /\ pc' \in Fetching \cup {"append", "idle", "drain"} /\ pc' \notin Fetching \cup {"append"} /\ pc' # "drain"
          /\ pc' # "collect" /\ draining' \in BOOLEAN /\ draining' = FALSE /\ piping' = TRUE /\ err' \in BOOLEAN
          /\ c' \in Keys \cup {None} /\ cur' \in Jobs
      BY <1>1, <1>3, <1>4, <2>1, <3>6, NothingIsTyped DEF Fetching, HirInv, Types, CallType
    <3>. QED  BY <1>4, <1>5, <2>3, <2>4, <3>5, <3>7, <3>8, PipelineGoesOn
  <2>. QED  BY <2>9, <2>10
<1>. QED  BY <1>8, <1>9

\* What the invariant says while replies are fetched.
LEMMA DuringFetch ==
    ASSUME HirInv, pc \in Fetching
    PROVE  /\ pc \in Working /\ piping = TRUE /\ pc # "reset" /\ ~err /\ draining \in BOOLEAN
           /\ Types /\ OnceNow /\ Wires /\ StaticType /\ LaterFresh /\ RequestsType /\ Given
           /\ calls \in 0 .. MaxCalls /\ c \in Keys \cup {None}
           /\ cur \in Jobs /\ cur.id \in 1 .. calls
           /\ Increasing(cur.todo) /\ Len(cur.got) < Len(cur.todo)
           /\ Len(cur.got) \in Nat /\ Len(cur.todo) \in Nat
           /\ AtSlot \in Slots /\ AtSlot = cur.todo[Len(cur.got) + 1]
           /\ Matched(cur.id, cur.todo, cur.got)
           /\ \A j \in 1 .. Len(requests) : cur.id < requests[j].id
           /\ table[AtSlot] \in Addrs \cup {None}
           /\ \A k \in Keys : /\ Good(con[k]) => Queued(con[k], k, Pending)
                              /\ ~draining => Kept(con[k], k, Pending)
<1>1. /\ piping = TRUE /\ pc # "reset" /\ ~err
      /\ \A j \in 1 .. Len(requests) : cur.id < requests[j].id
  <2>1. piping \in BOOLEAN
    BY DEF HirInv, Types, CallType
  <2>. QED  BY <2>1 DEF HirInv, Control, Fetching
<1>2. pc \in Working
  BY DEF Working
<1>3. /\ RequestsType /\ Given /\ calls \in 0 .. MaxCalls /\ c \in Keys \cup {None} /\ draining \in BOOLEAN
      /\ \A k \in Keys : /\ Good(con[k]) => Queued(con[k], k, Pending)
                         /\ ~draining => Kept(con[k], k, Pending)
  BY <1>1, DuringPipe
<1>4. /\ Types /\ OnceNow /\ Wires /\ StaticType /\ LaterFresh
      /\ cur \in Jobs /\ cur.id \in 1 .. calls
      /\ Increasing(cur.todo) /\ Len(cur.got) < Len(cur.todo)
      /\ Len(cur.got) \in Nat /\ Len(cur.todo) \in Nat
      /\ AtSlot \in Slots /\ AtSlot = cur.todo[Len(cur.got) + 1]
      /\ Matched(cur.id, cur.todo, cur.got)
  BY <1>2, DuringWork
<1>5. table[AtSlot] \in Addrs \cup {None}
  BY <1>4 DEF StaticType
<1>. QED  BY <1>1, <1>2, <1>3, <1>4, <1>5

\* The node of the next reply is looked up.
LEMMA CollectKeeps == ASSUME HirInv, Collect PROVE HirInv'
<1>. DEFINE n == table[AtSlot]
            x == ctx_get_by_node(n)
<1>1. /\ pc = "get" /\ pc \in Fetching /\ calls' = calls
      /\ UNCHANGED <<server, executed, route, requests, piping, draining>>
  BY DEF Collect, bounds, Fetching
<1>2. /\ pc \in Working /\ piping = TRUE /\ pc # "reset" /\ ~err /\ draining \in BOOLEAN
      /\ Types /\ OnceNow /\ Wires /\ StaticType /\ LaterFresh /\ RequestsType /\ Given
      /\ calls \in 0 .. MaxCalls /\ cur \in Jobs /\ cur.id \in 1 .. calls
      /\ Increasing(cur.todo) /\ Len(cur.got) < Len(cur.todo)
      /\ AtSlot = cur.todo[Len(cur.got) + 1] /\ Matched(cur.id, cur.todo, cur.got)
      /\ \A j \in 1 .. Len(requests) : cur.id < requests[j].id
      /\ n \in Addrs \cup {None}
      /\ \A k \in Keys : /\ Good(con[k]) => Queued(con[k], k, Pending)
                         /\ ~draining => Kept(con[k], k, Pending)
  BY <1>1, DuringFetch
<1>3. StaticType' /\ table' = table
  BY <1>1, <1>2, SameStatic DEF route
<1>4. CASE n = None
  <2>1. PipeFails /\ UNCHANGED <<con, orphans>>
    BY <1>4 DEF Collect
  <2>2. Wires' /\ AllStayFresh
    BY <1>1, <1>2, <2>1, SameWires
  <2>3. LaterFresh' /\ Given' /\ Idle /\ err' = TRUE
    BY <1>1, <1>2, <2>1, <2>2, LaterCalls, SameAnswer DEF PipeFails
  <2>. QED  BY <1>1, <1>2, <1>3, <2>2, <2>3, PipelineFails
<1>5. CASE n # None
  <2>1. /\ SetCon(n, x)
        /\ IF x.err THEN PipeFails
           ELSE pc' = "collect" /\ c' = n /\ UNCHANGED <<cur, tried, err, answer, retry_count, need_update_route>>
    BY <1>5 DEF Collect
  <2>2. /\ Wires' /\ AllStayFresh /\ con'[n] = x /\ n \in Keys /\ \A k \in Keys \ {n} : con'[k] = con[k]
        /\ x \in Contexts /\ (Good(con[n]) => x = con[n]) /\ (~Good(con[n]) => Empty(x))
    <3>1. n \in nodes \cup Addrs /\ SetCon(n, x) /\ executed' = executed
      BY <1>1, <1>2, <1>5, <2>1
    <3>. HIDE DEF n
    <3>. QED  BY <1>2, <3>1, GetWires, GetContext
  <2>3. LaterFresh'
    BY <1>1, <1>2, <2>2, LaterCalls
  <2>4. CASE x.err
    <3>1. Given' /\ Idle /\ err' = TRUE
      BY <1>2, <2>1, <2>4, SameAnswer DEF PipeFails
    <3>. QED  BY <1>1, <1>2, <1>3, <2>2, <2>3, <3>1, PipelineFails
  <2>5. CASE ~x.err
    <3>1. pc' = "collect" /\ c' = n /\ UNCHANGED <<cur, err, answer>>
      BY <2>1, <2>5
    <3>2. Given'
      BY <1>2, <3>1, SameAnswer
    <3>3. RequestsType' /\ calls' \in 0 .. MaxCalls /\ requests' = requests
      BY <1>1, <1>2, RequestsStay
    <3>4. pc' \in Fetching /\ pc' # "append" /\ pc # "append"
      BY <1>1, <3>1 DEF Fetching
    <3>5. Pending' = Pending
      BY <1>1, <3>1, <3>3, <3>4, PendingIs
    <3>6. Good(con'[n])
      BY <2>2, <2>5, ContextIsOne DEF Good
    <3>7. ASSUME NEW k \in Keys
          PROVE  /\ Good(con'[k]) => Queued(con'[k], k, Pending)
                 /\ ~draining' => Kept(con'[k], k, Pending)
      <4>1. CASE k # n
        BY <1>1, <1>2, <2>2, <4>1
      <4>2. CASE k = n /\ Good(con[n])
        BY <1>1, <1>2, <2>2, <4>2
      <4>3. CASE k = n /\ ~Good(con[n])
        <5>1. Queued(x, n, Pending)
          BY <2>2, <4>3, EmptyQueued
        <5>2. ~draining' => \A p \in Pending : table[p[2]] # n
          BY <1>1, <1>2, <2>2, <4>3, QueuedIs
        <5>3. ~draining' => Kept(x, n, Pending)
          BY <5>2, QueuedIs
        <5>. QED  BY <2>2, <4>3, <5>1, <5>3
      <4>. QED  BY <4>1, <4>2, <4>3
    <3>8. Pipeline'
      BY <1>3, <3>5, <3>7, PipelineThen
    <3>9. /\ c' \in Keys /\ Good(con'[c']) /\ c' = table'[cur'.todo[Len(cur'.got) + 1]]
      BY <1>2, <1>3, <2>2, <3>1, <3>6
    <3>10. /\ piping' = TRUE /\ err' \in BOOLEAN /\ ~err' /\ draining' \in BOOLEAN
           /\ cur' \in Jobs /\ cur'.id \in 1 .. calls' /\ Len(cur'.got) < Len(cur'.todo)
           /\ \A j \in 1 .. Len(requests') : cur'.id < requests'[j].id
      <4>1. err \in BOOLEAN
        BY <1>2 DEF Types, CallType
      <4>. QED  BY <1>1, <1>2, <3>1, <3>3, <4>1
    <3>11. Increasing(cur'.todo) /\ Matched(cur'.id, cur'.todo, cur'.got)
      BY <1>2, <3>1
    <3>. QED  BY <1>3, <2>2, <2>3, <3>1, <3>2, <3>3, <3>4, <3>8, <3>9, <3>10, <3>11, PipelineGoesOn
  <2>. QED  BY <2>4, <2>5
<1>. QED  BY <1>4, <1>5

\* A reply does not come.
LEMMA CollectFailsKeeps == ASSUME HirInv, CollectFails PROVE HirInv'
<1>1. /\ pc = "collect" /\ pc \in Fetching /\ Waiting /\ calls' = calls
      /\ UNCHANGED <<server, executed, route, requests, piping, draining, answer>>
      /\ ReadFails /\ Idle /\ err' = TRUE
  BY DEF CollectFails, PipeFails, Fetching, Waiting, pipe
<1>2. /\ pc \in Working /\ piping /\ Wires /\ StaticType /\ LaterFresh /\ Given /\ calls \in 0 .. MaxCalls
  BY <1>1, DuringFetch
<1>3. c \in Keys /\ Good(con[c])
  BY <1>1 DEF HirInv, Control
<1>4. Wires' /\ AllStayFresh
  BY <1>1, <1>2, <1>3, FailWires
<1>5. StaticType' /\ LaterFresh' /\ Given'
  BY <1>1, <1>2, <1>4, SameStatic, LaterCalls, SameAnswer
<1>. QED  BY <1>1, <1>2, <1>4, <1>5, PipelineFails

\* The reply that comes is the one to the sub-command that is fetched, and
\* the rest of the pipeline is in order after it.
LEMMA ReplyCollected ==
    ASSUME HirInv, pc = "collect", con[c].in # <<>>, Read, executed' = executed, table' = table, draining' = draining
    PROVE  /\ con[c].in[1] \in Replies /\ con[c].in[1].id = cur.id /\ con[c].in[1].slot = AtSlot
           /\ Wires' /\ AllStayFresh
           /\ Pending' = Pending \ {<<cur.id, AtSlot>>} => Pipeline'
<1>. DEFINE p == <<cur.id, AtSlot>>
            x == con[c]
            y == con'[c]
<1>1. pc \in Fetching /\ Waiting
  BY DEF Fetching, Waiting
<1>2. /\ Wires /\ ~err /\ draining \in BOOLEAN /\ AtSlot \in Slots /\ pc # "reset" /\ piping = TRUE
      /\ \A k \in Keys : /\ Good(con[k]) => Queued(con[k], k, Pending)
                         /\ ~draining => Kept(con[k], k, Pending)
  BY <1>1, DuringFetch
<1>3. c \in Keys /\ Good(x) /\ c = table[AtSlot]
  BY <1>1 DEF HirInv, Control
<1>4. /\ Wires' /\ AllStayFresh
      /\ y \in Contexts /\ Good(y) /\ y.up = x.up /\ y.in = Tail(x.in)
      /\ All(y) = Tail(All(x))
      /\ \A k \in Keys \ {c} : con'[k] = con[k]
  BY <1>2, <1>3, ReadWires
<1>5. x \in Contexts
  BY <1>2, <1>3, GoodContext
<1>6. /\ p \in Pending /\ p[2] = AtSlot /\ Pending \in SUBSET Subs
      /\ \A q \in Pending : q = p \/ Before(p, q)
  BY <1>1, <1>2, FetchPending, DuringPipe
<1>7. /\ Sub(All(x)[1]) = p
      /\ Queued(y, c, Pending \ {p})
      /\ Kept(x, c, Pending) => Kept(y, c, Pending \ {p})
  <2>1. Queued(x, c, Pending) /\ table[p[2]] = c
    BY <1>2, <1>3, <1>6
  <2>2. Fetched(x, y, c, Pending, p)
    BY <1>4, <1>5, <1>6, <2>1, Zenon DEF Fetched
  <2>. QED  BY <2>2, ReadQueued, Zenon
<1>8. x.in[1] \in Replies /\ All(x)[1] = x.in[1]
  BY <1>5, Carried
<1>9. x.in[1].id = cur.id /\ x.in[1].slot = AtSlot
  BY <1>7, <1>8 DEF Sub
<1>10. ASSUME Pending' = Pending \ {p} PROVE Pipeline'
  <2>1. ASSUME NEW k \in Keys
        PROVE  /\ Good(con'[k]) => Queued(con'[k], k, Pending \ {p})
               /\ ~draining' => Kept(con'[k], k, Pending \ {p})
    <3>1. CASE k = c
      BY <1>2, <1>3, <1>7, <3>1
    <3>2. CASE k # c
      <4>1. con'[k] = con[k] /\ table[p[2]] # k
        BY <1>3, <1>4, <1>6, <3>2
      <4>2. Queued(con[k], k, Pending) => Queued(con[k], k, Pending \ {p})
        BY <4>1, OtherCollected
      <4>3. Kept(con[k], k, Pending) => Kept(con[k], k, Pending \ {p})
        BY <4>1, OtherNode
      <4>. QED  BY <1>2, <4>1, <4>2, <4>3
    <3>. QED  BY <3>1, <3>2
  <2>. QED  BY <1>10, <2>1, PipelineThen
<1>. QED  BY <1>4, <1>8, <1>9, <1>10

\* The next reply is fetched.
LEMMA CollectedKeeps == ASSUME HirInv, Collected PROVE HirInv'
<1>1. PICK r \in Incoming :
         /\ Read
         /\ LET got == Append(cur.got, r)
            IN  IF Len(got) < Len(cur.todo)
                THEN cur' = [cur EXCEPT !.got = got] /\ pc' = "get" /\ UNCHANGED <<c, tried, answer>>
                ELSE Idle /\ answer' = [id |-> cur.id, slots |-> cur.todo, got |-> got]
  BY DEF Collected
<1>. DEFINE got == Append(cur.got, r)
<1>2. /\ pc = "collect" /\ pc \in Fetching /\ Waiting /\ calls' = calls
      /\ UNCHANGED <<server, executed, route, err, requests, piping, draining>>
  BY DEF Collected, bounds, Fetching, Waiting
<1>3. /\ pc \in Working /\ piping = TRUE /\ pc # "reset" /\ ~err /\ draining \in BOOLEAN
      /\ Types /\ Wires /\ StaticType /\ LaterFresh /\ RequestsType
      /\ calls \in 0 .. MaxCalls /\ c \in Keys \cup {None}
      /\ cur \in Jobs /\ cur.id \in 1 .. calls
      /\ Increasing(cur.todo) /\ Len(cur.got) < Len(cur.todo)
      /\ Len(cur.got) \in Nat /\ Len(cur.todo) \in Nat
      /\ AtSlot = cur.todo[Len(cur.got) + 1]
      /\ Matched(cur.id, cur.todo, cur.got)
      /\ \A j \in 1 .. Len(requests) : cur.id < requests[j].id
  BY <1>2, DuringFetch
<1>4. r = con[c].in[1] /\ con[c].in # <<>>
  <2>1. con[c] \in Contexts
    BY <1>2, <1>3, GoodContext DEF HirInv, Control
  <2>. DEFINE s == con[c].in
  <2>2. s \in Seq(Replies)
    BY <2>1, Parts
  <2>3. \E i \in DOMAIN s \cap {1} : r = s[i]
    BY <1>1 DEF Incoming
  <2>. HIDE DEF s
  <2>4. r = s[1] /\ 1 \in DOMAIN s
    BY <2>3
  <2>5. s # <<>>
    BY <2>2, <2>4
  <2>. QED  BY <2>4, <2>5 DEF s
<1>5. /\ r \in Replies /\ r.id = cur.id /\ r.slot = AtSlot
      /\ Wires' /\ AllStayFresh
      /\ Pending' = Pending \ {<<cur.id, AtSlot>>} => Pipeline'
  <2>1. table' = table /\ executed' = executed /\ draining' = draining
    BY <1>2 DEF route
  <2>. QED  BY <1>1, <1>2, <1>4, <2>1, ReplyCollected
<1>6. StaticType' /\ LaterFresh' /\ RequestsType' /\ calls' \in 0 .. MaxCalls
  BY <1>2, <1>3, <1>5, SameStatic, LaterCalls, RequestsStay
<1>7. /\ got \in Seq(Sent \cup Replies) /\ Len(got) = Len(cur.got) + 1
      /\ Matched(cur.id, cur.todo, got) /\ [cur EXCEPT !.got = got] \in Jobs
  BY <1>3, <1>5, OneMore
<1>8. /\ Pending \ {<<cur.id, AtSlot>>} =
            Listed(requests) \cup PartOf(cur.id, cur.todo, Len(cur.got) + 2, Len(cur.todo))
      /\ Len(cur.got) + 1 >= Len(cur.todo) => PartOf(cur.id, cur.todo, Len(cur.got) + 2, Len(cur.todo)) = {}
  BY <1>2, FetchPending
<1>9. /\ piping' = TRUE /\ err' \in BOOLEAN /\ ~err' /\ draining' \in BOOLEAN /\ requests' = requests
  BY <1>2, <1>3 DEF Types, CallType
<1>10. CASE Len(got) < Len(cur.todo)
  <2>1. cur' = [cur EXCEPT !.got = got] /\ pc' = "get" /\ c' = c /\ answer' = answer
    BY <1>1, <1>10
  <2>2. cur' \in Jobs /\ cur'.id = cur.id /\ cur'.todo = cur.todo /\ cur'.got = got
    BY <1>3, <1>7, <2>1 DEF Jobs
  <2>3. Matched(cur'.id, cur'.todo, cur'.got) /\ Increasing(cur'.todo)
    BY <1>3, <1>7, <2>2, Zenon
  <2>4. Len(cur'.got) + 1 = Len(cur.got) + 2 /\ Len(cur'.todo) = Len(cur.todo) /\ Len(cur'.got) < Len(cur'.todo)
        /\ cur'.id \in 1 .. calls'
    BY <1>2, <1>3, <1>7, <1>10, <2>2
  <2>5. \A j \in 1 .. Len(requests') : cur'.id < requests'[j].id
    BY <1>3, <1>9, <2>2
  <2>6. pc' \in Fetching /\ pc' # "append" /\ pc' # "collect"
    BY <2>1 DEF Fetching
  <2>7. Pending' = Listed(requests') \cup PartOf(cur'.id, cur'.todo, Len(cur'.got) + 1, Len(cur'.todo))
    BY <2>6, PendingIs
  <2>8. Pipeline'
    BY <1>5, <1>8, <1>9, <2>2, <2>4, <2>7
  <2>9. Given' /\ c' \in Keys \cup {None}
    BY <1>3, <2>1, SameAnswer DEF HirInv
  <2>. QED  BY <1>5, <1>6, <1>9, <2>2, <2>3, <2>4, <2>5, <2>6, <2>8, <2>9, PipelineGoesOn
<1>11. CASE ~(Len(got) < Len(cur.todo))
  <2>1. Idle /\ answer' = [id |-> cur.id, slots |-> cur.todo, got |-> got]
    BY <1>1, <1>11
  <2>2. Given'
    BY <1>3, <1>7, <2>1, AnswerGiven
  <2>3. cur' \in Jobs /\ c' \in Keys \cup {None} /\ pc' = (IF draining THEN "drain" ELSE "idle")
    BY <2>1, NothingIsTyped DEF Idle
  <2>4. /\ pc' \in Fetching \cup {"append", "idle", "drain"} /\ pc' \notin Fetching \cup {"append"}
        /\ (draining' <=> pc' = "drain") /\ pc' # "collect"
    BY <1>2, <1>3, <2>3 DEF Fetching
  <2>5. Pending' = Listed(requests')
    BY <2>4, PendingIs
  <2>6. Len(cur.got) + 1 >= Len(cur.todo)
    BY <1>3, <1>7, <1>11
  <2>7. Pipeline'
    BY <1>5, <1>8, <1>9, <2>5, <2>6
  <2>. QED  BY <1>5, <1>6, <1>9, <2>2, <2>3, <2>4, <2>7, PipelineGoesOn
<1>. QED  BY <1>10, <1>11

\* redisClusterReset begins: what is sent is in order.
LEMMA ResetKeeps == ASSUME HirInv, Reset PROVE HirInv'
<1>1. /\ pc = "idle" /\ piping /\ (IF err THEN UNCHANGED <<con, orphans>> ELSE SendAll)
      /\ draining' = TRUE /\ pc' = "drain" /\ answer' = NoAnswer /\ calls' = calls
      /\ UNCHANGED <<server, executed, route, err, requests, piping, cur, c>>
  BY DEF Reset, bounds
<1>2. Types /\ OnceNow /\ Wires /\ StaticType /\ LaterFresh
  BY DuringWork
<1>3. /\ calls \in 0 .. MaxCalls /\ cur \in Jobs /\ c \in Keys \cup {None}
      /\ {err, piping, draining} \subseteq BOOLEAN
      /\ ~err => \A k \in Keys : Good(con[k]) => Queued(con[k], k, Pending)
  BY <1>1, DuringPipe
<1>4. Wires' /\ AllStayFresh
  BY <1>1, <1>2, SameWires, SendWires
<1>5. StaticType' /\ LaterFresh' /\ Given' /\ RequestsType'
  BY <1>1, <1>2, <1>3, <1>4, SameStatic, LaterCalls, NoAnswerGiven, RequestsStay
<1>6. Pipeline'
  <2>1. CASE err
    BY <1>1, <2>1 DEF Pipeline
  <2>2. CASE ~err
    <3>1. pc \notin Fetching \cup {"append"} /\ pc' \notin Fetching \cup {"append"} /\ table' = table /\ requests' = requests
      BY <1>1 DEF Fetching, route
    <3>2. Pending' = Pending
      BY <3>1, PendingIs
    <3>3. ASSUME NEW k \in Keys, Good(con'[k]) PROVE Queued(con'[k], k, Pending)
      <4>1. \/ con'[k] = con[k]
            \/ /\ con'[k] \in Contexts
               /\ \/ Empty(con'[k])
                  \/ /\ con[k] \in Contexts /\ Good(con[k])
                     /\ con'[k].in = con[k].in /\ con'[k].up = con[k].up /\ All(con'[k]) = All(con[k])
        BY <1>1, <1>2, <2>2, SendWires
      <4>2. CASE con'[k] = con[k]
        BY <1>3, <2>2, <3>3, <4>2
      <4>3. CASE con'[k] \in Contexts /\ Empty(con'[k])
        BY <4>3, EmptyQueued
      <4>4. CASE /\ Good(con[k])
                 /\ con'[k].in = con[k].in /\ con'[k].up = con[k].up /\ All(con'[k]) = All(con[k])
        <5>1. Queued(con[k], k, Pending)
          BY <1>3, <2>2, <4>4
        <5>2. QueuedSeq(All(con[k]), Len(con[k].in), con[k].up, k, Pending)
          BY <5>1, QueuedIs
        <5>3. QueuedSeq(All(con'[k]), Len(con'[k].in), con'[k].up, k, Pending)
          BY <4>4, <5>2, Zenon
        <5>. QED  BY <5>3, QueuedIs
      <4>. QED  BY <4>1, <4>2, <4>3, <4>4
    <3>. QED  BY <1>1, <3>1, <3>2, <3>3, PipelineThen
  <2>. QED  BY <1>3, <2>1, <2>2
<1>7. /\ pc' \in Fetching \cup {"append", "idle", "drain"} /\ pc' \notin Fetching \cup {"append"}
      /\ (draining' <=> pc' = "drain") /\ draining' \in BOOLEAN /\ pc' # "collect"
      /\ piping' = TRUE /\ err' \in BOOLEAN /\ calls' \in 0 .. MaxCalls /\ cur' \in Jobs /\ c' \in Keys \cup {None}
  BY <1>1, <1>3 DEF Fetching
<1>. QED  BY <1>4, <1>5, <1>6, <1>7, PipelineGoesOn

\* Every connection is closed.
LEMMA AllClosed ==
    ASSUME Wires, ClearAll, executed' = executed
    PROVE  Wires' /\ AllStayFresh /\ \A k \in Keys : con'[k] = NoCon
<1>1. con' = [k \in Keys |-> IF k \in Keys THEN NoCon ELSE con[k]]
  BY DEF ClearAll
<1>2. orphans' = orphans \cup UNION {redisFree(con[k]) : k \in Keys}
  BY DEF ClearAll
<1>3. \A k \in Keys : con'[k] = NoCon
  BY <1>1
<1>. QED  BY <1>1, <1>2, <1>3, CloseWires

\* redisClusterReset ends: every reply has been fetched, or every connection
\* is closed.
LEMMA DrainedKeeps == ASSUME HirInv, Drained PROVE HirInv'
<1>1. /\ pc = "drain" /\ (err \/ requests = <<>>)
      /\ IF err THEN ClearAll ELSE UNCHANGED <<con, orphans>>
      /\ err' = FALSE /\ requests' = <<>> /\ draining' = FALSE
      /\ calls' = calls
      /\ UNCHANGED <<server, executed, route, cur, c, answer>>
  BY DEF Drained, bounds
<1>2. IF need_update_route
      THEN pc' = "reset" /\ UNCHANGED piping
      ELSE pc' = "idle" /\ piping' = FALSE
  BY DEF Drained
<1>3. piping = TRUE
  BY <1>1 DEF HirInv, Control, Types, CallType
<1>4. Types /\ OnceNow /\ Wires /\ StaticType /\ LaterFresh /\ con \in Connections
  BY DuringWork
<1>5. /\ calls \in 0 .. MaxCalls /\ cur \in Jobs /\ c \in Keys \cup {None} /\ Given /\ requests \in Seq(Jobs)
      /\ ~err => \A k \in Keys : Good(con[k]) => Queued(con[k], k, Pending)
  BY <1>1, <1>3, DuringPipe
<1>6. Wires' /\ AllStayFresh
  BY <1>1, <1>4, SameWires, AllClosed
<1>7. StaticType' /\ LaterFresh' /\ Given'
  BY <1>1, <1>4, <1>5, <1>6, SameStatic, LaterCalls, SameAnswer
<1>8. ASSUME NEW k \in Keys, Good(con'[k]) PROVE Empty(con'[k])
  <2>1. CASE err
    BY <1>1, <1>4, <1>8, <2>1, AllClosed DEF Good
  <2>2. CASE ~err
    <3>1. con' = con /\ requests = <<>> /\ pc \notin Fetching \cup {"append"}
      BY <1>1, <2>2 DEF Fetching
    <3>2. Listed(requests) = {}
      BY <1>5, <3>1, ListedIs
    <3>3. Pending = {}
      BY <3>1, <3>2, PendingIs
    <3>4. Queued(con[k], k, {}) /\ con[k] \in Contexts
      BY <1>4, <1>5, <1>8, <2>2, <3>1, <3>3 DEF Connections, Good
    <3>. QED  BY <3>1, <3>4, NothingQueued
  <2>. QED  BY <2>1, <2>2
<1>9. pc' \in {"idle", "connect", "reset"} /\ piping' = (pc' = "reset")
  BY <1>2, <1>3
<1>. QED  BY <1>1, <1>5, <1>6, <1>7, <1>8, <1>9, CallEnds

\* redisClusterFree.
LEMMA FreeKeeps == ASSUME HirInv, Free PROVE HirInv'
<1>1. /\ pc = "idle" /\ pc' = "freed" /\ ClearAll /\ requests' = <<>> /\ calls' = calls
      /\ UNCHANGED <<server, executed, route, err, piping, draining, cur, c, answer>>
  BY DEF Free, bounds
<1>2. Types /\ OnceNow /\ Wires /\ StaticType /\ LaterFresh /\ con \in Connections
  BY DuringWork
<1>3. /\ calls \in 0 .. MaxCalls /\ cur \in Jobs /\ c \in Keys \cup {None}
      /\ {err, piping, draining} \subseteq BOOLEAN /\ Given /\ ~draining
  BY <1>1, <1>2 DEF Types, CallType, HirInv, Control
<1>4. Wires' /\ AllStayFresh /\ \A k \in Keys : con'[k] = NoCon
  BY <1>1, <1>2, AllClosed
<1>5. StaticType' /\ LaterFresh' /\ Given'
  BY <1>1, <1>2, <1>3, <1>4, SameStatic, LaterCalls, SameAnswer
<1>6. pc' \notin Working /\ pc' \in Pcs /\ pc' \notin Calling \cup Fetching \cup {"append"} /\ ~Waiting'
  BY <1>1 DEF Working, Calling, Fetching, Pcs, Waiting
<1>7. CallType'
  BY <1>1, <1>3, <1>6, NoRequests DEF CallType
<1>8. Types' /\ OnceNow'
  BY <1>4, <1>5, <1>7, TypesAre
<1>9. Control'
  BY <1>1, <1>3, <1>6 DEF Control
<1>10. Unsent'
  BY <1>5, <1>6 DEF Unsent, LaterFresh
<1>11. Quiet' /\ Awaited' /\ Collecting'
  BY <1>4, <1>6 DEF Quiet, Awaited, Collecting, Good
<1>12. Pipeline'
  <2>1. Listed(<<>>) = {}
    <3>1. <<>> \in Seq(Jobs)
      OBVIOUS
    <3>. QED  BY <3>1, ListedIs
  <2>2. Pending' = {}
    BY <1>1, <1>6, <2>1, PendingIs
  <2>3. table' = table
    BY <1>1 DEF route
  <2>4. \A k \in Keys : /\ Good(con'[k]) => Queued(con'[k], k, {})
                        /\ ~draining' => Kept(con'[k], k, {})
    BY <1>4 DEF Good, Kept
  <2>. QED  BY <2>2, <2>3, <2>4, PipelineThen
<1>. QED  BY <1>5, <1>8, <1>9, <1>10, <1>11, <1>12 DEF HirInv, OnceNow

-----------------------------------------------------------------------------
(***************************************************************************)
(* The invariant.                                                          *)
(***************************************************************************)

\* The client as redisClusterConnect2 begins.
LEMMA InitHolds == ASSUME Init PROVE HirInv
<1>1. /\ alive \in Running /\ orphans = {} /\ executed = [i \in 1 .. MaxCalls |-> [s \in Slots |-> 0]]
      /\ nodes = Addrs /\ host = [k \in Slots \cup {Leaked} |-> None] /\ con = [k \in Keys |-> NoCon]
      /\ table = [s \in Slots |-> None] /\ mig = [s \in Slots |-> None]
      /\ err = FALSE /\ requests = <<>> /\ pc = "connect" /\ cur = NoCall /\ c = None
      /\ piping = FALSE /\ draining = FALSE /\ answer = NoAnswer /\ calls = 0
  BY DEF Init, Seeds
<1>2. PICK o \in Owners : view = [a \in Addrs |-> o]
  BY DEF Init
<1>3. ServerType
  <2>1. alive \subseteq Addrs /\ o \in [Slots -> Addrs]
    BY <1>1, HirConstants
  <2>2. view \in [Addrs -> [Slots -> Addrs]]
    BY <1>2, <2>1
  <2>3. executed \in [1 .. MaxCalls -> [Slots -> Nat]]
    BY <1>1
  <2>4. mig \in [Slots -> Addrs \cup {None}] /\ orphans \subseteq Orphans
    BY <1>1
  <2>. QED  BY <2>1, <2>2, <2>3, <2>4 DEF ServerType
<1>4. RouteType
  <2>1. con \in [Keys -> Contexts \cup {NoCon}] /\ table \in [Slots -> Addrs \cup {None}]
    BY <1>1
  <2>2. host \in [Slots \cup {Leaked} -> Addrs \cup {None}] /\ nodes \subseteq Addrs \cup Slots
        /\ nodes \ Addrs = {}
    BY <1>1
  <2>. QED  BY <2>1, <2>2 DEF RouteType
<1>5. pc \notin Working /\ pc \in Pcs /\ ~Waiting /\ pc \notin Calling \cup Fetching \cup {"append", "reset"}
  BY <1>1 DEF Working, Calling, Fetching, Pcs, Waiting
<1>6. CallType
  <2>1. requests \in Seq(Jobs) /\ Len(requests) = 0
    BY <1>1
  <2>2. calls \in 0 .. MaxCalls /\ cur \in Jobs
    BY <1>1, Constants, NothingIsTyped
  <2>3. \A j : j \notin 1 .. Len(requests)
    BY <2>1
  <2>. QED  BY <1>1, <1>5, <2>1, <2>2, <2>3 DEF CallType
<1>7. \A k \in Keys : con[k] = NoCon /\ Unserved(con[k]) = <<>> /\ Len(Unserved(con[k])) = 0
  BY <1>1 DEF Unserved
<1>8. \A i \in 1 .. MaxCalls, s \in Slots : executed[i][s] = 0
  BY <1>1
<1>9. Once(con, orphans, executed)
  <2>1. \A k \in Keys : \A n : n \notin 1 .. Len(Unserved(con[k]))
    BY <1>7
  <2>. QED  BY <1>1, <1>8, <2>1 DEF Once
<1>10. Unsent
  <2>1. \A i \in 1 .. MaxCalls, s \in Slots : Fresh(i, s)
    BY <1>1, <1>7, <1>8 DEF Fresh, Clear
  <2>. QED  BY <1>1, <1>5, <2>1 DEF Unsent
<1>11. Control /\ Quiet /\ Awaited /\ Collecting
  BY <1>1, <1>5, <1>7 DEF Control, Quiet, Awaited, Collecting, Good
<1>12. Given
  <2>1. NoAnswer \in [id : 0 .. MaxCalls, slots : Seq(Slots), got : Seq(Sent \cup Replies)]
    <3>1. <<>> \in Seq(Slots) /\ <<>> \in Seq(Sent \cup Replies) /\ 0 \in 0 .. MaxCalls
      BY Constants
    <3>. QED  BY <3>1 DEF NoAnswer
  <2>2. Matched(NoAnswer.id, NoAnswer.slots, NoAnswer.got)
    <3>1. Len(NoAnswer.got) = 0
      BY DEF NoAnswer
    <3>. QED  BY <3>1 DEF Matched
  <2>. QED  BY <1>1, <2>1, <2>2 DEF Given
<1>13. Pipeline
  BY <1>1 DEF Pipeline
<1>. QED  BY <1>3, <1>4, <1>6, <1>9, <1>10, <1>11, <1>12, <1>13 DEF HirInv, Types

\* A step that changes nothing.
LEMMA StutterKeeps == ASSUME HirInv, UNCHANGED vars PROVE HirInv'
<1>. USE DEF vars, server, route, pipe, control, bounds
<1>1. Types'
  BY DEF HirInv, Types, ServerType, RouteType, CallType
<1>2. Control'
  BY DEF HirInv, Control, Waiting, AtSlot
<1>3. Once(con, orphans, executed)' /\ Unsent'
  BY DEF HirInv, Unsent, Fresh
<1>4. Quiet' /\ Awaited'
  BY DEF HirInv, Quiet, Awaited, Waiting, Fresh, AtSlot
<1>5. Collecting' /\ Given'
  BY DEF HirInv, Collecting, Given
<1>6. Pipeline'
  <2>1. Pending' = Pending
    BY PendingIs
  <2>2. CASE piping /\ ~err /\ pc # "reset"
    <3>1. \A k \in Keys : /\ Good(con'[k]) => Queued(con'[k], k, Pending)
                          /\ ~draining' => Kept(con'[k], k, Pending)
      BY <2>2 DEF HirInv, Pipeline
    <3>. QED  BY <2>1, <3>1, PipelineThen
  <2>3. CASE ~(piping /\ ~err /\ pc # "reset")
    BY <2>3 DEF Pipeline
  <2>. QED  BY <2>2, <2>3
<1>. QED  BY <1>1, <1>2, <1>3, <1>4, <1>5, <1>6 DEF HirInv

\* Every step keeps the invariant, when the caller resets the pipeline after
\* an error.
LEMMA NextKeeps == ASSUME HirInv, Careful, [Next]_vars PROVE HirInv'
<1>1. CASE execute
  BY <1>1, UnreachedKeeps, RetryKeeps, TryNodeKeeps, PongKeeps, SilenceKeeps, AcceptKeeps, MovedKeeps, AskKeeps,
     AskingReplyKeeps DEF execute
<1>2. CASE update
  BY <1>2, UpdateKeeps, UpdateTryKeeps DEF update
<1>3. CASE pipeline
  BY <1>3, AppendSubKeeps, CollectKeeps, CollectedKeeps, CollectFailsKeeps, DrainedKeeps, GetReplyKeeps DEF pipeline
<1>4. CASE caller
  BY <1>4, CallKeeps, AppendCallKeeps, GetReplyKeeps, ResetKeeps, FreeKeeps DEF caller
<1>5. CASE Write \/ environment
  BY <1>5, DriftKeeps
<1>6. CASE UNCHANGED vars
  BY <1>6, StutterKeeps
<1>. QED  BY <1>1, <1>2, <1>3, <1>4, <1>5, <1>6 DEF Next, client

\* The invariant says what the properties say.
LEMMA HirInvImplies == ASSUME HirInv PROVE ReplyMatches /\ AtMostOnce /\ NothingOutstanding
<1>1. ReplyMatches
  <2>. DEFINE g == answer.got
  <2>1. g \in Seq(Sent \cup Replies) /\ \A i \in 1 .. Len(g) : g[i].id = answer.id /\ g[i].slot = answer.slots[i]
    BY DEF HirInv, Given, Matched
  <2>. HIDE DEF g
  <2>2. DOMAIN g = 1 .. Len(g)
    BY <2>1
  <2>3. \A i \in DOMAIN g : g[i].id = answer.id /\ g[i].slot = answer.slots[i]
    BY <2>1, <2>2
  <2>. QED  BY <2>3 DEF ReplyMatches, g
<1>2. AtMostOnce
  BY DEF HirInv, Once, AtMostOnce
<1>3. NothingOutstanding
  <2>. SUFFICES ASSUME pc = "idle", ~piping, NEW k \in nodes, con[k] # NoCon, ~con[k].err
                PROVE  con[k].out \o con[k].wire \o con[k].in = <<>>
    BY DEF NothingOutstanding
  <2>1. k \in Keys
    BY DEF HirInv, Types, RouteType, Keys
  <2>2. ~Waiting /\ Good(con[k])
    BY DEF Waiting, Good
  <2>3. Empty(con[k])
    BY <2>1, <2>2 DEF HirInv, Quiet
  <2>. QED  BY <2>3 DEF Empty
<1>. QED  BY <1>1, <1>2, <1>3

-----------------------------------------------------------------------------
(***************************************************************************)
(* The theorems, for a caller that does as hircluster.c:3921 asks.         *)
(***************************************************************************)

\* The invariant holds in every state.
LEMMA Invariant == ASSUME Careful PROVE Spec => []HirInv
<1>1. Init => HirInv
  BY InitHolds
<1>2. HirInv /\ [Next]_vars => HirInv'
  BY NextKeeps
<1>. QED  BY <1>1, <1>2, PTL DEF Spec

\* The replies that redisClusterCommand and redisClusterGetReply give are
\* those to the sub-commands of their own command, in the order of its
\* slots, whatever is redirected, retried, timed out or reconnected.
THEOREM RepliesMatch == ASSUME Careful PROVE Spec => []ReplyMatches
<1>1. HirInv => ReplyMatches
  BY HirInvImplies
<1>2. Spec => []HirInv
  BY Invariant
<1>. QED  BY <1>1, <1>2, PTL

\* redis_cluster_command_execute sends a command again only after a reply
\* that says that it was not executed.
THEOREM ExecutedAtMostOnce == ASSUME Careful PROVE Spec => []AtMostOnce
<1>1. HirInv => AtMostOnce
  BY HirInvImplies
<1>2. Spec => []HirInv
  BY Invariant
<1>. QED  BY <1>1, <1>2, PTL

\* When a call has ended, or redisClusterReset has, no good context of
\* cc->nodes carries anything.
THEOREM NothingLeft == ASSUME Careful PROVE Spec => []NothingOutstanding
<1>1. HirInv => NothingOutstanding
  BY HirInvImplies
<1>2. Spec => []HirInv
  BY Invariant
<1>. QED  BY <1>1, <1>2, PTL
=============================================================================
