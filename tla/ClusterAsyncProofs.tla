------------------------- MODULE ClusterAsyncProofs -------------------------
(***************************************************************************)
(* Proofs about ClusterAsync, for every set of servers, slots and contexts *)
(* and for every number of commands, redirections and moves of slots.      *)
(*                                                                         *)
(* The inductive invariant, Inv, is TypeOK, ExecOK, which is ExecutedOnce, *)
(* and, until memory that has been freed is used, Tracked:                 *)
(*    OwnsOK       the callback of a command is waited for in one place of *)
(*                 one context, or is in one call on the stack, or in none *)
(*    LinesOK      what is under way on a connection, the replies read and *)
(*                 to be read and the commands to be written, is about the *)
(*                 commands whose callbacks the context waits for, in that *)
(*                 order; commands and redirections have not been executed *)
(*    RepliesTrue  the reply in a call is that to the command of the call  *)
(*    UnusedOK     nothing is under way on a context that is still to come *)
(* A command is therefore never sent again when it may have been executed: *)
(* it is sent again only for a redirection, which says it has not, and     *)
(* what a freed context has still on its way has no callback any more.     *)
(***************************************************************************)
EXTENDS ClusterAsync, SequenceTheorems, FiniteSetTheorems, TLAPS

-----------------------------------------------------------------------------
(***************************************************************************)
(* Types.                                                                  *)
(***************************************************************************)
Callbacks == {NullCb} \cup {Callback(id) : id \in Nat \ {0}}
Commands == [id : Nat, kind : {"get", "asking"}, names : {<<>>}, slot : Slots]
Replies == [kind : {"reply", "moved", "again"}, id : Nat] \cup [kind : {"ask"}, id : Nat, server : Servers]
Results == Replies \cup {NULL}
Flags == {"CONNECTED", "IN_CALLBACK", "FREEING", "DISCONNECTING"}
Routes == [Slots -> Servers]

\* a context without subscriptions
Context(life, flags, err, replies, obuf, ibuf, ev) ==
    [life |-> life, flags |-> flags, err |-> err, replies |-> replies, invalid |-> <<>>,
     channels |-> dictCreate, patterns |-> dictCreate, obuf |-> obuf, ibuf |-> ibuf, ev |-> ev]

\* ... which has the fields of a
HasFields(a) == a = Context(a.life, a.flags, a.err, a.replies, a.obuf, a.ibuf, a.ev)

IsContext(a) ==
    /\ HasFields(a)
    /\ a.life \in {"unused", "alive", "freed"}
    /\ a.flags \in SUBSET Flags
    /\ a.err \in BOOLEAN
    /\ a.replies \in Seq(Callbacks)
    /\ a.obuf \in Seq(Commands)
    /\ a.ibuf \in Seq(Replies)
    /\ a.ev \in SUBSET {"r", "w"}

ContextsOK(acs) ==
    /\ acs = [c \in Contexts |-> acs[c]]
    /\ \A c \in Contexts : IsContext(acs[c])

Connections == [out : Seq(Replies), up : BOOLEAN, subs : {{}}, mon : {FALSE}, peer : Servers \cup {""},
                asking : BOOLEAN]
Pairs == [server : Servers, acon : Contexts \cup {None}, failure_count : Nat]

Pending(f) == f.at \in {"callback", "route", "user"}

Frames ==
    [at : {"process"}, c : Contexts, cb : Callbacks]
    \cup [at : {"free"}, c : Contexts, subs : {<<>>}]
    \cup [at : {"callback", "user"}, c : Contexts, cb : Callbacks \ {NullCb}, reply : Results]
    \cup [at : {"route", "user"}, c : Contexts, cb : Callbacks \ {NullCb}, reply : Results, table : Routes]
    \cup [at : {"release"}, c : {None}]

\* the calls that have not returned, when n commands have been given
StackOK(st, n) ==
    /\ st \in Seq(Frames)
    /\ \A p \in 1 .. Len(st) :
          /\ Pending(st[p]) => st[p].cb.id \in 1 .. n
          /\ st[p].at = "process" => p = 1

\* the commands of the user and what is kept about each of them
CommandsOK ==
    /\ cads \in Seq({"out", "freed", "dropped"})
    /\ cmds \in Seq(Commands)
    /\ calls \in Seq(Seq(Results))
    /\ answers \in Seq(Seq(Results))
    /\ executed \in Seq(Nat)
    /\ retries \in Seq(Nat)
    /\ Len(cmds) = Len(cads) /\ Len(calls) = Len(cads) /\ Len(answers) = Len(cads)
    /\ Len(executed) = Len(cads) /\ Len(retries) = Len(cads)
    /\ \A i \in 1 .. Len(cmds) : cmds[i].id = i /\ cmds[i].kind = "get"

Keyed(ns) ==
    /\ ns = [k \in DOMAIN ns |-> ns[k]]
    /\ \A k \in DOMAIN ns : ns[k] \in Pairs

OnContexts(d) == d = [c \in Contexts |-> d[c]]

RouteOK ==
    /\ Keyed(nodes)
    /\ table \in Routes
    /\ "freed" \notin notes => \A slot \in Slots : table[slot] \in DOMAIN nodes
    /\ OnContexts(data)
    /\ timer \in BOOLEAN

ServersOK ==
    /\ owner \in Routes
    /\ before \in Routes
    /\ importing \in [Slots -> Servers \cup {None}]
    /\ useSlots \in BOOLEAN

\* the callbacks that a context waits for are those of commands
Waits(a) == {a.replies[k] : k \in 1 .. Len(a.replies)}
IdsOK(acs, n) == \A c \in Contexts : \A cb \in Waits(acs[c]) : cb.id \in 0 .. n

TypeOK ==
    /\ ContextsOK(ac)
    /\ IdsOK(ac, Len(cads))
    /\ net \in [Contexts -> Connections]
    /\ StackOK(stack, Len(cads))
    /\ accErr \in BOOLEAN
    /\ CommandsOK
    /\ RouteOK
    /\ ServersOK

-----------------------------------------------------------------------------
(***************************************************************************)
(* Contexts.                                                               *)
(***************************************************************************)
\* A context with its flags changed.
LEMMA SetFlags ==
    ASSUME NEW a, HasFields(a), NEW v, NEW b, b = [a EXCEPT !.flags = v]
    PROVE  b = Context(a.life, v, a.err, a.replies, a.obuf, a.ibuf, a.ev)
<1> QED
    BY DEF HasFields, Context

\* A context with its error changed.
LEMMA SetErr ==
    ASSUME NEW a, HasFields(a), NEW v, NEW b, b = [a EXCEPT !.err = v]
    PROVE  b = Context(a.life, a.flags, v, a.replies, a.obuf, a.ibuf, a.ev)
<1> QED
    BY DEF HasFields, Context

\* A context with its list of callbacks changed.
LEMMA SetReplies ==
    ASSUME NEW a, HasFields(a), NEW v, NEW b, b = [a EXCEPT !.replies = v]
    PROVE  b = Context(a.life, a.flags, a.err, v, a.obuf, a.ibuf, a.ev)
<1> QED
    BY DEF HasFields, Context

\* A context with what it has read changed.
LEMMA SetInput ==
    ASSUME NEW a, HasFields(a), NEW v, NEW b, b = [a EXCEPT !.ibuf = v]
    PROVE  b = Context(a.life, a.flags, a.err, a.replies, a.obuf, v, a.ev)
<1> QED
    BY DEF HasFields, Context

\* A context with its life changed.
LEMMA SetLife ==
    ASSUME NEW a, HasFields(a), NEW v, NEW b, b = [a EXCEPT !.life = v]
    PROVE  b = Context(v, a.flags, a.err, a.replies, a.obuf, a.ibuf, a.ev)
<1> QED
    BY DEF HasFields, Context

\* A context with its buffer and events changed.
LEMMA SetBuffer ==
    ASSUME NEW a, HasFields(a), NEW v, NEW w, NEW b, b = [a EXCEPT !.obuf = v, !.ev = w]
    PROVE  b = Context(a.life, a.flags, a.err, a.replies, v, a.ibuf, w)
<1>1. PICK x : x = [a EXCEPT !.obuf = v]
    OBVIOUS
<1>2. b = [x EXCEPT !.ev = w]
    BY <1>1
<1>3. x = Context(a.life, a.flags, a.err, a.replies, v, a.ibuf, a.ev)
    BY <1>1 DEF HasFields, Context
<1> QED
    BY <1>2, <1>3 DEF Context

\* A context with its error and events changed.
LEMMA SetRefused ==
    ASSUME NEW a, HasFields(a), NEW v, NEW w, NEW b, b = [a EXCEPT !.err = v, !.ev = w]
    PROVE  b = Context(a.life, a.flags, v, a.replies, a.obuf, a.ibuf, w)
<1>1. PICK x : x = [a EXCEPT !.err = v]
    OBVIOUS
<1>2. b = [x EXCEPT !.ev = w]
    BY <1>1
<1>3. x = Context(a.life, a.flags, v, a.replies, a.obuf, a.ibuf, a.ev)
    BY <1>1 DEF HasFields, Context
<1> QED
    BY <1>2, <1>3 DEF Context

\* A context with its life and events changed.
LEMMA SetAlive ==
    ASSUME NEW a, HasFields(a), NEW v, NEW w, NEW b, b = [a EXCEPT !.life = v, !.ev = w]
    PROVE  b = Context(v, a.flags, a.err, a.replies, a.obuf, a.ibuf, w)
<1>1. PICK x : x = [a EXCEPT !.life = v]
    OBVIOUS
<1>2. b = [x EXCEPT !.ev = w]
    BY <1>1
<1>3. x = Context(v, a.flags, a.err, a.replies, a.obuf, a.ibuf, a.ev)
    BY <1>1 DEF HasFields, Context
<1> QED
    BY <1>2, <1>3 DEF Context

\* A context without its first callback (__redisShiftCallback).
LEMMA Shifted ==
    ASSUME NEW a, HasFields(a)
    PROVE  /\ ShiftCallback(a, "replies").a = Context(a.life, a.flags, a.err, Tail(a.replies), a.obuf, a.ibuf, a.ev)
           /\ ShiftCallback(a, "replies").cb = Head(a.replies)
<1>1. PICK b : b = ShiftCallback(a, "replies").a
    OBVIOUS
<1>2. b = [a EXCEPT !.replies = Tail(a.replies)]
    BY <1>1 DEF ShiftCallback
<1>3. ShiftCallback(a, "replies").cb = Head(a.replies)
    BY DEF ShiftCallback
<1> QED
    BY <1>1, <1>2, <1>3, SetReplies

\* The contexts before redisAsyncConnect, after it, and after __redisAsyncFree.
LEMMA NewContexts ==
    /\ Unused = Context("unused", {}, FALSE, <<>>, <<>>, <<>>, {})
    /\ redisAsyncInitialize = Context("alive", {}, FALSE, <<>>, <<>>, <<>>, {"w"})
    /\ [Unused EXCEPT !.life = "freed"] = Context("freed", {}, FALSE, <<>>, <<>>, <<>>, {})
<1>1. Unused = Context("unused", {}, FALSE, <<>>, <<>>, <<>>, {})
    BY DEF Unused, Context
<1>2. PICK u : u = Unused
    OBVIOUS
<1>3. u = Context("unused", {}, FALSE, <<>>, <<>>, <<>>, {})
    BY <1>1, <1>2
<1>4. /\ u.life = "unused" /\ u.flags = {} /\ u.err = FALSE /\ u.replies = <<>> /\ u.obuf = <<>>
      /\ u.ibuf = <<>> /\ u.ev = {}
    BY <1>3 DEF Context
<1>5. HasFields(u)
    BY <1>3, <1>4 DEF HasFields
<1>6. PICK x : x = [u EXCEPT !.life = "freed"]
    OBVIOUS
<1>7. x = Context("freed", {}, FALSE, <<>>, <<>>, <<>>, {})
    BY <1>4, <1>5, <1>6, SetLife
<1>8. PICK y : y = [u EXCEPT !.life = "alive", !.ev = {"w"}]
    OBVIOUS
<1>9. y = Context("alive", {}, FALSE, <<>>, <<>>, <<>>, {"w"})
  <2>1. y = Context("alive", u.flags, u.err, u.replies, u.obuf, u.ibuf, {"w"})
    BY <1>5, <1>8, SetAlive
  <2> QED
    BY <1>4, <2>1
<1> QED
    BY <1>1, <1>2, <1>6, <1>7, <1>8, <1>9 DEF redisAsyncInitialize

\* A command is put into the buffer of a context, and its callback at the end
\* of the list (__redisAsyncCommand).
LEMMA CommandIssued ==
    ASSUME NEW a, IsContext(a), NEW cmd, cmd.kind \in {"get", "asking"}, NEW cb
    PROVE  redisAsyncCommand(a, cmd, cb) =
              Context(a.life, a.flags, a.err, Append(a.replies, cb), Append(a.obuf, cmd), a.ibuf,
                      a.ev \cup {"w"})
<1>1. "SUBSCRIBED" \notin a.flags
    BY DEF IsContext, Flags
<1>2. PICK b : b = [a EXCEPT !.replies = Append(a.replies, cb)]
    OBVIOUS
<1>3. b = Context(a.life, a.flags, a.err, Append(a.replies, cb), a.obuf, a.ibuf, a.ev)
    BY <1>2, SetReplies DEF IsContext
<1>4. PICK x : x = redisAsyncCommand(a, cmd, cb)
    OBVIOUS
<1>5. x = [b EXCEPT !.obuf = Append(@, cmd), !.ev = @ \cup {"w"}]
    BY <1>1, <1>2, <1>4 DEF redisAsyncCommand, PushCallback, Subscribes, Unsubscribes
<1>6. /\ b.life = a.life /\ b.flags = a.flags /\ b.err = a.err /\ b.replies = Append(a.replies, cb)
      /\ b.obuf = a.obuf /\ b.ibuf = a.ibuf /\ b.ev = a.ev
    BY <1>3 DEF Context
<1>7. HasFields(b)
    BY <1>3, <1>6 DEF HasFields
<1>8. x = Context(b.life, b.flags, b.err, b.replies, Append(b.obuf, cmd), b.ibuf, b.ev \cup {"w"})
    BY <1>5, <1>7, SetBuffer
<1> QED
    BY <1>4, <1>6, <1>8
\* A context whose fields have their types.
LEMMA ContextTyped ==
    ASSUME NEW l \in {"unused", "alive", "freed"}, NEW f \in SUBSET Flags, NEW e \in BOOLEAN,
           NEW r \in Seq(Callbacks), NEW o \in Seq(Commands), NEW i \in Seq(Replies), NEW v \in SUBSET {"r", "w"}
    PROVE  LET a == Context(l, f, e, r, o, i, v)
           IN  /\ IsContext(a)
               /\ a.life = l /\ a.flags = f /\ a.err = e /\ a.replies = r /\ a.obuf = o /\ a.ibuf = i /\ a.ev = v
<1> DEFINE a == Context(l, f, e, r, o, i, v)
<1>1. a.life = l /\ a.flags = f /\ a.err = e /\ a.replies = r /\ a.obuf = o /\ a.ibuf = i /\ a.ev = v
    BY DEF Context
<1>2. a = Context(l, f, e, r, o, i, v)
    OBVIOUS
<1> HIDE DEF a
<1>3. IsContext(a)
    BY <1>1, <1>2 DEF IsContext, HasFields
<1> QED
    BY <1>1, <1>3 DEF a

\* other flags
Reflag(a, F) == [a EXCEPT !.flags = F]

\* one of the contexts is replaced; the others are as they were
Replaced(acs, then, c, b) == then = [acs EXCEPT ![c] = b]
OthersSame(acs, then, c) == \A d \in Contexts : d # c => then[d] = acs[d]

\* One of the contexts changes.
LEMMA OneContext ==
    ASSUME NEW acs, ContextsOK(acs), NEW c \in Contexts, NEW b, IsContext(b), NEW then, Replaced(acs, then, c, b)
    PROVE  ContextsOK(then) /\ then[c] = b /\ OthersSame(acs, then, c)
<1>1. acs = [d \in Contexts |-> acs[d]] /\ \A d \in Contexts : IsContext(acs[d])
    BY DEF ContextsOK
<1>2. then = [d \in Contexts |-> then[d]]
    BY <1>1 DEF Replaced
<1>3. then[c] = b /\ \A d \in Contexts : d # c => then[d] = acs[d]
    BY <1>1 DEF Replaced
<1>4. \A d \in Contexts : IsContext(then[d])
    BY <1>1, <1>3
<1>5. ContextsOK(then)
    BY <1>2, <1>4 DEF ContextsOK
<1> QED
    BY <1>3, <1>5 DEF OthersSame

\* The flags of a context change.
LEMMA Flagged ==
    ASSUME NEW a, IsContext(a), NEW F \in SUBSET Flags, NEW b, b = [a EXCEPT !.flags = F]
    PROVE  /\ IsContext(b)
           /\ b.flags = F
           /\ b.life = a.life /\ b.err = a.err /\ b.replies = a.replies /\ b.obuf = a.obuf /\ b.ibuf = a.ibuf
           /\ b.ev = a.ev
<1>1. b = Context(a.life, F, a.err, a.replies, a.obuf, a.ibuf, a.ev)
    BY SetFlags DEF IsContext
<1>2. /\ a.life \in {"unused", "alive", "freed"} /\ a.err \in BOOLEAN /\ a.replies \in Seq(Callbacks)
      /\ a.obuf \in Seq(Commands) /\ a.ibuf \in Seq(Replies) /\ a.ev \in SUBSET {"r", "w"}
    BY DEF IsContext
<1> QED
    BY <1>1, <1>2, ContextTyped

\* A context has no subscriptions when it is freed.
LEMMA NothingSubscribed ==
    ASSUME NEW a, a.channels = dictCreate, a.patterns = dictCreate
    PROVE  Subscriptions(a) = <<>>
<1>1. Entries(dictCreate) = <<>>
  <2> DEFINE s == [i \in 1 .. dictCreate.size |-> dictCreate.table[i - 1]]
  <2>1. dictCreate.size = 0
    BY DEF dictCreate
  <2>2. s = <<>>
    BY <2>1
  <2>3. Entries(dictCreate) = FlattenSeq(s)
    BY DEF Entries
  <2>4. Len(s) = 0 => FlattenSeq(s) = s
    BY DEF FlattenSeq
  <2> HIDE DEF s
  <2>5. Len(s) = 0
    BY <2>2
  <2> QED
    BY <2>2, <2>3, <2>4, <2>5
<1>2. PICK e : e = Entries(dictCreate)
    OBVIOUS
<1>3. [i \in DOMAIN e |-> e[i].val] = <<>>
    BY <1>1, <1>2
<1>4. Subscriptions(a) = <<>> \o <<>>
    BY <1>2, <1>3 DEF Subscriptions
<1>5. <<>> \in Seq({})
    OBVIOUS
<1> QED
    BY <1>4, <1>5, ConcatProperties, EmptySeq

\* The frame of __redisAsyncFree.
LEMMA FreeFrames1 ==
    ASSUME NEW c \in Contexts, NEW a, HasFields(a), NEW f, f = FreeFrame(c, a)
    PROVE  f \in Frames /\ f.at = "free" /\ f.c = c
<1>1. a.channels = dictCreate /\ a.patterns = dictCreate
    BY DEF HasFields, Context
<1>2. Subscriptions(a) = <<>>
    BY <1>1, NothingSubscribed
<1>3. f = [at |-> "free", c |-> c, subs |-> <<>>]
    BY <1>2 DEF FreeFrame
<1> QED
    BY <1>3 DEF Frames

-----------------------------------------------------------------------------
(***************************************************************************)
(* The stack.                                                              *)
(***************************************************************************)
\* What is known of a frame.
LEMMA FrameFields ==
    ASSUME NEW f \in Frames
    PROVE  /\ f.at \in {"process", "free", "callback", "route", "user", "release"}
           /\ f.at # "release" => f.c \in Contexts
           /\ f.at = "process" => f.cb \in Callbacks
           /\ f.at = "free" => f.subs = <<>>
           /\ Pending(f) => f.cb \in Callbacks \ {NullCb} /\ f.reply \in Results
           /\ f.at = "route" => f.table \in Routes
<1> QED
    BY DEF Frames, Pending

\* A callback of the user is called (Done).
LEMMA UserFrame ==
    ASSUME NEW f \in Frames, f.at \in {"callback", "route"}, NEW u, u = [f EXCEPT !.at = "user"]
    PROVE  u \in Frames /\ u.at = "user" /\ u.c = f.c /\ u.cb = f.cb /\ u.reply = f.reply
<1>1. CASE f \in [at : {"callback", "user"}, c : Contexts, cb : Callbacks \ {NullCb}, reply : Results]
    BY <1>1 DEF Frames
<1>2. CASE f \in [at : {"route", "user"}, c : Contexts, cb : Callbacks \ {NullCb}, reply : Results, table : Routes]
    BY <1>2 DEF Frames
<1> QED
    BY <1>1, <1>2 DEF Frames

\* A frame is put on the stack.
LEMMA StackPushed ==
    ASSUME NEW n \in Nat, NEW st, StackOK(st, n), NEW f \in Frames, Pending(f) => f.cb.id \in 1 .. n,
           f.at = "process" => st = <<>>
    PROVE  /\ StackOK(Append(st, f), n)
           /\ Len(st) \in Nat
           /\ Len(Append(st, f)) = Len(st) + 1
           /\ Append(st, f)[Len(st) + 1] = f
           /\ \A p \in 1 .. Len(st) : Append(st, f)[p] = st[p]
<1> DEFINE new == Append(st, f)
<1>1. st \in Seq(Frames)
    BY DEF StackOK
<1>2. /\ new \in Seq(Frames) /\ Len(st) \in Nat /\ Len(new) = Len(st) + 1 /\ new[Len(st) + 1] = f
      /\ \A p \in 1 .. Len(st) : new[p] = st[p]
    BY <1>1, AppendProperties
<1>3. st = <<>> => Len(st) = 0
    OBVIOUS
<1> HIDE DEF new
<1>4. StackOK(new, n)
    BY <1>2, <1>3 DEF StackOK
<1> QED
    BY <1>2, <1>4 DEF new

\* A frame is taken from the stack.
LEMMA StackPopped ==
    ASSUME NEW n \in Nat, NEW st, StackOK(st, n)
    PROVE  /\ StackOK(SubSeq(st, 1, Len(st) - 1), n)
           /\ st # <<>> => Len(st) \in Nat \ {0} /\ Len(SubSeq(st, 1, Len(st) - 1)) = Len(st) - 1
           /\ st = <<>> => SubSeq(st, 1, Len(st) - 1) = <<>>
           /\ \A p \in 1 .. Len(st) - 1 : SubSeq(st, 1, Len(st) - 1)[p] = st[p]
<1> DEFINE m == Len(st) - 1
           new == SubSeq(st, 1, m)
<1>1. st \in Seq(Frames) /\ Len(st) \in Nat
    BY DEF StackOK
<1>2. st # <<>> => Len(st) # 0
    BY <1>1
<1>3. m \in Int /\ \A i \in 1 .. m : st[i] \in Frames
    BY <1>1
<1> HIDE DEF m
<1>4. /\ new \in Seq(Frames)
      /\ Len(new) = IF 1 <= m THEN m - 1 + 1 ELSE 0
      /\ \A p \in 1 .. m - 1 + 1 : new[p] = st[1 + p - 1]
    BY <1>3, SubSeqProperties
<1> HIDE DEF new
<1>5. \A p \in 1 .. m : new[p] = st[p]
    BY <1>3, <1>4
<1>6. Len(new) = IF 1 <= m THEN m ELSE 0
    BY <1>3, <1>4
<1>7. StackOK(new, n)
    BY <1>1, <1>4, <1>5, <1>6 DEF StackOK, m
<1>8. st = <<>> => new = <<>>
    BY <1>1, <1>4, <1>6 DEF m
<1>9. st # <<>> => Len(st) \in Nat \ {0} /\ Len(new) = m
  <2> SUFFICES ASSUME st # <<>> PROVE Len(st) \in Nat \ {0} /\ Len(new) = m
    OBVIOUS
  <2>1. Len(st) \in Nat \ {0}
    BY <1>1, <1>2
  <2>2. m \in Nat
    BY <2>1 DEF m
  <2>3. 1 <= m \/ m = 0
    BY <2>2
  <2> QED
    BY <1>6, <2>1, <2>3
<1> QED
    BY <1>5, <1>7, <1>8, <1>9 DEF new, m

\* The contexts that are to be freed, in some order.
LEMMA FreedInOrder ==
    ASSUME NEW cs \in SUBSET Contexts, NEW acs, ContextsOK(acs)
    PROVE  LET fs == FreeFrames(SetToSeq(cs), acs)
           IN  /\ fs \in Seq(Frames)
               /\ \A i \in 1 .. Len(fs) : fs[i].at = "free" /\ fs[i].c \in cs
               /\ \A c \in cs : \E i \in 1 .. Len(fs) : fs[i].c = c
               /\ \A i, j \in 1 .. Len(fs) : fs[i].c = fs[j].c => i = j
<1> DEFINE s == SetToSeq(cs)
           m == Cardinality(cs)
           fs == FreeFrames(s, acs)
<1>1. IsFiniteSet(cs)
    BY ClusterAssumption, FS_Subset
<1>2. m \in Nat
    BY <1>1, FS_CardinalityType
<1>3. PICK g : g \in Bijection(1 .. m, cs)
    BY <1>1, FS_CardinalityType DEF ExistsBijection
<1>4. g \in [1 .. m -> cs] /\ IsInjective(g)
    BY <1>3 DEF Bijection, Injection
<1>5. s \in [1 .. m -> cs] /\ IsInjective(s)
    BY <1>4 DEF SetToSeq
<1> DEFINE R == {s[i] : i \in 1 .. m}
<1> HIDE DEF s, m
<1>6. s \in Bijection(1 .. m, R)
  <2>1. s \in [1 .. m -> R]
    BY <1>5
  <2>2. \A r \in R : \E i \in 1 .. m : s[i] = r
    OBVIOUS
  <2> HIDE DEF R
  <2> QED
    BY <1>5, <2>1, <2>2 DEF Bijection, Injection, Surjection
<1>7. Cardinality(R) = m
    BY <1>2, <1>6, FS_CountingElements DEF ExistsBijection
<1>8. R \subseteq cs
    BY <1>5
<1> HIDE DEF R
<1>9. R = cs
    BY <1>1, <1>7, <1>8, FS_Subset DEF m
<1>10. \A c \in cs : \E i \in 1 .. m : s[i] = c
    BY <1>9 DEF R
<1>11. DOMAIN s = 1 .. m /\ \A i \in 1 .. m : s[i] \in cs
    BY <1>5
<1>12. \A i \in 1 .. m : fs[i] = FreeFrame(s[i], acs[s[i]])
    BY <1>11 DEF FreeFrames
<1>13. ASSUME NEW i \in 1 .. m
       PROVE  fs[i] \in Frames /\ fs[i].at = "free" /\ fs[i].c = s[i]
  <2>1. s[i] \in Contexts /\ HasFields(acs[s[i]])
    BY <1>11 DEF ContextsOK, IsContext
  <2> QED
    BY <1>12, <2>1, FreeFrames1
<1>14. fs = [i \in 1 .. m |-> fs[i]]
    BY <1>11 DEF FreeFrames
<1> HIDE DEF fs
<1>15. fs \in Seq(Frames) /\ Len(fs) = m
    BY <1>2, <1>13, <1>14
<1>16. \A i, j \in 1 .. m : s[i] = s[j] => i = j
    BY <1>5, <1>11 DEF IsInjective
<1>17. /\ \A i \in 1 .. Len(fs) : fs[i].at = "free" /\ fs[i].c \in cs
       /\ \A c \in cs : \E i \in 1 .. Len(fs) : fs[i].c = c
       /\ \A i, j \in 1 .. Len(fs) : fs[i].c = fs[j].c => i = j
    BY <1>10, <1>11, <1>13, <1>15, <1>16
<1> QED
    BY <1>15, <1>17 DEF fs, s

\* The contexts of nodes are freed (cluster_update_route, redisClusterFree).
LEMMA StackJoined ==
    ASSUME NEW n \in Nat, NEW st, StackOK(st, n), NEW fs \in Seq(Frames),
           \A i \in 1 .. Len(fs) : fs[i].at = "free"
    PROVE  /\ StackOK(st \o fs, n)
           /\ Len(st) \in Nat /\ Len(fs) \in Nat
           /\ Len(st \o fs) = Len(st) + Len(fs)
           /\ \A p \in 1 .. Len(st) : (st \o fs)[p] = st[p]
           /\ \A p \in Len(st) + 1 .. Len(st) + Len(fs) : (st \o fs)[p] = fs[p - Len(st)]
<1> DEFINE new == st \o fs
<1>1. st \in Seq(Frames) /\ Len(st) \in Nat /\ Len(fs) \in Nat
    BY DEF StackOK
<1>2. /\ new \in Seq(Frames) /\ Len(new) = Len(st) + Len(fs)
      /\ \A i \in 1 .. Len(st) + Len(fs) : new[i] = IF i <= Len(st) THEN st[i] ELSE fs[i - Len(st)]
    BY <1>1, ConcatProperties
<1> HIDE DEF new
<1>3. /\ \A p \in 1 .. Len(st) : new[p] = st[p]
      /\ \A p \in Len(st) + 1 .. Len(st) + Len(fs) : new[p] = fs[p - Len(st)] /\ p - Len(st) \in 1 .. Len(fs)
  <2>1. ASSUME NEW p \in 1 .. Len(st)
        PROVE  new[p] = st[p]
    BY <1>1, <1>2
  <2>2. ASSUME NEW p \in Len(st) + 1 .. Len(st) + Len(fs)
        PROVE  new[p] = fs[p - Len(st)] /\ p - Len(st) \in 1 .. Len(fs)
    <3>1. p \in 1 .. Len(st) + Len(fs) /\ ~(p <= Len(st)) /\ p - Len(st) \in 1 .. Len(fs)
      BY <1>1
    <3> QED
      BY <1>2, <3>1
  <2> QED
    BY <2>1, <2>2
<1>4. \A p \in 1 .. Len(new) : p \in 1 .. Len(st) \/ p \in Len(st) + 1 .. Len(st) + Len(fs)
    BY <1>1, <1>2
<1>5. StackOK(new, n)
    BY <1>2, <1>3, <1>4 DEF StackOK, Pending
<1> QED
    BY <1>1, <1>2, <1>3, <1>5 DEF new

\* The frame at the top.
LEMMA TopFrame ==
    ASSUME NEW n \in Nat, StackOK(stack, n), stack # <<>>
    PROVE  /\ Len(stack) \in Nat \ {0}
           /\ Top = stack[Len(stack)] /\ Top \in Frames
           /\ Top.at # "release" => Top.c \in Contexts
           /\ Top.at = "process" => Top.cb \in Callbacks /\ Len(stack) = 1 /\ Below = <<>>
           /\ Top.at = "free" => Top.subs = <<>>
           /\ Pending(Top) => /\ Top.cb \in Callbacks \ {NullCb}
                              /\ Top.cb.id \in 1 .. n
                              /\ Top.reply \in Results
           /\ Top.at = "route" => Top.table \in Routes
           /\ StackOK(Below, n) /\ Len(Below) = Len(stack) - 1
           /\ \A p \in 1 .. Len(Below) : Below[p] = stack[p]
<1>1. stack \in Seq(Frames) /\ Len(stack) \in Nat \ {0}
    BY DEF StackOK
<1>2. Top = stack[Len(stack)] /\ Top \in Frames /\ Len(stack) \in 1 .. Len(stack)
    BY <1>1 DEF Top
<1>3. Pending(Top) => Top.cb.id \in 1 .. n
    BY <1>2 DEF StackOK
<1>4. Top.at = "process" => Len(stack) = 1
    BY <1>2 DEF StackOK
<1>5. StackOK(Below, n) /\ Len(Below) = Len(stack) - 1 /\ \A p \in 1 .. Len(Below) : Below[p] = stack[p]
    BY StackPopped DEF Below
<1>6. Len(Below) = 0 => Below = <<>>
    BY <1>5 DEF StackOK
<1> QED
    BY <1>1, <1>2, <1>3, <1>4, <1>5, <1>6, FrameFields

-----------------------------------------------------------------------------
(***************************************************************************)
(* What the functions of the library do to the contexts and to the stack.  *)
(***************************************************************************)
\* a context that differs in its flags
Kept(a, b) ==
    /\ b.life = a.life /\ b.err = a.err /\ b.replies = a.replies /\ b.obuf = a.obuf /\ b.ibuf = a.ibuf
    /\ b.ev = a.ev

\* __redisAsyncFree is called
FreeCalled(st, c) == \E f \in Frames : f.at = "free" /\ f.c = c /\ stack' = Append(st, f)

\* What a callback is: NULL, or that of a command.
LEMMA CallbackForms ==
    ASSUME NEW cb \in Callbacks
    PROVE  /\ cb.fn \in BOOLEAN /\ cb.id \in Nat
           /\ cb.fn <=> cb.id # 0
           /\ cb.fn <=> cb # NullCb
           /\ cb = Callback(cb.id) \/ cb = NullCb
<1>1. CASE cb = NullCb
    BY <1>1 DEF NullCb
<1>2. CASE \E i \in Nat \ {0} : cb = Callback(i)
    BY <1>2 DEF Callback, NullCb
<1> QED
    BY <1>1, <1>2 DEF Callbacks

\* The callbacks of the commands.
LEMMA CommandCallback ==
    ASSUME NEW i \in Nat \ {0}
    PROVE  Callback(i) \in Callbacks /\ Callback(i).id = i /\ Callback(i).fn /\ Callback(i) # NullCb
<1> QED
    BY DEF Callbacks, Callback, NullCb

\* NULL as a callback.
LEMMA NoCallback == NullCb \in Callbacks /\ NullCb.id = 0 /\ ~NullCb.fn
<1> QED
    BY DEF Callbacks, NullCb

\* A context with other flags.
LEMMA ReflagTyped ==
    ASSUME NEW a, IsContext(a), NEW F \in SUBSET Flags
    PROVE  IsContext(Reflag(a, F)) /\ Kept(a, Reflag(a, F)) /\ Reflag(a, F).flags = F
<1> QED
    BY Flagged DEF Kept, Reflag

\* A context with other flags takes the place of another.
LEMMA Reflagged ==
    ASSUME NEW acs, ContextsOK(acs), NEW c \in Contexts, NEW a, IsContext(a), NEW F \in SUBSET Flags,
           NEW then, Replaced(acs, then, c, Reflag(a, F))
    PROVE  ContextsOK(then) /\ OthersSame(acs, then, c) /\ Kept(a, then[c]) /\ then[c].flags = F
<1> DEFINE b == Reflag(a, F)
<1>1. IsContext(b) /\ Kept(a, b) /\ b.flags = F
    BY Flagged DEF Kept, Reflag
<1>2. Replaced(acs, then, c, b)
    OBVIOUS
<1> HIDE DEF b
<1>3. ContextsOK(then) /\ then[c] = b /\ OthersSame(acs, then, c)
    BY <1>1, <1>2, OneContext
<1> QED
    BY <1>1, <1>3

\* __redisRunCallback.
LEMMA Ran ==
    ASSUME NEW n \in Nat, ContextsOK(ac), NEW c \in Contexts, NEW a, IsContext(a), NEW cb \in Callbacks,
           cb.id \in 0 .. n, NEW reply \in Results, NEW st, StackOK(st, n), calls \in Seq(Seq(Results)),
           Len(calls) = n, RunCallback(c, a, cb, reply, st)
    PROVE  /\ ContextsOK(ac') /\ OthersSame(ac, ac', c) /\ Kept(a, ac'[c])
           /\ StackOK(stack', n)
           /\ calls' \in Seq(Seq(Results)) /\ Len(calls') = n
           /\ cb.fn => /\ ac'[c].flags = a.flags \cup {"IN_CALLBACK"}
                       /\ stack' = Append(st, CallbackFrame(c, cb, reply))
                       /\ CallbackFrame(c, cb, reply) \in Frames
                       /\ cb.id \in 1 .. n
                       /\ calls' = [calls EXCEPT ![cb.id] = Append(@, reply)]
           /\ ~cb.fn => ac'[c] = a /\ stack' = st /\ calls' = calls
<1>1. CASE cb.fn
  <2>1. cb.id \in 1 .. n /\ cb # NullCb
    BY <1>1, CallbackForms
  <2> DEFINE F == a.flags \cup {"IN_CALLBACK"}
             f == CallbackFrame(c, cb, reply)
  <2>2. F \in SUBSET Flags
    BY DEF IsContext, Flags
  <2>3. /\ Replaced(ac, ac', c, Reflag(a, F))
        /\ stack' = Append(st, f)
        /\ calls' = [calls EXCEPT ![cb.id] = Append(@, reply)]
    BY <1>1 DEF RunCallback, Replaced, Reflag
  <2>4. f \in Frames /\ f.at = "callback" /\ f.cb = cb
    BY <2>1 DEF Frames, CallbackFrame
  <2> HIDE DEF F, f
  <2>5. ContextsOK(ac') /\ OthersSame(ac, ac', c) /\ Kept(a, ac'[c]) /\ ac'[c].flags = F
    BY <2>2, <2>3, Reflagged
  <2>6. StackOK(stack', n)
    BY <2>1, <2>3, <2>4, StackPushed
  <2>7. calls[cb.id] \in Seq(Results)
    BY <2>1, ElementOfSeq
  <2>8. Append(calls[cb.id], reply) \in Seq(Results)
    BY <2>7
  <2>9. calls' \in Seq(Seq(Results)) /\ Len(calls') = n
    BY <2>1, <2>3, <2>8, ExceptSeq
  <2> QED
    BY <1>1, <2>1, <2>3, <2>4, <2>5, <2>6, <2>9 DEF f, F
<1>2. CASE ~cb.fn
  <2>1. Replaced(ac, ac', c, a) /\ stack' = st /\ calls' = calls
    BY <1>2 DEF RunCallback, Replaced
  <2>2. ContextsOK(ac') /\ ac'[c] = a /\ OthersSame(ac, ac', c)
    BY <2>1, OneContext
  <2> QED
    BY <1>2, <2>1, <2>2 DEF Kept
<1> QED
    BY <1>1, <1>2, CallbackForms

\* __redisAsyncDisconnect.
LEMMA Disconnected ==
    ASSUME NEW n \in Nat, ContextsOK(ac), NEW c \in Contexts, NEW a, IsContext(a), NEW st, StackOK(st, n),
           Disconnect(c, a, st)
    PROVE  /\ ContextsOK(ac') /\ OthersSame(ac, ac', c) /\ Kept(a, ac'[c])
           /\ StackOK(stack', n)
           /\ ac'[c].flags = IF a.err THEN a.flags \cup {"DISCONNECTING"} ELSE a.flags
           /\ \/ /\ aborted' = aborted
                 /\ FreeCalled(st, c)
              \/ aborted' = "pending" /\ stack' = <<>> /\ ~a.err /\ a.replies # <<>>
<1>1. /\ ContextsOK(ac') /\ OthersSame(ac, ac', c) /\ Kept(a, ac'[c])
      /\ ac'[c].flags = IF a.err THEN a.flags \cup {"DISCONNECTING"} ELSE a.flags
  <2>1. CASE a.err
    <3>1. Replaced(ac, ac', c, Reflag(a, a.flags \cup {"DISCONNECTING"}))
      BY <2>1 DEF Disconnect, Replaced, Reflag
    <3>2. a.flags \cup {"DISCONNECTING"} \in SUBSET Flags
      BY DEF IsContext, Flags
    <3> QED
      BY <2>1, <3>1, <3>2, Reflagged
  <2>2. CASE ~a.err
    <3>1. Replaced(ac, ac', c, a)
      BY <2>2 DEF Disconnect, Replaced
    <3>2. ContextsOK(ac') /\ ac'[c] = a /\ OthersSame(ac, ac', c)
      BY <3>1, OneContext
    <3> QED
      BY <2>2, <3>2 DEF Kept
  <2> QED
    BY <2>1, <2>2
<1> DEFINE f == FreeFrame(c, a)
<1>2. f \in Frames /\ f.at = "free" /\ f.c = c
    BY FreeFrames1 DEF IsContext
<1>3. \/ aborted' = "pending" /\ stack' = <<>> /\ ~a.err /\ a.replies # <<>>
      \/ aborted' = aborted /\ stack' = Append(st, f)
    BY DEF Disconnect, Abort
<1> HIDE DEF f
<1>4. CASE aborted' = "pending" /\ stack' = <<>> /\ ~a.err /\ a.replies # <<>>
  <2>1. StackOK(<<>>, n)
    BY DEF StackOK
  <2> QED
    BY <1>1, <1>4, <2>1
<1>5. CASE aborted' = aborted /\ stack' = Append(st, f)
  <2>1. StackOK(stack', n)
    BY <1>2, <1>5, StackPushed DEF Pending
  <2> QED
    BY <1>1, <1>2, <1>5, <2>1 DEF FreeCalled
<1> QED
    BY <1>3, <1>4, <1>5

\* A callback returns to __redisRunCallback (Back).
LEMMA Returned ==
    ASSUME NEW n \in Nat, NEW acs, ContextsOK(acs), NEW c \in Contexts, NEW st, StackOK(st, n), Back(acs, c, st)
    PROVE  /\ ContextsOK(ac') /\ OthersSame(acs, ac', c) /\ Kept(acs[c], ac'[c])
           /\ ac'[c].flags = acs[c].flags \ {"IN_CALLBACK"}
           /\ StackOK(stack', n)
           /\ \/ /\ stack' = st
                 /\ st[Len(st)].at # "process" \/ "FREEING" \notin acs[c].flags
              \/ /\ st[Len(st)].at = "process" /\ "FREEING" \in acs[c].flags
                 /\ FreeCalled(SubSeq(st, 1, Len(st) - 1), c)
<1> DEFINE F == acs[c].flags \ {"IN_CALLBACK"}
           b == Reflag(acs[c], F)
           f == FreeFrame(c, b)
<1>1. IsContext(acs[c]) /\ F \in SUBSET Flags
    BY DEF ContextsOK, IsContext
<1>2. /\ Replaced(acs, ac', c, b)
      /\ stack' = IF st[Len(st)].at = "process" /\ "FREEING" \in b.flags
                  THEN Append(SubSeq(st, 1, Len(st) - 1), f) ELSE st
    BY DEF Back, Replaced, Reflag
<1> HIDE DEF F
<1>3. ContextsOK(ac') /\ OthersSame(acs, ac', c) /\ Kept(acs[c], ac'[c]) /\ ac'[c].flags = F
    BY <1>1, <1>2, Reflagged
<1>4. IsContext(b) /\ b.flags = F
    BY <1>1, Flagged DEF Reflag
<1> HIDE DEF b
<1>5. f \in Frames /\ f.at = "free" /\ f.c = c
    BY <1>4, FreeFrames1 DEF IsContext
<1> HIDE DEF f
<1>6. "FREEING" \in b.flags <=> "FREEING" \in acs[c].flags
    BY <1>4 DEF F
<1>7. CASE st[Len(st)].at = "process" /\ "FREEING" \in acs[c].flags
  <2>1. stack' = Append(SubSeq(st, 1, Len(st) - 1), f)
    BY <1>2, <1>6, <1>7
  <2>2. StackOK(SubSeq(st, 1, Len(st) - 1), n)
    BY StackPopped
  <2>3. StackOK(stack', n)
    BY <1>5, <2>1, <2>2, StackPushed DEF Pending
  <2> QED
    BY <1>3, <1>5, <1>7, <2>1, <2>3 DEF F, FreeCalled
<1>8. CASE ~(st[Len(st)].at = "process" /\ "FREEING" \in acs[c].flags)
  <2>1. stack' = st
    BY <1>2, <1>6, <1>8
  <2> QED
    BY <1>3, <1>8, <2>1 DEF F
<1> QED
    BY <1>7, <1>8

\* a command has been sent
SentAs(acs, then, c, cmd, cb) == then = Sent(acs, c, cmd, cb)

\* A command is sent (Sent).
LEMMA SentTo ==
    ASSUME NEW acs, ContextsOK(acs), NEW c \in Contexts, NEW cmd \in Commands, NEW cb \in Callbacks,
           NEW then, SentAs(acs, then, c, cmd, cb)
    PROVE  /\ ContextsOK(then) /\ OthersSame(acs, then, c)
           /\ then[c].life = acs[c].life /\ then[c].flags = acs[c].flags /\ then[c].err = acs[c].err
           /\ then[c].replies = Append(acs[c].replies, cb)
           /\ then[c].obuf = Append(acs[c].obuf, cmd)
           /\ then[c].ibuf = acs[c].ibuf
           /\ then[c].ev = acs[c].ev \cup {"w"}
<1> DEFINE a == acs[c]
           b == redisAsyncCommand(a, cmd, cb)
<1>1. IsContext(a)
    BY DEF ContextsOK
<1>2. cmd.kind \in {"get", "asking"}
    BY DEF Commands
<1> HIDE DEF a
<1>3. b = Context(a.life, a.flags, a.err, Append(a.replies, cb), Append(a.obuf, cmd), a.ibuf, a.ev \cup {"w"})
    BY <1>1, <1>2, CommandIssued
<1>4. /\ a.life \in {"unused", "alive", "freed"} /\ a.flags \in SUBSET Flags /\ a.err \in BOOLEAN
      /\ Append(a.replies, cb) \in Seq(Callbacks) /\ Append(a.obuf, cmd) \in Seq(Commands)
      /\ a.ibuf \in Seq(Replies) /\ a.ev \cup {"w"} \in SUBSET {"r", "w"}
    BY <1>1 DEF IsContext
<1>5. Replaced(acs, then, c, b)
    BY DEF Replaced, SentAs, Sent, a
<1> HIDE DEF b
<1>6. /\ IsContext(b)
      /\ b.life = a.life /\ b.flags = a.flags /\ b.err = a.err /\ b.replies = Append(a.replies, cb)
      /\ b.obuf = Append(a.obuf, cmd) /\ b.ibuf = a.ibuf /\ b.ev = a.ev \cup {"w"}
  <2>1. PICK r : r = Append(a.replies, cb)
    OBVIOUS
  <2>2. PICK o : o = Append(a.obuf, cmd)
    OBVIOUS
  <2>3. PICK v : v = a.ev \cup {"w"}
    OBVIOUS
  <2>4. /\ a.life \in {"unused", "alive", "freed"} /\ a.flags \in SUBSET Flags /\ a.err \in BOOLEAN
        /\ r \in Seq(Callbacks) /\ o \in Seq(Commands) /\ a.ibuf \in Seq(Replies) /\ v \in SUBSET {"r", "w"}
    BY <1>4, <2>1, <2>2, <2>3
  <2>5. b = Context(a.life, a.flags, a.err, r, o, a.ibuf, v)
    BY <1>3, <2>1, <2>2, <2>3
  <2>6. /\ IsContext(b)
        /\ b.life = a.life /\ b.flags = a.flags /\ b.err = a.err /\ b.replies = r
        /\ b.obuf = o /\ b.ibuf = a.ibuf /\ b.ev = v
    BY <2>4, <2>5, ContextTyped
  <2> QED
    BY <2>1, <2>2, <2>3, <2>6
<1>7. ContextsOK(then) /\ then[c] = b /\ OthersSame(acs, then, c)
    BY <1>5, <1>6, OneContext
<1> QED
    BY <1>6, <1>7 DEF a

\* What actx_get_by_node returns.
LEMMA GotContext ==
    ASSUME ContextsOK(ac), NEW node, node.acon \in Contexts \cup {None}, NEW got \in actx_get_by_node(node)
    PROVE  /\ got.fresh \in BOOLEAN /\ got.err \in BOOLEAN
           /\ got.fresh \/ ~got.err => got.c \in Contexts
           /\ ContextsOK(WithContext(got))
           /\ ~got.fresh => WithContext(got) = ac
           /\ ~got.fresh /\ ~got.err => got.c = node.acon /\ node.acon # None /\ ~ac[got.c].err
           /\ got.fresh => /\ OthersSame(ac, WithContext(got), got.c)
                           /\ ac[got.c].life = "unused"
                           /\ LET a == WithContext(got)[got.c]
                              IN  /\ a.life = "alive" /\ a.flags = {} /\ a.err = got.err /\ a.replies = <<>>
                                  /\ a.obuf = <<>> /\ a.ibuf = <<>> /\ a.ev = IF got.err THEN {} ELSE {"w"}
<1>1. CASE node.acon # None /\ ~ac[node.acon].err
  <2>1. got = [c |-> node.acon, fresh |-> FALSE, err |-> FALSE]
    BY <1>1 DEF actx_get_by_node, Had
  <2> QED
    BY <1>1, <2>1 DEF WithContext
<1>2. CASE ~(node.acon # None /\ ~ac[node.acon].err) /\ FreshContexts = {}
  <2>1. got = [Had(None) EXCEPT !.err = TRUE]
    BY <1>2 DEF actx_get_by_node
  <2>2. got.fresh = FALSE /\ got.err = TRUE
    BY <2>1 DEF Had
  <2> QED
    BY <2>2 DEF WithContext
<1>3. CASE ~(node.acon # None /\ ~ac[node.acon].err) /\ FreshContexts # {}
  <2> DEFINE c == CHOOSE x \in FreshContexts : TRUE
  <2>1. c \in FreshContexts
    BY <1>3
  <2>2. c \in Contexts /\ ac[c].life = "unused"
    BY <2>1 DEF FreshContexts
  <2>3. PICK e \in BOOLEAN : got = Fresh(c, e)
    BY <1>3 DEF actx_get_by_node
  <2> HIDE DEF c
  <2>4. got.c = c /\ got.fresh = TRUE /\ got.err = e
    BY <2>3 DEF Fresh
  <2> DEFINE v == IF e THEN {} ELSE {"w"}
             b == [redisAsyncInitialize EXCEPT !.err = e, !.ev = v]
             then == WithContext(got)
  <2>5. Replaced(ac, then, c, b)
    <3>1. PICK u : u = redisAsyncInitialize
      OBVIOUS
    <3>2. u.ev = {"w"}
      BY <3>1, NewContexts DEF Context
    <3> QED
      BY <2>4, <3>1, <3>2 DEF WithContext, Replaced
  <2>6. b = Context("alive", {}, e, <<>>, <<>>, <<>>, v)
    <3>1. PICK u : u = redisAsyncInitialize
      OBVIOUS
    <3>2. u = Context("alive", {}, FALSE, <<>>, <<>>, <<>>, {"w"})
      BY <3>1, NewContexts
    <3>3. /\ u.life = "alive" /\ u.flags = {} /\ u.err = FALSE /\ u.replies = <<>> /\ u.obuf = <<>>
          /\ u.ibuf = <<>> /\ u.ev = {"w"}
      BY <3>2 DEF Context
    <3>4. HasFields(u)
      BY <3>2, <3>3 DEF HasFields
    <3> HIDE DEF v
    <3>5. PICK w : w = [u EXCEPT !.err = e, !.ev = v]
      OBVIOUS
    <3>6. w = Context(u.life, u.flags, e, u.replies, u.obuf, u.ibuf, v)
      BY <3>4, <3>5, SetRefused
    <3> QED
      BY <3>1, <3>3, <3>5, <3>6
  <2> HIDE DEF b
  <2>7. {} \in SUBSET Flags /\ v \in SUBSET {"r", "w"}
    OBVIOUS
  <2> HIDE DEF v
  <2>8. /\ IsContext(b) /\ b.life = "alive" /\ b.flags = {} /\ b.err = e /\ b.replies = <<>> /\ b.obuf = <<>>
        /\ b.ibuf = <<>> /\ b.ev = v
    <3>1. PICK q : q = <<>>
      OBVIOUS
    <3>2. PICK f : f = {}
      OBVIOUS
    <3>3. PICK l : l = "alive"
      OBVIOUS
    <3>4. q \in Seq(Callbacks) /\ q \in Seq(Commands) /\ q \in Seq(Replies)
      BY <3>1
    <3>5. f \in SUBSET Flags /\ l \in {"unused", "alive", "freed"}
      BY <3>2, <3>3
    <3>6. b = Context(l, f, e, q, q, q, v)
      BY <2>6, <3>1, <3>2, <3>3
    <3>7. /\ IsContext(b) /\ b.life = l /\ b.flags = f /\ b.err = e /\ b.replies = q /\ b.obuf = q
          /\ b.ibuf = q /\ b.ev = v
      BY <2>7, <3>4, <3>5, <3>6, ContextTyped
    <3> QED
      BY <3>1, <3>2, <3>3, <3>7
  <2> HIDE DEF then
  <2>9. ContextsOK(then) /\ then[c] = b /\ OthersSame(ac, then, c)
    BY <2>2, <2>5, <2>8, OneContext
  <2> QED
    BY <2>2, <2>4, <2>8, <2>9 DEF then, v
<1> QED
    BY <1>1, <1>2, <1>3

\* the nodes ns have been linked to a context
LinkedTo(ns, key, got) ==
    /\ \A c \in Contexts : net'[c].out = net[c].out
    /\ Keyed(nodes') /\ DOMAIN nodes' = DOMAIN ns
    /\ \A k \in DOMAIN ns : nodes'[k].acon = IF got.fresh /\ k = key THEN got.c ELSE ns[k].acon

\* A node and its new context point to each other (Link).
LEMMA Linked ==
    ASSUME NEW got, NEW key, NEW server \in Servers, NEW ns, Keyed(ns), NEW ds, OnContexts(ds),
           net \in [Contexts -> Connections], got.fresh => got.c \in Contexts, Link(got, key, server, ns, ds)
    PROVE  /\ net' \in [Contexts -> Connections]
           /\ LinkedTo(ns, key, got)
           /\ OnContexts(data')
           /\ \A c \in Contexts : data'[c] = IF got.fresh /\ c = got.c THEN key ELSE ds[c]
<1>1. CASE ~got.fresh
    BY <1>1 DEF Link, LinkedTo
<1>2. CASE got.fresh
  <2>1. /\ nodes' = IF key \in DOMAIN ns THEN [ns EXCEPT ![key].acon = got.c] ELSE ns
        /\ data' = [ds EXCEPT ![got.c] = key]
        /\ net' = [net EXCEPT ![got.c].peer = server]
    BY <1>2 DEF Link
  <2>2. /\ net' \in [Contexts -> Connections]
        /\ \A c \in Contexts : net'[c].out = net[c].out
    <3> DEFINE x == [net[got.c] EXCEPT !.peer = server]
    <3>1. net' = [net EXCEPT ![got.c] = x]
      BY <2>1
    <3>2. net[got.c] \in Connections
      BY <1>2
    <3>3. /\ x \in Connections
          /\ x.out = net[got.c].out
      BY <3>2 DEF Connections
    <3> HIDE DEF x
    <3> QED
      BY <1>2, <3>1, <3>3
  <2>3. OnContexts(data') /\ \A c \in Contexts : data'[c] = IF c = got.c THEN key ELSE ds[c]
    BY <1>2, <2>1 DEF OnContexts
  <2>4. CASE key \notin DOMAIN ns
    BY <1>2, <2>1, <2>2, <2>3, <2>4 DEF LinkedTo
  <2>5. CASE key \in DOMAIN ns
    <3> DEFINE v == [ns[key] EXCEPT !.acon = got.c]
    <3>1. nodes' = [ns EXCEPT ![key] = v]
      BY <2>1, <2>5
    <3>2. v \in Pairs /\ v.acon = got.c
      BY <1>2, <2>5 DEF Keyed, Pairs
    <3> HIDE DEF v
    <3>3. DOMAIN nodes' = DOMAIN ns /\ \A k \in DOMAIN ns : nodes'[k] = IF k = key THEN v ELSE ns[k]
      BY <3>1 DEF Keyed
    <3>4. nodes' = [k \in DOMAIN nodes' |-> nodes'[k]]
      BY <3>1 DEF Keyed
    <3>5. Keyed(nodes')
      BY <3>2, <3>3, <3>4 DEF Keyed
    <3> QED
      BY <1>2, <2>2, <2>3, <3>2, <3>3, <3>5 DEF LinkedTo
  <2> QED
    BY <2>4, <2>5
<1> QED
    BY <1>1, <1>2

\* A context that has been freed.
LEMMA FreedContext ==
    LET a == [Unused EXCEPT !.life = "freed"]
    IN  /\ IsContext(a)
        /\ a.life = "freed" /\ a.flags = {} /\ a.err = FALSE /\ a.replies = <<>> /\ a.obuf = <<>> /\ a.ibuf = <<>>
        /\ a.ev = {}
<1>1. PICK q : q = <<>>
    OBVIOUS
<1>2. PICK f : f = {}
    OBVIOUS
<1>3. PICK l : l = "freed"
    OBVIOUS
<1>4. PICK e : e = FALSE
    OBVIOUS
<1>5. q \in Seq(Callbacks) /\ q \in Seq(Commands) /\ q \in Seq(Replies)
    BY <1>1
<1>6. f \in SUBSET Flags /\ f \in SUBSET {"r", "w"} /\ l \in {"unused", "alive", "freed"} /\ e \in BOOLEAN
    BY <1>2, <1>3, <1>4
<1>7. PICK a : a = [Unused EXCEPT !.life = "freed"]
    OBVIOUS
<1>8. a = Context(l, f, e, q, q, q, f)
    BY <1>1, <1>2, <1>3, <1>4, <1>7, NewContexts
<1>9. /\ IsContext(a) /\ a.life = l /\ a.flags = f /\ a.err = e /\ a.replies = q /\ a.obuf = q /\ a.ibuf = q
      /\ a.ev = f
    BY <1>5, <1>6, <1>8, ContextTyped
<1> QED
    BY <1>1, <1>2, <1>3, <1>4, <1>7, <1>9

\* The first of the callbacks that a context waits for.
LEMMA FirstCallback ==
    ASSUME NEW n \in Nat, NEW acs, ContextsOK(acs), IdsOK(acs, n), NEW c \in Contexts, acs[c].replies # <<>>
    PROVE  LET s == acs[c].replies
           IN  /\ s \in Seq(Callbacks) /\ Len(s) \in Nat \ {0}
               /\ Head(s) = s[1] /\ Head(s) \in Callbacks /\ Head(s).id \in 0 .. n
               /\ Tail(s) \in Seq(Callbacks) /\ Len(Tail(s)) = Len(s) - 1
               /\ \A k \in 1 .. Len(s) - 1 : Tail(s)[k] = s[k + 1]
<1> DEFINE s == acs[c].replies
<1>1. s \in Seq(Callbacks) /\ s # <<>>
    BY DEF ContextsOK, IsContext
<1>2. \A k \in 1 .. Len(s) : s[k].id \in 0 .. n
    BY DEF IdsOK, Waits
<1> HIDE DEF s
<1>3. Len(s) \in Nat \ {0}
    BY <1>1
<1>4. Head(s) = s[1] /\ Head(s) \in Callbacks /\ 1 \in 1 .. Len(s)
    BY <1>1, <1>3
<1>5. /\ Tail(s) \in Seq(Callbacks) /\ Len(Tail(s)) = Len(s) - 1
      /\ \A k \in 1 .. Len(s) - 1 : Tail(s)[k] = s[k + 1]
    BY <1>1, HeadTailProperties
<1> QED
    BY <1>1, <1>2, <1>3, <1>4, <1>5 DEF s

\* A context without the first of its callbacks.
LEMMA ShiftedContext ==
    ASSUME NEW a, IsContext(a), a.replies # <<>>
    PROVE  LET b == ShiftCallback(a, "replies").a
           IN  /\ IsContext(b)
               /\ b.life = a.life /\ b.flags = a.flags /\ b.err = a.err /\ b.replies = Tail(a.replies)
               /\ b.obuf = a.obuf /\ b.ibuf = a.ibuf /\ b.ev = a.ev
<1>1. PICK t : t = Tail(a.replies)
    OBVIOUS
<1>2. a.replies \in Seq(Callbacks)
    BY DEF IsContext
<1>3. t \in Seq(Callbacks)
    BY <1>1, <1>2, HeadTailProperties
<1>4. PICK b : b = ShiftCallback(a, "replies").a
    OBVIOUS
<1>5. b = Context(a.life, a.flags, a.err, t, a.obuf, a.ibuf, a.ev)
    BY <1>1, <1>4, Shifted DEF IsContext
<1>6. /\ a.life \in {"unused", "alive", "freed"} /\ a.flags \in SUBSET Flags /\ a.err \in BOOLEAN
      /\ a.obuf \in Seq(Commands) /\ a.ibuf \in Seq(Replies) /\ a.ev \in SUBSET {"r", "w"}
    BY DEF IsContext
<1>7. /\ IsContext(b) /\ b.life = a.life /\ b.flags = a.flags /\ b.err = a.err /\ b.replies = t
      /\ b.obuf = a.obuf /\ b.ibuf = a.ibuf /\ b.ev = a.ev
    BY <1>3, <1>5, <1>6, ContextTyped
<1> QED
    BY <1>1, <1>4, <1>7

\* the library has called the first callback cb of the context c, if it is
\* not NULL, with a reply; st is the stack of the library
Called(c, cb, reply, st) ==
    /\ cb.fn => /\ ac'[c].flags = ac[c].flags \cup {"IN_CALLBACK"}
                /\ stack' = Append(st, CallbackFrame(c, cb, reply))
                /\ CallbackFrame(c, cb, reply) \in Frames
                /\ cb.id \in 1 .. Len(cads)
                /\ calls' = [calls EXCEPT ![cb.id] = Append(@, reply)]
    /\ ~cb.fn => ac'[c].flags = ac[c].flags /\ stack' = st /\ calls' = calls

\* FreeCallback.
LEMMA FreeCallbackDoes ==
    ASSUME TypeOK, FreeCallback
    PROVE  LET c == Top.c
               cb == Head(ac[c].replies)
           IN  /\ aborted = "no" /\ stack # <<>> /\ Top.at = "free" /\ c \in Contexts /\ ac[c].replies # <<>>
               /\ ContextsOK(ac') /\ OthersSame(ac, ac', c)
               /\ ac'[c].life = ac[c].life /\ ac'[c].err = ac[c].err /\ ac'[c].replies = Tail(ac[c].replies)
               /\ ac'[c].obuf = ac[c].obuf /\ ac'[c].ibuf = ac[c].ibuf /\ ac'[c].ev = ac[c].ev
               /\ StackOK(stack', Len(cads))
               /\ calls' \in Seq(Seq(Results)) /\ Len(calls') = Len(cads)
               /\ Called(c, cb, NULL, stack)
               /\ UNCHANGED <<net, cmds, onDisc, asked, aborted, odd, spent>>
<1> DEFINE c == Top.c
           a == ac[c]
           cb == Head(a.replies)
           n == Len(cads)
<1>1. n \in Nat /\ StackOK(stack, n) /\ ContextsOK(ac) /\ IdsOK(ac, n) /\ calls \in Seq(Seq(Results)) /\ Len(calls) = n
    BY DEF TypeOK, CommandsOK
<1>2. aborted = "no" /\ stack # <<>> /\ Top.at = "free"
    BY DEF FreeCallback, AtTop
<1>3. c \in Contexts /\ Top.subs = <<>>
    BY <1>1, <1>2, TopFrame
<1>4. IsContext(a) /\ a.invalid = <<>>
    BY <1>1, <1>3 DEF ContextsOK, IsContext, HasFields, Context
<1>5. a.replies # <<>> /\ RunCallback(c, ShiftCallback(a, "replies").a, ShiftCallback(a, "replies").cb, NULL, stack)
    BY <1>3, <1>4 DEF FreeCallback
<1>6. cb \in Callbacks /\ cb.id \in 0 .. n
    BY <1>1, <1>3, <1>5, FirstCallback
<1>7. ShiftCallback(a, "replies").cb = cb
    BY DEF ShiftCallback
<1>8. PICK b : b = ShiftCallback(a, "replies").a
    OBVIOUS
<1>9. /\ IsContext(b)
      /\ b.life = a.life /\ b.flags = a.flags /\ b.err = a.err /\ b.replies = Tail(a.replies)
      /\ b.obuf = a.obuf /\ b.ibuf = a.ibuf /\ b.ev = a.ev
    BY <1>4, <1>5, <1>8, ShiftedContext
<1>10. RunCallback(c, b, cb, NULL, stack)
    BY <1>5, <1>7, <1>8
<1>11. NULL \in Results
    BY DEF Results
<1> HIDE DEF cb, n
<1>12. /\ ContextsOK(ac') /\ OthersSame(ac, ac', c) /\ Kept(b, ac'[c])
       /\ StackOK(stack', n)
       /\ calls' \in Seq(Seq(Results)) /\ Len(calls') = n
       /\ cb.fn => /\ ac'[c].flags = b.flags \cup {"IN_CALLBACK"}
                   /\ stack' = Append(stack, CallbackFrame(c, cb, NULL))
                   /\ CallbackFrame(c, cb, NULL) \in Frames
                   /\ cb.id \in 1 .. n
                   /\ calls' = [calls EXCEPT ![cb.id] = Append(@, NULL)]
       /\ ~cb.fn => ac'[c] = b /\ stack' = stack /\ calls' = calls
    BY <1>1, <1>3, <1>6, <1>9, <1>10, <1>11, Ran
<1>13. Called(c, cb, NULL, stack)
    BY <1>9, <1>12 DEF Called, n
<1>14. UNCHANGED <<net, cmds, onDisc, asked, aborted, odd, spent>>
    BY DEF FreeCallback
<1> QED
    BY <1>2, <1>3, <1>5, <1>9, <1>12, <1>13, <1>14 DEF Kept, cb, n

\* What a context has read.
LEMMA FirstReply ==
    ASSUME NEW acs, ContextsOK(acs), NEW c \in Contexts, acs[c].ibuf # <<>>
    PROVE  LET s == acs[c].ibuf
           IN  /\ s \in Seq(Replies) /\ Len(s) \in Nat \ {0}
               /\ Head(s) = s[1] /\ Head(s) \in Replies
               /\ Tail(s) \in Seq(Replies) /\ Len(Tail(s)) = Len(s) - 1
               /\ \A k \in 1 .. Len(s) - 1 : Tail(s)[k] = s[k + 1]
<1> DEFINE s == acs[c].ibuf
<1>1. s \in Seq(Replies) /\ s # <<>>
    BY DEF ContextsOK, IsContext
<1> HIDE DEF s
<1>2. Len(s) \in Nat \ {0}
    BY <1>1
<1>3. Head(s) = s[1] /\ Head(s) \in Replies
    BY <1>1, <1>2
<1>4. /\ Tail(s) \in Seq(Replies) /\ Len(Tail(s)) = Len(s) - 1
      /\ \A k \in 1 .. Len(s) - 1 : Tail(s)[k] = s[k + 1]
    BY <1>1, HeadTailProperties
<1> QED
    BY <1>1, <1>2, <1>3, <1>4 DEF s

\* ProcessReply: the first reply is for the first callback.  If there is none
\* the program is aborted.
LEMMA ProcessReplyDoes ==
    ASSUME TypeOK, ProcessReply
    PROVE  LET c == Top.c
               cb == Head(ac[c].replies)
               r == Head(ac[c].ibuf)
           IN  /\ aborted = "no" /\ stack # <<>> /\ Top.at = "process" /\ c \in Contexts /\ ac[c].ibuf # <<>>
               /\ StackOK(stack', Len(cads))
               /\ calls' \in Seq(Seq(Results)) /\ Len(calls') = Len(cads)
               /\ ContextsOK(ac')
               /\ UNCHANGED <<net, cmds, onDisc, asked, odd, spent>>
               /\ \/ /\ ac[c].replies # <<>>
                     /\ OthersSame(ac, ac', c)
                     /\ ac'[c].life = ac[c].life /\ ac'[c].err = ac[c].err /\ ac'[c].replies = Tail(ac[c].replies)
                     /\ ac'[c].obuf = ac[c].obuf /\ ac'[c].ibuf = Tail(ac[c].ibuf) /\ ac'[c].ev = ac[c].ev
                     /\ Called(c, cb, r, <<ProcessFrame(c, cb)>>)
                     /\ UNCHANGED aborted
                  \/ ac[c].replies = <<>> /\ aborted' = "unexpected" /\ stack' = <<>> /\ UNCHANGED <<ac, calls>>
<1> DEFINE c == Top.c
           a == [ac[c] EXCEPT !.ibuf = Tail(@)]
           cb == Head(ac[c].replies)
           r == Head(ac[c].ibuf)
           n == Len(cads)
<1>1. n \in Nat /\ StackOK(stack, n) /\ ContextsOK(ac) /\ IdsOK(ac, n) /\ calls \in Seq(Seq(Results)) /\ Len(calls) = n
    BY DEF TypeOK, CommandsOK
<1>2. aborted = "no" /\ stack # <<>> /\ Top.at = "process" /\ ac[c].ibuf # <<>>
    BY DEF ProcessReply, AtTop
<1>3. c \in Contexts /\ Below = <<>>
    BY <1>1, <1>2, TopFrame
<1>4. IsContext(ac[c])
    BY <1>1, <1>3 DEF ContextsOK
<1>5. r \in Replies /\ Tail(ac[c].ibuf) \in Seq(Replies)
    BY <1>1, <1>2, <1>3, FirstReply
<1>6. r.kind # "bad" /\ r.kind # "error"
    BY <1>5 DEF Replies
<1>7. /\ IsContext(a)
      /\ a.life = ac[c].life /\ a.flags = ac[c].flags /\ a.err = ac[c].err /\ a.replies = ac[c].replies
      /\ a.obuf = ac[c].obuf /\ a.ibuf = Tail(ac[c].ibuf) /\ a.ev = ac[c].ev
  <2>1. PICK x : x = ac[c]
    OBVIOUS
  <2>2. PICK t : t = Tail(x.ibuf)
    OBVIOUS
  <2>3. PICK y : y = [x EXCEPT !.ibuf = t]
    OBVIOUS
  <2>4. IsContext(x) /\ t \in Seq(Replies)
    BY <1>4, <1>5, <2>1, <2>2
  <2>5. y = Context(x.life, x.flags, x.err, x.replies, x.obuf, t, x.ev)
    BY <2>3, <2>4, SetInput DEF IsContext
  <2>6. /\ x.life \in {"unused", "alive", "freed"} /\ x.flags \in SUBSET Flags /\ x.err \in BOOLEAN
        /\ x.replies \in Seq(Callbacks) /\ x.obuf \in Seq(Commands) /\ x.ev \in SUBSET {"r", "w"}
    BY <2>4 DEF IsContext
  <2>7. /\ IsContext(y)
        /\ y.life = x.life /\ y.flags = x.flags /\ y.err = x.err /\ y.replies = x.replies
        /\ y.obuf = x.obuf /\ y.ibuf = t /\ y.ev = x.ev
    BY <2>4, <2>5, <2>6, ContextTyped
  <2> QED
    BY <2>1, <2>2, <2>3, <2>7
<1>8. {"SUBSCRIBED", "MONITORING"} \cap a.flags = {}
    BY <1>4, <1>7 DEF IsContext, Flags
<1>9. UNCHANGED <<net, cmds, onDisc, asked, odd, spent>>
    BY DEF ProcessReply
<1> DEFINE st == Append(Below, ProcessFrame(c, ShiftCallback(a, "replies").cb))
<1>10. IF a.replies # <<>>
       THEN RunCallback(c, ShiftCallback(a, "replies").a, ShiftCallback(a, "replies").cb, r, st) /\ UNCHANGED aborted
       ELSE Abort("unexpected") /\ UNCHANGED <<ac, calls>>
  <2> HIDE DEF a, r
  <2> QED
    BY <1>6, <1>8 DEF ProcessReply, a, r
<1> HIDE DEF a, st, r
<1>11. CASE a.replies # <<>>
  <2>1. cb \in Callbacks /\ cb.id \in 0 .. n
    BY <1>1, <1>3, <1>7, <1>11, FirstCallback
  <2>2. ShiftCallback(a, "replies").cb = cb
    BY <1>7 DEF ShiftCallback
  <2>3. PICK b : b = ShiftCallback(a, "replies").a
    OBVIOUS
  <2>4. /\ IsContext(b)
        /\ b.life = a.life /\ b.flags = a.flags /\ b.err = a.err /\ b.replies = Tail(a.replies)
        /\ b.obuf = a.obuf /\ b.ibuf = a.ibuf /\ b.ev = a.ev
    BY <1>7, <1>11, <2>3, ShiftedContext
  <2>5. RunCallback(c, b, cb, r, st) /\ UNCHANGED aborted
    BY <1>10, <1>11, <2>2, <2>3
  <2>6. ProcessFrame(c, cb) \in Frames
    BY <1>3, <2>1 DEF Frames, ProcessFrame
  <2>7. st = <<ProcessFrame(c, cb)>>
    BY <1>3, <2>2 DEF st
  <2> HIDE DEF cb, c
  <2>8. StackOK(st, n)
    BY <2>6, <2>7 DEF StackOK, ProcessFrame, Pending
  <2>9. r \in Results
    BY <1>5 DEF Results
  <2> HIDE DEF n
  <2>10. /\ ContextsOK(ac') /\ OthersSame(ac, ac', c) /\ Kept(b, ac'[c])
         /\ StackOK(stack', n)
         /\ calls' \in Seq(Seq(Results)) /\ Len(calls') = n
         /\ cb.fn => /\ ac'[c].flags = b.flags \cup {"IN_CALLBACK"}
                     /\ stack' = Append(st, CallbackFrame(c, cb, r))
                     /\ CallbackFrame(c, cb, r) \in Frames
                     /\ cb.id \in 1 .. n
                     /\ calls' = [calls EXCEPT ![cb.id] = Append(@, r)]
         /\ ~cb.fn => ac'[c] = b /\ stack' = st /\ calls' = calls
    BY <1>1, <1>3, <2>1, <2>4, <2>5, <2>8, <2>9, Ran
  <2>11. Called(c, cb, r, st)
    BY <1>7, <2>4, <2>10 DEF Called, n
  <2>12. Called(c, cb, r, <<ProcessFrame(c, cb)>>)
    BY <2>7, <2>11
  <2>13. /\ ac'[c].life = ac[c].life /\ ac'[c].err = ac[c].err /\ ac'[c].replies = Tail(ac[c].replies)
         /\ ac'[c].obuf = ac[c].obuf /\ ac'[c].ibuf = Tail(ac[c].ibuf) /\ ac'[c].ev = ac[c].ev
    BY <1>7, <2>4, <2>10 DEF Kept
  <2> QED
    BY <1>2, <1>3, <1>7, <1>9, <1>11, <2>5, <2>10, <2>12, <2>13 DEF c, cb, n, r
<1>12. CASE a.replies = <<>>
  <2>1. aborted' = "unexpected" /\ stack' = <<>> /\ UNCHANGED <<ac, calls>>
    BY <1>10, <1>12 DEF Abort
  <2>2. StackOK(stack', n)
    BY <2>1 DEF StackOK
  <2>3. ContextsOK(ac')
    BY <1>1, <2>1
  <2> QED
    BY <1>1, <1>2, <1>3, <1>7, <1>9, <1>12, <2>1, <2>2, <2>3
<1> QED
    BY <1>11, <1>12

\* ProcessNone.
LEMMA ProcessNoneDoes ==
    ASSUME TypeOK, ProcessNone
    PROVE  LET c == Top.c
           IN  /\ aborted = "no" /\ stack # <<>> /\ Top.at = "process" /\ c \in Contexts /\ ac[c].ibuf = <<>>
               /\ ContextsOK(ac') /\ OthersSame(ac, ac', c) /\ Kept(ac[c], ac'[c])
               /\ StackOK(stack', Len(cads))
               /\ ac'[c].flags = ac[c].flags
               /\ \/ stack' = <<>> /\ UNCHANGED aborted
                  \/ /\ aborted' = aborted /\ "DISCONNECTING" \in ac[c].flags
                     /\ FreeCalled(<<>>, c)
                  \/ aborted' = "pending" /\ stack' = <<>>
               /\ UNCHANGED <<net, cmds, calls, onDisc, asked, odd, spent>>
<1> DEFINE c == Top.c
           n == Len(cads)
<1>1. n \in Nat /\ StackOK(stack, n) /\ ContextsOK(ac)
    BY DEF TypeOK, CommandsOK
<1>2. aborted = "no" /\ stack # <<>> /\ Top.at = "process" /\ ac[c].ibuf = <<>>
    BY DEF ProcessNone, AtTop
<1>3. c \in Contexts /\ Below = <<>>
    BY <1>1, <1>2, TopFrame
<1>4. IsContext(ac[c])
    BY <1>1, <1>3 DEF ContextsOK
<1>5. "MONITORING" \notin ac[c].flags
    BY <1>4 DEF IsContext, Flags
<1>6. StackOK(<<>>, n)
    BY DEF StackOK
<1>7. UNCHANGED <<net, cmds, calls, onDisc, asked, odd, spent>>
    BY DEF ProcessNone
<1> HIDE DEF c, n
<1>8. CASE Disconnect(c, ac[c], <<>>) /\ "DISCONNECTING" \in ac[c].flags
  <2>1. /\ ContextsOK(ac') /\ OthersSame(ac, ac', c) /\ Kept(ac[c], ac'[c])
        /\ StackOK(stack', n)
        /\ ac'[c].flags = IF ac[c].err THEN ac[c].flags \cup {"DISCONNECTING"} ELSE ac[c].flags
        /\ \/ /\ aborted' = aborted
              /\ FreeCalled(<<>>, c)
           \/ aborted' = "pending" /\ stack' = <<>> /\ ~ac[c].err /\ ac[c].replies # <<>>
    <3>1. PICK a, st : a = ac[c] /\ st = <<>>
      OBVIOUS
    <3>2. Disconnect(c, a, st) /\ IsContext(a) /\ StackOK(st, n)
      BY <1>4, <1>6, <1>8, <3>1
    <3>3. /\ ContextsOK(ac') /\ OthersSame(ac, ac', c) /\ Kept(a, ac'[c])
          /\ StackOK(stack', n)
          /\ ac'[c].flags = IF a.err THEN a.flags \cup {"DISCONNECTING"} ELSE a.flags
          /\ \/ /\ aborted' = aborted
                /\ FreeCalled(st, c)
             \/ aborted' = "pending" /\ stack' = <<>> /\ ~a.err /\ a.replies # <<>>
      BY <1>1, <1>3, <3>2, Disconnected
    <3> QED
      BY <3>1, <3>3
  <2>2. ac'[c].flags = ac[c].flags
    BY <1>8, <2>1
  <2> QED
    BY <1>2, <1>3, <1>7, <1>8, <2>1, <2>2 DEF c, n
<1>9. CASE ac' = [ac EXCEPT ![c] = ac[c]] /\ stack' = <<>> /\ UNCHANGED aborted
  <2>1. Replaced(ac, ac', c, ac[c])
    BY <1>9 DEF Replaced
  <2>2. ContextsOK(ac') /\ OthersSame(ac, ac', c) /\ ac'[c] = ac[c]
    BY <1>1, <1>3, <1>4, <2>1, OneContext
  <2> QED
    BY <1>2, <1>3, <1>6, <1>7, <1>9, <2>2 DEF Kept, c, n
<1> QED
    BY <1>3, <1>5, <1>8, <1>9 DEF ProcessNone, c

\* The callbacks that contexts wait for are still those of commands.
LEMMA IdsKept ==
    ASSUME NEW n \in Nat, NEW m \in Nat, n <= m, NEW acs, IdsOK(acs, n), NEW then,
           \A c \in Contexts : \A cb \in Waits(then[c]) : cb \in Waits(acs[c]) \/ cb.id \in 0 .. m
    PROVE  IdsOK(then, m)
<1> QED
    BY DEF IdsOK

\* A context fails: onConnect or the callbacks are told, and it is freed.
LEMMA Failed ==
    ASSUME NEW n \in Nat, ContextsOK(ac), stack = <<>>, NEW c \in Contexts, NEW x, IsContext(x),
           NEW a, a = [x EXCEPT !.err = TRUE], Disconnect(c, a, stack)
    PROVE  /\ ContextsOK(ac') /\ OthersSame(ac, ac', c)
           /\ ac'[c].life = x.life /\ ac'[c].err = TRUE /\ ac'[c].flags = x.flags \cup {"DISCONNECTING"}
           /\ ac'[c].replies = x.replies /\ ac'[c].obuf = x.obuf /\ ac'[c].ibuf = x.ibuf /\ ac'[c].ev = x.ev
           /\ StackOK(stack', n) /\ FreeCalled(<<>>, c) /\ aborted' = aborted
<1>1. PICK e : e = TRUE
    OBVIOUS
<1>2. a = Context(x.life, x.flags, e, x.replies, x.obuf, x.ibuf, x.ev)
  <2>1. a = [x EXCEPT !.err = e]
    BY <1>1
  <2> QED
    BY <2>1, SetErr DEF IsContext
<1>3. /\ x.life \in {"unused", "alive", "freed"} /\ x.flags \in SUBSET Flags /\ e \in BOOLEAN
      /\ x.replies \in Seq(Callbacks) /\ x.obuf \in Seq(Commands) /\ x.ibuf \in Seq(Replies)
      /\ x.ev \in SUBSET {"r", "w"}
    BY <1>1 DEF IsContext
<1>4. /\ IsContext(a) /\ a.life = x.life /\ a.flags = x.flags /\ a.err = TRUE /\ a.replies = x.replies
      /\ a.obuf = x.obuf /\ a.ibuf = x.ibuf /\ a.ev = x.ev
  <2>1. PICK y : y = Context(x.life, x.flags, e, x.replies, x.obuf, x.ibuf, x.ev)
    OBVIOUS
  <2>2. /\ IsContext(y) /\ y.life = x.life /\ y.flags = x.flags /\ y.err = e /\ y.replies = x.replies
        /\ y.obuf = x.obuf /\ y.ibuf = x.ibuf /\ y.ev = x.ev
    BY <1>3, <2>1, ContextTyped
  <2> QED
    BY <1>1, <1>2, <2>1, <2>2
<1>5. PICK st : st = stack
    OBVIOUS
<1>6. StackOK(st, n) /\ Disconnect(c, a, st)
    BY <1>5 DEF StackOK
<1>7. /\ ContextsOK(ac') /\ OthersSame(ac, ac', c) /\ Kept(a, ac'[c])
      /\ StackOK(stack', n)
      /\ ac'[c].flags = IF a.err THEN a.flags \cup {"DISCONNECTING"} ELSE a.flags
      /\ \/ /\ aborted' = aborted
            /\ FreeCalled(st, c)
         \/ aborted' = "pending" /\ stack' = <<>> /\ ~a.err /\ a.replies # <<>>
    BY <1>4, <1>6, Disconnected
<1> QED
    BY <1>4, <1>5, <1>7 DEF Kept

\* ConnectFails and ReadFails.
LEMMA FailsDo ==
    ASSUME TypeOK, NEW c \in Contexts, ConnectFails(c) \/ ReadFails(c)
    PROVE  /\ aborted = "no" /\ stack = <<>>
           /\ ContextsOK(ac') /\ OthersSame(ac, ac', c)
           /\ ac'[c].life = ac[c].life /\ ac'[c].err = TRUE
           /\ ac'[c].flags = ac[c].flags \cup {"DISCONNECTING"}
           /\ ac'[c].replies = ac[c].replies /\ ac'[c].obuf = ac[c].obuf /\ ac'[c].ibuf = ac[c].ibuf
           /\ ac'[c].ev = ac[c].ev /\ ac[c].ev # {}
           /\ StackOK(stack', Len(cads)) /\ FreeCalled(<<>>, c)
           /\ UNCHANGED <<net, cmds, calls, onDisc, asked, aborted, odd>>
<1>1. Len(cads) \in Nat /\ ContextsOK(ac) /\ IsContext(ac[c])
    BY DEF TypeOK, CommandsOK, ContextsOK
<1>2. aborted = "no" /\ stack = <<>> /\ ac[c].ev # {}
    BY DEF ConnectFails, ReadFails, EventLoop
<1>3. PICK x : x = ac[c]
    OBVIOUS
<1>4. PICK a : a = [x EXCEPT !.err = TRUE]
    OBVIOUS
<1>5. Disconnect(c, a, stack) /\ UNCHANGED <<net, cmds, calls, onDisc, asked, odd>>
    BY <1>3, <1>4 DEF ConnectFails, ReadFails
<1>6. IsContext(x)
    BY <1>1, <1>3
<1>7. /\ ContextsOK(ac') /\ OthersSame(ac, ac', c)
      /\ ac'[c].life = x.life /\ ac'[c].err = TRUE /\ ac'[c].flags = x.flags \cup {"DISCONNECTING"}
      /\ ac'[c].replies = x.replies /\ ac'[c].obuf = x.obuf /\ ac'[c].ibuf = x.ibuf /\ ac'[c].ev = x.ev
      /\ StackOK(stack', Len(cads)) /\ FreeCalled(<<>>, c) /\ aborted' = aborted
    BY <1>1, <1>2, <1>4, <1>5, <1>6, Failed
<1> QED
    BY <1>2, <1>3, <1>5, <1>7

\* A list is cut in two.
LEMMA Cut ==
    ASSUME NEW S, NEW s \in Seq(S), NEW n \in 0 .. Len(s)
    PROVE  LET a == SubSeq(s, 1, n)
               b == SubSeq(s, n + 1, Len(s))
           IN  /\ a \in Seq(S) /\ Len(a) = n /\ \A k \in 1 .. n : a[k] = s[k]
               /\ b \in Seq(S) /\ Len(b) = Len(s) - n /\ \A k \in 1 .. Len(s) - n : b[k] = s[n + k]
<1> DEFINE l == Len(s)
           a == SubSeq(s, 1, n)
           b == SubSeq(s, n + 1, l)
<1>1. l \in Nat /\ n \in Nat /\ n <= l /\ \A i \in 1 .. l : s[i] \in S
    OBVIOUS
<1> HIDE DEF l
<1>2. /\ a \in Seq(S)
      /\ Len(a) = IF 1 <= n THEN n - 1 + 1 ELSE 0
      /\ \A i \in 1 .. n - 1 + 1 : a[i] = s[1 + i - 1]
  <2>1. 1 \in Int /\ n \in Int /\ \A i \in 1 .. n : s[i] \in S
    BY <1>1
  <2> QED
    BY <2>1, SubSeqProperties
<1>3. /\ b \in Seq(S)
      /\ Len(b) = IF n + 1 <= l THEN l - (n + 1) + 1 ELSE 0
      /\ \A i \in 1 .. l - (n + 1) + 1 : b[i] = s[n + 1 + i - 1]
  <2> DEFINE m == n + 1
  <2>1. m \in Int /\ l \in Int /\ \A i \in m .. l : s[i] \in S
    BY <1>1
  <2> HIDE DEF m
  <2>2. /\ SubSeq(s, m, l) \in Seq(S)
        /\ Len(SubSeq(s, m, l)) = IF m <= l THEN l - m + 1 ELSE 0
        /\ \A i \in 1 .. l - m + 1 : SubSeq(s, m, l)[i] = s[m + i - 1]
    BY <2>1, SubSeqProperties
  <2> QED
    BY <2>2 DEF m
<1> HIDE DEF a, b
<1>4. Len(a) = n /\ \A k \in 1 .. n : a[k] = s[k]
  <2>1. n - 1 + 1 = n /\ \A k \in 1 .. n : 1 + k - 1 = k
    BY <1>1
  <2> QED
    BY <1>1, <1>2, <2>1
<1>5. Len(b) = l - n /\ \A k \in 1 .. l - n : b[k] = s[n + k]
  <2>1. l - (n + 1) + 1 = l - n /\ (~(n + 1 <= l) => l - n = 0)
    BY <1>1
  <2>2. \A k \in 1 .. l - n : n + 1 + k - 1 = n + k
    BY <1>1
  <2> QED
    BY <1>3, <2>1, <2>2
<1> QED
    BY <1>2, <1>3, <1>4, <1>5 DEF a, b, l

\* what is under way on a connection, in the order of the callbacks: the
\* replies i that have been read, the replies o to be read, and the commands
\* b to be written
Thing(i, o, b, k) ==
    IF k <= Len(i) THEN i[k]
    ELSE IF k <= Len(i) + Len(o) THEN o[k - Len(i)]
    ELSE b[k - (Len(i) + Len(o))]

\* ... on the connection n of a context a
Size(a, n) == Len(a.ibuf) + Len(n.out) + Len(a.obuf)
At(a, n, k) == Thing(a.ibuf, n.out, a.obuf, k)

\* the same is under way
SameThings(a, n, b, m) ==
    /\ Size(b, m) = Size(a, n)
    /\ \A k \in 1 .. Size(a, n) : At(b, m, k) = At(a, n, k)

\* a list is a followed by b
Halves(s, a, b) ==
    /\ Len(s) = Len(a) + Len(b)
    /\ \A k \in 1 .. Len(a) : a[k] = s[k]
    /\ \A k \in 1 .. Len(b) : b[k] = s[Len(a) + k]

\* a list is a with b at its end
Joined(s, a, b) == s = a \o b

\* the same is under way, with the replies i and o or with j and q
SameList(i, o, j, q, b) ==
    /\ Len(j) + Len(q) + Len(b) = Len(i) + Len(o) + Len(b)
    /\ \A k \in 1 .. Len(i) + Len(o) + Len(b) : Thing(j, q, b, k) = Thing(i, o, b, k)

\* Replies that are read are still under way.
LEMMA ReadThings ==
    ASSUME NEW i \in Seq(Replies), NEW p \in Seq(Replies), NEW q \in Seq(Replies), NEW o \in Seq(Replies),
           Halves(o, p, q), NEW b, Len(b) \in Nat, NEW j, Joined(j, i, p)
    PROVE  j \in Seq(Replies) /\ SameList(i, o, j, q, b)
<1> DEFINE li == Len(i)
           lp == Len(p)
           lq == Len(q)
           lo == Len(o)
           lb == Len(b)
<1>1. li \in Nat /\ lp \in Nat /\ lq \in Nat /\ lo \in Nat /\ lb \in Nat /\ lo = lp + lq
    BY DEF Halves
<1>2. PICK c : c = i \o p
    OBVIOUS
<1>3. /\ c \in Seq(Replies) /\ Len(c) = li + lp
      /\ \A k \in 1 .. li + lp : c[k] = IF k <= li THEN i[k] ELSE p[k - li]
    BY <1>2, ConcatProperties
<1>4. /\ \A k \in 1 .. lp : p[k] = o[k]
      /\ \A k \in 1 .. lq : q[k] = o[lp + k]
    BY DEF Halves
<1>5. \A k : Thing(i, o, b, k) = IF k <= li THEN i[k] ELSE IF k <= li + lo THEN o[k - li] ELSE b[k - (li + lo)]
    BY DEF Thing
<1>6. \A k : Thing(c, q, b, k) = IF k <= Len(c) THEN c[k] ELSE IF k <= Len(c) + lq THEN q[k - Len(c)]
                                 ELSE b[k - (Len(c) + lq)]
    BY DEF Thing
<1> HIDE DEF li, lp, lq, lo, lb
<1>7. \A k : Thing(c, q, b, k) = IF k <= li + lp THEN c[k] ELSE IF k <= li + lo THEN q[k - (li + lp)]
                                 ELSE b[k - (li + lo)]
  <2>1. Len(c) + lq = li + lo
    BY <1>1, <1>3
  <2> QED
    BY <1>3, <1>6, <2>1
<1>8. ASSUME NEW k \in 1 .. li + lo + lb
      PROVE  Thing(c, q, b, k) = Thing(i, o, b, k)
  <2>1. CASE k <= li
    <3>1. k \in 1 .. li + lp /\ k <= li + lp
      BY <1>1, <2>1
    <3> QED
      BY <1>3, <1>5, <1>7, <2>1, <3>1
  <2>2. CASE ~(k <= li) /\ k <= li + lp
    <3>1. k \in 1 .. li + lp /\ k <= li + lo /\ k - li \in 1 .. lp
      BY <1>1, <2>2
    <3>2. c[k] = p[k - li] /\ p[k - li] = o[k - li]
      BY <1>3, <1>4, <2>2, <3>1
    <3> QED
      BY <1>5, <1>7, <2>2, <3>1, <3>2
  <2>3. CASE ~(k <= li + lp) /\ k <= li + lo
    <3>1. ~(k <= li) /\ k - (li + lp) \in 1 .. lq /\ lp + (k - (li + lp)) = k - li
      BY <1>1, <2>3
    <3>2. q[k - (li + lp)] = o[k - li]
      BY <1>4, <3>1
    <3> QED
      BY <1>5, <1>7, <2>3, <3>1, <3>2
  <2>4. CASE ~(k <= li + lo)
    <3>1. ~(k <= li) /\ ~(k <= li + lp)
      BY <1>1, <2>4
    <3> QED
      BY <1>5, <1>7, <2>4, <3>1
  <2> QED
    BY <1>1, <2>1, <2>2, <2>3, <2>4
<1>9. Len(c) + lq + lb = li + lo + lb
    BY <1>1, <1>3
<1> QED
    BY <1>2, <1>3, <1>8, <1>9 DEF li, lp, lq, lo, lb, SameList, Joined

\* A connection.
LEMMA ConnectionFields ==
    ASSUME NEW n \in Connections
    PROVE  n.out \in Seq(Replies) /\ n.up \in BOOLEAN /\ n.peer \in Servers \cup {""} /\ n.asking \in BOOLEAN
<1> QED
    BY DEF Connections

\* A connection that carries other replies.
LEMMA OtherReplies ==
    ASSUME NEW n \in Connections, NEW o \in Seq(Replies), NEW m, m = [n EXCEPT !.out = o]
    PROVE  m \in Connections /\ m.out = o
<1> QED
    BY DEF Connections

\* redisAsyncHandleRead.
LEMMA ReadDoes ==
    ASSUME TypeOK, NEW c \in Contexts, redisAsyncHandleRead(c)
    PROVE  /\ aborted = "no" /\ stack = <<>>
           /\ ContextsOK(ac') /\ OthersSame(ac, ac', c)
           /\ ac'[c].life = ac[c].life /\ ac'[c].err = ac[c].err /\ ac'[c].flags = ac[c].flags
           /\ ac'[c].replies = ac[c].replies /\ ac'[c].obuf = ac[c].obuf
           /\ ac'[c].ev = ac[c].ev /\ ac[c].ev # {}
           /\ SameThings(ac[c], net[c], ac'[c], net'[c])
           /\ net' \in [Contexts -> Connections]
           /\ \A d \in Contexts : d # c => net'[d] = net[d]
           /\ StackOK(stack', Len(cads)) /\ stack' = <<ProcessFrame(c, NullCb)>>
           /\ UNCHANGED <<cmds, calls, onDisc, asked, aborted, odd>>
<1>1. aborted = "no" /\ stack = <<>> /\ ac[c].ev # {}
    BY DEF redisAsyncHandleRead, EventLoop
<1>2. PICK x : x = ac[c]
    OBVIOUS
<1>3. PICK o : o = net[c].out
    OBVIOUS
<1>4. PICK n \in 0 .. Len(o) : /\ net' = [net EXCEPT ![c].out = SubSeq(@, n + 1, Len(@))]
                               /\ ac' = [ac EXCEPT ![c].ibuf = @ \o SubSeq(net[c].out, 1, n)]
    BY <1>3 DEF redisAsyncHandleRead
<1>5. ContextsOK(ac) /\ IsContext(x) /\ net \in [Contexts -> Connections] /\ net[c] \in Connections
    BY <1>2 DEF TypeOK, ContextsOK
<1>6. o \in Seq(Replies)
    BY <1>3, <1>5, ConnectionFields
<1>7. PICK i : i = x.ibuf \o SubSeq(o, 1, n)
    OBVIOUS
<1>8. PICK r : r = SubSeq(o, n + 1, Len(o))
    OBVIOUS
<1>9. i \in Seq(Replies) /\ r \in Seq(Replies)
  <2>1. /\ SubSeq(o, 1, n) \in Seq(Replies)
        /\ r \in Seq(Replies)
    BY <1>6, <1>8, Cut
  <2> QED
    BY <1>5, <1>7, <2>1, ConcatProperties DEF IsContext
<1>10. PICK b : b = [x EXCEPT !.ibuf = i]
    OBVIOUS
<1>11. /\ IsContext(b) /\ b.life = x.life /\ b.flags = x.flags /\ b.err = x.err /\ b.replies = x.replies
       /\ b.obuf = x.obuf /\ b.ibuf = i /\ b.ev = x.ev
  <2>1. b = Context(x.life, x.flags, x.err, x.replies, x.obuf, i, x.ev)
    BY <1>5, <1>10, SetInput DEF IsContext
  <2>2. PICK y : y = Context(x.life, x.flags, x.err, x.replies, x.obuf, i, x.ev)
    OBVIOUS
  <2>3. /\ x.life \in {"unused", "alive", "freed"} /\ x.flags \in SUBSET Flags /\ x.err \in BOOLEAN
        /\ x.replies \in Seq(Callbacks) /\ x.obuf \in Seq(Commands) /\ x.ev \in SUBSET {"r", "w"}
    BY <1>5 DEF IsContext
  <2>4. /\ IsContext(y) /\ y.life = x.life /\ y.flags = x.flags /\ y.err = x.err /\ y.replies = x.replies
        /\ y.obuf = x.obuf /\ y.ibuf = i /\ y.ev = x.ev
    BY <1>9, <2>2, <2>3, ContextTyped
  <2> QED
    BY <2>1, <2>2, <2>4
<1>12. Replaced(ac, ac', c, b)
    BY <1>2, <1>3, <1>4, <1>7, <1>10 DEF Replaced
<1>13. ContextsOK(ac') /\ ac'[c] = b /\ OthersSame(ac, ac', c)
    BY <1>5, <1>11, <1>12, OneContext
<1>14. /\ net' \in [Contexts -> Connections] /\ net'[c].out = r
       /\ \A d \in Contexts : d # c => net'[d] = net[d]
  <2> DEFINE y == [net[c] EXCEPT !.out = r]
  <2>1. net' = [net EXCEPT ![c] = y]
    BY <1>3, <1>4, <1>8
  <2>2. y \in Connections /\ y.out = r
    BY <1>5, <1>9, OtherReplies
  <2> HIDE DEF y
  <2> QED
    BY <1>5, <2>1, <2>2
<1>15. SameThings(x, net[c], b, net'[c])
  <2>1. PICK p : p = SubSeq(o, 1, n)
    OBVIOUS
  <2>2. /\ p \in Seq(Replies) /\ Len(p) = n /\ \A k \in 1 .. n : p[k] = o[k]
        /\ r \in Seq(Replies) /\ Len(r) = Len(o) - n /\ \A k \in 1 .. Len(o) - n : r[k] = o[n + k]
    BY <1>6, <1>8, <2>1, Cut
  <2>3. Len(o) = Len(p) + Len(r)
    BY <1>6, <2>2
  <2>4. PICK y, z : y = x.ibuf /\ z = x.obuf
    OBVIOUS
  <2>5. y \in Seq(Replies) /\ Len(z) \in Nat
    BY <1>5, <2>4 DEF IsContext
  <2>6. Joined(i, y, p)
    BY <1>7, <2>1, <2>4 DEF Joined
  <2>7. p \in Seq(Replies) /\ r \in Seq(Replies)
    BY <2>2
  <2>8. Halves(o, p, r)
    BY <2>2, <2>3 DEF Halves
  <2>9. SameList(y, o, i, r, z)
    BY <1>6, <2>5, <2>6, <2>7, <2>8, ReadThings
  <2> QED
    BY <1>3, <1>11, <1>14, <2>4, <2>9 DEF SameThings, Size, At, SameList
<1>16. stack' = <<ProcessFrame(c, NullCb)>> /\ UNCHANGED <<cmds, calls, onDisc, asked, aborted, odd>>
    BY DEF redisAsyncHandleRead
<1>17. StackOK(stack', Len(cads))
  <2>1. ProcessFrame(c, NullCb) \in Frames
    BY NoCallback DEF Frames, ProcessFrame
  <2> QED
    BY <1>16, <2>1 DEF StackOK, ProcessFrame, Pending
<1> QED
    BY <1>1, <1>2, <1>11, <1>13, <1>14, <1>15, <1>16, <1>17

\* ans are the answers to the first commands of b, which has become q; o has
\* become r
ServedList(i, o, b, r, q, ans) ==
    /\ Len(i) + Len(r) + Len(q) = Len(i) + Len(o) + Len(b)
    /\ \A k \in 1 .. Len(i) + Len(o) + Len(b) :
          Thing(i, r, q, k) = IF k > Len(i) + Len(o) /\ k <= Len(i) + Len(o) + Len(ans)
                              THEN ans[k - (Len(i) + Len(o))] ELSE Thing(i, o, b, k)

\* Answers take the place of the commands.
LEMMA ServedThings ==
    ASSUME NEW i \in Seq(Replies), NEW o \in Seq(Replies), NEW ans \in Seq(Replies), NEW b, Len(b) \in Nat,
           NEW p, NEW q, Len(p) \in Nat, Len(q) \in Nat, Halves(b, p, q), Len(ans) = Len(p),
           NEW r, Joined(r, o, ans)
    PROVE  r \in Seq(Replies) /\ ServedList(i, o, b, r, q, ans)
<1> DEFINE li == Len(i)
           lp == Len(p)
           lq == Len(q)
           lo == Len(o)
           lb == Len(b)
<1>1. li \in Nat /\ lp \in Nat /\ lq \in Nat /\ lo \in Nat /\ lb \in Nat /\ lb = lp + lq
    BY DEF Halves
<1>2. PICK c : c = o \o ans
    OBVIOUS
<1>3. /\ c \in Seq(Replies) /\ Len(c) = lo + lp
      /\ \A k \in 1 .. lo + lp : c[k] = IF k <= lo THEN o[k] ELSE ans[k - lo]
  <2>1. /\ c \in Seq(Replies) /\ Len(c) = Len(o) + Len(ans)
        /\ \A k \in 1 .. Len(o) + Len(ans) : c[k] = IF k <= Len(o) THEN o[k] ELSE ans[k - Len(o)]
    BY <1>2, ConcatProperties
  <2>2. Len(ans) = lp /\ Len(o) = lo
    OBVIOUS
  <2> HIDE DEF lo, lp
  <2> QED
    BY <2>1, <2>2
<1>4. \A k \in 1 .. lq : q[k] = b[lp + k]
    BY DEF Halves
<1>5. \A k : Thing(i, o, b, k) = IF k <= li THEN i[k] ELSE IF k <= li + lo THEN o[k - li] ELSE b[k - (li + lo)]
    BY DEF Thing
<1>6. \A k : Thing(i, c, q, k) = IF k <= li THEN i[k] ELSE IF k <= li + Len(c) THEN c[k - li]
                                 ELSE q[k - (li + Len(c))]
    BY DEF Thing
<1> HIDE DEF li, lp, lq, lo, lb
<1>7. \A k : Thing(i, c, q, k) = IF k <= li THEN i[k] ELSE IF k <= li + (lo + lp) THEN c[k - li]
                                 ELSE q[k - (li + (lo + lp))]
    BY <1>3, <1>6
<1>8. ASSUME NEW k \in 1 .. li + lo + lb
      PROVE  Thing(i, c, q, k) = IF k > li + lo /\ k <= li + lo + lp THEN ans[k - (li + lo)]
                                 ELSE Thing(i, o, b, k)
  <2>1. CASE k <= li
    <3>1. ~(k > li + lo)
      BY <1>1, <2>1
    <3> QED
      BY <1>5, <1>7, <2>1, <3>1
  <2>2. CASE ~(k <= li) /\ k <= li + lo
    <3>1. k <= li + (lo + lp) /\ ~(k > li + lo) /\ k - li \in 1 .. lo + lp /\ k - li <= lo
      BY <1>1, <2>2
    <3>2. c[k - li] = o[k - li]
      BY <1>3, <3>1
    <3> QED
      BY <1>5, <1>7, <2>2, <3>1, <3>2
  <2>3. CASE ~(k <= li + lo) /\ k <= li + lo + lp
    <3>1. /\ ~(k <= li) /\ k <= li + (lo + lp) /\ k > li + lo /\ k - li \in 1 .. lo + lp /\ ~(k - li <= lo)
          /\ k - li - lo = k - (li + lo)
      BY <1>1, <2>3
    <3>2. c[k - li] = ans[k - li - lo]
      BY <1>3, <3>1
    <3>3. c[k - li] = ans[k - (li + lo)]
      BY <3>1, <3>2
    <3> QED
      BY <1>7, <2>3, <3>1, <3>3
  <2>4. CASE ~(k <= li + lo + lp)
    <3>1. /\ ~(k <= li) /\ ~(k <= li + (lo + lp)) /\ ~(k <= li + lo)
          /\ k - (li + (lo + lp)) \in 1 .. lq /\ lp + (k - (li + (lo + lp))) = k - (li + lo)
      BY <1>1, <2>4
    <3>2. q[k - (li + (lo + lp))] = b[k - (li + lo)]
      BY <1>4, <3>1
    <3> QED
      BY <1>5, <1>7, <2>4, <3>1, <3>2
  <2> QED
    BY <1>1, <2>1, <2>2, <2>3, <2>4
<1>9. li + (lo + lp) + lq = li + lo + lb
    BY <1>1
<1> QED
    BY <1>2, <1>3, <1>8, <1>9 DEF li, lp, lq, lo, lb, ServedList, Joined

\* no slot is moving
Settled == \A slot \in Slots : importing[slot] = None

\* What a server says to a command.
LEMMA AnswerTyped ==
    ASSUME ServersOK, NEW server \in Servers \cup {""}, NEW asking \in BOOLEAN, NEW cmd \in Commands
    PROVE  /\ Answer(server, asking, cmd) \in Replies /\ Answer(server, asking, cmd).id = cmd.id
           /\ Settled => Answer(server, asking, cmd).kind # "ask"
<1>1. cmd.id \in Nat /\ cmd.slot \in Slots
    BY DEF Commands
<1>2. importing[cmd.slot] # None => importing[cmd.slot] \in Servers
    BY <1>1 DEF ServersOK
<1>3. \A kind \in {"reply", "moved", "again"} :
         Reply(kind, cmd.id) \in Replies /\ Reply(kind, cmd.id).id = cmd.id /\ Reply(kind, cmd.id).kind # "ask"
    BY <1>1 DEF Reply, Replies
<1>5. Settled => importing[cmd.slot] = None
    BY <1>1 DEF Settled
<1>4. ASSUME NEW s \in Servers
      PROVE  /\ [kind |-> "ask", id |-> cmd.id, server |-> s] \in Replies
             /\ [kind |-> "ask", id |-> cmd.id, server |-> s].id = cmd.id
    BY <1>1 DEF Replies
<1> QED
    BY <1>2, <1>3, <1>4, <1>5 DEF Answer

\* What a server says to commands.
LEMMA AnswersTyped ==
    ASSUME ServersOK, NEW n \in Connections, NEW cs \in Seq(Commands), NEW ans, ans = AnswersTo(n, cs)
    PROVE  /\ ans \in Seq(Replies) /\ Len(ans) = Len(cs)
           /\ \A j \in 1 .. Len(cs) : ans[j].id = IF cs[j].kind = "asking" THEN 0 ELSE cs[j].id
           /\ Settled => \A j \in 1 .. Len(cs) : ans[j].kind # "ask"
<1>1. PICK a : a = ans
    OBVIOUS
<1>2. DOMAIN cs = 1 .. Len(cs) /\ Len(cs) \in Nat
    OBVIOUS
<1>3. a = [j \in 1 .. Len(cs) |->
             IF cs[j].kind = "asking" THEN Reply("reply", 0)
             ELSE Answer(n.peer, IF j = 1 THEN n.asking ELSE cs[j - 1].kind = "asking", cs[j])]
    BY <1>1, <1>2 DEF AnswersTo
<1>4. ASSUME NEW j \in 1 .. Len(cs)
      PROVE  /\ a[j] \in Replies /\ a[j].id = IF cs[j].kind = "asking" THEN 0 ELSE cs[j].id
             /\ Settled => a[j].kind # "ask"
  <2>1. cs[j] \in Commands
    OBVIOUS
  <2>2. CASE cs[j].kind = "asking"
    <3>1. a[j] = Reply("reply", 0)
      BY <1>3, <2>2
    <3> QED
      BY <2>2, <3>1 DEF Reply, Replies
  <2>3. CASE cs[j].kind # "asking"
    <3>1. PICK f : f = IF j = 1 THEN n.asking ELSE cs[j - 1].kind = "asking"
      OBVIOUS
    <3>2. f \in BOOLEAN /\ n.peer \in Servers \cup {""}
      <4>1. n.asking \in BOOLEAN /\ n.peer \in Servers \cup {""}
        BY ConnectionFields
      <4>2. (cs[j - 1].kind = "asking") \in BOOLEAN
        OBVIOUS
      <4>3. CASE j = 1
        BY <3>1, <4>1, <4>3
      <4>4. CASE j # 1
        BY <3>1, <4>1, <4>2, <4>4
      <4> QED
        BY <4>3, <4>4
    <3>3. a[j] = Answer(n.peer, f, cs[j])
      BY <1>3, <2>3, <3>1
    <3>4. /\ Answer(n.peer, f, cs[j]) \in Replies /\ Answer(n.peer, f, cs[j]).id = cs[j].id
          /\ Settled => Answer(n.peer, f, cs[j]).kind # "ask"
      BY <2>1, <3>2, AnswerTyped
    <3> QED
      BY <2>3, <3>3, <3>4
  <2> QED
    BY <2>2, <2>3
<1>5. a \in Seq(Replies) /\ Len(a) = Len(cs)
  <2>1. a = [j \in 1 .. Len(cs) |-> a[j]]
    BY <1>3
  <2> QED
    BY <1>2, <1>4, <2>1
<1> QED
    BY <1>1, <1>4, <1>5

\* The first commands of a context have been written: ans are the answers.
Written(c, ans) ==
    /\ ans \in Seq(Replies) /\ Len(ans) \in 0 .. Len(ac[c].obuf)
    /\ \A j \in 1 .. Len(ans) : ans[j].id = IF ac[c].obuf[j].kind = "asking" THEN 0 ELSE ac[c].obuf[j].id
    /\ Settled => \A j \in 1 .. Len(ans) : ans[j].kind # "ask"
    /\ ServedList(ac[c].ibuf, net[c].out, ac[c].obuf, net'[c].out, ac'[c].obuf, ans)
    /\ ac'[c].ibuf = ac[c].ibuf
    /\ ac'[c].err = ac[c].err /\ ac'[c].flags = ac[c].flags \cup {"CONNECTED"}
    /\ executed' = [i \in DOMAIN executed |->
                      executed[i] + Cardinality({j \in 1 .. Len(ans) : ans[j] = Reply("reply", i)})]
    /\ UNCHANGED <<stack, aborted>>

\* The connection of a context was found broken.
WriteFailed(c) ==
    /\ ac'[c].obuf = ac[c].obuf /\ ac'[c].ibuf = ac[c].ibuf /\ ac'[c].err = TRUE
    /\ ac'[c].flags = ac[c].flags \cup {"CONNECTED", "DISCONNECTING"}
    /\ FreeCalled(<<>>, c)
    /\ UNCHANGED <<net, executed, aborted>>

\* redisAsyncHandleWrite writes n commands.
WritesSome(c, n, ev) ==
    /\ net' = [net EXCEPT ![c] = ServeAt(net[c], SubSeq(ac[c].obuf, 1, n))]
    /\ ac' = [ac EXCEPT ![c] = [[ac[c] EXCEPT !.flags = @ \cup {"CONNECTED"}]
                                  EXCEPT !.obuf = SubSeq(@, n + 1, Len(@)), !.ev = ev]]
    /\ LET new == SubSeq(net'[c].out, Len(net[c].out) + 1, Len(net'[c].out))
       IN  executed' = [i \in DOMAIN executed |->
                          executed[i] + Cardinality({j \in DOMAIN new : new[j] = Reply("reply", i)})]
    /\ UNCHANGED <<stack, aborted>>

\* Some of the commands are written.
LEMMA WriteSome ==
    ASSUME TypeOK, NEW c \in Contexts, NEW n \in 0 .. Len(ac[c].obuf), NEW ev \in SUBSET {"r", "w"},
           WritesSome(c, n, ev)
    PROVE  /\ ContextsOK(ac') /\ OthersSame(ac, ac', c)
           /\ ac'[c].life = ac[c].life /\ ac'[c].replies = ac[c].replies /\ ac'[c].ev = ev
           /\ net' \in [Contexts -> Connections]
           /\ \A d \in Contexts : d # c => net'[d] = net[d]
           /\ \E ans : Written(c, ans)
<1>1. PICK x : x = ac[c]
    OBVIOUS
<1>2. PICK m : m = net[c]
    OBVIOUS
<1>3. ContextsOK(ac) /\ IsContext(x) /\ m \in Connections /\ net \in [Contexts -> Connections] /\ ServersOK
    BY <1>1, <1>2 DEF TypeOK, ContextsOK
<1>4. PICK b : b = x.obuf
    OBVIOUS
<1>5. b \in Seq(Commands) /\ Len(b) \in Nat /\ n \in 0 .. Len(b)
    BY <1>1, <1>3, <1>4 DEF IsContext
<1>6. PICK p : p = SubSeq(b, 1, n)
    OBVIOUS
<1>7. PICK q : q = SubSeq(b, n + 1, Len(b))
    OBVIOUS
<1>8. /\ p \in Seq(Commands) /\ Len(p) = n /\ \A k \in 1 .. n : p[k] = b[k]
      /\ q \in Seq(Commands) /\ Len(q) = Len(b) - n /\ \A k \in 1 .. Len(b) - n : q[k] = b[n + k]
    BY <1>5, <1>6, <1>7, Cut
<1>9. Halves(b, p, q) /\ Len(p) \in Nat /\ Len(q) \in Nat
    BY <1>5, <1>8 DEF Halves
<1>10. PICK ans : ans = AnswersTo(m, p)
    OBVIOUS
<1>11. /\ ans \in Seq(Replies) /\ Len(ans) = n
       /\ \A j \in 1 .. n : ans[j].id = IF b[j].kind = "asking" THEN 0 ELSE b[j].id
       /\ Settled => \A j \in 1 .. n : ans[j].kind # "ask"
  <2>1. /\ ans \in Seq(Replies) /\ Len(ans) = Len(p)
        /\ \A j \in 1 .. Len(p) : ans[j].id = IF p[j].kind = "asking" THEN 0 ELSE p[j].id
        /\ Settled => \A j \in 1 .. Len(p) : ans[j].kind # "ask"
    <3>1. ServersOK /\ m \in Connections /\ p \in Seq(Commands) /\ ans = AnswersTo(m, p)
      BY <1>3, <1>8, <1>10
    <3> QED
      BY <3>1, AnswersTyped
  <2> QED
    BY <1>8, <2>1
<1>12. PICK r : r = m.out \o ans
    OBVIOUS
<1>13. m.out \in Seq(Replies) /\ x.ibuf \in Seq(Replies)
    BY <1>3, ConnectionFields DEF IsContext
<1>14. r \in Seq(Replies) /\ ServedList(x.ibuf, m.out, b, r, q, ans)
  <2>1. PICK i, o : i = x.ibuf /\ o = m.out
    OBVIOUS
  <2>2. Joined(r, o, ans) /\ i \in Seq(Replies) /\ o \in Seq(Replies) /\ Len(ans) = Len(p)
    BY <1>8, <1>11, <1>12, <1>13, <2>1 DEF Joined
  <2>3. r \in Seq(Replies) /\ ServedList(i, o, b, r, q, ans)
    BY <1>5, <1>9, <1>11, <2>2, ServedThings
  <2> QED
    BY <2>1, <2>3
<1>15. PICK u : u = ServeAt(m, p)
    OBVIOUS
<1>16. u \in Connections /\ u.out = r
  <2>1. PICK w : w = IF p = <<>> THEN m.asking ELSE p[Len(p)].kind = "asking"
    OBVIOUS
  <2>2. w \in BOOLEAN
    <3>1. m.asking \in BOOLEAN /\ (p[Len(p)].kind = "asking") \in BOOLEAN
      BY <1>3, ConnectionFields
    <3>2. CASE p = <<>>
      BY <2>1, <3>1, <3>2
    <3>3. CASE p # <<>>
      BY <2>1, <3>1, <3>3
    <3> QED
      BY <3>2, <3>3
  <2>3. PICK v : v = [m EXCEPT !.out = r]
    OBVIOUS
  <2>4. v \in Connections /\ v.out = r
    BY <1>3, <1>14, <2>3, OtherReplies
  <2>5. u = [v EXCEPT !.asking = w]
    BY <1>10, <1>12, <1>15, <2>1, <2>3 DEF ServeAt
  <2>6. [v EXCEPT !.asking = w] \in Connections /\ [v EXCEPT !.asking = w].out = v.out
    BY <2>2, <2>4 DEF Connections
  <2> QED
    BY <2>4, <2>5, <2>6
<1>17. net' = [net EXCEPT ![c] = u]
    BY <1>1, <1>2, <1>4, <1>6, <1>15 DEF WritesSome
<1>18. /\ net' \in [Contexts -> Connections] /\ net'[c].out = r
       /\ \A d \in Contexts : d # c => net'[d] = net[d]
    BY <1>3, <1>16, <1>17
<1>19. PICK F : F = x.flags \cup {"CONNECTED"}
    OBVIOUS
<1>20. PICK y : y = [x EXCEPT !.flags = F]
    OBVIOUS
<1>21. PICK z : z = [y EXCEPT !.obuf = q, !.ev = ev]
    OBVIOUS
<1>22. /\ IsContext(z) /\ z.life = x.life /\ z.flags = F /\ z.err = x.err /\ z.replies = x.replies
       /\ z.obuf = q /\ z.ibuf = x.ibuf /\ z.ev = ev
  <2>1. F \in SUBSET Flags
    BY <1>3, <1>19 DEF IsContext, Flags
  <2>2. /\ IsContext(y) /\ y.flags = F /\ y.life = x.life /\ y.err = x.err /\ y.replies = x.replies
        /\ y.obuf = x.obuf /\ y.ibuf = x.ibuf /\ y.ev = x.ev
    <3>1. y = Context(x.life, F, x.err, x.replies, x.obuf, x.ibuf, x.ev)
      BY <1>3, <1>20, SetFlags DEF IsContext
    <3>2. /\ x.life \in {"unused", "alive", "freed"} /\ x.err \in BOOLEAN /\ x.replies \in Seq(Callbacks)
          /\ x.obuf \in Seq(Commands) /\ x.ibuf \in Seq(Replies) /\ x.ev \in SUBSET {"r", "w"}
      BY <1>3 DEF IsContext
    <3>3. PICK g : g = Context(x.life, F, x.err, x.replies, x.obuf, x.ibuf, x.ev)
      OBVIOUS
    <3>4. /\ IsContext(g) /\ g.flags = F /\ g.life = x.life /\ g.err = x.err /\ g.replies = x.replies
          /\ g.obuf = x.obuf /\ g.ibuf = x.ibuf /\ g.ev = x.ev
      BY <2>1, <3>2, <3>3, ContextTyped
    <3> QED
      BY <3>1, <3>3, <3>4
  <2>3. z = Context(y.life, y.flags, y.err, y.replies, q, y.ibuf, ev)
    BY <1>21, <2>2, SetBuffer DEF IsContext
  <2>4. /\ y.life \in {"unused", "alive", "freed"} /\ y.flags \in SUBSET Flags /\ y.err \in BOOLEAN
        /\ y.replies \in Seq(Callbacks) /\ y.ibuf \in Seq(Replies)
    BY <2>2 DEF IsContext
  <2>5. PICK g : g = Context(y.life, y.flags, y.err, y.replies, q, y.ibuf, ev)
    OBVIOUS
  <2>7. q \in Seq(Commands)
    BY <1>8
  <2>6. /\ IsContext(g) /\ g.life = y.life /\ g.flags = y.flags /\ g.err = y.err /\ g.replies = y.replies
        /\ g.obuf = q /\ g.ibuf = y.ibuf /\ g.ev = ev
    BY <2>4, <2>5, <2>7, ContextTyped
  <2> QED
    BY <2>2, <2>3, <2>5, <2>6
<1>23. Replaced(ac, ac', c, z)
  <2>1. z = [[x EXCEPT !.flags = @ \cup {"CONNECTED"}] EXCEPT !.obuf = q, !.ev = ev]
    BY <1>19, <1>20, <1>21
  <2>2. y.obuf = b
    BY <1>4, <1>20
  <2>3. z = [[x EXCEPT !.flags = @ \cup {"CONNECTED"}] EXCEPT !.obuf = SubSeq(@, n + 1, Len(@)), !.ev = ev]
    BY <1>7, <1>19, <1>20, <2>1, <2>2
  <2> QED
    BY <1>1, <2>3 DEF Replaced, WritesSome
<1>24. ContextsOK(ac') /\ ac'[c] = z /\ OthersSame(ac, ac', c)
    BY <1>3, <1>22, <1>23, OneContext
<1>25. SubSeq(r, Len(m.out) + 1, Len(r)) = ans
  <2>1. PICK o : o = m.out
    OBVIOUS
  <2>2. o \in Seq(Replies) /\ r = o \o ans
    BY <1>12, <1>13, <2>1
  <2>3. /\ Len(r) = Len(o) + Len(ans)
        /\ \A k \in 1 .. Len(o) + Len(ans) : r[k] = IF k <= Len(o) THEN o[k] ELSE ans[k - Len(o)]
    BY <1>11, <2>2, ConcatProperties
  <2>4. PICK s : s = SubSeq(r, Len(o) + 1, Len(r))
    OBVIOUS
  <2>5. Len(o) \in Nat /\ Len(o) \in 0 .. Len(r)
    BY <1>11, <2>2, <2>3
  <2>6. s \in Seq(Replies) /\ Len(s) = Len(r) - Len(o) /\ \A k \in 1 .. Len(r) - Len(o) : s[k] = r[Len(o) + k]
    BY <1>14, <2>4, <2>5, Cut
  <2>7. Len(s) = n
    BY <1>11, <2>3, <2>5, <2>6
  <2>8. ASSUME NEW k \in 1 .. n
        PROVE  s[k] = ans[k]
    <3>1. /\ Len(o) + k \in 1 .. Len(o) + Len(ans) /\ ~(Len(o) + k <= Len(o)) /\ Len(o) + k - Len(o) = k
          /\ k \in 1 .. Len(r) - Len(o)
      BY <1>11, <2>3, <2>5
    <3>2. s[k] = r[Len(o) + k]
      BY <2>6, <3>1
    <3>3. r[Len(o) + k] = ans[Len(o) + k - Len(o)]
      BY <2>3, <3>1
    <3> QED
      BY <3>1, <3>2, <3>3
  <2>9. s = ans
    BY <1>11, <2>6, <2>7, <2>8
  <2> QED
    BY <2>1, <2>4, <2>9
<1>26. executed' = [i \in DOMAIN executed |->
                      executed[i] + Cardinality({j \in 1 .. Len(ans) : ans[j] = Reply("reply", i)})]
  <2> DEFINE new == SubSeq(net'[c].out, Len(net[c].out) + 1, Len(net'[c].out))
  <2>1. new = ans
    BY <1>2, <1>18, <1>25
  <2>2. DOMAIN ans = 1 .. Len(ans)
    BY <1>11
  <2>3. executed' = [i \in DOMAIN executed |->
                       executed[i] + Cardinality({j \in DOMAIN new : new[j] = Reply("reply", i)})]
    BY DEF WritesSome
  <2> HIDE DEF new
  <2> QED
    BY <2>1, <2>2, <2>3
<1>27. Written(c, ans)
  <2>1. ServedList(ac[c].ibuf, net[c].out, ac[c].obuf, net'[c].out, ac'[c].obuf, ans)
    BY <1>1, <1>2, <1>4, <1>14, <1>18, <1>22, <1>24
  <2>2. Len(ans) \in 0 .. Len(ac[c].obuf)
    BY <1>1, <1>4, <1>11
  <2>3. \A j \in 1 .. Len(ans) : ans[j].id = IF ac[c].obuf[j].kind = "asking" THEN 0 ELSE ac[c].obuf[j].id
    BY <1>1, <1>4, <1>11
  <2>4. ac'[c].ibuf = ac[c].ibuf /\ ac'[c].err = ac[c].err /\ ac'[c].flags = ac[c].flags \cup {"CONNECTED"}
    BY <1>1, <1>19, <1>22, <1>24
  <2> QED
    BY <1>11, <1>26, <2>1, <2>2, <2>3, <2>4 DEF Written, WritesSome
<1>28. ac'[c].life = ac[c].life /\ ac'[c].replies = ac[c].replies /\ ac'[c].ev = ev
    BY <1>1, <1>22, <1>24
<1> QED
    BY <1>18, <1>24, <1>27, <1>28

\* The smaller one of 1 and a length.
LEMMA MinOfOne ==
    ASSUME NEW l \in Nat
    PROVE  Min({1, l}) \in Nat
<1>1. \E x \in {1, l} : \A y \in {1, l} : x <= y
    <2>1. 1 <= l \/ l <= 1
        OBVIOUS
    <2> QED
        BY <2>1
<1>2. Min({1, l}) \in {1, l}
    BY <1>1 DEF Min
<1> QED
    BY <1>2

\* redisAsyncHandleWrite, and what the server does.
LEMMA WriteDoes ==
    ASSUME TypeOK, NEW c \in Contexts, Write(c)
    PROVE  /\ aborted = "no" /\ stack = <<>>
           /\ ContextsOK(ac') /\ OthersSame(ac, ac', c)
           /\ ac'[c].life = ac[c].life /\ ac'[c].replies = ac[c].replies /\ ac[c].ev # {}
           /\ net' \in [Contexts -> Connections]
           /\ \A d \in Contexts : d # c => net'[d] = net[d]
           /\ StackOK(stack', Len(cads))
           /\ (\E ans : Written(c, ans)) \/ WriteFailed(c)
           /\ UNCHANGED <<cmds, calls, onDisc, asked, odd, spent, servers, route, client>>
<1> DEFINE F == [n \in 0 .. Len(ac[c].obuf) |-> ServeAt(net[c], SubSeq(ac[c].obuf, 1, n))]
           l == Len(ac[c].obuf)
           new == SubSeq(net'[c].out, Len(net[c].out) + 1, Len(net'[c].out))
<1>1. redisAsyncHandleWrite(c, F)
    BY DEF Write
<1>2. /\ executed' = [i \in DOMAIN executed |->
                        executed[i] + Cardinality({j \in DOMAIN new : new[j] = Reply("reply", i)})]
      /\ UNCHANGED <<servers, route, client>>
    BY DEF Write
<1>3. aborted = "no" /\ stack = <<>> /\ ac[c].ev # {}
    BY <1>1 DEF redisAsyncHandleWrite, EventLoop
<1>4. UNCHANGED <<cmds, calls, onDisc, asked, odd, spent>>
    BY <1>1 DEF redisAsyncHandleWrite
<1>5. IsContext(ac[c]) /\ ContextsOK(ac) /\ l \in Nat /\ Len(cads) \in Nat /\ StackOK(stack, Len(cads))
    BY DEF TypeOK, ContextsOK, IsContext, CommandsOK
<1>6. \/ \E n \in Min({1, l}) .. l, ev \in SUBSET {"r", "w"} : WritesSome(c, n, ev)
      \/ /\ Disconnect(c, [[ac[c] EXCEPT !.flags = @ \cup {"CONNECTED"}] EXCEPT !.err = TRUE], stack)
         /\ net' = net
  <2>1. CASE net[c].up \/ ac[c].obuf = <<>>
    <3>1. PICK x : x = [ac[c] EXCEPT !.flags = @ \cup {"CONNECTED"}]
      OBVIOUS
    <3>2. x.obuf = ac[c].obuf
      BY <1>5, <3>1 DEF IsContext, HasFields, Context
    <3>3. PICK n \in Min({1, Len(x.obuf)}) .. Len(x.obuf) :
               /\ net' = [net EXCEPT ![c] = F[n]]
               /\ ac' = [ac EXCEPT ![c] = [x EXCEPT !.obuf = SubSeq(@, n + 1, Len(@)),
                                                     !.ev = IF n = Len(x.obuf) THEN {"r"} ELSE {"r", "w"}]]
               /\ UNCHANGED <<stack, aborted>>
      <4>1. net[c].up \/ x.obuf = <<>>
        BY <2>1, <3>2
      <4> HIDE DEF F
      <4> QED
        BY <1>1, <3>1, <4>1 DEF redisAsyncHandleWrite
    <3>4. n \in Min({1, l}) .. l /\ n \in 0 .. l
      BY <1>5, <3>2, MinOfOne
    <3>5. F[n] = ServeAt(net[c], SubSeq(ac[c].obuf, 1, n))
      BY <3>4
    <3>6. PICK ev \in SUBSET {"r", "w"} : ev = IF n = Len(x.obuf) THEN {"r"} ELSE {"r", "w"}
      OBVIOUS
    <3>7. ac' = [ac EXCEPT ![c] = [x EXCEPT !.obuf = SubSeq(@, n + 1, Len(@)), !.ev = ev]]
      BY <3>3, <3>6
    <3>8. net' = [net EXCEPT ![c] = ServeAt(net[c], SubSeq(ac[c].obuf, 1, n))]
      BY <3>3, <3>5
    <3> HIDE DEF F
    <3>9. WritesSome(c, n, ev)
      BY <1>2, <3>1, <3>3, <3>7, <3>8 DEF WritesSome
    <3> QED
      BY <3>4, <3>9
  <2>2. CASE ~(net[c].up \/ ac[c].obuf = <<>>)
    <3>1. PICK x : x = [ac[c] EXCEPT !.flags = @ \cup {"CONNECTED"}]
      OBVIOUS
    <3>2. x.obuf = ac[c].obuf
      BY <1>5, <3>1 DEF IsContext, HasFields, Context
    <3> HIDE DEF F
    <3> QED
      BY <1>1, <2>2, <3>1, <3>2 DEF redisAsyncHandleWrite
  <2> QED
    BY <2>1, <2>2
<1> HIDE DEF F
<1>7. CASE \E n \in Min({1, l}) .. l, ev \in SUBSET {"r", "w"} : WritesSome(c, n, ev)
  <2>1. PICK n \in Min({1, l}) .. l, ev \in SUBSET {"r", "w"} : WritesSome(c, n, ev)
    BY <1>7
  <2>2. n \in 0 .. Len(ac[c].obuf)
    BY <1>5, <2>1, MinOfOne
  <2>3. /\ ContextsOK(ac') /\ OthersSame(ac, ac', c)
        /\ ac'[c].life = ac[c].life /\ ac'[c].replies = ac[c].replies
        /\ net' \in [Contexts -> Connections]
        /\ \A d \in Contexts : d # c => net'[d] = net[d]
        /\ \E ans : Written(c, ans)
    BY <2>1, <2>2, WriteSome
  <2>4. stack' = stack
    BY <2>1 DEF WritesSome
  <2> QED
    BY <1>2, <1>3, <1>4, <1>5, <2>3, <2>4
<1>8. CASE /\ Disconnect(c, [[ac[c] EXCEPT !.flags = @ \cup {"CONNECTED"}] EXCEPT !.err = TRUE], stack)
           /\ net' = net
  <2>1. PICK x : x = Reflag(ac[c], ac[c].flags \cup {"CONNECTED"})
    OBVIOUS
  <2>2. PICK a : a = [x EXCEPT !.err = TRUE]
    OBVIOUS
  <2>3. IsContext(x) /\ Kept(ac[c], x) /\ x.flags = ac[c].flags \cup {"CONNECTED"}
    <3>1. PICK G : G = ac[c].flags \cup {"CONNECTED"}
      OBVIOUS
    <3>2. G \in SUBSET Flags
      BY <1>5, <3>1 DEF IsContext, Flags
    <3>3. IsContext(Reflag(ac[c], G)) /\ Kept(ac[c], Reflag(ac[c], G)) /\ Reflag(ac[c], G).flags = G
      BY <1>5, <3>2, ReflagTyped
    <3> QED
      BY <2>1, <3>1, <3>3
  <2>4. Disconnect(c, a, stack)
    BY <1>8, <2>1, <2>2 DEF Reflag
  <2>5. /\ ContextsOK(ac') /\ OthersSame(ac, ac', c)
        /\ ac'[c].life = x.life /\ ac'[c].err = TRUE /\ ac'[c].flags = x.flags \cup {"DISCONNECTING"}
        /\ ac'[c].replies = x.replies /\ ac'[c].obuf = x.obuf /\ ac'[c].ibuf = x.ibuf /\ ac'[c].ev = x.ev
        /\ StackOK(stack', Len(cads)) /\ FreeCalled(<<>>, c) /\ aborted' = aborted
    BY <1>3, <1>5, <2>2, <2>3, <2>4, Failed
  <2>6. executed' = executed
    <3>1. PICK o : o = net[c].out
      OBVIOUS
    <3>2. o \in Seq(Replies)
      BY <3>1, ConnectionFields DEF TypeOK
    <3>3. new = SubSeq(o, Len(o) + 1, Len(o))
      BY <1>8, <3>1
    <3>4. PICK s : s = SubSeq(o, Len(o) + 1, Len(o))
      OBVIOUS
    <3>5. Len(o) \in 0 .. Len(o)
      BY <3>2
    <3>6. s \in Seq(Replies) /\ Len(s) = Len(o) - Len(o)
      BY <3>2, <3>4, <3>5, Cut
    <3>7. DOMAIN new = {}
      <4>1. Len(s) = 0
        BY <3>2, <3>6
      <4>2. DOMAIN s = {}
        BY <3>6, <4>1
      <4>3. new = s
        BY <3>3, <3>4
      <4> QED
        BY <4>2, <4>3
    <3>8. Cardinality({}) = 0
      BY FS_EmptySet
    <3>9. executed \in Seq(Nat)
      BY DEF TypeOK, CommandsOK
    <3> HIDE DEF new
    <3>10. \A i : {j \in DOMAIN new : new[j] = Reply("reply", i)} = {}
      BY <3>7
    <3>11. executed' = [i \in DOMAIN executed |-> executed[i] + 0]
      BY <1>2, <3>8, <3>10
    <3> QED
      BY <3>9, <3>11
  <2>7. WriteFailed(c)
    BY <1>8, <2>3, <2>5, <2>6 DEF WriteFailed, Kept
  <2> QED
    BY <1>2, <1>3, <1>4, <1>8, <2>3, <2>5, <2>7 DEF TypeOK, Kept
<1> QED
    BY <1>6, <1>7, <1>8

-----------------------------------------------------------------------------
(***************************************************************************)
(* Every command is somewhere: its callback waits in the list of a context *)
(* or is in a call that has not returned, and never twice.                 *)
(***************************************************************************)
\* a context waits for the reply to a command; a call is about a command
Held(acs, i) == \E c \in Contexts : \E k \in 1 .. Len(acs[c].replies) : acs[c].replies[k].id = i
InCall(st, i) == \E p \in 1 .. Len(st) : Pending(st[p]) /\ st[p].cb.id = i

OwnsOK(acs, st) ==
    /\ \A c, d \in Contexts : \A k \in 1 .. Len(acs[c].replies), l \in 1 .. Len(acs[d].replies) :
          acs[c].replies[k].id # 0 /\ acs[c].replies[k].id = acs[d].replies[l].id => c = d /\ k = l
    /\ \A p, q \in 1 .. Len(st) : Pending(st[p]) /\ Pending(st[q]) /\ st[p].cb.id = st[q].cb.id => p = q
    /\ \A p \in 1 .. Len(st) : Pending(st[p]) => ~Held(acs, st[p].cb.id)

\* the calls of a stack, which are about commands, were on a stack before
Within(new, st) ==
    \A p \in 1 .. Len(new) : Pending(new[p]) =>
       /\ p \in 1 .. Len(st) /\ Pending(st[p])
       /\ new[p].c = st[p].c /\ new[p].cb = st[p].cb /\ new[p].reply = st[p].reply
       /\ new[p].at = "route" => st[p].at = "route" \/ new[p].reply.kind # "reply"

\* the contexts that __redisAsyncFree has been called for
Frees(st) == {st[p].c : p \in {q \in 1 .. Len(st) : st[q].at = "free"}}

\* Calls return, and contexts are emptied.
LEMMA OwnsQuiet ==
    ASSUME NEW acs, NEW st, OwnsOK(acs, st), NEW then,
           \A c \in Contexts : then[c].replies = acs[c].replies \/ then[c].replies = <<>>, NEW new, Within(new, st)
    PROVE  OwnsOK(then, new)
<1>1. \A c \in Contexts : \A k \in 1 .. Len(then[c].replies) : then[c].replies = acs[c].replies
    OBVIOUS
<1>2. \A i : Held(then, i) => Held(acs, i)
    BY <1>1 DEF Held
<1>3. ASSUME NEW c \in Contexts, NEW d \in Contexts, NEW k \in 1 .. Len(then[c].replies),
             NEW l \in 1 .. Len(then[d].replies), then[c].replies[k].id # 0,
             then[c].replies[k].id = then[d].replies[l].id
      PROVE  c = d /\ k = l
    <2>1. then[c].replies = acs[c].replies /\ then[d].replies = acs[d].replies
        BY <1>1
    <2> QED
        BY <1>3, <2>1 DEF OwnsOK
<1>4. \A p, q \in 1 .. Len(new) : Pending(new[p]) /\ Pending(new[q]) /\ new[p].cb.id = new[q].cb.id => p = q
    BY DEF Within, OwnsOK
<1>5. \A p \in 1 .. Len(new) : Pending(new[p]) => ~Held(then, new[p].cb.id)
    BY <1>2 DEF Within, OwnsOK
<1> QED
    BY <1>3, <1>4, <1>5 DEF OwnsOK

\* The first callback of a context is taken.
LEMMA OwnsTaken ==
    ASSUME NEW acs, NEW st, OwnsOK(acs, st), NEW c \in Contexts, NEW S, acs[c].replies \in Seq(S),
           acs[c].replies # <<>>, NEW then, then[c].replies = Tail(acs[c].replies),
           \A d \in Contexts : d # c => then[d].replies = acs[d].replies
    PROVE  OwnsOK(then, st) /\ (Head(acs[c].replies).id # 0 => ~Held(then, Head(acs[c].replies).id)
                                                               /\ ~InCall(st, Head(acs[c].replies).id))
<1> DEFINE s == acs[c].replies
           t == then[c].replies
           h == Head(s).id
<1>1. /\ Len(s) \in Nat \ {0} /\ Len(t) = Len(s) - 1 /\ Head(s) = s[1]
      /\ \A k \in 1 .. Len(s) - 1 : t[k] = s[k + 1]
    BY HeadTailProperties
<1>2. \A k \in 1 .. Len(t) : k + 1 \in 1 .. Len(s) /\ t[k] = s[k + 1] /\ k + 1 # 1
    BY <1>1
<1>3. 1 \in 1 .. Len(s)
    BY <1>1
<1>4. \A i : Held(then, i) => Held(acs, i)
    <2>1. ASSUME NEW i, Held(then, i)
          PROVE  Held(acs, i)
        <3>0. PICK d \in Contexts : \E k \in 1 .. Len(then[d].replies) : then[d].replies[k].id = i
            BY <2>1 DEF Held
        <3>1. PICK k \in 1 .. Len(then[d].replies) : then[d].replies[k].id = i
            BY <3>0
        <3>2. CASE d = c
            <4>1. k + 1 \in 1 .. Len(acs[c].replies) /\ acs[c].replies[k + 1].id = i
                BY <1>2, <3>1, <3>2
            <4> QED
                BY <4>1 DEF Held
        <3>3. CASE d # c
            BY <3>1, <3>3 DEF Held
        <3> QED
            BY <3>2, <3>3
    <2> QED
        BY <2>1
<1>5. ASSUME NEW d \in Contexts, NEW e \in Contexts, NEW k \in 1 .. Len(then[d].replies),
             NEW l \in 1 .. Len(then[e].replies), then[d].replies[k].id # 0,
             then[d].replies[k].id = then[e].replies[l].id
      PROVE  d = e /\ k = l
    <2> DEFINE x == IF d = c THEN k + 1 ELSE k
               y == IF e = c THEN l + 1 ELSE l
    <2>1. x \in 1 .. Len(acs[d].replies) /\ acs[d].replies[x] = then[d].replies[k]
        BY <1>2
    <2>2. y \in 1 .. Len(acs[e].replies) /\ acs[e].replies[y] = then[e].replies[l]
        BY <1>2
    <2>3. d = e /\ x = y
        <3> HIDE DEF x, y
        <3>1. acs[d].replies[x].id # 0 /\ acs[d].replies[x].id = acs[e].replies[y].id
            BY <1>5, <2>1, <2>2
        <3>2. x \in 1 .. Len(acs[d].replies) /\ y \in 1 .. Len(acs[e].replies)
            BY <2>1, <2>2
        <3> QED
            BY <3>1, <3>2 DEF OwnsOK
    <2> QED
        BY <2>3
<1>6. /\ \A p, q \in 1 .. Len(st) : Pending(st[p]) /\ Pending(st[q]) /\ st[p].cb.id = st[q].cb.id => p = q
      /\ \A p \in 1 .. Len(st) : Pending(st[p]) => ~Held(then, st[p].cb.id)
    BY <1>4 DEF OwnsOK
<1>7. OwnsOK(then, st)
    BY <1>5, <1>6 DEF OwnsOK
<1>8. ASSUME h # 0
      PROVE  ~Held(then, h) /\ ~InCall(st, h)
    <2>1. Held(acs, h)
        BY <1>1, <1>3 DEF Held
    <2>2. ~InCall(st, h)
        BY <2>1 DEF OwnsOK, InCall
    <2>3. ASSUME Held(then, h)
          PROVE  FALSE
        <3>0. PICK d \in Contexts : \E k \in 1 .. Len(then[d].replies) : then[d].replies[k].id = h
            BY <2>3 DEF Held
        <3>1. PICK k \in 1 .. Len(then[d].replies) : then[d].replies[k].id = h
            BY <3>0
        <3>2. CASE d = c
            <4>1. k + 1 \in 1 .. Len(s) /\ s[k + 1].id = s[1].id /\ s[1].id # 0 /\ k + 1 # 1
                BY <1>1, <1>2, <1>8, <3>1, <3>2
            <4> QED
                BY <1>3, <4>1 DEF OwnsOK
        <3>3. CASE d # c
            <4>1. k \in 1 .. Len(acs[d].replies) /\ acs[d].replies[k].id = s[1].id /\ s[1].id # 0
                BY <1>1, <1>8, <3>1, <3>3
            <4> QED
                BY <1>3, <3>3, <4>1 DEF OwnsOK
        <3> QED
            BY <3>2, <3>3
    <2> QED
        BY <2>2, <2>3
<1> QED
    BY <1>7, <1>8

\* A call begins that is about a command which nothing else is about.
LEMMA OwnsCalled ==
    ASSUME NEW n \in Nat, NEW acs, NEW st, StackOK(st, n), OwnsOK(acs, st), NEW f \in Frames, ~Held(acs, f.cb.id),
           ~InCall(st, f.cb.id)
    PROVE  OwnsOK(acs, Append(st, f))
<1> DEFINE new == Append(st, f)
           m == Len(st)
<1>1. /\ m \in Nat /\ Len(new) = m + 1 /\ new[m + 1] = f /\ \A p \in 1 .. m : new[p] = st[p]
    BY AppendProperties DEF StackOK
<1> HIDE DEF new, m
<1>2. \A p \in 1 .. Len(new) : (p \in 1 .. m /\ new[p] = st[p]) \/ (p = m + 1 /\ new[p] = f)
    BY <1>1
<1>3. \A p, q \in 1 .. Len(new) : Pending(new[p]) /\ Pending(new[q]) /\ new[p].cb.id = new[q].cb.id => p = q
    BY <1>2 DEF OwnsOK, InCall, m
<1>4. \A p \in 1 .. Len(new) : Pending(new[p]) => ~Held(acs, new[p].cb.id)
    BY <1>2 DEF OwnsOK, m
<1> QED
    BY <1>3, <1>4 DEF OwnsOK, new

\* A callback is put at the end of a list.
LEMMA OwnsGiven ==
    ASSUME NEW acs, NEW st, OwnsOK(acs, st), NEW c \in Contexts, NEW S, acs[c].replies \in Seq(S), NEW cb \in S,
           cb.id # 0 => ~Held(acs, cb.id) /\ ~InCall(st, cb.id), ~InCall(st, 0),
           NEW then, then[c].replies = Append(acs[c].replies, cb),
           \A d \in Contexts : d # c => then[d].replies = acs[d].replies
    PROVE  OwnsOK(then, st) /\ \A i : Held(then, i) => Held(acs, i) \/ i = cb.id
<1> DEFINE s == acs[c].replies
           t == then[c].replies
           m == Len(s)
<1>1. /\ m \in Nat /\ Len(t) = m + 1 /\ t[m + 1] = cb /\ \A k \in 1 .. m : t[k] = s[k]
    BY AppendProperties
<1> HIDE DEF s, t, m
<1>2. \A k \in 1 .. Len(t) : (k \in 1 .. m /\ t[k] = s[k]) \/ (k = m + 1 /\ t[k] = cb)
    BY <1>1
<1>3. \A d \in Contexts : \A k \in 1 .. Len(then[d].replies) :
         \/ k \in 1 .. Len(acs[d].replies) /\ then[d].replies[k] = acs[d].replies[k]
         \/ d = c /\ k = m + 1 /\ then[d].replies[k] = cb
    BY <1>2 DEF s, t, m
<1>4. \A i : Held(then, i) => Held(acs, i) \/ i = cb.id
    BY <1>3 DEF Held
<1>5. ASSUME NEW d \in Contexts, NEW e \in Contexts, NEW k \in 1 .. Len(then[d].replies),
             NEW l \in 1 .. Len(then[e].replies), then[d].replies[k].id # 0,
             then[d].replies[k].id = then[e].replies[l].id
      PROVE  d = e /\ k = l
    <2>1. CASE k \in 1 .. Len(acs[d].replies) /\ then[d].replies[k] = acs[d].replies[k]
        <3>1. CASE l \in 1 .. Len(acs[e].replies) /\ then[e].replies[l] = acs[e].replies[l]
            BY <1>5, <2>1, <3>1 DEF OwnsOK
        <3>2. CASE then[e].replies[l] = cb
            <4>1. Held(acs, cb.id)
                BY <1>5, <2>1, <3>2 DEF Held
            <4> QED
                BY <1>5, <3>2, <4>1
        <3> QED
            BY <1>3, <3>1, <3>2
    <2>2. CASE d = c /\ k = m + 1 /\ then[d].replies[k] = cb
        <3>1. CASE l \in 1 .. Len(acs[e].replies) /\ then[e].replies[l] = acs[e].replies[l]
            <4>1. Held(acs, cb.id)
                BY <1>5, <2>2, <3>1 DEF Held
            <4> QED
                BY <1>5, <2>2, <4>1
        <3>2. CASE e = c /\ l = m + 1
            BY <2>2, <3>2
        <3> QED
            BY <1>3, <3>1, <3>2
    <2> QED
        BY <1>3, <2>1, <2>2
<1>6. \A p \in 1 .. Len(st) : Pending(st[p]) => ~Held(then, st[p].cb.id)
    BY <1>4 DEF OwnsOK, InCall
<1> QED
    BY <1>4, <1>5, <1>6 DEF OwnsOK

\* The command of the call at the top is nowhere else.
LEMMA OwnsTop ==
    ASSUME NEW n \in Nat, NEW acs, StackOK(stack, n), stack # <<>>, OwnsOK(acs, stack), Pending(Top)
    PROVE  ~Held(acs, Top.cb.id) /\ ~InCall(Below, Top.cb.id)
<1>1. /\ Len(stack) \in Nat \ {0} /\ Top = stack[Len(stack)] /\ Len(Below) = Len(stack) - 1
      /\ \A p \in 1 .. Len(Below) : Below[p] = stack[p]
    BY TopFrame
<1>2. Len(stack) \in 1 .. Len(stack) /\ \A p \in 1 .. Len(Below) : p \in 1 .. Len(stack) /\ p # Len(stack)
    BY <1>1
<1>3. ~Held(acs, Top.cb.id)
    BY <1>1, <1>2 DEF OwnsOK
<1>4. ~InCall(Below, Top.cb.id)
    BY <1>1, <1>2 DEF OwnsOK, InCall
<1> QED
    BY <1>3, <1>4

-----------------------------------------------------------------------------
(***************************************************************************)
(* What is under way on a connection is in the order of the callbacks.     *)
(***************************************************************************)
\* a command that is under way has not been executed; it has been if this is
\* what a reply says
Told(x, ex) ==
    /\ x.kind = "asking" => x.id = 0
    /\ x.id # 0 => ex[x.id] = IF x.kind = "reply" THEN 1 ELSE 0

LineOK(a, n, ex) ==
    /\ Len(a.replies) = Size(a, n)
    /\ \A k \in 1 .. Size(a, n) : At(a, n, k).id = a.replies[k].id /\ Told(At(a, n, k), ex)

\* Nothing changes on a connection.
LEMMA LineKept ==
    ASSUME NEW a, NEW n, NEW ex, LineOK(a, n, ex), NEW b, b.replies = a.replies, NEW m, SameThings(a, n, b, m)
    PROVE  LineOK(b, m, ex)
<1> QED
    BY DEF LineOK, SameThings

\* A context that has not read or written anything.
LEMMA FieldsKept ==
    ASSUME NEW a, NEW n, NEW b, b.ibuf = a.ibuf, b.obuf = a.obuf, NEW m, m.out = n.out
    PROVE  SameThings(a, n, b, m)
<1> QED
    BY DEF SameThings, Size, At

\* A context that waits for nothing.
LEMMA LineEmpty ==
    ASSUME NEW a, NEW n, NEW ex, a.replies = <<>>, a.ibuf = <<>>, a.obuf = <<>>, n.out = <<>>
    PROVE  LineOK(a, n, ex)
<1>1. Len(<<>>) = 0
    OBVIOUS
<1>2. Size(a, n) = 0 /\ Len(a.replies) = 0
    BY <1>1 DEF Size
<1> QED
    BY <1>2 DEF LineOK

\* The length of what is under way.
LEMMA SizeTyped ==
    ASSUME NEW a, IsContext(a), NEW n \in Connections
    PROVE  /\ Len(a.ibuf) \in Nat /\ Len(n.out) \in Nat /\ Len(a.obuf) \in Nat /\ Len(a.replies) \in Nat
           /\ Size(a, n) \in Nat
<1>1. /\ a.ibuf \in Seq(Replies) /\ n.out \in Seq(Replies) /\ a.obuf \in Seq(Commands)
      /\ a.replies \in Seq(Callbacks)
    BY ConnectionFields DEF IsContext
<1>2. Len(a.ibuf) \in Nat /\ Len(n.out) \in Nat /\ Len(a.obuf) \in Nat /\ Len(a.replies) \in Nat
    BY <1>1
<1>3. \A x, y, z \in Nat : x + y + z \in Nat
    OBVIOUS
<1> QED
    BY <1>2, <1>3 DEF Size

\* The first reply that has been read is for the first callback.
LEMMA LineTaken ==
    ASSUME NEW a, IsContext(a), NEW n \in Connections, NEW ex, LineOK(a, n, ex), a.replies # <<>>, a.ibuf # <<>>,
           NEW b, b.replies = Tail(a.replies), b.ibuf = Tail(a.ibuf), b.obuf = a.obuf
    PROVE  /\ LineOK(b, n, ex)
           /\ Head(a.ibuf).id = Head(a.replies).id /\ Told(Head(a.ibuf), ex)
<1> DEFINE s == a.replies
           i == a.ibuf
           o == n.out
           q == a.obuf
<1>1. s \in Seq(Callbacks) /\ i \in Seq(Replies)
    BY DEF IsContext
<1>2. /\ Len(s) \in Nat \ {0} /\ Len(b.replies) = Len(s) - 1 /\ Head(s) = s[1]
      /\ \A k \in 1 .. Len(s) - 1 : b.replies[k] = s[k + 1]
    BY <1>1, HeadTailProperties
<1>3. /\ Len(i) \in Nat \ {0} /\ Len(b.ibuf) = Len(i) - 1 /\ Head(i) = i[1]
      /\ \A k \in 1 .. Len(i) - 1 : b.ibuf[k] = i[k + 1]
    BY <1>1, HeadTailProperties
<1>4. Len(o) \in Nat /\ Len(q) \in Nat
    BY SizeTyped
<1>5. Size(a, n) = Len(i) + Len(o) + Len(q) /\ Size(b, n) = Len(i) - 1 + Len(o) + Len(q) /\ Len(s) = Size(a, n)
    BY <1>3 DEF Size, LineOK
<1> HIDE DEF s, i, o, q
<1>6. Size(b, n) = Len(s) - 1 /\ Len(b.replies) = Size(b, n)
    BY <1>2, <1>3, <1>4, <1>5
<1>7. \A k : At(a, n, k) = IF k <= Len(i) THEN i[k] ELSE IF k <= Len(i) + Len(o) THEN o[k - Len(i)]
                           ELSE q[k - (Len(i) + Len(o))]
    BY DEF At, Thing, i, o, q
<1>8. \A k : At(b, n, k) = IF k <= Len(i) - 1 THEN b.ibuf[k] ELSE IF k <= Len(i) - 1 + Len(o) THEN o[k - (Len(i) - 1)]
                           ELSE q[k - (Len(i) - 1 + Len(o))]
    BY <1>3 DEF At, Thing, i, o, q
<1>9. ASSUME NEW k \in 1 .. Size(b, n)
      PROVE  At(b, n, k) = At(a, n, k + 1) /\ k + 1 \in 1 .. Size(a, n) /\ b.replies[k] = s[k + 1]
    <2>1. k + 1 \in 1 .. Size(a, n) /\ b.replies[k] = s[k + 1]
        BY <1>2, <1>5, <1>6
    <2>2. CASE k <= Len(i) - 1
        <3>1. k \in 1 .. Len(i) - 1 /\ k + 1 <= Len(i)
            BY <1>3, <1>4, <2>2
        <3> QED
            BY <1>3, <1>7, <1>8, <2>1, <2>2, <3>1
    <2>3. CASE ~(k <= Len(i) - 1) /\ k <= Len(i) - 1 + Len(o)
        <3>1. ~(k + 1 <= Len(i)) /\ k + 1 <= Len(i) + Len(o) /\ k - (Len(i) - 1) = k + 1 - Len(i)
            BY <1>3, <1>4, <2>3
        <3>2. At(b, n, k) = o[k - (Len(i) - 1)]
            BY <1>8, <2>3
        <3>3. At(a, n, k + 1) = o[k + 1 - Len(i)]
            BY <1>7, <3>1
        <3> QED
            BY <2>1, <3>1, <3>2, <3>3
    <2>4. CASE ~(k <= Len(i) - 1) /\ ~(k <= Len(i) - 1 + Len(o))
        <3>1. /\ ~(k + 1 <= Len(i)) /\ ~(k + 1 <= Len(i) + Len(o))
              /\ k - (Len(i) - 1 + Len(o)) = k + 1 - (Len(i) + Len(o))
            BY <1>3, <1>4, <2>4
        <3>2. At(b, n, k) = q[k - (Len(i) - 1 + Len(o))]
            BY <1>8, <2>4
        <3>3. At(a, n, k + 1) = q[k + 1 - (Len(i) + Len(o))]
            BY <1>7, <3>1
        <3> QED
            BY <2>1, <3>1, <3>2, <3>3
    <2> QED
        BY <2>2, <2>3, <2>4
<1>10. LineOK(b, n, ex)
    BY <1>6, <1>9 DEF LineOK, s
<1>11. At(a, n, 1) = i[1] /\ 1 \in 1 .. Size(a, n)
    BY <1>2, <1>3, <1>5, <1>7
<1>12. At(a, n, 1).id = s[1].id /\ Told(At(a, n, 1), ex)
    BY <1>11 DEF LineOK, s
<1> QED
    BY <1>2, <1>3, <1>10, <1>11, <1>12 DEF s, i

\* A command is put into the buffer and its callback into the list.
LEMMA LineGiven ==
    ASSUME NEW a, IsContext(a), NEW n \in Connections, NEW ex, LineOK(a, n, ex), NEW cmd \in Commands, NEW cb \in Callbacks,
           cb.id = cmd.id, Told(cmd, ex), NEW b, b.replies = Append(a.replies, cb), b.obuf = Append(a.obuf, cmd),
           b.ibuf = a.ibuf
    PROVE  LineOK(b, n, ex)
<1> DEFINE s == a.replies
           i == a.ibuf
           o == n.out
           q == a.obuf
<1>1. s \in Seq(Callbacks) /\ q \in Seq(Commands)
    BY DEF IsContext
<1>2. /\ Len(s) \in Nat /\ Len(b.replies) = Len(s) + 1 /\ b.replies[Len(s) + 1] = cb
      /\ \A k \in 1 .. Len(s) : b.replies[k] = s[k]
    BY <1>1, AppendProperties
<1>3. /\ Len(q) \in Nat /\ Len(b.obuf) = Len(q) + 1 /\ b.obuf[Len(q) + 1] = cmd
      /\ \A k \in 1 .. Len(q) : b.obuf[k] = q[k]
    BY <1>1, AppendProperties
<1>4. Len(o) \in Nat /\ Len(i) \in Nat
    BY SizeTyped
<1>5. Size(a, n) = Len(i) + Len(o) + Len(q) /\ Size(b, n) = Len(i) + Len(o) + (Len(q) + 1) /\ Len(s) = Size(a, n)
    BY <1>3 DEF Size, LineOK
<1>6. \A k : At(a, n, k) = IF k <= Len(i) THEN i[k] ELSE IF k <= Len(i) + Len(o) THEN o[k - Len(i)]
                           ELSE q[k - (Len(i) + Len(o))]
    BY DEF At, Thing
<1>7. \A k : At(b, n, k) = IF k <= Len(i) THEN i[k] ELSE IF k <= Len(i) + Len(o) THEN o[k - Len(i)]
                           ELSE b.obuf[k - (Len(i) + Len(o))]
    BY DEF At, Thing
<1> HIDE DEF s, i, o, q
<1>8. Len(b.replies) = Size(b, n) /\ Size(b, n) = Len(s) + 1
    BY <1>2, <1>3, <1>4, <1>5
<1>9. ASSUME NEW k \in 1 .. Len(s)
      PROVE  At(b, n, k) = At(a, n, k) /\ b.replies[k] = s[k]
    <2>1. CASE k <= Len(i) + Len(o)
        BY <1>2, <1>6, <1>7, <2>1
    <2>2. CASE ~(k <= Len(i) + Len(o))
        <3>1. k - (Len(i) + Len(o)) \in 1 .. Len(q) /\ ~(k <= Len(i))
            BY <1>3, <1>4, <1>5, <2>2
        <3> QED
            BY <1>2, <1>3, <1>6, <1>7, <2>2, <3>1
    <2> QED
        BY <2>1, <2>2
<1>10. At(b, n, Len(s) + 1) = cmd
    <2> DEFINE k == Len(s) + 1
    <2>1. ~(k <= Len(i)) /\ ~(k <= Len(i) + Len(o)) /\ k - (Len(i) + Len(o)) = Len(q) + 1
        BY <1>3, <1>4, <1>5
    <2> QED
        BY <1>3, <1>7, <2>1
<1>11. \A k \in 1 .. Size(b, n) : k \in 1 .. Len(s) \/ k = Len(s) + 1
    BY <1>2, <1>8
<1>12. \A k \in 1 .. Len(s) : At(a, n, k).id = s[k].id /\ Told(At(a, n, k), ex)
    BY <1>5 DEF LineOK, s
<1> QED
    BY <1>2, <1>8, <1>9, <1>10, <1>11, <1>12 DEF LineOK

\* Other commands are executed.
LEMMA LineApart ==
    ASSUME NEW a, NEW n, NEW ex, LineOK(a, n, ex), NEW ey,
           \A k \in 1 .. Len(a.replies) : a.replies[k].id # 0 => ey[a.replies[k].id] = ex[a.replies[k].id]
    PROVE  LineOK(a, n, ey)
<1>1. ASSUME NEW k \in 1 .. Size(a, n)
      PROVE  At(a, n, k).id = a.replies[k].id /\ Told(At(a, n, k), ey)
    <2>1. At(a, n, k).id = a.replies[k].id /\ Told(At(a, n, k), ex) /\ k \in 1 .. Len(a.replies)
        BY DEF LineOK
    <2>2. At(a, n, k).id # 0 => ey[At(a, n, k).id] = ex[At(a, n, k).id]
        BY <2>1
    <2> QED
        BY <2>1, <2>2 DEF Told
<1> QED
    BY <1>1 DEF LineOK

\* A place in a window of a list.
LEMMA Between ==
    ASSUME NEW w \in Nat, NEW l \in Nat, NEW x \in Nat, NEW y \in Nat, w = x + y, NEW m \in Nat, NEW k \in 1 .. m,
           k > w, k <= w + l
    PROVE  k - w \in 1 .. l /\ ~(k <= w) /\ ~(k <= x)
    OBVIOUS

\* ans are the answers to the first commands of a context a, and ey is what has
\* been executed then: it was ex
Answering(a, n, ex, ans, ey) ==
    /\ \A j \in 1 .. Len(ans) : ans[j].id = IF a.obuf[j].kind = "asking" THEN 0 ELSE a.obuf[j].id
    /\ \A j \in 1 .. Len(ans) : ans[j].id # 0 => ey[ans[j].id] = IF ans[j].kind = "reply" THEN 1 ELSE 0
    /\ \A k \in 1 .. Len(a.replies) :
          \/ a.replies[k].id # 0 => ey[a.replies[k].id] = ex[a.replies[k].id]
          \/ \E j \in 1 .. Len(ans) : k = Len(a.ibuf) + Len(n.out) + j

\* Some of the commands of a context are answered.
LEMMA LineWritten ==
    ASSUME NEW a, IsContext(a), NEW n \in Connections, NEW ex, LineOK(a, n, ex), NEW b, NEW m,
           NEW ans \in Seq(Replies), Len(ans) \in 0 .. Len(a.obuf),
           ServedList(a.ibuf, n.out, a.obuf, m.out, b.obuf, ans), b.replies = a.replies, b.ibuf = a.ibuf,
           NEW ey, Answering(a, n, ex, ans, ey)
    PROVE  LineOK(b, m, ey)
<1> DEFINE w == Len(a.ibuf) + Len(n.out)
           l == Len(ans)
<1>1. w \in Nat /\ l \in Nat /\ Len(a.obuf) \in Nat /\ l <= Len(a.obuf)
  <2>1. Len(a.ibuf) \in Nat /\ Len(n.out) \in Nat /\ Len(a.obuf) \in Nat /\ l \in Nat
    BY SizeTyped
  <2>2. \A x, y \in Nat : x + y \in Nat
    OBVIOUS
  <2> HIDE DEF l
  <2>3. l <= Len(a.obuf)
    BY <2>1 DEF l
  <2> QED
    BY <2>1, <2>2, <2>3
<1>2. Size(a, n) = w + Len(a.obuf) /\ Len(a.replies) = Size(a, n)
    BY DEF Size, LineOK
<1>3. Size(b, m) = Size(a, n)
    BY DEF ServedList, Size
<1>4. \A k \in 1 .. Size(a, n) : At(b, m, k) = IF k > w /\ k <= w + l THEN ans[k - w] ELSE At(a, n, k)
    BY DEF ServedList, Size, At
<1>5. \A k : ~(k <= Len(a.ibuf)) /\ ~(k <= w) => At(a, n, k) = a.obuf[k - w]
    BY DEF At, Thing
<1>6. Len(a.ibuf) \in Nat /\ Len(n.out) \in Nat
    BY SizeTyped
<1>7. w = Len(a.ibuf) + Len(n.out)
    OBVIOUS
<1>8. \A k \in 1 .. Size(a, n) : At(a, n, k).id = a.replies[k].id /\ Told(At(a, n, k), ex)
    BY DEF LineOK
<1>9. \A j \in 1 .. l : /\ ans[j].id = IF a.obuf[j].kind = "asking" THEN 0 ELSE a.obuf[j].id
                        /\ ans[j].id # 0 => ey[ans[j].id] = IF ans[j].kind = "reply" THEN 1 ELSE 0
                        /\ ans[j].kind # "asking"
  <2>1. \A j \in 1 .. l : ans[j] \in Replies
    OBVIOUS
  <2>2. \A r \in Replies : r.kind # "asking"
    BY DEF Replies
  <2> QED
    BY <2>1, <2>2 DEF Answering
<1>10. \A k \in 1 .. Len(a.replies) :
          \/ a.replies[k].id # 0 => ey[a.replies[k].id] = ex[a.replies[k].id]
          \/ \E j \in 1 .. l : k = w + j
    BY DEF Answering
<1> HIDE DEF w, l
<1>11. ASSUME NEW k \in 1 .. Size(a, n)
       PROVE  At(b, m, k).id = b.replies[k].id /\ Told(At(b, m, k), ey)
  <2>1. CASE k > w /\ k <= w + l
    <3>1. k - w \in 1 .. l /\ ~(k <= w) /\ ~(k <= Len(a.ibuf))
      <4>1. w + Len(a.obuf) \in Nat /\ k \in 1 .. w + Len(a.obuf)
        BY <1>1, <1>2
      <4> QED
        BY <1>1, <1>6, <1>7, <2>1, <4>1, Between
    <3>2. At(b, m, k) = ans[k - w] /\ At(a, n, k) = a.obuf[k - w]
      BY <1>4, <1>5, <2>1, <3>1
    <3>3. a.obuf[k - w].id = a.replies[k].id /\ (a.obuf[k - w].kind = "asking" => a.obuf[k - w].id = 0)
      BY <1>8, <3>2 DEF Told
    <3>4. ans[k - w].id = a.replies[k].id
      BY <1>9, <3>1, <3>3
    <3>5. Told(ans[k - w], ey)
      BY <1>9, <3>1 DEF Told
    <3> QED
      BY <3>2, <3>4, <3>5
  <2>2. CASE ~(k > w /\ k <= w + l)
    <3>1. At(b, m, k) = At(a, n, k)
      BY <1>4, <2>2
    <3>2. ~\E j \in 1 .. l : k = w + j
      BY <1>1, <1>2, <2>2
    <3>3. k \in 1 .. Len(a.replies)
      BY <1>2
    <3>4. a.replies[k].id # 0 => ey[a.replies[k].id] = ex[a.replies[k].id]
      BY <1>10, <3>2, <3>3
    <3>5. At(a, n, k).id = a.replies[k].id /\ Told(At(a, n, k), ex)
      BY <1>8
    <3> QED
      BY <3>1, <3>4, <3>5 DEF Told
  <2> QED
    BY <2>1, <2>2
<1> QED
    BY <1>2, <1>3, <1>11 DEF LineOK
-----------------------------------------------------------------------------
(***************************************************************************)
(* What calls and returns do to the calls that are about commands, and to  *)
(* the contexts that are being freed.                                      *)
(***************************************************************************)
\* the calls are the same, and no context is freed that was not
Goes(st, new) == Within(new, st) /\ Frees(st) \subseteq Frees(new)

\* A context for which __redisAsyncFree has been called.
LEMMA FreesIn ==
    ASSUME NEW st, NEW q \in 1 .. Len(st), st[q].at = "free"
    PROVE  st[q].c \in Frees(st)
BY DEF Frees

\* Moves follow one another.
LEMMA MovesJoin ==
    ASSUME NEW st, NEW mid, NEW new, Goes(st, mid), Goes(mid, new)
    PROVE  Goes(st, new)
<1>1. Within(new, st)
  <2>1. ASSUME NEW p \in 1 .. Len(new), Pending(new[p])
        PROVE  /\ p \in 1 .. Len(st) /\ Pending(st[p])
               /\ new[p].c = st[p].c /\ new[p].cb = st[p].cb /\ new[p].reply = st[p].reply
               /\ new[p].at = "route" => st[p].at = "route" \/ new[p].reply.kind # "reply"
    <3>1. /\ p \in 1 .. Len(mid) /\ Pending(mid[p])
          /\ new[p].c = mid[p].c /\ new[p].cb = mid[p].cb /\ new[p].reply = mid[p].reply
          /\ new[p].at = "route" => mid[p].at = "route" \/ new[p].reply.kind # "reply"
      BY <2>1 DEF Goes, Within
    <3>2. /\ p \in 1 .. Len(st) /\ Pending(st[p])
          /\ mid[p].c = st[p].c /\ mid[p].cb = st[p].cb /\ mid[p].reply = st[p].reply
          /\ mid[p].at = "route" => st[p].at = "route" \/ mid[p].reply.kind # "reply"
      BY <3>1 DEF Goes, Within
    <3> QED
      BY <3>1, <3>2
  <2> QED
    BY <2>1 DEF Within
<1> QED
  BY <1>1 DEF Goes

\* Nothing is called.
LEMMA NothingMoves ==
    ASSUME NEW st
    PROVE  Goes(st, st)
BY DEF Goes, Within

\* A call begins that is not about a command.
LEMMA PushMoves ==
    ASSUME NEW n \in Nat, NEW st, StackOK(st, n), NEW f \in Frames, ~Pending(f), f.at = "process" => st = <<>>
    PROVE  Goes(st, Append(st, f)) /\ (f.at = "free" => f.c \in Frees(Append(st, f)))
<1> DEFINE new == Append(st, f)
           l == Len(st)
<1>1. /\ l \in Nat /\ Len(new) = l + 1 /\ new[l + 1] = f
      /\ \A p \in 1 .. l : new[p] = st[p]
  BY StackPushed
<1> HIDE DEF new, l
<1>2. 1 .. l \subseteq 1 .. Len(new) /\ l + 1 \in 1 .. Len(new)
  BY <1>1
<1>3. \A p \in 1 .. Len(new) : p \in 1 .. l \/ p = l + 1
  BY <1>1
<1>4. Within(new, st)
  BY <1>1, <1>3 DEF Within, l
<1>5. ASSUME NEW q \in 1 .. l, st[q].at = "free"
      PROVE  st[q].c \in Frees(new)
  BY <1>1, <1>2, <1>5, FreesIn
<1>6. f.at = "free" => f.c \in Frees(new)
  BY <1>1, <1>2, FreesIn
<1>7. Frees(st) \subseteq Frees(new)
  BY <1>5 DEF Frees, l
<1> QED
  BY <1>4, <1>6, <1>7 DEF Goes, new

\* A call returns.
LEMMA PopMoves ==
    ASSUME NEW n \in Nat, NEW st, StackOK(st, n), st # <<>>
    PROVE  LET new == SubSeq(st, 1, Len(st) - 1)
           IN  /\ Within(new, st)
               /\ \A c \in Frees(st) : c \in Frees(new) \/ (st[Len(st)].at = "free" /\ st[Len(st)].c = c)
<1> DEFINE new == SubSeq(st, 1, Len(st) - 1)
           l == Len(st)
<1>1. /\ l \in Nat \ {0} /\ Len(new) = l - 1
      /\ \A p \in 1 .. l - 1 : new[p] = st[p]
  BY StackPopped
<1> HIDE DEF new
<1>2. Within(new, st)
  <2> HIDE DEF l
  <2>1. \A p \in 1 .. Len(new) : p \in 1 .. l /\ new[p] = st[p]
    BY <1>1
  <2> QED
    BY <2>1 DEF Within, l
<1>3. ASSUME NEW q \in 1 .. l, st[q].at = "free", q # l
      PROVE  st[q].c \in Frees(new)
  <2> HIDE DEF l
  <2>1. q \in 1 .. Len(new) /\ new[q] = st[q]
    BY <1>1, <1>3
  <2> QED
    BY <1>3, <2>1, FreesIn
<1>4. ASSUME NEW c \in Frees(st)
      PROVE  c \in Frees(new) \/ (st[l].at = "free" /\ st[l].c = c)
  <2>1. PICK q \in 1 .. l : st[q].at = "free" /\ st[q].c = c
    BY DEF Frees
  <2> QED
    BY <1>3, <2>1
<1> QED
  BY <1>2, <1>4 DEF new

\* A call that is not of __redisAsyncFree returns.
LEMMA PopMoved ==
    ASSUME NEW n \in Nat, NEW st, StackOK(st, n), st # <<>>, st[Len(st)].at # "free"
    PROVE  Goes(st, SubSeq(st, 1, Len(st) - 1))
BY PopMoves DEF Goes

\* Contexts are freed.
LEMMA JoinMoves ==
    ASSUME NEW n \in Nat, NEW st, StackOK(st, n), NEW fs \in Seq(Frames), \A i \in 1 .. Len(fs) : fs[i].at = "free"
    PROVE  Goes(st, st \o fs)
<1> DEFINE new == st \o fs
           l == Len(st)
           m == Len(fs)
<1>1. /\ l \in Nat /\ m \in Nat /\ Len(new) = l + m
      /\ \A p \in 1 .. l : new[p] = st[p]
      /\ \A p \in l + 1 .. l + m : new[p] = fs[p - l]
  BY StackJoined
<1>2. \A i \in 1 .. m : fs[i].at = "free"
  OBVIOUS
<1> HIDE DEF new, l, m
<1>3. ASSUME NEW p \in 1 .. Len(new), Pending(new[p])
      PROVE  p \in 1 .. l /\ new[p] = st[p]
  <2>1. CASE p <= l
    BY <1>1, <2>1
  <2>2. CASE ~(p <= l)
    <3>1. p \in l + 1 .. l + m /\ p - l \in 1 .. m
      BY <1>1, <2>2
    <3>2. new[p].at = "free"
      BY <1>1, <1>2, <3>1
    <3> QED
      BY <1>3, <3>2 DEF Pending
  <2> QED
    BY <2>1, <2>2
<1>4. Within(new, st)
  BY <1>3 DEF Within, l
<1>5. 1 .. l \subseteq 1 .. Len(new)
  BY <1>1
<1>6. ASSUME NEW q \in 1 .. l, st[q].at = "free"
      PROVE  st[q].c \in Frees(new)
  BY <1>1, <1>5, <1>6, FreesIn
<1>7. Frees(st) \subseteq Frees(new)
  BY <1>6 DEF Frees, l
<1> QED
  BY <1>4, <1>7 DEF Goes, new

\* A call about a command goes on (Done, UpdateRoute).
LEMMA ReplaceMoves ==
    ASSUME NEW n \in Nat, NEW st, StackOK(st, n), st # <<>>, Pending(st[Len(st)]), NEW u \in Frames, Pending(u),
           u.c = st[Len(st)].c, u.cb = st[Len(st)].cb, u.reply = st[Len(st)].reply,
           u.at = "route" => u.reply.kind # "reply"
    PROVE  LET new == Append(SubSeq(st, 1, Len(st) - 1), u)
           IN  StackOK(new, n) /\ Goes(st, new)
<1> DEFINE low == SubSeq(st, 1, Len(st) - 1)
           new == Append(low, u)
           l == Len(st)
<1>1. /\ StackOK(low, n)
      /\ l \in Nat \ {0} /\ Len(low) = l - 1
      /\ \A p \in 1 .. l - 1 : low[p] = st[p]
  BY StackPopped
<1>2. l \in 1 .. l
  BY <1>1
<1>3. u.cb.id \in 1 .. n /\ u.at # "process"
  BY <1>2 DEF StackOK, Pending
<1>4. /\ StackOK(new, n)
      /\ Len(new) = Len(low) + 1
      /\ new[Len(low) + 1] = u
      /\ \A p \in 1 .. Len(low) : new[p] = low[p]
  BY <1>1, <1>3, StackPushed
<1> HIDE DEF new, low
<1>5. Len(new) = l /\ new[l] = u
  <2> HIDE DEF l
  <2> QED
    BY <1>1, <1>4
<1>6. ASSUME NEW p \in 1 .. l, p # l
      PROVE  new[p] = st[p]
  <2> HIDE DEF l
  <2>1. p \in 1 .. l - 1
    BY <1>1, <1>6
  <2> QED
    BY <1>1, <1>4, <2>1
<1>7. Within(new, st)
  BY <1>2, <1>5, <1>6 DEF Within
<1>8. ASSUME NEW q \in 1 .. l, st[q].at = "free"
      PROVE  st[q].c \in Frees(new)
  <2>1. q # l
    BY <1>8 DEF Pending
  <2> QED
    BY <1>5, <1>6, <1>8, <2>1, FreesIn
<1>9. Frees(st) \subseteq Frees(new)
  BY <1>8 DEF Frees
<1> QED
  BY <1>4, <1>7, <1>9 DEF Goes, new, low

\* __redisAsyncFree is called.
LEMMA FreeMoves ==
    ASSUME NEW n \in Nat, NEW st, StackOK(st, n), NEW c, FreeCalled(st, c)
    PROVE  StackOK(stack', n) /\ Goes(st, stack') /\ c \in Frees(stack')
<1>1. PICK f \in Frames : f.at = "free" /\ f.c = c /\ stack' = Append(st, f)
  BY DEF FreeCalled
<1>2. ~Pending(f) /\ f.at # "process"
  BY <1>1 DEF Pending
<1>3. StackOK(Append(st, f), n)
  BY <1>2, StackPushed
<1>4. Goes(st, Append(st, f)) /\ f.c \in Frees(Append(st, f))
  BY <1>1, <1>2, PushMoves
<1> QED
  BY <1>1, <1>3, <1>4

\* A callback returns, and the context is freed if it is to be freed.
LEMMA BackMoves ==
    ASSUME NEW n \in Nat, StackOK(stack, n), stack # <<>>, Pending(Top), NEW acs, ContextsOK(acs),
           NEW c \in Contexts, Back(acs, c, Below)
    PROVE  StackOK(stack', n) /\ Goes(stack, stack') /\ Goes(Below, stack')
<1> DEFINE st == Below
<1>1. StackOK(st, n) /\ Below = SubSeq(stack, 1, Len(stack) - 1) /\ Top = stack[Len(stack)]
  BY StackPopped DEF Below, Top
<1>2. Top.at # "free"
  BY DEF Pending
<1>3. Goes(stack, st)
  BY <1>1, <1>2, PopMoved
<1>4. /\ StackOK(stack', n)
      /\ \/ stack' = st
         \/ /\ st[Len(st)].at = "process"
            /\ FreeCalled(SubSeq(st, 1, Len(st) - 1), c)
  BY <1>1, Returned
<1> HIDE DEF st
<1>5. CASE stack' = st
  BY <1>3, <1>4, <1>5, NothingMoves DEF st
<1>6. CASE /\ st[Len(st)].at = "process"
           /\ FreeCalled(SubSeq(st, 1, Len(st) - 1), c)
  <2> DEFINE low == SubSeq(st, 1, Len(st) - 1)
  <2>1. StackOK(low, n)
    BY <1>1, StackPopped DEF st
  <2>2. Goes(st, low)
    <3>1. CASE st = <<>>
      <4>1. low = st
        BY <1>1, <3>1, StackPopped DEF st
      <4> QED
        BY <4>1, NothingMoves
    <3>2. CASE st # <<>>
      BY <1>1, <1>6, <3>2, PopMoved DEF st
    <3> QED
      BY <3>1, <3>2
  <2>3. Goes(low, stack')
    BY <1>6, <2>1, FreeMoves
  <2> HIDE DEF low
  <2>4. Goes(st, stack')
    BY <2>2, <2>3, MovesJoin
  <2> QED
    BY <1>3, <1>4, <2>4, MovesJoin DEF st
<1> QED
  BY <1>4, <1>5, <1>6

-----------------------------------------------------------------------------
(***************************************************************************)
(* What is known of every command, in every state: where its callback is,  *)
(* what is under way for it, and what its reply says.                      *)
(***************************************************************************)
\* the replies that callbacks are called with are those to their commands;
\* commands that have been executed are not sent again
RepliesTrue(st, ex) ==
    \A p \in 1 .. Len(st) : Pending(st[p]) =>
       /\ st[p].reply # NULL => st[p].reply.id = st[p].cb.id /\ Told(st[p].reply, ex)
       /\ st[p].at = "route" => st[p].reply.kind # "reply"

LinesOK(acs, nts, st, ex) == \A c \in Contexts : c \in Frees(st) \/ LineOK(acs[c], nts[c], ex)

TokensOK(acs, nts, st, ex) ==
    /\ OwnsOK(acs, st)
    /\ LinesOK(acs, nts, st, ex)
    /\ RepliesTrue(st, ex)

\* nothing is under way
Blank(a, n) == a.replies = <<>> /\ a.ibuf = <<>> /\ a.obuf = <<>> /\ n.out = <<>>

\* the contexts to come are not used
UnusedOK(acs, nts, ns, st) ==
    /\ \A c \in Contexts : acs[c].life = "unused" => Blank(acs[c], nts[c]) /\ acs[c].ev = {}
    /\ \A k \in DOMAIN ns : ns[k].acon # None => acs[ns[k].acon].life # "unused"
    /\ \A p \in 1 .. Len(st) : Pending(st[p]) => acs[st[p].c].life # "unused"

\* Calls return, the same is under way, and contexts are emptied.
LEMMA TokensQuiet ==
    ASSUME NEW acs, NEW nts, NEW st, NEW ex, TokensOK(acs, nts, st, ex), NEW then, NEW nets, NEW new, Within(new, st),
           \A c \in Contexts :
              \/ /\ then[c].replies = acs[c].replies /\ SameThings(acs[c], nts[c], then[c], nets[c])
                 /\ c \in Frees(st) => c \in Frees(new)
              \/ Blank(then[c], nets[c])
    PROVE  TokensOK(then, nets, new, ex)
<1>1. OwnsOK(then, new)
  <2>1. \A c \in Contexts : then[c].replies = acs[c].replies \/ then[c].replies = <<>>
    BY DEF Blank
  <2>2. OwnsOK(acs, st)
    BY DEF TokensOK
  <2> QED
    BY <2>1, <2>2, OwnsQuiet
<1>2. ASSUME NEW c \in Contexts
      PROVE  c \in Frees(new) \/ LineOK(then[c], nets[c], ex)
  <2>1. CASE Blank(then[c], nets[c])
    BY <2>1, LineEmpty DEF Blank
  <2>2. CASE /\ then[c].replies = acs[c].replies /\ SameThings(acs[c], nts[c], then[c], nets[c])
             /\ c \in Frees(st) => c \in Frees(new)
    <3>1. c \in Frees(st) \/ LineOK(acs[c], nts[c], ex)
      BY DEF TokensOK, LinesOK
    <3>2. CASE LineOK(acs[c], nts[c], ex)
      BY <2>2, <3>2, LineKept
    <3> QED
      BY <2>2, <3>1, <3>2
  <2> QED
    BY <2>1, <2>2
<1>3. ASSUME NEW p \in 1 .. Len(new), Pending(new[p])
      PROVE  /\ new[p].reply # NULL => new[p].reply.id = new[p].cb.id /\ Told(new[p].reply, ex)
             /\ new[p].at = "route" => new[p].reply.kind # "reply"
  <2>1. /\ p \in 1 .. Len(st) /\ Pending(st[p])
        /\ new[p].cb = st[p].cb /\ new[p].reply = st[p].reply
        /\ new[p].at = "route" => st[p].at = "route" \/ new[p].reply.kind # "reply"
    BY <1>3 DEF Within
  <2>2. /\ st[p].reply # NULL => st[p].reply.id = st[p].cb.id /\ Told(st[p].reply, ex)
        /\ st[p].at = "route" => st[p].reply.kind # "reply"
    BY <2>1 DEF TokensOK, RepliesTrue
  <2> QED
    BY <2>1, <2>2
<1> QED
  BY <1>1, <1>2, <1>3 DEF TokensOK, LinesOK, RepliesTrue

\* Nothing happens to a command: contexts keep what is under way.
LEMMA TokensCalm ==
    ASSUME NEW acs, NEW nts, NEW st, NEW ex, TokensOK(acs, nts, st, ex), NEW then, NEW nets, NEW new, Goes(st, new),
           \A c \in Contexts : \/ /\ then[c].replies = acs[c].replies /\ then[c].ibuf = acs[c].ibuf
                                  /\ then[c].obuf = acs[c].obuf /\ nets[c].out = nts[c].out
                               \/ Blank(then[c], nets[c])
    PROVE  TokensOK(then, nets, new, ex)
<1>1. ASSUME NEW c \in Contexts
      PROVE  \/ /\ then[c].replies = acs[c].replies /\ SameThings(acs[c], nts[c], then[c], nets[c])
                /\ c \in Frees(st) => c \in Frees(new)
             \/ Blank(then[c], nets[c])
  <2>1. CASE Blank(then[c], nets[c])
    BY <2>1
  <2>2. CASE /\ then[c].replies = acs[c].replies /\ then[c].ibuf = acs[c].ibuf
             /\ then[c].obuf = acs[c].obuf /\ nets[c].out = nts[c].out
    <3>1. SameThings(acs[c], nts[c], then[c], nets[c])
      BY <2>2, FieldsKept
    <3>2. c \in Frees(st) => c \in Frees(new)
      BY DEF Goes
    <3> QED
      BY <2>2, <3>1, <3>2
  <2> QED
    BY <2>1, <2>2
<1>2. Within(new, st)
  BY DEF Goes
<1> QED
  BY <1>1, <1>2, TokensQuiet

\* A callback is put at the end of a list, and its command into the buffer.
LEMMA TokensGiven ==
    ASSUME NEW n \in Nat, NEW acs, ContextsOK(acs), NEW nts, nts \in [Contexts -> Connections], NEW st, StackOK(st, n),
           NEW ex, TokensOK(acs, nts, st, ex), NEW c \in Contexts, NEW cmd \in Commands, NEW cb \in Callbacks,
           cb.id = cmd.id, Told(cmd, ex), cb.id # 0 => ~Held(acs, cb.id) /\ ~InCall(st, cb.id),
           NEW then, OthersSame(acs, then, c), then[c].replies = Append(acs[c].replies, cb),
           then[c].obuf = Append(acs[c].obuf, cmd), then[c].ibuf = acs[c].ibuf
    PROVE  TokensOK(then, nts, st, ex) /\ \A i : Held(then, i) => Held(acs, i) \/ i = cb.id
<1>1. IsContext(acs[c]) /\ acs[c].replies \in Seq(Callbacks) /\ nts[c] \in Connections
  BY DEF ContextsOK, IsContext
<1>2. ~InCall(st, 0)
  <2>1. \A p \in 1 .. Len(st) : Pending(st[p]) => st[p].cb.id \in 1 .. n
    BY DEF StackOK
  <2>2. 0 \notin 1 .. n
    OBVIOUS
  <2> QED
    BY <2>1, <2>2 DEF InCall
<1>3. OwnsOK(then, st) /\ \A i : Held(then, i) => Held(acs, i) \/ i = cb.id
  <2>1. \A d \in Contexts : d # c => then[d].replies = acs[d].replies
    BY DEF OthersSame
  <2>2. OwnsOK(acs, st)
    BY DEF TokensOK
  <2> QED
    BY <1>1, <1>2, <2>1, <2>2, OwnsGiven
<1>4. ASSUME NEW d \in Contexts
      PROVE  d \in Frees(st) \/ LineOK(then[d], nts[d], ex)
  <2>1. d \in Frees(st) \/ LineOK(acs[d], nts[d], ex)
    BY DEF TokensOK, LinesOK
  <2>2. CASE d = c /\ LineOK(acs[c], nts[c], ex)
    BY <1>1, <2>2, LineGiven
  <2>3. CASE d # c
    BY <2>1, <2>3 DEF OthersSame
  <2> QED
    BY <2>1, <2>2, <2>3
<1> QED
  BY <1>3, <1>4 DEF TokensOK, LinesOK

\* A callback is called.
LEMMA TokensCalled ==
    ASSUME NEW n \in Nat, NEW acs, NEW nts, NEW st, StackOK(st, n), NEW ex, TokensOK(acs, nts, st, ex),
           NEW f \in Frames, f.at = "callback", f.cb.id \in 1 .. n, ~Held(acs, f.cb.id), ~InCall(st, f.cb.id),
           f.reply # NULL => f.reply.id = f.cb.id /\ Told(f.reply, ex)
    PROVE  TokensOK(acs, nts, Append(st, f), ex)
<1> DEFINE new == Append(st, f)
           l == Len(st)
<1>1. /\ StackOK(new, n)
      /\ l \in Nat /\ Len(new) = l + 1 /\ new[l + 1] = f
      /\ \A p \in 1 .. l : new[p] = st[p]
  BY StackPushed
<1>2. OwnsOK(acs, new)
  BY OwnsCalled DEF TokensOK
<1> HIDE DEF new, l
<1>3. \A p \in 1 .. Len(new) : p \in 1 .. l \/ p = l + 1
  BY <1>1
<1>4. RepliesTrue(new, ex)
  <2>1. ASSUME NEW p \in 1 .. Len(new), Pending(new[p])
        PROVE  /\ new[p].reply # NULL => new[p].reply.id = new[p].cb.id /\ Told(new[p].reply, ex)
               /\ new[p].at = "route" => new[p].reply.kind # "reply"
    <3>1. CASE p = l + 1
      BY <1>1, <3>1
    <3>2. CASE p \in 1 .. l
      BY <1>1, <2>1, <3>2 DEF TokensOK, RepliesTrue, l
    <3> QED
      BY <1>3, <3>1, <3>2
  <2> QED
    BY <2>1 DEF RepliesTrue
<1>5. 1 .. l \subseteq 1 .. Len(new)
  BY <1>1
<1>6. Frees(st) \subseteq Frees(new)
  <2>1. ASSUME NEW q \in 1 .. l, st[q].at = "free"
        PROVE  st[q].c \in Frees(new)
    BY <1>1, <1>5, <2>1, FreesIn
  <2> QED
    BY <2>1 DEF Frees, l
<1> QED
  BY <1>2, <1>4, <1>6 DEF TokensOK, LinesOK, new

-----------------------------------------------------------------------------
(***************************************************************************)
(* What redisClusterAsyncCallback does in the end: it calls the callback   *)
(* of the user, or sends the command again.                                *)
(***************************************************************************)
\* the callback of the user has been told once that a command was executed
\* only if it was, and no command has been executed twice
ExecOK(n, ex, told) ==
    \A i \in 1 .. n : ex[i] <= 1 /\ (told[i] = <<Reply("reply", i)>> => ex[i] = 1)

\* The callback of the user is called (Done).
LEMMA DoneDoes ==
    ASSUME TypeOK, stack # <<>>, Top.at \in {"callback", "route"}, NEW err \in BOOLEAN, Done(err)
    PROVE  /\ accErr' = err /\ aborted' = aborted
           /\ StackOK(stack', Len(cads)) /\ Goes(stack, stack')
           /\ answers' \in Seq(Seq(Results)) /\ Len(answers') = Len(cads)
           /\ Id \in 1 .. Len(cads)
           /\ \A i \in 1 .. Len(cads) :
                 answers'[i] = IF i = Id THEN Append(answers[i], IF err THEN NULL ELSE Top.reply) ELSE answers[i]
<1> DEFINE n == Len(cads)
           r == IF err THEN NULL ELSE Top.reply
<1>1. StackOK(stack, n) /\ n \in Nat /\ answers \in Seq(Seq(Results)) /\ Len(answers) = n
  BY DEF TypeOK, CommandsOK
<1>2. Pending(Top)
  BY DEF Pending
<1>3. /\ Top \in Frames /\ Id \in 1 .. n /\ Top.reply \in Results
  BY <1>1, <1>2, TopFrame DEF Id
<1>4. r \in Results
  BY <1>3 DEF Results
<1>5. PICK u : u = [Top EXCEPT !.at = "user"]
  OBVIOUS
<1>6. u \in Frames /\ u.at = "user" /\ u.c = Top.c /\ u.cb = Top.cb /\ u.reply = Top.reply
  BY <1>3, <1>5, UserFrame
<1>7. stack' = Append(Below, u) /\ accErr' = err /\ aborted' = aborted
      /\ answers' = [answers EXCEPT ![Id] = Append(@, r)]
  BY <1>5 DEF Done
<1>8. Pending(u) /\ u.at # "route"
  BY <1>6 DEF Pending
<1>9. StackOK(stack', n) /\ Goes(stack, stack')
  BY <1>1, <1>2, <1>6, <1>7, <1>8, ReplaceMoves DEF Below, Top
<1> HIDE DEF r, n
<1>10. Id \in DOMAIN answers /\ answers[Id] \in Seq(Results)
  BY <1>1, <1>3
<1>11. Append(answers[Id], r) \in Seq(Results)
  BY <1>4, <1>10
<1>12. answers' \in Seq(Seq(Results)) /\ Len(answers') = n
       /\ \A i \in 1 .. n : answers'[i] = IF i = Id THEN Append(answers[i], r) ELSE answers[i]
  BY <1>1, <1>3, <1>7, <1>11, ExceptSeq
<1> QED
  BY <1>3, <1>7, <1>9, <1>12 DEF n, r

\* ... and told what is true.
LEMMA DoneTrue ==
    ASSUME TypeOK, TokensOK(ac, net, stack, executed), ExecOK(Len(cads), executed, answers), stack # <<>>,
           Top.at \in {"callback", "route"}, NEW err \in BOOLEAN, Done(err)
    PROVE  ExecOK(Len(cads), executed, answers')
<1> DEFINE n == Len(cads)
<1>1. /\ Id \in 1 .. n
      /\ \A i \in 1 .. n :
            answers'[i] = IF i = Id THEN Append(answers[i], IF err THEN NULL ELSE Top.reply) ELSE answers[i]
  BY DoneDoes
<1>2. Pending(Top) /\ StackOK(stack, n) /\ n \in Nat /\ answers \in Seq(Seq(Results)) /\ Len(answers) = n
  BY DEF Pending, TypeOK, CommandsOK
<1>3. Len(stack) \in 1 .. Len(stack) /\ Top = stack[Len(stack)] /\ Top.reply \in Results
  BY <1>2, TopFrame
<1>4. Top.reply # NULL => Told(Top.reply, executed)
  BY <1>2, <1>3 DEF TokensOK, RepliesTrue
<1>5. ASSUME NEW i \in 1 .. n, answers'[i] = <<Reply("reply", i)>>
      PROVE  executed[i] = 1
  <2>1. CASE i # Id
    BY <1>1, <1>5, <2>1 DEF ExecOK
  <2>2. CASE i = Id
    <3> DEFINE x == IF err THEN NULL ELSE Top.reply
    <3>1. answers[i] \in Seq(Results) /\ x \in Results
      BY <1>2, <1>3 DEF Results
    <3>2. Append(answers[i], x)[Len(answers[i]) + 1] = x /\ Len(Append(answers[i], x)) = Len(answers[i]) + 1
          /\ Len(answers[i]) \in Nat
      BY <3>1, AppendProperties
    <3>3. answers'[i] = Append(answers[i], x)
      BY <1>1, <2>2
    <3>4. Len(answers'[i]) = 1 /\ answers'[i][1] = Reply("reply", i)
      BY <1>5
    <3> HIDE DEF x
    <3>5. x = Reply("reply", i)
      BY <3>2, <3>3, <3>4
    <3>6. Reply("reply", i).kind = "reply" /\ Reply("reply", i).id = i /\ NULL.kind = "NULL"
      BY DEF Reply, NULL
    <3>7. x # NULL
      BY <3>5, <3>6
    <3>8. Top.reply = Reply("reply", i) /\ Top.reply # NULL
      BY <3>5, <3>7 DEF x
    <3>9. i # 0
      OBVIOUS
    <3> QED
      BY <1>4, <3>6, <3>8, <3>9 DEF Told
  <2> QED
    BY <2>1, <2>2
<1> QED
  BY <1>5 DEF ExecOK

\* A command is sent, and its callback waits for the reply.
LEMMA SentTokens ==
    ASSUME NEW n \in Nat, NEW acs, ContextsOK(acs), IdsOK(acs, n), NEW nts, nts \in [Contexts -> Connections],
           NEW st, StackOK(st, n), NEW ex, TokensOK(acs, nts, st, ex), NEW c \in Contexts, NEW cmd \in Commands,
           NEW cb \in Callbacks, cb.id = cmd.id, cb.id \in 0 .. n, Told(cmd, ex),
           cb.id # 0 => ~Held(acs, cb.id) /\ ~InCall(st, cb.id), NEW then, SentAs(acs, then, c, cmd, cb)
    PROVE  /\ ContextsOK(then) /\ OthersSame(acs, then, c) /\ IdsOK(then, n)
           /\ then[c].life = acs[c].life /\ then[c].flags = acs[c].flags /\ then[c].err = acs[c].err
           /\ TokensOK(then, nts, st, ex)
           /\ \A i : Held(then, i) => Held(acs, i) \/ i = cb.id
<1>1. /\ ContextsOK(then) /\ OthersSame(acs, then, c)
      /\ then[c].life = acs[c].life /\ then[c].flags = acs[c].flags /\ then[c].err = acs[c].err
      /\ then[c].replies = Append(acs[c].replies, cb)
      /\ then[c].obuf = Append(acs[c].obuf, cmd)
      /\ then[c].ibuf = acs[c].ibuf
  BY SentTo
<1>2. TokensOK(then, nts, st, ex) /\ \A i : Held(then, i) => Held(acs, i) \/ i = cb.id
  BY <1>1, TokensGiven
<1>3. IdsOK(then, n)
  <2>1. ASSUME NEW d \in Contexts, NEW b \in Waits(then[d])
        PROVE  b \in Waits(acs[d]) \/ b.id \in 0 .. n
    <3>1. CASE d # c
      BY <1>1, <2>1, <3>1 DEF OthersSame
    <3>2. CASE d = c
      <4> DEFINE s == acs[c].replies
      <4>1. s \in Seq(Callbacks)
        BY DEF ContextsOK, IsContext
      <4>2. PICK k \in 1 .. Len(Append(s, cb)) : b = Append(s, cb)[k]
        BY <1>1, <2>1, <3>2 DEF Waits
      <4>3. /\ Len(s) \in Nat /\ Len(Append(s, cb)) = Len(s) + 1 /\ Append(s, cb)[Len(s) + 1] = cb
            /\ \A j \in 1 .. Len(s) : Append(s, cb)[j] = s[j]
        BY <4>1, AppendProperties
      <4> HIDE DEF s
      <4>4. k \in 1 .. Len(s) \/ k = Len(s) + 1
        BY <4>3
      <4>5. b = cb \/ \E j \in 1 .. Len(s) : b = s[j]
        BY <4>2, <4>3, <4>4
      <4> QED
        BY <3>2, <4>5 DEF Waits, s
    <3> QED
      BY <3>1, <3>2
  <2> QED
    BY <2>1, IdsKept
<1> QED
  BY <1>1, <1>2, <1>3

\* A command of the user.
LEMMA UserCommand ==
    ASSUME CommandsOK, NEW i \in 1 .. Len(cads)
    PROVE  /\ cmds[i] \in Commands /\ cmds[i].id = i /\ cmds[i].kind = "get" /\ cmds[i].slot \in Slots
           /\ ASKING(cmds[i].slot) \in Commands /\ ASKING(cmds[i].slot).id = 0
           /\ ASKING(cmds[i].slot).kind = "asking"
           /\ Callback(i) \in Callbacks /\ Callback(i).id = i /\ i # 0
<1>1. cmds \in Seq(Commands) /\ Len(cmds) = Len(cads)
      /\ \A j \in 1 .. Len(cmds) : cmds[j].id = j /\ cmds[j].kind = "get"
  BY DEF CommandsOK
<1>2. cmds[i] \in Commands /\ cmds[i].id = i /\ cmds[i].kind = "get"
  BY <1>1
<1>3. cmds[i].slot \in Slots
  BY <1>2 DEF Commands
<1>4. PICK s \in Slots : s = cmds[i].slot
  BY <1>3
<1>5. ASKING(s) \in Commands /\ ASKING(s).id = 0 /\ ASKING(s).kind = "asking"
  BY DEF Commands, ASKING, Get
<1>6. i \in Nat \ {0}
  BY DEF CommandsOK
<1> QED
  BY <1>2, <1>3, <1>4, <1>5, <1>6, CommandCallback

\* what a command of the call at the top becomes when it is sent to the
\* context c: acs were the contexts
Resent(acs, c) ==
    /\ ContextsOK(ac') /\ IdsOK(ac', Len(cads))
    /\ StackOK(stack', Len(cads)) /\ Goes(stack, stack')
    /\ TokensOK(ac', net', stack', executed)
    /\ \A d \in Contexts : ac'[d].life = acs[d].life
    /\ \A d \in Contexts : d # c => /\ ac'[d].replies = acs[d].replies /\ ac'[d].ibuf = acs[d].ibuf
                                    /\ ac'[d].obuf = acs[d].obuf /\ ac'[d].ev = acs[d].ev
    /\ cads' \in Seq({"out", "freed", "dropped"}) /\ Len(cads') = Len(cads)
    /\ UNCHANGED <<accErr, answers, aborted>>

\* A callback returns after its command has been sent or dropped.
LEMMA BackTokens ==
    ASSUME NEW n \in Nat, StackOK(stack, n), stack # <<>>, Pending(Top), NEW acs, ContextsOK(acs), IdsOK(acs, n),
           NEW nts, NEW ex, TokensOK(acs, nts, Below, ex), Top.c \in Contexts, Back(acs, Top.c, Below)
    PROVE  /\ ContextsOK(ac') /\ IdsOK(ac', n)
           /\ StackOK(stack', n) /\ Goes(stack, stack')
           /\ TokensOK(ac', nts, stack', ex)
           /\ \A d \in Contexts : Kept(acs[d], ac'[d])
<1>1. StackOK(stack', n) /\ Goes(stack, stack') /\ Goes(Below, stack')
  BY BackMoves
<1>2. StackOK(Below, n)
  BY TopFrame
<1>3. ContextsOK(ac') /\ OthersSame(acs, ac', Top.c) /\ Kept(acs[Top.c], ac'[Top.c])
  BY <1>2, Returned
<1>4. \A d \in Contexts : Kept(acs[d], ac'[d])
  BY <1>3 DEF OthersSame, Kept
<1>5. TokensOK(ac', nts, stack', ex)
  BY <1>1, <1>4, TokensCalm DEF Kept
<1>6. IdsOK(ac', n)
  BY <1>4 DEF IdsOK, Waits, Kept
<1> QED
  BY <1>1, <1>3, <1>4, <1>5, <1>6

\* The command of the call at the top is sent again, or is lost (Retry).
LEMMA RetryDoes ==
    ASSUME TypeOK, stack # <<>>, Top.at \in {"callback", "route"}, Top.reply # NULL, Top.reply.kind # "reply",
           NEW acs, ContextsOK(acs), IdsOK(acs, Len(cads)), net' \in [Contexts -> Connections],
           TokensOK(acs, net', stack, executed), NEW c \in Contexts, NEW asking \in BOOLEAN, Retry(acs, c, asking)
    PROVE  Resent(acs, c)
<1> DEFINE n == Len(cads)
           low == Below
           i == Id
           cmd == cmds[i]
           ask == ASKING(cmd.slot)
<1>1. StackOK(stack, n) /\ n \in Nat /\ CommandsOK
  BY DEF TypeOK, CommandsOK
<1>2. Pending(Top) /\ Top.at # "free"
  BY DEF Pending
<1>3. /\ Top.c \in Contexts /\ i \in 1 .. n /\ Len(stack) \in 1 .. Len(stack) /\ Top = stack[Len(stack)]
      /\ StackOK(low, n) /\ Below = SubSeq(stack, 1, Len(stack) - 1)
  BY <1>1, <1>2, TopFrame DEF Id, Below
<1>4. Goes(stack, low)
  BY <1>1, <1>2, <1>3, PopMoved
<1>5. TokensOK(acs, net', low, executed)
  BY <1>4, TokensCalm
<1>6. ~Held(acs, i) /\ ~InCall(low, i)
  BY <1>1, <1>2, OwnsTop DEF TokensOK, Id
<1>7. /\ cmd \in Commands /\ cmd.id = i /\ cmd.kind = "get" /\ ask \in Commands /\ ask.id = 0 /\ ask.kind = "asking"
      /\ Callback(i) \in Callbacks /\ Callback(i).id = i /\ i # 0
  BY <1>1, <1>3, UserCommand
<1>8. executed[i] = 0
  <2>1. Top.reply.id = i /\ Told(Top.reply, executed)
    BY <1>2, <1>3 DEF TokensOK, RepliesTrue, Id
  <2> QED
    BY <1>7, <2>1 DEF Told
<1>9. Told(cmd, executed) /\ Told(ask, executed)
  BY <1>7, <1>8 DEF Told
<1>10. i \in 0 .. n /\ 0 \in 0 .. n
  BY <1>1, <1>3
<1>11. CASE Accepts(acs[c], "get")
  <2> DEFINE ready == IF asking THEN Sent(acs, c, ask, NullCb) ELSE acs
  <2>1. Back(Sent(ready, c, cmd, Callback(i)), Top.c, low) /\ UNCHANGED <<cads, accErr, answers, aborted>>
    BY <1>11 DEF Retry
  <2>2. PICK mid : mid = ready
    OBVIOUS
  <2>3. PICK then : SentAs(mid, then, c, cmd, Callback(i))
    BY DEF SentAs
  <2>4. Back(then, Top.c, low)
    BY <2>1, <2>2, <2>3 DEF SentAs
  <2>5. /\ ContextsOK(mid) /\ OthersSame(acs, mid, c) /\ IdsOK(mid, n)
        /\ mid[c].life = acs[c].life
        /\ TokensOK(mid, net', low, executed)
        /\ ~Held(mid, i)
    <3>1. CASE ~asking
      BY <1>5, <1>6, <2>2, <3>1 DEF OthersSame
    <3>2. CASE asking
      <4>1. SentAs(acs, mid, c, ask, NullCb)
        BY <2>2, <3>2 DEF SentAs
      <4> HIDE DEF ready, ask, low, i, cmd, n
      <4>2. NullCb \in Callbacks /\ NullCb.id = 0
        BY NoCallback
      <4>3. /\ ContextsOK(mid) /\ OthersSame(acs, mid, c) /\ IdsOK(mid, n)
            /\ mid[c].life = acs[c].life
            /\ TokensOK(mid, net', low, executed)
            /\ \A j : Held(mid, j) => Held(acs, j) \/ j = NullCb.id
        BY <1>1, <1>3, <1>5, <1>7, <1>9, <1>10, <4>1, <4>2, SentTokens DEF n
      <4> QED
        BY <1>6, <1>7, <4>2, <4>3
    <3> QED
      BY <3>1, <3>2
  <2> HIDE DEF ready, low, i, cmd, ask, n
  <2>6. /\ ContextsOK(then) /\ OthersSame(mid, then, c) /\ IdsOK(then, n)
        /\ then[c].life = mid[c].life
        /\ TokensOK(then, net', low, executed)
    BY <1>1, <1>3, <1>6, <1>7, <1>9, <1>10, <2>3, <2>5, SentTokens
  <2>7. /\ ContextsOK(ac') /\ IdsOK(ac', n)
        /\ StackOK(stack', n) /\ Goes(stack, stack')
        /\ TokensOK(ac', net', stack', executed)
        /\ \A d \in Contexts : Kept(then[d], ac'[d])
    BY <1>1, <1>2, <1>3, <2>4, <2>6, BackTokens DEF low
  <2>8. \A d \in Contexts : d # c => then[d] = acs[d]
    BY <2>5, <2>6 DEF OthersSame
  <2>9. \A d \in Contexts : then[d].life = acs[d].life
    BY <2>5, <2>6, <2>8
  <2>10. cads' \in Seq({"out", "freed", "dropped"}) /\ Len(cads') = Len(cads) /\ UNCHANGED <<accErr, answers, aborted>>
    BY <1>1, <2>1 DEF CommandsOK
  <2> QED
    BY <2>7, <2>8, <2>9, <2>10 DEF Resent, Kept, n
<1>12. CASE ~Accepts(acs[c], "get")
  <2>1. /\ Back(acs, Top.c, low)
        /\ cads' = [cads EXCEPT ![i] = "dropped"]
        /\ UNCHANGED <<accErr, answers, aborted>>
    BY <1>12 DEF Retry
  <2> HIDE DEF i
  <2>2. cads' \in Seq({"out", "freed", "dropped"}) /\ Len(cads') = Len(cads)
    <3>1. cads \in Seq({"out", "freed", "dropped"}) /\ i \in 1 .. Len(cads)
      BY <1>1, <1>3 DEF CommandsOK
    <3> QED
      BY <2>1, <3>1, ExceptSeq
  <2>3. /\ ContextsOK(ac') /\ IdsOK(ac', n)
        /\ StackOK(stack', n) /\ Goes(stack, stack')
        /\ TokensOK(ac', net', stack', executed)
        /\ \A d \in Contexts : Kept(acs[d], ac'[d])
    BY <1>1, <1>2, <1>3, <1>5, <2>1, BackTokens
  <2> QED
    BY <2>1, <2>2, <2>3 DEF Resent, Kept
<1> QED
  BY <1>11, <1>12

-----------------------------------------------------------------------------
(***************************************************************************)
(* The actions keep the invariant.  Its parts:                             *)
(***************************************************************************)
AsyncOK ==
    /\ ContextsOK(ac)
    /\ IdsOK(ac, Len(cads))
    /\ net \in [Contexts -> Connections]
    /\ StackOK(stack, Len(cads))
    /\ accErr \in BOOLEAN

Tracked == TokensOK(ac, net, stack, executed) /\ UnusedOK(ac, net, nodes, stack)

Inv ==
    /\ TypeOK
    /\ ExecOK(Len(cads), executed, answers)
    /\ aborted = "no" => Tracked

\* the contexts and what is under way on them when one has been got
LEMMA GotTokens ==
    ASSUME TypeOK, Tracked, NEW node, node.acon \in Contexts \cup {None},
           node.acon # None => ac[node.acon].life # "unused", NEW got \in actx_get_by_node(node),
           \A c \in Contexts : net'[c].out = net[c].out, NEW acs, acs = WithContext(got)
    PROVE  /\ ContextsOK(acs) /\ IdsOK(acs, Len(cads))
           /\ TokensOK(acs, net', stack, executed)
           /\ \A c \in Contexts : acs[c].life = "unused" => acs[c] = ac[c]
           /\ got.err \in BOOLEAN /\ got.fresh \in BOOLEAN
           /\ got.fresh => /\ got.c \in Contexts /\ acs[got.c].life # "unused" /\ OthersSame(ac, acs, got.c)
                           /\ ac[got.c].life = "unused"
           /\ ~got.fresh => acs = ac
           /\ ~got.err => got.c \in Contexts /\ acs[got.c].life # "unused"
<1>0. ContextsOK(ac)
  BY DEF TypeOK
<1>1. /\ got.fresh \in BOOLEAN /\ got.err \in BOOLEAN
      /\ got.fresh \/ ~got.err => got.c \in Contexts
      /\ ContextsOK(acs)
      /\ ~got.fresh => acs = ac
      /\ ~got.fresh /\ ~got.err => got.c = node.acon /\ node.acon # None
      /\ got.fresh => /\ OthersSame(ac, acs, got.c)
                      /\ ac[got.c].life = "unused"
                      /\ acs[got.c].life = "alive" /\ acs[got.c].replies = <<>>
                      /\ acs[got.c].obuf = <<>> /\ acs[got.c].ibuf = <<>>
  BY <1>0, GotContext
<1>2. CASE ~got.fresh
  <2>1. acs = ac
    BY <1>1, <1>2
  <2>2. TokensOK(ac, net', stack, executed)
    BY NothingMoves, TokensCalm DEF Tracked
  <2>3. ~got.err => got.c \in Contexts /\ acs[got.c].life # "unused"
    BY <1>1, <1>2, <2>1
  <2>4. IdsOK(ac, Len(cads))
    BY DEF TypeOK
  <2> QED
    BY <1>0, <1>1, <1>2, <2>1, <2>2, <2>3, <2>4
<1>3. CASE got.fresh
  <2>1. got.c \in Contexts /\ OthersSame(ac, acs, got.c)
    BY <1>1, <1>3
  <2>2. ASSUME NEW c \in Contexts
        PROVE  \/ /\ acs[c].replies = ac[c].replies /\ acs[c].ibuf = ac[c].ibuf
                  /\ acs[c].obuf = ac[c].obuf /\ net'[c].out = net[c].out
               \/ Blank(acs[c], net'[c])
    <3>1. CASE c # got.c
      BY <2>1, <3>1 DEF OthersSame
    <3>2. CASE c = got.c
      <4>1. net[c].out = <<>>
        BY <1>1, <1>3, <2>1, <3>2 DEF Tracked, UnusedOK, Blank
      <4> QED
        BY <1>1, <1>3, <3>2, <4>1 DEF Blank
    <3> QED
      BY <3>1, <3>2
  <2>3. TokensOK(acs, net', stack, executed)
    BY <2>2, NothingMoves, TokensCalm DEF Tracked
  <2>4. IdsOK(acs, Len(cads))
    <3>1. ASSUME NEW c \in Contexts, NEW cb \in Waits(acs[c])
          PROVE  cb.id \in 0 .. Len(cads)
      <4>1. c # got.c
        <5>1. Waits(acs[got.c]) = {}
          BY <1>1, <1>3 DEF Waits
        <5> QED
          BY <3>1, <5>1
      <4>2. acs[c] = ac[c]
        BY <2>1, <4>1 DEF OthersSame
      <4> QED
        BY <3>1, <4>2 DEF TypeOK, IdsOK
    <3> QED
      BY <3>1 DEF IdsOK
  <2>5. \A c \in Contexts : acs[c].life = "unused" => acs[c] = ac[c]
    BY <1>1, <1>3, <2>1 DEF OthersSame
  <2>6. acs[got.c].life # "unused"
    BY <1>1, <1>3
  <2> QED
    BY <1>1, <1>3, <2>1, <2>3, <2>4, <2>5, <2>6
<1> QED
  BY <1>1, <1>2, <1>3

\* a context has been got
GotFor(acs, got) ==
    /\ \A c \in Contexts : acs[c].life = "unused" => acs[c] = ac[c]
    /\ got.fresh => got.c \in Contexts /\ acs[got.c].life # "unused"

\* the nodes ns have no other contexts than those there are
TakenOver(ns) == \A k \in DOMAIN ns : ns[k].acon # None => \E j \in DOMAIN nodes : nodes[j].acon = ns[k].acon

\* a context other than c has what it had
AllBut(acs, c) ==
    /\ \A d \in Contexts : ac'[d].life = acs[d].life
    /\ \A d \in Contexts : d # c => /\ ac'[d].replies = acs[d].replies /\ ac'[d].ibuf = acs[d].ibuf
                                    /\ ac'[d].obuf = acs[d].obuf /\ ac'[d].ev = acs[d].ev

\* The contexts of nodes are used when a context has been got for one of them.
LEMMA GotUnused ==
    ASSUME TypeOK, Tracked, NEW acs, NEW got, GotFor(acs, got), NEW c, c \in Contexts => acs[c].life # "unused",
           AllBut(acs, c), NEW ns, NEW key, LinkedTo(ns, key, got), TakenOver(ns), Goes(stack, stack')
    PROVE  UnusedOK(ac', net', nodes', stack')
<1> USE DEF GotFor, LinkedTo, TakenOver, AllBut
<1>1. ASSUME NEW d \in Contexts, ac'[d].life = "unused"
      PROVE  /\ ac[d].life = "unused"
             /\ Blank(ac[d], net[d]) /\ ac[d].ev = {} => Blank(ac'[d], net'[d]) /\ ac'[d].ev = {}
  <2>1. acs[d].life = "unused" /\ d # c
    BY <1>1
  <2>2. acs[d] = ac[d]
    BY <2>1
  <2>3. /\ ac'[d].replies = acs[d].replies /\ ac'[d].ibuf = acs[d].ibuf
        /\ ac'[d].obuf = acs[d].obuf /\ ac'[d].ev = acs[d].ev /\ net'[d].out = net[d].out
    BY <2>1
  <2> QED
    BY <2>1, <2>2, <2>3 DEF Blank
<1>2. ASSUME NEW k \in DOMAIN nodes', nodes'[k].acon # None
      PROVE  /\ nodes'[k].acon \in Contexts
             /\ \/ ac'[nodes'[k].acon].life # "unused"
                \/ \E j \in DOMAIN nodes : nodes[j].acon = nodes'[k].acon
  <2>1. nodes'[k].acon \in Contexts
    BY <1>2 DEF Keyed, Pairs
  <2>2. CASE got.fresh /\ k = key
    BY <2>1, <2>2
  <2>3. CASE ~(got.fresh /\ k = key)
    BY <1>2, <2>1, <2>3
  <2> QED
    BY <2>1, <2>2, <2>3
<1>3. ASSUME NEW p \in 1 .. Len(stack'), Pending(stack'[p])
      PROVE  /\ stack'[p].c \in Contexts
             /\ \/ ac'[stack'[p].c].life # "unused"
                \/ p \in 1 .. Len(stack) /\ Pending(stack[p]) /\ stack'[p].c = stack[p].c
  <2>1. p \in 1 .. Len(stack) /\ Pending(stack[p]) /\ stack'[p].c = stack[p].c
    BY <1>3 DEF Goes, Within
  <2>2. stack[p] \in Frames
    BY <2>1 DEF TypeOK, StackOK
  <2> QED
    BY <2>1, <2>2, FrameFields DEF Pending
<1>4. UnusedOK(ac, net, nodes, stack) /\ ContextsOK(ac)
  BY DEF Tracked, TypeOK
<1>5. \A d \in Contexts : ac'[d].life = "unused" => Blank(ac'[d], net'[d]) /\ ac'[d].ev = {}
  BY <1>1, <1>4 DEF UnusedOK
<1>6. \A k \in DOMAIN nodes' : nodes'[k].acon # None => ac'[nodes'[k].acon].life # "unused"
  BY <1>1, <1>2, <1>4 DEF UnusedOK
<1>7. \A p \in 1 .. Len(stack') : Pending(stack'[p]) => ac'[stack'[p].c].life # "unused"
  BY <1>1, <1>3, <1>4 DEF UnusedOK
<1> QED
  BY <1>5, <1>6, <1>7 DEF UnusedOK

\* There is something that is not a context.
LEMMA NotThere == \E c : c \notin Contexts
<1> DEFINE R == {x \in Contexts : x \notin x}
<1>1. R \notin Contexts
  OBVIOUS
<1> QED
  BY <1>1

\* the parts of the invariant that the callback of a command changes, in the
\* next state
NextOK ==
    /\ AsyncOK' /\ Tracked' /\ ExecOK(Len(cads), executed', answers')
    /\ cads' \in Seq({"out", "freed", "dropped"}) /\ Len(cads') = Len(cads)
    /\ answers' \in Seq(Seq(Results)) /\ Len(answers') = Len(cads)
    /\ aborted' = aborted

\* The command of the call at the top is sent again to the context of a node,
\* or the callback of the user is called (RetryAt).
LEMMA RetryAtDoes ==
    ASSUME TypeOK, Tracked, ExecOK(Len(cads), executed, answers), stack # <<>>, Top.at \in {"callback", "route"},
           Top.reply # NULL, Top.reply.kind # "reply",
           NEW node, node.acon \in Contexts \cup {None}, node.acon # None => ac[node.acon].life # "unused",
           NEW got \in actx_get_by_node(node), NEW key, NEW server \in Servers, NEW ns, Keyed(ns),
           TakenOver(ns), NEW ds, OnContexts(ds), Link(got, key, server, ns, ds), NEW asking \in BOOLEAN,
           RetryAt(got, asking), UNCHANGED executed
    PROVE  /\ NextOK
           /\ Keyed(nodes') /\ DOMAIN nodes' = DOMAIN ns
           /\ OnContexts(data')
<1>1. ContextsOK(ac) /\ net \in [Contexts -> Connections]
  BY DEF TypeOK
<1>2. got.fresh => got.c \in Contexts
  BY <1>1, GotContext
<1>3. /\ net' \in [Contexts -> Connections]
      /\ \A c \in Contexts : net'[c].out = net[c].out
      /\ Keyed(nodes') /\ DOMAIN nodes' = DOMAIN ns
      /\ \A k \in DOMAIN ns : nodes'[k].acon = IF got.fresh /\ k = key THEN got.c ELSE ns[k].acon
      /\ OnContexts(data')
      /\ LinkedTo(ns, key, got)
  <2>1. net' \in [Contexts -> Connections] /\ OnContexts(data') /\ LinkedTo(ns, key, got)
    BY <1>1, <1>2, Linked
  <2> QED
    BY <2>1 DEF LinkedTo
<1>4. PICK acs : acs = WithContext(got)
  OBVIOUS
<1>5. /\ ContextsOK(acs) /\ IdsOK(acs, Len(cads))
      /\ TokensOK(acs, net', stack, executed)
      /\ \A c \in Contexts : acs[c].life = "unused" => acs[c] = ac[c]
      /\ got.err \in BOOLEAN /\ got.fresh \in BOOLEAN
      /\ got.fresh => got.c \in Contexts /\ acs[got.c].life # "unused"
      /\ ~got.err => got.c \in Contexts /\ acs[got.c].life # "unused"
  BY <1>3, <1>4, GotTokens
<1>6. accErr \in BOOLEAN /\ CommandsOK
  BY DEF TypeOK
<1>9. GotFor(acs, got)
  BY <1>5 DEF GotFor
<1>7. CASE got.err
  <2>1. ac' = acs /\ Done(TRUE) /\ UNCHANGED cads
    BY <1>4, <1>7 DEF RetryAt
  <2>2. /\ accErr' = TRUE /\ aborted' = aborted
        /\ StackOK(stack', Len(cads)) /\ Goes(stack, stack')
        /\ answers' \in Seq(Seq(Results)) /\ Len(answers') = Len(cads)
    BY <2>1, DoneDoes
  <2>3. ExecOK(Len(cads), executed, answers')
    BY <2>1, DoneTrue DEF Tracked
  <2>4. TokensOK(ac', net', stack', executed)
    BY <1>5, <2>1, <2>2, TokensCalm
  <2>5. UnusedOK(ac', net', nodes', stack')
    <3>1. PICK c : c \notin Contexts
      BY NotThere
    <3> QED
      <4>1. AllBut(acs, c)
        BY <2>1 DEF AllBut
      <4>2. Goes(stack, stack')
        BY <2>2
      <4> QED
        BY <1>3, <1>9, <3>1, <4>1, <4>2, GotUnused
  <2>6. AsyncOK'
    BY <1>3, <1>5, <2>1, <2>2 DEF AsyncOK
  <2>7. cads' \in Seq({"out", "freed", "dropped"}) /\ Len(cads') = Len(cads)
    BY <1>6, <2>1 DEF CommandsOK
  <2>8. Tracked'
    BY <2>4, <2>5 DEF Tracked
  <2> QED
    BY <1>3, <2>2, <2>3, <2>6, <2>7, <2>8 DEF NextOK
<1>8. CASE ~got.err
  <2>1. Retry(acs, got.c, asking)
    BY <1>4, <1>8 DEF RetryAt
  <2>2. PICK c \in Contexts : c = got.c
    BY <1>5, <1>8
  <2>3. Resent(acs, c)
    BY <1>3, <1>5, <2>1, <2>2, RetryDoes
  <2>4. TokensOK(ac', net', stack', executed)
    BY <2>3 DEF Resent
  <2>5. UnusedOK(ac', net', nodes', stack')
    <3>1. AllBut(acs, c) /\ Goes(stack, stack')
      BY <2>3 DEF Resent, AllBut
    <3>2. acs[c].life # "unused"
      BY <1>5, <1>8, <2>2
    <3> QED
      BY <1>3, <1>9, <3>1, <3>2, GotUnused
  <2>6. AsyncOK'
    <3>1. ContextsOK(ac') /\ IdsOK(ac', Len(cads)) /\ StackOK(stack', Len(cads)) /\ accErr' = accErr
          /\ Len(cads') = Len(cads)
      BY <2>3 DEF Resent
    <3> QED
      BY <1>3, <1>6, <3>1 DEF AsyncOK
  <2>7. Tracked'
    BY <2>4, <2>5 DEF Tracked
  <2>8. cads' \in Seq({"out", "freed", "dropped"}) /\ Len(cads') = Len(cads) /\ answers' = answers /\ aborted' = aborted
    BY <2>3 DEF Resent
  <2> QED
    BY <1>3, <1>6, <2>6, <2>7, <2>8 DEF NextOK, CommandsOK
<1> QED
  BY <1>3, <1>5, <1>7, <1>8

\* nothing is sent or answered on a context, or it has been freed
Rests(c) ==
    \/ /\ ac'[c].life = ac[c].life /\ ac'[c].replies = ac[c].replies /\ ac'[c].ibuf = ac[c].ibuf
       /\ ac'[c].obuf = ac[c].obuf /\ net'[c].out = net[c].out
       /\ ac[c].life = "unused" => ac'[c].ev = ac[c].ev
       /\ c \in Frees(stack) => c \in Frees(stack')
    \/ Blank(ac'[c], net'[c]) /\ ac'[c].life = "freed"

\* Steps in which nothing is sent or answered.
LEMMA CalmStep ==
    ASSUME TypeOK, Tracked, ContextsOK(ac'), \A c \in Contexts : Rests(c), net' \in [Contexts -> Connections],
           StackOK(stack', Len(cads)), Within(stack', stack), Keyed(nodes'), TakenOver(nodes'), accErr' \in BOOLEAN,
           executed' = executed, Len(cads') = Len(cads)
    PROVE  AsyncOK' /\ Tracked'
<1>1. TokensOK(ac', net', stack', executed)
  <2>1. ASSUME NEW c \in Contexts
        PROVE  \/ /\ ac'[c].replies = ac[c].replies /\ SameThings(ac[c], net[c], ac'[c], net'[c])
                  /\ c \in Frees(stack) => c \in Frees(stack')
               \/ Blank(ac'[c], net'[c])
    <3>1. Rests(c)
      OBVIOUS
    <3>2. CASE /\ ac'[c].life = ac[c].life /\ ac'[c].replies = ac[c].replies /\ ac'[c].ibuf = ac[c].ibuf
               /\ ac'[c].obuf = ac[c].obuf /\ net'[c].out = net[c].out
               /\ c \in Frees(stack) => c \in Frees(stack')
      <4>1. SameThings(ac[c], net[c], ac'[c], net'[c])
        BY <3>2, FieldsKept
      <4> QED
        BY <3>2, <4>1
    <3> QED
      BY <3>1, <3>2 DEF Rests
  <2> QED
    BY <2>1, TokensQuiet DEF Tracked
<1>2. \A c \in Contexts : ac'[c].life = "unused" => Blank(ac'[c], net'[c]) /\ ac'[c].ev = {}
  BY DEF Rests, Tracked, UnusedOK, Blank
<1>3. \A c \in Contexts : ac[c].life # "unused" => ac'[c].life # "unused"
  BY DEF Rests
<1>4. ASSUME NEW k \in DOMAIN nodes', nodes'[k].acon # None
      PROVE  ac'[nodes'[k].acon].life # "unused"
  <2>1. nodes'[k].acon \in Contexts
    BY <1>4 DEF Keyed, Pairs
  <2>2. PICK j \in DOMAIN nodes : nodes[j].acon = nodes'[k].acon
    BY <1>4 DEF TakenOver
  <2> QED
    BY <1>3, <1>4, <2>1, <2>2 DEF Tracked, UnusedOK
<1>5. ASSUME NEW p \in 1 .. Len(stack'), Pending(stack'[p])
      PROVE  ac'[stack'[p].c].life # "unused"
  <2>1. p \in 1 .. Len(stack) /\ Pending(stack[p]) /\ stack'[p].c = stack[p].c
    BY <1>5 DEF Within
  <2>2. stack[p] \in Frames
    BY <2>1 DEF TypeOK, StackOK
  <2>3. stack'[p].c \in Contexts
    BY <2>1, <2>2, FrameFields DEF Pending
  <2> QED
    BY <1>3, <2>1, <2>3 DEF Tracked, UnusedOK
<1>6. UnusedOK(ac', net', nodes', stack')
  BY <1>2, <1>4, <1>5 DEF UnusedOK
<1>7. IdsOK(ac', Len(cads))
  <2>1. ASSUME NEW c \in Contexts, NEW cb \in Waits(ac'[c])
        PROVE  cb.id \in 0 .. Len(cads)
    <3>1. ac'[c].replies # <<>>
      BY <2>1 DEF Waits
    <3>2. ac'[c].replies = ac[c].replies
      BY <3>1 DEF Rests, Blank
    <3> QED
      BY <2>1, <3>2 DEF TypeOK, IdsOK, Waits
  <2> QED
    BY <2>1 DEF IdsOK
<1>8. AsyncOK'
  BY <1>7 DEF AsyncOK
<1>9. Tracked'
  BY <1>1, <1>6 DEF Tracked
<1> QED
  BY <1>8, <1>9

\* A context that has only other flags, or none at all.
LEMMA KeptRests ==
    ASSUME NEW c, Kept(ac[c], ac'[c]), net'[c].out = net[c].out, c \in Frees(stack) => c \in Frees(stack')
    PROVE  Rests(c)
BY DEF Rests, Kept

\* The nodes are the same.
LEMMA SameNodes ==
    ASSUME TypeOK, UNCHANGED nodes
    PROVE  Keyed(nodes') /\ TakenOver(nodes')
<1>1. Keyed(nodes)
  BY DEF TypeOK, RouteOK
<1> QED
  BY <1>1 DEF TakenOver

\* A step in which a callback of the user is called.
LEMMA DoneStep ==
    ASSUME TypeOK, Tracked, ExecOK(Len(cads), executed, answers), stack # <<>>, Top.at \in {"callback", "route"},
           NEW err \in BOOLEAN, Done(err), UNCHANGED <<ac, net, executed, cads>>, Keyed(nodes'), TakenOver(nodes')
    PROVE  NextOK
<1>1. /\ accErr' = err /\ aborted' = aborted
      /\ StackOK(stack', Len(cads)) /\ Goes(stack, stack')
      /\ answers' \in Seq(Seq(Results)) /\ Len(answers') = Len(cads)
  BY DoneDoes
<1>2. ExecOK(Len(cads), executed, answers')
  BY DoneTrue DEF Tracked
<1>3. ContextsOK(ac) /\ net \in [Contexts -> Connections] /\ CommandsOK
  BY DEF TypeOK
<1>4. \A c \in Contexts : Rests(c)
  BY <1>1 DEF Rests, Goes
<1>5. Within(stack', stack)
  BY <1>1 DEF Goes
<1>6. ContextsOK(ac') /\ net' \in [Contexts -> Connections] /\ executed' = executed /\ Len(cads') = Len(cads)
      /\ accErr' \in BOOLEAN
  BY <1>1, <1>3
<1>7. AsyncOK' /\ Tracked'
  BY <1>1, <1>4, <1>5, <1>6, CalmStep
<1>8. cads' \in Seq({"out", "freed", "dropped"})
  BY <1>3 DEF CommandsOK
<1> QED
  BY <1>1, <1>2, <1>6, <1>7, <1>8 DEF NextOK

\* The whole of the invariant.
LEMMA Whole ==
    ASSUME TypeOK, NextOK, UNCHANGED <<cmds, executed>>, calls' \in Seq(Seq(Results)), Len(calls') = Len(cads),
           retries' \in Seq(Nat), Len(retries') = Len(cads), RouteOK', UNCHANGED servers
    PROVE  Inv'
<1>1. CommandsOK'
  BY DEF TypeOK, CommandsOK, NextOK
<1>2. ServersOK'
  BY DEF TypeOK, ServersOK, servers
<1>3. TypeOK'
  BY <1>1, <1>2 DEF TypeOK, NextOK, AsyncOK
<1> QED
  BY <1>3 DEF Inv, NextOK

-----------------------------------------------------------------------------
(***************************************************************************)
(* redisClusterAsyncCallback.                                              *)
(***************************************************************************)
\* What is known while the program runs.
LEMMA Running ==
    ASSUME Inv, aborted = "no"
    PROVE  /\ TypeOK /\ Tracked /\ ExecOK(Len(cads), executed, answers)
           /\ ContextsOK(ac) /\ net \in [Contexts -> Connections] /\ StackOK(stack, Len(cads)) /\ CommandsOK
           /\ RouteOK /\ accErr \in BOOLEAN /\ Len(cads) \in Nat
           /\ calls \in Seq(Seq(Results)) /\ Len(calls) = Len(cads)
           /\ retries \in Seq(Nat) /\ Len(retries) = Len(cads)
BY DEF Inv, TypeOK, CommandsOK

\* The call at the top is about a command.
LEMMA InCommand ==
    ASSUME Inv, NEW at \in {"callback", "user", "route"}, AtTop(at)
    PROVE  /\ aborted = "no" /\ stack # <<>> /\ Top.at = at /\ Pending(Top)
           /\ Top.c \in Contexts /\ Id \in 1 .. Len(cads) /\ Top.reply \in Results /\ Top \in Frames
           /\ Len(stack) \in 1 .. Len(stack) /\ Top = stack[Len(stack)]
           /\ at = "route" => Top.table \in Routes
<1>1. aborted = "no" /\ stack # <<>> /\ Top.at = at
  BY DEF AtTop
<1>2. Pending(Top) /\ at # "release"
  BY <1>1 DEF Pending
<1> QED
  BY <1>1, <1>2, Running, TopFrame DEF Id

\* The nodes and the route are the same.
LEMMA SameRoute ==
    ASSUME RouteOK, UNCHANGED <<nodes, table, data, timer, notes>>
    PROVE  RouteOK'
BY DEF RouteOK

\* Answered.
LEMMA AnsweredKeeps ==
    ASSUME Inv, Answered
    PROVE  Inv'
<1>1. AtTop("callback") /\ Done(accErr)
      /\ UNCHANGED <<ac, net, cmds, calls, onDisc, asked, odd, spent, servers, route, retries, cads, notes, executed>>
  BY DEF Answered, InCallback
<1>2. aborted = "no" /\ stack # <<>> /\ Top.at = "callback"
  BY <1>1, InCommand
<1>3. UNCHANGED <<nodes, table, data, timer>>
  BY <1>1 DEF route
<1>4. NextOK
  BY <1>1, <1>2, <1>3, Running, SameNodes, DoneStep
<1>5. RouteOK'
  BY <1>1, <1>2, <1>3, Running, SameRoute
<1> QED
  BY <1>1, <1>2, <1>4, <1>5, Running, Whole

\* TooMany.
LEMMA TooManyKeeps ==
    ASSUME Inv, TooMany
    PROVE  Inv'
<1>1. AtTop("callback") /\ Done(TRUE) /\ retries' = [retries EXCEPT ![Id] = 0]
      /\ UNCHANGED <<ac, net, cmds, calls, onDisc, asked, odd, spent, servers, route, cads, notes, executed>>
  BY DEF TooMany, InCallback
<1>2. aborted = "no" /\ stack # <<>> /\ Top.at = "callback" /\ Id \in 1 .. Len(cads)
  BY <1>1, InCommand
<1>3. UNCHANGED <<nodes, table, data, timer>>
  BY <1>1 DEF route
<1>4. NextOK
  BY <1>1, <1>2, <1>3, Running, SameNodes, DoneStep
<1>5. RouteOK'
  BY <1>1, <1>2, <1>3, Running, SameRoute
<1>6. retries' \in Seq(Nat) /\ Len(retries') = Len(cads)
  BY <1>1, <1>2, Running, ExceptSeq
<1> QED
  BY <1>1, <1>2, <1>4, <1>5, <1>6, Running, Whole

\* UserReturns.
LEMMA UserReturnsKeeps ==
    ASSUME Inv, UserReturns
    PROVE  Inv'
<1>1. AtTop("user") /\ accErr' = FALSE /\ cads' = [cads EXCEPT ![Id] = "freed"] /\ Back(ac, Top.c, Below)
      /\ UNCHANGED <<net, cmds, calls, onDisc, asked, aborted, odd, spent, servers, route, retries, answers, notes,
                     executed>>
  BY DEF UserReturns
<1>2. aborted = "no" /\ stack # <<>> /\ Top.at = "user" /\ Id \in 1 .. Len(cads) /\ Pending(Top) /\ Top.c \in Contexts
  BY <1>1, InCommand
<1>3. UNCHANGED <<nodes, table, data, timer>>
  BY <1>1 DEF route
<1>4. cads' \in Seq({"out", "freed", "dropped"}) /\ Len(cads') = Len(cads)
  <2>1. cads \in Seq({"out", "freed", "dropped"})
    BY <1>2, Running DEF CommandsOK
  <2> QED
    BY <1>1, <1>2, <2>1, ExceptSeq
<1>5. StackOK(stack', Len(cads)) /\ Goes(stack, stack')
  BY <1>1, <1>2, Running, BackMoves
<1>6. ContextsOK(ac') /\ OthersSame(ac, ac', Top.c) /\ Kept(ac[Top.c], ac'[Top.c])
  <2>1. StackOK(Below, Len(cads))
    BY <1>2, Running, TopFrame
  <2> QED
    BY <1>1, <1>2, <2>1, Running, Returned
<1>7. \A c \in Contexts : Rests(c)
  <2>1. \A c \in Contexts : Kept(ac[c], ac'[c])
    BY <1>6 DEF OthersSame, Kept
  <2> QED
    BY <1>1, <1>5, <2>1, KeptRests DEF Goes
<1>8. AsyncOK' /\ Tracked'
  <2>1. Keyed(nodes') /\ TakenOver(nodes')
    BY <1>2, <1>3, Running, SameNodes
  <2>2. Within(stack', stack) /\ net' \in [Contexts -> Connections] /\ accErr' \in BOOLEAN
    BY <1>1, <1>2, <1>5, Running DEF Goes
  <2> QED
    BY <1>1, <1>2, <1>4, <1>5, <1>6, <1>7, <2>1, <2>2, Running, CalmStep
<1>9. NextOK
  BY <1>1, <1>2, <1>4, <1>8, Running DEF NextOK, CommandsOK
<1>10. RouteOK'
  BY <1>1, <1>2, <1>3, Running, SameRoute
<1> QED
  BY <1>1, <1>2, <1>9, <1>10, Running, Whole

\* A callback with NULL is counted at the node of its context.
LEMMA CountedNodes ==
    ASSUME TypeOK, NEW key \in DOMAIN nodes, nodes' = Counted(key)
    PROVE  Keyed(nodes') /\ TakenOver(nodes') /\ DOMAIN nodes' = DOMAIN nodes
<1> DEFINE v == [nodes[key] EXCEPT !.failure_count = (@ + 1) % (max_redirect_count + 1)]
<1>1. Keyed(nodes)
  BY DEF TypeOK, RouteOK
<1>2. nodes' = [nodes EXCEPT ![key] = v]
  BY DEF Counted
<1>3. nodes[key].failure_count + 1 \in Nat /\ max_redirect_count + 1 \in Nat \ {0}
  BY <1>1, ClusterAssumption DEF Keyed, Pairs
<1>4. (nodes[key].failure_count + 1) % (max_redirect_count + 1) \in Nat
  BY <1>3
<1>5. v \in Pairs /\ v.acon = nodes[key].acon
  BY <1>1, <1>4 DEF Keyed, Pairs
<1> HIDE DEF v
<1>6. DOMAIN nodes' = DOMAIN nodes /\ \A k \in DOMAIN nodes : nodes'[k] = IF k = key THEN v ELSE nodes[k]
  BY <1>1, <1>2 DEF Keyed
<1>7. nodes' = [k \in DOMAIN nodes' |-> nodes'[k]]
  BY <1>1, <1>2 DEF Keyed
<1>8. Keyed(nodes')
  BY <1>1, <1>5, <1>6, <1>7 DEF Keyed
<1>9. TakenOver(nodes')
  BY <1>5, <1>6 DEF TakenOver
<1> QED
  BY <1>6, <1>8, <1>9

\* NullCounted.
LEMMA NullCountedKeeps ==
    ASSUME Inv, NullCounted
    PROVE  Inv'
<1> DEFINE key == data[Top.c]
           err == ac[Top.c].err
<1>1. /\ AtTop("callback")
      /\ nodes' = IF key \in DOMAIN nodes THEN Counted(key) ELSE nodes
      /\ UNCHANGED <<ac, net, cmds, calls, onDisc, asked, odd, servers, table, data, retries, cads, notes, executed>>
  BY DEF NullCounted, InCallback
<1>2. \/ Done(err) /\ timer' = timer
      \/ \E got \in BOOLEAN : Done(err \/ ~got) /\ timer' = got
  BY DEF NullCounted
<1>3. aborted = "no" /\ stack # <<>> /\ Top.at = "callback" /\ Top.c \in Contexts
  BY <1>1, InCommand
<1>4. err \in BOOLEAN
  BY <1>3, Running DEF ContextsOK, IsContext
<1> HIDE DEF err
<1>5. timer' \in BOOLEAN /\ \E e \in BOOLEAN : Done(e)
  <2>1. timer \in BOOLEAN
    BY <1>3, Running DEF RouteOK
  <2>2. CASE Done(err) /\ timer' = timer
    BY <1>4, <2>1, <2>2
  <2>3. ASSUME NEW got \in BOOLEAN, Done(err \/ ~got), timer' = got
        PROVE  timer' \in BOOLEAN /\ \E e \in BOOLEAN : Done(e)
    <3>1. PICK e \in BOOLEAN : e = (err \/ ~got)
      BY <1>4
    <3> QED
      BY <2>3, <3>1
  <2> QED
    BY <1>2, <2>2, <2>3
<1>6. Keyed(nodes') /\ TakenOver(nodes') /\ DOMAIN nodes' = DOMAIN nodes
  <2>1. CASE key \in DOMAIN nodes
    BY <1>1, <1>3, <2>1, Running, CountedNodes
  <2>2. CASE key \notin DOMAIN nodes
    BY <1>1, <1>3, <2>2, Running, SameNodes
  <2> QED
    BY <2>1, <2>2
<1>7. PICK e \in BOOLEAN : Done(e)
  BY <1>5
<1>8. NextOK
  BY <1>1, <1>3, <1>6, <1>7, Running, DoneStep
<1>9. RouteOK'
  BY <1>1, <1>3, <1>5, <1>6, Running DEF RouteOK
<1> QED
  BY <1>1, <1>3, <1>8, <1>9, Running, Whole

\* A flag is set on contexts (redisAsyncFree, for the contexts of nodes).
LEMMA FlagGiven ==
    ASSUME ContextsOK(ac), NEW cs, NEW acs, acs = WithFlag(cs, "FREEING")
    PROVE  /\ ContextsOK(acs)
           /\ \A c \in Contexts : Kept(ac[c], acs[c])
           /\ \A c \in Contexts : acs[c].flags = IF c \in cs THEN ac[c].flags \cup {"FREEING"} ELSE ac[c].flags
<1>1. acs = [c \in Contexts |-> IF c \in cs THEN Reflag(ac[c], ac[c].flags \cup {"FREEING"}) ELSE ac[c]]
  BY DEF WithFlag, Reflag
<1>2. \A c \in Contexts : acs[c] = IF c \in cs THEN Reflag(ac[c], ac[c].flags \cup {"FREEING"}) ELSE ac[c]
  BY <1>1
<1>3. acs = [c \in Contexts |-> acs[c]]
  BY <1>1
<1>4. ASSUME NEW c \in Contexts
      PROVE  /\ IsContext(acs[c]) /\ Kept(ac[c], acs[c])
             /\ acs[c].flags = IF c \in cs THEN ac[c].flags \cup {"FREEING"} ELSE ac[c].flags
  <2> DEFINE a == ac[c]
             F == a.flags \cup {"FREEING"}
             b == acs[c]
  <2>1. IsContext(a)
    BY DEF ContextsOK
  <2>2. F \in SUBSET Flags
    BY <2>1 DEF IsContext, Flags
  <2>3. b = IF c \in cs THEN Reflag(a, F) ELSE a
    BY <1>2
  <2> HIDE DEF a, F, b
  <2>4. IsContext(Reflag(a, F)) /\ Kept(a, Reflag(a, F)) /\ Reflag(a, F).flags = F
    BY <2>1, <2>2, ReflagTyped
  <2>5. IsContext(b) /\ Kept(a, b) /\ b.flags = IF c \in cs THEN F ELSE a.flags
    BY <2>1, <2>3, <2>4 DEF Kept
  <2> QED
    BY <2>5 DEF a, b, F
<1> QED
  BY <1>3, <1>4 DEF ContextsOK

\* The route is read, and the contexts of the nodes that are not in it are
\* freed (UpdateRoute).
LEMMA UpdateRouteDoes ==
    ASSUME Inv, AtTop("callback"), Top.reply.kind # "reply", UpdateRoute
    PROVE  /\ ContextsOK(ac')
           /\ \A c \in Contexts : Kept(ac[c], ac'[c])
           /\ StackOK(stack', Len(cads)) /\ Goes(stack, stack')
<1>1. /\ aborted = "no" /\ stack # <<>> /\ Top.at = "callback" /\ Pending(Top)
      /\ Top.c \in Contexts /\ Id \in 1 .. Len(cads) /\ Top.reply \in Results /\ Top \in Frames
      /\ Len(stack) \in 1 .. Len(stack) /\ Top = stack[Len(stack)]
  BY InCommand
<1>2. PICK t \in {owner, before} :
        LET cs == ContextsOf(DOMAIN nodes \ Listed(t))
            acs == WithFlag(cs, "FREEING")
            now == {c \in cs : "IN_CALLBACK" \notin ac[c].flags}
        IN  /\ ac' = acs
            /\ stack' = Append(Below, [at |-> "route", c |-> Top.c, cb |-> Top.cb, reply |-> Top.reply, table |-> t])
                        \o FreeFrames(SetToSeq(now), acs)
  BY DEF UpdateRoute
<1> DEFINE cs == ContextsOf(DOMAIN nodes \ Listed(t))
           now == {c \in cs : "IN_CALLBACK" \notin ac[c].flags}
           r == [at |-> "route", c |-> Top.c, cb |-> Top.cb, reply |-> Top.reply, table |-> t]
           mid == Append(Below, r)
           fs == FreeFrames(SetToSeq(now), ac')
<1>3. ac' = WithFlag(cs, "FREEING") /\ stack' = mid \o fs
  BY <1>2
<1>4. t \in Routes
  BY <1>1, Running DEF TypeOK, ServersOK
<1>5. cs \in SUBSET Contexts
  <2>1. Keyed(nodes)
    BY <1>1, Running DEF RouteOK
  <2> QED
    BY <2>1 DEF ContextsOf, Keyed, Pairs
<1>6. now \in SUBSET Contexts
  BY <1>5
<1> HIDE DEF cs, now
<1>7. /\ ContextsOK(ac')
      /\ \A c \in Contexts : Kept(ac[c], ac'[c])
  <2>1. PICK acs : acs = WithFlag(cs, "FREEING")
    OBVIOUS
  <2>2. ContextsOK(acs) /\ \A c \in Contexts : Kept(ac[c], acs[c])
    BY <1>1, <2>1, Running, FlagGiven
  <2> QED
    BY <1>3, <2>1, <2>2
<1>8. r \in Frames /\ r.at = "route" /\ r.c = Top.c /\ r.cb = Top.cb /\ r.reply = Top.reply
  <2>1. Top.cb \in Callbacks \ {NullCb} /\ Top.reply \in Results
    BY <1>1, FrameFields
  <2> QED
    BY <1>1, <1>4, <2>1 DEF Frames
<1> HIDE DEF r
<1>9. Pending(r)
  BY <1>8 DEF Pending
<1>10. StackOK(mid, Len(cads)) /\ Goes(stack, mid)
  BY <1>1, <1>8, <1>9, Running, ReplaceMoves DEF Below
<1>11. fs \in Seq(Frames) /\ \A i \in 1 .. Len(fs) : fs[i].at = "free"
  BY <1>6, <1>7, FreedInOrder
<1> HIDE DEF mid, fs
<1>12. StackOK(stack', Len(cads)) /\ Goes(mid, stack')
  BY <1>1, <1>3, <1>10, <1>11, Running, StackJoined, JoinMoves
<1> QED
  BY <1>7, <1>10, <1>12, MovesJoin

\* A step in which the route is read.
LEMMA UpdateStep ==
    ASSUME Inv, AtTop("callback"), Top.reply.kind # "reply", UpdateRoute,
           UNCHANGED <<net, executed, cads, nodes, accErr, answers, aborted>>
    PROVE  NextOK
<1>1. /\ ContextsOK(ac')
      /\ \A c \in Contexts : Kept(ac[c], ac'[c])
      /\ StackOK(stack', Len(cads)) /\ Goes(stack, stack')
  BY UpdateRouteDoes
<1>2. aborted = "no"
  BY DEF AtTop
<1>3. \A c \in Contexts : Rests(c)
  BY <1>1, KeptRests DEF Goes
<1>4. AsyncOK' /\ Tracked'
  <2>1. Keyed(nodes') /\ TakenOver(nodes')
    BY <1>2, Running, SameNodes
  <2>2. Within(stack', stack) /\ net' \in [Contexts -> Connections] /\ accErr' \in BOOLEAN
    BY <1>1, <1>2, Running DEF Goes
  <2> QED
    BY <1>1, <1>2, <1>3, <2>1, <2>2, Running, CalmStep
<1> QED
  BY <1>2, <1>4, Running DEF NextOK, CommandsOK

\* NullTimed.
LEMMA NullTimedKeeps ==
    ASSUME Inv, NullTimed
    PROVE  Inv'
<1>1. /\ AtTop("callback") /\ Top.reply = NULL
      /\ UNCHANGED <<net, cmds, calls, onDisc, asked, odd, servers, nodes, table, data, retries, cads, notes, executed>>
  BY DEF NullTimed, InCallback
<1>2. \/ Done(ac[Top.c].err) /\ UNCHANGED <<ac, timer, spent>>
      \/ UpdateRoute /\ UNCHANGED <<timer, spent, accErr, answers, aborted>>
      \/ UpdateFails /\ timer' = FALSE
  BY DEF NullTimed
<1>3. aborted = "no" /\ stack # <<>> /\ Top.at = "callback" /\ Top.c \in Contexts
  BY <1>1, InCommand
<1>4. timer \in BOOLEAN
  BY <1>3, Running DEF RouteOK
<1>5. NULL.kind # "reply"
  BY DEF NULL
<1>6. NextOK /\ timer' \in BOOLEAN
  <2>1. CASE Done(ac[Top.c].err) /\ UNCHANGED <<ac, timer, spent>>
    <3>1. ac[Top.c].err \in BOOLEAN
      BY <1>3, Running DEF ContextsOK, IsContext
    <3> QED
      BY <1>1, <1>3, <1>4, <2>1, <3>1, Running, SameNodes, DoneStep
  <2>2. CASE UpdateRoute /\ UNCHANGED <<timer, spent, accErr, answers, aborted>>
    BY <1>1, <1>4, <1>5, <2>2, UpdateStep
  <2>3. CASE UpdateFails /\ timer' = FALSE
    <3>1. Done(TRUE) /\ UNCHANGED ac
      BY <2>3 DEF UpdateFails
    <3> QED
      BY <1>1, <1>3, <2>3, <3>1, Running, SameNodes, DoneStep
  <2> QED
    BY <1>2, <2>1, <2>2, <2>3
<1>7. RouteOK'
  BY <1>1, <1>3, <1>6, Running DEF RouteOK
<1> QED
  BY <1>1, <1>3, <1>6, <1>7, Running, Whole

\* A redirection is counted.
LEMMA RedirectedDoes ==
    ASSUME Inv, NEW kind \in {"moved", "ask", "again"}, Redirected(kind)
    PROVE  /\ AtTop("callback") /\ aborted = "no" /\ stack # <<>> /\ Top.at = "callback"
           /\ Top.reply # NULL /\ Top.reply.kind = kind /\ Top.reply.kind # "reply"
           /\ Top.c \in Contexts /\ Id \in 1 .. Len(cads) /\ Top.reply \in Results
           /\ retries' \in Seq(Nat) /\ Len(retries') = Len(cads)
<1>1. /\ AtTop("callback") /\ Top.reply # NULL /\ Top.reply.kind = kind
      /\ retries' = [retries EXCEPT ![Id] = @ + 1]
  BY DEF Redirected, InCallback
<1>2. aborted = "no" /\ stack # <<>> /\ Top.at = "callback" /\ Id \in 1 .. Len(cads) /\ Top.c \in Contexts
      /\ Top.reply \in Results
  BY <1>1, InCommand
<1>3. retries \in Seq(Nat) /\ Len(retries) = Len(cads)
  BY <1>2, Running
<1>4. retries[Id] + 1 \in Nat
  BY <1>2, <1>3
<1>5. retries' \in Seq(Nat) /\ Len(retries') = Len(cads)
  BY <1>1, <1>2, <1>3, <1>4, ExceptSeq
<1> QED
  BY <1>1, <1>2, <1>5

\* Moved.
LEMMA MovedKeeps ==
    ASSUME Inv, Moved
    PROVE  Inv'
<1>1. /\ Redirected("moved")
      /\ \/ UpdateRoute /\ UNCHANGED <<spent, accErr, answers, aborted>>
         \/ UpdateFails
      /\ UNCHANGED <<net, cmds, calls, onDisc, asked, odd, servers, route, cads, notes, executed>>
  BY DEF Moved
<1>2. /\ AtTop("callback") /\ aborted = "no" /\ stack # <<>> /\ Top.at = "callback"
      /\ Top.reply.kind # "reply"
      /\ retries' \in Seq(Nat) /\ Len(retries') = Len(cads)
  BY <1>1, RedirectedDoes
<1>3. UNCHANGED <<nodes, table, data, timer>>
  BY <1>1 DEF route
<1>4. NextOK
  <2>1. CASE UpdateRoute /\ UNCHANGED <<spent, accErr, answers, aborted>>
    BY <1>1, <1>2, <1>3, <2>1, UpdateStep
  <2>2. CASE UpdateFails
    <3>1. Done(TRUE) /\ UNCHANGED ac
      BY <2>2 DEF UpdateFails
    <3> QED
      BY <1>1, <1>2, <1>3, <3>1, Running, SameNodes, DoneStep
  <2> QED
    BY <1>1, <2>1, <2>2
<1>5. RouteOK'
  BY <1>1, <1>2, <1>3, Running, SameRoute
<1> QED
  BY <1>1, <1>2, <1>4, <1>5, Running, Whole

\* Again.
LEMMA AgainKeeps ==
    ASSUME Inv, Again
    PROVE  Inv'
<1>1. /\ Redirected("again")
      /\ Retry(ac, Top.c, FALSE)
      /\ UNCHANGED <<net, cmds, calls, onDisc, asked, odd, spent, servers, route, notes, executed>>
  BY DEF Again
<1>2. /\ AtTop("callback") /\ aborted = "no" /\ stack # <<>> /\ Top.at = "callback"
      /\ Top.reply # NULL /\ Top.reply.kind # "reply" /\ Top.c \in Contexts
      /\ retries' \in Seq(Nat) /\ Len(retries') = Len(cads)
  BY <1>1, RedirectedDoes
<1>3. UNCHANGED <<nodes, table, data, timer>>
  BY <1>1 DEF route
<1>4. /\ ContextsOK(ac) /\ IdsOK(ac, Len(cads)) /\ net' \in [Contexts -> Connections]
      /\ TokensOK(ac, net', stack, executed)
  BY <1>1, <1>2, Running DEF TypeOK, Tracked
<1>5. PICK c \in Contexts : c = Top.c
  BY <1>2
<1>6. Resent(ac, c)
  BY <1>1, <1>2, <1>4, <1>5, Running, RetryDoes
<1>7. UnusedOK(ac', net', nodes', stack')
  <2>1. PICK got : got = Had(None)
    OBVIOUS
  <2>2. ~got.fresh
    BY <2>1 DEF Had
  <2>3. GotFor(ac, got)
    BY <2>2 DEF GotFor
  <2>4. LinkedTo(nodes, None, got) /\ TakenOver(nodes)
    BY <1>1, <1>2, <1>3, <2>2, Running, SameNodes DEF LinkedTo, TakenOver
  <2>5. AllBut(ac, c) /\ Goes(stack, stack')
    BY <1>6 DEF Resent, AllBut
  <2>6. ac[c].life # "unused"
    <3>1. Pending(Top) /\ Len(stack) \in 1 .. Len(stack) /\ Top = stack[Len(stack)]
      BY <1>2, InCommand
    <3> QED
      BY <1>2, <1>5, <3>1, Running DEF Tracked, UnusedOK
  <2> QED
    BY <1>2, <2>3, <2>4, <2>5, <2>6, Running, GotUnused
<1>8. NextOK
  <2>1. AsyncOK'
    <3>1. ContextsOK(ac') /\ IdsOK(ac', Len(cads)) /\ StackOK(stack', Len(cads)) /\ accErr' = accErr
          /\ Len(cads') = Len(cads)
      BY <1>6 DEF Resent
    <3> QED
      BY <1>2, <1>4, <3>1, Running DEF AsyncOK
  <2>2. Tracked'
    BY <1>1, <1>6, <1>7 DEF Tracked, Resent
  <2>3. cads' \in Seq({"out", "freed", "dropped"}) /\ Len(cads') = Len(cads) /\ answers' = answers /\ aborted' = aborted
    BY <1>6 DEF Resent
  <2> QED
    BY <1>1, <1>2, <2>1, <2>2, <2>3, Running DEF NextOK, CommandsOK
<1>9. RouteOK'
  BY <1>1, <1>2, <1>3, Running, SameRoute
<1> QED
  BY <1>1, <1>2, <1>8, <1>9, Running, Whole

\* The context of a node is used.
LEMMA NodeUsed ==
    ASSUME TypeOK, Tracked, NEW ns, Keyed(ns), TakenOver(ns), NEW key \in DOMAIN ns
    PROVE  /\ ns[key].acon \in Contexts \cup {None}
           /\ ns[key].acon # None => ac[ns[key].acon].life # "unused"
BY DEF Tracked, UnusedOK, Keyed, Pairs, TakenOver

\* A node without a context.
LEMMA NewNode ==
    ASSUME NEW s \in Servers
    PROVE  Node(s) \in Pairs /\ Node(s).acon = None
BY DEF Node, Pairs

\* Ask.
LEMMA AskKeeps ==
    ASSUME Inv, Ask
    PROVE  Inv'
<1> DEFINE slot == cmds[Id].slot
           s == Top.reply.server
           key == IF s \in DOMAIN nodes THEN s ELSE IF slot \in DOMAIN nodes THEN "leaked" ELSE slot
           ns == [k \in DOMAIN nodes \cup ({key} \ {"leaked"}) |-> IF k \in DOMAIN nodes THEN nodes[k] ELSE Node(s)]
           node == IF key = "leaked" THEN Node(s) ELSE ns[key]
<1>1. /\ Redirected("ask")
      /\ \E got \in actx_get_by_node(node) : Link(got, key, s, ns, data) /\ RetryAt(got, TRUE)
      /\ UNCHANGED <<cmds, calls, onDisc, asked, odd, servers, table, timer, notes, executed>>
  BY DEF Ask
<1>2. /\ AtTop("callback") /\ aborted = "no" /\ stack # <<>> /\ Top.at = "callback"
      /\ Top.reply # NULL /\ Top.reply.kind # "reply" /\ Top.c \in Contexts /\ Top.reply \in Results
      /\ Top.reply.kind = "ask"
      /\ retries' \in Seq(Nat) /\ Len(retries') = Len(cads)
  BY <1>1, RedirectedDoes
<1>3. s \in Servers
  BY <1>2 DEF Results, Replies
<1>4. Keyed(nodes) /\ OnContexts(data) /\ table \in Routes /\ timer \in BOOLEAN
      /\ ("freed" \notin notes => \A sl \in Slots : table[sl] \in DOMAIN nodes)
  BY <1>2, Running DEF RouteOK
<1>5. Node(s) \in Pairs /\ Node(s).acon = None
  BY <1>3, NewNode
<1>6. PICK v : v = Node(s)
  OBVIOUS
<1>7. /\ DOMAIN nodes \subseteq DOMAIN ns
      /\ \A k \in DOMAIN ns : ns[k] = IF k \in DOMAIN nodes THEN nodes[k] ELSE v
      /\ ns = [k \in DOMAIN ns |-> ns[k]]
      /\ key # "leaked" => key \in DOMAIN ns
  BY <1>6
<1> HIDE DEF slot, s, key, ns
<1>8. Keyed(ns)
  BY <1>4, <1>5, <1>6, <1>7 DEF Keyed
<1>9. TakenOver(ns)
  BY <1>5, <1>6, <1>7 DEF TakenOver
<1>10. /\ node.acon \in Contexts \cup {None}
       /\ node.acon # None => ac[node.acon].life # "unused"
  <2>1. CASE key = "leaked"
    BY <1>5, <2>1
  <2>2. CASE key # "leaked"
    BY <1>2, <1>7, <1>8, <1>9, <2>2, Running, NodeUsed
  <2> QED
    BY <2>1, <2>2
<1> HIDE DEF node
<1>11. PICK got \in actx_get_by_node(node) : Link(got, key, s, ns, data) /\ RetryAt(got, TRUE)
  BY <1>1
<1>12. PICK ds : ds = data
  OBVIOUS
<1>13. NextOK /\ Keyed(nodes') /\ DOMAIN nodes' = DOMAIN ns /\ OnContexts(data')
  BY <1>1, <1>2, <1>3, <1>4, <1>8, <1>9, <1>10, <1>11, Running, RetryAtDoes
<1>14. RouteOK'
  BY <1>1, <1>4, <1>7, <1>13 DEF RouteOK
<1> QED
  BY <1>1, <1>2, <1>13, <1>14, Running, Whole

\* The nodes of the new route (cluster_nodes_swap_ctx).
LEMMA SwappedNodes ==
    ASSUME TypeOK, NEW t \in Routes
    PROVE  /\ Keyed(Swapped(t)) /\ TakenOver(Swapped(t)) /\ DOMAIN Swapped(t) = Listed(t)
           /\ \A slot \in Slots : t[slot] \in Listed(t) /\ t[slot] \in Servers
<1>1. Listed(t) \subseteq Servers /\ \A slot \in Slots : t[slot] \in Listed(t) /\ t[slot] \in Servers
  BY DEF Listed, Routes, Range
<1>2. Keyed(nodes)
  BY DEF TypeOK, RouteOK
<1>3. ASSUME NEW s \in Listed(t)
      PROVE  /\ Swapped(t)[s] \in Pairs
             /\ Swapped(t)[s].acon # None => \E j \in DOMAIN nodes : nodes[j].acon = Swapped(t)[s].acon
  <2>1. Node(s) \in Pairs /\ Node(s).acon = None
    BY <1>1, <1>3, NewNode
  <2>2. CASE s \in DOMAIN nodes
    <3> DEFINE v == [Node(s) EXCEPT !.acon = nodes[s].acon]
    <3>1. nodes[s].acon \in Contexts \cup {None}
      BY <1>2, <2>2 DEF Keyed, Pairs
    <3>2. v \in Pairs /\ v.acon = nodes[s].acon
      BY <2>1, <3>1 DEF Pairs
    <3>3. Swapped(t)[s] = v
      BY <1>3, <2>2 DEF Swapped
    <3> QED
      BY <2>2, <3>2, <3>3
  <2>3. CASE s \notin DOMAIN nodes
    <3>1. Swapped(t)[s] = Node(s)
      BY <1>3, <2>3 DEF Swapped
    <3> QED
      BY <2>1, <3>1
  <2> QED
    BY <2>2, <2>3
<1>4. DOMAIN Swapped(t) = Listed(t) /\ Swapped(t) = [k \in DOMAIN Swapped(t) |-> Swapped(t)[k]]
  BY DEF Swapped
<1> QED
  BY <1>1, <1>3, <1>4 DEF Keyed, TakenOver

\* Install.
LEMMA InstallKeeps ==
    ASSUME Inv, Install
    PROVE  Inv'
<1> DEFINE t == Top.table
           ns == Swapped(t)
           ds == DataAfter(t)
           key == t[cmds[Id].slot]
<1>1. /\ AtTop("route") /\ table' = t
      /\ UNCHANGED <<cmds, calls, onDisc, asked, odd, servers, retries, notes, executed>>
      /\ IF Top.reply = NULL
         THEN /\ nodes' = ns /\ data' = ds
              /\ timer' = FALSE
              /\ Done(ac[Top.c].err)
              /\ UNCHANGED <<ac, net, spent, cads>>
         ELSE /\ \E got \in actx_get_by_node(ns[key]) : Link(got, key, key, ns, ds) /\ RetryAt(got, FALSE)
              /\ UNCHANGED timer
  BY DEF Install
<1>2. /\ aborted = "no" /\ stack # <<>> /\ Top.at = "route" /\ Pending(Top)
      /\ Top.c \in Contexts /\ Id \in 1 .. Len(cads) /\ Top.reply \in Results
      /\ Len(stack) \in 1 .. Len(stack) /\ Top = stack[Len(stack)] /\ t \in Routes
  BY <1>1, InCommand
<1>3. /\ Keyed(ns) /\ TakenOver(ns) /\ DOMAIN ns = Listed(t)
      /\ \A slot \in Slots : t[slot] \in Listed(t) /\ t[slot] \in Servers
  BY <1>2, Running, SwappedNodes
<1>4. OnContexts(ds)
  BY DEF DataAfter, OnContexts
<1>5. key \in DOMAIN ns /\ key \in Servers
  BY <1>2, <1>3, Running, UserCommand
<1>6. timer \in BOOLEAN
  BY <1>2, Running DEF RouteOK
<1> HIDE DEF t, ns, ds, key
<1>7. NextOK /\ Keyed(nodes') /\ DOMAIN nodes' = DOMAIN ns /\ OnContexts(data') /\ timer' \in BOOLEAN
  <2>1. CASE Top.reply = NULL
    <3>1. /\ nodes' = ns /\ data' = ds /\ timer' = FALSE /\ Done(ac[Top.c].err)
          /\ UNCHANGED <<ac, net, spent, cads>>
      BY <1>1, <2>1
    <3>2. ac[Top.c].err \in BOOLEAN
      BY <1>2, Running DEF ContextsOK, IsContext
    <3>3. Keyed(nodes') /\ TakenOver(nodes')
      BY <1>3, <3>1
    <3>4. NextOK
      BY <1>1, <1>2, <3>1, <3>2, <3>3, Running, DoneStep
    <3> QED
      BY <1>4, <3>1, <3>3, <3>4
  <2>2. CASE Top.reply # NULL
    <3>1. PICK got \in actx_get_by_node(ns[key]) : Link(got, key, key, ns, ds) /\ RetryAt(got, FALSE)
      BY <1>1, <2>2
    <3>2. timer' = timer
      BY <1>1, <2>2
    <3>3. Top.reply.kind # "reply"
      BY <1>2, Running DEF Tracked, TokensOK, RepliesTrue
    <3>4. PICK node : node = ns[key]
      OBVIOUS
    <3>5. node.acon \in Contexts \cup {None} /\ (node.acon # None => ac[node.acon].life # "unused")
      BY <1>2, <1>3, <1>5, <3>4, Running, NodeUsed
    <3>6. got \in actx_get_by_node(node)
      BY <3>4
    <3>7. NextOK /\ Keyed(nodes') /\ DOMAIN nodes' = DOMAIN ns /\ OnContexts(data')
      BY <1>1, <1>2, <1>3, <1>4, <1>5, <2>2, <3>1, <3>3, <3>5, <3>6, Running, RetryAtDoes
    <3> QED
      BY <1>6, <3>2, <3>7
  <2> QED
    BY <2>1, <2>2
<1>8. RouteOK'
  <2>1. table' \in Routes /\ \A slot \in Slots : table'[slot] \in DOMAIN nodes'
    BY <1>1, <1>2, <1>3, <1>7
  <2> QED
    BY <1>7, <2>1 DEF RouteOK
<1>9. UNCHANGED <<cmds, executed, calls, retries, servers>>
  BY <1>1
<1> QED
  BY <1>2, <1>7, <1>8, <1>9, Running, Whole

-----------------------------------------------------------------------------
(***************************************************************************)
(* The library.                                                            *)
(***************************************************************************)
\* The whole of the invariant, after a step of the library.
LEMMA LibraryWhole ==
    ASSUME Inv, aborted = "no", AsyncOK', aborted' = "no" => Tracked', calls' \in Seq(Seq(Results)),
           Len(calls') = Len(cads), UNCHANGED <<servers, route, client, executed, cmds>>
    PROVE  Inv'
<1>1. UNCHANGED <<owner, before, importing, useSlots, nodes, table, data, timer, accErr, retries, cads, answers, notes>>
  BY DEF servers, route, client
<1>2. CommandsOK'
  BY <1>1, Running DEF CommandsOK
<1>3. RouteOK'
  BY <1>1, Running, SameRoute
<1>4. ServersOK'
  BY <1>1 DEF Inv, TypeOK, ServersOK
<1>5. TypeOK'
  BY <1>2, <1>3, <1>4 DEF TypeOK, AsyncOK
<1>6. ExecOK(Len(cads'), executed', answers')
  BY <1>1 DEF Inv
<1> QED
  BY <1>5, <1>6 DEF Inv

\* The first callback of a context is taken, and called with a reply if it is
\* not NULL.
LEMMA TakenStep ==
    ASSUME Inv, aborted = "no", NEW c \in Contexts, ac[c].replies # <<>>, ContextsOK(ac'), OthersSame(ac, ac', c),
           ac'[c].life = ac[c].life, ac'[c].replies = Tail(ac[c].replies), UNCHANGED <<net, nodes, executed, cads, accErr>>,
           c \in Frees(stack) \/ LineOK(ac'[c], net[c], executed), NEW st, StackOK(st, Len(cads)), Goes(stack, st),
           NEW reply \in Results, reply # NULL => reply.id = Head(ac[c].replies).id /\ Told(reply, executed),
           Called(c, Head(ac[c].replies), reply, st), StackOK(stack', Len(cads))
    PROVE  AsyncOK' /\ Tracked'
<1> DEFINE cb == Head(ac[c].replies)
           n == Len(cads)
<1>1. TokensOK(ac, net, stack, executed) /\ UnusedOK(ac, net, nodes, stack) /\ n \in Nat /\ IdsOK(ac, n)
      /\ ContextsOK(ac)
  BY Running DEF Tracked, TypeOK
<1>2. /\ ac[c].replies \in Seq(Callbacks) /\ cb \in Callbacks /\ Len(ac[c].replies) \in Nat \ {0}
      /\ Len(ac'[c].replies) = Len(ac[c].replies) - 1
      /\ \A k \in 1 .. Len(ac[c].replies) - 1 : ac'[c].replies[k] = ac[c].replies[k + 1]
  BY <1>1, FirstCallback
<1>3. OwnsOK(ac', stack) /\ (cb.id # 0 => ~Held(ac', cb.id) /\ ~InCall(stack, cb.id))
  <2>1. OwnsOK(ac, stack)
    BY <1>1 DEF TokensOK
  <2>2. \A d \in Contexts : d # c => ac'[d].replies = ac[d].replies
    BY DEF OthersSame
  <2> QED
    BY <1>2, <2>1, <2>2, OwnsTaken
<1>4. LinesOK(ac', net, stack, executed)
  BY <1>1 DEF TokensOK, LinesOK, OthersSame
<1>5. TokensOK(ac', net, stack, executed)
  BY <1>1, <1>3, <1>4 DEF TokensOK
<1>6. TokensOK(ac', net, st, executed)
  BY <1>5, TokensCalm
<1>7. ~InCall(st, cb.id) \/ cb.id = 0
  BY <1>3 DEF InCall, Goes, Within
<1>8. ac[c].life # "unused"
  BY <1>1 DEF UnusedOK, Blank
<1>9. IdsOK(ac', n)
  <2>1. ASSUME NEW d \in Contexts, NEW b \in Waits(ac'[d])
        PROVE  b \in Waits(ac[d]) \/ b.id \in 0 .. n
    <3>1. CASE d # c
      BY <2>1, <3>1 DEF OthersSame
    <3>2. CASE d = c
      <4>1. PICK k \in 1 .. Len(ac'[c].replies) : b = ac'[c].replies[k]
        BY <2>1, <3>2 DEF Waits
      <4> DEFINE l == Len(ac[c].replies)
      <4>2. k \in 1 .. l - 1 /\ l \in Nat
        BY <1>2, <4>1
      <4> HIDE DEF l
      <4>3. k + 1 \in 1 .. l
        BY <4>2
      <4>4. b = ac[c].replies[k + 1]
        BY <1>2, <4>1, <4>2 DEF l
      <4> QED
        BY <3>2, <4>3, <4>4 DEF Waits, l
    <3> QED
      BY <3>1, <3>2
  <2> QED
    BY <1>1, <2>1, IdsKept
<1>10. \A p \in 1 .. Len(st) : Pending(st[p]) => ac[st[p].c].life # "unused" /\ st[p].c \in Contexts
  <2>1. ASSUME NEW p \in 1 .. Len(st), Pending(st[p])
        PROVE  ac[st[p].c].life # "unused" /\ st[p].c \in Contexts
    <3>1. p \in 1 .. Len(stack) /\ Pending(stack[p]) /\ st[p].c = stack[p].c
      BY <2>1 DEF Goes, Within
    <3>2. st[p] \in Frames
      BY <2>1 DEF StackOK
    <3> QED
      BY <1>1, <2>1, <3>1, <3>2, FrameFields DEF UnusedOK, Pending
  <2> QED
    BY <2>1
<1>11. \A d \in Contexts : ac'[d].life = ac[d].life
  BY DEF OthersSame
<1>12. TokensOK(ac', net, stack', executed)
       /\ \A p \in 1 .. Len(stack') : Pending(stack'[p]) => ac'[stack'[p].c].life # "unused"
  <2>1. CASE ~cb.fn
    <3>1. stack' = st
      BY <2>1 DEF Called
    <3> QED
      BY <1>6, <1>10, <1>11, <3>1
  <2>2. CASE cb.fn
    <3>1. PICK f : f = CallbackFrame(c, cb, reply)
      OBVIOUS
    <3>2. stack' = Append(st, f) /\ f \in Frames /\ cb.id \in 1 .. n
      BY <2>2, <3>1 DEF Called
    <3>3. f.at = "callback" /\ f.c = c /\ f.cb = cb /\ f.reply = reply
      BY <3>1 DEF CallbackFrame
    <3>4. cb.id # 0
      BY <1>2, <2>2, CallbackForms
    <3>5. TokensOK(ac', net, Append(st, f), executed)
      BY <1>1, <1>3, <1>6, <1>7, <3>2, <3>3, <3>4, TokensCalled
    <3>6. /\ Len(st) \in Nat
          /\ Len(Append(st, f)) = Len(st) + 1
          /\ Append(st, f)[Len(st) + 1] = f
          /\ \A p \in 1 .. Len(st) : Append(st, f)[p] = st[p]
      BY <1>1, <3>2, <3>3, StackPushed
    <3>7. ASSUME NEW p \in 1 .. Len(stack'), Pending(stack'[p])
          PROVE  ac'[stack'[p].c].life # "unused"
      <4>1. p \in 1 .. Len(st) \/ p = Len(st) + 1
        BY <3>2, <3>6
      <4>2. CASE p \in 1 .. Len(st)
        BY <1>10, <1>11, <3>2, <3>6, <3>7, <4>2
      <4>3. CASE p = Len(st) + 1
        BY <1>8, <1>11, <3>2, <3>3, <3>6, <4>3
      <4> QED
        BY <4>1, <4>2, <4>3
    <3> QED
      BY <3>2, <3>5, <3>7
  <2> QED
    BY <2>1, <2>2
<1>13. UnusedOK(ac', net, nodes, stack')
  <2>1. ASSUME NEW d \in Contexts, ac'[d].life = "unused"
        PROVE  Blank(ac'[d], net[d]) /\ ac'[d].ev = {}
    <3>1. d # c /\ ac'[d] = ac[d]
      BY <1>8, <2>1 DEF OthersSame
    <3> QED
      BY <1>1, <2>1, <3>1 DEF UnusedOK
  <2>2. ASSUME NEW k \in DOMAIN nodes, nodes[k].acon # None
        PROVE  ac'[nodes[k].acon].life # "unused"
    <3>1. nodes[k].acon \in Contexts
      BY <2>2, Running DEF RouteOK, Keyed, Pairs
    <3> QED
      BY <1>1, <1>11, <2>2, <3>1 DEF UnusedOK
  <2> QED
    BY <1>12, <2>1, <2>2 DEF UnusedOK
<1> HIDE DEF n
<1>14. AsyncOK'
  BY <1>9, Running DEF AsyncOK, n
<1>15. Tracked'
  BY <1>12, <1>13 DEF Tracked
<1> QED
  BY <1>14, <1>15

\* FreeCallback.
LEMMA FreeCallbackKeeps ==
    ASSUME Inv, FreeCallback, UNCHANGED <<servers, route, client, executed>>
    PROVE  Inv'
<1>1. aborted = "no"
  BY DEF FreeCallback, AtTop
<1> DEFINE d == Top.c
<1>2. /\ stack # <<>> /\ Top.at = "free" /\ d \in Contexts /\ ac[d].replies # <<>>
      /\ ContextsOK(ac') /\ OthersSame(ac, ac', d)
      /\ ac'[d].life = ac[d].life /\ ac'[d].replies = Tail(ac[d].replies)
      /\ StackOK(stack', Len(cads))
      /\ calls' \in Seq(Seq(Results)) /\ Len(calls') = Len(cads)
      /\ Called(d, Head(ac[d].replies), NULL, stack)
      /\ UNCHANGED <<net, cmds, onDisc, asked, aborted, odd, spent>>
  BY <1>1, Running, FreeCallbackDoes
<1>3. PICK c \in Contexts : c = d
  BY <1>2
<1> HIDE DEF d
<1>4. c \in Frees(stack)
  <2>1. Len(stack) \in 1 .. Len(stack) /\ Top = stack[Len(stack)]
    BY <1>1, <1>2, Running, TopFrame
  <2> QED
    BY <1>2, <1>3, <2>1, FreesIn DEF d
<1>5. UNCHANGED <<nodes, cads, accErr>>
  BY DEF route, client
<1>6. NULL \in Results
  BY DEF Results
<1>7. Goes(stack, stack)
  BY NothingMoves
<1>8. AsyncOK' /\ Tracked'
  BY <1>1, <1>2, <1>3, <1>4, <1>5, <1>6, <1>7, Running, TakenStep
<1> QED
  BY <1>1, <1>2, <1>8, LibraryWhole

\* The frame of redisProcessCallbacks.
LEMMA ProcessFrames ==
    ASSUME NEW n \in Nat, NEW c \in Contexts, NEW cb \in Callbacks, NEW st, st = <<ProcessFrame(c, cb)>>
    PROVE  StackOK(st, n) /\ Frees(st) = {} /\ \A p \in 1 .. Len(st) : ~Pending(st[p])
<1>1. PICK f : f = ProcessFrame(c, cb)
  OBVIOUS
<1>2. f \in Frames /\ f.at = "process"
  BY <1>1 DEF ProcessFrame, Frames
<1>3. st \in Seq(Frames) /\ Len(st) = 1 /\ st[1] = f
  BY <1>1, <1>2
<1>4. ~Pending(f)
  BY <1>2 DEF Pending
<1> HIDE DEF ProcessFrame
<1>5. \A p \in 1 .. Len(st) : p = 1 /\ st[p] = f
  BY <1>3
<1> QED
  BY <1>2, <1>3, <1>4, <1>5 DEF StackOK, Frees

\* A stack without calls that are about commands, above the same.
LEMMA NoCalls ==
    ASSUME NEW st, NEW new, Frees(st) = {}, \A p \in 1 .. Len(new) : ~Pending(new[p])
    PROVE  Goes(st, new)
BY DEF Goes, Within

\* The stack of redisProcessCallbacks.
LEMMA Processing ==
    ASSUME Inv, AtTop("process")
    PROVE  /\ aborted = "no" /\ stack # <<>> /\ Len(stack) = 1 /\ Top = stack[1] /\ Top.c \in Contexts
           /\ Top.cb \in Callbacks
           /\ Frees(stack) = {} /\ \A p \in 1 .. Len(stack) : ~Pending(stack[p])
<1>1. aborted = "no" /\ stack # <<>> /\ Top.at = "process"
  BY DEF AtTop
<1>2. Len(stack) = 1 /\ Top = stack[Len(stack)] /\ Top.c \in Contexts /\ Top.cb \in Callbacks
  BY <1>1, Running, TopFrame
<1>3. \A p \in 1 .. Len(stack) : stack[p].at = "process"
  BY <1>1, <1>2
<1> QED
  BY <1>1, <1>2, <1>3 DEF Frees, Pending

\* A stack that is empty.
LEMMA EmptyStack ==
    ASSUME NEW n \in Nat
    PROVE  StackOK(<<>>, n) /\ Frees(<<>>) = {} /\ \A p \in 1 .. Len(<<>>) : ~Pending(<<>>[p])
BY DEF StackOK, Frees

\* The program is aborted.
LEMMA AbortWhole ==
    ASSUME Inv, aborted = "no", aborted' # "no", stack' = <<>>, ContextsOK(ac'),
           \A c \in Contexts : ac'[c].replies = ac[c].replies, net' = net, calls' \in Seq(Seq(Results)),
           Len(calls') = Len(cads), UNCHANGED <<servers, route, client, executed, cmds>>
    PROVE  Inv'
<1>1. UNCHANGED <<cads, accErr>>
  BY DEF client
<1>2. IdsOK(ac', Len(cads))
  BY Running DEF TypeOK, IdsOK, Waits
<1>3. AsyncOK'
  BY <1>1, <1>2, Running, EmptyStack DEF AsyncOK
<1> QED
  BY <1>3, LibraryWhole

\* ProcessReply.
LEMMA ProcessReplyKeeps ==
    ASSUME Inv, ProcessReply, UNCHANGED <<servers, route, client, executed>>
    PROVE  Inv'
<1>1. AtTop("process")
  BY DEF ProcessReply
<1> DEFINE d == Top.c
           r == Head(ac[d].ibuf)
           cb == Head(ac[d].replies)
<1>2. /\ aborted = "no" /\ stack # <<>> /\ d \in Contexts /\ Frees(stack) = {}
      /\ \A p \in 1 .. Len(stack) : ~Pending(stack[p])
  BY <1>1, Processing
<1>3. /\ ac[d].ibuf # <<>>
      /\ StackOK(stack', Len(cads))
      /\ calls' \in Seq(Seq(Results)) /\ Len(calls') = Len(cads)
      /\ ContextsOK(ac')
      /\ UNCHANGED <<net, cmds, onDisc, asked, odd, spent>>
      /\ \/ /\ ac[d].replies # <<>>
            /\ OthersSame(ac, ac', d)
            /\ ac'[d].life = ac[d].life /\ ac'[d].err = ac[d].err /\ ac'[d].replies = Tail(ac[d].replies)
            /\ ac'[d].obuf = ac[d].obuf /\ ac'[d].ibuf = Tail(ac[d].ibuf) /\ ac'[d].ev = ac[d].ev
            /\ Called(d, cb, r, <<ProcessFrame(d, cb)>>)
            /\ UNCHANGED aborted
         \/ ac[d].replies = <<>> /\ aborted' = "unexpected" /\ stack' = <<>> /\ UNCHANGED <<ac, calls>>
  BY <1>2, Running, ProcessReplyDoes
<1>4. PICK c \in Contexts : c = d
  BY <1>2
<1>5. UNCHANGED <<nodes, cads, accErr>>
  BY DEF route, client
<1> HIDE DEF d
<1>6. CASE ac[c].replies = <<>>
  <2>1. aborted' # "no" /\ stack' = <<>> /\ ac' = ac
    BY <1>3, <1>4, <1>6 DEF d
  <2> QED
    BY <1>2, <1>3, <2>1, AbortWhole
<1>7. CASE ac[c].replies # <<>>
  <2>1. /\ OthersSame(ac, ac', c)
        /\ ac'[c].life = ac[c].life /\ ac'[c].replies = Tail(ac[c].replies)
        /\ ac'[c].obuf = ac[c].obuf /\ ac'[c].ibuf = Tail(ac[c].ibuf)
        /\ Called(c, cb, r, <<ProcessFrame(c, cb)>>)
        /\ cb = Head(ac[c].replies) /\ r = Head(ac[c].ibuf) /\ ac[c].ibuf # <<>>
    BY <1>3, <1>4, <1>7
  <2> HIDE DEF cb, r
  <2>2. LineOK(ac[c], net[c], executed) /\ IsContext(ac[c]) /\ net[c] \in Connections
    BY <1>2, Running DEF Tracked, TokensOK, LinesOK, ContextsOK
  <2>3. LineOK(ac'[c], net[c], executed) /\ r.id = cb.id /\ Told(r, executed)
    BY <1>7, <2>1, <2>2, LineTaken
  <2>4. cb \in Callbacks /\ r \in Results
    <3>1. Head(ac[c].replies) \in Callbacks
      BY <1>2, <1>7, Running, FirstCallback DEF TypeOK
    <3>2. Head(ac[c].ibuf) \in Replies
      BY <1>2, <2>1, Running, FirstReply
    <3> QED
      BY <2>1, <3>1, <3>2 DEF Results
  <2>5. PICK st : st = <<ProcessFrame(c, cb)>>
    OBVIOUS
  <2>6. StackOK(st, Len(cads)) /\ Goes(stack, st)
    BY <1>2, <2>4, <2>5, Running, ProcessFrames, NoCalls
  <2>7. Called(c, Head(ac[c].replies), r, st)
    BY <2>1, <2>5
  <2>8. AsyncOK' /\ Tracked'
    BY <1>2, <1>3, <1>5, <1>7, <2>1, <2>3, <2>4, <2>6, <2>7, Running, TakenStep
  <2> QED
    BY <1>2, <1>3, <2>8, LibraryWhole
<1> QED
  BY <1>6, <1>7

\* A step of the library in which nothing is sent or answered.
LEMMA LibraryCalm ==
    ASSUME Inv, aborted = "no", ContextsOK(ac'), \A c \in Contexts : Rests(c), net' \in [Contexts -> Connections],
           StackOK(stack', Len(cads)), Within(stack', stack), UNCHANGED <<cmds, calls, servers, route, client, executed>>
    PROVE  Inv'
<1>1. UNCHANGED <<nodes, cads, accErr>>
  BY DEF route, client
<1>2. Keyed(nodes') /\ TakenOver(nodes')
  BY <1>1, Running, SameNodes
<1>3. accErr' \in BOOLEAN
  BY <1>1, Running
<1>4. AsyncOK' /\ Tracked'
  BY <1>1, <1>2, <1>3, Running, CalmStep
<1> QED
  BY <1>4, Running, LibraryWhole

\* The calls begin in the event loop.
LEMMA FreeFromLoop ==
    ASSUME NEW n \in Nat, NEW c, FreeCalled(<<>>, c), NEW st, Frees(st) = {}
    PROVE  StackOK(stack', n) /\ Goes(st, stack')
<1>1. StackOK(<<>>, n)
  BY EmptyStack
<1>2. StackOK(stack', n) /\ Goes(<<>>, stack')
  BY <1>1, FreeMoves
<1>3. Goes(st, <<>>)
  BY EmptyStack, NoCalls
<1> QED
  BY <1>2, <1>3, MovesJoin

\* ProcessNone.
LEMMA ProcessNoneKeeps ==
    ASSUME Inv, ProcessNone, UNCHANGED <<servers, route, client, executed>>
    PROVE  Inv'
<1>1. AtTop("process")
  BY DEF ProcessNone
<1> DEFINE d == Top.c
<1>2. /\ aborted = "no" /\ stack # <<>> /\ d \in Contexts /\ Frees(stack) = {}
  BY <1>1, Processing
<1>3. /\ ContextsOK(ac') /\ OthersSame(ac, ac', d) /\ Kept(ac[d], ac'[d])
      /\ StackOK(stack', Len(cads))
      /\ \/ stack' = <<>> /\ UNCHANGED aborted
         \/ /\ aborted' = aborted /\ FreeCalled(<<>>, d)
         \/ aborted' = "pending" /\ stack' = <<>>
      /\ UNCHANGED <<net, cmds, calls, onDisc, asked, odd, spent>>
  BY <1>2, Running, ProcessNoneDoes
<1> HIDE DEF d
<1>4. \A c \in Contexts : Kept(ac[c], ac'[c])
  BY <1>3 DEF OthersSame, Kept
<1>5. CASE aborted' = "pending" /\ stack' = <<>>
  BY <1>2, <1>3, <1>4, <1>5, Running, AbortWhole DEF Kept
<1>6. CASE stack' = <<>> \/ FreeCalled(<<>>, d)
  <2>1. Goes(stack, stack')
    <3>1. CASE stack' = <<>>
      BY <1>2, <3>1, EmptyStack, NoCalls
    <3>2. CASE FreeCalled(<<>>, d)
      BY <1>2, <3>2, Running, FreeFromLoop
    <3> QED
      BY <1>6, <3>1, <3>2
  <2>2. \A c \in Contexts : Rests(c)
    BY <1>3, <1>4, <2>1, KeptRests DEF Goes
  <2>3. Within(stack', stack) /\ net' \in [Contexts -> Connections]
    BY <1>2, <1>3, <2>1, Running DEF Goes
  <2> QED
    BY <1>2, <1>3, <2>2, <2>3, LibraryCalm
<1> QED
  BY <1>3, <1>5, <1>6

\* ConnectFails and ReadFails.
LEMMA FailsKeeps ==
    ASSUME Inv, NEW c \in Contexts, ConnectFails(c) \/ ReadFails(c), UNCHANGED <<servers, route, client, executed>>
    PROVE  Inv'
<1>1. aborted = "no"
  BY DEF ConnectFails, ReadFails, EventLoop
<1>2. /\ stack = <<>>
      /\ ContextsOK(ac') /\ OthersSame(ac, ac', c)
      /\ ac'[c].life = ac[c].life
      /\ ac'[c].replies = ac[c].replies /\ ac'[c].obuf = ac[c].obuf /\ ac'[c].ibuf = ac[c].ibuf
      /\ ac'[c].ev = ac[c].ev
      /\ StackOK(stack', Len(cads)) /\ FreeCalled(<<>>, c)
      /\ UNCHANGED <<net, cmds, calls, onDisc, asked, aborted, odd>>
  BY <1>1, Running, FailsDo
<1>3. Frees(stack) = {}
  BY <1>2, EmptyStack
<1>4. Goes(stack, stack')
  BY <1>1, <1>2, <1>3, Running, FreeFromLoop
<1>5. \A d \in Contexts : Rests(d)
  BY <1>2, <1>3 DEF Rests, OthersSame
<1> QED
  BY <1>1, <1>2, <1>4, <1>5, Running, LibraryCalm DEF Goes

\* Break.
LEMMA BreakKeeps ==
    ASSUME Inv, NEW c \in Contexts, Break(c), UNCHANGED <<servers, route, client, executed>>
    PROVE  Inv'
<1>1. aborted = "no" /\ net' = [net EXCEPT ![c].up = FALSE]
      /\ UNCHANGED <<ac, stack, cmds, calls, onDisc, asked, aborted, odd>>
  BY DEF Break, Serving, EventLoop
<1>2. net \in [Contexts -> Connections] /\ ContextsOK(ac) /\ StackOK(stack, Len(cads))
  BY <1>1, Running
<1> DEFINE x == [net[c] EXCEPT !.up = FALSE]
<1>3. net' = [net EXCEPT ![c] = x]
  BY <1>1
<1>4. net[c] \in Connections
  BY <1>2
<1>5. x \in Connections /\ x.out = net[c].out
  BY <1>4 DEF Connections
<1> HIDE DEF x
<1>6. net' \in [Contexts -> Connections] /\ \A d \in Contexts : net'[d].out = net[d].out
  BY <1>2, <1>3, <1>5
<1>7. \A d \in Contexts : Rests(d)
  BY <1>1, <1>6 DEF Rests
<1>8. Within(stack', stack)
  BY <1>1, NothingMoves DEF Goes
<1> QED
  BY <1>1, <1>2, <1>6, <1>7, <1>8, LibraryCalm

\* redisAsyncHandleRead.
LEMMA ReadKeeps ==
    ASSUME Inv, NEW c \in Contexts, redisAsyncHandleRead(c), UNCHANGED <<servers, route, client, executed>>
    PROVE  Inv'
<1>1. aborted = "no"
  BY DEF redisAsyncHandleRead, EventLoop
<1>2. /\ stack = <<>>
      /\ ContextsOK(ac') /\ OthersSame(ac, ac', c)
      /\ ac'[c].life = ac[c].life
      /\ ac'[c].replies = ac[c].replies
      /\ ac[c].ev # {}
      /\ SameThings(ac[c], net[c], ac'[c], net'[c])
      /\ net' \in [Contexts -> Connections]
      /\ \A d \in Contexts : d # c => net'[d] = net[d]
      /\ StackOK(stack', Len(cads)) /\ stack' = <<ProcessFrame(c, NullCb)>>
      /\ UNCHANGED <<cmds, calls, onDisc, asked, aborted, odd>>
  BY <1>1, Running, ReadDoes
<1>3. TokensOK(ac, net, stack, executed) /\ UnusedOK(ac, net, nodes, stack) /\ Frees(stack) = {}
  BY <1>1, <1>2, Running, EmptyStack DEF Tracked
<1>4. \A p \in 1 .. Len(stack') : ~Pending(stack'[p])
  BY <1>1, <1>2, Running, NoCallback, ProcessFrames
<1>5. Goes(stack, stack')
  BY <1>3, <1>4, NoCalls
<1>6. UNCHANGED <<nodes, cads, accErr>>
  BY DEF route, client
<1>7. TokensOK(ac', net', stack', executed)
  <2>1. ASSUME NEW d \in Contexts
        PROVE  /\ ac'[d].replies = ac[d].replies /\ SameThings(ac[d], net[d], ac'[d], net'[d])
               /\ d \in Frees(stack) => d \in Frees(stack')
    <3>1. CASE d = c
      BY <1>2, <1>3, <3>1
    <3>2. CASE d # c
      BY <1>2, <1>3, <3>2, FieldsKept DEF OthersSame
    <3> QED
      BY <3>1, <3>2
  <2> QED
    BY <1>3, <1>5, <2>1, TokensQuiet DEF Goes
<1>8. ac[c].life # "unused"
  BY <1>2, <1>3 DEF UnusedOK
<1>9. UnusedOK(ac', net', nodes, stack')
  <2>1. \A d \in Contexts : d # c => ac'[d] = ac[d]
    BY <1>2 DEF OthersSame
  <2>2. \A k \in DOMAIN nodes : nodes[k].acon # None => nodes[k].acon \in Contexts
    BY <1>1, Running DEF RouteOK, Keyed, Pairs
  <2> QED
    BY <1>2, <1>3, <1>4, <1>8, <2>1, <2>2 DEF UnusedOK
<1>10. IdsOK(ac', Len(cads))
  <2>1. \A d \in Contexts : ac'[d].replies = ac[d].replies
    BY <1>2 DEF OthersSame
  <2> QED
    BY <1>1, <2>1, Running DEF IdsOK, Waits, TypeOK
<1>11. AsyncOK'
  BY <1>1, <1>2, <1>6, <1>10, Running DEF AsyncOK
<1>12. Tracked'
  BY <1>6, <1>7, <1>9 DEF Tracked
<1> QED
  BY <1>1, <1>2, <1>11, <1>12, Running, LibraryWhole

\* The places of the answers in what is under way.
LEMMA Places ==
    ASSUME NEW x \in Nat, NEW y \in Nat, NEW w, w = x + y, NEW z \in Nat, NEW m, m = x + y + z, NEW l \in 0 .. z,
           NEW j \in 1 .. l
    PROVE  /\ w \in Nat /\ j \in Nat /\ j \in 1 .. z /\ w + j \in 1 .. m
           /\ ~(w + j <= x) /\ ~(w + j <= w) /\ (w + j) - w = j
  OBVIOUS

\* What is executed when commands are written.
LEMMA Served ==
    ASSUME Inv, aborted = "no", stack = <<>>, NEW c \in Contexts, NEW ans, Written(c, ans)
    PROVE  LET w == Len(ac[c].ibuf) + Len(net[c].out)
               n == Len(cads)
           IN  /\ \A j \in 1 .. Len(ans) :
                     /\ w + j \in 1 .. Len(ac[c].replies)
                     /\ ans[j].id = ac[c].replies[w + j].id
                     /\ ans[j].id # 0 => ans[j].id \in 1 .. n /\ executed[ans[j].id] = 0
               /\ \A j, k \in 1 .. Len(ans) : ans[j].id # 0 /\ ans[j].id = ans[k].id => j = k
               /\ \A i \in 1 .. n : executed'[i] = IF \E j \in 1 .. Len(ans) : ans[j] = Reply("reply", i) THEN 1
                                                   ELSE executed[i]
               /\ DOMAIN executed' = 1 .. n
<1> DEFINE a == ac[c]
           w == Len(a.ibuf) + Len(net[c].out)
           n == Len(cads)
           l == Len(ans)
<1>1. /\ ans \in Seq(Replies) /\ l \in 0 .. Len(a.obuf)
      /\ \A j \in 1 .. l : ans[j].id = IF a.obuf[j].kind = "asking" THEN 0 ELSE a.obuf[j].id
      /\ executed' = [i \in DOMAIN executed |-> executed[i] + Cardinality({j \in 1 .. l : ans[j] = Reply("reply", i)})]
  BY DEF Written
<1>2. LineOK(a, net[c], executed) /\ OwnsOK(ac, stack) /\ IsContext(a) /\ IdsOK(ac, n) /\ net[c] \in Connections
  <2>1. c \notin Frees(stack)
    BY EmptyStack
  <2> QED
    BY <2>1, Running DEF Tracked, TokensOK, LinesOK, ContextsOK, TypeOK
<1>3. executed \in Seq(Nat) /\ DOMAIN executed = 1 .. n /\ n \in Nat
  BY Running DEF CommandsOK
<1>4. /\ Len(a.ibuf) \in Nat /\ Len(net[c].out) \in Nat /\ Len(a.obuf) \in Nat /\ Len(a.replies) \in Nat
      /\ Len(a.replies) = Len(a.ibuf) + Len(net[c].out) + Len(a.obuf)
      /\ Size(a, net[c]) = Len(a.replies)
  BY <1>2, SizeTyped DEF LineOK, Size
<1>5. ASSUME NEW j \in 1 .. l
      PROVE  /\ w + j \in 1 .. Len(a.replies) /\ w \in Nat /\ j \in Nat
             /\ ans[j].id = a.replies[w + j].id
             /\ ans[j].id # 0 => ans[j].id \in 1 .. n /\ executed[ans[j].id] = 0
  <2> DEFINE k == w + j
             o == a.obuf
  <2>p. /\ w \in Nat /\ j \in Nat /\ j \in 1 .. Len(o) /\ k \in 1 .. Len(a.replies)
        /\ ~(k <= Len(a.ibuf)) /\ ~(k <= w) /\ k - w = j
    <3> DEFINE x == Len(a.ibuf)
               y == Len(net[c].out)
               z == Len(o)
               m == Len(a.replies)
    <3>1. x \in Nat /\ y \in Nat /\ z \in Nat /\ l \in 0 .. z /\ w = x + y /\ m = x + y + z
      BY <1>1, <1>4
    <3> HIDE DEF x, y, z, m, w, l, o
    <3>2. /\ w \in Nat /\ j \in Nat /\ j \in 1 .. z /\ w + j \in 1 .. m
          /\ ~(w + j <= x) /\ ~(w + j <= w) /\ (w + j) - w = j
      BY <3>1, Places
    <3> QED
      BY <3>2 DEF x, z, m
  <2>1. k \in 1 .. Len(a.replies) /\ j \in 1 .. Len(o)
    BY <2>p
  <2>2. At(a, net[c], k) = o[j]
    <3> HIDE DEF k, o
    <3>1. At(a, net[c], k) = a.obuf[k - w]
      BY <2>p DEF At, Thing
    <3> QED
      BY <2>p, <3>1 DEF o
  <2>3. o[j] \in Commands
    BY <1>2, <2>1 DEF IsContext
  <2> HIDE DEF k, o
  <2>4. o[j].id = a.replies[k].id /\ Told(o[j], executed)
    BY <1>2, <1>4, <2>1, <2>2 DEF LineOK
  <2>5. ans[j].id = IF o[j].kind = "asking" THEN 0 ELSE o[j].id
    BY <1>1 DEF o
  <2>6. o[j].kind # "reply" /\ (o[j].kind = "asking" => o[j].id = 0) /\ (o[j].id # 0 => executed[o[j].id] = 0)
    BY <2>3, <2>4 DEF Told, Commands
  <2>7. ans[j].id = a.replies[k].id
    BY <2>4, <2>5, <2>6
  <2>8. a.replies[k].id \in 0 .. n
    BY <1>2, <2>1 DEF IdsOK, Waits
  <2>9. a.replies[k].id # 0 => a.replies[k].id \in 1 .. n
    BY <1>3, <2>8
  <2> QED
    BY <2>p, <2>1, <2>4, <2>6, <2>7, <2>9 DEF k
<1>6. ASSUME NEW j \in 1 .. l, NEW k \in 1 .. l, ans[j].id # 0, ans[j].id = ans[k].id
      PROVE  j = k
  <2>2. /\ w \in Nat /\ j \in Nat /\ k \in Nat
        /\ w + j \in 1 .. Len(a.replies) /\ w + k \in 1 .. Len(a.replies)
        /\ ans[j].id = a.replies[w + j].id /\ ans[k].id = a.replies[w + k].id
    BY <1>5
  <2> HIDE DEF w
  <2>3. ac[c].replies[w + j].id # 0 /\ ac[c].replies[w + j].id = ac[c].replies[w + k].id
    BY <1>6, <2>2
  <2>1. w + j = w + k
    BY <1>2, <2>2, <2>3 DEF OwnsOK
  <2> QED
    BY <2>1, <2>2
<1>7. ASSUME NEW i \in 1 .. n
      PROVE  executed'[i] = IF \E j \in 1 .. l : ans[j] = Reply("reply", i) THEN 1 ELSE executed[i]
  <2> DEFINE P(j) == ans[j] = Reply("reply", i)
             S == {j \in 1 .. l : P(j)}
  <2>1. i # 0 /\ i \in Nat /\ executed[i] \in Nat
    BY <1>3
  <2>2. \A j : P(j) => ans[j].id = i
    BY DEF Reply
  <2>3. \A j, k \in 1 .. l : P(j) /\ P(k) => j = k
    BY <1>6, <2>1, <2>2
  <2>4. executed'[i] = executed[i] + Cardinality(S)
    BY <1>1, <1>3
  <2>5. Cardinality(S) = IF \E j \in 1 .. l : P(j) THEN 1 ELSE 0
    <3> HIDE DEF P, l
    <3>1. CASE \E j \in 1 .. l : P(j)
      <4>1. PICK j \in 1 .. l : P(j)
        BY <3>1
      <4>2. S = {j}
        BY <2>3, <4>1
      <4> QED
        BY <3>1, <4>2, FS_Singleton
    <3>2. CASE ~\E j \in 1 .. l : P(j)
      <4>1. S = {}
        BY <3>2
      <4> QED
        BY <3>2, <4>1, FS_EmptySet
    <3> QED
      BY <3>1, <3>2
  <2>6. (\E j \in 1 .. l : P(j)) => executed[i] = 0
    BY <1>5, <2>1, <2>2
  <2> HIDE DEF S, P
  <2>7. executed'[i] = IF \E j \in 1 .. l : P(j) THEN 1 ELSE executed[i]
    BY <2>1, <2>4, <2>5, <2>6
  <2> QED
    BY <2>7 DEF P
<1>8. DOMAIN executed' = 1 .. n
  BY <1>1, <1>3
<1> QED
  BY <1>5, <1>6, <1>7, <1>8

\* A reply that says that a command has been executed.
LEMMA ReplySays ==
    ASSUME NEW r \in Replies, r.kind = "reply"
    PROVE  r = Reply("reply", r.id)
  BY DEF Replies, Reply

\* What is executed when commands are written is what the callbacks of the
\* context wait for: every line is still told the truth.
LEMMA WrittenTokens ==
    ASSUME Inv, aborted = "no", stack = <<>>, NEW c \in Contexts, NEW ans, Written(c, ans), OthersSame(ac, ac', c),
           ac'[c].replies = ac[c].replies, \A d \in Contexts : d # c => net'[d] = net[d]
    PROVE  /\ TokensOK(ac', net', stack', executed')
           /\ executed' \in Seq(Nat) /\ Len(executed') = Len(cads)
           /\ ExecOK(Len(cads), executed', answers)
<1> DEFINE w == Len(ac[c].ibuf) + Len(net[c].out)
           n == Len(cads)
           l == Len(ans)
           rs == ac[c].replies
           said(i) == \E j \in 1 .. l : ans[j] = Reply("reply", i)
<1>1. /\ ContextsOK(ac) /\ IdsOK(ac, n) /\ net \in [Contexts -> Connections] /\ n \in Nat /\ executed \in Seq(Nat)
      /\ Len(executed) = n
      /\ OwnsOK(ac, stack) /\ (\A d \in Contexts : LineOK(ac[d], net[d], executed)) /\ ExecOK(n, executed, answers)
  BY Running, EmptyStack DEF Tracked, TokensOK, LinesOK, CommandsOK, TypeOK
<1>2. /\ \A j \in 1 .. l : /\ w + j \in 1 .. Len(rs) /\ ans[j].id = rs[w + j].id
                           /\ ans[j].id # 0 => ans[j].id \in 1 .. n /\ executed[ans[j].id] = 0
      /\ \A j, k \in 1 .. l : ans[j].id # 0 /\ ans[j].id = ans[k].id => j = k
      /\ \A i \in 1 .. n : executed'[i] = IF said(i) THEN 1 ELSE executed[i]
      /\ DOMAIN executed' = 1 .. n
  <2>1. /\ \A j \in 1 .. Len(ans) :
                     /\ w + j \in 1 .. Len(ac[c].replies)
                     /\ ans[j].id = ac[c].replies[w + j].id
                     /\ ans[j].id # 0 => ans[j].id \in 1 .. n /\ executed[ans[j].id] = 0
        /\ \A j, k \in 1 .. Len(ans) : ans[j].id # 0 /\ ans[j].id = ans[k].id => j = k
        /\ \A i \in 1 .. n : executed'[i] = IF \E j \in 1 .. Len(ans) : ans[j] = Reply("reply", i) THEN 1
                                              ELSE executed[i]
        /\ DOMAIN executed' = 1 .. n
    BY Served
  <2> QED
    BY ONLY <2>1
<1>3. stack' = stack /\ ac'[c].ibuf = ac[c].ibuf /\ ans \in Seq(Replies) /\ l \in 0 .. Len(ac[c].obuf)
  BY DEF Written
<1>4. \A i : said(i) => \E j \in 1 .. l : ans[j].id = i
  BY DEF Reply
<1>5. \A i \in 1 .. n : executed'[i] = executed[i] \/ (executed'[i] = 1 /\ said(i))
  BY <1>2
<1>6. executed' \in Seq(Nat) /\ Len(executed') = n
  <2>1. \A i \in 1 .. n : executed[i] \in Nat
    BY <1>1
  <2>2. \A i \in 1 .. n : executed'[i] \in Nat
    BY <1>5, <2>1
  <2>3. executed' = [i \in 1 .. n |-> executed'[i]]
    BY <1>1 DEF Written
  <2> HIDE DEF n
  <2> QED
    BY <1>1, <2>2, <2>3
<1>7. ExecOK(n, executed', answers)
  <2> SUFFICES ASSUME NEW i \in 1 .. n
               PROVE  executed'[i] <= 1 /\ (answers[i] = <<Reply("reply", i)>> => executed'[i] = 1)
    BY DEF ExecOK
  <2>1. executed[i] <= 1 /\ (answers[i] = <<Reply("reply", i)>> => executed[i] = 1)
    BY <1>1 DEF ExecOK
  <2> QED
    BY <1>5, <2>1
<1>8. OwnsOK(ac', stack')
  <2>1. \A d \in Contexts : ac'[d].replies = ac[d].replies
    BY DEF OthersSame
  <2> QED
    BY <1>1, <1>3, <2>1, NothingMoves, OwnsQuiet DEF Goes
<1>9. ASSUME NEW d \in Contexts, NEW k \in 1 .. Len(ac[d].replies), ac[d].replies[k].id # 0
      PROVE  \/ executed'[ac[d].replies[k].id] = executed[ac[d].replies[k].id]
             \/ d = c /\ \E j \in 1 .. l : k = w + j
  <2> DEFINE i == ac[d].replies[k].id
  <2>1. i \in 1 .. n
    <3>1. i \in 0 .. n
      BY <1>1 DEF IdsOK, Waits
    <3> HIDE DEF n, i
    <3> QED
      BY <1>1, <1>9, <3>1 DEF i
  <2>2. ASSUME said(i)
        PROVE  d = c /\ \E j \in 1 .. l : k = w + j
    <3>1. PICK j \in 1 .. l : ans[j].id = i
      BY <1>4, <2>2
    <3>2. w + j \in 1 .. Len(rs) /\ rs[w + j].id = i
      BY <1>2, <3>1
    <3> HIDE DEF w
    <3> QED
      BY <1>1, <1>9, <3>1, <3>2 DEF OwnsOK
  <2> HIDE DEF n, said, w, l
  <2> QED
    BY <1>5, <2>1, <2>2 DEF i
<1>10. LineOK(ac'[c], net'[c], executed')
  <2>1. ASSUME NEW j \in 1 .. l, ans[j].id # 0
        PROVE  executed'[ans[j].id] = IF ans[j].kind = "reply" THEN 1 ELSE 0
    <3> DEFINE i == ans[j].id
    <3>1. i \in 1 .. n /\ executed[i] = 0 /\ ans[j] \in Replies
      <4>1. ans[j] \in Replies
        BY <1>3, ElementOfSeq
      <4> QED
        BY <1>2, <2>1, <4>1
    <3>2. CASE ans[j].kind = "reply"
      <4>1. said(i)
        BY <3>1, <3>2, ReplySays
      <4> QED
        BY <1>2, <3>1, <3>2, <4>1
    <3>3. CASE ans[j].kind # "reply"
      <4>1. ~said(i)
        <5> SUFFICES ASSUME NEW k \in 1 .. l, ans[k] = Reply("reply", i)
                     PROVE  FALSE
          OBVIOUS
        <5>1. ans[k].id = i /\ ans[k].kind = "reply"
          BY DEF Reply
        <5>2. k = j
          BY <1>2, <2>1, <5>1
        <5> QED
          BY <3>3, <5>1, <5>2
      <4> QED
        BY <1>2, <3>1, <3>3, <4>1
    <3> QED
      BY <3>2, <3>3
  <2>2. \A k \in 1 .. Len(rs) : \/ rs[k].id # 0 => executed'[rs[k].id] = executed[rs[k].id]
                                \/ \E j \in 1 .. l : k = w + j
    BY <1>9
  <2>3. /\ ServedList(ac[c].ibuf, net[c].out, ac[c].obuf, net'[c].out, ac'[c].obuf, ans)
        /\ \A j \in 1 .. l : ans[j].id = IF ac[c].obuf[j].kind = "asking" THEN 0 ELSE ac[c].obuf[j].id
    BY DEF Written
  <2>4. IsContext(ac[c]) /\ net[c] \in Connections /\ LineOK(ac[c], net[c], executed)
    BY <1>1 DEF ContextsOK
  <2> QED
    <3> DEFINE ex == executed
               ey == executed'
               b == ac'[c]
               m == net'[c]
    <3>1. /\ Answering(ac[c], net[c], ex, ans, ey)
          /\ b.replies = ac[c].replies /\ b.ibuf = ac[c].ibuf
          /\ ServedList(ac[c].ibuf, net[c].out, ac[c].obuf, m.out, b.obuf, ans)
      BY <1>3, <2>1, <2>2, <2>3 DEF Answering
    <3>2. LineOK(ac[c], net[c], ex)
      BY <2>4
    <3> HIDE DEF ex, ey, b, m
    <3>3. LineOK(b, m, ey)
      BY <1>3, <2>4, <3>1, <3>2, LineWritten
    <3> QED
      BY <3>3 DEF b, m, ey
<1>11. \A d \in Contexts : LineOK(ac'[d], net'[d], executed')
  <2> SUFFICES ASSUME NEW d \in Contexts, d # c
               PROVE  LineOK(ac'[d], net'[d], executed')
    BY <1>10
  <2>1. ac'[d] = ac[d] /\ net'[d] = net[d]
    BY DEF OthersSame
  <2>2. \A k \in 1 .. Len(ac[d].replies) : ac[d].replies[k].id # 0 =>
                                            executed'[ac[d].replies[k].id] = executed[ac[d].replies[k].id]
    BY <1>9
  <2>3. LineOK(ac[d], net[d], executed')
    BY <1>1, <2>2, LineApart
  <2> QED
    BY <2>1, <2>3
<1>12. RepliesTrue(stack', executed')
  BY <1>3, EmptyStack DEF RepliesTrue
<1> QED
  BY <1>6, <1>7, <1>8, <1>11, <1>12 DEF TokensOK, LinesOK

\* redisAsyncHandleWrite.
LEMMA WriteKeeps ==
    ASSUME Inv, NEW c \in Contexts, Write(c)
    PROVE  Inv'
<1>1. TypeOK
  BY DEF Inv
<1>2. /\ aborted = "no" /\ stack = <<>>
      /\ ContextsOK(ac') /\ OthersSame(ac, ac', c)
      /\ ac'[c].life = ac[c].life /\ ac'[c].replies = ac[c].replies /\ ac[c].ev # {}
      /\ net' \in [Contexts -> Connections]
      /\ \A d \in Contexts : d # c => net'[d] = net[d]
      /\ StackOK(stack', Len(cads))
      /\ (\E ans : Written(c, ans)) \/ WriteFailed(c)
      /\ UNCHANGED <<cmds, calls, onDisc, asked, odd, spent, servers, route, client>>
  BY <1>1, WriteDoes
<1>3. /\ TypeOK /\ Tracked /\ CommandsOK /\ calls \in Seq(Seq(Results)) /\ Len(calls) = Len(cads)
      /\ Frees(stack) = {} /\ UnusedOK(ac, net, nodes, stack) /\ IdsOK(ac, Len(cads))
      /\ \A p \in 1 .. Len(stack) : ~Pending(stack[p])
  BY <1>2, Running, EmptyStack DEF Tracked, TypeOK
<1>4. ac[c].life # "unused"
  BY <1>2, <1>3 DEF UnusedOK
<1>5. UNCHANGED <<nodes, cads, accErr, answers, retries, notes, table, data, timer>>
  BY <1>2 DEF route, client
<1>6. CASE WriteFailed(c)
  <2>1. /\ ac'[c].obuf = ac[c].obuf /\ ac'[c].ibuf = ac[c].ibuf /\ FreeCalled(<<>>, c)
        /\ UNCHANGED <<net, executed, aborted>>
    BY <1>6 DEF WriteFailed
  <2>2. Goes(stack, stack')
    BY <1>3, <2>1, FreeFromLoop DEF TypeOK, CommandsOK
  <2>3. \A d \in Contexts : Rests(d)
    BY <1>2, <1>3, <1>4, <2>1 DEF Rests, OthersSame
  <2> QED
    BY <1>2, <2>1, <2>2, <2>3, LibraryCalm DEF Goes
<1>7. CASE \E ans : Written(c, ans)
  <2>1. PICK ans : Written(c, ans)
    BY <1>7
  <2>2. /\ TokensOK(ac', net', stack', executed')
        /\ executed' \in Seq(Nat) /\ Len(executed') = Len(cads)
        /\ ExecOK(Len(cads), executed', answers)
    BY <1>2, <2>1, WrittenTokens
  <2>3. stack' = stack /\ aborted' = aborted
    BY <2>1 DEF Written
  <2>4. UnusedOK(ac', net', nodes', stack')
    <3>1. \A d \in Contexts : ac'[d].life = ac[d].life
      BY <1>2 DEF OthersSame
    <3>2. \A d \in Contexts : ac[d].life = "unused" => ac'[d] = ac[d] /\ net'[d] = net[d]
      BY <1>2, <1>4 DEF OthersSame
    <3>3. \A k \in DOMAIN nodes : nodes[k].acon # None => nodes[k].acon \in Contexts
      BY <1>3 DEF TypeOK, RouteOK, Keyed, Pairs
    <3> QED
      BY <1>3, <1>5, <2>3, <3>1, <3>2, <3>3 DEF UnusedOK
  <2>5. IdsOK(ac', Len(cads))
    <3>1. \A d \in Contexts : ac'[d].replies = ac[d].replies
      BY <1>2 DEF OthersSame
    <3> QED
      BY <1>3, <3>1 DEF IdsOK, Waits
  <2>6. CommandsOK' /\ RouteOK' /\ ServersOK' /\ accErr' \in BOOLEAN
    <3>1. CommandsOK'
      BY <1>2, <1>3, <1>5, <2>2 DEF CommandsOK
    <3>2. RouteOK'
      BY <1>1, <1>5, SameRoute DEF TypeOK
    <3>3. ServersOK' /\ accErr' \in BOOLEAN
      BY <1>1, <1>2, <1>5 DEF TypeOK, ServersOK, servers
    <3> QED
      BY <3>1, <3>2, <3>3
  <2> QED
    BY <1>2, <1>5, <2>2, <2>4, <2>5, <2>6 DEF Inv, TypeOK, Tracked
<1> QED
  BY <1>2, <1>6, <1>7

-----------------------------------------------------------------------------
(***************************************************************************)
(* Contexts and nodes end, and the user's functions.                       *)
(***************************************************************************)
\* a context after __redisAsyncFree, and its connection
Ended == [Unused EXCEPT !.life = "freed"]
Closed == [NoNet EXCEPT !.up = FALSE]

\* A connection of which nothing has been used.
LEMMA OpenConnection == NoNet \in Connections /\ NoNet.out = <<>>
<1>1. PICK n : n = NoNet
  OBVIOUS
<1>2. n \in Connections /\ n.out = <<>>
  <2>0. PICK q : q = <<>>
    OBVIOUS
  <2>1. q \in Seq(Replies)
    BY <2>0
  <2>2. PICK e \in {{}}, f \in {FALSE}, g \in Servers \cup {""}, t \in BOOLEAN, u \in BOOLEAN :
           /\ e = {} /\ f = FALSE /\ g = "" /\ t = TRUE /\ u = FALSE
           /\ n = [out |-> q, up |-> t, subs |-> e, mon |-> f, peer |-> g, asking |-> u]
    <3>1. n = [out |-> q, up |-> TRUE, subs |-> {}, mon |-> FALSE, peer |-> "", asking |-> FALSE]
      BY <1>1, <2>0 DEF NoNet
    <3> QED
      BY <3>1
  <2> QED
    BY <2>0, <2>1, <2>2 DEF Connections
<1> QED
  BY <1>1, <1>2

\* Nothing is under way on a context that has been freed.
LEMMA EndedContext == IsContext(Ended) /\ Ended.life = "freed" /\ Closed \in Connections /\ Blank(Ended, Closed)
<1>1. IsContext(Ended) /\ Ended.life = "freed" /\ Ended.replies = <<>> /\ Ended.ibuf = <<>> /\ Ended.obuf = <<>>
  BY FreedContext DEF Ended
<1>2. Closed \in Connections /\ Closed.out = <<>>
  <2>1. PICK n : n = NoNet
    OBVIOUS
  <2>2. n \in Connections /\ n.out = <<>>
    BY <2>1, OpenConnection
  <2>3. PICK e \in BOOLEAN : e = FALSE
    OBVIOUS
  <2>4. PICK m : m = [n EXCEPT !.up = e]
    OBVIOUS
  <2>5. m \in Connections /\ m.out = n.out
    BY <2>2, <2>3, <2>4 DEF Connections
  <2> QED
    BY <2>1, <2>2, <2>3, <2>4, <2>5 DEF Closed
<1> QED
  BY <1>1, <1>2 DEF Blank

\* Steps in which nothing is sent or answered, and the nodes change.
LEMMA CalmWhole ==
    ASSUME Inv, aborted = "no", ContextsOK(ac'), \A c \in Contexts : Rests(c), net' \in [Contexts -> Connections],
           StackOK(stack', Len(cads)), Within(stack', stack), Keyed(nodes'), TakenOver(nodes'), accErr' \in BOOLEAN,
           RouteOK', UNCHANGED <<cmds, calls, aborted, servers, cads, retries, answers, executed>>
    PROVE  Inv'
<1>1. /\ TypeOK /\ Tracked /\ ExecOK(Len(cads), executed, answers) /\ CommandsOK
      /\ calls \in Seq(Seq(Results)) /\ Len(calls) = Len(cads)
      /\ retries \in Seq(Nat) /\ Len(retries) = Len(cads)
  BY Running
<1>2. AsyncOK' /\ Tracked'
  BY <1>1, CalmStep
<1>3. NextOK
  BY <1>1, <1>2 DEF NextOK, CommandsOK
<1> QED
  BY <1>1, <1>3, Whole

\* A context has been freed (FreeEnd).
LEMMA EndDoes ==
    ASSUME Inv, FreeEnd
    PROVE  /\ aborted = "no" /\ Top.c \in Contexts
           /\ ContextsOK(ac') /\ (\A c \in Contexts : Rests(c)) /\ net' \in [Contexts -> Connections]
           /\ StackOK(stack', Len(cads)) /\ Within(stack', stack)
           /\ UNCHANGED <<cmds, calls, aborted>>
<1> DEFINE a == Ended
           m == Closed
           n == Len(cads)
<1>1. /\ aborted = "no" /\ stack # <<>> /\ Top.at = "free" /\ stack' = Below
      /\ ac' = [ac EXCEPT ![Top.c] = a] /\ net' = [net EXCEPT ![Top.c] = m] /\ UNCHANGED <<cmds, calls, aborted>>
  BY DEF FreeEnd, AtTop, Ended, Closed
<1>2. ContextsOK(ac) /\ net \in [Contexts -> Connections] /\ StackOK(stack, n) /\ n \in Nat
  BY <1>1, Running
<1>3. Top.c \in Contexts /\ Top = stack[Len(stack)] /\ Below = SubSeq(stack, 1, Len(stack) - 1) /\ StackOK(Below, n)
  BY <1>1, <1>2, TopFrame DEF Below
<1>4. IsContext(a) /\ a.life = "freed" /\ m \in Connections /\ Blank(a, m)
  BY EndedContext
<1> HIDE DEF a, m, n
<1>5. ContextsOK(ac') /\ ac'[Top.c] = a /\ OthersSame(ac, ac', Top.c)
  <2>1. Replaced(ac, ac', Top.c, a)
    BY <1>1 DEF Replaced
  <2> QED
    BY <1>2, <1>3, <1>4, <2>1, OneContext
<1>6. net' \in [Contexts -> Connections] /\ net'[Top.c] = m /\ \A d \in Contexts : d # Top.c => net'[d] = net[d]
  BY <1>1, <1>2, <1>3, <1>4
<1>7. /\ Within(stack', stack)
      /\ \A c \in Frees(stack) : c \in Frees(stack') \/ Top.c = c
  BY <1>1, <1>2, <1>3, PopMoves
<1>8. ASSUME NEW c \in Contexts
      PROVE  Rests(c)
  <2>1. CASE c = Top.c
    BY <1>4, <1>5, <1>6, <2>1 DEF Rests
  <2>2. CASE c # Top.c
    BY <1>5, <1>6, <1>7, <2>2 DEF Rests, OthersSame
  <2> QED
    BY <2>1, <2>2
<1> QED
  BY <1>1, <1>3, <1>5, <1>6, <1>7, <1>8 DEF n

\* The contexts of some nodes end.
LEMMA NodesWithout ==
    ASSUME TypeOK, NEW ns, ns = [k \in DOMAIN nodes |-> ns[k]],
           \A k \in DOMAIN nodes : ns[k] = nodes[k] \/ ns[k] = [nodes[k] EXCEPT !.acon = None]
    PROVE  Keyed(ns) /\ TakenOver(ns) /\ DOMAIN ns = DOMAIN nodes
<1>1. Keyed(nodes)
  BY DEF TypeOK, RouteOK
<1>2. DOMAIN ns = DOMAIN nodes
  OBVIOUS
<1>3. ASSUME NEW k \in DOMAIN nodes
      PROVE  ns[k] \in Pairs /\ (ns[k].acon = nodes[k].acon \/ ns[k].acon = None)
  <2>1. nodes[k] \in Pairs
    BY <1>1 DEF Keyed
  <2> QED
    BY <2>1 DEF Pairs
<1> QED
  BY <1>2, <1>3 DEF Keyed, TakenOver

\* Unlink.
LEMMA UnlinkKeeps ==
    ASSUME Inv, Unlink
    PROVE  Inv'
<1>1. FreeEnd /\ UNCHANGED <<servers, table, timer, client, executed>>
  BY DEF Unlink
<1>2. /\ aborted = "no" /\ Top.c \in Contexts
      /\ ContextsOK(ac') /\ (\A c \in Contexts : Rests(c)) /\ net' \in [Contexts -> Connections]
      /\ StackOK(stack', Len(cads)) /\ Within(stack', stack)
      /\ UNCHANGED <<cmds, calls, aborted>>
  BY <1>1, EndDoes
<1>3. TypeOK /\ RouteOK /\ accErr \in BOOLEAN
  BY <1>2, Running
<1>4. Keyed(nodes') /\ TakenOver(nodes') /\ DOMAIN nodes' = DOMAIN nodes
  <2>1. nodes = [k \in DOMAIN nodes |-> nodes[k]]
    BY <1>3 DEF RouteOK, Keyed
  <2>2. nodes' = [k \in DOMAIN nodes |-> nodes'[k]]
    BY <2>1 DEF Unlink
  <2>3. \A k \in DOMAIN nodes : nodes'[k] = nodes[k] \/ nodes'[k] = [nodes[k] EXCEPT !.acon = None]
    BY <2>1 DEF Unlink
  <2> QED
    BY <1>3, <2>2, <2>3, NodesWithout
<1>5. RouteOK'
  <2>1. OnContexts(data')
    BY <1>3 DEF Unlink, OnContexts, RouteOK
  <2> QED
    BY <1>1, <1>3, <1>4, <2>1 DEF RouteOK, client
<1> QED
  BY <1>1, <1>2, <1>3, <1>4, <1>5, CalmWhole DEF client

\* UnlinkLost and CallbackLost.
LEMMA LostKeeps ==
    ASSUME Inv, UnlinkLost \/ CallbackLost
    PROVE  Inv'
<1>1. /\ aborted = "no" /\ aborted' = "memory" /\ stack' = <<>>
      /\ UNCHANGED <<ac, net, cmds, calls, servers, route, client, executed>>
  BY DEF UnlinkLost, CallbackLost, Abort, AtTop
<1>2. ContextsOK(ac') /\ (\A c \in Contexts : ac'[c].replies = ac[c].replies) /\ calls' \in Seq(Seq(Results))
      /\ Len(calls') = Len(cads)
  BY <1>1, Running
<1> QED
  BY <1>1, <1>2, AbortWhole

\* CommandInUpdate.
LEMMA CommandInUpdateKeeps ==
    ASSUME Inv, CommandInUpdate
    PROVE  Inv'
<1>1. /\ aborted = "no" /\ aborted' = "memory" /\ stack' = <<>>
      /\ UNCHANGED <<ac, net, cmds, calls, owner, before, importing, useSlots, nodes, table, data, timer, accErr, retries,
                     cads, answers, executed, notes>>
  BY DEF CommandInUpdate, UserMayAct, Abort, servers, route, client
<1>2. TypeOK /\ CommandsOK /\ RouteOK /\ ServersOK /\ ExecOK(Len(cads), executed, answers) /\ Len(cads) \in Nat
  BY <1>1, Running DEF TypeOK
<1>3. RouteOK' /\ ServersOK' /\ CommandsOK'
  BY <1>1, <1>2 DEF RouteOK, ServersOK, CommandsOK
<1>4. StackOK(stack', Len(cads'))
  BY <1>1, <1>2, EmptyStack
<1>5. TypeOK'
  BY <1>1, <1>2, <1>3, <1>4 DEF TypeOK
<1> QED
  BY <1>1, <1>2, <1>5 DEF Inv

\* Released.
LEMMA ReleasedKeeps ==
    ASSUME Inv, Released
    PROVE  Inv'
<1>1. /\ aborted = "no" /\ stack # <<>> /\ Top.at = "release" /\ stack' = Below /\ nodes' = <<>>
      /\ data' = [c \in Contexts |-> IF data[c] \in DOMAIN nodes THEN "freed" ELSE data[c]]
      /\ notes' = notes \cup {"freed"}
      /\ UNCHANGED <<ac, net, cmds, calls, aborted, servers, table, timer, accErr, retries, cads, answers, executed>>
  BY DEF Released, AtTop
<1>2. RouteOK /\ StackOK(stack, Len(cads)) /\ Len(cads) \in Nat /\ ContextsOK(ac) /\ net \in [Contexts -> Connections]
      /\ accErr \in BOOLEAN
  BY <1>1, Running
<1>3. StackOK(stack', Len(cads)) /\ Goes(stack, stack')
  BY <1>1, <1>2, TopFrame, PopMoved DEF Top, Below
<1>4. Keyed(nodes') /\ TakenOver(nodes')
  <2>1. DOMAIN nodes' = {} /\ nodes' = [k \in {} |-> nodes'[k]]
    BY <1>1
  <2> QED
    BY <2>1 DEF Keyed, TakenOver
<1>5. RouteOK'
  BY <1>1, <1>2, <1>4 DEF RouteOK, OnContexts
<1>6. \A c \in Contexts : Rests(c)
  BY <1>1, <1>3 DEF Rests, Goes
<1> QED
  BY <1>1, <1>2, <1>3, <1>4, <1>5, <1>6, CalmWhole DEF Goes

\* Steps that only change what is known of the servers or of the user.
LEMMA AsideKeeps ==
    ASSUME Inv, RouteOK', ServersOK', accErr' \in BOOLEAN, UNCHANGED <<nodes, retries, cads, answers, executed>>,
           UNCHANGED <<ac, net, stack, cmds, calls, aborted>>
    PROVE  Inv'
<1>1. TypeOK'
  <2>1. CommandsOK'
    BY DEF Inv, TypeOK, CommandsOK
  <2>2. ContextsOK(ac') /\ IdsOK(ac', Len(cads')) /\ net' \in [Contexts -> Connections] /\ StackOK(stack', Len(cads'))
    BY DEF Inv, TypeOK
  <2> QED
    BY <2>1, <2>2 DEF TypeOK
<1>2. ExecOK(Len(cads'), executed', answers')
  BY DEF Inv
<1>3. (aborted = "no" => Tracked)'
  BY DEF Inv, Tracked
<1> QED
  BY <1>1, <1>2, <1>3 DEF Inv

\* CommandRefused.
LEMMA CommandRefusedKeeps ==
    ASSUME Inv, CommandRefused
    PROVE  Inv'
<1>1. /\ accErr' = TRUE /\ notes' = notes \cup {"refused"}
      /\ UNCHANGED <<ac, net, stack, cmds, calls, aborted, owner, before, importing, useSlots, nodes, table, data, timer,
                     retries, cads, answers, executed>>
  BY DEF CommandRefused, avars, servers, route
<1>2. RouteOK /\ ServersOK
  BY DEF Inv, TypeOK
<1>3. RouteOK' /\ ServersOK'
  BY <1>1, <1>2 DEF RouteOK, ServersOK
<1> QED
  BY <1>1, <1>3, AsideKeeps

\* Import, Take, Down and Up.
LEMMA ServersKeep ==
    ASSUME Inv, Down \/ Up \/ \E slot \in Slots : Import(slot) \/ Take(slot)
    PROVE  Inv'
<1>1. RouteOK /\ ServersOK /\ accErr \in BOOLEAN
  BY DEF Inv, TypeOK
<1>2. /\ UNCHANGED <<ac, net, stack, cmds, calls, aborted, useSlots, nodes, table, data, timer, accErr, retries, cads,
                     answers, executed>>
      /\ "freed" \in notes' <=> "freed" \in notes
  <2>1. CASE Down
    BY <2>1 DEF Down, servers, route
  <2>2. CASE Up
    BY <2>2 DEF Up, avars, servers, route
  <2>3. CASE \E slot \in Slots : Import(slot)
    BY <2>3 DEF Import, avars, route, client
  <2>4. CASE \E slot \in Slots : Take(slot)
    BY <2>4 DEF Take, avars, route, client
  <2> QED
    BY <2>1, <2>2, <2>3, <2>4
<1>3. RouteOK'
  BY <1>1, <1>2 DEF RouteOK
<1>4. ServersOK'
  <2>1. CASE Down \/ Up
    BY <1>1, <2>1 DEF Down, Up, servers, ServersOK
  <2>2. CASE \E slot \in Slots : Import(slot)
    <3>1. PICK slot \in Slots : Import(slot)
      BY <2>2
    <3>2. PICK s \in Servers : importing' = [importing EXCEPT ![slot] = s]
      BY <3>1 DEF Import
    <3> QED
      BY <1>1, <3>1, <3>2 DEF Import, ServersOK
  <2>3. CASE \E slot \in Slots : Take(slot)
    <3>1. PICK slot \in Slots : Take(slot)
      BY <2>3
    <3>2. importing[slot] \in Servers
      BY <1>1, <3>1 DEF Take, ServersOK
    <3>3. owner' \in Routes /\ before' \in Routes
      BY <1>1, <3>1, <3>2 DEF Take, ServersOK, Routes
    <3>4. importing' \in [Slots -> Servers \cup {None}]
      BY <1>1, <3>1 DEF Take, ServersOK
    <3> QED
      BY <1>1, <3>1, <3>3, <3>4 DEF Take, ServersOK
  <2> QED
    BY <2>1, <2>2, <2>3
<1> QED
  BY <1>1, <1>2, <1>3, <1>4, AsideKeeps

\* redisClusterAsyncDisconnect.
LEMMA DisconnectKeeps ==
    ASSUME Inv, redisClusterAsyncDisconnect
    PROVE  Inv'
<1> DEFINE keys == {k \in DOMAIN nodes : nodes[k].acon # None /\ ~ac[nodes[k].acon].err}
           ended == {nodes[k].acon : k \in keys}
           now == {c \in ended : "IN_CALLBACK" \notin ac[c].flags /\ ac[c].replies = <<>>}
           flagged(c) == Reflag(ac[c], ac[c].flags \cup {"DISCONNECTING"})
<1>1. /\ aborted = "no"
      /\ ac' = [c \in Contexts |-> IF c \in now THEN Ended ELSE IF c \in ended THEN flagged(c) ELSE ac[c]]
      /\ net' = [c \in Contexts |-> IF c \in now THEN Closed ELSE net[c]]
      /\ nodes' = [k \in DOMAIN nodes |-> IF k \in keys THEN [nodes[k] EXCEPT !.acon = None] ELSE nodes[k]]
      /\ notes' = notes \cup {"disconnected"}
      /\ UNCHANGED <<stack, cmds, calls, aborted, servers, table, data, timer, accErr, retries, cads, answers, executed>>
  BY DEF redisClusterAsyncDisconnect, UserMayAct, Ended, Closed, Reflag
<1>2. TypeOK /\ ContextsOK(ac) /\ net \in [Contexts -> Connections] /\ StackOK(stack, Len(cads)) /\ RouteOK
      /\ accErr \in BOOLEAN
  BY <1>1, Running
<1>3. IsContext(Ended) /\ Ended.life = "freed" /\ Closed \in Connections /\ Blank(Ended, Closed)
  BY EndedContext
<1>4. \A c \in Contexts : IsContext(ac[c]) /\ IsContext(flagged(c)) /\ Kept(ac[c], flagged(c))
  <2> SUFFICES ASSUME NEW c \in Contexts
               PROVE  IsContext(ac[c]) /\ IsContext(flagged(c)) /\ Kept(ac[c], flagged(c))
    OBVIOUS
  <2>1. IsContext(ac[c])
    BY <1>2 DEF ContextsOK
  <2>2. ac[c].flags \cup {"DISCONNECTING"} \in SUBSET Flags
    BY <2>1 DEF IsContext, Flags
  <2> QED
    BY <2>1, <2>2, ReflagTyped
<1> HIDE DEF flagged, now, ended, keys
<1>5. /\ \A c \in Contexts : ac'[c] = IF c \in now THEN Ended ELSE IF c \in ended THEN flagged(c) ELSE ac[c]
      /\ \A c \in Contexts : net'[c] = IF c \in now THEN Closed ELSE net[c]
      /\ ac' = [c \in Contexts |-> ac'[c]]
      /\ net' \in [Contexts -> Connections]
  BY <1>1, <1>2, <1>3
<1>6. ContextsOK(ac')
  BY <1>3, <1>4, <1>5 DEF ContextsOK
<1>7. \A c \in Contexts : Rests(c)
  <2> SUFFICES ASSUME NEW c \in Contexts
               PROVE  Rests(c)
    OBVIOUS
  <2>1. CASE c \in now
    BY <1>3, <1>5, <2>1 DEF Rests
  <2>2. CASE c \notin now
    <3>1. Kept(ac[c], ac'[c])
      BY <1>4, <1>5, <2>2 DEF Kept
    <3> QED
      BY <1>1, <1>5, <2>2, <3>1, KeptRests
  <2> QED
    BY <2>1, <2>2
<1>8. Within(stack', stack)
  BY <1>1, NothingMoves DEF Goes
<1>9. Keyed(nodes') /\ TakenOver(nodes') /\ DOMAIN nodes' = DOMAIN nodes
  BY <1>1, <1>2, NodesWithout
<1>10. RouteOK'
  BY <1>1, <1>2, <1>9 DEF RouteOK
<1> QED
  BY <1>1, <1>2, <1>5, <1>6, <1>7, <1>8, <1>9, <1>10, CalmWhole

\* redisClusterAsyncFree.
LEMMA FreeKeeps ==
    ASSUME Inv, redisClusterAsyncFree
    PROVE  Inv'
<1> DEFINE cs == ContextsOf(DOMAIN nodes)
           f == [at |-> "release", c |-> None]
           mid == Append(<<>>, f)
           fs == FreeFrames(SetToSeq(cs), ac')
           n == Len(cads)
<1>1. /\ aborted = "no" /\ stack = <<>>
      /\ ac' = WithFlag(cs, "FREEING")
      /\ stack' = mid \o fs
      /\ notes' = notes \cup {"ended"}
      /\ UNCHANGED <<net, cmds, calls, aborted, servers, route, accErr, retries, cads, answers, executed>>
  BY DEF redisClusterAsyncFree, EventLoop
<1>2. TypeOK /\ ContextsOK(ac) /\ net \in [Contexts -> Connections] /\ RouteOK /\ accErr \in BOOLEAN /\ n \in Nat
  BY <1>1, Running
<1>3. cs \in SUBSET Contexts
  BY <1>2 DEF ContextsOf, RouteOK, Keyed, Pairs
<1> HIDE DEF cs
<1>4. ContextsOK(ac') /\ \A c \in Contexts : Kept(ac[c], ac'[c])
  <2>1. PICK acs : acs = WithFlag(cs, "FREEING")
    OBVIOUS
  <2>2. ContextsOK(acs) /\ \A c \in Contexts : Kept(ac[c], acs[c])
    BY <1>2, <2>1, FlagGiven
  <2> QED
    BY <1>1, <2>1, <2>2
<1>5. f \in Frames /\ f.at = "release" /\ ~Pending(f)
  BY DEF Frames, Pending
<1> HIDE DEF f
<1>6. StackOK(<<>>, n) /\ Frees(<<>>) = {}
  BY <1>2, EmptyStack
<1>7. StackOK(mid, n) /\ Goes(<<>>, mid)
  BY <1>2, <1>5, <1>6, StackPushed, PushMoves
<1>8. fs \in Seq(Frames) /\ \A i \in 1 .. Len(fs) : fs[i].at = "free"
  BY <1>3, <1>4, FreedInOrder
<1> HIDE DEF mid, fs, n
<1>9. StackOK(stack', n) /\ Goes(mid, stack')
  BY <1>1, <1>2, <1>7, <1>8, StackJoined, JoinMoves
<1>10. Goes(stack, stack')
  BY <1>1, <1>7, <1>9, MovesJoin
<1>11. \A c \in Contexts : Rests(c)
  BY <1>1, <1>4, <1>10, KeptRests DEF Goes
<1>12. Keyed(nodes') /\ TakenOver(nodes')
  BY <1>1, <1>2, SameNodes DEF route
<1>13. RouteOK'
  BY <1>1, <1>2 DEF RouteOK, route
<1> QED
  BY <1>1, <1>2, <1>4, <1>9, <1>10, <1>11, <1>12, <1>13, CalmWhole DEF Goes, n

\* ex is what n commands have been executed, and ey what m commands have been:
\* there is one more
Longer(ex, n, ey, m) == ex \in Seq(Nat) /\ Len(ex) = n /\ m = n + 1 /\ ey = Append(ex, 0)

\* There is one more command, which nothing is about yet.
LEMMA OneMore ==
    ASSUME NEW n \in Nat, NEW m, NEW acs, ContextsOK(acs), IdsOK(acs, n), NEW nts, NEW st, StackOK(st, n),
           NEW ex, TokensOK(acs, nts, st, ex), NEW ey, Longer(ex, n, ey, m)
    PROVE  /\ m \in Nat \ {0} /\ IdsOK(acs, m) /\ StackOK(st, m) /\ TokensOK(acs, nts, st, ey)
           /\ ~Held(acs, m) /\ ~InCall(st, m)
<1>1. m \in Nat \ {0} /\ n \in 0 .. m /\ m \notin 0 .. n /\ \A i \in 0 .. n : i \in 0 .. m /\ (i # 0 => i \in 1 .. n)
  BY DEF Longer
<1>2. ey \in Seq(Nat) /\ Len(ey) = m /\ ey[m] = 0 /\ \A i \in 1 .. n : ey[i] = ex[i]
  BY AppendProperties DEF Longer
<1>3. \A i \in 1 .. n : i \in 1 .. m /\ i # m
  BY <1>1 DEF Longer
<1>4. IdsOK(acs, m) /\ ~Held(acs, m)
  BY <1>1 DEF IdsOK, Waits, Held
<1>5. StackOK(st, m) /\ ~InCall(st, m)
  BY <1>3 DEF StackOK, InCall
<1>6. ASSUME NEW c \in Contexts
      PROVE  c \in Frees(st) \/ LineOK(acs[c], nts[c], ey)
  <2>1. \A k \in 1 .. Len(acs[c].replies) : acs[c].replies[k].id \in 0 .. n
    BY DEF IdsOK, Waits
  <2>2. \A k \in 1 .. Len(acs[c].replies) : acs[c].replies[k].id # 0 => ey[acs[c].replies[k].id] = ex[acs[c].replies[k].id]
    BY <1>1, <1>2, <2>1
  <2>3. c \in Frees(st) \/ LineOK(acs[c], nts[c], ex)
    BY DEF TokensOK, LinesOK
  <2> QED
    BY <2>2, <2>3, LineApart
<1>7. RepliesTrue(st, ey)
  <2> SUFFICES ASSUME NEW p \in 1 .. Len(st), Pending(st[p])
               PROVE  /\ st[p].reply # NULL => st[p].reply.id = st[p].cb.id /\ Told(st[p].reply, ey)
                      /\ st[p].at = "route" => st[p].reply.kind # "reply"
    BY DEF RepliesTrue
  <2>1. st[p].cb.id \in 1 .. n
    BY DEF StackOK
  <2>2. /\ st[p].reply # NULL => st[p].reply.id = st[p].cb.id /\ Told(st[p].reply, ex)
        /\ st[p].at = "route" => st[p].reply.kind # "reply"
    BY DEF TokensOK, RepliesTrue
  <2> QED
    BY <1>2, <2>1, <2>2 DEF Told
<1> QED
  BY <1>1, <1>2, <1>4, <1>5, <1>6, <1>7 DEF TokensOK, LinesOK

\* What is kept about a new command.
LEMMA CommandsMore ==
    ASSUME CommandsOK, NEW cmd \in Commands, cmd.id = Len(cads) + 1, cmd.kind = "get",
           cmds' = Append(cmds, cmd), calls' = Append(calls, <<>>), cads' = Append(cads, "out"),
           retries' = Append(retries, 0), answers' = Append(answers, <<>>), executed' = Append(executed, 0)
    PROVE  /\ CommandsOK' /\ Len(cads') = Len(cads) + 1
           /\ \A i \in 1 .. Len(cads) : answers'[i] = answers[i]
           /\ answers'[Len(cads) + 1] = <<>>
<1> USE DEF CommandsOK
<1>1. cmds' \in Seq(Commands) /\ Len(cmds') = Len(cads) + 1 /\ cmds'[Len(cads) + 1] = cmd
      /\ \A i \in 1 .. Len(cads) : cmds'[i] = cmds[i]
  BY AppendProperties
<1>2. <<>> \in Seq(Results)
  OBVIOUS
<1>3. calls' \in Seq(Seq(Results)) /\ Len(calls') = Len(cads) + 1
  BY <1>2, AppendProperties
<1>4. answers' \in Seq(Seq(Results)) /\ Len(answers') = Len(cads) + 1 /\ answers'[Len(cads) + 1] = <<>>
      /\ \A i \in 1 .. Len(cads) : answers'[i] = answers[i]
  BY <1>2, AppendProperties
<1>5. cads' \in Seq({"out", "freed", "dropped"}) /\ Len(cads') = Len(cads) + 1
  BY AppendProperties
<1>6. retries' \in Seq(Nat) /\ Len(retries') = Len(cads) + 1
  BY AppendProperties
<1>7. executed' \in Seq(Nat) /\ Len(executed') = Len(cads) + 1
  BY AppendProperties
<1>8. \A i \in 1 .. Len(cmds') : cmds'[i].id = i /\ cmds'[i].kind = "get"
  <2> SUFFICES ASSUME NEW i \in 1 .. Len(cads) + 1
               PROVE  cmds'[i].id = i /\ cmds'[i].kind = "get"
    BY <1>1
  <2>1. CASE i = Len(cads) + 1
    BY <1>1, <2>1
  <2>2. CASE i # Len(cads) + 1
    <3>1. i \in 1 .. Len(cads)
      BY <2>2
    <3> QED
      BY <1>1, <3>1
  <2> QED
    BY <2>1, <2>2
<1> QED
  BY <1>1, <1>3, <1>4, <1>5, <1>6, <1>7, <1>8

\* redisClusterAsyncFormattedCommand.
LEMMA AsyncCommandKeeps ==
    ASSUME Inv, NEW slot \in Slots, AsyncCommand(slot)
    PROVE  Inv'
<1> DEFINE key == table[slot]
           n == Len(cads)
           m == n + 1
           cmd == Get(m, slot)
           noted == IF stack # <<>> /\ ac[Top.c].err THEN notes \cup {"in error"} ELSE notes
<1>1. /\ aborted = "no" /\ "freed" \notin notes
      /\ UNCHANGED <<stack, aborted, servers, table, timer>>
  BY DEF AsyncCommand, UserMayAct
<1>2. PICK got \in actx_get_by_node(nodes[key]) :
              /\ Link(got, key, key, nodes, data)
              /\ accErr' = got.err
              /\ IF got.err
                 THEN /\ ac' = WithContext(got)
                      /\ notes' = noted \cup {"refused"}
                      /\ UNCHANGED <<calls, cmds, cads, retries, answers, executed>>
                 ELSE /\ ac' = Sent(WithContext(got), got.c, cmd, Callback(m))
                      /\ cmds' = Append(cmds, cmd)
                      /\ calls' = Append(calls, <<>>)
                      /\ cads' = Append(cads, "out")
                      /\ retries' = Append(retries, 0)
                      /\ answers' = Append(answers, <<>>)
                      /\ executed' = Append(executed, 0)
                      /\ notes' = noted
  BY DEF AsyncCommand
<1>3. /\ TypeOK /\ Tracked /\ ExecOK(n, executed, answers)
      /\ ContextsOK(ac) /\ net \in [Contexts -> Connections] /\ StackOK(stack, n) /\ CommandsOK
      /\ RouteOK /\ accErr \in BOOLEAN /\ n \in Nat
      /\ calls \in Seq(Seq(Results)) /\ Len(calls) = n
      /\ retries \in Seq(Nat) /\ Len(retries) = n
  BY <1>1, Running
<1>4. key \in DOMAIN nodes /\ key \in Servers /\ Keyed(nodes) /\ TakenOver(nodes) /\ OnContexts(data)
  <2>1. key \in DOMAIN nodes /\ key \in Servers /\ Keyed(nodes) /\ OnContexts(data)
    BY <1>1, <1>3 DEF RouteOK, Routes
  <2>2. TakenOver(nodes)
    BY DEF TakenOver
  <2> QED
    BY <2>1, <2>2
<1>5. PICK node : node = nodes[key]
  OBVIOUS
<1>6. node.acon \in Contexts \cup {None} /\ (node.acon # None => ac[node.acon].life # "unused")
      /\ got \in actx_get_by_node(node)
  BY <1>2, <1>3, <1>4, <1>5, NodeUsed
<1>7. got.fresh => got.c \in Contexts
  BY <1>3, <1>6, GotContext
<1>8. PICK acs : acs = WithContext(got)
  OBVIOUS
<1>9. PICK ns, ds : ns = nodes /\ ds = data
  OBVIOUS
<1>10. Link(got, key, key, ns, ds) /\ Keyed(ns) /\ TakenOver(ns) /\ OnContexts(ds)
  BY <1>2, <1>4, <1>9
<1> HIDE DEF key, n, m, cmd
<1>11. net' \in [Contexts -> Connections] /\ OnContexts(data') /\ LinkedTo(ns, key, got)
  BY <1>3, <1>4, <1>7, <1>10, Linked
<1>12. (\A c \in Contexts : net'[c].out = net[c].out) /\ Keyed(nodes') /\ DOMAIN nodes' = DOMAIN nodes
  BY <1>9, <1>11 DEF LinkedTo
<1>13. /\ ContextsOK(acs) /\ IdsOK(acs, n)
       /\ TokensOK(acs, net', stack, executed)
       /\ \A c \in Contexts : acs[c].life = "unused" => acs[c] = ac[c]
       /\ got.err \in BOOLEAN /\ got.fresh \in BOOLEAN
       /\ got.fresh => got.c \in Contexts /\ acs[got.c].life # "unused"
       /\ ~got.err => got.c \in Contexts /\ acs[got.c].life # "unused"
  BY <1>3, <1>6, <1>8, <1>12, GotTokens DEF n
<1>14. GotFor(acs, got)
  BY <1>13 DEF GotFor
<1>15. Goes(stack, stack')
  BY <1>1, NothingMoves
<1>16. RouteOK'
  <2>1. "freed" \in notes' => "freed" \in notes
    <3>1. "freed" \in noted => "freed" \in notes
      <4>1. CASE stack # <<>> /\ ac[Top.c].err
        BY <4>1
      <4>2. CASE ~(stack # <<>> /\ ac[Top.c].err)
        BY <4>2
      <4> QED
        BY <4>1, <4>2
    <3> HIDE DEF noted
    <3>2. notes' = noted \cup {"refused"} \/ notes' = noted
      BY <1>2, Zenon
    <3>3. CASE notes' = noted \cup {"refused"}
      BY ONLY <3>1, <3>3
    <3>4. CASE notes' = noted
      BY ONLY <3>1, <3>4
    <3> QED
      BY <3>2, <3>3, <3>4
  <2> QED
    BY <1>1, <1>3, <1>11, <1>12, <2>1 DEF RouteOK
<1>17. CASE got.err
  <2>1. /\ ac' = acs /\ accErr' = TRUE
        /\ UNCHANGED <<calls, cmds, cads, retries, answers, executed>>
    BY <1>2, <1>8, <1>17
  <2>2. TokensOK(ac', net', stack', executed')
    BY <1>1, <1>13, <2>1
  <2>3. UnusedOK(ac', net', nodes', stack')
    <3>1. PICK c : c \notin Contexts
      BY NotThere
    <3>2. AllBut(acs, c)
      BY <2>1 DEF AllBut
    <3> QED
      BY <1>3, <1>10, <1>11, <1>14, <1>15, <3>1, <3>2, GotUnused
  <2>4. NextOK
    BY <1>1, <1>3, <1>11, <1>13, <2>1, <2>2, <2>3 DEF NextOK, AsyncOK, Tracked, CommandsOK, n
  <2> QED
    BY <1>1, <1>3, <1>16, <2>1, <2>4, Whole DEF n
<1>18. CASE ~got.err
  <2>1. /\ cmds' = Append(cmds, cmd) /\ calls' = Append(calls, <<>>) /\ cads' = Append(cads, "out")
        /\ retries' = Append(retries, 0) /\ answers' = Append(answers, <<>>) /\ executed' = Append(executed, 0)
        /\ accErr' = FALSE
    BY <1>2, <1>13, <1>18
  <2>2. PICK c \in Contexts : c = got.c
    BY <1>13, <1>18
  <2>3. SentAs(acs, ac', c, cmd, Callback(m))
    BY <1>2, <1>8, <1>18, <2>2 DEF SentAs
  <2>4. /\ m \in Nat \ {0} /\ IdsOK(acs, m) /\ StackOK(stack, m) /\ TokensOK(acs, net', stack, executed')
        /\ ~Held(acs, m) /\ ~InCall(stack, m)
        /\ executed' \in Seq(Nat) /\ Len(executed') = m /\ executed'[m] = 0 /\ \A i \in 1 .. n : executed'[i] = executed[i]
    <3>1. executed \in Seq(Nat) /\ Len(executed) = n
      BY <1>3 DEF CommandsOK, n
    <3>2. PICK ex, ey : ex = executed /\ ey = executed'
      OBVIOUS
    <3>3. TokensOK(acs, net', stack, ex)
      BY <1>13, <3>2
    <3>4. Longer(ex, n, ey, m)
      BY <2>1, <3>1, <3>2 DEF m, Longer
    <3>5. /\ m \in Nat \ {0} /\ IdsOK(acs, m) /\ StackOK(stack, m) /\ TokensOK(acs, net', stack, ey)
          /\ ~Held(acs, m) /\ ~InCall(stack, m)
      BY <1>3, <1>13, <3>3, <3>4, OneMore
    <3>6. ey \in Seq(Nat) /\ Len(ey) = m /\ ey[m] = 0 /\ \A i \in 1 .. n : ey[i] = ex[i]
      BY <1>3, <3>4, AppendProperties DEF Longer
    <3> QED
      BY <3>2, <3>5, <3>6
  <2>5. cmd \in Commands /\ cmd.id = m /\ cmd.kind = "get" /\ Told(cmd, executed')
    BY <2>4 DEF cmd, Get, Commands, Told
  <2>6. Callback(m) \in Callbacks /\ Callback(m).id = m /\ m \in 0 .. m
    BY <2>4, CommandCallback
  <2>7. /\ ContextsOK(ac') /\ OthersSame(acs, ac', c) /\ IdsOK(ac', m)
        /\ ac'[c].life = acs[c].life
        /\ TokensOK(ac', net', stack, executed')
    <3>1. PICK then, ex, cb : then = ac' /\ ex = executed' /\ cb = Callback(m)
      OBVIOUS
    <3>2. cb \in Callbacks /\ cb.id = cmd.id /\ cb.id \in 0 .. m /\ Told(cmd, ex) /\ ~Held(acs, cb.id) /\ ~InCall(stack, cb.id)
          /\ TokensOK(acs, net', stack, ex) /\ SentAs(acs, then, c, cmd, cb)
      BY <2>3, <2>4, <2>5, <2>6, <3>1
    <3>3. /\ ContextsOK(then) /\ OthersSame(acs, then, c) /\ IdsOK(then, m)
          /\ then[c].life = acs[c].life
          /\ TokensOK(then, net', stack, ex)
      BY <1>11, <1>13, <2>4, <2>5, <3>2, SentTokens
    <3> QED
      BY <3>1, <3>3
  <2>8. UnusedOK(ac', net', nodes', stack')
    <3>1. AllBut(acs, c)
      BY <2>7 DEF AllBut, OthersSame
    <3>2. acs[c].life # "unused"
      BY <1>13, <1>18, <2>2
    <3> QED
      BY <1>3, <1>10, <1>11, <1>14, <1>15, <3>1, <3>2, GotUnused
  <2>9. /\ CommandsOK' /\ Len(cads') = m
        /\ \A i \in 1 .. n : answers'[i] = answers[i]
        /\ answers'[m] = <<>>
    BY <1>3, <2>1, <2>5, CommandsMore DEF m, n
  <2>10. ExecOK(m, executed', answers')
    <3> SUFFICES ASSUME NEW i \in 1 .. m
                 PROVE  executed'[i] <= 1 /\ (answers'[i] = <<Reply("reply", i)>> => executed'[i] = 1)
      BY DEF ExecOK
    <3>1. CASE i = m
      <4>1. <<>> # <<Reply("reply", i)>>
        OBVIOUS
      <4>2. executed'[i] = 0 /\ answers'[i] = <<>>
        BY <2>4, <2>9, <3>1
      <4>3. answers'[i] # <<Reply("reply", i)>> /\ executed'[i] <= 1
        BY <4>1, <4>2
      <4> QED
        BY <4>3
    <3>2. CASE i # m
      <4>1. i \in 1 .. n
        BY <1>3, <3>2 DEF m
      <4> QED
        BY <1>3, <2>4, <2>9, <4>1 DEF ExecOK
    <3> QED
      BY <3>1, <3>2
  <2>11. ServersOK' /\ accErr' \in BOOLEAN
    BY <1>1, <1>3, <2>1 DEF TypeOK, ServersOK, servers
  <2>12. StackOK(stack', m)
    BY <1>1, <2>4
  <2>13. TokensOK(ac', net', stack', executed')
    BY <1>1, <2>7
  <2> QED
    BY <1>1, <1>11, <1>16, <2>7, <2>8, <2>9, <2>10, <2>11, <2>12, <2>13 DEF Inv, TypeOK, Tracked
<1> QED
  BY <1>13, <1>17, <1>18

-----------------------------------------------------------------------------
(***************************************************************************)
(* The theorems.                                                           *)
(***************************************************************************)
\* A context to come.
LEMMA UnusedContext == /\ IsContext(Unused) /\ Unused.life = "unused" /\ Unused.replies = <<>> /\ Unused.ibuf = <<>>
                       /\ Unused.obuf = <<>> /\ Unused.ev = {}
<1>1. PICK q : q = <<>>
    OBVIOUS
<1>2. PICK f : f = {}
    OBVIOUS
<1>3. PICK l : l = "unused"
    OBVIOUS
<1>4. PICK e : e = FALSE
    OBVIOUS
<1>5. q \in Seq(Callbacks) /\ q \in Seq(Commands) /\ q \in Seq(Replies)
    BY <1>1
<1>6. f \in SUBSET Flags /\ f \in SUBSET {"r", "w"} /\ l \in {"unused", "alive", "freed"} /\ e \in BOOLEAN
    BY <1>2, <1>3, <1>4
<1>7. PICK a : a = Unused
    OBVIOUS
<1>8. a = Context(l, f, e, q, q, q, f)
    BY <1>1, <1>2, <1>3, <1>4, <1>7, NewContexts
<1>9. /\ IsContext(a) /\ a.life = l /\ a.flags = f /\ a.err = e /\ a.replies = q /\ a.obuf = q /\ a.ibuf = q
      /\ a.ev = f
    BY <1>5, <1>6, <1>8, ContextTyped
<1> QED
    BY <1>1, <1>2, <1>3, <1>7, <1>9

\* What is true of the contexts at the beginning.
LEMMA FirstContexts ==
    ASSUME Init
    PROVE  /\ ContextsOK(ac) /\ net \in [Contexts -> Connections]
           /\ \A c \in Contexts : ac[c].life = "unused" /\ ac[c].ev = {} /\ Blank(ac[c], net[c])
<1>1. ac = [c \in Contexts |-> Unused] /\ net = [c \in Contexts |-> NoNet]
  BY DEF Init, redisClusterAsyncInitialize, AsyncInit
<1>2. /\ IsContext(Unused) /\ Unused.life = "unused" /\ Unused.replies = <<>> /\ Unused.ibuf = <<>>
      /\ Unused.obuf = <<>> /\ Unused.ev = {}
  BY UnusedContext
<1>3. NoNet \in Connections /\ NoNet.out = <<>>
  BY OpenConnection
<1>4. \A c \in Contexts : ac[c] = Unused /\ net[c] = NoNet
  BY <1>1
<1>5. ac = [c \in Contexts |-> ac[c]] /\ net \in [Contexts -> Connections]
  BY <1>1, <1>3
<1> QED
  BY <1>2, <1>3, <1>4, <1>5 DEF ContextsOK, Blank

\* What is true of the route at the beginning.
LEMMA FirstRoute ==
    ASSUME Init
    PROVE  RouteOK /\ ServersOK /\ \A k \in DOMAIN nodes : nodes[k].acon = None
<1>1. /\ useSlots \in BOOLEAN /\ timer \in BOOLEAN
      /\ nodes = [s \in Listed(FirstOwner) |-> Node(s)] /\ table = FirstOwner
      /\ owner = FirstOwner /\ before = FirstOwner /\ importing = [s \in Slots |-> None]
      /\ data = [c \in Contexts |-> None]
  BY BeginsAssumption DEF Init, redisClusterConnectNonBlock, redisClusterAsyncInitialize
<1>2. FirstOwner \in Routes
  BY ClusterAssumption DEF Routes
<1>3. Listed(FirstOwner) \subseteq Servers /\ \A slot \in Slots : FirstOwner[slot] \in Listed(FirstOwner)
  BY <1>2 DEF Listed, Routes, Range
<1>4. \A s \in Servers : Node(s) \in Pairs /\ Node(s).acon = None
  BY NewNode
<1>5. DOMAIN nodes = Listed(FirstOwner) /\ nodes = [k \in DOMAIN nodes |-> nodes[k]]
      /\ \A k \in DOMAIN nodes : nodes[k] \in Pairs /\ nodes[k].acon = None
  BY <1>1, <1>3, <1>4
<1>6. RouteOK
  BY <1>1, <1>2, <1>3, <1>5 DEF RouteOK, Keyed, OnContexts
<1>7. ServersOK
  BY <1>1, <1>2 DEF ServersOK
<1> QED
  BY <1>5, <1>6, <1>7

\* The invariant holds at the beginning.
LEMMA InitInv == Init => Inv
<1> SUFFICES ASSUME Init
             PROVE  Inv
  OBVIOUS
<1>1. /\ stack = <<>> /\ cmds = <<>> /\ calls = <<>> /\ accErr = FALSE /\ retries = <<>> /\ cads = <<>>
      /\ answers = <<>> /\ executed = <<>>
  BY DEF Init, redisClusterAsyncInitialize, AsyncInit
<1>2. /\ ContextsOK(ac) /\ net \in [Contexts -> Connections]
      /\ \A c \in Contexts : ac[c].life = "unused" /\ ac[c].ev = {} /\ Blank(ac[c], net[c])
  BY FirstContexts
<1>3. RouteOK /\ ServersOK /\ \A k \in DOMAIN nodes : nodes[k].acon = None
  BY FirstRoute
<1>4. PICK n \in Nat : n = 0
  OBVIOUS
<1>5. Len(cads) = n /\ 1 .. n = {}
  BY <1>1, <1>4
<1>6. StackOK(stack, n) /\ Frees(stack) = {} /\ \A p \in 1 .. Len(stack) : ~Pending(stack[p])
  BY <1>1, EmptyStack
<1>7. \A c \in Contexts : ac[c].replies = <<>> /\ 1 .. Len(ac[c].replies) = {}
  BY <1>2 DEF Blank
<1>8. IdsOK(ac, n)
  BY <1>7 DEF IdsOK, Waits
<1>9. CommandsOK
  BY <1>1 DEF CommandsOK
<1>10. TypeOK
  BY <1>1, <1>2, <1>3, <1>5, <1>6, <1>8, <1>9 DEF TypeOK
<1>11. TokensOK(ac, net, stack, executed)
  <2>1. OwnsOK(ac, stack)
    BY <1>6, <1>7 DEF OwnsOK
  <2>2. LinesOK(ac, net, stack, executed)
    BY <1>2, LineEmpty DEF LinesOK, Blank
  <2>3. RepliesTrue(stack, executed)
    BY <1>6 DEF RepliesTrue
  <2> QED
    BY <2>1, <2>2, <2>3 DEF TokensOK
<1>12. UnusedOK(ac, net, nodes, stack)
  BY <1>2, <1>3, <1>6 DEF UnusedOK
<1>13. ExecOK(Len(cads), executed, answers)
  BY <1>5 DEF ExecOK
<1> QED
  BY <1>10, <1>11, <1>12, <1>13 DEF Inv, Tracked

\* A step in which nothing changes.
LEMMA StutterInv ==
    ASSUME Inv, UNCHANGED vars
    PROVE  Inv'
<1>1. UNCHANGED <<nodes, retries, cads, answers, executed>> /\ UNCHANGED <<ac, net, stack, cmds, calls, aborted>>
      /\ UNCHANGED <<owner, before, importing, useSlots, table, data, timer, accErr, notes>>
  BY DEF vars, avars, servers, route, client
<1>2. RouteOK' /\ ServersOK' /\ accErr' \in BOOLEAN
  BY <1>1 DEF Inv, TypeOK, RouteOK, ServersOK
<1> QED
  BY <1>1, <1>2, AsideKeeps

\* Every step keeps the invariant.
LEMMA StepInv == Inv /\ [Next]_vars => Inv'
<1> SUFFICES ASSUME Inv, [Next]_vars
             PROVE  Inv'
  OBVIOUS
<1>1. CASE Library /\ UNCHANGED <<servers, route, client, executed>>
  BY <1>1, FreeCallbackKeeps, ProcessNoneKeeps, ProcessReplyKeeps DEF Library
<1>2. CASE UserReturns \/ Answered \/ NullCounted \/ NullTimed \/ TooMany \/ Moved \/ Install \/ Ask \/ Again
  BY <1>2, UserReturnsKeeps, AnsweredKeeps, NullCountedKeeps, NullTimedKeeps, TooManyKeeps, MovedKeeps, InstallKeeps,
     AskKeeps, AgainKeeps
<1>3. CASE CallbackLost \/ Unlink \/ UnlinkLost \/ Released
  BY <1>3, LostKeeps, UnlinkKeeps, ReleasedKeeps
<1>4. CASE user
  BY <1>4, AsyncCommandKeeps, CommandRefusedKeeps, CommandInUpdateKeeps, DisconnectKeeps, FreeKeeps DEF user
<1>5. CASE Down \/ Up \/ \E slot \in Slots : Import(slot) \/ Take(slot)
  BY <1>5, ServersKeep
<1>6. CASE \E c \in Contexts : Write(c) \/ (Event(c) /\ UNCHANGED <<servers, route, client, executed>>)
  BY <1>6, WriteKeeps, FailsKeeps, ReadKeeps, BreakKeeps DEF Event
<1>7. CASE Over \/ UNCHANGED vars
  BY <1>7, StutterInv DEF Over
<1> QED
  BY <1>1, <1>2, <1>3, <1>4, <1>5, <1>6, <1>7 DEF Next, thread

\* The invariant says that commands are executed once.
LEMMA InvExecuted == Inv => ExecutedOnce
<1> SUFFICES ASSUME Inv
             PROVE  ExecutedOnce
  OBVIOUS
<1>1. DOMAIN cads = 1 .. Len(cads)
  BY DEF Inv, TypeOK, CommandsOK
<1> QED
  BY <1>1 DEF Inv, ExecOK, ExecutedOnce

\* The types of the variables, in every state: the contexts have no
\* subscriptions, every callback that is waited for and every call is about a
\* command that was given, and every slot has a node until
\* redisClusterAsyncFree has ended.
THEOREM TypesRight == Spec => []TypeOK
<1>1. Inv => TypeOK
  BY DEF Inv
<1> QED
  BY <1>1, InitInv, StepInv, PTL DEF Spec

\* However a command is redirected, retried or lost, it is executed once at
\* most, and it has been if its callback is told so
\* (redisClusterAsyncCallback).
THEOREM OnceAtMost == Spec => []ExecutedOnce
  BY InitInv, StepInv, InvExecuted, PTL DEF Spec

=============================================================================
