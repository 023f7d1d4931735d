----------------------------- MODULE AsyncProofs -----------------------------
(***************************************************************************)
(* Proofs about AsyncClient: for any number of contexts, commands, names   *)
(* and failures, whatever the callbacks of the user do, no call of the     *)
(* library that has still to return works on a context that has been       *)
(* freed.                                                                  *)
(*                                                                         *)
(* The argument is about the stack.  It is a pile of pairs: a call of the  *)
(* library, and the callback that it is in.  While a callback of a context *)
(* has not returned the context has the flag IN_CALLBACK, and with that no *)
(* second call on the context begins; so the call that frees a context is  *)
(* the last one on it.                                                     *)
(***************************************************************************)
EXTENDS AsyncClient, TLAPS

-----------------------------------------------------------------------------
(***************************************************************************)
(* Contexts and stacks.                                                    *)
(***************************************************************************)
IsContext(a) ==
    a = [life |-> a.life, flags |-> a.flags, err |-> a.err, replies |-> a.replies, invalid |-> a.invalid,
         channels |-> a.channels, patterns |-> a.patterns, obuf |-> a.obuf, ibuf |-> a.ibuf, ev |-> a.ev]

\* ac has a context for every c, and an event only for one that is alive
ContextsOK ==
    /\ ac = [c \in Contexts |-> ac[c]]
    /\ \A c \in Contexts : IsContext(ac[c]) /\ (ac[c].ev # {} => ac[c].life = "alive")

IsSequence(s) == \E S : s \in Seq(S)

IsFrame(f) ==
    \/ f = [at |-> "process", c |-> f.c, cb |-> f.cb]
    \/ f = [at |-> "free", c |-> f.c, subs |-> f.subs]
    \/ f = [at |-> "callback", c |-> f.c, cb |-> f.cb, reply |-> f.reply]

\* what a stack st looks like when the contexts are acs
FramesOK(st, acs) ==
    \A i \in 1 .. Len(st) : IsFrame(st[i]) /\ st[i].c \in Contexts /\ acs[st[i].c].life = "alive"

\* a callback is called by the library for the same context ...
CalledByLibrary(st, acs) ==
    \A i \in 1 .. Len(st) : st[i].at = "callback" =>
        /\ i > 1
        /\ st[i - 1].at # "callback"
        /\ st[i - 1].c = st[i].c
        /\ "IN_CALLBACK" \in acs[st[i].c].flags

\* ... and the library by a callback, or by the event loop
CalledByUser(st) ==
    \A i \in 1 .. Len(st) : st[i].at # "callback" =>
        /\ i > 1 => st[i - 1].at = "callback"
        /\ st[i].at = "process" => i = 1

\* no two calls of the library work on the same context
Distinct(st) ==
    \A i, j \in 1 .. Len(st) :
        st[i].at # "callback" /\ st[j].at # "callback" /\ st[i].c = st[j].c => i = j

StackOK(st, acs) ==
    /\ IsSequence(st)
    /\ FramesOK(st, acs)
    /\ CalledByLibrary(st, acs)
    /\ CalledByUser(st)
    /\ Distinct(st)

\* The inductive invariant of NoUseAfterFree.
CallsOK == ContextsOK /\ StackOK(stack, ac)

\* A sequence that is appended to (Append).
LEMMA Appended ==
    ASSUME NEW s, IsSequence(s), NEW x
    PROVE  /\ IsSequence(Append(s, x))
           /\ Len(s) \in Nat
           /\ Len(Append(s, x)) = Len(s) + 1
           /\ Append(s, x)[Len(s) + 1] = x
           /\ \A i \in 1 .. Len(s) : Append(s, x)[i] = s[i]
<1>1. PICK S : s \in Seq(S)
    BY DEF IsSequence
<1>2. s \in Seq(S \cup {x})
    BY <1>1
<1>3. Append(s, x) \in Seq(S \cup {x})
    BY <1>2
<1> QED
    BY <1>1, <1>2, <1>3 DEF IsSequence

\* A sequence without its last element (Below).
LEMMA Shortened ==
    ASSUME NEW s, IsSequence(s), s # <<>>
    PROVE  /\ IsSequence(SubSeq(s, 1, Len(s) - 1))
           /\ Len(s) \in Nat /\ Len(s) > 0
           /\ Len(SubSeq(s, 1, Len(s) - 1)) = Len(s) - 1
           /\ \A i \in 1 .. Len(s) - 1 : SubSeq(s, 1, Len(s) - 1)[i] = s[i]
<1>1. PICK S : s \in Seq(S)
    BY DEF IsSequence
<1>2. Len(s) \in Nat /\ Len(s) > 0
    BY <1>1
<1>3. \A i \in 1 .. Len(s) - 1 : s[i] \in S
    BY <1>1, <1>2
<1>4. SubSeq(s, 1, Len(s) - 1) = [i \in 1 .. Len(s) - 1 |-> s[i]]
    BY <1>1, <1>2
<1>5. [i \in 1 .. Len(s) - 1 |-> s[i]] \in Seq(S)
    BY <1>2, <1>3
<1>6. Len([i \in 1 .. Len(s) - 1 |-> s[i]]) = Len(s) - 1
    BY <1>2
<1>7. IsSequence(SubSeq(s, 1, Len(s) - 1))
    BY <1>4, <1>5 DEF IsSequence
<1> QED
    BY <1>2, <1>4, <1>6, <1>7

-----------------------------------------------------------------------------
(***************************************************************************)
(* What calls and returns do to a stack.                                   *)
(***************************************************************************)
\* the contexts of two stages: those that live go on to live and keep IN_CALLBACK
Continued(cs, acs, then) ==
    \A c \in cs :
        /\ acs[c].life = "alive" => then[c].life = "alive"
        /\ "IN_CALLBACK" \in acs[c].flags => "IN_CALLBACK" \in then[c].flags

\* A step that only adds to the contexts leaves the stack as it should be.
LEMMA Kept ==
    ASSUME NEW st, NEW acs, NEW then, StackOK(st, acs), Continued(Contexts, acs, then)
    PROVE  StackOK(st, then)
<1>1. FramesOK(st, then)
    BY DEF StackOK, Continued, FramesOK
<1>2. CalledByLibrary(st, then)
    BY DEF StackOK, Continued, FramesOK, CalledByLibrary
<1> QED
    BY <1>1, <1>2 DEF StackOK

\* The event loop or a callback calls the library, on a context that is in no
\* callback (redisAsyncFree, redisAsyncDisconnect and the events).
LEMMA Pushed ==
    ASSUME NEW st, NEW acs, StackOK(st, acs), NEW f, IsFrame(f), f.c \in Contexts, acs[f.c].life = "alive",
           \/ st = <<>> /\ f.at = "process"
           \/ /\ f.at = "free"
              /\ st # <<>> => st[Len(st)].at = "callback" /\ "IN_CALLBACK" \notin acs[f.c].flags
    PROVE  StackOK(Append(st, f), acs)
<1> DEFINE n == Len(st)
           new == Append(st, f)
<1>1. /\ IsSequence(new) /\ n \in Nat /\ Len(new) = n + 1 /\ new[n + 1] = f
      /\ \A i \in 1 .. n : new[i] = st[i]
    BY Appended DEF StackOK
<1>2. st = <<>> => n = 0
    OBVIOUS
<1>3. st # <<>> => n > 0
    BY <1>1 DEF StackOK, IsSequence
<1> HIDE DEF n, new
<1>4. FramesOK(new, acs)
    BY <1>1 DEF StackOK, FramesOK, n
<1>5. CalledByLibrary(new, acs)
  <2> SUFFICES ASSUME NEW i \in 1 .. n + 1, new[i].at = "callback"
               PROVE  /\ i > 1
                      /\ new[i - 1].at # "callback"
                      /\ new[i - 1].c = new[i].c
                      /\ "IN_CALLBACK" \in acs[new[i].c].flags
    BY <1>1 DEF CalledByLibrary
  <2>1. i \in 1 .. n /\ new[i] = st[i]
    BY <1>1
  <2>2. /\ i > 1 /\ st[i - 1].at # "callback" /\ st[i - 1].c = st[i].c
        /\ "IN_CALLBACK" \in acs[st[i].c].flags
    BY <2>1 DEF StackOK, CalledByLibrary, n
  <2>3. i - 1 \in 1 .. n
    BY <1>1, <2>1, <2>2
  <2> QED
    BY <1>1, <2>1, <2>2, <2>3
<1>6. CalledByUser(new)
  <2> SUFFICES ASSUME NEW i \in 1 .. n + 1, new[i].at # "callback"
               PROVE  /\ i > 1 => new[i - 1].at = "callback"
                      /\ new[i].at = "process" => i = 1
    BY <1>1 DEF CalledByUser
  <2>1. CASE i \in 1 .. n
    BY <1>1, <2>1 DEF StackOK, CalledByUser, n
  <2>2. CASE i = n + 1
    BY <1>1, <1>2, <1>3, <2>2 DEF n
  <2> QED
    BY <1>1, <2>1, <2>2
<1>7. ASSUME NEW i \in 1 .. n, st[i].at # "callback"
      PROVE  st[i].c # f.c
  <2>1. st # <<>> /\ st[n].at = "callback" /\ "IN_CALLBACK" \notin acs[f.c].flags
    BY <1>1, <1>2 DEF n
  <2>2. i + 1 \in 1 .. n
    BY <1>1, <1>7, <2>1
  <2>3. st[i + 1].at = "callback"
    BY <1>1, <1>7, <2>2 DEF StackOK, CalledByUser, n
  <2> QED
    BY <1>1, <2>1, <2>2, <2>3 DEF StackOK, CalledByLibrary, n
<1>8. Distinct(new)
  <2> SUFFICES ASSUME NEW i \in 1 .. n + 1, NEW j \in 1 .. n + 1, new[i].at # "callback", new[j].at # "callback",
                      new[i].c = new[j].c
               PROVE  i = j
    BY <1>1 DEF Distinct
  <2>1. CASE i \in 1 .. n /\ j \in 1 .. n
    BY <1>1, <2>1 DEF StackOK, Distinct, n
  <2>2. CASE i = n + 1 /\ j \in 1 .. n
    BY <1>1, <1>7, <2>2
  <2>3. CASE i \in 1 .. n /\ j = n + 1
    BY <1>1, <1>7, <2>3
  <2> QED
    BY <1>1, <2>1, <2>2, <2>3
<1> QED
    BY <1>1, <1>4, <1>5, <1>6, <1>8 DEF StackOK, new

\* The library calls a callback of the context that it works on
\* (__redisRunCallback).
LEMMA Called ==
    ASSUME NEW st, NEW acs, StackOK(st, acs), NEW f, IsFrame(f), f.at = "callback",
           st # <<>>, st[Len(st)].at # "callback", st[Len(st)].c = f.c, "IN_CALLBACK" \in acs[f.c].flags
    PROVE  StackOK(Append(st, f), acs)
<1> DEFINE n == Len(st)
           new == Append(st, f)
<1>1. /\ IsSequence(new) /\ n \in Nat /\ Len(new) = n + 1 /\ new[n + 1] = f
      /\ \A i \in 1 .. n : new[i] = st[i]
    BY Appended DEF StackOK
<1>2. n > 0
    BY <1>1 DEF StackOK, IsSequence
<1> HIDE DEF n, new
<1>3. FramesOK(new, acs)
    BY <1>1, <1>2 DEF StackOK, FramesOK, n
<1>4. CalledByLibrary(new, acs)
    BY <1>1, <1>2 DEF StackOK, CalledByLibrary, n
<1>5. CalledByUser(new)
    BY <1>1, <1>2 DEF StackOK, CalledByUser, n
<1>6. Distinct(new)
    BY <1>1, <1>2 DEF StackOK, Distinct, n
<1> QED
    BY <1>1, <1>3, <1>4, <1>5, <1>6 DEF StackOK, new

\* A call returns, and only its context changes: a callback leaves it alive,
\* and the library may have freed it.
LEMMA Popped ==
    ASSUME NEW st, NEW acs, NEW then, StackOK(st, acs), st # <<>>,
           Continued(Contexts \ {st[Len(st)].c}, acs, then),
           st[Len(st)].at = "callback" => then[st[Len(st)].c].life = "alive"
    PROVE  StackOK(SubSeq(st, 1, Len(st) - 1), then)
<1> DEFINE n == Len(st)
           new == SubSeq(st, 1, n - 1)
           c == st[n].c
<1>1. /\ IsSequence(new) /\ n \in Nat /\ n > 0 /\ Len(new) = n - 1
      /\ \A i \in 1 .. n - 1 : new[i] = st[i]
    BY Shortened DEF StackOK
<1>2. ASSUME NEW i \in 1 .. n - 1, st[i].c = c
      PROVE  st[n].at = "callback" /\ st[i].at # "callback"
  <2>1. CASE st[i].at # "callback"
    <3>1. CASE st[n].at = "callback"
      BY <2>1, <3>1
    <3>2. CASE st[n].at # "callback"
      BY <1>1, <1>2, <2>1, <3>2 DEF StackOK, Distinct
    <3> QED
      BY <3>1, <3>2
  <2>2. CASE st[i].at = "callback"
    <3>1. i - 1 \in 1 .. n - 2 /\ st[i - 1].at # "callback" /\ st[i - 1].c = c
      BY <1>1, <1>2, <2>2 DEF StackOK, CalledByLibrary
    <3>2. CASE st[n].at # "callback"
      BY <1>1, <3>1, <3>2 DEF StackOK, Distinct
    <3>3. CASE st[n].at = "callback"
      <4>1. n - 1 \in 1 .. n /\ st[n - 1].at # "callback" /\ st[n - 1].c = c
        BY <1>1, <3>3 DEF StackOK, CalledByLibrary
      <4> QED
        BY <1>1, <3>1, <4>1 DEF StackOK, Distinct
    <3> QED
      BY <3>2, <3>3
  <2> QED
    BY <2>1, <2>2
<1>3. n \in 1 .. n
    BY <1>1
<1>4. \A i \in 1 .. n - 1 : i \in 1 .. n /\ i - 1 \in 0 .. n - 2
    BY <1>1
<1> HIDE DEF n, new, c
<1>5. FramesOK(new, then)
    BY <1>1, <1>2, <1>4 DEF StackOK, FramesOK, Continued, n, c
<1>6. CalledByLibrary(new, then)
  <2> SUFFICES ASSUME NEW i \in 1 .. n - 1, st[i].at = "callback"
               PROVE  /\ i > 1
                      /\ new[i - 1].at # "callback"
                      /\ new[i - 1].c = st[i].c
                      /\ "IN_CALLBACK" \in then[st[i].c].flags
    BY <1>1 DEF CalledByLibrary
  <2>1. /\ i > 1 /\ st[i - 1].at # "callback" /\ st[i - 1].c = st[i].c
        /\ "IN_CALLBACK" \in acs[st[i].c].flags
    BY <1>4 DEF StackOK, CalledByLibrary, n
  <2>2. i - 1 \in 1 .. n - 1
    BY <1>1, <2>1
  <2>3. st[i].c \in Contexts \ {c}
    BY <1>2, <1>4 DEF StackOK, FramesOK, n
  <2> QED
    BY <1>1, <2>1, <2>2, <2>3 DEF Continued, c, n
<1>7. CalledByUser(new)
    BY <1>1, <1>4 DEF StackOK, CalledByUser, n
<1>8. Distinct(new)
    BY <1>1, <1>4 DEF StackOK, Distinct, n
<1> QED
    BY <1>1, <1>5, <1>6, <1>7, <1>8 DEF StackOK, new, n

\* The library goes on with its context, to free it or with the callback of
\* the reply before (redisProcessCallbacks, __redisAsyncFree).
LEMMA Replaced ==
    ASSUME NEW st, NEW acs, StackOK(st, acs), st # <<>>, st[Len(st)].at # "callback",
           NEW f, IsFrame(f), f.c = st[Len(st)].c,
           f.at = "free" \/ (f.at = "process" /\ st[Len(st)].at = "process")
    PROVE  StackOK(Append(SubSeq(st, 1, Len(st) - 1), f), acs)
<1> DEFINE n == Len(st)
           less == SubSeq(st, 1, n - 1)
           new == Append(less, f)
<1>1. /\ IsSequence(less) /\ n \in Nat /\ n > 0 /\ Len(less) = n - 1
      /\ \A i \in 1 .. n - 1 : less[i] = st[i]
    BY Shortened DEF StackOK
<1>2. /\ IsSequence(new) /\ Len(new) = n /\ new[n] = f
      /\ \A i \in 1 .. n - 1 : new[i] = st[i]
    BY <1>1, Appended
<1>3. f.at # "callback" /\ \A i \in 1 .. n : i = n \/ i \in 1 .. n - 1
    BY <1>1
<1> HIDE DEF n, less, new
<1>4. FramesOK(new, acs)
    BY <1>1, <1>2, <1>3 DEF StackOK, FramesOK, n
<1>5. CalledByLibrary(new, acs)
  <2> SUFFICES ASSUME NEW i \in 1 .. n - 1, st[i].at = "callback"
               PROVE  /\ i > 1
                      /\ new[i - 1].at # "callback"
                      /\ new[i - 1].c = st[i].c
                      /\ "IN_CALLBACK" \in acs[st[i].c].flags
    BY <1>2, <1>3 DEF CalledByLibrary
  <2>1. /\ i > 1 /\ st[i - 1].at # "callback" /\ st[i - 1].c = st[i].c
        /\ "IN_CALLBACK" \in acs[st[i].c].flags
    BY <1>1 DEF StackOK, CalledByLibrary, n
  <2>2. i - 1 \in 1 .. n - 1
    BY <1>1, <2>1
  <2> QED
    BY <1>2, <2>1, <2>2
<1>6. CalledByUser(new)
  <2> SUFFICES ASSUME NEW i \in 1 .. n, new[i].at # "callback"
               PROVE  /\ i > 1 => new[i - 1].at = "callback"
                      /\ new[i].at = "process" => i = 1
    BY <1>2 DEF CalledByUser
  <2>1. st[i].at # "callback" /\ (new[i].at = "process" => st[i].at = "process")
    BY <1>2, <1>3 DEF n
  <2>2. (i > 1 => st[i - 1].at = "callback") /\ (new[i].at = "process" => i = 1)
    BY <2>1 DEF StackOK, CalledByUser, n
  <2>3. i > 1 => i - 1 \in 1 .. n - 1
    BY <1>1
  <2> QED
    BY <1>2, <2>2, <2>3
<1>7. \A i \in 1 .. n : new[i].c = st[i].c /\ (new[i].at = "callback" <=> st[i].at = "callback")
    BY <1>2, <1>3 DEF n
<1>8. Distinct(new)
    BY <1>2, <1>7 DEF StackOK, Distinct, n
<1> QED
    BY <1>2, <1>4, <1>5, <1>6, <1>8 DEF StackOK, new, less, n

-----------------------------------------------------------------------------
(***************************************************************************)
(* What the library does to a context that it works on.                    *)
(***************************************************************************)
\* b is what has become of the context a, which is not freed
Follows(a, b) ==
    /\ IsContext(b)
    /\ b.life = a.life
    /\ b.ev # {} => b.life = "alive"
    /\ "IN_CALLBACK" \in a.flags => "IN_CALLBACK" \in b.flags

\* One context changes, and is not freed.
LEMMA Changed ==
    ASSUME ContextsOK, NEW c \in Contexts, NEW a, Follows(ac[c], a), ac' = [ac EXCEPT ![c] = a]
    PROVE  ContextsOK' /\ Continued(Contexts, ac, ac') /\ ac'[c] = a
<1>1. /\ ac = [d \in Contexts |-> ac[d]]
      /\ \A d \in Contexts : IsContext(ac[d]) /\ (ac[d].ev # {} => ac[d].life = "alive")
    BY DEF ContextsOK
<1>2. ac'[c] = a /\ \A d \in Contexts : d # c => ac'[d] = ac[d]
    BY <1>1
<1>3. ac' = [d \in Contexts |-> ac'[d]]
    BY <1>1
<1>4. \A d \in Contexts : IsContext(ac'[d]) /\ (ac'[d].ev # {} => ac'[d].life = "alive")
    BY <1>1, <1>2 DEF Follows
<1>5. ContextsOK'
    BY <1>3, <1>4 DEF ContextsOK, IsContext
<1> QED
    BY <1>2, <1>5 DEF Follows, Continued

\* The changes of one field that the library makes (the context keeps the rest).
LEMMA FieldSet ==
    ASSUME NEW a, IsContext(a), NEW v
    PROVE  /\ \A b \in {[a EXCEPT !.flags = v]} :
                 IsContext(b) /\ b.life = a.life /\ b.ev = a.ev /\ b.flags = v
           /\ \A b \in {[a EXCEPT !.err = v], [a EXCEPT !.replies = v], [a EXCEPT !.invalid = v],
                         [a EXCEPT !.channels = v], [a EXCEPT !.patterns = v], [a EXCEPT !.obuf = v],
                         [a EXCEPT !.ibuf = v]} :
                 IsContext(b) /\ b.life = a.life /\ b.ev = a.ev /\ b.flags = a.flags
           /\ \A b \in {[a EXCEPT !.ev = v]} :
                 IsContext(b) /\ b.life = a.life /\ b.ev = v /\ b.flags = a.flags
    BY DEF IsContext

\* An error, and bytes that are read.
LEMMA SetFollows ==
    ASSUME NEW a, NEW b, Follows(a, b), NEW v
    PROVE  Follows(a, [b EXCEPT !.err = v]) /\ Follows(a, [b EXCEPT !.ibuf = v])
<1>1. \A x \in {[b EXCEPT !.err = v], [b EXCEPT !.ibuf = v]} :
         IsContext(x) /\ x.life = b.life /\ x.ev = b.ev /\ x.flags = b.flags
    BY DEF Follows, IsContext
<1>2. ASSUME NEW x, IsContext(x), x.life = b.life, x.ev = b.ev, x.flags = b.flags
      PROVE  Follows(a, x)
    BY <1>2 DEF Follows
<1> QED
    BY <1>1, <1>2

\* Flags that are added to a context.
LEMMA Flagged ==
    ASSUME NEW a, NEW b, Follows(a, b), NEW flag
    PROVE  Follows(a, [b EXCEPT !.flags = @ \cup {flag}]) /\ flag \in [b EXCEPT !.flags = @ \cup {flag}].flags
<1> DEFINE d == [b EXCEPT !.flags = b.flags \cup {flag}]
<1>1. IsContext(d) /\ d.life = b.life /\ d.ev = b.ev /\ d.flags = b.flags \cup {flag}
    BY DEF Follows, IsContext
<1> QED
    BY <1>1 DEF Follows

\* A call of the library returns, is replaced or calls a callback: the ways
\* in which the steps of the thread change the stack.
LEMMA Disconnected ==
    ASSUME ContextsOK, NEW c \in Contexts, NEW a, ac[c].life = "alive", Follows(ac[c], a),
           NEW st, Disconnect(c, a, st), StackOK(Append(st, FreeFrame(c, a)), ac)
    PROVE  CallsOK'
<1> DEFINE b == IF a.err THEN [a EXCEPT !.flags = @ \cup {"DISCONNECTING"}] ELSE a
<1>1. Follows(ac[c], b)
    BY Flagged
<1>2. ac' = [ac EXCEPT ![c] = b]
    BY DEF Disconnect
<1>3. ContextsOK' /\ Continued(Contexts, ac, ac')
    BY <1>1, <1>2, Changed
<1>4. CASE stack' = <<>>
    BY <1>3, <1>4 DEF CallsOK, StackOK, IsSequence, FramesOK, CalledByLibrary, CalledByUser, Distinct
<1>5. CASE stack' = Append(st, FreeFrame(c, a))
  <2>1. StackOK(stack', ac')
    BY <1>3, <1>5, Kept
  <2> QED
    BY <1>3, <2>1 DEF CallsOK
<1> QED
    BY <1>4, <1>5 DEF Disconnect, Abort

\* __redisRunCallback
LEMMA Ran ==
    ASSUME ContextsOK, NEW c \in Contexts, NEW a, ac[c].life = "alive", Follows(ac[c], a),
           NEW st, StackOK(st, ac), st # <<>>, st[Len(st)].at # "callback", st[Len(st)].c = c,
           NEW cb, NEW reply, RunCallback(c, a, cb, reply, st)
    PROVE  CallsOK'
<1>1. CASE cb.fn
  <2> DEFINE b == [a EXCEPT !.flags = @ \cup {"IN_CALLBACK"}]
  <2>1. Follows(ac[c], b) /\ "IN_CALLBACK" \in b.flags
    BY Flagged
  <2>2. ac' = [ac EXCEPT ![c] = b] /\ stack' = Append(st, CallbackFrame(c, cb, reply))
    BY <1>1 DEF RunCallback
  <2> HIDE DEF b
  <2>3. ContextsOK' /\ Continued(Contexts, ac, ac') /\ ac'[c] = b
    BY <2>1, <2>2, Changed
  <2>4. StackOK(st, ac')
    BY <2>3, Kept
  <2>5. IsFrame(CallbackFrame(c, cb, reply)) /\ CallbackFrame(c, cb, reply).at = "callback"
        /\ CallbackFrame(c, cb, reply).c = c
    BY DEF IsFrame, CallbackFrame
  <2>6. StackOK(stack', ac')
    BY <2>1, <2>2, <2>3, <2>4, <2>5, Called
  <2> QED
    BY <2>3, <2>6 DEF CallsOK
<1>2. CASE ~cb.fn
  <2>1. ac' = [ac EXCEPT ![c] = a] /\ stack' = st
    BY <1>2 DEF RunCallback
  <2>2. ContextsOK' /\ Continued(Contexts, ac, ac')
    BY <2>1, Changed
  <2>3. StackOK(stack', ac')
    BY <2>1, <2>2, Kept
  <2> QED
    BY <2>2, <2>3 DEF CallsOK
<1> QED
    BY <1>1, <1>2

\* A context of a frame, and the frames that the library makes.
LEMMA TopFrame ==
    ASSUME CallsOK, stack # <<>>
    PROVE  /\ IsFrame(Top) /\ Top.c \in Contexts /\ ac[Top.c].life = "alive"
           /\ IsContext(ac[Top.c]) /\ Follows(ac[Top.c], ac[Top.c])
           /\ Top.at = "callback" =>
                /\ Len(stack) > 1
                /\ Below # <<>> /\ Len(Below) = Len(stack) - 1
                /\ Below[Len(Below)] = stack[Len(stack) - 1]
                /\ stack[Len(stack) - 1].at # "callback"
                /\ stack[Len(stack) - 1].c = Top.c
<1>1. /\ Len(stack) \in Nat /\ Len(stack) > 0 /\ IsSequence(Below) /\ Len(Below) = Len(stack) - 1
      /\ \A i \in 1 .. Len(stack) - 1 : Below[i] = stack[i]
    BY Shortened DEF CallsOK, StackOK, Below
<1>2. IsFrame(Top) /\ Top.c \in Contexts /\ ac[Top.c].life = "alive"
    BY <1>1 DEF CallsOK, StackOK, FramesOK, Top
<1>3. IsContext(ac[Top.c]) /\ Follows(ac[Top.c], ac[Top.c])
    BY <1>2 DEF CallsOK, ContextsOK, Follows
<1>4. ASSUME Top.at = "callback"
      PROVE  /\ Len(stack) > 1
             /\ stack[Len(stack) - 1].at # "callback"
             /\ stack[Len(stack) - 1].c = Top.c
    BY <1>1, <1>4 DEF CallsOK, StackOK, CalledByLibrary, Top
<1>5. ASSUME Len(stack) > 1
      PROVE  Below # <<>> /\ Below[Len(Below)] = stack[Len(stack) - 1]
  <2>1. Len(Below) \in 1 .. Len(stack) - 1
    BY <1>1, <1>5
  <2>2. Below # <<>>
    BY <2>1
  <2> QED
    BY <1>1, <2>1, <2>2
<1> QED
    BY <1>1, <1>2, <1>3, <1>4, <1>5

\* Frames of the library (ProcessFrame, FreeFrame).
LEMMA LibraryFrames ==
    ASSUME NEW c, NEW a, NEW cb
    PROVE  /\ IsFrame(ProcessFrame(c, cb)) /\ ProcessFrame(c, cb).at = "process" /\ ProcessFrame(c, cb).c = c
           /\ IsFrame(FreeFrame(c, a)) /\ FreeFrame(c, a).at = "free" /\ FreeFrame(c, a).c = c
    BY DEF IsFrame, ProcessFrame, FreeFrame

-----------------------------------------------------------------------------
(***************************************************************************)
(* The steps.                                                              *)
(***************************************************************************)
\* The calls begin with an empty stack.
LEMMA InitCalls == Init => CallsOK
<1> SUFFICES ASSUME Init PROVE CallsOK
    OBVIOUS
<1>1. ac = [c \in Contexts |-> redisAsyncInitialize] /\ stack = <<>>
    BY DEF Init, AsyncInit
<1>2. IsContext(redisAsyncInitialize) /\ redisAsyncInitialize.life = "alive"
  <2>1. IsContext(Unused)
    BY DEF IsContext, Unused
  <2>2. PICK b : b = redisAsyncInitialize
    OBVIOUS
  <2>3. b = [Unused EXCEPT !.life = "alive", !.ev = {"w"}]
    BY <2>2 DEF redisAsyncInitialize
  <2>4. IsContext(b) /\ b.life = "alive"
    BY <2>1, <2>3 DEF IsContext
  <2> QED
    BY <2>2, <2>4
<1>3. ContextsOK
    BY <1>1, <1>2 DEF ContextsOK
<1>4. <<>> \in Seq({}) /\ Len(<<>>) = 0
    OBVIOUS
<1> QED
    BY <1>1, <1>3, <1>4 DEF CallsOK, StackOK, IsSequence, FramesOK, CalledByLibrary, CalledByUser, Distinct

\* __redisAsyncCommand registers a callback and leaves the context alive.
LEMMA CommandFollows ==
    ASSUME NEW a, NEW b, Follows(a, b), b.life = "alive", NEW cmd, NEW cb
    PROVE  Follows(a, redisAsyncCommand(b, cmd, cb))
<1> DEFINE Ok(x) == /\ IsContext(x) /\ x.life = "alive"
                    /\ "IN_CALLBACK" \in b.flags => "IN_CALLBACK" \in x.flags
           Fold(d) == FoldLeft(LAMBDA e, name : dictReplace(e, name, cb), d, cmd.names)
           Registered ==
             CASE cmd.kind \in Subscribes ->
                    [b EXCEPT !.flags = @ \cup {"SUBSCRIBED"}, ![DictOf(cmd.kind)] = Fold(@)]
               [] cmd.kind \in Unsubscribes -> b
               [] cmd.kind = "monitor" -> [b EXCEPT !.flags = @ \cup {"MONITORING"},
                                                    !.replies = PushCallback(@, cb)]
               [] OTHER -> IF "SUBSCRIBED" \in b.flags THEN [b EXCEPT !.invalid = PushCallback(@, cb)]
                           ELSE [b EXCEPT !.replies = PushCallback(@, cb)]
<1>1. IsContext(b)
    BY DEF Follows
<1>2. Ok(Registered)
  <2>1. CASE cmd.kind \in Subscribes
    <3>1. PICK x : x = Registered
      OBVIOUS
    <3>2. ASSUME NEW v, \/ x = [b EXCEPT !.flags = @ \cup {"SUBSCRIBED"}, !.channels = v]
                       \/ x = [b EXCEPT !.flags = @ \cup {"SUBSCRIBED"}, !.patterns = v]
          PROVE  Ok(x)
      <4>1. IsContext(x) /\ x.life = b.life /\ x.flags = b.flags \cup {"SUBSCRIBED"}
        BY <1>1, <3>2 DEF IsContext
      <4> QED
        BY <4>1
    <3> HIDE DEF Fold
    <3>3. x = [b EXCEPT !.flags = @ \cup {"SUBSCRIBED"}, ![DictOf(cmd.kind)] = Fold(@)]
      BY <2>1, <3>1 DEF Subscribes, Unsubscribes
    <3> HIDE DEF Ok, Registered
    <3>4. PICK v : x = [b EXCEPT !.flags = @ \cup {"SUBSCRIBED"}, ![DictOf(cmd.kind)] = v]
      BY <3>3
    <3>5. Ok(Registered)
      BY <3>1, <3>2, <3>4 DEF DictOf
    <3> QED
      BY <3>5
  <2>2. CASE cmd.kind \in Unsubscribes
    BY <1>1, <2>2 DEF Subscribes, Unsubscribes
  <2>3. CASE cmd.kind = "monitor"
    BY <1>1, <2>3 DEF Subscribes, Unsubscribes, IsContext
  <2>4. CASE cmd.kind \notin Subscribes \cup Unsubscribes \cup {"monitor"}
    BY <1>1, <2>4 DEF IsContext
  <2> QED
    BY <2>1, <2>2, <2>3, <2>4
<1>3. redisAsyncCommand(b, cmd, cb) = [Registered EXCEPT !.obuf = Append(@, cmd), !.ev = @ \cup {"w"}]
    BY DEF redisAsyncCommand
<1> HIDE DEF Registered
<1> QED
    BY <1>2, <1>3 DEF Follows, IsContext

\* __redisAsyncCommand
LEMMA CommandCalls ==
    ASSUME CallsOK, NEW c \in Contexts, NEW kind, NEW names, Command(c, kind, names)
    PROVE  CallsOK'
<1> DEFINE cmd == [id |-> Len(cmds) + 1, kind |-> kind, names |-> names, c |-> c]
           b == redisAsyncCommand(ac[c], cmd, Callback(cmd.id))
<1>1. /\ ac[c].life = "alive" /\ stack' = stack
      /\ ac' = [ac EXCEPT ![c] = b]
    BY DEF Command
<1>2. Follows(ac[c], ac[c])
    BY DEF CallsOK, ContextsOK, Follows
<1>3. Follows(ac[c], b)
    BY <1>1, <1>2, CommandFollows
<1>4. ContextsOK' /\ Continued(Contexts, ac, ac')
    BY <1>1, <1>3, Changed DEF CallsOK
<1>5. StackOK(stack', ac')
    BY <1>1, <1>4, Kept DEF CallsOK
<1> QED
    BY <1>4, <1>5 DEF CallsOK

\* A context that is in no callback may be freed by the user.
LEMMA UserFrees ==
    ASSUME CallsOK, NEW c \in Contexts, ac[c].life = "alive", UserRuns, "IN_CALLBACK" \notin ac[c].flags, NEW a
    PROVE  StackOK(Append(stack, FreeFrame(c, a)), ac)
<1>1. stack # <<>> => stack[Len(stack)].at = "callback"
    BY DEF UserRuns, Top
<1> QED
    BY <1>1, Pushed, LibraryFrames DEF CallsOK

\* redisAsyncDisconnect
LEMMA DisconnectCalls ==
    ASSUME CallsOK, NEW c \in Contexts, redisAsyncDisconnect(c)
    PROVE  CallsOK'
<1> DEFINE a == [ac[c] EXCEPT !.flags = @ \cup {"DISCONNECTING"}]
<1>1. UserRuns /\ ac[c].life = "alive"
    BY DEF redisAsyncDisconnect
<1>2. Follows(ac[c], ac[c])
    BY DEF CallsOK, ContextsOK, Follows
<1>3. Follows(ac[c], a)
    BY <1>2, Flagged
<1>4. CASE "IN_CALLBACK" \notin a.flags /\ a.replies = <<>>
  <2>1. Disconnect(c, a, stack)
    BY <1>4 DEF redisAsyncDisconnect
  <2>2. "IN_CALLBACK" \notin ac[c].flags
    BY <1>3, <1>4 DEF Follows
  <2> QED
    BY <1>1, <1>3, <2>1, <2>2, UserFrees, Disconnected DEF CallsOK
<1>5. CASE ~("IN_CALLBACK" \notin a.flags /\ a.replies = <<>>)
  <2>1. ac' = [ac EXCEPT ![c] = a] /\ stack' = stack
    BY <1>5 DEF redisAsyncDisconnect
  <2>2. ContextsOK' /\ Continued(Contexts, ac, ac')
    BY <1>3, <2>1, Changed DEF CallsOK
  <2> QED
    BY <2>1, <2>2, Kept DEF CallsOK
<1> QED
    BY <1>4, <1>5

\* redisAsyncFree
LEMMA FreeCalls ==
    ASSUME CallsOK, NEW c \in Contexts, redisAsyncFree(c)
    PROVE  CallsOK'
<1> DEFINE a == [ac[c] EXCEPT !.flags = @ \cup {"FREEING"}]
<1>1. /\ UserRuns /\ ac[c].life = "alive"
      /\ ac' = [ac EXCEPT ![c] = a]
      /\ stack' = IF "IN_CALLBACK" \in a.flags THEN stack ELSE Append(stack, FreeFrame(c, a))
    BY DEF redisAsyncFree
<1>2. Follows(ac[c], ac[c])
    BY DEF CallsOK, ContextsOK, Follows
<1>3. Follows(ac[c], a)
    BY <1>2, Flagged
<1>4. ContextsOK' /\ Continued(Contexts, ac, ac')
    BY <1>1, <1>3, Changed DEF CallsOK
<1>5. CASE "IN_CALLBACK" \in a.flags
    BY <1>1, <1>4, <1>5, Kept DEF CallsOK
<1>6. CASE "IN_CALLBACK" \notin a.flags
  <2>1. StackOK(Append(stack, FreeFrame(c, a)), ac)
    BY <1>1, <1>3, <1>6, UserFrees DEF Follows
  <2> QED
    BY <1>1, <1>4, <1>6, <2>1, Kept DEF CallsOK
<1> QED
    BY <1>5, <1>6

\* A callback returns (Return, Back).
LEMMA ReturnCalls ==
    ASSUME CallsOK, Return
    PROVE  CallsOK'
<1> DEFINE c == Top.c
           a == [ac[c] EXCEPT !.flags = @ \ {"IN_CALLBACK"}]
           f == FreeFrame(c, a)
<1>1. /\ stack # <<>> /\ Top.at = "callback"
      /\ ac' = [ac EXCEPT ![c] = a]
      /\ stack' = IF Below[Len(Below)].at = "process" /\ "FREEING" \in a.flags
                  THEN Append(SubSeq(Below, 1, Len(Below) - 1), f)
                  ELSE Below
    BY DEF Return, AtTop, Back
<1>2. /\ c \in Contexts /\ ac[c].life = "alive" /\ IsContext(ac[c])
      /\ Below # <<>> /\ Below[Len(Below)].at # "callback" /\ Below[Len(Below)].c = c
    BY <1>1, TopFrame
<1>3. IsContext(a) /\ a.life = "alive"
    BY <1>2 DEF IsContext
<1>4. /\ ac = [d \in Contexts |-> ac[d]]
      /\ \A d \in Contexts : IsContext(ac[d]) /\ (ac[d].ev # {} => ac[d].life = "alive")
    BY DEF CallsOK, ContextsOK
<1>5. ac'[c] = a /\ \A d \in Contexts : d # c => ac'[d] = ac[d]
    BY <1>1, <1>2, <1>4
<1> HIDE DEF a
<1>6. ContextsOK'
  <2>1. ac' = [d \in Contexts |-> ac'[d]]
    BY <1>1, <1>4
  <2>2. \A d \in Contexts : IsContext(ac'[d]) /\ (ac'[d].ev # {} => ac'[d].life = "alive")
    BY <1>3, <1>4, <1>5
  <2> QED
    BY <2>1, <2>2 DEF ContextsOK, IsContext
<1>7. StackOK(Below, ac')
  <2>1. Continued(Contexts \ {stack[Len(stack)].c}, ac, ac')
    BY <1>5 DEF Continued, Top
  <2>2. ac'[stack[Len(stack)].c].life = "alive"
    BY <1>3, <1>5 DEF Top
  <2> QED
    BY <1>1, <2>1, <2>2, Popped DEF CallsOK, Below
<1>8. StackOK(stack', ac')
  <2>1. CASE Below[Len(Below)].at = "process" /\ "FREEING" \in a.flags
    <3>1. IsFrame(f) /\ f.at = "free" /\ f.c = c
      BY LibraryFrames
    <3>2. StackOK(Append(SubSeq(Below, 1, Len(Below) - 1), f), ac')
      BY <1>2, <1>7, <3>1, Replaced
    <3> QED
      BY <1>1, <2>1, <3>2
  <2>2. CASE ~(Below[Len(Below)].at = "process" /\ "FREEING" \in a.flags)
    BY <1>1, <1>7, <2>2
  <2> QED
    BY <2>1, <2>2
<1> QED
    BY <1>6, <1>8 DEF CallsOK

\* A context without the first callback of one of its lists (ShiftCallback).
LEMMA ShiftFollows ==
    ASSUME NEW a, NEW b, Follows(a, b), NEW list, list \in {"replies", "invalid"}
    PROVE  Follows(a, ShiftCallback(b, list).a)
<1> DEFINE d == [b EXCEPT ![list] = Tail(b[list])]
<1>1. IsContext(b)
    BY DEF Follows
<1>2. PICK v : v = Tail(b[list])
    OBVIOUS
<1>3. d \in {[b EXCEPT !.replies = v], [b EXCEPT !.invalid = v]}
    BY <1>2
<1>4. IsContext(d) /\ d.life = b.life /\ d.ev = b.ev /\ d.flags = b.flags
  <2> HIDE DEF d
  <2>1. CASE d = [b EXCEPT !.replies = v]
    BY <1>1, <2>1 DEF IsContext
  <2>2. CASE d = [b EXCEPT !.invalid = v]
    BY <1>1, <2>2 DEF IsContext
  <2> QED
    BY <1>3, <2>1, <2>2
<1>5. ShiftCallback(b, list).a = d
    BY DEF ShiftCallback
<1> HIDE DEF d
<1> QED
    BY <1>4, <1>5 DEF Follows

\* A frame of __redisAsyncFree after one more of its callbacks.
LEMMA Advanced ==
    ASSUME NEW t, IsFrame(t), t.at = "free", NEW w
    PROVE  \A f : f = [t EXCEPT !.subs = w] => IsFrame(f) /\ f.at = "free" /\ f.c = t.c
<1> SUFFICES ASSUME NEW f, f = [t EXCEPT !.subs = w]
             PROVE  IsFrame(f) /\ f.at = "free" /\ f.c = t.c
    OBVIOUS
<1>1. t = [at |-> "free", c |-> t.c, subs |-> t.subs]
    BY DEF IsFrame
<1>2. f = [at |-> "free", c |-> t.c, subs |-> w]
    BY <1>1
<1> QED
    BY <1>2 DEF IsFrame

\* The next callback with NULL (__redisAsyncFree).
LEMMA FreeCallbackCalls ==
    ASSUME CallsOK, FreeCallback
    PROVE  CallsOK'
<1> DEFINE c == Top.c
           a == ac[c]
           f == [Top EXCEPT !.subs = Tail(@)]
<1>1. stack # <<>> /\ Top.at = "free"
    BY DEF FreeCallback, AtTop
<1>2. /\ IsFrame(Top) /\ c \in Contexts /\ a.life = "alive" /\ Follows(ac[c], a)
      /\ StackOK(stack, ac) /\ ContextsOK
    BY <1>1, TopFrame DEF CallsOK
<1>3. stack[Len(stack)].at # "callback" /\ stack[Len(stack)].c = c
    BY <1>1 DEF Top
<1>4. CASE \E list \in {"replies", "invalid"} :
              RunCallback(c, ShiftCallback(a, list).a, ShiftCallback(a, list).cb, NULL, stack)
    BY <1>1, <1>2, <1>3, <1>4, ShiftFollows, Ran
<1>5. CASE RunCallback(c, a, Head(Top.subs), NULL, Append(Below, f))
  <2>1. PICK t : t = Top
    OBVIOUS
  <2>2. IsFrame(f) /\ f.at = "free" /\ f.c = c
    BY <1>1, <1>2, <2>1, Advanced
  <2>3. StackOK(Append(Below, f), ac)
    BY <1>1, <1>2, <1>3, <2>2, Replaced DEF Below
  <2>4. /\ Append(Below, f) # <<>>
        /\ Append(Below, f)[Len(Append(Below, f))] = f
    <3>1. IsSequence(Below)
      BY <1>1, <1>2, Shortened DEF StackOK, Below
    <3>2. Len(Append(Below, f)) = Len(Below) + 1 /\ Len(Below) \in Nat /\ Append(Below, f)[Len(Below) + 1] = f
      BY <3>1, Appended
    <3>3. Append(Below, f) # <<>>
      BY <3>2
    <3> QED
      BY <3>2, <3>3
  <2> QED
    BY <1>2, <1>5, <2>2, <2>3, <2>4, Ran
<1> QED
    BY <1>4, <1>5 DEF FreeCallback

\* The context is gone: no other call works on it (__redisAsyncFree).
LEMMA FreeEndCalls ==
    ASSUME CallsOK, FreeEnd
    PROVE  CallsOK'
<1> DEFINE c == Top.c
<1>1. stack # <<>> /\ Top.at = "free" /\ stack' = Below
      /\ ac' = [ac EXCEPT ![c] = [Unused EXCEPT !.life = "freed"]]
    BY DEF FreeEnd, AtTop
<1>2. c \in Contexts /\ StackOK(stack, ac)
    BY <1>1, TopFrame DEF CallsOK
<1>3. PICK b : b = [Unused EXCEPT !.life = "freed"]
    OBVIOUS
<1>4. IsContext(b) /\ b.ev = {}
    BY <1>3 DEF IsContext, Unused
<1>5. ac' = [ac EXCEPT ![c] = b]
    BY <1>1, <1>3
<1>6. /\ ac = [d \in Contexts |-> ac[d]]
      /\ \A d \in Contexts : IsContext(ac[d]) /\ (ac[d].ev # {} => ac[d].life = "alive")
    BY DEF CallsOK, ContextsOK
<1>7. ac'[c] = b /\ \A d \in Contexts : d # c => ac'[d] = ac[d]
    BY <1>2, <1>5, <1>6
<1>8. ContextsOK'
  <2>1. ac' = [d \in Contexts |-> ac'[d]]
    BY <1>5, <1>6
  <2>2. \A d \in Contexts : IsContext(ac'[d]) /\ (ac'[d].ev # {} => ac'[d].life = "alive")
    BY <1>4, <1>6, <1>7
  <2> QED
    BY <2>1, <2>2 DEF ContextsOK, IsContext
<1>9. Continued(Contexts \ {stack[Len(stack)].c}, ac, ac') /\ stack[Len(stack)].at # "callback"
    BY <1>1, <1>7 DEF Continued, Top
<1>10. StackOK(stack', ac')
    BY <1>1, <1>2, <1>9, Popped DEF Below
<1> QED
    BY <1>8, <1>10 DEF CallsOK

\* The end of redisProcessCallbacks, or of the context.
LEMMA ProcessNoneCalls ==
    ASSUME CallsOK, ProcessNone
    PROVE  CallsOK'
<1> DEFINE c == Top.c
           a == ac[c]
           b == IF "MONITORING" \in a.flags THEN [a EXCEPT !.replies = PushCallback(@, Top.cb)] ELSE a
<1>1. stack # <<>> /\ Top.at = "process"
    BY DEF ProcessNone, AtTop
<1>2. /\ c \in Contexts /\ a.life = "alive" /\ Follows(ac[c], a) /\ IsContext(a)
      /\ StackOK(stack, ac) /\ ContextsOK
    BY <1>1, TopFrame DEF CallsOK
<1>3. stack[Len(stack)].at # "callback" /\ stack[Len(stack)].c = c
    BY <1>1 DEF Top
<1>4. CASE Disconnect(c, a, Below)
  <2>1. StackOK(Append(Below, FreeFrame(c, a)), ac)
    BY <1>1, <1>2, <1>3, Replaced, LibraryFrames DEF Below
  <2> QED
    BY <1>2, <1>4, <2>1, Disconnected
<1>5. CASE ac' = [ac EXCEPT ![c] = b] /\ stack' = Below
  <2>1. IsContext(b) /\ b.life = a.life /\ b.ev = a.ev /\ b.flags = a.flags
    BY <1>2 DEF IsContext
  <2>2. ContextsOK' /\ Continued(Contexts, ac, ac')
    BY <1>2, <1>5, <2>1, Changed DEF Follows
  <2>3. StackOK(Below, ac')
    BY <1>1, <1>2, <1>3, <2>2, Popped DEF Below, Continued
  <2> QED
    BY <1>5, <2>2, <2>3 DEF CallsOK
<1> QED
    BY <1>4, <1>5 DEF ProcessNone

\* __redisGetSubscribeCallback
LEMMA SubscribeFollows ==
    ASSUME NEW a, NEW b, Follows(a, b), NEW cb, NEW r
    PROVE  Follows(a, redisGetSubscribeCallback(b, cb, r).a)
<1> DEFINE dict == IF r.kind \in {"psubscribe", "punsubscribe", "pmessage"} THEN "patterns" ELSE "channels"
           de == dictFind(b[dict], r.name)
           flags == IF r.count = 0 THEN b.flags \ {"SUBSCRIBED"} ELSE b.flags
           got == redisGetSubscribeCallback(b, cb, r)
<1>1. IsContext(b)
    BY DEF Follows
<1>2. CASE r.kind \notin Arrays
  <2>1. CASE b.invalid = <<>>
    BY <1>2, <2>1 DEF redisGetSubscribeCallback
  <2>2. CASE b.invalid # <<>>
    <3>1. got = ShiftCallback(b, "invalid")
      BY <1>2, <2>2 DEF redisGetSubscribeCallback
    <3> QED
      BY <3>1, ShiftFollows
  <2> QED
    BY <2>1, <2>2
<1>3. CASE r.kind \in Arrays
  <2>1. CASE de = <<>> \/ r.kind \notin Unsubscribes
    <3>1. got.a = b
      BY <1>3, <2>1 DEF redisGetSubscribeCallback
    <3> QED
      BY <3>1
  <2>2. CASE de # <<>> /\ r.kind \in Unsubscribes
    <3>1. PICK x : x = got.a
      OBVIOUS
    <3>2. PICK v : v = dictDelete(b[dict], r.name)
      OBVIOUS
    <3>3. x = [b EXCEPT ![dict] = v, !.flags = flags]
      BY <1>3, <2>2, <3>1, <3>2 DEF redisGetSubscribeCallback
    <3>4. \/ x = [b EXCEPT !.channels = v, !.flags = flags]
          \/ x = [b EXCEPT !.patterns = v, !.flags = flags]
      <4> HIDE DEF flags
      <4> QED
        BY <3>3
    <3>5. "IN_CALLBACK" \in b.flags => "IN_CALLBACK" \in flags
      OBVIOUS
    <3> HIDE DEF flags, got
    <3>6. IsContext(x) /\ x.life = b.life /\ x.ev = b.ev /\ x.flags = flags
      BY <1>1, <3>4 DEF IsContext
    <3>7. Follows(a, x)
      BY <3>5, <3>6 DEF Follows
    <3> QED
      BY <3>1, <3>7 DEF got
  <2> QED
    BY <2>1, <2>2
<1> QED
    BY <1>2, <1>3

\* A reply and the callback that it is for (redisProcessCallbacks).
LEMMA ProcessReplyCalls ==
    ASSUME CallsOK, ProcessReply
    PROVE  CallsOK'
<1> DEFINE c == Top.c
           r == Head(ac[c].ibuf)
           a == [ac[c] EXCEPT !.ibuf = Tail(@)]
           Run(got) == RunCallback(c, got.a, got.cb, r, Append(Below, ProcessFrame(c, got.cb)))
<1>1. stack # <<>> /\ Top.at = "process"
    BY DEF ProcessReply, AtTop
<1>2. /\ c \in Contexts /\ ac[c].life = "alive" /\ Follows(ac[c], ac[c]) /\ IsContext(ac[c])
      /\ StackOK(stack, ac) /\ ContextsOK
    BY <1>1, TopFrame DEF CallsOK
<1>3. stack[Len(stack)].at = "process" /\ stack[Len(stack)].c = c
    BY <1>1 DEF Top
<1>4. Follows(ac[c], a)
    BY <1>2, SetFollows
<1>5. ASSUME NEW got, Follows(ac[c], got.a), Run(got)
      PROVE  CallsOK'
  <2> DEFINE f == ProcessFrame(c, got.cb)
             st == Append(Below, f)
  <2>1. IsFrame(f) /\ f.at = "process" /\ f.c = c
    BY LibraryFrames
  <2>2. StackOK(st, ac)
    BY <1>1, <1>2, <1>3, <2>1, Replaced DEF Below
  <2>3. IsSequence(Below)
    BY <1>1, <1>2, Shortened DEF StackOK, Below
  <2>4. Len(st) = Len(Below) + 1 /\ Len(Below) \in Nat /\ st[Len(Below) + 1] = f
    BY <2>3, Appended
  <2>5. st # <<>> /\ st[Len(st)] = f
    BY <2>4
  <2> HIDE DEF st, f
  <2>6. RunCallback(c, got.a, got.cb, r, st)
    BY <1>5 DEF st, f
  <2> QED
    BY <1>2, <1>5, <2>1, <2>2, <2>5, <2>6, Ran
<1>6. CASE Disconnect(c, [a EXCEPT !.err = TRUE], Below)
  <2> DEFINE b == [a EXCEPT !.err = TRUE]
  <2> HIDE DEF a
  <2>1. Follows(ac[c], b)
    BY <1>4, SetFollows
  <2>2. StackOK(Append(Below, FreeFrame(c, b)), ac)
    BY <1>1, <1>2, <1>3, Replaced, LibraryFrames DEF Below
  <2> HIDE DEF b
  <2>3. Disconnect(c, b, Below)
    BY <1>6 DEF b
  <2> QED
    BY <1>2, <2>1, <2>2, <2>3, Disconnected
<1>7. CASE \E why \in {"unexpected", "nil"} : Abort(why) /\ UNCHANGED ac
  <2>1. stack' = <<>> /\ ac' = ac
    BY <1>7 DEF Abort
  <2> QED
    BY <1>2, <2>1 DEF CallsOK, ContextsOK, IsContext, StackOK, IsSequence, FramesOK, CalledByLibrary,
                      CalledByUser, Distinct
<1>8. CASE Run(ShiftCallback(a, "replies"))
    BY <1>4, <1>5, <1>8, ShiftFollows
<1>9. CASE Run([a |-> a, cb |-> Top.cb])
  <2> DEFINE g == [a |-> a, cb |-> Top.cb]
  <2>1. g.a = a /\ Run(g)
    BY <1>9
  <2> HIDE DEF g, Run, a
  <2> QED
    BY <1>4, <1>5, <2>1
<1>10. CASE Run(redisGetSubscribeCallback(a, Top.cb, r))
    BY <1>4, <1>5, <1>10, SubscribeFollows
<1>11. \/ Disconnect(c, [a EXCEPT !.err = TRUE], Below)
       \/ Run(ShiftCallback(a, "replies"))
       \/ Run([a |-> a, cb |-> Top.cb])
       \/ Run(redisGetSubscribeCallback(a, Top.cb, r))
       \/ \E why \in {"unexpected", "nil"} : Abort(why) /\ UNCHANGED ac
  <2> HIDE DEF Run, a, c, r
  <2> QED
    BY DEF ProcessReply, Run, a, c, r
<1> QED
    BY <1>6, <1>7, <1>8, <1>9, <1>10, <1>11

\* The event loop calls the library, which frees the context.
LEMMA EventDisconnects ==
    ASSUME CallsOK, stack = <<>>, NEW c \in Contexts, ac[c].life = "alive", NEW a, Follows(ac[c], a),
           Disconnect(c, a, stack)
    PROVE  CallsOK'
<1> DEFINE f == FreeFrame(c, a)
<1>1. IsFrame(f) /\ f.at = "free" /\ f.c = c
    BY LibraryFrames
<1> HIDE DEF f
<1>2. StackOK(Append(stack, f), ac)
    BY <1>1, Pushed DEF CallsOK
<1>3. StackOK(Append(stack, FreeFrame(c, a)), ac)
    BY <1>2 DEF f
<1> QED
    BY <1>3, Disconnected DEF CallsOK

\* The events of the event loop (redisAsyncHandleRead, redisAsyncHandleWrite).
LEMMA EventCalls ==
    ASSUME CallsOK, NEW c \in Contexts, event(c)
    PROVE  CallsOK'
<1> DEFINE err(x) == [x EXCEPT !.err = TRUE]
<1>1. stack = <<>> /\ ac[c].ev # {}
    BY DEF event, ConnectFails, redisAsyncHandleWrite, redisAsyncHandleRead, ReadFails, EventLoop
<1>2. /\ ContextsOK /\ IsContext(ac[c]) /\ ac[c].life = "alive" /\ Follows(ac[c], ac[c])
      /\ StackOK(stack, ac)
    BY <1>1 DEF CallsOK, ContextsOK, Follows
<1>3. ASSUME NEW x, Follows(ac[c], x), Disconnect(c, err(x), stack)
      PROVE  CallsOK'
  <2>1. Follows(ac[c], err(x))
    BY <1>3, SetFollows
  <2> QED
    BY <1>1, <1>2, <1>3, <2>1, EventDisconnects
<1>4. CASE ConnectFails(c)
    BY <1>2, <1>3, <1>4 DEF ConnectFails
<1>5. CASE ReadFails(c)
    BY <1>2, <1>3, <1>5 DEF ReadFails
<1>6. CASE redisAsyncHandleRead(c)
  <2>1. PICK v : ac' = [ac EXCEPT ![c].ibuf = v]
    BY <1>6 DEF redisAsyncHandleRead
  <2>2. stack' = <<ProcessFrame(c, NullCb)>>
    BY <1>6 DEF redisAsyncHandleRead
  <2> DEFINE b == [ac[c] EXCEPT !.ibuf = v]
             f == ProcessFrame(c, NullCb)
  <2>3. IsContext(b) /\ b.life = ac[c].life /\ b.ev = ac[c].ev /\ b.flags = ac[c].flags
    BY <1>2 DEF IsContext
  <2>4. ac' = [ac EXCEPT ![c] = b]
    BY <2>1
  <2> HIDE DEF b
  <2>5. Follows(ac[c], b)
    BY <1>2, <2>3 DEF Follows
  <2>6. ContextsOK' /\ Continued(Contexts, ac, ac')
    BY <1>2, <2>4, <2>5, Changed
  <2>7. IsFrame(f) /\ f.at = "process" /\ f.c = c
    BY LibraryFrames
  <2>8. stack' = Append(stack, f)
    BY <1>1, <2>2
  <2> HIDE DEF f
  <2>9. StackOK(stack', ac)
    BY <1>1, <1>2, <2>7, <2>8, Pushed
  <2> QED
    BY <2>6, <2>9, Kept DEF CallsOK
<1>7. CASE redisAsyncHandleWrite(c, Served(c))
  <2> DEFINE a == [ac[c] EXCEPT !.flags = @ \cup {"CONNECTED"}]
  <2>1. Follows(ac[c], a)
    BY <1>2, Flagged
  <2>2. CASE Disconnect(c, err(a), stack)
    BY <1>3, <2>1, <2>2
  <2>3. CASE \E o, e : ac' = [ac EXCEPT ![c] = [a EXCEPT !.obuf = o, !.ev = e]] /\ stack' = stack
    <3>1. PICK o, e : ac' = [ac EXCEPT ![c] = [a EXCEPT !.obuf = o, !.ev = e]] /\ stack' = stack
      BY <2>3
    <3>2. PICK b : b = [a EXCEPT !.obuf = o, !.ev = e]
      OBVIOUS
    <3> HIDE DEF a
    <3>3. IsContext(b) /\ b.life = a.life /\ b.flags = a.flags
      BY <2>1, <3>2 DEF Follows, IsContext
    <3>4. Follows(ac[c], b)
      BY <1>2, <2>1, <3>3 DEF Follows
    <3>5. ac' = [ac EXCEPT ![c] = b]
      BY <3>1, <3>2
    <3>6. ContextsOK' /\ Continued(Contexts, ac, ac')
      BY <1>2, <3>4, <3>5, Changed
    <3> QED
      BY <1>2, <3>1, <3>6, Kept DEF CallsOK
  <2> QED
    BY <1>7, <2>2, <2>3 DEF redisAsyncHandleWrite
<1> QED
    BY <1>4, <1>5, <1>6, <1>7 DEF event

\* What the servers and the network do, and the end of the program.
LEMMA ServerCalls ==
    ASSUME CallsOK, (\E c \in Contexts : server(c)) \/ Over \/ UNCHANGED avars
    PROVE  CallsOK'
<1>1. ac' = ac /\ stack' = stack
    BY DEF server, Publish, Break, Misbehave, Over, avars
<1> QED
    BY <1>1 DEF CallsOK, ContextsOK, IsContext

\* Every step keeps the calls that have not returned in order.
LEMMA NextCalls == CallsOK /\ [Next]_avars => CallsOK'
<1> SUFFICES ASSUME CallsOK, [Next]_avars PROVE CallsOK'
    OBVIOUS
<1>1. CASE thread
    BY <1>1, ReturnCalls, FreeCallbackCalls, FreeEndCalls, ProcessNoneCalls, ProcessReplyCalls DEF thread
<1>2. ASSUME NEW c \in Contexts, event(c) \/ Issue(c) \/ End(c)
      PROVE  CallsOK'
    BY <1>2, EventCalls, CommandCalls, DisconnectCalls, FreeCalls DEF Issue, End
<1> QED
    BY <1>1, <1>2, ServerCalls DEF Next

\* The stack is a pile of calls and callbacks in every state: two calls of the
\* library never work on the same context.
THEOREM Nested == Spec => []CallsOK
<1> QED
    BY InitCalls, NextCalls, PTL DEF Spec

\* No call that is still to return works on a context that has been freed,
\* whatever the callbacks do (redisAsyncFree and redisAsyncDisconnect called
\* from a callback, of this or of another context).
THEOREM ContextsLive == Spec => []NoUseAfterFree
<1>1. CallsOK => NoUseAfterFree
  <2> SUFFICES ASSUME CallsOK, NEW i \in DOMAIN stack
               PROVE  ac[stack[i].c].life = "alive"
    BY DEF NoUseAfterFree
  <2>1. PICK S : stack \in Seq(S)
    BY DEF CallsOK, StackOK, IsSequence
  <2>2. i \in 1 .. Len(stack)
    BY <2>1
  <2> QED
    BY <2>2 DEF CallsOK, StackOK, FramesOK
<1> QED
    BY <1>1, Nested, PTL

=============================================================================
