---------------------------- MODULE AnswersProofs ----------------------------
(***************************************************************************)
(* More proofs about ClusterAsync, for every set of servers, slots and     *)
(* contexts and for every number of commands, redirections, failures and   *)
(* moves of slots: the callback of a command is called once at most, with  *)
(* what is true, and memory that has been freed is used only when the user *)
(* or the servers have done certain things.                                *)
(***************************************************************************)
EXTENDS ClusterAsyncProofs

-----------------------------------------------------------------------------
(***************************************************************************)
(* The stack: which call is in which.                                      *)
(***************************************************************************)
\* g is a call about a command, made by the call f of the library for the same
\* context; the reply is NULL if the context is being freed
CalledFrom(f, g) == f.at \in {"process", "free"} /\ f.c = g.c /\ (g.reply = NULL <=> f.at = "free")

\* the calls of __redisAsyncFree are above that of redisClusterAsyncFree or of
\* cluster_update_route, or are alone
FreedFor(st) == st[1].at = "release" \/ st[2].at = "route"

ShapeOK(st) ==
    /\ \A p \in 1 .. Len(st) : Pending(st[p]) => p > 1 /\ CalledFrom(st[p - 1], st[p])
    /\ \A p \in 1 .. Len(st) : st[p].at \in {"callback", "user"} => p = Len(st)
    /\ \A p \in 1 .. Len(st) : st[p].at = "route" => p = 2
    /\ \A p \in 1 .. Len(st) : st[p].at = "release" => p = 1
    /\ \A p \in 1 .. Len(st) : st[p].at = "free" /\ p > 1 => FreedFor(st)

\* a call about a command of the context c; one of the library for c
InFlight(st, c) == \E p \in 1 .. Len(st) : Pending(st[p]) /\ st[p].c = c
Works(f) == f.at \in {"process", "free"}
Busy(st, c) == \E p \in 1 .. Len(st) : Works(st[p]) /\ st[p].c = c

\* the context of the node k is to be freed
Ends(f, k) == f.at = "release" \/ (f.at = "route" /\ k \notin Listed(f.table))
Ending(st, k) == \E p \in 1 .. Len(st) : Ends(st[p], k)

\* new is st with a call f more; it is st without the call at the top
Pushed(st, f, new) ==
    /\ Len(st) \in Nat
    /\ Len(new) = Len(st) + 1
    /\ new[Len(st) + 1] = f
    /\ \A p \in 1 .. Len(st) : new[p] = st[p]
Popped(st, new) ==
    /\ Len(st) \in Nat \ {0}
    /\ Len(new) = Len(st) - 1
    /\ \A p \in 1 .. Len(st) - 1 : new[p] = st[p]

\* what is called or worked on in st is in new
Above(st, new) ==
    /\ \A c : Busy(st, c) => Busy(new, c)
    /\ \A c : InFlight(st, c) => InFlight(new, c)
    /\ \A k : Ending(st, k) => Ending(new, k)

\* A call begins.
LEMMA ShapePushed ==
    ASSUME NEW st, NEW f, NEW new, Pushed(st, f, new), ShapeOK(st),
           Len(st) > 0 => st[Len(st)].at \notin {"callback", "user"},
           Pending(f) => Len(st) > 0 /\ CalledFrom(st[Len(st)], f),
           f.at = "route" => Len(st) = 1,
           f.at = "release" => Len(st) = 0,
           f.at = "free" => Len(st) = 0 \/ st[1].at = "release" \/ (Len(st) > 1 /\ st[2].at = "route")
    PROVE  /\ ShapeOK(new) /\ Above(st, new)
           /\ Works(f) => Busy(new, f.c)
           /\ Pending(f) => InFlight(new, f.c)
<1> DEFINE n == Len(st)
<1>1. n \in Nat /\ Len(new) = n + 1 /\ new[n + 1] = f /\ \A p \in 1 .. n : new[p] = st[p]
    BY DEF Pushed
<1>2. \A p \in 1 .. n + 1 : p \in 1 .. n \/ p = n + 1
    BY <1>1
<1>3. \A p \in 1 .. n : p > 1 => p - 1 \in 1 .. n
    BY <1>1
<1>4. \A p \in 1 .. n + 1 : Pending(new[p]) => p > 1 /\ CalledFrom(new[p - 1], new[p])
    <2> SUFFICES ASSUME NEW p \in 1 .. n + 1, Pending(new[p]) PROVE p > 1 /\ CalledFrom(new[p - 1], new[p])
        OBVIOUS
    <2>1. CASE p \in 1 .. n
        BY <1>1, <1>3, <2>1 DEF ShapeOK
    <2>2. CASE p = n + 1
        <3>1. n > 0 /\ CalledFrom(st[n], f)
            BY <1>1, <2>2
        <3>2. p > 1 /\ p - 1 = n /\ n \in 1 .. n
            BY <1>1, <2>2, <3>1
        <3> QED
            BY <1>1, <2>2, <3>1, <3>2
    <2> QED
        BY <1>2, <2>1, <2>2
<1>5. \A p \in 1 .. n + 1 : new[p].at \in {"callback", "user"} => p = n + 1
    BY <1>1, <1>2 DEF ShapeOK
<1>6. \A p \in 1 .. n + 1 : new[p].at = "route" => p = 2
    BY <1>1, <1>2 DEF ShapeOK
<1>7. \A p \in 1 .. n + 1 : new[p].at = "release" => p = 1
    BY <1>1, <1>2 DEF ShapeOK
<1>8. \A p \in 1 .. n + 1 : new[p].at = "free" /\ p > 1 => FreedFor(new)
    <2> SUFFICES ASSUME NEW p \in 1 .. n + 1, new[p].at = "free", p > 1 PROVE FreedFor(new)
        OBVIOUS
    <2>1. CASE p \in 1 .. n
        <3>1. FreedFor(st)
            BY <1>1, <2>1 DEF ShapeOK
        <3>2. 1 \in 1 .. n /\ 2 \in 1 .. n
            BY <1>1, <2>1
        <3> QED
            BY <1>1, <3>1, <3>2 DEF FreedFor
    <2>2. CASE p = n + 1
        <3>1. n # 0 /\ 1 \in 1 .. n
            BY <1>1, <2>2
        <3>2. st[1].at = "release" \/ (n > 1 /\ st[2].at = "route")
            BY <1>1, <2>2, <3>1
        <3>3. n > 1 => 2 \in 1 .. n
            BY <1>1
        <3> QED
            BY <1>1, <3>1, <3>2, <3>3 DEF FreedFor
    <2> QED
        BY <1>2, <2>1, <2>2
<1>9. Above(st, new)
    <2>1. \A p \in 1 .. n : p \in 1 .. Len(new)
        BY <1>1
    <2> QED
        BY <1>1, <2>1 DEF Above, Busy, InFlight, Ending
<1>10. n + 1 \in 1 .. Len(new)
    BY <1>1
<1> QED
    BY <1>1, <1>4, <1>5, <1>6, <1>7, <1>8, <1>9, <1>10 DEF ShapeOK, Busy, InFlight

\* A call returns.
LEMMA ShapePopped ==
    ASSUME NEW st, NEW new, Popped(st, new), ShapeOK(st)
    PROVE  /\ ShapeOK(new)
           /\ \A p \in 1 .. Len(new) : new[p].at \notin {"callback", "user"}
           /\ \A c : Busy(st, c) => Busy(new, c) \/ (Works(st[Len(st)]) /\ st[Len(st)].c = c)
           /\ \A c : InFlight(st, c) => InFlight(new, c) \/ (Pending(st[Len(st)]) /\ st[Len(st)].c = c)
           /\ \A k : Ending(st, k) => Ending(new, k) \/ Ends(st[Len(st)], k)
<1> DEFINE n == Len(st)
<1>1. n \in Nat \ {0} /\ Len(new) = n - 1 /\ \A p \in 1 .. n - 1 : new[p] = st[p]
    BY DEF Popped
<1>2. \A p \in 1 .. n : p \in 1 .. n - 1 \/ p = n
    BY <1>1
<1>3. \A p \in 1 .. n - 1 : p \in 1 .. n /\ p # n /\ (p > 1 => p - 1 \in 1 .. n - 1)
    BY <1>1
<1>4. \A p \in 1 .. n - 1 : Pending(new[p]) => p > 1 /\ CalledFrom(new[p - 1], new[p])
    BY <1>1, <1>3 DEF ShapeOK
<1>5. \A p \in 1 .. n - 1 : new[p].at \notin {"callback", "user"}
    BY <1>1, <1>3 DEF ShapeOK
<1>6. \A p \in 1 .. n - 1 : (new[p].at = "route" => p = 2) /\ (new[p].at = "release" => p = 1)
    BY <1>1, <1>3 DEF ShapeOK
<1>7. \A p \in 1 .. n - 1 : new[p].at = "free" /\ p > 1 => FreedFor(new)
    <2> SUFFICES ASSUME NEW p \in 1 .. n - 1, new[p].at = "free", p > 1 PROVE FreedFor(new)
        OBVIOUS
    <2>1. FreedFor(st)
        BY <1>1, <1>3 DEF ShapeOK
    <2>2. 1 \in 1 .. n - 1 /\ 2 \in 1 .. n - 1
        BY <1>1
    <2> QED
        BY <1>1, <2>1, <2>2 DEF FreedFor
<1>8. \A c : Busy(st, c) => Busy(new, c) \/ (Works(st[n]) /\ st[n].c = c)
    BY <1>1, <1>2 DEF Busy
<1>9. \A c : InFlight(st, c) => InFlight(new, c) \/ (Pending(st[n]) /\ st[n].c = c)
    BY <1>1, <1>2 DEF InFlight
<1>10. \A k : Ending(st, k) => Ending(new, k) \/ Ends(st[n], k)
    BY <1>1, <1>2 DEF Ending
<1> QED
    BY <1>1, <1>4, <1>5, <1>6, <1>7, <1>8, <1>9, <1>10 DEF ShapeOK

\* Contexts are freed.
LEMMA ShapeJoined ==
    ASSUME NEW n \in Nat, NEW st, StackOK(st, n), NEW fs \in Seq(Frames), \A i \in 1 .. Len(fs) : fs[i].at = "free",
           ShapeOK(st), Len(st) > 0, st[Len(st)].at \notin {"callback", "user"},
           st[1].at = "release" \/ (Len(st) > 1 /\ st[2].at = "route")
    PROVE  /\ ShapeOK(st \o fs) /\ Above(st, st \o fs)
           /\ \A i \in 1 .. Len(fs) : Busy(st \o fs, fs[i].c)
           /\ \A p \in 1 .. Len(st) : (st \o fs)[p] = st[p]
<1> DEFINE new == st \o fs
           m == Len(st)
           l == Len(fs)
<1>1. /\ m \in Nat /\ l \in Nat
      /\ Len(new) = m + l
      /\ \A p \in 1 .. m : new[p] = st[p]
      /\ \A p \in m + 1 .. m + l : new[p] = fs[p - m]
    BY StackJoined
<1> HIDE DEF new, l
<1>2. \A p \in 1 .. m + l : p \in 1 .. m \/ (p \in m + 1 .. m + l /\ p - m \in 1 .. l)
    BY <1>1
<1>3. \A p \in m + 1 .. m + l : new[p].at = "free"
    <2>1. \A p \in m + 1 .. m + l : p - m \in 1 .. l
        BY <1>1
    <2> QED
        BY <1>1, <2>1 DEF l
<1>4. \A p \in 1 .. m : p > 1 => p - 1 \in 1 .. m
    BY <1>1
<1>5. \A p \in 1 .. m + l : Pending(new[p]) => p > 1 /\ CalledFrom(new[p - 1], new[p])
    BY <1>1, <1>2, <1>3, <1>4 DEF ShapeOK, Pending
<1>6. \A p \in 1 .. m + l : new[p].at \notin {"callback", "user"}
    <2>1. \A p \in 1 .. m : st[p].at \notin {"callback", "user"}
        BY <1>1 DEF ShapeOK
    <2> QED
        BY <1>1, <1>2, <1>3, <2>1
<1>7. \A p \in 1 .. m + l : (new[p].at = "route" => p = 2) /\ (new[p].at = "release" => p = 1)
    BY <1>1, <1>2, <1>3 DEF ShapeOK
<1>8. FreedFor(new)
    <2>1. 1 \in 1 .. m /\ (m > 1 => 2 \in 1 .. m)
        BY <1>1
    <2> QED
        BY <1>1, <2>1 DEF FreedFor
<1>9. Above(st, new)
    <2>1. \A p \in 1 .. m : p \in 1 .. Len(new)
        BY <1>1
    <2> QED
        BY <1>1, <2>1 DEF Above, Busy, InFlight, Ending
<1>10. \A i \in 1 .. l : Busy(new, fs[i].c)
    <2> SUFFICES ASSUME NEW i \in 1 .. l PROVE Busy(new, fs[i].c)
        OBVIOUS
    <2>1. m + i \in m + 1 .. m + l /\ m + i - m = i /\ m + i \in 1 .. m + l
        BY <1>1
    <2> QED
        BY <1>1, <1>3, <2>1 DEF Busy, Works
<1> QED
    BY <1>1, <1>5, <1>6, <1>7, <1>8, <1>9, <1>10 DEF ShapeOK, new, l

\* The call at the top returns.
LEMMA TopPopped ==
    ASSUME NEW n \in Nat, StackOK(stack, n), stack # <<>>
    PROVE  Popped(stack, Below) /\ Len(stack) \in 1 .. Len(stack) /\ Top = stack[Len(stack)]
<1>1. Len(stack) \in Nat \ {0} /\ Len(Below) = Len(stack) - 1 /\ \A p \in 1 .. Len(Below) : Below[p] = stack[p]
    BY TopFrame
<1> QED
    BY <1>1 DEF Popped, Top

\* A call is put on a stack.
LEMMA PushedOn ==
    ASSUME NEW n \in Nat, NEW st, StackOK(st, n), NEW f \in Frames
    PROVE  Pushed(st, f, Append(st, f))
<1>1. st \in Seq(Frames)
    BY DEF StackOK
<1> QED
    BY <1>1, AppendProperties DEF Pushed

\* A call with a reply has been made by redisProcessCallbacks, and is the only
\* one about a command.
LEMMA Reading ==
    ASSUME NEW n \in Nat, StackOK(stack, n), ShapeOK(stack), stack # <<>>, Pending(Top), Top.reply # NULL
    PROVE  /\ Len(stack) = 2 /\ stack[1].at = "process" /\ stack[1].c = Top.c /\ Top = stack[2]
           /\ Len(Below) = 1 /\ Below[1] = stack[1]
           /\ \A c : Busy(stack, c) <=> c = Top.c
           /\ \A c : InFlight(stack, c) <=> c = Top.c
           /\ \A k : Ending(stack, k) => Top.at = "route" /\ Ends(Top, k)
<1>1. Popped(stack, Below) /\ Len(stack) \in 1 .. Len(stack) /\ Top = stack[Len(stack)]
    BY TopPopped
<1>2. Len(stack) \in Nat \ {0}
    BY <1>1 DEF Popped
<1>3. Len(stack) > 1 /\ CalledFrom(stack[Len(stack) - 1], Top)
    BY <1>1 DEF ShapeOK
<1>4. Len(stack) - 1 \in 1 .. Len(stack)
    BY <1>2, <1>3
<1>5. stack[Len(stack) - 1].at = "process" /\ stack[Len(stack) - 1].c = Top.c
    BY <1>3 DEF CalledFrom
<1>6. Len(stack) - 1 = 1
    BY <1>4, <1>5 DEF StackOK
<1>7. Len(stack) = 2
    BY <1>2, <1>6
<1>8. stack[1].at = "process" /\ stack[1].c = Top.c /\ Top = stack[2] /\ 1 .. Len(stack) = {1, 2}
    BY <1>1, <1>5, <1>6, <1>7
<1>9. Len(Below) = 1 /\ Below[1] = stack[1]
    BY <1>1, <1>7 DEF Popped
<1>10. \A c : Busy(stack, c) <=> c = Top.c
    BY <1>8 DEF Busy, Works, Pending
<1>11. \A c : InFlight(stack, c) <=> c = Top.c
    BY <1>8 DEF InFlight, Pending
<1>12. \A k : Ending(stack, k) => Top.at = "route" /\ Ends(Top, k)
    BY <1>8 DEF Ending, Ends, Pending
<1> QED
    BY <1>7, <1>8, <1>9, <1>10, <1>11, <1>12

\* The callback of the user is called (Done).
LEMMA DoneShape ==
    ASSUME NEW n \in Nat, StackOK(stack, n), ShapeOK(stack), stack # <<>>, Top.at \in {"callback", "route"},
           NEW err, Done(err)
    PROVE  /\ ShapeOK(stack') /\ Len(stack') = Len(stack) /\ stack' # <<>>
           /\ \A p \in 1 .. Len(stack) - 1 : stack'[p] = stack[p]
           /\ LET u == stack'[Len(stack')]
              IN  u.at = "user" /\ u.c = Top.c /\ u.cb = Top.cb /\ u.reply = Top.reply
           /\ \A c : Busy(stack, c) => Busy(stack', c)
           /\ \A c : InFlight(stack, c) => InFlight(stack', c)
           /\ \A k : Ending(stack, k) => Ending(stack', k) \/ Ends(Top, k)
           /\ \A k : Ending(Below, k) => Ending(stack', k)
<1>1. Popped(stack, Below) /\ Len(stack) \in 1 .. Len(stack) /\ Top = stack[Len(stack)]
    BY TopPopped
<1>2. Top \in Frames /\ StackOK(Below, n)
    BY TopFrame
<1>3. PICK u : u = [Top EXCEPT !.at = "user"]
    OBVIOUS
<1>4. stack' = Append(Below, u)
    BY <1>3 DEF Done
<1>5. u \in Frames /\ u.at = "user" /\ u.c = Top.c /\ u.cb = Top.cb /\ u.reply = Top.reply
    BY <1>2, <1>3, UserFrame
<1>6. Pushed(Below, u, stack')
    BY <1>2, <1>4, <1>5, PushedOn
<1>7. /\ ShapeOK(Below)
      /\ \A p \in 1 .. Len(Below) : Below[p].at \notin {"callback", "user"}
      /\ \A c : Busy(stack, c) => Busy(Below, c) \/ (Works(Top) /\ Top.c = c)
      /\ \A c : InFlight(stack, c) => InFlight(Below, c) \/ (Pending(Top) /\ Top.c = c)
      /\ \A k : Ending(stack, k) => Ending(Below, k) \/ Ends(Top, k)
    BY <1>1, ShapePopped
<1>8. Pending(Top) /\ ~Works(Top) /\ Pending(u)
    BY <1>5 DEF Pending, Works
<1>9. Len(stack) \in Nat /\ Len(stack) > 1 /\ CalledFrom(stack[Len(stack) - 1], Top)
    BY <1>1, <1>8 DEF ShapeOK, Popped
<1>10. Len(Below) = Len(stack) - 1 /\ Len(Below) \in Nat \ {0} /\ Len(Below) \in 1 .. Len(Below)
       /\ Below[Len(Below)] = stack[Len(stack) - 1]
    BY <1>1, <1>9 DEF Popped
<1>11. CalledFrom(Below[Len(Below)], u)
    BY <1>5, <1>9, <1>10 DEF CalledFrom
<1>12. /\ ShapeOK(stack') /\ Above(Below, stack')
       /\ InFlight(stack', u.c)
    BY <1>5, <1>6, <1>7, <1>8, <1>10, <1>11, ShapePushed
<1>13. Len(stack') = Len(stack) /\ stack'[Len(stack')] = u
    BY <1>6, <1>9, <1>10 DEF Pushed
<1>14. \A p \in 1 .. Len(stack) - 1 : stack'[p] = stack[p]
    BY <1>1, <1>6, <1>10 DEF Pushed, Popped
<1>15. stack' # <<>>
    BY <1>9, <1>13
<1> QED
    BY <1>5, <1>7, <1>8, <1>12, <1>13, <1>14, <1>15 DEF Above

-----------------------------------------------------------------------------
(***************************************************************************)
(* The flags of the contexts, and their nodes.                             *)
(***************************************************************************)
\* a context is being disconnected after an error or by the user; it is in a
\* callback if one is on the stack; one that is to be freed has events only
\* as long as the library works on it
FlagsOK(a, c, st, nts) ==
    /\ "DISCONNECTING" \in a.flags => a.err \/ "disconnected" \in nts
    /\ "IN_CALLBACK" \in a.flags => InFlight(st, c)
    /\ a.ev # {} /\ ("FREEING" \in a.flags \/ a.err) => Busy(st, c)

\* redisProcessCallbacks frees its context when the callback returns
ReaderOK(acs, st) ==
    Len(st) > 0 /\ st[1].at = "process" =>
        /\ ~acs[st[1].c].err
        /\ "FREEING" \in acs[st[1].c].flags => Len(st) > 1 /\ st[2].at \in {"route", "user"}

\* a node and its context point to each other, and the context lives
LinkOK(a, d, k, st) ==
    /\ d = k
    /\ a.life = "alive"
    /\ "FREEING" \in a.flags => Ending(st, k)
LinksOK(acs, ns, ds, st) ==
    \A k \in DOMAIN ns : ns[k].acon # None => LinkOK(acs[ns[k].acon], ds[ns[k].acon], k, st)

Ordered(acs, st, ns, ds, nts) ==
    /\ ShapeOK(st)
    /\ \A c \in Contexts : FlagsOK(acs[c], c, st, nts)
    /\ ReaderOK(acs, st)
    /\ LinksOK(acs, ns, ds, st)
OrderOK == aborted = "no" => Ordered(ac, stack, nodes, data, notes)

\* the same nodes have the same contexts
SameLinks(ns, new) == DOMAIN new = DOMAIN ns /\ \A k \in DOMAIN ns : new[k].acon = ns[k].acon

\* the contexts acs, the nodes ns and the nodes ds of the contexts, when the
\* call at the top is still to return, or to go on
Before(acs, ns, ds, nts) ==
    /\ \A c \in Contexts : FlagsOK(acs[c], c, stack, nts)
    /\ ReaderOK(acs, stack)
    /\ LinksOK(acs, ns, ds, Below)

\* A callback of the user is called (Done).
LEMMA DoneOrder ==
    ASSUME NEW n \in Nat, StackOK(stack, n), ShapeOK(stack), stack # <<>>, Top.at \in {"callback", "route"},
           NEW err, Done(err), NEW acs, NEW ns, NEW ds, NEW nts, Before(acs, ns, ds, nts)
    PROVE  Ordered(acs, stack', ns, ds, nts)
<1>1. /\ ShapeOK(stack') /\ Len(stack') = Len(stack) /\ stack' # <<>>
      /\ \A p \in 1 .. Len(stack) - 1 : stack'[p] = stack[p]
      /\ stack'[Len(stack')].at = "user"
      /\ \A c : Busy(stack, c) => Busy(stack', c)
      /\ \A c : InFlight(stack, c) => InFlight(stack', c)
      /\ \A k : Ending(Below, k) => Ending(stack', k)
    BY DoneShape
<1>2. \A c \in Contexts : FlagsOK(acs[c], c, stack', nts)
    BY <1>1 DEF Before, FlagsOK
<1>3. LinksOK(acs, ns, ds, stack')
    BY <1>1 DEF Before, LinksOK, LinkOK
<1>4. ReaderOK(acs, stack')
    <2>1. Len(stack) \in Nat \ {0} /\ Top = stack[Len(stack)]
        BY TopFrame
    <2>2. Len(stack) # 1
        BY <2>1 DEF ShapeOK, Pending
    <2>3. stack'[1] = stack[1] /\ (stack'[2] = stack[2] \/ stack'[2].at = "user")
        BY <1>1, <2>1, <2>2
    <2> QED
        BY <1>1, <2>1, <2>2, <2>3 DEF Before, ReaderOK
<1> QED
    BY <1>1, <1>2, <1>3, <1>4 DEF Ordered

\* ... by a step that does nothing else to contexts and nodes.
LEMMA DoneKeepsOrder ==
    ASSUME NEW n \in Nat, StackOK(stack, n), Ordered(ac, stack, nodes, data, notes), stack # <<>>, Top.at = "callback",
           NEW err, Done(err), UNCHANGED <<ac, data, notes>>, SameLinks(nodes, nodes')
    PROVE  Ordered(ac', stack', nodes', data', notes')
<1>1. ShapeOK(stack) /\ Popped(stack, Below) /\ Top = stack[Len(stack)]
    BY TopPopped DEF Ordered
<1>2. \A k : Ending(stack, k) => Ending(Below, k)
    BY <1>1, ShapePopped DEF Ends
<1>3. LinksOK(ac, nodes', data, Below)
    BY <1>2 DEF Ordered, LinksOK, LinkOK, SameLinks
<1>4. Before(ac, nodes', data, notes)
    BY <1>3 DEF Before, Ordered
<1> QED
    BY <1>1, <1>4, DoneOrder

\* A callback returns (Back).
LEMMA BackOrder ==
    ASSUME NEW n \in Nat, StackOK(stack, n), ShapeOK(stack), stack # <<>>, Pending(Top), NEW acs, ContextsOK(acs),
           Back(acs, Top.c, Below), NEW ns, Keyed(ns), NEW ds, NEW nts, Before(acs, ns, ds, nts)
    PROVE  /\ Ordered(ac', stack', ns, ds, nts)
           /\ \A p \in 1 .. Len(stack') : stack'[p] = Below[p] \/ stack'[p].at = "free"
           /\ \A p \in 1 .. Len(stack') : Pending(stack'[p]) => p \in 1 .. Len(Below) /\ stack'[p] = Below[p]
           /\ \A c : Busy(stack', c) => Busy(stack, c)
<1>1. /\ Popped(stack, Below) /\ Len(stack) \in 1 .. Len(stack) /\ Top = stack[Len(stack)]
      /\ StackOK(Below, n) /\ Top.c \in Contexts /\ Len(stack) \in Nat \ {0}
    BY TopPopped, TopFrame DEF Pending
<1>2. /\ ShapeOK(Below)
      /\ \A c : Busy(stack, c) => Busy(Below, c)
      /\ \A c : InFlight(stack, c) => InFlight(Below, c) \/ Top.c = c
    BY <1>1, ShapePopped DEF Works, Pending
<1>3. Len(stack) > 1 /\ CalledFrom(stack[Len(stack) - 1], Top)
    BY <1>1 DEF ShapeOK
<1>4. Len(Below) = Len(stack) - 1 /\ Len(Below) \in Nat \ {0} /\ \A p \in 1 .. Len(Below) : Below[p] = stack[p]
    BY <1>1, <1>3 DEF Popped
<1>5. /\ OthersSame(acs, ac', Top.c) /\ Kept(acs[Top.c], ac'[Top.c])
      /\ ac'[Top.c].flags = acs[Top.c].flags \ {"IN_CALLBACK"}
      /\ \/ /\ stack' = Below
            /\ Below[Len(Below)].at # "process" \/ "FREEING" \notin acs[Top.c].flags
         \/ /\ Below[Len(Below)].at = "process" /\ "FREEING" \in acs[Top.c].flags
            /\ FreeCalled(SubSeq(Below, 1, Len(Below) - 1), Top.c)
    BY <1>1, Returned
<1>6. \A c \in Contexts : /\ ac'[c].life = acs[c].life /\ ac'[c].err = acs[c].err /\ ac'[c].ev = acs[c].ev
                          /\ \A flag : flag \in ac'[c].flags => flag \in acs[c].flags
                          /\ c = Top.c => "IN_CALLBACK" \notin ac'[c].flags
    BY <1>5 DEF OthersSame, Kept
<1> HIDE DEF Below
<1>7. ASSUME ShapeOK(stack'), \A c : Busy(stack, c) => Busy(stack', c),
             \A c : InFlight(stack, c) => InFlight(stack', c) \/ Top.c = c,
             \A k : Ending(Below, k) => Ending(stack', k),
             ReaderOK(ac', stack')
      PROVE  Ordered(ac', stack', ns, ds, nts)
    <2>1. \A c \in Contexts : FlagsOK(ac'[c], c, stack', nts)
        <3> SUFFICES ASSUME NEW c \in Contexts PROVE FlagsOK(ac'[c], c, stack', nts)
            OBVIOUS
        <3>1. FlagsOK(acs[c], c, stack, nts)
            BY DEF Before
        <3> QED
            BY <1>6, <1>7, <3>1 DEF FlagsOK
    <2>2. LinksOK(ac', ns, ds, stack')
        <3> SUFFICES ASSUME NEW k \in DOMAIN ns, ns[k].acon # None PROVE LinkOK(ac'[ns[k].acon], ds[ns[k].acon], k, stack')
            BY DEF LinksOK
        <3>1. LinkOK(acs[ns[k].acon], ds[ns[k].acon], k, Below)
            BY DEF Before, LinksOK
        <3>2. ns[k].acon \in Contexts
            BY DEF Keyed, Pairs
        <3> QED
            BY <1>6, <1>7, <3>1, <3>2 DEF LinkOK
    <2> QED
        BY <1>7, <2>1, <2>2 DEF Ordered
<1>8. CASE /\ stack' = Below
           /\ Below[Len(Below)].at # "process" \/ "FREEING" \notin acs[Top.c].flags
    <2>1. ReaderOK(ac', stack')
        <3>1. Below[1] = stack[1] /\ (Len(Below) > 1 => Below[2] = stack[2]) /\ 1 \in 1 .. Len(Below)
            BY <1>4
        <3>2. Below[1].at = "process" => Below[1].c \in Contexts
            <4>1. Below[1] \in Frames
                BY <1>1, <3>1 DEF StackOK
            <4> QED
                BY <4>1, FrameFields
        <3>3. ReaderOK(acs, stack)
            BY DEF Before
        <3>4. CASE Len(Below) > 1
            BY <1>3, <1>6, <1>8, <3>1, <3>2, <3>3, <3>4 DEF ReaderOK
        <3>5. CASE Len(Below) = 1
            <4>1. Below[1].c = Top.c
                BY <1>3, <1>4, <3>1, <3>5 DEF CalledFrom
            <4> QED
                BY <1>1, <1>3, <1>6, <1>8, <3>1, <3>2, <3>3, <3>5, <4>1 DEF ReaderOK
        <3> QED
            BY <1>4, <3>4, <3>5
    <2>2. Ordered(ac', stack', ns, ds, nts)
        BY <1>2, <1>7, <1>8, <2>1
    <2>3. \A c : Busy(Below, c) => Busy(stack, c)
        <3>1. \A p \in 1 .. Len(Below) : p \in 1 .. Len(stack) /\ Below[p] = stack[p]
            BY <1>4
        <3> QED
            BY <3>1 DEF Busy
    <2> QED
        BY <1>8, <2>2, <2>3
<1>9. CASE /\ Below[Len(Below)].at = "process"
           /\ FreeCalled(SubSeq(Below, 1, Len(Below) - 1), Top.c)
    <2>1. Len(Below) = 1
        BY <1>1, <1>4, <1>9 DEF StackOK
    <2>2. PICK f \in Frames : f.at = "free" /\ f.c = Top.c /\ stack' = Append(SubSeq(Below, 1, Len(Below) - 1), f)
        BY <1>9 DEF FreeCalled
    <2>3. SubSeq(Below, 1, Len(Below) - 1) = <<>>
        <3>1. Len(SubSeq(Below, 1, Len(Below) - 1)) = 0
            BY <1>1, <2>1 DEF StackOK
        <3> QED
            BY <1>1, <3>1, StackPopped DEF StackOK
    <2>4. stack' = Append(<<>>, f)
        BY <2>2, <2>3
    <2>5. Len(stack') = 1 /\ stack'[1] = f /\ 1 \in 1 .. Len(stack') /\ \A p \in 1 .. Len(stack') : p = 1
        BY <2>2, <2>4
    <2>6. ShapeOK(stack')
        BY <2>2, <2>5 DEF ShapeOK, Pending
    <2>7. ReaderOK(ac', stack')
        BY <2>2, <2>5 DEF ReaderOK
    <2>8. stack[1].c = Top.c /\ Works(stack[1]) /\ Len(stack) = 2 /\ stack[1] = Below[1]
        <3>1. Len(stack) = 2 /\ 1 \in 1 .. Len(Below)
            <4>1. Len(stack) \in Nat /\ Len(Below) = Len(stack) - 1
                BY <1>1, <1>4
            <4>2. \A l \in Nat : \A m : m = 1 /\ m = l - 1 => l = 2 /\ 1 \in 1 .. m
                OBVIOUS
            <4> QED
                BY <2>1, <4>1, <4>2, Zenon
        <3>2. stack[1] = Below[1] /\ stack[Len(stack) - 1] = stack[1]
            BY <1>4, <3>1
        <3>3. CalledFrom(stack[1], Top)
            BY <1>3, <3>2
        <3> QED
            BY <3>1, <3>2, <3>3 DEF CalledFrom, Works
    <2>9. \A c : Busy(stack, c) <=> c = Top.c
        <3>1. 1 .. Len(stack) = {1, 2} /\ Top = stack[2]
            BY <1>1, <2>8
        <3> QED
            BY <2>8, <3>1 DEF Busy, Works, Pending
    <2>10. \A c : Busy(stack', c) <=> c = Top.c
        BY <2>2, <2>5 DEF Busy, Works
    <2>11. \A c : InFlight(stack, c) => Top.c = c
        <3>1. 1 .. Len(stack) = {1, 2} /\ Top = stack[2]
            BY <1>1, <2>8
        <3> QED
            BY <2>8, <3>1 DEF InFlight, Works, Pending
    <2>12. \A k : ~Ending(Below, k)
        <3>1. 1 .. Len(Below) = {1}
            BY <2>1
        <3> QED
            BY <1>9, <2>1, <3>1 DEF Ending, Ends
    <2>13. Ordered(ac', stack', ns, ds, nts)
        BY <1>7, <2>6, <2>7, <2>9, <2>10, <2>11, <2>12
    <2> QED
        BY <2>2, <2>5, <2>9, <2>10, <2>13 DEF Pending
<1> QED
    BY <1>5, <1>8, <1>9

\* A callback that runs while no nodes are being freed is in the only call of
\* the library.
LEMMA Alone ==
    ASSUME NEW n \in Nat, StackOK(stack, n), ShapeOK(stack), stack # <<>>, Top.at \in {"callback", "user"},
           Top.reply # NULL \/ ~Freeing
    PROVE  /\ Len(stack) = 2 /\ Top = stack[2] /\ Works(stack[1]) /\ stack[1].c = Top.c
           /\ \A k : ~Ending(stack, k)
<1>1. Popped(stack, Below) /\ Len(stack) \in 1 .. Len(stack) /\ Top = stack[Len(stack)] /\ Pending(Top)
    BY TopPopped DEF Pending
<1>2. Len(stack) \in Nat \ {0} /\ Len(stack) > 1 /\ CalledFrom(stack[Len(stack) - 1], Top)
    BY <1>1 DEF Popped, ShapeOK
<1>3. Len(stack) - 1 \in 1 .. Len(stack) /\ 1 \in 1 .. Len(stack) /\ 2 \in 1 .. Len(stack)
    BY <1>2
<1>4. DOMAIN stack = 1 .. Len(stack)
    BY DEF StackOK
<1>5. Len(stack) = 2
    <2>1. CASE Top.reply # NULL
        BY <1>1, <2>1, Reading
    <2>2. CASE Top.reply = NULL /\ ~Freeing
        <3>1. stack[Len(stack) - 1].at = "free"
            BY <1>2, <2>2 DEF CalledFrom
        <3>2. ~FreedFor(stack)
            BY <1>3, <1>4, <2>2 DEF FreedFor, Freeing
        <3>3. ~(Len(stack) - 1 > 1)
            BY <1>3, <3>1, <3>2 DEF ShapeOK
        <3>4. \A m \in Nat : m > 1 /\ ~(m - 1 > 1) => m = 2
            OBVIOUS
        <3> QED
            BY <1>2, <3>3, <3>4
    <2> QED
        BY <2>1, <2>2
<1>6. Works(stack[1]) /\ stack[1].c = Top.c /\ Top = stack[2] /\ 1 .. Len(stack) = {1, 2}
    BY <1>1, <1>2, <1>5 DEF CalledFrom, Works
<1>7. \A k : ~Ending(stack, k)
    BY <1>6 DEF Ending, Ends, Works
<1> QED
    BY <1>5, <1>6, <1>7

\* the route t is read in the callback at the top of the stack
RouteRead(t) ==
    LET cs == ContextsOf(DOMAIN nodes \ Listed(t))
    IN  /\ \A c \in Contexts : Kept(ac[c], ac'[c])
        /\ \A c \in Contexts : ac'[c].flags = IF c \in cs THEN ac[c].flags \cup {"FREEING"} ELSE ac[c].flags
        /\ ShapeOK(stack') /\ Len(stack') \in Nat /\ Len(stack') > 1
        /\ stack'[1] = stack[1]
        /\ stack'[2] = [at |-> "route", c |-> Top.c, cb |-> Top.cb, reply |-> Top.reply, table |-> t]
        /\ \A p \in 1 .. Len(stack') : p > 2 => stack'[p].at = "free" /\ stack'[p].c \in cs
        /\ \A c \in cs : "IN_CALLBACK" \notin ac[c].flags => Busy(stack', c)

\* UpdateRoute.
LEMMA RouteBegins ==
    ASSUME Inv, aborted = "no", ShapeOK(stack), stack # <<>>, Top.at = "callback", Top.reply # NULL \/ ~Freeing,
           UpdateRoute
    PROVE  \E t \in {owner, before} : t \in Routes /\ RouteRead(t)
<1>1. StackOK(stack, Len(cads)) /\ Len(cads) \in Nat /\ ContextsOK(ac) /\ Pending(Top)
    BY Running DEF Pending
<1>2. PICK t \in {owner, before} :
        LET cs == ContextsOf(DOMAIN nodes \ Listed(t))
            acs == WithFlag(cs, "FREEING")
            now == {c \in cs : "IN_CALLBACK" \notin ac[c].flags}
        IN  /\ ac' = acs
            /\ stack' = Append(Below, [at |-> "route", c |-> Top.c, cb |-> Top.cb, reply |-> Top.reply, table |-> t])
                        \o FreeFrames(SetToSeq(now), acs)
    BY DEF UpdateRoute
<1> DEFINE cs == ContextsOf(DOMAIN nodes \ Listed(t))
           now == {c \in cs : "IN_CALLBACK" \notin ac[c].flags}
           r == [at |-> "route", c |-> Top.c, cb |-> Top.cb, reply |-> Top.reply, table |-> t]
           mid == Append(Below, r)
           fs == FreeFrames(SetToSeq(now), ac')
<1>3. ac' = WithFlag(cs, "FREEING") /\ stack' = mid \o fs
    BY <1>2
<1>4. t \in Routes
    BY Running DEF TypeOK, ServersOK
<1>5. cs \in SUBSET Contexts
    <2>1. Keyed(nodes)
        BY Running DEF RouteOK
    <2> QED
        BY <2>1 DEF ContextsOf, Keyed, Pairs
<1>6. now \in SUBSET Contexts
    BY <1>5
<1>7. Top.c \in Contexts /\ Top.cb \in Callbacks \ {NullCb} /\ Top.reply \in Results /\ Top.cb.id \in 1 .. Len(cads)
    BY <1>1, TopFrame DEF Pending
<1>8. r \in Frames /\ r.at = "route" /\ r.c = Top.c /\ r.cb = Top.cb /\ r.reply = Top.reply
    BY <1>4, <1>7 DEF Frames
<1>9. \A c \in now : c \in cs
    OBVIOUS
<1>10. \A c \in cs : "IN_CALLBACK" \notin ac[c].flags => c \in now
    OBVIOUS
<1> HIDE DEF cs, now
<1>11. /\ ContextsOK(ac')
       /\ \A c \in Contexts : Kept(ac[c], ac'[c])
       /\ \A c \in Contexts : ac'[c].flags = IF c \in cs THEN ac[c].flags \cup {"FREEING"} ELSE ac[c].flags
    <2>1. PICK acs : acs = WithFlag(cs, "FREEING")
        OBVIOUS
    <2>2. /\ ContextsOK(acs)
          /\ \A c \in Contexts : Kept(ac[c], acs[c])
          /\ \A c \in Contexts : acs[c].flags = IF c \in cs THEN ac[c].flags \cup {"FREEING"} ELSE ac[c].flags
        <3>1. ContextsOK(acs) /\ (\A c \in Contexts : Kept(ac[c], acs[c]))
            BY <1>1, <2>1, FlagGiven
        <3>2. ASSUME NEW c \in Contexts
              PROVE  acs[c].flags = IF c \in cs THEN ac[c].flags \cup {"FREEING"} ELSE ac[c].flags
            <4>1. CASE c \in cs
                BY <1>1, <2>1, <4>1, FlagGiven
            <4>2. CASE c \notin cs
                BY <2>1, <4>2 DEF WithFlag
            <4> QED
                BY <4>1, <4>2
        <3> QED
            BY <3>1, <3>2
    <2> QED
        BY <1>3, <2>1, <2>2
<1>12. /\ fs \in Seq(Frames) /\ \A i \in 1 .. Len(fs) : fs[i].at = "free" /\ fs[i].c \in now
       /\ \A c \in now : \E i \in 1 .. Len(fs) : fs[i].c = c
    BY <1>6, <1>11, FreedInOrder
<1> HIDE DEF r, fs
<1>13. Len(stack) = 2 /\ Top = stack[2] /\ Works(stack[1]) /\ stack[1].c = Top.c
    BY <1>1, Alone
<1>14. Popped(stack, Below) /\ StackOK(Below, Len(cads))
    BY <1>1, TopPopped, TopFrame
<1>15. Len(Below) = 1 /\ Below[1] = stack[1]
    BY <1>13, <1>14 DEF Popped
<1>16. Pushed(Below, r, mid)
    BY <1>1, <1>8, <1>14, PushedOn
<1>17. ShapeOK(Below)
    BY <1>14, ShapePopped
<1>18. CalledFrom(Below[1], r)
    <2>1. CalledFrom(stack[1], stack[2])
        BY <1>1, <1>13 DEF ShapeOK
    <2> QED
        BY <1>8, <1>13, <1>15, <2>1 DEF CalledFrom
<1>19. Below[1].at \notin {"callback", "user"}
    BY <1>13, <1>15 DEF Works
<1>20. ShapeOK(mid)
    BY <1>8, <1>15, <1>16, <1>17, <1>18, <1>19, ShapePushed
<1>21. Len(mid) = 2 /\ mid[1] = stack[1] /\ mid[2] = r
    BY <1>15, <1>16 DEF Pushed
<1>22. StackOK(mid, Len(cads))
    BY <1>1, <1>7, <1>8, <1>14, StackPushed
<1> HIDE DEF mid
<1>23. mid[Len(mid)].at \notin {"callback", "user"} /\ Len(mid) > 1 /\ Len(mid) > 0 /\ mid[2].at = "route"
    BY <1>8, <1>21
<1>24. /\ ShapeOK(stack')
       /\ \A i \in 1 .. Len(fs) : Busy(stack', fs[i].c)
    BY <1>1, <1>3, <1>12, <1>20, <1>22, <1>23, ShapeJoined
<1>25. /\ Len(fs) \in Nat
       /\ Len(stack') = 2 + Len(fs)
       /\ \A p \in 1 .. 2 : stack'[p] = mid[p]
       /\ \A p \in 3 .. 2 + Len(fs) : stack'[p] = fs[p - 2]
    <2>1. /\ Len(fs) \in Nat
          /\ Len(mid \o fs) = Len(mid) + Len(fs)
          /\ \A p \in 1 .. Len(mid) : (mid \o fs)[p] = mid[p]
          /\ \A p \in Len(mid) + 1 .. Len(mid) + Len(fs) : (mid \o fs)[p] = fs[p - Len(mid)]
        BY <1>1, <1>12, <1>22, StackJoined
    <2> QED
        BY <1>3, <1>21, <2>1
<1>26. Len(stack') \in Nat /\ Len(stack') > 1 /\ stack'[1] = stack[1] /\ stack'[2] = r
    BY <1>21, <1>25
<1>27. ASSUME NEW p \in 1 .. Len(stack'), p > 2
       PROVE  stack'[p].at = "free" /\ stack'[p].c \in cs
    <2>1. p \in 3 .. 2 + Len(fs) /\ p - 2 \in 1 .. Len(fs)
        BY <1>25, <1>27
    <2> QED
        BY <1>9, <1>12, <1>25, <2>1
<1>28. \A c \in cs : "IN_CALLBACK" \notin ac[c].flags => Busy(stack', c)
    BY <1>10, <1>12, <1>24
<1>29. RouteRead(t)
    BY <1>11, <1>24, <1>26, <1>27, <1>28 DEF RouteRead, r, cs
<1> QED
    BY <1>4, <1>29

\* A step in which the route is read.
LEMMA UpdateOrder ==
    ASSUME Inv, aborted = "no", Ordered(ac, stack, nodes, data, notes), stack # <<>>, Top.at = "callback",
           Top.reply # NULL \/ ~Freeing, UpdateRoute, UNCHANGED <<nodes, data, notes>>
    PROVE  Ordered(ac', stack', nodes', data', notes')
<1>1. StackOK(stack, Len(cads)) /\ Len(cads) \in Nat /\ ContextsOK(ac) /\ ShapeOK(stack)
    BY Running DEF Ordered
<1>2. PICK t \in {owner, before} : t \in Routes /\ RouteRead(t)
    BY <1>1, RouteBegins
<1>3. Len(stack) = 2 /\ Top = stack[2] /\ Works(stack[1]) /\ stack[1].c = Top.c /\ \A k : ~Ending(stack, k)
    BY <1>1, Alone
<1> DEFINE cs == ContextsOf(DOMAIN nodes \ Listed(t))
<1>4. /\ \A c \in Contexts : Kept(ac[c], ac'[c])
      /\ \A c \in Contexts : ac'[c].flags = IF c \in cs THEN ac[c].flags \cup {"FREEING"} ELSE ac[c].flags
      /\ ShapeOK(stack') /\ Len(stack') \in Nat /\ Len(stack') > 1
      /\ stack'[1] = stack[1]
      /\ \A c \in cs : "IN_CALLBACK" \notin ac[c].flags => Busy(stack', c)
    BY <1>2 DEF RouteRead
<1>5. /\ stack'[2].at = "route" /\ stack'[2].c = Top.c /\ stack'[2].table = t
    BY <1>2 DEF RouteRead
<1>6. 1 \in 1 .. Len(stack') /\ 2 \in 1 .. Len(stack')
    BY <1>4
<1>7. \A c : (Busy(stack, c) => c = Top.c) /\ (InFlight(stack, c) => c = Top.c)
    BY <1>3 DEF Busy, InFlight
<1>8. Busy(stack', Top.c) /\ InFlight(stack', Top.c)
    BY <1>3, <1>4, <1>5, <1>6 DEF Busy, InFlight, Pending
<1>9. ASSUME NEW c \in Contexts PROVE FlagsOK(ac'[c], c, stack', notes')
    <2>1. FlagsOK(ac[c], c, stack, notes)
        BY DEF Ordered
    <2>2. c \in cs => Busy(stack', c)
        BY <1>4, <1>7, <1>8, <2>1 DEF FlagsOK
    <2>3. ac'[c].err = ac[c].err /\ ac'[c].ev = ac[c].ev
        BY <1>4 DEF Kept
    <2> HIDE DEF cs
    <2>4. \A flag : flag \in ac'[c].flags => flag \in ac[c].flags \/ (c \in cs /\ flag = "FREEING")
        <3>1. ac'[c].flags = IF c \in cs THEN ac[c].flags \cup {"FREEING"} ELSE ac[c].flags
            BY <1>4
        <3>2. CASE c \in cs
            <4>1. ac'[c].flags = ac[c].flags \cup {"FREEING"}
                BY <3>1, <3>2
            <4> QED
                BY <3>2, <4>1
        <3>3. CASE c \notin cs
            BY <3>1, <3>3
        <3> QED
            BY <3>2, <3>3
    <2>5. (InFlight(stack, c) => InFlight(stack', c)) /\ (Busy(stack, c) => Busy(stack', c))
        BY <1>7, <1>8
    <2> QED
        BY <2>1, <2>2, <2>3, <2>4, <2>5 DEF FlagsOK
<1>10. ReaderOK(ac', stack')
    <2>1. ASSUME stack[1].at = "process" PROVE ~ac'[stack[1].c].err
        <3>1. ~ac[stack[1].c].err /\ stack[1].c \in Contexts
            BY <1>1, <1>3, <2>1, TopFrame DEF Ordered, ReaderOK, Pending
        <3> QED
            BY <1>4, <3>1 DEF Kept
    <2> QED
        BY <1>4, <1>5, <2>1 DEF ReaderOK
<1>11. LinksOK(ac', nodes', data', stack')
    <2> SUFFICES ASSUME NEW k \in DOMAIN nodes, nodes[k].acon # None
                 PROVE  LinkOK(ac'[nodes[k].acon], data[nodes[k].acon], k, stack')
        BY DEF LinksOK
    <2> DEFINE c == nodes[k].acon
    <2>1. c \in Contexts
        BY Running DEF RouteOK, Keyed, Pairs
    <2>2. data[c] = k /\ ac[c].life = "alive" /\ "FREEING" \notin ac[c].flags
        BY <1>3 DEF Ordered, LinksOK, LinkOK
    <2>3. c \in cs => Ending(stack', k)
        <3> SUFFICES ASSUME c \in cs PROVE Ending(stack', k)
            OBVIOUS
        <3>1. PICK j \in DOMAIN nodes \ Listed(t) : nodes[j].acon = c
            BY DEF ContextsOf
        <3>2. data[c] = j
            BY <3>1 DEF Ordered, LinksOK, LinkOK
        <3>3. Ends(stack'[2], k)
            BY <1>5, <2>2, <3>1, <3>2 DEF Ends
        <3> QED
            BY <1>6, <3>3 DEF Ending
    <2>4. c \notin cs => "FREEING" \notin ac'[c].flags
        BY <1>4, <2>1, <2>2
    <2> QED
        BY <1>4, <2>1, <2>2, <2>3, <2>4 DEF LinkOK, Kept
<1> QED
    BY <1>4, <1>9, <1>10, <1>11 DEF Ordered

\* The command of the call at the top has been sent to the context c: acs were
\* the contexts, and then are when the callback is to return; or it has been
\* dropped.
SentBack(acs, then, c) ==
    /\ Back(then, Top.c, Below)
    /\ OthersSame(acs, then, c)
    /\ then[c].life = acs[c].life /\ then[c].flags = acs[c].flags /\ then[c].err = acs[c].err
    /\ then[c].ibuf = acs[c].ibuf
    /\ \A i : Held(then, i) => Held(acs, i) \/ i = 0 \/ (i = Id /\ Accepts(acs[c], "get"))
    /\ \/ Accepts(acs[c], "get") /\ cads' = cads
       \/ ~Accepts(acs[c], "get") /\ then[c].ev = acs[c].ev /\ cads' = [cads EXCEPT ![Id] = "dropped"]
    /\ UNCHANGED <<accErr, answers, aborted>>

\* A command is sent: the callbacks that are waited for.
LEMMA SentHeld ==
    ASSUME NEW acs, ContextsOK(acs), NEW c \in Contexts, NEW cmd \in Commands, NEW cb \in Callbacks, NEW then,
           SentAs(acs, then, c, cmd, cb)
    PROVE  \A i : Held(then, i) => Held(acs, i) \/ i = cb.id
<1>1. OthersSame(acs, then, c) /\ then[c].replies = Append(acs[c].replies, cb)
    BY SentTo
<1>2. acs[c].replies \in Seq(Callbacks)
    BY DEF ContextsOK, IsContext
<1>3. /\ Len(Append(acs[c].replies, cb)) = Len(acs[c].replies) + 1 /\ Len(acs[c].replies) \in Nat
      /\ Append(acs[c].replies, cb)[Len(acs[c].replies) + 1] = cb
      /\ \A k \in 1 .. Len(acs[c].replies) : Append(acs[c].replies, cb)[k] = acs[c].replies[k]
    BY <1>2, AppendProperties
<1> SUFFICES ASSUME NEW i, Held(then, i) PROVE Held(acs, i) \/ i = cb.id
    OBVIOUS
<1>4. PICK d \in Contexts : \E k \in 1 .. Len(then[d].replies) : then[d].replies[k].id = i
    BY DEF Held
<1>7. PICK k \in 1 .. Len(then[d].replies) : then[d].replies[k].id = i
    BY <1>4
<1>5. CASE d # c
    BY <1>1, <1>5, <1>7 DEF OthersSame, Held
<1>6. CASE d = c
    <2>1. k \in 1 .. Len(acs[c].replies) \/ k = Len(acs[c].replies) + 1
        BY <1>1, <1>3, <1>6, <1>7
    <2>2. then[c].replies[k] = cb \/ (k \in 1 .. Len(acs[c].replies) /\ then[c].replies[k] = acs[c].replies[k])
        BY <1>1, <1>3, <2>1
    <2> QED
        BY <1>6, <1>7, <2>2 DEF Held
<1> QED
    BY <1>5, <1>6

\* Retry.
LEMMA RetryContexts ==
    ASSUME StackOK(stack, Len(cads)), CommandsOK, stack # <<>>, Top.at \in {"callback", "route"},
           NEW acs, ContextsOK(acs), NEW c \in Contexts, NEW asking \in BOOLEAN, Retry(acs, c, asking)
    PROVE  \E then : ContextsOK(then) /\ SentBack(acs, then, c)
<1> DEFINE i == Id
           cmd == cmds[i]
           ask == ASKING(cmd.slot)
<1>1. Len(cads) \in Nat /\ Pending(Top)
    BY DEF CommandsOK, Pending
<1>2. i \in 1 .. Len(cads)
    BY <1>1, TopFrame DEF Id
<1>3. /\ cmd \in Commands /\ ask \in Commands
      /\ Callback(i) \in Callbacks /\ Callback(i).id = i /\ i # 0
    BY <1>2, UserCommand
<1>4. CASE Accepts(acs[c], "get")
    <2> DEFINE ready == IF asking THEN Sent(acs, c, ask, NullCb) ELSE acs
    <2>1. Back(Sent(ready, c, cmd, Callback(i)), Top.c, Below) /\ UNCHANGED <<cads, accErr, answers, aborted>>
        BY <1>4 DEF Retry
    <2>2. PICK mid : mid = ready
        OBVIOUS
    <2>3. PICK then : SentAs(mid, then, c, cmd, Callback(i))
        BY DEF SentAs
    <2>4. Back(then, Top.c, Below)
        BY <2>1, <2>2, <2>3 DEF SentAs
    <2>5. /\ ContextsOK(mid) /\ OthersSame(acs, mid, c)
          /\ mid[c].life = acs[c].life /\ mid[c].flags = acs[c].flags /\ mid[c].err = acs[c].err
          /\ mid[c].ibuf = acs[c].ibuf
          /\ \A j : Held(mid, j) => Held(acs, j) \/ j = 0
        <3>1. CASE ~asking
            BY <2>2, <3>1 DEF OthersSame
        <3>2. CASE asking
            <4>1. SentAs(acs, mid, c, ask, NullCb)
                BY <2>2, <3>2 DEF SentAs
            <4> HIDE DEF ready, ask, cmd, i
            <4>2. NullCb \in Callbacks /\ NullCb.id = 0
                BY NoCallback
            <4>3. /\ ContextsOK(mid) /\ OthersSame(acs, mid, c)
                  /\ mid[c].life = acs[c].life /\ mid[c].flags = acs[c].flags /\ mid[c].err = acs[c].err
                  /\ mid[c].ibuf = acs[c].ibuf
                BY <1>3, <4>1, <4>2, SentTo
            <4>4. \A j : Held(mid, j) => Held(acs, j) \/ j = NullCb.id
                BY <1>3, <4>1, <4>2, SentHeld
            <4> QED
                BY <4>2, <4>3, <4>4
        <3> QED
            BY <3>1, <3>2
    <2> HIDE DEF ready, ask, cmd, i
    <2>6. /\ ContextsOK(then) /\ OthersSame(mid, then, c)
          /\ then[c].life = mid[c].life /\ then[c].flags = mid[c].flags /\ then[c].err = mid[c].err
          /\ then[c].ibuf = mid[c].ibuf
        BY <1>3, <2>3, <2>5, SentTo
    <2>7. \A j : Held(then, j) => Held(mid, j) \/ j = Callback(i).id
        BY <1>3, <2>3, <2>5, SentHeld
    <2>8. OthersSame(acs, then, c)
        BY <2>5, <2>6 DEF OthersSame
    <2>9. \A j : Held(then, j) => Held(acs, j) \/ j = 0 \/ (j = Id /\ Accepts(acs[c], "get"))
        BY <1>3, <1>4, <2>5, <2>7 DEF i
    <2> QED
        BY <1>4, <2>1, <2>4, <2>5, <2>6, <2>8, <2>9 DEF SentBack
<1>5. CASE ~Accepts(acs[c], "get")
    <2>1. /\ Back(acs, Top.c, Below)
          /\ cads' = [cads EXCEPT ![Id] = "dropped"]
          /\ UNCHANGED <<accErr, answers, aborted>>
        BY <1>5 DEF Retry
    <2> QED
        BY <1>5, <2>1 DEF SentBack, OthersSame
<1> QED
    BY <1>4, <1>5

\* ... to a context without an error.
LEMMA RetryOrder ==
    ASSUME StackOK(stack, Len(cads)), CommandsOK, ShapeOK(stack), stack # <<>>, Top.at \in {"callback", "route"},
           NEW acs, ContextsOK(acs), NEW c \in Contexts, ~acs[c].err, NEW asking \in BOOLEAN, Retry(acs, c, asking),
           NEW ns, Keyed(ns), NEW ds, NEW nts, Before(acs, ns, ds, nts)
    PROVE  Ordered(ac', stack', ns, ds, nts) /\ \A d : Busy(stack', d) => Busy(stack, d)
<1>1. PICK then : ContextsOK(then) /\ SentBack(acs, then, c)
    BY RetryContexts
<1>2. /\ Back(then, Top.c, Below) /\ OthersSame(acs, then, c)
      /\ then[c].life = acs[c].life /\ then[c].flags = acs[c].flags /\ then[c].err = acs[c].err
      /\ Accepts(acs[c], "get") \/ then[c].ev = acs[c].ev
    BY <1>1 DEF SentBack
<1>3. \A d \in Contexts : then[d].life = acs[d].life /\ then[d].flags = acs[d].flags /\ then[d].err = acs[d].err
    BY <1>2 DEF OthersSame
<1>4. Before(then, ns, ds, nts)
    <2>1. ASSUME NEW d \in Contexts PROVE FlagsOK(then[d], d, stack, nts)
        <3>1. FlagsOK(acs[d], d, stack, nts)
            BY DEF Before
        <3>2. CASE d # c
            BY <1>2, <3>1, <3>2 DEF OthersSame
        <3>3. CASE d = c
            <4>1. Accepts(acs[c], "get") => "FREEING" \notin acs[c].flags
                BY DEF Accepts
            <4> QED
                BY <1>2, <3>1, <3>3, <4>1 DEF FlagsOK
        <3> QED
            BY <3>2, <3>3
    <2>2. ReaderOK(then, stack)
        <3>1. ASSUME Len(stack) > 0, stack[1].at = "process" PROVE stack[1].c \in Contexts
            <4>1. stack[1] \in Frames
                BY <3>1 DEF StackOK
            <4> QED
                BY <3>1, <4>1, FrameFields
        <3> QED
            BY <1>3, <3>1 DEF Before, ReaderOK
    <2>3. LinksOK(then, ns, ds, Below)
        <3> SUFFICES ASSUME NEW k \in DOMAIN ns, ns[k].acon # None
                     PROVE  LinkOK(then[ns[k].acon], ds[ns[k].acon], k, Below)
            BY DEF LinksOK
        <3>1. LinkOK(acs[ns[k].acon], ds[ns[k].acon], k, Below)
            BY DEF Before, LinksOK
        <3>2. ns[k].acon \in Contexts
            BY DEF Keyed, Pairs
        <3> QED
            BY <1>3, <3>1, <3>2 DEF LinkOK
    <2> QED
        BY <2>1, <2>2, <2>3 DEF Before
<1>5. Pending(Top) /\ Len(cads) \in Nat
    BY DEF Pending, CommandsOK
<1> QED
    BY <1>1, <1>2, <1>4, <1>5, BackOrder

\* a context was got for a node with the context of the node k, or with none
GotAt(node, got, ns, key) ==
    /\ node.acon \in Contexts \cup {None} /\ got \in actx_get_by_node(node)
    /\ node.acon # None => key \in DOMAIN ns /\ ns[key].acon = node.acon

\* the contexts acs, the nodes ns and the nodes ds of the contexts, apart from
\* the stack for which nodes are being freed
Apart(acs, ns, ds, nts, low) ==
    /\ \A c \in Contexts : FlagsOK(acs[c], c, stack, nts)
    /\ ReaderOK(acs, stack)
    /\ LinksOK(acs, ns, ds, low)

\* A context is got for a node, and linked to it.
LEMMA GotOrder ==
    ASSUME ContextsOK(ac), net \in [Contexts -> Connections], StackOK(stack, Len(cads)),
           \A p \in 1 .. Len(stack) : stack[p].at = "process" => ac[stack[p].c].life # "unused",
           NEW ns, Keyed(ns), NEW ds, OnContexts(ds), NEW nts, NEW low, Apart(ac, ns, ds, nts, low),
           NEW key, NEW node, NEW got, GotAt(node, got, ns, key),
           NEW server \in Servers, Link(got, key, server, ns, ds)
    PROVE  /\ Apart(WithContext(got), nodes', data', nts, low)
           /\ ContextsOK(WithContext(got)) /\ Keyed(nodes') /\ DOMAIN nodes' = DOMAIN ns
           /\ \A i : Held(WithContext(got), i) => Held(ac, i)
           /\ ~got.err => /\ got.c \in Contexts /\ ~WithContext(got)[got.c].err
                          /\ \/ WithContext(got)[got.c].flags = {}
                             \/ /\ key \in DOMAIN ns /\ ns[key].acon = got.c
                                /\ WithContext(got)[got.c] = ac[got.c]
<1> DEFINE acs == WithContext(got)
<1>1. /\ got.fresh \in BOOLEAN /\ got.err \in BOOLEAN
      /\ got.fresh \/ ~got.err => got.c \in Contexts
      /\ ContextsOK(acs)
      /\ ~got.fresh => acs = ac
      /\ ~got.fresh /\ ~got.err => got.c = node.acon /\ node.acon # None /\ ~ac[got.c].err
      /\ got.fresh => /\ OthersSame(ac, acs, got.c)
                      /\ ac[got.c].life = "unused"
                      /\ acs[got.c].life = "alive" /\ acs[got.c].flags = {} /\ acs[got.c].err = got.err
                      /\ acs[got.c].replies = <<>>
                      /\ acs[got.c].ev = IF got.err THEN {} ELSE {"w"}
    BY GotContext DEF GotAt
<1> HIDE DEF acs
<1>2. LinkedTo(ns, key, got) /\ \A c \in Contexts : data'[c] = IF got.fresh /\ c = got.c THEN key ELSE ds[c]
    BY <1>1, Linked
<1>3. /\ Keyed(nodes') /\ DOMAIN nodes' = DOMAIN ns
      /\ \A k \in DOMAIN ns : nodes'[k].acon = IF got.fresh /\ k = key THEN got.c ELSE ns[k].acon
    BY <1>2 DEF LinkedTo
<1>4. ASSUME NEW c \in Contexts PROVE FlagsOK(acs[c], c, stack, nts)
    <2>1. FlagsOK(ac[c], c, stack, nts)
        BY DEF Apart
    <2>2. CASE got.fresh /\ c = got.c
        BY <1>1, <2>2 DEF FlagsOK
    <2>3. CASE ~(got.fresh /\ c = got.c)
        BY <1>1, <2>1, <2>3 DEF OthersSame
    <2> QED
        BY <2>2, <2>3
<1>5. ReaderOK(acs, stack)
    <2> SUFFICES ASSUME Len(stack) > 0, stack[1].at = "process"
                 PROVE  /\ ~acs[stack[1].c].err
                        /\ "FREEING" \in acs[stack[1].c].flags => Len(stack) > 1 /\ stack[2].at \in {"route", "user"}
        BY DEF ReaderOK
    <2>1. 1 \in 1 .. Len(stack)
        BY DEF StackOK
    <2>2. stack[1] \in Frames
        BY <2>1 DEF StackOK
    <2>3. stack[1].c \in Contexts /\ ac[stack[1].c].life # "unused"
        BY <2>1, <2>2, FrameFields
    <2>4. acs[stack[1].c] = ac[stack[1].c]
        BY <1>1, <2>3 DEF OthersSame
    <2> QED
        BY <2>4 DEF Apart, ReaderOK
<1>6. LinksOK(acs, nodes', data', low)
    <2> SUFFICES ASSUME NEW k \in DOMAIN ns, nodes'[k].acon # None
                 PROVE  LinkOK(acs[nodes'[k].acon], data'[nodes'[k].acon], k, low)
        BY <1>3 DEF LinksOK
    <2>1. CASE got.fresh /\ k = key
        BY <1>1, <1>2, <1>3, <2>1 DEF LinkOK
    <2>2. CASE ~(got.fresh /\ k = key)
        <3>1. nodes'[k].acon = ns[k].acon /\ ns[k].acon \in Contexts
            BY <1>3, <2>2 DEF Keyed, Pairs
        <3>2. LinkOK(ac[ns[k].acon], ds[ns[k].acon], k, low)
            BY <3>1 DEF Apart, LinksOK
        <3>3. ~(got.fresh /\ ns[k].acon = got.c)
            BY <1>1, <3>2 DEF LinkOK
        <3>4. acs[ns[k].acon] = ac[ns[k].acon] /\ data'[ns[k].acon] = ds[ns[k].acon]
            BY <1>1, <1>2, <3>1, <3>3 DEF OthersSame
        <3> QED
            BY <3>1, <3>2, <3>4
    <2> QED
        BY <2>1, <2>2
<1>7. ASSUME NEW i, Held(acs, i) PROVE Held(ac, i)
    <2>1. PICK c \in Contexts : \E k \in 1 .. Len(acs[c].replies) : acs[c].replies[k].id = i
        BY <1>7 DEF Held
    <2>2. ~(got.fresh /\ c = got.c)
        BY <1>1, <2>1
    <2>3. acs[c] = ac[c]
        BY <1>1, <2>2 DEF OthersSame
    <2> QED
        BY <2>1, <2>3 DEF Held
<1>8. ASSUME ~got.err
      PROVE  /\ got.c \in Contexts /\ ~acs[got.c].err
             /\ \/ acs[got.c].flags = {}
                \/ key \in DOMAIN ns /\ ns[key].acon = got.c /\ acs[got.c] = ac[got.c]
    BY <1>1, <1>8 DEF GotAt
<1> QED
    BY <1>1, <1>3, <1>4, <1>5, <1>6, <1>7, <1>8 DEF Apart, acs

\* RetryAt, after actx_get_by_node.
LEMMA RetryAtOrder ==
    ASSUME Inv, aborted = "no", ShapeOK(stack), stack # <<>>, Top.at \in {"callback", "route"},
           Top.reply # NULL, NEW ns, Keyed(ns), NEW ds, OnContexts(ds), NEW nts, Before(ac, ns, ds, nts),
           NEW key, NEW node, NEW got, GotAt(node, got, ns, key),
           NEW server \in Servers, Link(got, key, server, ns, ds), NEW asking \in BOOLEAN, RetryAt(got, asking)
    PROVE  Ordered(ac', stack', nodes', data', nts)
<1>1. /\ StackOK(stack, Len(cads)) /\ Len(cads) \in Nat /\ ContextsOK(ac) /\ CommandsOK
      /\ net \in [Contexts -> Connections] /\ Pending(Top)
    BY Running DEF Pending
<1>2. Len(stack) = 2 /\ stack[1].c = Top.c /\ Top = stack[2]
    BY <1>1, Reading
<1>3. \A p \in 1 .. Len(stack) : stack[p].at = "process" => ac[stack[p].c].life # "unused"
    <2>1. 1 .. Len(stack) = {1, 2}
        BY <1>2
    <2>2. ac[Top.c].life # "unused"
        BY <1>1, <1>2, <2>1, Running DEF Tracked, UnusedOK
    <2> QED
        BY <1>2, <2>1, <2>2
<1>4. Apart(ac, ns, ds, nts, Below)
    BY DEF Before, Apart
<1>5. PICK acs : acs = WithContext(got)
    OBVIOUS
<1>6. /\ Apart(acs, nodes', data', nts, Below)
      /\ ContextsOK(acs) /\ Keyed(nodes')
      /\ ~got.err => got.c \in Contexts /\ ~acs[got.c].err
    BY <1>1, <1>3, <1>4, <1>5, GotOrder
<1>7. Before(acs, nodes', data', nts)
    BY <1>6 DEF Before, Apart
<1>8. CASE got.err
    <2>1. ac' = acs /\ Done(TRUE)
        BY <1>5, <1>8 DEF RetryAt
    <2> QED
        BY <1>1, <1>7, <2>1, DoneOrder
<1>9. CASE ~got.err
    <2>1. Retry(acs, got.c, asking)
        BY <1>5, <1>9 DEF RetryAt
    <2> QED
        BY <1>1, <1>6, <1>7, <1>9, <2>1, RetryOrder
<1> QED
    BY <1>8, <1>9

\* The nodes that are listed, and so what is said here, are those of the flag.
LEMMA OrderPrimed ==
    ASSUME useSlots' = useSlots, aborted' = "no" => Ordered(ac', stack', nodes', data', notes')
    PROVE  OrderOK'
<1>1. \A t : Listed(t)' = Listed(t)
    BY DEF Listed
<1>2. \A k : Ending(stack, k)' <=> Ending(stack', k)
    BY <1>1 DEF Ending, Ends
<1>3. LinksOK(ac', nodes', data', stack') <=> LinksOK(ac, nodes, data, stack)'
    BY <1>2 DEF LinksOK, LinkOK
<1> QED
    BY <1>3 DEF OrderOK, Ordered, ShapeOK, FreedFor, CalledFrom, FlagsOK, ReaderOK, InFlight, Busy, Works, Pending

\* What is known in a call about a command, while the program runs.
LEMMA InOrder ==
    ASSUME Inv, OrderOK, NEW at \in {"callback", "user", "route"}, AtTop(at)
    PROVE  /\ aborted = "no" /\ stack # <<>> /\ Top.at = at /\ Pending(Top) /\ Top.c \in Contexts
           /\ Ordered(ac, stack, nodes, data, notes) /\ ShapeOK(stack)
           /\ StackOK(stack, Len(cads)) /\ Len(cads) \in Nat /\ CommandsOK /\ ContextsOK(ac)
           /\ Keyed(nodes) /\ OnContexts(data)
    BY InCommand, Running DEF OrderOK, Ordered, RouteOK

\* ... when it is going on or is to return.
LEMMA OrderBefore ==
    ASSUME NEW n \in Nat, StackOK(stack, n), Ordered(ac, stack, nodes, data, notes), stack # <<>>, Top.at # "release",
           Top.at # "route"
    PROVE  Before(ac, nodes, data, notes)
<1>1. ShapeOK(stack) /\ Popped(stack, Below) /\ Top = stack[Len(stack)]
    BY TopPopped DEF Ordered
<1>2. \A k : Ending(stack, k) => Ending(Below, k)
    BY <1>1, ShapePopped DEF Ends
<1> QED
    BY <1>2 DEF Ordered, Before, LinksOK, LinkOK

\* Answered.
LEMMA AnsweredOrder ==
    ASSUME Inv, OrderOK, Answered
    PROVE  OrderOK'
<1>1. AtTop("callback") /\ Done(accErr) /\ UNCHANGED <<ac, data, notes, nodes, useSlots>>
    BY DEF Answered, InCallback, servers, route
<1>2. SameLinks(nodes, nodes')
    BY <1>1 DEF SameLinks
<1>3. Ordered(ac', stack', nodes', data', notes')
    BY <1>1, <1>2, InOrder, DoneKeepsOrder
<1> QED
    BY <1>1, <1>3, OrderPrimed

\* TooMany.
LEMMA TooManyOrder ==
    ASSUME Inv, OrderOK, TooMany
    PROVE  OrderOK'
<1>1. AtTop("callback") /\ Done(TRUE) /\ UNCHANGED <<ac, data, notes, nodes, useSlots>>
    BY DEF TooMany, InCallback, servers, route
<1>2. SameLinks(nodes, nodes')
    BY <1>1 DEF SameLinks
<1>3. Ordered(ac', stack', nodes', data', notes')
    BY <1>1, <1>2, InOrder, DoneKeepsOrder
<1> QED
    BY <1>1, <1>3, OrderPrimed

\* A callback with NULL is counted: the nodes have the same contexts.
LEMMA NullCountedLinks ==
    ASSUME Inv, OrderOK, NullCounted
    PROVE  SameLinks(nodes, nodes')
<1> AtTop("callback")
    BY DEF NullCounted, InCallback
<1>1. nodes' = IF data[Top.c] \in DOMAIN nodes THEN Counted(data[Top.c]) ELSE nodes
    BY DEF NullCounted
<1>2. CASE data[Top.c] \in DOMAIN nodes
    <2>1. PICK key \in DOMAIN nodes : key = data[Top.c]
        BY <1>2
    <2>2. Keyed(nodes)
        BY InOrder
    <2>3. nodes' = Counted(key)
        BY <1>1, <1>2, <2>1
    <2>4. nodes' = [nodes EXCEPT ![key].failure_count = (@ + 1) % (max_redirect_count + 1)]
        BY <2>3 DEF Counted
    <2>5. DOMAIN nodes' = DOMAIN nodes
        BY <2>4
    <2>6. ASSUME NEW k \in DOMAIN nodes PROVE nodes'[k].acon = nodes[k].acon
        <3>1. nodes[k] \in Pairs
            BY <2>2 DEF Keyed
        <3>2. CASE k = key
            BY <2>4, <3>1, <3>2 DEF Pairs
        <3>3. CASE k # key
            BY <2>4, <3>3
        <3> QED
            BY <3>2, <3>3
    <2> QED
        BY <2>5, <2>6 DEF SameLinks
<1>3. CASE data[Top.c] \notin DOMAIN nodes
    BY <1>1, <1>3 DEF SameLinks
<1> QED
    BY <1>2, <1>3

\* NullCounted.
LEMMA NullCountedOrder ==
    ASSUME Inv, OrderOK, NullCounted
    PROVE  OrderOK'
<1>1. AtTop("callback") /\ UNCHANGED <<ac, data, notes, useSlots>>
    BY DEF NullCounted, InCallback, servers
<1>2. \E err : Done(err)
    BY DEF NullCounted
<1>3. SameLinks(nodes, nodes')
    BY NullCountedLinks
<1>4. Ordered(ac', stack', nodes', data', notes')
    BY <1>1, <1>2, <1>3, InOrder, DoneKeepsOrder
<1> QED
    BY <1>1, <1>4, OrderPrimed

\* NullTimed.
LEMMA NullTimedOrder ==
    ASSUME Inv, OrderOK, NullTimed
    PROVE  OrderOK'
<1>1. AtTop("callback") /\ UNCHANGED <<nodes, data, notes, useSlots>>
    BY DEF NullTimed, InCallback, servers
<1>2. SameLinks(nodes, nodes')
    BY <1>1 DEF SameLinks
<1>3. CASE \E err : Done(err) /\ UNCHANGED ac
    <2>1. Ordered(ac', stack', nodes', data', notes')
        BY <1>1, <1>2, <1>3, InOrder, DoneKeepsOrder
    <2> QED
        BY <1>1, <2>1, OrderPrimed
<1>4. CASE CanUpdate /\ UpdateRoute
    <2>1. ~Freeing
        BY <1>4 DEF CanUpdate
    <2>2. Ordered(ac', stack', nodes', data', notes')
        BY <1>1, <1>4, <2>1, InOrder, UpdateOrder
    <2> QED
        BY <1>1, <2>2, OrderPrimed
<1> QED
    BY <1>3, <1>4 DEF NullTimed, UpdateFails

\* Moved.
LEMMA MovedOrder ==
    ASSUME Inv, OrderOK, Moved
    PROVE  OrderOK'
<1>1. AtTop("callback") /\ Top.reply # NULL /\ UNCHANGED <<nodes, data, notes, useSlots>>
    BY DEF Moved, Redirected, InCallback, servers, route
<1>2. SameLinks(nodes, nodes')
    BY <1>1 DEF SameLinks
<1>3. CASE Done(TRUE) /\ UNCHANGED ac
    <2>1. Ordered(ac', stack', nodes', data', notes')
        BY <1>1, <1>2, <1>3, InOrder, DoneKeepsOrder
    <2> QED
        BY <1>1, <2>1, OrderPrimed
<1>4. CASE UpdateRoute
    <2>1. Ordered(ac', stack', nodes', data', notes')
        BY <1>1, <1>4, InOrder, UpdateOrder
    <2> QED
        BY <1>1, <2>1, OrderPrimed
<1> QED
    BY <1>3, <1>4 DEF Moved, UpdateFails

\* Again.
LEMMA AgainOrder ==
    ASSUME Inv, OrderOK, Again
    PROVE  OrderOK'
<1>1. /\ AtTop("callback") /\ Top.reply # NULL /\ Retry(ac, Top.c, FALSE)
      /\ UNCHANGED <<nodes, data, notes, useSlots>>
    BY DEF Again, Redirected, InCallback, servers, route
<1>2. /\ Ordered(ac, stack, nodes, data, notes) /\ ShapeOK(stack) /\ StackOK(stack, Len(cads)) /\ Len(cads) \in Nat
      /\ stack # <<>> /\ Top.at = "callback" /\ Pending(Top) /\ CommandsOK /\ ContextsOK(ac) /\ Keyed(nodes)
      /\ Top.c \in Contexts
    BY <1>1, InOrder
<1>3. Before(ac, nodes, data, notes)
    BY <1>2, OrderBefore
<1>4. ~ac[Top.c].err
    BY <1>1, <1>2, Reading DEF Ordered, ReaderOK
<1>5. Ordered(ac', stack', nodes, data, notes)
    BY <1>1, <1>2, <1>3, <1>4, RetryOrder
<1> QED
    BY <1>1, <1>5, OrderPrimed

\* UserReturns.
LEMMA UserReturnsOrder ==
    ASSUME Inv, OrderOK, UserReturns
    PROVE  OrderOK'
<1>1. AtTop("user") /\ Back(ac, Top.c, Below) /\ UNCHANGED <<nodes, data, notes, useSlots>>
    BY DEF UserReturns, servers, route
<1>2. /\ Ordered(ac, stack, nodes, data, notes) /\ ShapeOK(stack) /\ StackOK(stack, Len(cads)) /\ Len(cads) \in Nat
      /\ stack # <<>> /\ Top.at = "user" /\ Pending(Top) /\ ContextsOK(ac) /\ Keyed(nodes)
    BY <1>1, InOrder
<1>3. Before(ac, nodes, data, notes)
    BY <1>2, OrderBefore
<1>4. Ordered(ac', stack', nodes, data, notes)
    BY <1>1, <1>2, <1>3, BackOrder
<1> QED
    BY <1>1, <1>4, OrderPrimed

\* ASK: a context was got for the node of the server s, which is in ns
Asks(s, ns, key, node, got) ==
    /\ s = Top.reply.server /\ s \in Servers /\ Keyed(ns) /\ GotAt(node, got, ns, key)
    /\ DOMAIN nodes \subseteq DOMAIN ns
    /\ \A k \in DOMAIN ns : ns[k].acon = IF k \in DOMAIN nodes THEN nodes[k].acon ELSE None
    /\ s \in DOMAIN nodes => key = s /\ DOMAIN ns = DOMAIN nodes /\ node = ns[key]
    /\ Link(got, key, s, ns, data) /\ RetryAt(got, TRUE)

\* Ask.
LEMMA AskDoes ==
    ASSUME Inv, Ask
    PROVE  /\ AtTop("callback") /\ Top.reply # NULL /\ Top.reply.kind = "ask"
           /\ \E s, ns, key, node, got : Asks(s, ns, key, node, got)
           /\ UNCHANGED <<cmds, calls, onDisc, asked, odd, servers, table, timer, notes, executed>>
<1> DEFINE slot == cmds[Id].slot
           s == Top.reply.server
           key == IF s \in DOMAIN nodes THEN s ELSE IF slot \in DOMAIN nodes THEN "leaked" ELSE slot
           ns == [k \in DOMAIN nodes \cup ({key} \ {"leaked"}) |-> IF k \in DOMAIN nodes THEN nodes[k] ELSE Node(s)]
           node == IF key = "leaked" THEN Node(s) ELSE ns[key]
<1>1. /\ Redirected("ask")
      /\ \E got \in actx_get_by_node(node) : Link(got, key, s, ns, data) /\ RetryAt(got, TRUE)
      /\ UNCHANGED <<cmds, calls, onDisc, asked, odd, servers, table, timer, notes, executed>>
    BY DEF Ask
<1>2. AtTop("callback") /\ aborted = "no" /\ Top.reply # NULL /\ Top.reply.kind = "ask" /\ Top.reply \in Results
    BY <1>1, RedirectedDoes
<1>3. s \in Servers
    BY <1>2 DEF Results, Replies
<1>4. Keyed(nodes)
    BY <1>2, Running DEF RouteOK
<1>5. Node(s) \in Pairs /\ Node(s).acon = None
    BY <1>3, NewNode
<1>6. PICK v : v = Node(s)
    OBVIOUS
<1>7. /\ DOMAIN nodes \subseteq DOMAIN ns
      /\ \A k \in DOMAIN ns : ns[k] = IF k \in DOMAIN nodes THEN nodes[k] ELSE v
      /\ ns = [k \in DOMAIN ns |-> ns[k]]
      /\ key # "leaked" => key \in DOMAIN ns
      /\ s \in DOMAIN nodes => key = s /\ DOMAIN ns = DOMAIN nodes
    BY <1>6
<1> HIDE DEF slot, s, key, ns
<1>8. Keyed(ns)
    BY <1>4, <1>5, <1>6, <1>7 DEF Keyed
<1>9. /\ node.acon \in Contexts \cup {None}
      /\ node.acon # None => key \in DOMAIN ns /\ ns[key].acon = node.acon
    <2>1. CASE key = "leaked"
        BY <1>5, <2>1
    <2>2. CASE key # "leaked"
        BY <1>7, <1>8, <2>2 DEF Keyed, Pairs
    <2> QED
        BY <2>1, <2>2
<1>10. \A k \in DOMAIN ns : ns[k].acon = IF k \in DOMAIN nodes THEN nodes[k].acon ELSE None
    BY <1>5, <1>6, <1>7
<1>14. s \in DOMAIN nodes => node = ns[key]
    BY <1>3, <1>7, ClusterAssumption
<1> HIDE DEF node
<1>11. PICK got \in actx_get_by_node(node) : Link(got, key, s, ns, data) /\ RetryAt(got, TRUE)
    BY <1>1
<1>12. GotAt(node, got, ns, key)
    BY <1>9, <1>11 DEF GotAt
<1>13. Asks(s, ns, key, node, got)
    BY <1>3, <1>7, <1>8, <1>10, <1>11, <1>12, <1>14 DEF Asks, s
<1> QED
    BY <1>1, <1>2, <1>13

\* ... with what is known before.
LEMMA AskBefore ==
    ASSUME NEW n \in Nat, StackOK(stack, n), Ordered(ac, stack, nodes, data, notes), stack # <<>>,
           Top.at = "callback", Keyed(nodes), NEW s, NEW ns, NEW key, NEW node, NEW got, Asks(s, ns, key, node, got)
    PROVE  Before(ac, ns, data, notes)
<1>1. Before(ac, nodes, data, notes)
    BY OrderBefore
<1>2. LinksOK(ac, ns, data, Below)
    BY <1>1 DEF Before, LinksOK, Asks
<1> QED
    BY <1>1, <1>2 DEF Before

\* Ask.
LEMMA AskOrder ==
    ASSUME Inv, OrderOK, Ask
    PROVE  OrderOK'
<1>1. AtTop("callback") /\ Top.reply # NULL /\ UNCHANGED <<notes, useSlots>>
    BY AskDoes DEF servers
<1>2. PICK s, ns, key, node, got : Asks(s, ns, key, node, got)
    BY AskDoes
<1>3. /\ Ordered(ac, stack, nodes, data, notes) /\ ShapeOK(stack) /\ StackOK(stack, Len(cads)) /\ Len(cads) \in Nat
      /\ aborted = "no" /\ stack # <<>> /\ Top.at = "callback" /\ Keyed(nodes) /\ OnContexts(data)
    BY <1>1, InOrder
<1>4. Before(ac, ns, data, notes)
    BY <1>2, <1>3, AskBefore
<1>5. /\ s \in Servers /\ Keyed(ns) /\ GotAt(node, got, ns, key) /\ Link(got, key, s, ns, data) /\ RetryAt(got, TRUE)
    BY <1>2 DEF Asks
<1>6. Ordered(ac', stack', nodes', data', notes)
    BY <1>1, <1>3, <1>4, <1>5, RetryAtOrder
<1> QED
    BY <1>1, <1>6, OrderPrimed

\* Install: a context was got for the node with the slot of the command.
Gets(key, got) ==
    LET ns == Swapped(Top.table)
        ds == DataAfter(Top.table)
    IN  /\ key \in DOMAIN ns /\ key \in Servers /\ GotAt(ns[key], got, ns, key)
        /\ Link(got, key, key, ns, ds) /\ RetryAt(got, FALSE)

\* Install.
LEMMA InstallDoes ==
    ASSUME Inv, Install
    PROVE  /\ AtTop("route") /\ Top.table \in Routes
           /\ Keyed(Swapped(Top.table)) /\ DOMAIN Swapped(Top.table) = Listed(Top.table)
           /\ OnContexts(DataAfter(Top.table))
           /\ UNCHANGED <<cmds, calls, onDisc, asked, odd, servers, retries, notes, executed>>
           /\ \/ /\ Top.reply = NULL /\ nodes' = Swapped(Top.table) /\ data' = DataAfter(Top.table)
                 /\ Done(ac[Top.c].err) /\ UNCHANGED <<ac, net, cads>>
              \/ Top.reply # NULL /\ \E key, got : Gets(key, got)
<1> DEFINE t == Top.table
           ns == Swapped(t)
           ds == DataAfter(t)
           key == t[cmds[Id].slot]
<1>1. /\ AtTop("route") /\ table' = t
      /\ UNCHANGED <<cmds, calls, onDisc, asked, odd, servers, retries, notes, executed>>
      /\ IF Top.reply = NULL
         THEN /\ nodes' = ns /\ data' = ds
              /\ timer' = FALSE
              /\ Done(ac[Top.c].err)
              /\ UNCHANGED <<ac, net, spent, cads>>
         ELSE /\ \E got \in actx_get_by_node(ns[key]) : Link(got, key, key, ns, ds) /\ RetryAt(got, FALSE)
              /\ UNCHANGED timer
    BY DEF Install
<1>2. aborted = "no" /\ Id \in 1 .. Len(cads) /\ t \in Routes
    BY <1>1, InCommand
<1>3. /\ Keyed(ns) /\ DOMAIN ns = Listed(t)
      /\ \A slot \in Slots : t[slot] \in Listed(t) /\ t[slot] \in Servers
    BY <1>2, Running, SwappedNodes
<1>4. OnContexts(ds)
    BY DEF DataAfter, OnContexts
<1>5. key \in DOMAIN ns /\ key \in Servers
    BY <1>2, <1>3, Running, UserCommand
<1>6. ASSUME Top.reply # NULL PROVE \E got : Gets(key, got)
    <2>1. PICK got \in actx_get_by_node(ns[key]) : Link(got, key, key, ns, ds) /\ RetryAt(got, FALSE)
        BY <1>1, <1>6
    <2>2. GotAt(ns[key], got, ns, key)
        BY <1>3, <1>5, <2>1 DEF GotAt, Keyed, Pairs
    <2> QED
        BY <1>5, <2>1, <2>2 DEF Gets
<1> QED
    BY <1>1, <1>2, <1>3, <1>4, <1>6

\* The nodes of the new route, and the nodes of the contexts, point to each
\* other.
LEMMA InstallBefore ==
    ASSUME NEW n \in Nat, StackOK(stack, n), Ordered(ac, stack, nodes, data, notes), stack # <<>>,
           Top.at = "route", Keyed(Swapped(Top.table)), DOMAIN Swapped(Top.table) = Listed(Top.table), Keyed(nodes)
    PROVE  Before(ac, Swapped(Top.table), DataAfter(Top.table), notes)
<1> DEFINE t == Top.table
<1>1. ShapeOK(stack) /\ Popped(stack, Below) /\ Top = stack[Len(stack)]
    BY TopPopped DEF Ordered
<1>2. \A k : Ending(stack, k) => Ending(Below, k) \/ Ends(Top, k)
    BY <1>1, ShapePopped
<1>3. ASSUME NEW k \in Listed(t), Swapped(t)[k].acon # None
      PROVE  LinkOK(ac[Swapped(t)[k].acon], DataAfter(t)[Swapped(t)[k].acon], k, Below)
    <2>1. Swapped(t)[k] = IF k \in DOMAIN nodes THEN [Node(k) EXCEPT !.acon = nodes[k].acon] ELSE Node(k)
        BY <1>3 DEF Swapped
    <2>2. k \in DOMAIN nodes /\ Swapped(t)[k].acon = nodes[k].acon
        BY <1>3, <2>1 DEF Node
    <2>3. PICK c \in Contexts : c = nodes[k].acon
        BY <1>3, <2>2 DEF Keyed, Pairs
    <2>4. LinkOK(ac[c], data[c], k, stack)
        BY <1>3, <2>2, <2>3 DEF Ordered, LinksOK
    <2>5. DataAfter(t)[c] = k
        BY <1>3, <2>2, <2>3, <2>4 DEF DataAfter, LinkOK
    <2>6. ~Ends(Top, k)
        BY <1>3 DEF Ends
    <2> QED
        BY <1>2, <2>2, <2>3, <2>4, <2>5, <2>6 DEF LinkOK
<1> QED
    BY <1>3 DEF Before, Ordered, LinksOK

\* Install.
LEMMA InstallOrder ==
    ASSUME Inv, OrderOK, Install
    PROVE  OrderOK'
<1>1. /\ AtTop("route") /\ Keyed(Swapped(Top.table)) /\ DOMAIN Swapped(Top.table) = Listed(Top.table)
      /\ OnContexts(DataAfter(Top.table)) /\ UNCHANGED <<notes, useSlots>>
    BY InstallDoes DEF servers
<1>2. /\ Ordered(ac, stack, nodes, data, notes) /\ ShapeOK(stack) /\ StackOK(stack, Len(cads)) /\ Len(cads) \in Nat
      /\ aborted = "no" /\ stack # <<>> /\ Top.at = "route" /\ Keyed(nodes)
    BY <1>1, InOrder
<1>3. Before(ac, Swapped(Top.table), DataAfter(Top.table), notes)
    BY <1>1, <1>2, InstallBefore
<1>4. PICK ns, ds : ns = Swapped(Top.table) /\ ds = DataAfter(Top.table)
    OBVIOUS
<1>5. Before(ac, ns, ds, notes) /\ Keyed(ns) /\ OnContexts(ds)
    BY <1>1, <1>3, <1>4
<1>6. CASE Top.reply = NULL /\ nodes' = ns /\ data' = ds /\ Done(ac[Top.c].err) /\ ac' = ac
    <2>1. Ordered(ac, stack', ns, ds, notes)
        BY <1>2, <1>5, <1>6, DoneOrder
    <2> QED
        BY <1>1, <1>6, <2>1, OrderPrimed
<1>7. CASE Top.reply # NULL /\ \E key, got : Gets(key, got)
    <2>1. PICK key, got : Gets(key, got)
        BY <1>7
    <2>2. /\ key \in Servers /\ GotAt(ns[key], got, ns, key) /\ Link(got, key, key, ns, ds) /\ RetryAt(got, FALSE)
        BY <1>4, <2>1 DEF Gets
    <2>3. Ordered(ac', stack', nodes', data', notes)
        BY <1>2, <1>5, <1>7, <2>2, RetryAtOrder
    <2> QED
        BY <1>1, <2>3, OrderPrimed
<1> QED
    BY <1>4, <1>6, <1>7, InstallDoes

\* Nothing is said of a program that has been aborted.
LEMMA AbortedOrder ==
    ASSUME aborted' # "no"
    PROVE  OrderOK'
BY DEF OrderOK

\* FreeCallback.
LEMMA FreeCallbackOrder ==
    ASSUME Inv, OrderOK, FreeCallback, UNCHANGED <<servers, route, client, executed>>
    PROVE  OrderOK'
<1> DEFINE c == Top.c
           cb == Head(ac[c].replies)
<1>1. /\ aborted = "no" /\ stack # <<>> /\ Top.at = "free" /\ c \in Contexts
      /\ OthersSame(ac, ac', c) /\ ac'[c].life = ac[c].life /\ ac'[c].err = ac[c].err /\ ac'[c].ev = ac[c].ev
      /\ ac[c].replies # <<>>
      /\ Called(c, cb, NULL, stack)
    BY FreeCallbackDoes DEF Inv
<1>2. /\ StackOK(stack, Len(cads)) /\ Len(cads) \in Nat /\ ShapeOK(stack) /\ Ordered(ac, stack, nodes, data, notes)
      /\ Keyed(nodes)
    BY <1>1, Running DEF OrderOK, Ordered, RouteOK
<1>3. UNCHANGED <<nodes, data, notes, useSlots>>
    BY DEF servers, route, client
<1> HIDE DEF cb
<1>4. Len(stack) \in Nat \ {0} /\ Len(stack) \in 1 .. Len(stack) /\ Top = stack[Len(stack)]
    BY <1>1, <1>2, TopFrame
<1>5. /\ ShapeOK(stack') /\ Above(stack, stack')
      /\ "IN_CALLBACK" \in ac'[c].flags => "IN_CALLBACK" \in ac[c].flags \/ InFlight(stack', c)
      /\ \A flag : flag # "IN_CALLBACK" => (flag \in ac'[c].flags <=> flag \in ac[c].flags)
      /\ Len(stack') \in Nat /\ Len(stack') >= Len(stack)
      /\ \A p \in 1 .. Len(stack) : stack'[p] = stack[p]
    <2>1. CASE cb.fn
        <3> DEFINE f == CallbackFrame(c, cb, NULL)
        <3>1. ac'[c].flags = ac[c].flags \cup {"IN_CALLBACK"} /\ stack' = Append(stack, f) /\ f \in Frames
            BY <1>1, <2>1 DEF Called
        <3>2. f.at = "callback" /\ f.c = c /\ f.reply = NULL
            BY DEF CallbackFrame
        <3> HIDE DEF f
        <3>3. Pushed(stack, f, stack')
            BY <1>2, <3>1, PushedOn
        <3>4. CalledFrom(Top, f) /\ Pending(f)
            BY <1>1, <3>2 DEF CalledFrom, Pending
        <3>5. ShapeOK(stack') /\ Above(stack, stack') /\ InFlight(stack', c)
            BY <1>1, <1>2, <1>4, <3>2, <3>3, <3>4, ShapePushed
        <3> QED
            BY <1>4, <3>1, <3>3, <3>5 DEF Pushed
    <2>2. CASE ~cb.fn
        BY <1>1, <1>2, <1>4, <2>2 DEF Called, Above
    <2> QED
        BY <2>1, <2>2
<1>6. ASSUME NEW d \in Contexts PROVE FlagsOK(ac'[d], d, stack', notes)
    <2>1. FlagsOK(ac[d], d, stack, notes)
        BY <1>2 DEF Ordered
    <2>2. CASE d = c
        BY <1>1, <1>5, <2>1, <2>2 DEF FlagsOK, Above
    <2>3. CASE d # c
        BY <1>1, <1>5, <2>1, <2>3 DEF FlagsOK, Above, OthersSame
    <2> QED
        BY <2>2, <2>3
<1>7. ReaderOK(ac', stack')
    <2> SUFFICES ASSUME stack'[1].at = "process"
                 PROVE  /\ ~ac'[stack'[1].c].err
                        /\ "FREEING" \in ac'[stack'[1].c].flags => Len(stack') > 1 /\ stack'[2].at \in {"route", "user"}
        BY DEF ReaderOK
    <2>1. 1 \in 1 .. Len(stack) /\ stack'[1] = stack[1] /\ (Len(stack) > 1 => stack'[2] = stack[2] /\ Len(stack') > 1)
        BY <1>4, <1>5
    <2>2. stack[1] \in Frames
        BY <1>2, <2>1 DEF StackOK
    <2>3. PICK d \in Contexts : d = stack[1].c
        BY <2>1, <2>2, FrameFields
    <2>4. ~ac[d].err /\ ("FREEING" \in ac[d].flags => Len(stack) > 1 /\ stack[2].at \in {"route", "user"})
        BY <1>2, <1>4, <2>1, <2>3 DEF Ordered, ReaderOK
    <2>5. ac'[d].err = ac[d].err /\ ("FREEING" \in ac'[d].flags <=> "FREEING" \in ac[d].flags)
        BY <1>1, <1>5 DEF OthersSame
    <2> QED
        BY <2>1, <2>3, <2>4, <2>5
<1>8. LinksOK(ac', nodes, data, stack')
    <2> SUFFICES ASSUME NEW k \in DOMAIN nodes, nodes[k].acon # None
                 PROVE  LinkOK(ac'[nodes[k].acon], data[nodes[k].acon], k, stack')
        BY DEF LinksOK
    <2>1. PICK d \in Contexts : d = nodes[k].acon
        BY <1>2 DEF Keyed, Pairs
    <2>2. LinkOK(ac[d], data[d], k, stack)
        BY <1>2, <2>1 DEF Ordered, LinksOK
    <2>3. ac'[d].life = ac[d].life /\ ("FREEING" \in ac'[d].flags <=> "FREEING" \in ac[d].flags)
        BY <1>1, <1>5 DEF OthersSame
    <2> QED
        BY <1>5, <2>1, <2>2, <2>3 DEF LinkOK, Above
<1> QED
    BY <1>3, <1>5, <1>6, <1>7, <1>8, OrderPrimed DEF Ordered

\* A stack with one call of the library.
LEMMA OneFrame ==
    ASSUME NEW st, Len(st) = 1, Works(st[1])
    PROVE  /\ ShapeOK(st)
           /\ \A d : Busy(st, d) <=> d = st[1].c
           /\ \A d : ~InFlight(st, d)
           /\ \A k : ~Ending(st, k)
<1>1. 1 .. Len(st) = {1}
    OBVIOUS
<1> QED
    BY <1>1 DEF ShapeOK, Busy, InFlight, Ending, Ends, Works, Pending

\* A stack without calls.
LEMMA NoFrame ==
    ASSUME NEW st, Len(st) = 0
    PROVE  ShapeOK(st) /\ \A d : ~Busy(st, d) /\ ~InFlight(st, d) /\ ~Ending(st, d)
<1>1. 1 .. Len(st) = {}
    OBVIOUS
<1> QED
    BY <1>1 DEF ShapeOK, Busy, InFlight, Ending

\* The library works on one context.
LEMMA ContextOrder ==
    ASSUME Keyed(nodes), NEW nts, Ordered(ac, stack, nodes, data, nts), NEW c \in Contexts, OthersSame(ac, ac', c),
           ac'[c].life = ac[c].life, "FREEING" \in ac'[c].flags => "FREEING" \in ac[c].flags,
           FlagsOK(ac'[c], c, stack', nts),
           \A d : d # c => (Busy(stack, d) => Busy(stack', d)) /\ (InFlight(stack, d) => InFlight(stack', d)),
           \A k : Ending(stack, k) => Ending(stack', k),
           ShapeOK(stack'), ReaderOK(ac', stack')
    PROVE  Ordered(ac', stack', nodes, data, nts)
<1>1. ASSUME NEW d \in Contexts PROVE FlagsOK(ac'[d], d, stack', nts)
    <2>1. FlagsOK(ac[d], d, stack, nts)
        BY DEF Ordered
    <2> QED
        BY <2>1 DEF FlagsOK, OthersSame
<1>2. LinksOK(ac', nodes, data, stack')
    <2> SUFFICES ASSUME NEW k \in DOMAIN nodes, nodes[k].acon # None
                 PROVE  LinkOK(ac'[nodes[k].acon], data[nodes[k].acon], k, stack')
        BY DEF LinksOK
    <2>1. PICK d \in Contexts : d = nodes[k].acon
        BY DEF Keyed, Pairs
    <2>2. LinkOK(ac[d], data[d], k, stack)
        BY <2>1 DEF Ordered, LinksOK
    <2>3. ac'[d].life = ac[d].life /\ ("FREEING" \in ac'[d].flags => "FREEING" \in ac[d].flags)
        BY DEF OthersSame
    <2> QED
        BY <2>1, <2>2, <2>3 DEF LinkOK
<1> QED
    BY <1>1, <1>2 DEF Ordered

\* ... alone, and is going to free it.
LEMMA FreeOrder ==
    ASSUME Keyed(nodes), NEW nts, Ordered(ac, stack, nodes, data, nts), NEW c \in Contexts, OthersSame(ac, ac', c),
           ac'[c].life = ac[c].life, "FREEING" \in ac'[c].flags => "FREEING" \in ac[c].flags,
           "DISCONNECTING" \in ac'[c].flags => ac'[c].err \/ "disconnected" \in nts,
           "IN_CALLBACK" \in ac'[c].flags => "IN_CALLBACK" \in ac[c].flags,
           \A d : d # c => ~Busy(stack, d), \A d : ~InFlight(stack, d), \A k : ~Ending(stack, k),
           FreeCalled(<<>>, c)
    PROVE  Ordered(ac', stack', nodes, data, nts)
<1>1. PICK f \in Frames : f.at = "free" /\ f.c = c /\ stack' = Append(<<>>, f)
    BY DEF FreeCalled
<1>2. Len(stack') = 1 /\ stack'[1] = f
    BY <1>1
<1>3. Works(stack'[1]) /\ stack'[1].c = c
    BY <1>1, <1>2 DEF Works
<1>4. ShapeOK(stack') /\ Busy(stack', c)
    BY <1>2, <1>3, OneFrame
<1>5. FlagsOK(ac'[c], c, stack', nts)
    BY <1>4 DEF FlagsOK, Ordered
<1>6. ReaderOK(ac', stack')
    BY <1>1, <1>2 DEF ReaderOK
<1> QED
    BY <1>4, <1>5, <1>6, ContextOrder

\* ProcessReply.
LEMMA ProcessReplyOrder ==
    ASSUME Inv, OrderOK, ProcessReply, UNCHANGED <<servers, route, client, executed>>
    PROVE  OrderOK'
<1> DEFINE c == Top.c
           cb == Head(ac[c].replies)
           r == Head(ac[c].ibuf)
           p == ProcessFrame(c, cb)
<1>1. UNCHANGED <<nodes, data, notes, useSlots>>
    BY DEF servers, route, client
<1>2. /\ AtTop("process") /\ c \in Contexts /\ ac[c].ibuf # <<>>
      /\ \/ /\ OthersSame(ac, ac', c)
            /\ ac'[c].life = ac[c].life /\ ac'[c].err = ac[c].err /\ ac'[c].ev = ac[c].ev
            /\ Called(c, cb, r, <<p>>)
            /\ aborted' = aborted
         \/ aborted' # "no"
    BY ProcessReplyDoes DEF Inv, AtTop
<1>3. CASE aborted' # "no"
    BY <1>3, AbortedOrder
<1>4. CASE /\ OthersSame(ac, ac', c)
           /\ ac'[c].life = ac[c].life /\ ac'[c].err = ac[c].err /\ ac'[c].ev = ac[c].ev
           /\ Called(c, cb, r, <<p>>)
           /\ aborted' = aborted
    <2>1. aborted = "no" /\ Len(stack) = 1 /\ Top = stack[1] /\ Top.at = "process"
        BY <1>2, Processing DEF AtTop
    <2>2. Ordered(ac, stack, nodes, data, notes) /\ ContextsOK(ac) /\ Keyed(nodes)
        BY <2>1, Running DEF OrderOK, RouteOK
    <2>3. r \in Replies
        BY <1>2, <2>2, FirstReply
    <2>4. r # NULL
        BY <2>3 DEF Replies, NULL
    <2>5. p.at = "process" /\ p.c = c
        BY DEF ProcessFrame
    <2>6. /\ \A d : Busy(stack, d) <=> d = c
          /\ \A d : ~InFlight(stack, d)
          /\ \A k : ~Ending(stack, k)
        BY <2>1, OneFrame DEF Works
    <2>7. ~ac[c].err /\ "FREEING" \notin ac[c].flags
        BY <2>1, <2>2 DEF Ordered, ReaderOK
    <2> HIDE DEF c, cb, r, p
    <2>8. ac'[c].flags = ac[c].flags \cup {"IN_CALLBACK"} \/ ac'[c].flags = ac[c].flags
        BY <1>4 DEF Called
    <2>9. /\ ShapeOK(stack') /\ Busy(stack', c) /\ Len(stack') \in Nat \ {0} /\ stack'[1] = p
          /\ "IN_CALLBACK" \in ac'[c].flags => "IN_CALLBACK" \in ac[c].flags \/ InFlight(stack', c)
        <3> DEFINE st == <<p>>
        <3>1. Len(st) = 1 /\ st[1] = p /\ Works(st[1])
            BY <2>5 DEF Works
        <3>2. ShapeOK(st) /\ Busy(st, c)
            BY <2>5, <3>1, OneFrame
        <3>3. CASE cb.fn
            <4> DEFINE f == CallbackFrame(c, cb, r)
            <4>1. stack' = Append(st, f) /\ f \in Frames
                BY <1>4, <3>3 DEF Called
            <4>2. f.at = "callback" /\ f.c = c /\ f.reply = r
                BY DEF CallbackFrame
            <4> HIDE DEF f, st
            <4>3. Pending(f) /\ CalledFrom(p, f)
                BY <2>4, <2>5, <4>2 DEF CalledFrom, Pending
            <4>4. Pushed(st, f, stack')
                <5>1. stack' = Append(<<p>>, f)
                    BY <4>1 DEF st
                <5>2. Len(stack') = 2 /\ stack'[1] = p /\ stack'[2] = f
                    BY <5>1
                <5> QED
                    BY <3>1, <5>2 DEF Pushed
            <4>5. ShapeOK(stack') /\ Above(st, stack') /\ InFlight(stack', c)
                <5>1. st[Len(st)] = p /\ Len(st) > 0 /\ p.at \notin {"callback", "user"}
                    BY <2>5, <3>1
                <5>2. Pushed(st, f, stack') /\ ShapeOK(st) /\ CalledFrom(st[Len(st)], f)
                    BY <3>2, <4>3, <4>4, <5>1
                <5> QED
                    BY <4>2, <4>3, <5>1, <5>2, ShapePushed
            <4> QED
                BY <3>1, <3>2, <4>4, <4>5 DEF Above, Pushed
        <3>4. CASE ~cb.fn
            <4>1. stack' = st /\ ac'[c].flags = ac[c].flags
                BY <1>4, <3>4 DEF Called
            <4> HIDE DEF st
            <4>2. Len(st) \in Nat \ {0}
                BY <3>1
            <4> QED
                BY <3>1, <3>2, <4>1, <4>2, Zenon
        <3> QED
            BY <3>3, <3>4
    <2>10. FlagsOK(ac'[c], c, stack', notes)
        BY <1>2, <1>4, <2>2, <2>6, <2>8, <2>9 DEF Ordered, FlagsOK
    <2>11. ReaderOK(ac', stack')
        BY <1>4, <2>5, <2>7, <2>8, <2>9 DEF ReaderOK
    <2>12. Ordered(ac', stack', nodes, data, notes)
        BY <1>2, <1>4, <2>2, <2>6, <2>8, <2>9, <2>10, <2>11, ContextOrder
    <2> QED
        BY <1>1, <2>12, OrderPrimed
<1> QED
    BY <1>2, <1>3, <1>4

\* ProcessNone.
LEMMA ProcessNoneOrder ==
    ASSUME Inv, OrderOK, ProcessNone, UNCHANGED <<servers, route, client, executed>>
    PROVE  OrderOK'
<1> DEFINE c == Top.c
<1>1. UNCHANGED <<nodes, data, notes, useSlots>>
    BY DEF servers, route, client
<1>2. /\ AtTop("process") /\ c \in Contexts
      /\ OthersSame(ac, ac', c) /\ Kept(ac[c], ac'[c]) /\ ac'[c].flags = ac[c].flags
      /\ \/ stack' = <<>> /\ aborted' = aborted
         \/ FreeCalled(<<>>, c)
         \/ aborted' # "no"
    BY ProcessNoneDoes DEF Inv, AtTop
<1>3. aborted = "no" /\ Len(stack) = 1 /\ Top = stack[1] /\ Top.at = "process"
    BY <1>2, Processing DEF AtTop
<1>4. Ordered(ac, stack, nodes, data, notes) /\ ContextsOK(ac) /\ Keyed(nodes)
    BY <1>3, Running DEF OrderOK, RouteOK
<1>5. /\ \A d : Busy(stack, d) <=> d = c
      /\ \A d : ~InFlight(stack, d)
      /\ \A k : ~Ending(stack, k)
    BY <1>3, OneFrame DEF Works
<1>6. ~ac[c].err /\ "FREEING" \notin ac[c].flags
    BY <1>3, <1>4 DEF Ordered, ReaderOK
<1> HIDE DEF c
<1>7. CASE stack' = <<>>
    <2>1. Len(stack') = 0
        BY <1>7
    <2>2. ShapeOK(stack')
        BY <2>1, NoFrame
    <2>3. FlagsOK(ac'[c], c, stack', notes)
        BY <1>2, <1>4, <1>5, <1>6 DEF FlagsOK, Ordered, Kept
    <2>4. ReaderOK(ac', stack')
        BY <2>1 DEF ReaderOK
    <2>5. Ordered(ac', stack', nodes, data, notes)
        BY <1>2, <1>4, <1>5, <2>2, <2>3, <2>4, ContextOrder DEF Kept
    <2> QED
        BY <1>1, <2>5, OrderPrimed
<1>8. CASE FreeCalled(<<>>, c)
    <2>1. Ordered(ac', stack', nodes, data, notes)
        BY <1>2, <1>4, <1>5, <1>8, FreeOrder DEF Kept, FlagsOK, Ordered
    <2> QED
        BY <1>1, <2>1, OrderPrimed
<1> QED
    BY <1>2, <1>7, <1>8, AbortedOrder

\* What is known in the event loop of a context with events.
LEMMA InLoop ==
    ASSUME Inv, OrderOK, aborted = "no", stack = <<>>
    PROVE  /\ Ordered(ac, stack, nodes, data, notes) /\ Keyed(nodes) /\ ContextsOK(ac)
           /\ \A d : ~Busy(stack, d) /\ ~InFlight(stack, d) /\ ~Ending(stack, d)
           /\ \A c \in Contexts : ac[c].ev # {} => ~ac[c].err /\ "FREEING" \notin ac[c].flags
<1>1. Ordered(ac, stack, nodes, data, notes) /\ Keyed(nodes) /\ ContextsOK(ac)
    BY Running DEF OrderOK, RouteOK
<1>2. \A d : ~Busy(stack, d) /\ ~InFlight(stack, d) /\ ~Ending(stack, d)
    <2>1. Len(stack) = 0
        OBVIOUS
    <2> QED
        BY <2>1, NoFrame
<1>3. \A c \in Contexts : ac[c].ev # {} => ~ac[c].err /\ "FREEING" \notin ac[c].flags
    BY <1>1, <1>2 DEF Ordered, FlagsOK
<1> QED
    BY <1>1, <1>2, <1>3

\* ConnectFails and ReadFails.
LEMMA FailsOrder ==
    ASSUME Inv, OrderOK, NEW c \in Contexts, ConnectFails(c) \/ ReadFails(c),
           UNCHANGED <<servers, route, client, executed>>
    PROVE  OrderOK'
<1>1. UNCHANGED <<nodes, data, notes, useSlots>>
    BY DEF servers, route, client
<1>2. /\ aborted = "no" /\ stack = <<>> /\ OthersSame(ac, ac', c)
      /\ ac'[c].life = ac[c].life /\ ac'[c].err /\ ac'[c].flags = ac[c].flags \cup {"DISCONNECTING"}
      /\ FreeCalled(<<>>, c)
    BY FailsDo DEF Inv
<1>3. /\ Ordered(ac, stack, nodes, data, notes) /\ Keyed(nodes)
      /\ \A d : ~Busy(stack, d) /\ ~InFlight(stack, d) /\ ~Ending(stack, d)
    BY <1>2, InLoop
<1>4. Ordered(ac', stack', nodes, data, notes)
    BY <1>2, <1>3, FreeOrder
<1> QED
    BY <1>1, <1>4, OrderPrimed

\* redisAsyncHandleRead.
LEMMA ReadOrder ==
    ASSUME Inv, OrderOK, NEW c \in Contexts, redisAsyncHandleRead(c), UNCHANGED <<servers, route, client, executed>>
    PROVE  OrderOK'
<1>1. UNCHANGED <<nodes, data, notes, useSlots>>
    BY DEF servers, route, client
<1>2. /\ aborted = "no" /\ stack = <<>> /\ OthersSame(ac, ac', c)
      /\ ac'[c].life = ac[c].life /\ ac'[c].err = ac[c].err /\ ac'[c].flags = ac[c].flags
      /\ ac'[c].ev = ac[c].ev /\ ac[c].ev # {}
      /\ stack' = <<ProcessFrame(c, NullCb)>>
    BY ReadDoes DEF Inv
<1>3. /\ Ordered(ac, stack, nodes, data, notes) /\ Keyed(nodes)
      /\ \A d : ~Busy(stack, d) /\ ~InFlight(stack, d) /\ ~Ending(stack, d)
      /\ ~ac[c].err /\ "FREEING" \notin ac[c].flags
    BY <1>2, InLoop
<1>4. Len(stack') = 1 /\ stack'[1].at = "process" /\ stack'[1].c = c
    BY <1>2 DEF ProcessFrame
<1>5. ShapeOK(stack')
    BY <1>4, OneFrame DEF Works
<1>6. FlagsOK(ac'[c], c, stack', notes)
    BY <1>2, <1>3 DEF Ordered, FlagsOK
<1>7. ReaderOK(ac', stack')
    BY <1>2, <1>3, <1>4 DEF ReaderOK
<1>8. Ordered(ac', stack', nodes, data, notes)
    BY <1>2, <1>3, <1>5, <1>6, <1>7, ContextOrder
<1> QED
    BY <1>1, <1>8, OrderPrimed

\* Break.
LEMMA BreakOrder ==
    ASSUME Inv, OrderOK, NEW c \in Contexts, Break(c), UNCHANGED <<servers, route, client, executed>>
    PROVE  OrderOK'
<1>1. UNCHANGED <<ac, stack, aborted, nodes, data, notes, useSlots>>
    BY DEF Break, servers, route, client
<1> QED
    BY <1>1, OrderPrimed DEF OrderOK

\* redisAsyncHandleWrite.
LEMMA WriteOrder ==
    ASSUME Inv, OrderOK, NEW c \in Contexts, Write(c)
    PROVE  OrderOK'
<1>1. /\ aborted = "no" /\ stack = <<>> /\ OthersSame(ac, ac', c)
      /\ ac'[c].life = ac[c].life /\ ac[c].ev # {}
      /\ (\E ans : Written(c, ans)) \/ WriteFailed(c)
      /\ UNCHANGED <<nodes, data, notes, useSlots>>
    BY WriteDoes DEF Inv, servers, route, client
<1>2. /\ Ordered(ac, stack, nodes, data, notes) /\ Keyed(nodes)
      /\ \A d : ~Busy(stack, d) /\ ~InFlight(stack, d) /\ ~Ending(stack, d)
      /\ ~ac[c].err /\ "FREEING" \notin ac[c].flags
    BY <1>1, InLoop
<1>3. CASE \E ans : Written(c, ans)
    <2>1. stack' = stack /\ ac'[c].err = ac[c].err /\ ac'[c].flags = ac[c].flags \cup {"CONNECTED"}
        BY <1>3 DEF Written
    <2>2. FlagsOK(ac'[c], c, stack', notes)
        BY <1>2, <2>1 DEF Ordered, FlagsOK
    <2>3. ShapeOK(stack') /\ ReaderOK(ac', stack')
        BY <1>1, <1>2, <2>1 DEF Ordered, ReaderOK
    <2>4. Ordered(ac', stack', nodes, data, notes)
        BY <1>1, <1>2, <2>1, <2>2, <2>3, ContextOrder
    <2> QED
        BY <1>1, <2>4, OrderPrimed
<1>4. CASE WriteFailed(c)
    <2>1. ac'[c].err /\ ac'[c].flags = ac[c].flags \cup {"CONNECTED", "DISCONNECTING"} /\ FreeCalled(<<>>, c)
        BY <1>4 DEF WriteFailed
    <2>2. Ordered(ac', stack', nodes, data, notes)
        BY <1>1, <1>2, <2>1, FreeOrder
    <2> QED
        BY <1>1, <2>2, OrderPrimed
<1> QED
    BY <1>1, <1>3, <1>4

\* unlinkAsyncContextAndNode: the node of a context has none.
LEMMA UnlinkedNodes ==
    ASSUME Keyed(nodes), NEW c,
           nodes' = IF data[c] \in DOMAIN nodes THEN [nodes EXCEPT ![data[c]].acon = None] ELSE nodes
    PROVE  /\ DOMAIN nodes' = DOMAIN nodes
           /\ \A k \in DOMAIN nodes : nodes'[k].acon = IF k = data[c] THEN None ELSE nodes[k].acon
<1>1. CASE data[c] \in DOMAIN nodes
    <2>1. PICK key \in DOMAIN nodes : key = data[c]
        BY <1>1
    <2>2. nodes' = [nodes EXCEPT ![key].acon = None]
        BY <1>1, <2>1
    <2>3. ASSUME NEW k \in DOMAIN nodes PROVE nodes'[k].acon = IF k = key THEN None ELSE nodes[k].acon
        <3>1. nodes[k] \in Pairs
            BY DEF Keyed
        <3>2. CASE k = key
            BY <2>2, <3>1, <3>2 DEF Pairs
        <3>3. CASE k # key
            BY <2>2, <3>3
        <3> QED
            BY <3>2, <3>3
    <2> QED
        BY <2>1, <2>2, <2>3
<1>2. CASE data[c] \notin DOMAIN nodes
    BY <1>2
<1> QED
    BY <1>1, <1>2

\* Unlink.
LEMMA UnlinkOrder ==
    ASSUME Inv, OrderOK, Unlink
    PROVE  OrderOK'
<1> DEFINE c == Top.c
<1>1. /\ AtTop("free") /\ FreeEnd /\ stack' = Below /\ ac' = [ac EXCEPT ![c] = Ended]
      /\ nodes' = IF data[c] \in DOMAIN nodes THEN [nodes EXCEPT ![data[c]].acon = None] ELSE nodes
      /\ data' = [data EXCEPT ![c] = None]
      /\ UNCHANGED <<notes, useSlots>>
    BY DEF Unlink, FreeEnd, servers, client, Ended
<1>2. aborted = "no" /\ stack # <<>> /\ Top.at = "free"
    BY <1>1 DEF AtTop
<1>3. /\ Ordered(ac, stack, nodes, data, notes) /\ ShapeOK(stack) /\ StackOK(stack, Len(cads)) /\ Len(cads) \in Nat
      /\ ContextsOK(ac) /\ Keyed(nodes) /\ OnContexts(data)
    BY <1>2, Running DEF OrderOK, Ordered, RouteOK
<1>4. c \in Contexts /\ Popped(stack, Below) /\ Top = stack[Len(stack)] /\ Len(stack) \in Nat \ {0}
    BY <1>2, <1>3, TopFrame, TopPopped
<1>5. /\ ShapeOK(Below)
      /\ \A d : Busy(stack, d) => Busy(Below, d) \/ c = d
      /\ \A d : InFlight(stack, d) => InFlight(Below, d)
      /\ \A k : Ending(stack, k) => Ending(Below, k)
    BY <1>2, <1>3, <1>4, ShapePopped DEF Ends, Pending
<1>6. ac'[c] = Ended /\ OthersSame(ac, ac', c)
    BY <1>1, <1>3, <1>4 DEF ContextsOK, OthersSame
<1>7. Ended.life = "freed" /\ Ended.flags = {} /\ Ended.err = FALSE /\ Ended.ev = {}
    BY FreedContext DEF Ended
<1>8. data'[c] = None /\ \A d \in Contexts : d # c => data'[d] = data[d]
    BY <1>1, <1>3, <1>4 DEF OnContexts
<1>9. /\ DOMAIN nodes' = DOMAIN nodes
      /\ \A k \in DOMAIN nodes : nodes'[k].acon = IF k = data[c] THEN None ELSE nodes[k].acon
    BY <1>1, <1>3, UnlinkedNodes
<1> HIDE DEF c
<1>10. ASSUME NEW d \in Contexts PROVE FlagsOK(ac'[d], d, Below, notes)
    <2>1. FlagsOK(ac[d], d, stack, notes)
        BY <1>3 DEF Ordered
    <2>2. CASE d = c
        BY <1>6, <1>7, <2>2 DEF FlagsOK
    <2>3. CASE d # c
        BY <1>5, <1>6, <2>1, <2>3 DEF FlagsOK, OthersSame
    <2> QED
        BY <2>2, <2>3
<1>11. LinksOK(ac', nodes', data', Below)
    <2> SUFFICES ASSUME NEW k \in DOMAIN nodes, nodes'[k].acon # None
                 PROVE  LinkOK(ac'[nodes'[k].acon], data'[nodes'[k].acon], k, Below)
        BY <1>9 DEF LinksOK
    <2>1. k # data[c] /\ nodes'[k].acon = nodes[k].acon
        BY <1>9
    <2>2. PICK d \in Contexts : d = nodes[k].acon
        BY <1>3, <2>1 DEF Keyed, Pairs
    <2>3. LinkOK(ac[d], data[d], k, stack)
        BY <1>3, <2>1, <2>2 DEF Ordered, LinksOK
    <2>4. d # c
        BY <2>1, <2>3 DEF LinkOK
    <2> QED
        BY <1>5, <1>6, <1>8, <2>1, <2>2, <2>3, <2>4 DEF LinkOK, OthersSame
<1>12. ReaderOK(ac', Below)
    <2> SUFFICES ASSUME Len(Below) > 0, Below[1].at = "process"
                 PROVE  /\ ~ac'[Below[1].c].err
                        /\ "FREEING" \in ac'[Below[1].c].flags => Len(Below) > 1 /\ Below[2].at \in {"route", "user"}
        BY DEF ReaderOK
    <2>1. Len(Below) = Len(stack) - 1 /\ \A p \in 1 .. Len(stack) - 1 : Below[p] = stack[p]
        BY <1>4 DEF Popped
    <2>2. Below[1] = stack[1] /\ 1 \in 1 .. Len(stack)
        BY <1>4, <2>1
    <2>3. stack[1] \in Frames
        BY <1>3, <2>2 DEF StackOK
    <2>4. PICK d \in Contexts : d = stack[1].c
        BY <2>2, <2>3, FrameFields
    <2>5. ~ac[d].err /\ ("FREEING" \in ac[d].flags => Len(stack) > 1 /\ stack[2].at \in {"route", "user"})
        BY <1>3, <1>4, <2>2, <2>4 DEF Ordered, ReaderOK
    <2>6. CASE d = c
        BY <1>6, <1>7, <2>2, <2>4, <2>6
    <2>7. CASE d # c /\ "FREEING" \in ac[d].flags
        <3>1. Len(stack) # 2
            BY <1>2, <1>4, <2>5, <2>7
        <3>2. Len(Below) > 1 /\ Below[2] = stack[2]
            BY <1>4, <2>1, <2>5, <2>7, <3>1
        <3> QED
            BY <1>6, <2>2, <2>4, <2>5, <2>7, <3>2 DEF OthersSame
    <2>8. CASE d # c /\ "FREEING" \notin ac[d].flags
        BY <1>6, <2>2, <2>4, <2>5, <2>8 DEF OthersSame
    <2> QED
        BY <2>6, <2>7, <2>8
<1>13. Ordered(ac', stack', nodes', data', notes)
    BY <1>1, <1>5, <1>10, <1>11, <1>12 DEF Ordered
<1> QED
    BY <1>1, <1>13, OrderPrimed

\* Steps that only change what is known of the servers or of the user.
LEMMA NotesOrder ==
    ASSUME OrderOK, UNCHANGED <<ac, stack, aborted, nodes, data, useSlots>>,
           "disconnected" \in notes => "disconnected" \in notes'
    PROVE  OrderOK'
<1> SUFFICES ASSUME aborted' = "no" PROVE Ordered(ac', stack', nodes', data', notes')
    BY OrderPrimed
<1>1. Ordered(ac, stack, nodes, data, notes)
    BY DEF OrderOK
<1>2. \A c \in Contexts : FlagsOK(ac[c], c, stack, notes')
    BY <1>1 DEF Ordered, FlagsOK
<1> QED
    BY <1>1, <1>2 DEF Ordered

\* Released.
LEMMA ReleasedOrder ==
    ASSUME Inv, OrderOK, Released
    PROVE  OrderOK'
<1>1. /\ aborted = "no" /\ stack # <<>> /\ Top.at = "release" /\ stack' = Below /\ nodes' = <<>>
      /\ notes' = notes \cup {"freed"} /\ UNCHANGED <<ac, useSlots>>
    BY DEF Released, AtTop, servers
<1>2. Ordered(ac, stack, nodes, data, notes) /\ StackOK(stack, Len(cads)) /\ Len(cads) \in Nat
    BY <1>1, Running DEF OrderOK
<1>3. Popped(stack, Below) /\ Top = stack[Len(stack)] /\ Len(stack) \in 1 .. Len(stack) /\ Len(stack) \in Nat
    BY <1>1, <1>2, TopPopped DEF Popped
<1>4. Len(stack) = 1 /\ stack[1].at = "release"
    BY <1>1, <1>2, <1>3 DEF Ordered, ShapeOK
<1>5. \A c : ~Busy(stack, c) /\ ~InFlight(stack, c)
    <2>1. 1 .. Len(stack) = {1}
        BY <1>4
    <2> QED
        BY <1>4, <2>1 DEF Busy, Works, InFlight, Pending
<1>6. Len(stack') = 0
    BY <1>1, <1>3, <1>4 DEF Popped
<1>7. ShapeOK(stack')
    BY <1>6, NoFrame
<1>8. \A c \in Contexts : FlagsOK(ac[c], c, stack', notes')
    BY <1>1, <1>2, <1>5 DEF Ordered, FlagsOK
<1>9. ReaderOK(ac', stack')
    BY <1>6 DEF ReaderOK
<1>10. DOMAIN nodes' = {}
    BY <1>1
<1>11. LinksOK(ac', nodes', data', stack')
    BY <1>10 DEF LinksOK
<1>12. Ordered(ac', stack', nodes', data', notes')
    BY <1>1, <1>7, <1>8, <1>9, <1>11 DEF Ordered
<1> QED
    BY <1>1, <1>12, OrderPrimed

\* redisClusterAsyncFree.
LEMMA AllFreedOrder ==
    ASSUME Inv, OrderOK, redisClusterAsyncFree
    PROVE  OrderOK'
<1> DEFINE cs == ContextsOf(DOMAIN nodes)
           f == [at |-> "release", c |-> None]
           mid == <<f>>
           fs == FreeFrames(SetToSeq(cs), ac')
           n == Len(cads)
<1>1. /\ aborted = "no" /\ stack = <<>>
      /\ ac' = WithFlag(cs, "FREEING")
      /\ stack' = mid \o fs
      /\ UNCHANGED <<nodes, data, useSlots>> /\ notes' = notes \cup {"ended"}
    BY DEF redisClusterAsyncFree, EventLoop, servers, route
<1>2. /\ Ordered(ac, stack, nodes, data, notes) /\ Keyed(nodes) /\ ContextsOK(ac) /\ n \in Nat
      /\ \A d : ~Busy(stack, d) /\ ~InFlight(stack, d) /\ ~Ending(stack, d)
      /\ \A c \in Contexts : ac[c].ev # {} => ~ac[c].err /\ "FREEING" \notin ac[c].flags
    BY <1>1, InLoop, Running
<1>3. cs \in SUBSET Contexts
    BY <1>2 DEF ContextsOf, Keyed, Pairs
<1>4. \A k \in DOMAIN nodes : nodes[k].acon # None => nodes[k].acon \in cs
    BY DEF ContextsOf
<1> HIDE DEF cs
<1>5. /\ ContextsOK(ac')
      /\ \A c \in Contexts : Kept(ac[c], ac'[c])
      /\ \A c \in Contexts : ac'[c].flags = IF c \in cs THEN ac[c].flags \cup {"FREEING"} ELSE ac[c].flags
    <2>1. PICK acs : acs = WithFlag(cs, "FREEING")
        OBVIOUS
    <2>2. /\ ContextsOK(acs)
          /\ \A c \in Contexts : Kept(ac[c], acs[c])
          /\ \A c \in Contexts : acs[c].flags = IF c \in cs THEN ac[c].flags \cup {"FREEING"} ELSE ac[c].flags
        <3>1. ContextsOK(acs) /\ (\A c \in Contexts : Kept(ac[c], acs[c]))
            BY <1>2, <2>1, FlagGiven
        <3>2. ASSUME NEW c \in Contexts
              PROVE  acs[c].flags = IF c \in cs THEN ac[c].flags \cup {"FREEING"} ELSE ac[c].flags
            <4>1. CASE c \in cs
                BY <1>2, <2>1, <4>1, FlagGiven
            <4>2. CASE c \notin cs
                BY <2>1, <4>2 DEF WithFlag
            <4> QED
                BY <4>1, <4>2
        <3> QED
            BY <3>1, <3>2
    <2> QED
        BY <1>1, <2>1, <2>2
<1>6. /\ fs \in Seq(Frames) /\ \A i \in 1 .. Len(fs) : fs[i].at = "free" /\ fs[i].c \in cs
      /\ \A c \in cs : \E i \in 1 .. Len(fs) : fs[i].c = c
    BY <1>3, <1>5, FreedInOrder
<1>7. /\ Len(mid) = 1 /\ mid[1].at = "release" /\ StackOK(mid, n)
    <2>1. f \in Frames /\ f.at = "release"
        BY DEF Frames
    <2> HIDE DEF f
    <2>2. mid \in Seq(Frames) /\ Len(mid) = 1 /\ mid[1] = f
        BY <2>1
    <2> QED
        BY <2>1, <2>2 DEF StackOK, Pending
<1> HIDE DEF mid, fs, n
<1>8. ShapeOK(mid)
    <2>1. 1 .. Len(mid) = {1}
        BY <1>7
    <2> QED
        BY <1>7, <2>1 DEF ShapeOK, Pending
<1>9. /\ ShapeOK(stack') /\ stack'[1] = mid[1]
      /\ \A i \in 1 .. Len(fs) : Busy(stack', fs[i].c)
    <2>1. 1 \in 1 .. Len(mid) /\ Len(mid) > 0 /\ mid[Len(mid)].at \notin {"callback", "user"}
        BY <1>7
    <2>2. /\ ShapeOK(mid \o fs) /\ \A i \in 1 .. Len(fs) : Busy(mid \o fs, fs[i].c)
          /\ \A p \in 1 .. Len(mid) : (mid \o fs)[p] = mid[p]
        BY <1>2, <1>6, <1>7, <1>8, <2>1, ShapeJoined
    <2> QED
        BY <1>1, <2>1, <2>2
<1>10. 1 \in 1 .. Len(stack')
    <2>1. StackOK(mid, n)
        BY <1>7
    <2>2. Len(fs) \in Nat /\ Len(mid \o fs) = Len(mid) + Len(fs)
        BY <1>2, <1>6, <2>1, StackJoined
    <2> QED
        BY <1>1, <1>7, <2>2
<1>11. \A k : Ending(stack', k)
    BY <1>7, <1>9, <1>10 DEF Ending, Ends
<1>12. ASSUME NEW c \in Contexts PROVE FlagsOK(ac'[c], c, stack', notes')
    <2>1. FlagsOK(ac[c], c, stack, notes)
        BY <1>2 DEF Ordered
    <2>2. ac'[c].err = ac[c].err /\ ac'[c].ev = ac[c].ev
        BY <1>5 DEF Kept
    <2>3. CASE c \in cs
        <3>1. ac'[c].flags = ac[c].flags \cup {"FREEING"}
            BY <1>5, <2>3
        <3>2. Busy(stack', c)
            BY <1>6, <1>9, <2>3
        <3> QED
            BY <1>1, <1>2, <2>1, <2>2, <3>1, <3>2 DEF FlagsOK
    <2>4. CASE c \notin cs
        <3>1. ac'[c].flags = ac[c].flags
            BY <1>5, <2>4
        <3> QED
            BY <1>1, <1>2, <2>1, <2>2, <3>1 DEF FlagsOK
    <2> QED
        BY <2>3, <2>4
<1>13. ReaderOK(ac', stack')
    BY <1>7, <1>9 DEF ReaderOK
<1>14. LinksOK(ac', nodes, data, stack')
    <2> SUFFICES ASSUME NEW k \in DOMAIN nodes, nodes[k].acon # None
                 PROVE  LinkOK(ac'[nodes[k].acon], data[nodes[k].acon], k, stack')
        BY DEF LinksOK
    <2>1. PICK d \in Contexts : d = nodes[k].acon
        BY <1>2 DEF Keyed, Pairs
    <2>2. LinkOK(ac[d], data[d], k, stack)
        BY <1>2, <2>1 DEF Ordered, LinksOK
    <2> QED
        BY <1>5, <1>11, <2>1, <2>2 DEF LinkOK, Kept
<1>15. Ordered(ac', stack', nodes', data', notes')
    BY <1>1, <1>9, <1>12, <1>13, <1>14 DEF Ordered
<1> QED
    BY <1>1, <1>15, OrderPrimed

\* redisClusterAsyncDisconnect.
LEMMA DisconnectOrder ==
    ASSUME Inv, OrderOK, redisClusterAsyncDisconnect
    PROVE  OrderOK'
<1> DEFINE keys == {k \in DOMAIN nodes : nodes[k].acon # None /\ ~ac[nodes[k].acon].err}
           ended == {nodes[k].acon : k \in keys}
           now == {c \in ended : "IN_CALLBACK" \notin ac[c].flags /\ ac[c].replies = <<>>}
           flagged(c) == Reflag(ac[c], ac[c].flags \cup {"DISCONNECTING"})
<1>1. /\ aborted = "no"
      /\ ac' = [c \in Contexts |-> IF c \in now THEN Ended ELSE IF c \in ended THEN flagged(c) ELSE ac[c]]
      /\ nodes' = [k \in DOMAIN nodes |-> IF k \in keys THEN [nodes[k] EXCEPT !.acon = None] ELSE nodes[k]]
      /\ notes' = notes \cup {"disconnected"}
      /\ UNCHANGED <<stack, data, useSlots>>
    BY DEF redisClusterAsyncDisconnect, UserMayAct, Ended, Reflag, servers
<1>2. /\ Ordered(ac, stack, nodes, data, notes) /\ ContextsOK(ac) /\ Keyed(nodes) /\ StackOK(stack, Len(cads))
    BY <1>1, Running DEF OrderOK, RouteOK
<1>3. \A c \in Contexts : Kept(ac[c], flagged(c)) /\ flagged(c).flags = ac[c].flags \cup {"DISCONNECTING"}
    <2> SUFFICES ASSUME NEW c \in Contexts
                 PROVE  Kept(ac[c], flagged(c)) /\ flagged(c).flags = ac[c].flags \cup {"DISCONNECTING"}
        OBVIOUS
    <2>1. IsContext(ac[c])
        BY <1>2 DEF ContextsOK
    <2>2. ac[c].flags \cup {"DISCONNECTING"} \in SUBSET Flags
        BY <2>1 DEF IsContext, Flags
    <2> QED
        BY <2>1, <2>2, ReflagTyped
<1>4. \A k \in DOMAIN nodes \ keys : nodes[k].acon # None => ac[nodes[k].acon].err
    OBVIOUS
<1>5. \A c \in ended : ~ac[c].err
    OBVIOUS
<1>6. now \subseteq ended
    OBVIOUS
<1> HIDE DEF flagged, now, ended, keys
<1>7. Ended.life = "freed" /\ Ended.flags = {} /\ Ended.err = FALSE /\ Ended.ev = {}
    BY FreedContext DEF Ended
<1>8. \A c \in Contexts : ac'[c] = IF c \in now THEN Ended ELSE IF c \in ended THEN flagged(c) ELSE ac[c]
    BY <1>1
<1>9. ASSUME NEW c \in Contexts PROVE FlagsOK(ac'[c], c, stack, notes')
    <2>1. FlagsOK(ac[c], c, stack, notes)
        BY <1>2 DEF Ordered
    <2>2. CASE c \in now
        BY <1>7, <1>8, <2>2 DEF FlagsOK
    <2>3. CASE c \notin now /\ c \in ended
        <3>1. ac'[c] = flagged(c)
            BY <1>8, <2>3
        <3>2. ac'[c].flags = ac[c].flags \cup {"DISCONNECTING"} /\ ac'[c].err = ac[c].err /\ ac'[c].ev = ac[c].ev
            BY <1>3, <3>1 DEF Kept
        <3> QED
            BY <1>1, <2>1, <3>2 DEF FlagsOK
    <2>4. CASE c \notin now /\ c \notin ended
        BY <1>1, <1>8, <2>1, <2>4 DEF FlagsOK
    <2> QED
        BY <2>2, <2>3, <2>4
<1>10. ReaderOK(ac', stack)
    <2> SUFFICES ASSUME Len(stack) > 0, stack[1].at = "process"
                 PROVE  /\ ~ac'[stack[1].c].err
                        /\ "FREEING" \in ac'[stack[1].c].flags => Len(stack) > 1 /\ stack[2].at \in {"route", "user"}
        BY DEF ReaderOK
    <2>1. 1 \in 1 .. Len(stack)
        BY <1>2 DEF StackOK
    <2>2. stack[1] \in Frames
        BY <1>2, <2>1 DEF StackOK
    <2>3. PICK c \in Contexts : c = stack[1].c
        BY <2>2, FrameFields
    <2>4. ~ac[c].err /\ ("FREEING" \in ac[c].flags => Len(stack) > 1 /\ stack[2].at \in {"route", "user"})
        BY <1>2, <2>3 DEF Ordered, ReaderOK
    <2>5. CASE c \in now
        BY <1>7, <1>8, <2>3, <2>5
    <2>6. CASE c \notin now /\ c \in ended
        <3>1. ac'[c] = flagged(c)
            BY <1>8, <2>6
        <3>2. ac'[c].flags = ac[c].flags \cup {"DISCONNECTING"} /\ ac'[c].err = ac[c].err
            BY <1>3, <3>1 DEF Kept
        <3> QED
            BY <2>3, <2>4, <3>2
    <2>7. CASE c \notin now /\ c \notin ended
        BY <1>8, <2>3, <2>4, <2>7
    <2> QED
        BY <2>5, <2>6, <2>7
<1>11. LinksOK(ac', nodes', data, stack)
    <2> SUFFICES ASSUME NEW k \in DOMAIN nodes', nodes'[k].acon # None
                 PROVE  LinkOK(ac'[nodes'[k].acon], data[nodes'[k].acon], k, stack)
        BY DEF LinksOK
    <2>1. k \in DOMAIN nodes /\ nodes[k] \in Pairs
        BY <1>1, <1>2 DEF Keyed
    <2>2. k \notin keys
        <3>1. ASSUME k \in keys PROVE FALSE
            <4>1. nodes'[k] = [nodes[k] EXCEPT !.acon = None]
                BY <1>1, <2>1, <3>1
            <4> QED
                BY <2>1, <4>1 DEF Pairs
        <3> QED
            BY <3>1
    <2>3. nodes'[k] = nodes[k]
        BY <1>1, <2>1, <2>2
    <2>4. PICK d \in Contexts : d = nodes[k].acon
        BY <2>1, <2>3 DEF Pairs
    <2>5. ac[d].err
        BY <1>4, <2>1, <2>2, <2>3, <2>4
    <2>6. ac'[d] = ac[d]
        BY <1>5, <1>6, <1>8, <2>4, <2>5
    <2> QED
        BY <1>2, <2>1, <2>3, <2>4, <2>6 DEF Ordered, LinksOK
<1>12. Ordered(ac', stack', nodes', data', notes')
    BY <1>1, <1>2, <1>9, <1>10, <1>11 DEF Ordered
<1> QED
    BY <1>1, <1>12, OrderPrimed

\* A command of the user is sent to the context c of acs.
Issued(acs, c, slot) ==
    LET id == Len(cads) + 1
    IN  /\ c \in Contexts /\ ~acs[c].err /\ "FREEING" \notin acs[c].flags
        /\ SentAs(acs, ac', c, Get(id, slot), Callback(id))
        /\ calls' = Append(calls, <<>>) /\ cads' = Append(cads, "out") /\ answers' = Append(answers, <<>>)

\* redisClusterAsyncFormattedCommand: a command is sent or refused.
LEMMA CommandDoes ==
    ASSUME Inv, OrderOK, NEW slot \in Slots, AsyncCommand(slot)
    PROVE  /\ aborted = "no" /\ (stack # <<>> => Top.at = "user")
           /\ UNCHANGED <<stack, aborted, useSlots>>
           /\ notes \subseteq notes' /\ accErr' \in BOOLEAN /\ (accErr' => "refused" \in notes')
           /\ \E acs : /\ Apart(acs, nodes', data', notes, stack) /\ ContextsOK(acs) /\ Keyed(nodes')
                       /\ \A i : Held(acs, i) => Held(ac, i)
                       /\ \/ ac' = acs /\ UNCHANGED <<calls, cads, answers>>
                          \/ \E c : Issued(acs, c, slot)
<1> DEFINE key == table[slot]
           n == Len(cads)
           m == n + 1
           cmd == Get(m, slot)
           noted == IF stack # <<>> /\ ac[Top.c].err THEN notes \cup {"in error"} ELSE notes
<1>1. /\ aborted = "no" /\ "freed" \notin notes /\ (stack # <<>> => Top.at = "user") /\ ~Freeing
      /\ UNCHANGED <<stack, aborted, servers, table, timer>>
    BY DEF AsyncCommand, UserMayAct
<1>2. PICK got \in actx_get_by_node(nodes[key]) :
              /\ Link(got, key, key, nodes, data)
              /\ accErr' = got.err
              /\ IF got.err
                 THEN /\ ac' = WithContext(got)
                      /\ notes' = noted \cup {"refused"}
                      /\ UNCHANGED <<calls, cmds, cads, retries, answers, executed>>
                 ELSE /\ ac' = Sent(WithContext(got), got.c, cmd, Callback(m))
                      /\ cmds' = Append(cmds, cmd)
                      /\ calls' = Append(calls, <<>>)
                      /\ cads' = Append(cads, "out")
                      /\ retries' = Append(retries, 0)
                      /\ answers' = Append(answers, <<>>)
                      /\ executed' = Append(executed, 0)
                      /\ notes' = noted
    BY DEF AsyncCommand
<1>3. /\ TypeOK /\ Tracked /\ Ordered(ac, stack, nodes, data, notes) /\ ShapeOK(stack)
      /\ ContextsOK(ac) /\ net \in [Contexts -> Connections] /\ StackOK(stack, n) /\ RouteOK /\ n \in Nat
    BY <1>1, Running DEF OrderOK, Ordered
<1>4. key \in DOMAIN nodes /\ key \in Servers /\ Keyed(nodes) /\ OnContexts(data)
    BY <1>1, <1>3 DEF RouteOK, Routes
<1>5. PICK node : node = nodes[key]
    OBVIOUS
<1>6. GotAt(node, got, nodes, key)
    BY <1>2, <1>4, <1>5 DEF GotAt, Keyed, Pairs
<1>7. \A k : ~Ending(stack, k)
    <2>1. CASE stack = <<>>
        <3>1. Len(stack) = 0
            BY <2>1
        <3> QED
            BY <3>1, NoFrame
    <2>2. CASE stack # <<>>
        BY <1>1, <1>3, <2>2, Alone
    <2> QED
        BY <2>1, <2>2
<1>8. \A p \in 1 .. Len(stack) : stack[p].at = "process" => ac[stack[p].c].life # "unused"
    <2>1. CASE stack = <<>>
        <3>1. Len(stack) = 0
            BY <2>1
        <3>2. 1 .. Len(stack) = {}
            BY <3>1
        <3> QED
            BY <3>2
    <2>2. CASE stack # <<>>
        <3>1. Len(stack) = 2 /\ Top = stack[2] /\ Works(stack[1]) /\ stack[1].c = Top.c
            BY <1>1, <1>3, <2>2, Alone
        <3>2. 1 .. Len(stack) = {1, 2}
            BY <3>1
        <3>3. Pending(stack[2])
            BY <1>1, <2>2, <3>1 DEF Pending
        <3>4. ac[stack[2].c].life # "unused"
            BY <1>3, <3>2, <3>3 DEF Tracked, UnusedOK
        <3>5. stack[2].at = "user"
            BY <1>1, <2>2, <3>1
        <3> QED
            BY <3>1, <3>2, <3>4, <3>5
    <2> QED
        BY <2>1, <2>2
<1>9. Apart(ac, nodes, data, notes, stack)
    BY <1>3 DEF Ordered, Apart
<1>10. PICK acs : acs = WithContext(got)
    OBVIOUS
<1>11. Link(got, key, key, nodes, data)
    BY <1>2
<1> HIDE DEF key, n, m, cmd, noted
<1>12. PICK ns, ds : ns = nodes /\ ds = data
    OBVIOUS
<1>13. /\ Keyed(ns) /\ OnContexts(ds) /\ Apart(ac, ns, ds, notes, stack) /\ GotAt(node, got, ns, key)
       /\ Link(got, key, key, ns, ds)
    BY <1>4, <1>6, <1>9, <1>11, <1>12
<1>14. /\ Apart(WithContext(got), nodes', data', notes, stack)
       /\ ContextsOK(WithContext(got)) /\ Keyed(nodes')
       /\ \A i : Held(WithContext(got), i) => Held(ac, i)
       /\ ~got.err => /\ got.c \in Contexts /\ ~WithContext(got)[got.c].err
                      /\ \/ WithContext(got)[got.c].flags = {}
                         \/ /\ key \in DOMAIN ns /\ ns[key].acon = got.c
                            /\ WithContext(got)[got.c] = ac[got.c]
    BY <1>3, <1>4, <1>8, <1>13, GotOrder DEF n
<1>15. ~got.err => "FREEING" \notin acs[got.c].flags
    <2> SUFFICES ASSUME ~got.err, acs[got.c].flags # {} PROVE "FREEING" \notin acs[got.c].flags
        OBVIOUS
    <2>1. key \in DOMAIN nodes /\ nodes[key].acon = got.c /\ acs[got.c] = ac[got.c] /\ got.c \in Contexts
        BY <1>10, <1>12, <1>14
    <2>2. got.fresh => acs[got.c].flags = {}
        BY <1>3, <1>6, <1>10, <2>1, GotContext DEF GotAt
    <2>3. got.c # None
        BY <1>3, <1>6, <1>10, <2>2, GotContext DEF GotAt
    <2>4. LinkOK(ac[got.c], data[got.c], key, stack)
        BY <1>3, <2>1, <2>3 DEF Ordered, LinksOK
    <2> QED
        BY <1>7, <2>1, <2>4 DEF LinkOK
<1>16. notes \subseteq noted
    BY DEF noted
<1>17. CASE got.err
    <2>1. ac' = acs /\ UNCHANGED <<calls, cads, answers>> /\ notes' = noted \cup {"refused"} /\ accErr' = got.err
        BY <1>2, <1>10, <1>17
    <2>2. got.err \in BOOLEAN
        BY <1>3, <1>6, GotContext DEF GotAt
    <2> QED
        BY <1>1, <1>10, <1>14, <1>16, <2>1, <2>2 DEF servers
<1>18. CASE ~got.err
    <2>1. /\ SentAs(acs, ac', got.c, cmd, Callback(m)) /\ notes' = noted /\ accErr' = got.err
          /\ calls' = Append(calls, <<>>) /\ cads' = Append(cads, "out") /\ answers' = Append(answers, <<>>)
        BY <1>2, <1>10, <1>18 DEF SentAs
    <2>2. got.err \in BOOLEAN
        BY <1>3, <1>6, GotContext DEF GotAt
    <2>3. Issued(acs, got.c, slot)
        BY <1>10, <1>14, <1>15, <1>18, <2>1 DEF Issued, cmd, m, n
    <2> QED
        BY <1>1, <1>10, <1>14, <1>16, <1>18, <2>1, <2>2, <2>3 DEF servers
<1> QED
    BY <1>17, <1>18

\* redisClusterAsyncFormattedCommand.
LEMMA AsyncCommandOrder ==
    ASSUME Inv, OrderOK, NEW slot \in Slots, AsyncCommand(slot)
    PROVE  OrderOK'
<1>1. /\ aborted = "no" /\ UNCHANGED <<stack, aborted, useSlots>> /\ notes \subseteq notes'
      /\ \E acs : /\ Apart(acs, nodes', data', notes, stack) /\ ContextsOK(acs) /\ Keyed(nodes')
                  /\ ac' = acs \/ \E c : Issued(acs, c, slot)
    BY CommandDoes
<1>2. PICK acs : /\ Apart(acs, nodes', data', notes, stack) /\ ContextsOK(acs) /\ Keyed(nodes')
                 /\ ac' = acs \/ \E c : Issued(acs, c, slot)
    BY <1>1
<1>3. Ordered(ac, stack, nodes, data, notes) /\ StackOK(stack, Len(cads)) /\ Len(cads) \in Nat
    BY <1>1, Running DEF OrderOK
<1>4. \A c \in Contexts : /\ ac'[c].life = acs[c].life /\ ac'[c].flags = acs[c].flags /\ ac'[c].err = acs[c].err
                          /\ ac'[c].ev = acs[c].ev \/ (~acs[c].err /\ "FREEING" \notin acs[c].flags)
    <2>1. CASE ac' = acs
        BY <2>1
    <2>2. CASE \E c : Issued(acs, c, slot)
        <3>1. PICK c : Issued(acs, c, slot)
            BY <2>2
        <3>2. PICK id, cb : id = Len(cads) + 1 /\ cb = Callback(id)
            OBVIOUS
        <3>3. /\ c \in Contexts /\ ~acs[c].err /\ "FREEING" \notin acs[c].flags
              /\ SentAs(acs, ac', c, Get(id, slot), cb)
            BY <3>1, <3>2 DEF Issued
        <3>4. id \in Nat \ {0}
            BY <1>3, <3>2
        <3>5. Get(id, slot) \in Commands /\ cb \in Callbacks
            BY <3>2, <3>4, CommandCallback DEF Get, Commands
        <3>6. /\ OthersSame(acs, ac', c)
              /\ ac'[c].life = acs[c].life /\ ac'[c].flags = acs[c].flags /\ ac'[c].err = acs[c].err
            BY <1>2, <3>3, <3>5, SentTo
        <3> QED
            BY <3>3, <3>6 DEF OthersSame
    <2> QED
        BY <1>2, <2>1, <2>2
<1>5. \A c \in Contexts : FlagsOK(ac'[c], c, stack, notes')
    <2> SUFFICES ASSUME NEW c \in Contexts PROVE FlagsOK(ac'[c], c, stack, notes')
        OBVIOUS
    <2>1. FlagsOK(acs[c], c, stack, notes)
        BY <1>2 DEF Apart
    <2> QED
        BY <1>1, <1>4, <2>1 DEF FlagsOK
<1>6. ReaderOK(ac', stack)
    <2> SUFFICES ASSUME Len(stack) > 0, stack[1].at = "process"
                 PROVE  /\ ~ac'[stack[1].c].err
                        /\ "FREEING" \in ac'[stack[1].c].flags => Len(stack) > 1 /\ stack[2].at \in {"route", "user"}
        BY DEF ReaderOK
    <2>1. 1 \in 1 .. Len(stack)
        BY <1>3 DEF StackOK
    <2>2. stack[1] \in Frames
        BY <1>3, <2>1 DEF StackOK
    <2>3. PICK c \in Contexts : c = stack[1].c
        BY <2>2, FrameFields
    <2> QED
        BY <1>2, <1>4, <2>3 DEF Apart, ReaderOK
<1>7. LinksOK(ac', nodes', data', stack)
    <2> SUFFICES ASSUME NEW k \in DOMAIN nodes', nodes'[k].acon # None
                 PROVE  LinkOK(ac'[nodes'[k].acon], data'[nodes'[k].acon], k, stack)
        BY DEF LinksOK
    <2>1. PICK ns : ns = nodes'
        OBVIOUS
    <2>2. ns[k].acon \in Contexts
        BY <1>2, <2>1 DEF Keyed, Pairs
    <2>3. LinkOK(acs[ns[k].acon], data'[ns[k].acon], k, stack)
        BY <1>2, <2>1 DEF Apart, LinksOK
    <2> QED
        BY <1>4, <2>1, <2>2, <2>3 DEF LinkOK
<1>8. Ordered(ac', stack', nodes', data', notes')
    BY <1>1, <1>3, <1>5, <1>6, <1>7 DEF Ordered
<1> QED
    BY <1>1, <1>8, OrderPrimed

\* Contexts and nodes are in order at the beginning.
LEMMA InitOrder == Init => OrderOK
<1> SUFFICES ASSUME Init PROVE Ordered(ac, stack, nodes, data, notes)
    BY DEF OrderOK
<1>1. ac = [c \in Contexts |-> Unused] /\ Len(stack) = 0
    BY DEF Init, redisClusterAsyncInitialize, AsyncInit
<1>2. Unused.flags = {} /\ Unused.ev = {}
    BY DEF Unused
<1>3. ShapeOK(stack)
    BY <1>1, NoFrame
<1>4. \A c \in Contexts : FlagsOK(ac[c], c, stack, notes)
    BY <1>1, <1>2 DEF FlagsOK
<1>5. ReaderOK(ac, stack)
    BY <1>1 DEF ReaderOK
<1>6. LinksOK(ac, nodes, data, stack)
    BY FirstRoute DEF LinksOK
<1> QED
    BY <1>3, <1>4, <1>5, <1>6 DEF Ordered

\* Every step keeps contexts and nodes in order.
LEMMA StepOrder == Inv /\ OrderOK /\ [Next]_vars => OrderOK'
<1> SUFFICES ASSUME Inv, OrderOK, [Next]_vars
             PROVE  OrderOK'
    OBVIOUS
<1>1. CASE Library /\ UNCHANGED <<servers, route, client, executed>>
    BY <1>1, FreeCallbackOrder, ProcessNoneOrder, ProcessReplyOrder DEF Library
<1>2. CASE UserReturns \/ Answered \/ NullCounted \/ NullTimed \/ TooMany \/ Moved \/ Install \/ Ask \/ Again
    BY <1>2, UserReturnsOrder, AnsweredOrder, NullCountedOrder, NullTimedOrder, TooManyOrder, MovedOrder, InstallOrder,
       AskOrder, AgainOrder
<1>3. CASE CallbackLost \/ UnlinkLost \/ CommandInUpdate
    <2>1. aborted' # "no"
        BY <1>3 DEF CallbackLost, UnlinkLost, CommandInUpdate, Abort
    <2> QED
        BY <2>1, AbortedOrder
<1>4. CASE Unlink \/ Released
    BY <1>4, UnlinkOrder, ReleasedOrder
<1>5. CASE (\E slot \in Slots : AsyncCommand(slot)) \/ redisClusterAsyncDisconnect \/ redisClusterAsyncFree
    BY <1>5, AsyncCommandOrder, DisconnectOrder, AllFreedOrder
<1>6. CASE CommandRefused \/ Down \/ Up \/ \E slot \in Slots : Import(slot) \/ Take(slot)
    <2>1. UNCHANGED <<ac, stack, aborted, nodes, data, useSlots>>
        BY <1>6 DEF CommandRefused, Down, Up, Import, Take, avars, servers, route
    <2>2. "disconnected" \in notes => "disconnected" \in notes'
        BY <1>6 DEF CommandRefused, Down, Up, Import, Take, client
    <2> QED
        BY <2>1, <2>2, NotesOrder
<1>7. CASE \E c \in Contexts : Write(c) \/ (Event(c) /\ UNCHANGED <<servers, route, client, executed>>)
    BY <1>7, WriteOrder, FailsOrder, ReadOrder, BreakOrder DEF Event
<1>8. CASE Over \/ UNCHANGED vars
    <2>1. UNCHANGED <<ac, stack, aborted, nodes, data, useSlots, notes>>
        BY <1>8 DEF Over, vars, avars, servers, route, client
    <2> QED
        BY <2>1, NotesOrder
<1> QED
    BY <1>1, <1>2, <1>3, <1>4, <1>5, <1>6, <1>7, <1>8 DEF Next, thread, user


-----------------------------------------------------------------------------
(***************************************************************************)
(* What the callbacks of the user are called with.                         *)
(***************************************************************************)
\* the library has been told what a server says to the command i; the command
\* waits for its reply
Heard(cls, i) == Reply("reply", i) \in Range(cls[i])
Waiting(i, cds, ans, cls) == cds[i] = "out" /\ ans[i] = <<>> /\ ~Heard(cls, i)

\* a call about the command i, of the library or of the user
CallOK(f, i, cds, ans, cls) ==
    /\ cds[i] = "out"
    /\ f.at = "user" <=> ans[i] # <<>>
    /\ f.at = "user" \/ f.reply = Reply("reply", i) \/ ~Heard(cls, i)

WaitOK(acs, st, cds, ans, cls) ==
    /\ \A i \in 1 .. Len(cds) : Held(acs, i) => Waiting(i, cds, ans, cls)
    /\ \A p \in 1 .. Len(st) : Pending(st[p]) => CallOK(st[p], st[p].cb.id, cds, ans, cls)

\* the error of a command that was refused, or of the one whose callback runs
ErrOK(e, st, nts) == e => "refused" \in nts \/ (st # <<>> /\ st[Len(st)].at = "user")

\* what the callback of the command i has been called with
ToldOK(i, cds, ans, cls, nts) ==
    /\ ans[i] \in {<<>>, <<NULL>>, <<Reply("reply", i)>>}
    /\ cds[i] = "freed" => ans[i] # <<>>
    /\ cds[i] = "dropped" => "disconnected" \in nts
    /\ ans[i] = <<NULL>> /\ Heard(cls, i) => "refused" \in nts

AnswersOK ==
    /\ \A i \in 1 .. Len(cads) : ToldOK(i, cads, answers, calls, notes)
    /\ aborted = "no" => WaitOK(ac, stack, cads, answers, calls) /\ ErrOK(accErr, stack, notes)

\* NULL is not the reply to a command.
LEMMA NullReply == \A i : Reply("reply", i) # NULL
<1>1. NULL.kind = "NULL" /\ \A i : Reply("reply", i).kind = "reply"
    BY DEF NULL, Reply
<1> QED
    BY <1>1

\* the same commands wait, and are called about
Rest(acs, st, then, new) ==
    /\ \A i : Held(then, i) => i = 0 \/ Held(acs, i)
    /\ \A p \in 1 .. Len(new) : Pending(new[p]) =>
          /\ p \in 1 .. Len(st) /\ Pending(st[p]) /\ new[p].cb = st[p].cb /\ new[p].reply = st[p].reply
          /\ new[p].at = "user" <=> st[p].at = "user"

\* the notes that matter here are kept
NotesKept == \A x \in {"refused", "disconnected"} : x \in notes => x \in notes'

\* Nothing is called, and no command is sent.
LEMMA RestAnswers ==
    ASSUME AnswersOK, UNCHANGED <<cads, answers, calls>>, NotesKept,
           aborted' = "no" => aborted = "no" /\ Rest(ac, stack, ac', stack') /\ ErrOK(accErr', stack', notes')
    PROVE  AnswersOK'
<1>1. \A i \in 1 .. Len(cads) : ToldOK(i, cads, answers, calls, notes')
    BY DEF AnswersOK, ToldOK, NotesKept
<1>2. ASSUME aborted' = "no" PROVE WaitOK(ac', stack', cads, answers, calls)
    <2>1. WaitOK(ac, stack, cads, answers, calls) /\ Rest(ac, stack, ac', stack')
        BY <1>2 DEF AnswersOK
    <2>2. \A i \in 1 .. Len(cads) : Held(ac', i) => Waiting(i, cads, answers, calls)
        BY <2>1 DEF WaitOK, Rest
    <2>3. \A p \in 1 .. Len(stack') : Pending(stack'[p]) => CallOK(stack'[p], stack'[p].cb.id, cads, answers, calls)
        BY <2>1 DEF WaitOK, Rest, CallOK
    <2> QED
        BY <2>2, <2>3 DEF WaitOK
<1>3. (\A i \in 1 .. Len(cads) : ToldOK(i, cads, answers, calls, notes))' <=>
      \A i \in 1 .. Len(cads) : ToldOK(i, cads, answers, calls, notes')
    BY DEF ToldOK, Heard
<1>4. WaitOK(ac, stack, cads, answers, calls)' <=> WaitOK(ac', stack', cads, answers, calls)
    BY DEF WaitOK, CallOK, Waiting, Heard, Held, Pending
<1>5. ErrOK(accErr, stack, notes)' <=> ErrOK(accErr', stack', notes')
    BY DEF ErrOK
<1> QED
    BY <1>1, <1>2, <1>3, <1>4, <1>5 DEF AnswersOK

\* No callback of the user runs, and there is no new error.
LEMMA ErrKept ==
    ASSUME ErrOK(accErr, stack, notes), stack = <<>> \/ Top.at # "user", accErr' = accErr, NotesKept
    PROVE  ErrOK(accErr', stack', notes')
    BY DEF ErrOK, NotesKept, Top

\* No call is about a command.
LEMMA QuietAnswers ==
    ASSUME AnswersOK, aborted = "no", stack = <<>> \/ Top.at # "user", UNCHANGED <<cads, answers, calls, accErr>>,
           NotesKept,
           aborted' = "no" => /\ \A c \in Contexts : ac'[c].replies = ac[c].replies \/ ac'[c].replies = <<>>
                              /\ \A p \in 1 .. Len(stack') : ~Pending(stack'[p])
    PROVE  AnswersOK'
<1>1. ErrOK(accErr', stack', notes')
    BY ErrKept DEF AnswersOK
<1>2. ASSUME aborted' = "no" PROVE Rest(ac, stack, ac', stack')
    <2>1. \A c \in Contexts : ac'[c].replies = <<>> => 1 .. Len(ac'[c].replies) = {}
        OBVIOUS
    <2>2. \A i : Held(ac', i) => Held(ac, i)
        BY <1>2, <2>1 DEF Held
    <2> QED
        BY <1>2, <2>2 DEF Rest
<1> QED
    BY <1>1, <1>2, RestAnswers

\* ... and nothing of the cluster client changes.
LEMMA ClientSame ==
    ASSUME UNCHANGED client
    PROVE  UNCHANGED <<cads, answers, accErr, notes>> /\ NotesKept
    BY DEF client, NotesKept

\* What is known of the command of the call at the top.
LEMMA TopWaits ==
    ASSUME Inv, OrderOK, AnswersOK, NEW at \in {"callback", "user", "route"}, AtTop(at)
    PROVE  /\ Id \in 1 .. Len(cads) /\ CallOK(Top, Id, cads, answers, calls)
           /\ ~Held(ac, Id) /\ Popped(stack, Below) /\ StackOK(Below, Len(cads)) /\ ShapeOK(Below)
           /\ WaitOK(ac, stack, cads, answers, calls) /\ ErrOK(accErr, stack, notes)
           /\ \A p \in 1 .. Len(Below) :
                 Pending(Below[p]) => /\ Below[p].cb.id # Id /\ Below[p].cb.id \in 1 .. Len(cads)
                                      /\ CallOK(Below[p], Below[p].cb.id, cads, answers, calls)
<1>1. /\ aborted = "no" /\ stack # <<>> /\ Pending(Top) /\ StackOK(stack, Len(cads)) /\ Len(cads) \in Nat
      /\ ShapeOK(stack)
    BY InOrder
<1>2. Id \in 1 .. Len(cads) /\ Len(stack) \in 1 .. Len(stack) /\ Top = stack[Len(stack)]
    BY InCommand
<1>3. OwnsOK(ac, stack)
    BY <1>1, Running DEF Tracked, TokensOK
<1>4. ~Held(ac, Id) /\ ~InCall(Below, Id)
    BY <1>1, <1>3, OwnsTop DEF Id
<1>5. WaitOK(ac, stack, cads, answers, calls) /\ ErrOK(accErr, stack, notes)
    BY <1>1 DEF AnswersOK
<1>6. CallOK(Top, Id, cads, answers, calls)
    BY <1>1, <1>2, <1>5 DEF WaitOK, Id
<1>7. Popped(stack, Below) /\ StackOK(Below, Len(cads)) /\ ShapeOK(Below)
    BY <1>1, TopPopped, TopFrame, ShapePopped
<1>8. ASSUME NEW p \in 1 .. Len(Below), Pending(Below[p])
      PROVE  /\ Below[p].cb.id # Id /\ Below[p].cb.id \in 1 .. Len(cads)
             /\ CallOK(Below[p], Below[p].cb.id, cads, answers, calls)
    <2>1. p \in 1 .. Len(stack) /\ Below[p] = stack[p]
        BY <1>7 DEF Popped
    <2>2. Below[p].cb.id # Id
        BY <1>4, <1>8 DEF InCall
    <2> QED
        BY <1>5, <1>7, <1>8, <2>1, <2>2 DEF WaitOK, StackOK
<1> QED
    BY <1>2, <1>4, <1>5, <1>6, <1>7, <1>8

\* An answer for a command that has had none.
LEMMA FirstAnswer ==
    ASSUME NEW list, list \in Seq(Results), list = <<>>, NEW r, NEW new, new = Append(list, r)
    PROVE  new = <<r>>
    OBVIOUS

\* The callback of the user is called (Done).
LEMMA DoneAnswers ==
    ASSUME Inv, OrderOK, AnswersOK, NEW at \in {"callback", "route"}, AtTop(at), NEW err \in BOOLEAN, Done(err),
           err /\ Top.reply = Reply("reply", Id) => "refused" \in notes,
           ~err => Top.reply \in {NULL, Reply("reply", Id)},
           UNCHANGED <<cads, calls, notes>>, \A i : Held(ac', i) => Held(ac, i)
    PROVE  AnswersOK'
<1>1. /\ aborted = "no" /\ stack # <<>> /\ Pending(Top) /\ StackOK(stack, Len(cads)) /\ Len(cads) \in Nat
      /\ ShapeOK(stack) /\ Top.at = at
    BY InOrder
<1>2. /\ Id \in 1 .. Len(cads) /\ CallOK(Top, Id, cads, answers, calls) /\ ~Held(ac, Id) /\ Popped(stack, Below)
      /\ WaitOK(ac, stack, cads, answers, calls)
      /\ \A p \in 1 .. Len(Below) :
            Pending(Below[p]) => /\ Below[p].cb.id # Id /\ Below[p].cb.id \in 1 .. Len(cads)
                                 /\ CallOK(Below[p], Below[p].cb.id, cads, answers, calls)
    BY TopWaits
<1>3. TypeOK
    BY <1>1, Running
<1>4. PICK r : r = IF err THEN NULL ELSE Top.reply
    OBVIOUS
<1>5. /\ accErr' = err /\ aborted' = aborted
      /\ \A i \in 1 .. Len(cads) : answers'[i] = IF i = Id THEN Append(answers[i], r) ELSE answers[i]
    BY <1>1, <1>3, <1>4, DoneDoes
<1>6. answers[Id] \in Seq(Results) /\ answers[Id] = <<>> /\ cads[Id] = "out"
      /\ (Top.reply = Reply("reply", Id) \/ ~Heard(calls, Id))
    BY <1>1, <1>2, <1>3 DEF CallOK, TypeOK, CommandsOK
<1>7. answers'[Id] = <<r>>
    BY <1>2, <1>5, <1>6, FirstAnswer
<1>8. /\ ShapeOK(stack') /\ Len(stack') = Len(stack) /\ stack' # <<>>
      /\ \A p \in 1 .. Len(stack) - 1 : stack'[p] = stack[p]
      /\ stack'[Len(stack')].at = "user" /\ stack'[Len(stack')].cb = Top.cb
    BY <1>1, DoneShape
<1>9. /\ Len(stack) \in Nat \ {0} /\ Len(Below) = Len(stack) - 1 /\ \A p \in 1 .. Len(stack) - 1 : Below[p] = stack[p]
    BY <1>2 DEF Popped
<1>10. r = NULL \/ r = Reply("reply", Id)
    BY <1>4
<1>11. ASSUME NEW i \in 1 .. Len(cads) PROVE ToldOK(i, cads, answers', calls, notes)
    <2>1. CASE i # Id
        BY <1>1, <1>5, <2>1 DEF AnswersOK, ToldOK
    <2>2. CASE i = Id
        <3>1. answers'[i] = <<r>> /\ cads[i] = "out"
            BY <1>6, <1>7, <2>2
        <3>2. answers'[i] \in {<<>>, <<NULL>>, <<Reply("reply", i)>>}
            BY <1>10, <2>2, <3>1
        <3>3. r = NULL /\ Heard(calls, i) => "refused" \in notes
            BY <1>4, <1>6, <2>2, NullReply
        <3>4. <<r>> = <<NULL>> => r = NULL
            OBVIOUS
        <3> QED
            BY <3>1, <3>2, <3>3, <3>4 DEF ToldOK
    <2> QED
        BY <2>1, <2>2
<1>12. ASSUME NEW i \in 1 .. Len(cads), Held(ac', i) PROVE Waiting(i, cads, answers', calls)
    <2>1. Held(ac, i) /\ i # Id
        BY <1>2, <1>12
    <2> QED
        BY <1>2, <1>5, <2>1 DEF WaitOK, Waiting
<1>13. ASSUME NEW p \in 1 .. Len(stack'), Pending(stack'[p])
       PROVE  CallOK(stack'[p], stack'[p].cb.id, cads, answers', calls)
    <2>1. CASE p = Len(stack')
        <3>1. stack'[p].at = "user" /\ stack'[p].cb.id = Id
            BY <1>8, <2>1 DEF Id
        <3>2. <<r>> # <<>>
            OBVIOUS
        <3> QED
            BY <1>6, <1>7, <3>1, <3>2 DEF CallOK
    <2>2. CASE p # Len(stack')
        <3>1. p \in 1 .. Len(Below) /\ stack'[p] = Below[p]
            BY <1>8, <1>9, <2>2
        <3>2. stack'[p].cb.id # Id /\ stack'[p].cb.id \in 1 .. Len(cads)
              /\ CallOK(stack'[p], stack'[p].cb.id, cads, answers, calls)
            BY <1>2, <1>13, <3>1
        <3> QED
            BY <1>5, <3>2 DEF CallOK
    <2> QED
        BY <2>1, <2>2
<1>14. ErrOK(accErr', stack', notes)
    BY <1>8 DEF ErrOK
<1>15. WaitOK(ac', stack', cads, answers', calls)
    BY <1>12, <1>13 DEF WaitOK
<1>16. (\A i \in 1 .. Len(cads) : ToldOK(i, cads, answers, calls, notes))' <=>
      \A i \in 1 .. Len(cads) : ToldOK(i, cads, answers', calls, notes)
    BY DEF ToldOK, Heard
<1>17. WaitOK(ac, stack, cads, answers, calls)' <=> WaitOK(ac', stack', cads, answers', calls)
    BY DEF WaitOK, CallOK, Waiting, Heard, Held, Pending
<1>18. ErrOK(accErr, stack, notes)' <=> ErrOK(accErr', stack', notes)
    BY DEF ErrOK
<1> QED
    BY <1>11, <1>14, <1>15, <1>16, <1>17, <1>18 DEF AnswersOK

\* A reply that is neither NULL nor a redirection.
LEMMA RegularReply ==
    ASSUME Inv, NEW at \in {"callback", "route"}, AtTop(at), Top.reply # NULL, Top.reply.kind \notin Redirections
    PROVE  Top.reply = Reply("reply", Id)
<1>1. /\ aborted = "no" /\ Pending(Top) /\ Top.reply \in Results /\ Len(stack) \in 1 .. Len(stack)
      /\ Top = stack[Len(stack)]
    BY InCommand
<1>2. Top.reply.id = Id
    BY <1>1, Running DEF Tracked, TokensOK, RepliesTrue, Id
<1>3. Top.reply \in Replies
    BY <1>1 DEF Results
<1>4. Top.reply.kind = "reply"
    BY <1>3 DEF Replies, Redirections
<1>5. Top.reply \in [kind : {"reply", "moved", "again"}, id : Nat]
    BY <1>3, <1>4 DEF Replies
<1>6. Top.reply = [kind |-> Top.reply.kind, id |-> Top.reply.id]
    BY <1>5
<1> QED
    BY <1>2, <1>4, <1>6 DEF Reply

\* A redirection is no reply to the command.
LEMMA RedirectedReply == \A r : r.kind \in Redirections => \A i : r # Reply("reply", i)
<1>1. \A i : Reply("reply", i).kind = "reply"
    BY DEF Reply
<1> QED
    BY <1>1 DEF Redirections

\* Answered.
LEMMA AnsweredAnswers ==
    ASSUME Inv, OrderOK, AnswersOK, Answered
    PROVE  AnswersOK'
<1>1. /\ AtTop("callback") /\ Top.reply # NULL /\ Top.reply.kind \notin Redirections /\ Done(accErr)
      /\ UNCHANGED <<ac, cads, calls, notes>>
    BY DEF Answered, InCallback
<1>2. Top.reply = Reply("reply", Id)
    BY <1>1, RegularReply
<1>3. /\ stack # <<>> /\ Top.at = "callback" /\ aborted = "no"
    BY <1>1, InOrder
<1>4. accErr => "refused" \in notes
    BY <1>3 DEF AnswersOK, ErrOK, Top
<1>5. accErr \in BOOLEAN
    BY <1>3, Running
<1> QED
    BY <1>1, <1>2, <1>4, <1>5, DoneAnswers DEF Held

\* TooMany.
LEMMA TooManyAnswers ==
    ASSUME Inv, OrderOK, AnswersOK, TooMany
    PROVE  AnswersOK'
<1>1. /\ AtTop("callback") /\ Top.reply.kind \in Redirections /\ Done(TRUE) /\ UNCHANGED <<ac, cads, calls, notes>>
    BY DEF TooMany, InCallback
<1>2. Top.reply # Reply("reply", Id)
    BY <1>1, RedirectedReply
<1> QED
    BY <1>1, <1>2, DoneAnswers DEF Held

\* NullCounted.
LEMMA NullCountedAnswers ==
    ASSUME Inv, OrderOK, AnswersOK, NullCounted
    PROVE  AnswersOK'
<1>1. AtTop("callback") /\ Top.reply = NULL /\ UNCHANGED <<ac, cads, calls, notes>>
    BY DEF NullCounted, InCallback
<1>2. ContextsOK(ac) /\ Top.c \in Contexts
    BY <1>1, InOrder
<1>3. ac[Top.c].err \in BOOLEAN
    BY <1>2 DEF ContextsOK, IsContext
<1>4. \E err \in BOOLEAN : Done(err)
    BY <1>3 DEF NullCounted
<1> QED
    BY <1>1, <1>4, NullReply, DoneAnswers DEF Held

\* A step in which the route is read.
LEMMA UpdateAnswers ==
    ASSUME Inv, OrderOK, AnswersOK, AtTop("callback"), Top.reply # NULL \/ ~Freeing, UpdateRoute,
           UNCHANGED <<cads, answers, calls, accErr, notes, aborted>>
    PROVE  AnswersOK'
<1>1. /\ aborted = "no" /\ stack # <<>> /\ StackOK(stack, Len(cads)) /\ Len(cads) \in Nat
      /\ ShapeOK(stack) /\ Top.at = "callback"
    BY InOrder
<1>2. Len(stack) = 2 /\ Top = stack[2] /\ Works(stack[1])
    BY <1>1, Alone
<1>3. PICK t \in {owner, before} : RouteRead(t)
    BY <1>1, RouteBegins
<1>4. /\ \A c \in Contexts : Kept(ac[c], ac'[c])
      /\ Len(stack') \in Nat /\ stack'[1] = stack[1]
      /\ stack'[2] = [at |-> "route", c |-> Top.c, cb |-> Top.cb, reply |-> Top.reply, table |-> t]
      /\ \A p \in 1 .. Len(stack') : p > 2 => stack'[p].at = "free"
    BY <1>3 DEF RouteRead
<1>5. ASSUME NEW p \in 1 .. Len(stack'), Pending(stack'[p]) PROVE p = 2
    <2>1. p = 1 \/ p = 2 \/ p > 2
        BY <1>4
    <2> QED
        BY <1>2, <1>4, <1>5, <2>1 DEF Pending, Works
<1>6. Pending(stack[2]) /\ stack[2].at # "user" /\ stack'[2].at = "route" /\ stack'[2].cb = stack[2].cb
      /\ stack'[2].reply = stack[2].reply /\ 2 \in 1 .. Len(stack)
    BY <1>1, <1>2, <1>4 DEF Pending
<1>7. Rest(ac, stack, ac', stack')
    BY <1>4, <1>5, <1>6 DEF Rest, Held, Kept
<1>8. NotesKept
    BY DEF NotesKept
<1>9. ErrOK(accErr', stack', notes')
    BY <1>1, <1>8, ErrKept DEF AnswersOK
<1> QED
    BY <1>1, <1>7, <1>8, <1>9, RestAnswers

\* NullTimed.
LEMMA NullTimedAnswers ==
    ASSUME Inv, OrderOK, AnswersOK, NullTimed
    PROVE  AnswersOK'
<1>1. AtTop("callback") /\ Top.reply = NULL /\ UNCHANGED <<cads, calls, notes>>
    BY DEF NullTimed, InCallback
<1>2. ContextsOK(ac) /\ Top.c \in Contexts
    BY <1>1, InOrder
<1>3. ac[Top.c].err \in BOOLEAN
    BY <1>2 DEF ContextsOK, IsContext
<1>4. CASE \E err \in BOOLEAN : Done(err) /\ UNCHANGED ac
    BY <1>1, <1>4, NullReply, DoneAnswers DEF Held
<1>5. CASE CanUpdate /\ UpdateRoute /\ UNCHANGED <<accErr, answers, aborted>>
    BY <1>1, <1>5, UpdateAnswers DEF CanUpdate
<1> QED
    BY <1>3, <1>4, <1>5 DEF NullTimed, UpdateFails

\* Moved.
LEMMA MovedAnswers ==
    ASSUME Inv, OrderOK, AnswersOK, Moved
    PROVE  AnswersOK'
<1>1. /\ AtTop("callback") /\ Top.reply # NULL /\ Top.reply.kind = "moved" /\ UNCHANGED <<cads, calls, notes>>
    BY DEF Moved, Redirected, InCallback
<1>2. Top.reply # Reply("reply", Id)
    BY <1>1, RedirectedReply DEF Redirections
<1>3. CASE Done(TRUE) /\ UNCHANGED ac
    BY <1>1, <1>2, <1>3, DoneAnswers DEF Held
<1>4. CASE UpdateRoute /\ UNCHANGED <<accErr, answers, aborted>>
    BY <1>1, <1>4, UpdateAnswers
<1> QED
    BY <1>3, <1>4 DEF Moved, UpdateFails

\* The command of the call at the top is sent again, or is lost since the
\* user has disconnected (Retry).
LEMMA RetryAnswers ==
    ASSUME Inv, OrderOK, AnswersOK, NEW at \in {"callback", "route"}, AtTop(at), Top.reply # NULL,
           Top.reply # Reply("reply", Id), NEW acs, ContextsOK(acs), \A i : Held(acs, i) => Held(ac, i),
           NEW c \in Contexts, NEW asking \in BOOLEAN, Retry(acs, c, asking),
           ~Accepts(acs[c], "get") => "disconnected" \in notes, UNCHANGED <<calls, notes>>
    PROVE  AnswersOK'
<1>1. /\ aborted = "no" /\ stack # <<>> /\ Pending(Top) /\ StackOK(stack, Len(cads)) /\ Len(cads) \in Nat
      /\ ShapeOK(stack) /\ Top.at = at /\ CommandsOK /\ Top.c \in Contexts
    BY InOrder
<1>2. /\ Id \in 1 .. Len(cads) /\ CallOK(Top, Id, cads, answers, calls) /\ ~Held(ac, Id)
      /\ StackOK(Below, Len(cads)) /\ WaitOK(ac, stack, cads, answers, calls) /\ ErrOK(accErr, stack, notes)
    BY TopWaits
<1>3. PICK then : ContextsOK(then) /\ SentBack(acs, then, c)
    BY <1>1, RetryContexts
<1>4. /\ Back(then, Top.c, Below)
      /\ \A i : Held(then, i) => Held(acs, i) \/ i = 0 \/ (i = Id /\ Accepts(acs[c], "get"))
      /\ cads' = cads \/ (~Accepts(acs[c], "get") /\ cads' = [cads EXCEPT ![Id] = "dropped"])
      /\ UNCHANGED <<accErr, answers, aborted>>
    BY <1>3 DEF SentBack
<1>5. Len(Below) = 1 /\ Below[1].at = "process"
    BY <1>1, Reading
<1>6. \A p \in 1 .. Len(stack') : ~Pending(stack'[p])
    <2>1. Goes(Below, stack')
        BY <1>1, <1>3, <1>4, BackMoves
    <2>2. 1 .. Len(Below) = {1}
        BY <1>5
    <2> QED
        BY <1>5, <2>1, <2>2 DEF Goes, Within, Pending
<1>7. \A i : Held(ac', i) => Held(then, i)
    <2>1. OthersSame(then, ac', Top.c) /\ Kept(then[Top.c], ac'[Top.c])
        BY <1>1, <1>2, <1>3, <1>4, Returned
    <2>2. \A d \in Contexts : ac'[d].replies = then[d].replies
        BY <1>1, <2>1 DEF OthersSame, Kept
    <2> QED
        BY <2>2 DEF Held
<1>8. cads \in Seq({"out", "freed", "dropped"})
    BY <1>1 DEF CommandsOK
<1>9. /\ DOMAIN cads' = 1 .. Len(cads) /\ Len(cads') = Len(cads)
      /\ \A i \in 1 .. Len(cads) : i # Id => cads'[i] = cads[i]
      /\ cads'[Id] = cads[Id] \/ (cads'[Id] = "dropped" /\ ~Accepts(acs[c], "get"))
    BY <1>2, <1>4, <1>8
<1>10. answers[Id] = <<>> /\ cads[Id] = "out" /\ ~Heard(calls, Id)
    BY <1>1, <1>2 DEF CallOK
<1>11. ASSUME NEW i \in 1 .. Len(cads) PROVE ToldOK(i, cads', answers, calls, notes)
    <2>1. ToldOK(i, cads, answers, calls, notes)
        BY DEF AnswersOK
    <2>2. CASE i # Id
        BY <1>9, <2>1, <2>2 DEF ToldOK
    <2>3. CASE i = Id
        BY <1>9, <1>10, <2>1, <2>3 DEF ToldOK
    <2> QED
        BY <2>2, <2>3
<1>12. ASSUME NEW i \in 1 .. Len(cads), Held(ac', i) PROVE Waiting(i, cads', answers, calls)
    <2>1. (Held(ac, i) /\ i # Id) \/ (i = Id /\ Accepts(acs[c], "get"))
        BY <1>2, <1>4, <1>7, <1>12
    <2>2. CASE Held(ac, i) /\ i # Id
        BY <1>2, <1>9, <2>2 DEF WaitOK, Waiting
    <2>3. CASE i = Id /\ Accepts(acs[c], "get")
        BY <1>9, <1>10, <2>3 DEF Waiting
    <2> QED
        BY <2>1, <2>2, <2>3
<1>13. WaitOK(ac', stack', cads', answers, calls)
    BY <1>6, <1>9, <1>12 DEF WaitOK
<1>14. ErrOK(accErr, stack', notes)
    BY <1>1, <1>2 DEF ErrOK, Top
<1>15. (\A i \in 1 .. Len(cads) : ToldOK(i, cads, answers, calls, notes))' <=>
       \A i \in 1 .. Len(cads) : ToldOK(i, cads', answers, calls, notes)
    BY <1>4, <1>9 DEF ToldOK, Heard
<1>16. WaitOK(ac, stack, cads, answers, calls)' <=> WaitOK(ac', stack', cads', answers, calls)
    BY <1>4 DEF WaitOK, CallOK, Waiting, Heard, Held, Pending
<1>17. ErrOK(accErr, stack, notes)' <=> ErrOK(accErr, stack', notes)
    BY <1>4 DEF ErrOK
<1> QED
    BY <1>11, <1>13, <1>14, <1>15, <1>16, <1>17 DEF AnswersOK

\* ... to a context without an error, which takes no commands only when the
\* user has disconnected.
LEMMA Refuses ==
    ASSUME NEW a, NEW c, NEW st, NEW nts, FlagsOK(a, c, st, nts), ~a.err, "FREEING" \notin a.flags, ~Accepts(a, "get")
    PROVE  "disconnected" \in nts
<1>1. "get" \notin Unsubscribes
    BY DEF Unsubscribes
<1>2. "DISCONNECTING" \in a.flags
    BY <1>1 DEF Accepts
<1> QED
    BY <1>2 DEF FlagsOK

\* RetryAt, after actx_get_by_node.
LEMMA RetryAtAnswers ==
    ASSUME Inv, OrderOK, AnswersOK, NEW at \in {"callback", "route"}, AtTop(at), Top.reply # NULL,
           Top.reply # Reply("reply", Id), NEW ns, Keyed(ns), NEW ds, OnContexts(ds), Before(ac, ns, ds, notes),
           NEW key, NEW node, NEW got, GotAt(node, got, ns, key),
           NEW server \in Servers, Link(got, key, server, ns, ds), NEW asking \in BOOLEAN, RetryAt(got, asking),
           UNCHANGED <<calls, notes>>
    PROVE  AnswersOK'
<1>1. /\ StackOK(stack, Len(cads)) /\ Len(cads) \in Nat /\ ContextsOK(ac) /\ Pending(Top) /\ aborted = "no"
      /\ stack # <<>> /\ ShapeOK(stack)
    BY InOrder
<1>2. /\ Len(stack) = 2 /\ stack[1].c = Top.c /\ Top = stack[2] /\ \A k : ~Ending(Below, k)
    <2>1. Len(stack) = 2 /\ stack[1].c = Top.c /\ Top = stack[2] /\ Len(Below) = 1 /\ Below[1].at = "process"
        BY <1>1, Reading
    <2>2. 1 .. Len(Below) = {1}
        BY <2>1
    <2> QED
        BY <2>1, <2>2 DEF Ending, Ends
<1>3. \A p \in 1 .. Len(stack) : stack[p].at = "process" => ac[stack[p].c].life # "unused"
    <2>1. 1 .. Len(stack) = {1, 2}
        BY <1>2
    <2>2. ac[Top.c].life # "unused"
        BY <1>1, <1>2, <2>1, Running DEF Tracked, UnusedOK
    <2> QED
        BY <1>2, <2>1, <2>2
<1>4. Apart(ac, ns, ds, notes, Below)
    BY DEF Before, Apart
<1>5. PICK acs : acs = WithContext(got)
    OBVIOUS
<1>6. net \in [Contexts -> Connections]
    BY <1>1, Running
<1>7. /\ Apart(acs, nodes', data', notes, Below)
      /\ ContextsOK(acs)
      /\ \A i : Held(acs, i) => Held(ac, i)
      /\ ~got.err => /\ got.c \in Contexts /\ ~acs[got.c].err
                     /\ \/ acs[got.c].flags = {}
                        \/ key \in DOMAIN ns /\ ns[key].acon = got.c /\ acs[got.c] = ac[got.c]
    BY <1>1, <1>3, <1>4, <1>5, <1>6, GotOrder
<1>8. got.err \in BOOLEAN
    BY <1>1, GotContext DEF GotAt
<1>9. CASE got.err
    <2>1. ac' = acs /\ Done(TRUE) /\ UNCHANGED cads
        BY <1>5, <1>9 DEF RetryAt
    <2>2. \A i : Held(ac', i) => Held(ac, i)
        BY <1>7, <2>1
    <2> QED
        BY <2>1, <2>2, DoneAnswers
<1>10. CASE ~got.err
    <2>1. Retry(acs, got.c, asking)
        BY <1>5, <1>10 DEF RetryAt
    <2>2. FlagsOK(acs[got.c], got.c, stack, notes)
        BY <1>7, <1>10 DEF Apart
    <2>3. "FREEING" \notin acs[got.c].flags
        <3> SUFFICES ASSUME acs[got.c].flags # {} PROVE "FREEING" \notin acs[got.c].flags
            OBVIOUS
        <3>1. key \in DOMAIN ns /\ ns[key].acon = got.c /\ acs[got.c] = ac[got.c]
            BY <1>7, <1>10
        <3>2. got.c # None
            <4>1. got.fresh => acs[got.c].flags = {}
                BY <1>1, <1>5, GotContext DEF GotAt
            <4> QED
                BY <1>1, <1>10, <4>1, GotContext DEF GotAt
        <3>3. LinkOK(ac[got.c], ds[got.c], key, Below)
            BY <3>1, <3>2 DEF Before, LinksOK
        <3> QED
            BY <1>2, <3>1, <3>3 DEF LinkOK
    <2>4. ~Accepts(acs[got.c], "get") => "disconnected" \in notes
        BY <1>7, <1>10, <2>2, <2>3, Refuses
    <2> QED
        BY <1>7, <1>10, <2>1, <2>4, RetryAnswers
<1> QED
    BY <1>8, <1>9, <1>10

\* Again.
LEMMA AgainAnswers ==
    ASSUME Inv, OrderOK, AnswersOK, Again
    PROVE  AnswersOK'
<1>1. /\ AtTop("callback") /\ Top.reply # NULL /\ Top.reply.kind = "again" /\ Retry(ac, Top.c, FALSE)
      /\ UNCHANGED <<calls, notes>>
    BY DEF Again, Redirected, InCallback
<1>2. Top.reply # Reply("reply", Id)
    BY <1>1, RedirectedReply DEF Redirections
<1>3. /\ Ordered(ac, stack, nodes, data, notes) /\ ShapeOK(stack) /\ StackOK(stack, Len(cads)) /\ Len(cads) \in Nat
      /\ stack # <<>> /\ Top.at = "callback" /\ Pending(Top) /\ ContextsOK(ac) /\ Top.c \in Contexts
    BY <1>1, InOrder
<1>4. Len(stack) = 2 /\ stack[1].at = "process" /\ stack[1].c = Top.c /\ Top = stack[2]
    BY <1>1, <1>3, Reading
<1>5. ~ac[Top.c].err /\ "FREEING" \notin ac[Top.c].flags
    BY <1>3, <1>4 DEF Ordered, ReaderOK
<1>6. FlagsOK(ac[Top.c], Top.c, stack, notes)
    BY <1>3 DEF Ordered
<1>7. ~Accepts(ac[Top.c], "get") => "disconnected" \in notes
    BY <1>5, <1>6, Refuses
<1> QED
    BY <1>1, <1>2, <1>3, <1>7, RetryAnswers

\* Ask.
LEMMA AskAnswers ==
    ASSUME Inv, OrderOK, AnswersOK, Ask
    PROVE  AnswersOK'
<1>1. AtTop("callback") /\ Top.reply # NULL /\ Top.reply.kind = "ask" /\ UNCHANGED <<calls, notes>>
    BY AskDoes
<1>2. PICK s, ns, key, node, got : Asks(s, ns, key, node, got)
    BY AskDoes
<1>3. /\ Ordered(ac, stack, nodes, data, notes) /\ StackOK(stack, Len(cads)) /\ Len(cads) \in Nat
      /\ aborted = "no" /\ stack # <<>> /\ Top.at = "callback" /\ Keyed(nodes) /\ OnContexts(data)
    BY <1>1, InOrder
<1>4. Before(ac, ns, data, notes)
    BY <1>2, <1>3, AskBefore
<1>5. /\ s \in Servers /\ Keyed(ns) /\ GotAt(node, got, ns, key) /\ Link(got, key, s, ns, data) /\ RetryAt(got, TRUE)
    BY <1>2 DEF Asks
<1>6. Top.reply # Reply("reply", Id)
    BY <1>1, RedirectedReply DEF Redirections
<1> QED
    BY <1>1, <1>3, <1>4, <1>5, <1>6, RetryAtAnswers

\* Install.
LEMMA InstallAnswers ==
    ASSUME Inv, OrderOK, AnswersOK, Install
    PROVE  AnswersOK'
<1>1. /\ AtTop("route") /\ Keyed(Swapped(Top.table)) /\ DOMAIN Swapped(Top.table) = Listed(Top.table)
      /\ OnContexts(DataAfter(Top.table)) /\ UNCHANGED <<calls, notes>>
    BY InstallDoes
<1>2. /\ Ordered(ac, stack, nodes, data, notes) /\ ShapeOK(stack) /\ StackOK(stack, Len(cads)) /\ Len(cads) \in Nat
      /\ aborted = "no" /\ stack # <<>> /\ Top.at = "route" /\ Keyed(nodes) /\ ContextsOK(ac) /\ Top.c \in Contexts
    BY <1>1, InOrder
<1>3. Before(ac, Swapped(Top.table), DataAfter(Top.table), notes)
    BY <1>1, <1>2, InstallBefore
<1>4. PICK ns, ds : ns = Swapped(Top.table) /\ ds = DataAfter(Top.table)
    OBVIOUS
<1>5. Before(ac, ns, ds, notes) /\ Keyed(ns) /\ OnContexts(ds)
    BY <1>1, <1>3, <1>4
<1>6. CASE Top.reply = NULL /\ Done(ac[Top.c].err) /\ ac' = ac /\ cads' = cads
    <2>1. ac[Top.c].err \in BOOLEAN
        BY <1>2 DEF ContextsOK, IsContext
    <2> QED
        BY <1>1, <1>6, <2>1, NullReply, DoneAnswers DEF Held
<1>7. CASE Top.reply # NULL /\ \E key, got : Gets(key, got)
    <2>1. PICK key, got : Gets(key, got)
        BY <1>7
    <2>2. /\ key \in Servers /\ GotAt(ns[key], got, ns, key) /\ Link(got, key, key, ns, ds) /\ RetryAt(got, FALSE)
        BY <1>4, <2>1 DEF Gets
    <2>3. Top.reply # Reply("reply", Id)
        <3>1. Len(stack) \in 1 .. Len(stack) /\ Top = stack[Len(stack)] /\ Pending(Top)
            BY <1>1, InCommand
        <3>2. Top.reply.kind # "reply"
            BY <1>2, <3>1, Running DEF Tracked, TokensOK, RepliesTrue
        <3> QED
            BY <3>2 DEF Reply
    <2> QED
        BY <1>1, <1>5, <1>7, <2>2, <2>3, RetryAtAnswers
<1> QED
    BY <1>4, <1>6, <1>7, InstallDoes

\* What a callback has been called with, with one call more.
LEMMA HeardMore ==
    ASSUME calls \in Seq(Seq(Results)), NEW i \in 1 .. Len(calls), NEW r \in Results, NEW cls,
           cls = [calls EXCEPT ![i] = Append(@, r)]
    PROVE  \A j \in 1 .. Len(calls) : Heard(cls, j) => Heard(calls, j) \/ (j = i /\ r = Reply("reply", i))
<1> SUFFICES ASSUME NEW j \in 1 .. Len(calls), Heard(cls, j), ~Heard(calls, j) PROVE j = i /\ r = Reply("reply", i)
    OBVIOUS
<1>1. calls[i] \in Seq(Results) /\ DOMAIN calls = 1 .. Len(calls)
    OBVIOUS
<1>2. j = i
    BY <1>1 DEF Heard
<1>3. PICK s \in Seq(Results) : s = calls[i]
    BY <1>1
<1>4. PICK t : t = Append(s, r)
    OBVIOUS
<1>5. cls[i] = t
    BY <1>1, <1>3, <1>4
<1>6. /\ DOMAIN t = 1 .. Len(s) + 1 /\ DOMAIN s = 1 .. Len(s) /\ Len(s) \in Nat
      /\ \A k \in 1 .. Len(s) : t[k] = s[k]
      /\ t[Len(s) + 1] = r
    BY <1>4, AppendProperties
<1>7. PICK k \in DOMAIN t : t[k] = Reply("reply", i)
    BY <1>2, <1>5 DEF Heard, Range
<1>8. \A k1 \in 1 .. Len(s) : s[k1] # Reply("reply", i)
    BY <1>2, <1>3, <1>6 DEF Heard, Range
<1>9. k = Len(s) + 1
    <2>1. \A x \in 1 .. Len(s) + 1 : x \in 1 .. Len(s) \/ x = Len(s) + 1
        BY <1>6
    <2> QED
        BY <1>6, <1>7, <1>8, <2>1, Zenon
<1> QED
    BY <1>2, <1>6, <1>7, <1>9

\* The first callback of a context is called with a reply.
LEMMA TakenAnswers ==
    ASSUME Inv, OrderOK, AnswersOK, aborted = "no", aborted' = "no", stack # <<>>, Top.at \notin {"user"},
           NEW c \in Contexts, ac[c].replies # <<>>, OthersSame(ac, ac', c), ac'[c].replies = Tail(ac[c].replies),
           NEW st, StackOK(st, Len(cads)),
           \A p \in 1 .. Len(st) : Pending(st[p]) => p \in 1 .. Len(stack) /\ st[p] = stack[p],
           NEW reply \in Results, Called(c, Head(ac[c].replies), reply, st), UNCHANGED client
    PROVE  AnswersOK'
<1> DEFINE n == Len(cads)
<1>1. /\ StackOK(stack, n) /\ n \in Nat /\ ContextsOK(ac) /\ IdsOK(ac, n) /\ OwnsOK(ac, stack)
      /\ calls \in Seq(Seq(Results)) /\ Len(calls) = n
    BY Running DEF TypeOK, Tracked, TokensOK
<1>2. PICK cb : cb = Head(ac[c].replies)
    OBVIOUS
<1>3. /\ ac[c].replies \in Seq(Callbacks) /\ Len(ac[c].replies) \in Nat \ {0} /\ cb = ac[c].replies[1]
      /\ cb \in Callbacks
      /\ Len(ac'[c].replies) = Len(ac[c].replies) - 1
      /\ \A k \in 1 .. Len(ac[c].replies) - 1 : ac'[c].replies[k] = ac[c].replies[k + 1]
    BY <1>1, <1>2, FirstCallback
<1>4. \A d \in Contexts : d # c => ac'[d].replies = ac[d].replies
    BY DEF OthersSame
<1>5. cb.id # 0 => ~Held(ac', cb.id) /\ ~InCall(stack, cb.id)
    BY <1>1, <1>2, <1>3, <1>4, OwnsTaken
<1>6. \A i : Held(ac', i) => Held(ac, i)
    <2> SUFFICES ASSUME NEW i, NEW d \in Contexts, NEW k \in 1 .. Len(ac'[d].replies), ac'[d].replies[k].id = i
                 PROVE  Held(ac, i)
        BY DEF Held
    <2>1. CASE d # c
        BY <1>4, <2>1 DEF Held
    <2>2. CASE d = c
        <3>1. k \in 1 .. Len(ac[c].replies) - 1 /\ k + 1 \in 1 .. Len(ac[c].replies)
            <4>1. \A l \in Nat \ {0} : \A x \in 1 .. l - 1 : x + 1 \in 1 .. l
                OBVIOUS
            <4>2. k \in 1 .. Len(ac[c].replies) - 1
                BY <1>3, <2>2, Zenon
            <4> QED
                BY <1>3, <4>1, <4>2
        <3>2. ac[c].replies[k + 1].id = i
            BY <1>3, <2>2, <3>1
        <3> QED
            BY <3>1, <3>2 DEF Held
    <2> QED
        BY <2>1, <2>2
<1>7. UNCHANGED <<cads, answers, accErr, notes>> /\ NotesKept
    BY DEF client, NotesKept
<1>8. WaitOK(ac, stack, cads, answers, calls)
    BY DEF AnswersOK
<1>9. ErrOK(accErr', stack', notes')
    BY <1>7, ErrKept DEF AnswersOK
<1>10. Called(c, cb, reply, st)
    BY <1>2
<1>11. CASE ~cb.fn
    <2>1. stack' = st /\ calls' = calls
        BY <1>10, <1>11 DEF Called
    <2>2. Rest(ac, stack, ac', stack')
        BY <1>6, <2>1 DEF Rest
    <2> QED
        BY <1>7, <1>9, <2>1, <2>2, RestAnswers
<1>12. CASE cb.fn
    <2> DEFINE f == CallbackFrame(c, cb, reply)
               i == cb.id
    <2>1. stack' = Append(st, f) /\ f \in Frames /\ i \in 1 .. n /\ calls' = [calls EXCEPT ![i] = Append(@, reply)]
        BY <1>10, <1>12 DEF Called
    <2>2. f.at = "callback" /\ f.cb = cb /\ f.reply = reply
        BY DEF CallbackFrame
    <2> HIDE DEF f
    <2>3. Pushed(st, f, stack')
        BY <1>1, <2>1, PushedOn
    <2>4. i # 0 /\ ~Held(ac', i) /\ ~InCall(stack, i)
        BY <1>5, <2>1
    <2>5. Held(ac, i)
        <3>1. 1 \in 1 .. Len(ac[c].replies)
            BY <1>3
        <3> QED
            BY <1>3, <3>1 DEF Held
    <2>6. Waiting(i, cads, answers, calls)
        BY <1>8, <2>1, <2>5 DEF WaitOK
    <2>7. \A j \in 1 .. n : Heard(calls', j) => Heard(calls, j) \/ (j = i /\ reply = Reply("reply", i))
        <3>1. i \in 1 .. Len(calls) /\ calls \in Seq(Seq(Results)) /\ 1 .. n = 1 .. Len(calls)
            BY <1>1, <2>1
        <3>2. calls' = [calls EXCEPT ![i] = Append(@, reply)]
            BY <2>1
        <3> HIDE DEF i, n
        <3> QED
            BY <3>1, <3>2, HeardMore
    <2> HIDE DEF i, n
    <2>8. ASSUME NEW j \in 1 .. n PROVE ToldOK(j, cads, answers, calls', notes)
        <3>1. ToldOK(j, cads, answers, calls, notes)
            BY DEF AnswersOK, n
        <3>2. j = i => answers[j] # <<NULL>>
            BY <2>6 DEF Waiting
        <3> QED
            BY <2>7, <3>1, <3>2 DEF ToldOK
    <2>9. ASSUME NEW j \in 1 .. n, Held(ac', j) PROVE Waiting(j, cads, answers, calls')
        <3>1. j # i /\ Held(ac, j)
            BY <1>6, <2>4, <2>9
        <3> QED
            BY <1>8, <2>7, <3>1 DEF WaitOK, Waiting, n
    <2>10. ASSUME NEW p \in 1 .. Len(stack'), Pending(stack'[p])
           PROVE  CallOK(stack'[p], stack'[p].cb.id, cads, answers, calls')
        <3>1. Len(st) \in Nat /\ Len(stack') = Len(st) + 1 /\ stack'[Len(st) + 1] = f
              /\ \A q \in 1 .. Len(st) : stack'[q] = st[q]
            BY <2>3 DEF Pushed
        <3>2. p \in 1 .. Len(st) \/ p = Len(st) + 1
            BY <3>1
        <3>3. CASE p = Len(st) + 1
            <4>1. stack'[p].cb.id = i /\ stack'[p].at = "callback" /\ stack'[p].reply = reply
                BY <2>2, <3>1, <3>3 DEF i
            <4>2. reply = Reply("reply", i) \/ ~Heard(calls', i)
                BY <2>1, <2>6, <2>7 DEF Waiting, i, n
            <4> QED
                BY <2>6, <4>1, <4>2 DEF Waiting, CallOK
        <3>4. CASE p \in 1 .. Len(st)
            <4>1. p \in 1 .. Len(stack) /\ stack'[p] = stack[p] /\ Pending(stack[p])
                BY <2>10, <3>1, <3>4
            <4>2. stack'[p].cb.id # i /\ stack'[p].cb.id \in 1 .. n
                BY <1>1, <2>4, <4>1 DEF InCall, StackOK, n
            <4>3. CallOK(stack'[p], stack'[p].cb.id, cads, answers, calls)
                BY <1>8, <4>1 DEF WaitOK
            <4> QED
                BY <2>7, <4>2, <4>3 DEF CallOK
        <3> QED
            BY <3>2, <3>3, <3>4
    <2>11. WaitOK(ac', stack', cads, answers, calls')
        BY <2>9, <2>10 DEF WaitOK, n
    <2>12. (\A j \in 1 .. Len(cads) : ToldOK(j, cads, answers, calls, notes))' <=>
           \A j \in 1 .. Len(cads) : ToldOK(j, cads, answers, calls', notes)
        BY <1>7 DEF ToldOK, Heard
    <2>13. WaitOK(ac, stack, cads, answers, calls)' <=> WaitOK(ac', stack', cads, answers, calls')
        BY <1>7 DEF WaitOK, CallOK, Waiting, Heard, Held, Pending
    <2>14. ErrOK(accErr, stack, notes)' <=> ErrOK(accErr', stack', notes')
        BY DEF ErrOK
    <2> QED
        BY <1>9, <2>8, <2>11, <2>12, <2>13, <2>14 DEF AnswersOK, n
<1>13. cb.fn \in BOOLEAN
    BY <1>3, CallbackForms
<1> QED
    BY <1>11, <1>12, <1>13

\* FreeCallback.
LEMMA FreeCallbackAnswers ==
    ASSUME Inv, OrderOK, AnswersOK, FreeCallback, UNCHANGED <<servers, route, client, executed>>
    PROVE  AnswersOK'
<1>1. LET c == Top.c
      IN  /\ aborted = "no" /\ stack # <<>> /\ Top.at = "free" /\ c \in Contexts /\ ac[c].replies # <<>>
          /\ OthersSame(ac, ac', c) /\ ac'[c].replies = Tail(ac[c].replies)
          /\ Called(c, Head(ac[c].replies), NULL, stack)
          /\ UNCHANGED aborted
    BY FreeCallbackDoes DEF Inv
<1>2. StackOK(stack, Len(cads))
    BY <1>1, Running
<1>3. NULL \in Results
    BY DEF Results
<1> QED
    BY <1>1, <1>2, <1>3, TakenAnswers

\* ProcessReply.
LEMMA ProcessReplyAnswers ==
    ASSUME Inv, OrderOK, AnswersOK, ProcessReply, UNCHANGED <<servers, route, client, executed>>
    PROVE  AnswersOK'
<1> DEFINE c == Top.c
           cb == Head(ac[c].replies)
           r == Head(ac[c].ibuf)
           st == <<ProcessFrame(c, cb)>>
<1>1. /\ aborted = "no" /\ stack # <<>> /\ Top.at = "process" /\ c \in Contexts /\ ac[c].ibuf # <<>>
      /\ \/ /\ ac[c].replies # <<>>
            /\ OthersSame(ac, ac', c)
            /\ ac'[c].replies = Tail(ac[c].replies)
            /\ Called(c, cb, r, st)
            /\ UNCHANGED aborted
         \/ aborted' = "unexpected" /\ UNCHANGED calls
    BY ProcessReplyDoes DEF Inv
<1>2. CASE aborted' = "unexpected" /\ UNCHANGED calls
    BY <1>1, <1>2, ClientSame, QuietAnswers
<1>3. CASE /\ ac[c].replies # <<>>
           /\ OthersSame(ac, ac', c)
           /\ ac'[c].replies = Tail(ac[c].replies)
           /\ Called(c, cb, r, st)
           /\ UNCHANGED aborted
    <2>1. ContextsOK(ac) /\ IdsOK(ac, Len(cads)) /\ Len(cads) \in Nat
        BY <1>1, Running DEF TypeOK
    <2>2. r \in Results
        BY <1>1, <2>1, FirstReply DEF Results
    <2>3. cb \in Callbacks
        BY <1>1, <1>3, <2>1, FirstCallback
    <2>4. StackOK(st, Len(cads)) /\ \A p \in 1 .. Len(st) : ~Pending(st[p])
        BY <1>1, <2>1, <2>3, ProcessFrames
    <2> HIDE DEF st
    <2> QED
        BY <1>1, <1>3, <2>2, <2>4, TakenAnswers
<1> QED
    BY <1>1, <1>2, <1>3

\* The event loop, or redisProcessCallbacks at its end, frees a context.
LEMMA FreedNoCalls ==
    ASSUME NEW n \in Nat, NEW c, FreeCalled(<<>>, c)
    PROVE  \A p \in 1 .. Len(stack') : ~Pending(stack'[p])
<1>1. Frees(<<>>) = {} /\ 1 .. Len(<<>>) = {}
    BY EmptyStack
<1>2. Within(stack', <<>>)
    BY <1>1, FreeFromLoop DEF Goes
<1> QED
    BY <1>1, <1>2 DEF Within

\* A stack without calls.
LEMMA EmptyNoCalls ==
    ASSUME stack' = <<>>
    PROVE  \A p \in 1 .. Len(stack') : ~Pending(stack'[p])
    OBVIOUS

\* ProcessNone.
LEMMA ProcessNoneAnswers ==
    ASSUME Inv, OrderOK, AnswersOK, ProcessNone, UNCHANGED <<servers, route, client, executed>>
    PROVE  AnswersOK'
<1> DEFINE c == Top.c
<1>1. /\ aborted = "no" /\ stack # <<>> /\ Top.at = "process" /\ c \in Contexts
      /\ OthersSame(ac, ac', c) /\ Kept(ac[c], ac'[c]) /\ UNCHANGED calls
      /\ stack' = <<>> \/ FreeCalled(<<>>, c)
    BY ProcessNoneDoes DEF Inv
<1>2. \A d \in Contexts : ac'[d].replies = ac[d].replies
    BY <1>1 DEF OthersSame, Kept
<1>3. Len(cads) \in Nat
    BY <1>1, Running
<1>4. \A p \in 1 .. Len(stack') : ~Pending(stack'[p])
    BY <1>1, <1>3, FreedNoCalls, EmptyNoCalls
<1> QED
    BY <1>1, <1>2, <1>4, ClientSame, QuietAnswers

\* The events of a context.
LEMMA EventAnswers ==
    ASSUME Inv, OrderOK, AnswersOK, NEW c \in Contexts,
           Write(c) \/ (Event(c) /\ UNCHANGED <<servers, route, client, executed>>)
    PROVE  AnswersOK'
<1>1. TypeOK
    BY DEF Inv
<1>2. CASE Write(c)
    <2>1. /\ aborted = "no" /\ stack = <<>> /\ OthersSame(ac, ac', c) /\ ac'[c].replies = ac[c].replies
          /\ UNCHANGED <<calls, client>>
          /\ (\E ans : Written(c, ans)) \/ WriteFailed(c)
        BY <1>1, <1>2, WriteDoes
    <2>2. stack' = <<>> \/ FreeCalled(<<>>, c)
        BY <2>1 DEF Written, WriteFailed
    <2>3. \A d \in Contexts : ac'[d].replies = ac[d].replies
        BY <2>1 DEF OthersSame
    <2>4. Len(cads) \in Nat
        BY <2>1, Running
    <2>5. \A p \in 1 .. Len(stack') : ~Pending(stack'[p])
        BY <2>2, <2>4, FreedNoCalls, EmptyNoCalls
    <2> QED
        BY <2>1, <2>3, <2>5, ClientSame, QuietAnswers
<1>3. CASE (ConnectFails(c) \/ ReadFails(c)) /\ UNCHANGED client
    <2>1. /\ aborted = "no" /\ stack = <<>> /\ OthersSame(ac, ac', c) /\ ac'[c].replies = ac[c].replies
          /\ UNCHANGED calls /\ FreeCalled(<<>>, c)
        BY <1>1, <1>3, FailsDo
    <2>2. \A d \in Contexts : ac'[d].replies = ac[d].replies
        BY <2>1 DEF OthersSame
    <2>3. Len(cads) \in Nat
        BY <2>1, Running
    <2>4. \A p \in 1 .. Len(stack') : ~Pending(stack'[p])
        BY <2>1, <2>3, FreedNoCalls
    <2> QED
        BY <1>3, <2>1, <2>2, <2>4, ClientSame, QuietAnswers
<1>4. CASE redisAsyncHandleRead(c) /\ UNCHANGED client
    <2>1. /\ aborted = "no" /\ stack = <<>> /\ OthersSame(ac, ac', c) /\ ac'[c].replies = ac[c].replies
          /\ UNCHANGED calls /\ stack' = <<ProcessFrame(c, NullCb)>>
        BY <1>1, <1>4, ReadDoes
    <2>2. \A d \in Contexts : ac'[d].replies = ac[d].replies
        BY <2>1 DEF OthersSame
    <2>3. Len(cads) \in Nat
        BY <2>1, Running
    <2>4. \A p \in 1 .. Len(stack') : ~Pending(stack'[p])
        BY <2>1, <2>3, ProcessFrames, NoCallback
    <2> QED
        BY <1>4, <2>1, <2>2, <2>4, ClientSame, QuietAnswers
<1>5. CASE Break(c) /\ UNCHANGED client
    <2>1. aborted = "no" /\ stack = <<>> /\ UNCHANGED <<ac, stack, calls>>
        BY <1>5 DEF Break, Serving, EventLoop
    <2>2. \A p \in 1 .. Len(stack') : ~Pending(stack'[p])
        BY <2>1, EmptyNoCalls
    <2> QED
        BY <1>5, <2>1, <2>2, ClientSame, QuietAnswers
<1> QED
    BY <1>2, <1>3, <1>4, <1>5 DEF Event

\* redisClusterAsyncFree.
LEMMA AllFreedAnswers ==
    ASSUME Inv, OrderOK, AnswersOK, redisClusterAsyncFree
    PROVE  AnswersOK'
<1> DEFINE cs == ContextsOf(DOMAIN nodes)
           f == [at |-> "release", c |-> None]
           mid == <<f>>
           fs == FreeFrames(SetToSeq(cs), ac')
           n == Len(cads)
<1>1. /\ aborted = "no" /\ stack = <<>>
      /\ ac' = WithFlag(cs, "FREEING")
      /\ stack' = mid \o fs
      /\ UNCHANGED <<cads, answers, calls, accErr>> /\ notes' = notes \cup {"ended"}
    BY DEF redisClusterAsyncFree, EventLoop
<1>2. ContextsOK(ac) /\ Keyed(nodes) /\ n \in Nat
    BY <1>1, Running DEF RouteOK
<1>3. cs \in SUBSET Contexts
    BY <1>2 DEF ContextsOf, Keyed, Pairs
<1> HIDE DEF cs
<1>4. ContextsOK(ac') /\ \A c \in Contexts : Kept(ac[c], ac'[c])
    <2>1. PICK acs : acs = WithFlag(cs, "FREEING")
        OBVIOUS
    <2>2. ContextsOK(acs) /\ \A c \in Contexts : Kept(ac[c], acs[c])
        BY <1>2, <2>1, FlagGiven
    <2> QED
        BY <1>1, <2>1, <2>2
<1>5. fs \in Seq(Frames) /\ \A i \in 1 .. Len(fs) : fs[i].at = "free"
    <2>1. PICK acs : acs = ac'
        OBVIOUS
    <2>2. ContextsOK(acs)
        BY <1>4, <2>1
    <2> QED
        BY <1>3, <2>1, <2>2, FreedInOrder
<1>6. f \in Frames /\ f.at = "release"
    BY DEF Frames
<1>7. StackOK(mid, n) /\ \A p \in 1 .. Len(mid) : ~Pending(mid[p])
    <2>1. mid \in Seq(Frames) /\ Len(mid) = 1 /\ mid[1] = f
        BY <1>6
    <2>2. \A p \in 1 .. Len(mid) : mid[p] = f
        BY <2>1
    <2> QED
        BY <1>6, <2>1, <2>2 DEF StackOK, Pending
<1> HIDE DEF fs, mid, n
<1>8. Within(stack', mid)
    BY <1>1, <1>2, <1>5, <1>7, JoinMoves DEF Goes
<1>9. \A p \in 1 .. Len(stack') : ~Pending(stack'[p])
    BY <1>7, <1>8 DEF Within
<1>10. NotesKept
    BY <1>1 DEF NotesKept
<1> QED
    BY <1>1, <1>4, <1>9, <1>10, QuietAnswers DEF Kept

\* A call that is not about a command returns: Unlink and Released.
LEMMA PoppedAnswers ==
    ASSUME Inv, OrderOK, AnswersOK, Unlink \/ Released
    PROVE  AnswersOK'
<1>1. /\ aborted = "no" /\ stack # <<>> /\ Top.at \in {"free", "release"} /\ stack' = Below
      /\ UNCHANGED <<cads, answers, calls, accErr, aborted>> /\ notes \subseteq notes'
      /\ ac' = ac \/ ac' = [ac EXCEPT ![Top.c] = Ended]
    BY DEF Unlink, FreeEnd, Released, AtTop, client, Ended
<1>2. StackOK(stack, Len(cads)) /\ Len(cads) \in Nat /\ ContextsOK(ac)
    BY <1>1, Running
<1>3. Popped(stack, Below)
    BY <1>1, <1>2, TopPopped
<1>4. \A i : Held(ac', i) => Held(ac, i)
    <2>1. Ended.replies = <<>> /\ 1 .. Len(<<>>) = {}
        BY FreedContext DEF Ended
    <2>2. \A c \in Contexts : ac'[c] = ac[c] \/ ac'[c] = Ended
        BY <1>1, <1>2 DEF ContextsOK
    <2> QED
        BY <2>1, <2>2 DEF Held
<1>5. \A p \in 1 .. Len(stack') : p \in 1 .. Len(stack) /\ stack'[p] = stack[p]
    <2>1. \A l \in Nat \ {0} : \A p \in 1 .. l - 1 : p \in 1 .. l
        OBVIOUS
    <2> QED
        BY <1>1, <1>3, <2>1 DEF Popped
<1>6. Rest(ac, stack, ac', stack')
    BY <1>4, <1>5 DEF Rest
<1>7. NotesKept
    BY <1>1 DEF NotesKept
<1>8. ErrOK(accErr', stack', notes')
    BY <1>1, <1>7, ErrKept DEF AnswersOK
<1> QED
    BY <1>1, <1>6, <1>7, <1>8, RestAnswers

\* UserReturns.
LEMMA UserReturnsAnswers ==
    ASSUME Inv, OrderOK, AnswersOK, UserReturns
    PROVE  AnswersOK'
<1>1. AtTop("user") /\ Back(ac, Top.c, Below) /\ accErr' = FALSE /\ cads' = [cads EXCEPT ![Id] = "freed"]
      /\ UNCHANGED <<calls, answers, notes, aborted>>
    BY DEF UserReturns, AtTop
<1>2. /\ Ordered(ac, stack, nodes, data, notes) /\ ShapeOK(stack) /\ StackOK(stack, Len(cads)) /\ Len(cads) \in Nat
      /\ stack # <<>> /\ Top.at = "user" /\ Pending(Top) /\ ContextsOK(ac) /\ Keyed(nodes) /\ CommandsOK
      /\ Top.c \in Contexts
    BY <1>1, InOrder
<1>3. Before(ac, nodes, data, notes)
    BY <1>2, OrderBefore
<1>4. \A p \in 1 .. Len(stack') : Pending(stack'[p]) => p \in 1 .. Len(Below) /\ stack'[p] = Below[p]
    BY <1>1, <1>2, <1>3, BackOrder
<1>5. /\ Id \in 1 .. Len(cads) /\ CallOK(Top, Id, cads, answers, calls)
      /\ ~Held(ac, Id) /\ StackOK(Below, Len(cads)) /\ WaitOK(ac, stack, cads, answers, calls)
      /\ \A p \in 1 .. Len(Below) :
            Pending(Below[p]) => /\ Below[p].cb.id # Id /\ Below[p].cb.id \in 1 .. Len(cads)
                                 /\ CallOK(Below[p], Below[p].cb.id, cads, answers, calls)
    BY <1>1, TopWaits
<1>6. \A i : Held(ac', i) => Held(ac, i)
    <2>1. OthersSame(ac, ac', Top.c) /\ Kept(ac[Top.c], ac'[Top.c])
        BY <1>1, <1>2, <1>5, Returned
    <2>2. \A d \in Contexts : ac'[d].replies = ac[d].replies
        BY <1>2, <2>1 DEF OthersSame, Kept
    <2> QED
        BY <2>2 DEF Held
<1>7. cads \in Seq({"out", "freed", "dropped"})
    BY <1>2 DEF CommandsOK
<1>8. /\ Len(cads') = Len(cads)
      /\ \A i \in 1 .. Len(cads) : i # Id => cads'[i] = cads[i]
      /\ cads'[Id] = "freed"
    BY <1>1, <1>5, <1>7
<1>9. answers[Id] # <<>>
    BY <1>2, <1>5 DEF CallOK
<1>10. ASSUME NEW i \in 1 .. Len(cads) PROVE ToldOK(i, cads', answers, calls, notes)
    <2>1. ToldOK(i, cads, answers, calls, notes)
        BY DEF AnswersOK
    <2>2. CASE i # Id
        BY <1>8, <2>1, <2>2 DEF ToldOK
    <2>3. CASE i = Id
        BY <1>8, <1>9, <2>1, <2>3 DEF ToldOK
    <2> QED
        BY <2>2, <2>3
<1>11. ASSUME NEW i \in 1 .. Len(cads), Held(ac', i) PROVE Waiting(i, cads', answers, calls)
    <2>1. Held(ac, i) /\ i # Id
        BY <1>5, <1>6, <1>11
    <2> QED
        BY <1>5, <1>8, <2>1 DEF WaitOK, Waiting
<1>12. ASSUME NEW p \in 1 .. Len(stack'), Pending(stack'[p])
       PROVE  CallOK(stack'[p], stack'[p].cb.id, cads', answers, calls)
    <2>1. /\ stack'[p].cb.id # Id /\ stack'[p].cb.id \in 1 .. Len(cads)
          /\ CallOK(stack'[p], stack'[p].cb.id, cads, answers, calls)
        BY <1>4, <1>5, <1>12
    <2> QED
        BY <1>8, <2>1 DEF CallOK
<1>13. WaitOK(ac', stack', cads', answers, calls)
    BY <1>8, <1>11, <1>12 DEF WaitOK
<1>14. (\A i \in 1 .. Len(cads) : ToldOK(i, cads, answers, calls, notes))' <=>
       \A i \in 1 .. Len(cads) : ToldOK(i, cads', answers, calls, notes)
    BY <1>1, <1>8 DEF ToldOK, Heard
<1>15. WaitOK(ac, stack, cads, answers, calls)' <=> WaitOK(ac', stack', cads', answers, calls)
    BY <1>1 DEF WaitOK, CallOK, Waiting, Heard, Held, Pending
<1>16. ErrOK(accErr, stack, notes)'
    BY <1>1 DEF ErrOK
<1> QED
    BY <1>10, <1>13, <1>14, <1>15, <1>16 DEF AnswersOK

\* What is known of a new command.
LEMMA OneMoreKept ==
    ASSUME CommandsOK, calls' = Append(calls, <<>>), cads' = Append(cads, "out"), answers' = Append(answers, <<>>)
    PROVE  /\ Len(cads) \in Nat /\ Len(cads') = Len(cads) + 1
           /\ \A i \in 1 .. Len(cads) : cads'[i] = cads[i] /\ answers'[i] = answers[i] /\ calls'[i] = calls[i]
           /\ cads'[Len(cads) + 1] = "out" /\ answers'[Len(cads) + 1] = <<>> /\ calls'[Len(cads) + 1] = <<>>
<1>1. <<>> \in Seq(Results) /\ Len(cads) \in Nat
    BY DEF CommandsOK
<1>2. calls \in Seq(Seq(Results)) /\ Len(calls) = Len(cads) /\ answers \in Seq(Seq(Results)) /\ Len(answers) = Len(cads)
      /\ cads \in Seq({"out", "freed", "dropped"})
    BY DEF CommandsOK
<1>3. calls'[Len(cads) + 1] = <<>> /\ \A i \in 1 .. Len(cads) : calls'[i] = calls[i]
    BY <1>1, <1>2, AppendProperties
<1>4. answers'[Len(cads) + 1] = <<>> /\ \A i \in 1 .. Len(cads) : answers'[i] = answers[i]
    BY <1>1, <1>2, AppendProperties
<1>5. Len(cads') = Len(cads) + 1 /\ cads'[Len(cads) + 1] = "out" /\ \A i \in 1 .. Len(cads) : cads'[i] = cads[i]
    BY <1>2, AppendProperties
<1> QED
    BY <1>1, <1>3, <1>4, <1>5

\* A command is sent for the user.
LEMMA IssuedAnswers ==
    ASSUME Inv, AnswersOK, NEW slot \in Slots, NEW acs, NEW c,
           aborted = "no", UNCHANGED <<stack, aborted>>, notes \subseteq notes', accErr' => "refused" \in notes',
           ContextsOK(acs), \A i : Held(acs, i) => Held(ac, i), Issued(acs, c, slot)
    PROVE  AnswersOK'
<1> DEFINE n == Len(cads)
           m == n + 1
<1>1. CommandsOK /\ StackOK(stack, n) /\ WaitOK(ac, stack, cads, answers, calls)
    BY Running DEF AnswersOK
<1>2. c \in Contexts /\ SentAs(acs, ac', c, Get(m, slot), Callback(m))
      /\ calls' = Append(calls, <<>>) /\ cads' = Append(cads, "out") /\ answers' = Append(answers, <<>>)
    BY DEF Issued
<1>3. /\ n \in Nat /\ Len(cads') = m
      /\ \A i \in 1 .. n : cads'[i] = cads[i] /\ answers'[i] = answers[i] /\ calls'[i] = calls[i]
      /\ cads'[m] = "out" /\ answers'[m] = <<>> /\ calls'[m] = <<>>
    BY <1>1, <1>2, OneMoreKept
<1>4. m \in Nat \ {0} /\ \A i \in 1 .. m : i = m \/ i \in 1 .. n
    BY <1>3
<1> HIDE DEF n, m
<1>5. Get(m, slot) \in Commands /\ Callback(m) \in Callbacks /\ Callback(m).id = m
    BY <1>4, CommandCallback DEF Get, Commands
<1>6. \A i : Held(ac', i) => Held(ac, i) \/ i = m
    <2>1. PICK cmd \in Commands, cb \in Callbacks : cmd = Get(m, slot) /\ cb = Callback(m) /\ cb.id = m
        BY <1>5
    <2>2. PICK then : then = ac'
        OBVIOUS
    <2>3. \A i : Held(then, i) => Held(acs, i) \/ i = cb.id
        BY <1>2, <2>1, <2>2, SentHeld
    <2> QED
        BY <2>1, <2>2, <2>3
<1>7. Reply("reply", m) \notin Range(<<>>)
    BY DEF Range
<1>8. ASSUME NEW i \in 1 .. m PROVE ToldOK(i, cads', answers', calls', notes')
    <2>1. CASE i = m
        BY <1>3, <2>1 DEF ToldOK
    <2>2. CASE i \in 1 .. n
        <3>1. ToldOK(i, cads, answers, calls, notes)
            BY <2>2 DEF AnswersOK, n
        <3> QED
            BY <1>3, <2>2, <3>1 DEF ToldOK, Heard
    <2> QED
        BY <1>4, <2>1, <2>2
<1>9. ASSUME NEW i \in 1 .. m, Held(ac', i) PROVE Waiting(i, cads', answers', calls')
    <2>1. CASE i = m
        BY <1>3, <1>7, <2>1 DEF Waiting, Heard
    <2>2. CASE i # m
        <3>1. i \in 1 .. n /\ Held(ac, i)
            BY <1>4, <1>6, <1>9, <2>2
        <3>2. Waiting(i, cads, answers, calls)
            BY <1>1, <3>1 DEF WaitOK, n
        <3> QED
            BY <1>3, <3>1, <3>2 DEF Waiting, Heard
    <2> QED
        BY <2>1, <2>2
<1>10. ASSUME NEW p \in 1 .. Len(stack), Pending(stack[p])
       PROVE  CallOK(stack[p], stack[p].cb.id, cads', answers', calls')
    <2>1. stack[p].cb.id \in 1 .. n /\ CallOK(stack[p], stack[p].cb.id, cads, answers, calls)
        BY <1>1, <1>10 DEF StackOK, WaitOK
    <2> QED
        BY <1>3, <2>1 DEF CallOK, Heard
<1>11. WaitOK(ac', stack, cads', answers', calls')
    BY <1>3, <1>9, <1>10 DEF WaitOK
<1>12. (\A i \in 1 .. Len(cads) : ToldOK(i, cads, answers, calls, notes))' <=>
       \A i \in 1 .. m : ToldOK(i, cads', answers', calls', notes')
    BY <1>3 DEF ToldOK, Heard
<1>13. WaitOK(ac, stack, cads, answers, calls)' <=> WaitOK(ac', stack, cads', answers', calls')
    BY DEF WaitOK, CallOK, Waiting, Heard, Held, Pending
<1>14. ErrOK(accErr, stack, notes)'
    BY DEF ErrOK
<1> QED
    BY <1>8, <1>11, <1>12, <1>13, <1>14 DEF AnswersOK

\* redisClusterAsyncFormattedCommand.
LEMMA AsyncCommandAnswers ==
    ASSUME Inv, OrderOK, AnswersOK, NEW slot \in Slots, AsyncCommand(slot)
    PROVE  AnswersOK'
<1>1. /\ aborted = "no" /\ UNCHANGED <<stack, aborted>> /\ notes \subseteq notes' /\ (accErr' => "refused" \in notes')
      /\ \E acs : /\ ContextsOK(acs) /\ \A i : Held(acs, i) => Held(ac, i)
                  /\ \/ ac' = acs /\ UNCHANGED <<calls, cads, answers>>
                     \/ \E c : Issued(acs, c, slot)
    BY CommandDoes
<1>2. PICK acs : /\ ContextsOK(acs) /\ \A i : Held(acs, i) => Held(ac, i)
                 /\ \/ ac' = acs /\ UNCHANGED <<calls, cads, answers>>
                    \/ \E c : Issued(acs, c, slot)
    BY <1>1
<1>3. CASE ac' = acs /\ UNCHANGED <<calls, cads, answers>>
    <2>1. \A i : Held(ac', i) => Held(ac, i)
        BY <1>2, <1>3
    <2>2. Rest(ac, stack, ac', stack')
        BY <1>1, <2>1 DEF Rest
    <2>3. NotesKept /\ ErrOK(accErr', stack', notes')
        BY <1>1 DEF NotesKept, ErrOK
    <2> QED
        BY <1>1, <1>3, <2>2, <2>3, RestAnswers
<1>4. CASE \E c : Issued(acs, c, slot)
    <2>1. PICK c : Issued(acs, c, slot)
        BY <1>4
    <2> QED
        BY <1>1, <1>2, <2>1, IssuedAnswers
<1> QED
    BY <1>2, <1>3, <1>4

\* redisClusterAsyncDisconnect.
LEMMA DisconnectAnswers ==
    ASSUME Inv, OrderOK, AnswersOK, redisClusterAsyncDisconnect
    PROVE  AnswersOK'
<1> DEFINE keys == {k \in DOMAIN nodes : nodes[k].acon # None /\ ~ac[nodes[k].acon].err}
           ended == {nodes[k].acon : k \in keys}
           now == {c \in ended : "IN_CALLBACK" \notin ac[c].flags /\ ac[c].replies = <<>>}
           flagged(c) == Reflag(ac[c], ac[c].flags \cup {"DISCONNECTING"})
<1>1. /\ aborted = "no"
      /\ ac' = [c \in Contexts |-> IF c \in now THEN Ended ELSE IF c \in ended THEN flagged(c) ELSE ac[c]]
      /\ notes' = notes \cup {"disconnected"}
      /\ UNCHANGED <<stack, cads, answers, calls, accErr>>
    BY DEF redisClusterAsyncDisconnect, UserMayAct, Ended, Reflag
<1>2. ContextsOK(ac)
    BY <1>1, Running
<1>3. \A c \in Contexts : flagged(c).replies = ac[c].replies
    <2> SUFFICES ASSUME NEW c \in Contexts PROVE flagged(c).replies = ac[c].replies
        OBVIOUS
    <2>1. IsContext(ac[c])
        BY <1>2 DEF ContextsOK
    <2>2. ac[c].flags \cup {"DISCONNECTING"} \in SUBSET Flags
        BY <2>1 DEF IsContext, Flags
    <2> QED
        BY <2>1, <2>2, ReflagTyped DEF Kept
<1> HIDE DEF flagged, now, ended, keys
<1>4. Ended.replies = <<>> /\ 1 .. Len(<<>>) = {}
    BY FreedContext DEF Ended
<1>5. \A c \in Contexts : ac'[c].replies = <<>> \/ ac'[c].replies = ac[c].replies
    BY <1>1, <1>3, <1>4
<1>6. \A i : Held(ac', i) => Held(ac, i)
    BY <1>4, <1>5 DEF Held
<1>7. Rest(ac, stack, ac', stack')
    BY <1>1, <1>6 DEF Rest
<1>8. NotesKept
    BY <1>1 DEF NotesKept
<1>9. ErrOK(accErr', stack', notes')
    BY <1>1 DEF AnswersOK, ErrOK
<1> QED
    BY <1>1, <1>7, <1>8, <1>9, RestAnswers

\* The program has been stopped.
LEMMA AbortedAnswers ==
    ASSUME AnswersOK, CallbackLost \/ UnlinkLost \/ CommandInUpdate
    PROVE  AnswersOK'
<1>1. aborted' # "no" /\ UNCHANGED <<cads, answers, calls>> /\ NotesKept
    BY DEF CallbackLost, UnlinkLost, CommandInUpdate, Abort, client, NotesKept
<1> QED
    BY <1>1, RestAnswers

\* Contexts and calls are as they were.
LEMMA AsideAnswers ==
    ASSUME AnswersOK, UNCHANGED <<ac, stack, aborted, cads, answers, calls>>, NotesKept,
           accErr' = accErr \/ "refused" \in notes'
    PROVE  AnswersOK'
<1>1. Rest(ac, stack, ac', stack')
    BY DEF Rest
<1>2. aborted = "no" => ErrOK(accErr', stack', notes')
    BY DEF AnswersOK, ErrOK, NotesKept
<1> QED
    BY <1>1, <1>2, RestAnswers

\* Nobody has been told anything at the beginning.
LEMMA InitAnswers == Init => AnswersOK
<1> SUFFICES ASSUME Init PROVE AnswersOK
    OBVIOUS
<1>1. stack = <<>> /\ accErr = FALSE /\ cads = <<>>
    BY DEF Init, redisClusterAsyncInitialize, AsyncInit
<1>2. PICK n \in Nat : n = 0
    OBVIOUS
<1>3. Len(cads) = n /\ 1 .. n = {} /\ Len(stack) = n
    BY <1>1, <1>2
<1>4. WaitOK(ac, stack, cads, answers, calls)
    BY <1>3 DEF WaitOK
<1>5. ErrOK(accErr, stack, notes)
    BY <1>1 DEF ErrOK
<1> QED
    BY <1>3, <1>4, <1>5 DEF AnswersOK

\* Every step keeps what the callbacks are told in order.
LEMMA StepAnswers == Inv /\ OrderOK /\ AnswersOK /\ [Next]_vars => AnswersOK'
<1> SUFFICES ASSUME Inv, OrderOK, AnswersOK, [Next]_vars
             PROVE  AnswersOK'
    OBVIOUS
<1>1. CASE Library /\ UNCHANGED <<servers, route, client, executed>>
    BY <1>1, FreeCallbackAnswers, ProcessNoneAnswers, ProcessReplyAnswers DEF Library
<1>2. CASE UserReturns \/ Answered \/ NullCounted \/ NullTimed \/ TooMany \/ Moved \/ Install \/ Ask \/ Again
    BY <1>2, UserReturnsAnswers, AnsweredAnswers, NullCountedAnswers, NullTimedAnswers, TooManyAnswers, MovedAnswers,
       InstallAnswers, AskAnswers, AgainAnswers
<1>3. CASE CallbackLost \/ UnlinkLost \/ CommandInUpdate
    BY <1>3, AbortedAnswers
<1>4. CASE Unlink \/ Released
    BY <1>4, PoppedAnswers
<1>5. CASE (\E slot \in Slots : AsyncCommand(slot)) \/ redisClusterAsyncDisconnect \/ redisClusterAsyncFree
    BY <1>5, AsyncCommandAnswers, DisconnectAnswers, AllFreedAnswers
<1>6. CASE CommandRefused \/ Down \/ Up \/ \E slot \in Slots : Import(slot) \/ Take(slot)
    <2>1. UNCHANGED <<ac, stack, aborted, cads, answers, calls>>
        BY <1>6 DEF CommandRefused, Down, Up, Import, Take, avars, client
    <2>2. NotesKept /\ (accErr' = accErr \/ "refused" \in notes')
        BY <1>6 DEF CommandRefused, Down, Up, Import, Take, client, NotesKept
    <2> QED
        BY <2>1, <2>2, AsideAnswers
<1>7. CASE \E c \in Contexts : Write(c) \/ (Event(c) /\ UNCHANGED <<servers, route, client, executed>>)
    BY <1>7, EventAnswers
<1>8. CASE Over \/ UNCHANGED vars
    <2>1. UNCHANGED <<ac, stack, aborted, cads, answers, calls>> /\ UNCHANGED <<accErr, notes>>
        BY <1>8 DEF Over, vars, avars, client
    <2> QED
        BY <2>1, AsideAnswers DEF NotesKept
<1> QED
    BY <1>1, <1>2, <1>3, <1>4, <1>5, <1>6, <1>7, <1>8 DEF Next, thread, user

\* What a callback has been called with, one by one.
Hears(s, r) == s \in {<<>>, <<NULL>>, <<r>>}
OneAtMost(s, r) ==
    /\ Len(s) <= 1 /\ (s # <<>> => Len(s) = 1)
    /\ \A q \in Range(s) : q = NULL \/ q = r

\* A callback has been called once at most.
LEMMA HearsOnce ==
    ASSUME NEW s, NEW r, Hears(s, r)
    PROVE  OneAtMost(s, r)
<1> USE DEF Hears, OneAtMost
<1>1. CASE s = <<>>
    BY <1>1 DEF Range
<1>2. CASE s = <<NULL>>
    <2>1. Len(s) = 1 /\ DOMAIN s = {1} /\ s[1] = NULL
        BY <1>2
    <2> QED
        BY <2>1 DEF Range
<1>3. CASE s = <<r>>
    <2>1. Len(s) = 1 /\ DOMAIN s = {1} /\ s[1] = r
        BY <1>3
    <2> QED
        BY <2>1 DEF Range
<1> QED
    BY <1>1, <1>2, <1>3

\* The invariant says that callbacks are called once, with what is true.
LEMMA AnswersOnce == Inv /\ AnswersOK => AnsweredOnce
<1> SUFFICES ASSUME Inv, AnswersOK, NEW i \in DOMAIN cads
             PROVE  /\ Len(answers[i]) <= 1
                    /\ \A r \in Range(answers[i]) : r = NULL \/ r = Reply("reply", i)
                    /\ cads[i] = "freed" => Len(answers[i]) = 1
                    /\ cads[i] = "dropped" => "disconnected" \in notes
                    /\ (answers[i] = <<NULL>> /\ Reply("reply", i) \in Range(calls[i])) => "refused" \in notes
    BY DEF AnsweredOnce
<1>1. DOMAIN cads = 1 .. Len(cads)
    BY DEF Inv, TypeOK, CommandsOK
<1>2. ToldOK(i, cads, answers, calls, notes)
    BY <1>1 DEF AnswersOK
<1>3. Hears(answers[i], Reply("reply", i))
    BY <1>2 DEF ToldOK, Hears
<1>4. OneAtMost(answers[i], Reply("reply", i))
    BY <1>3, HearsOnce
<1> QED
    BY <1>2, <1>4 DEF ToldOK, Heard, OneAtMost

\* The callback of a command is called once at most, with its own reply or with
\* NULL; unless the user disconnects, no command is dropped without its callback
\* being called; and a reply that was read is hidden only by the error of a
\* command that was refused (redisClusterAsyncCallback).
THEOREM CalledOnce == Spec => []AnsweredOnce
<1>1. Inv /\ OrderOK /\ AnswersOK /\ [Next]_vars => (Inv /\ OrderOK /\ AnswersOK)'
    BY StepInv, StepOrder, StepAnswers
<1>2. Init => Inv /\ OrderOK /\ AnswersOK
    BY InitInv, InitOrder, InitAnswers
<1> QED
    BY <1>1, <1>2, AnswersOnce, PTL DEF Spec


-----------------------------------------------------------------------------
(***************************************************************************)
(* Memory that has been freed.  Until the user or the servers have done    *)
(* one of the things that MemorySafe excuses, Usual holds:                 *)
(*    - the nodes are those of every route that can be read, and so no     *)
(*      node is freed when the route is updated                            *)
(*    - a context that events are delivered to, or that the library works  *)
(*      on, belongs to a node                                              *)
(*    - there is one call of the library at most, with one callback in it  *)
(*    - if nodes are those of the slots, no server says ASK                *)
(***************************************************************************)
Excuses == {"disconnected", "ended", "in error"}
Noted(nts) == Excuses \cap nts # {}
Excused == Noted(notes) \/ (useSlots /\ moves > 0)

\* a node has the context c
Owned(c, ns) == \E k \in DOMAIN ns : ns[k].acon = c
Wanted(acs, ns) == \A c \in Contexts : acs[c].ev # {} => Owned(c, ns)

Fixed(ns) == DOMAIN ns = Listed(owner) /\ DOMAIN ns = Listed(before)

Simple(st, ns) ==
    /\ Len(st) \in {0, 1, 2}
    /\ Len(st) > 0 => Works(st[1]) /\ Owned(st[1].c, ns)
    /\ Len(st) = 2 => Pending(st[2]) /\ (st[2].at = "route" => Listed(st[2].table) = DOMAIN ns)

\* no redirection with ASK among replies
AskFree(s) == \A k \in 1 .. Len(s) : s[k].kind # "ask"
Hushed(acs, nt) == useSlots => \A c \in Contexts : AskFree(acs[c].ibuf) /\ AskFree(nt[c].out)
Silent(st) == useSlots /\ Len(st) = 2 => st[2].reply.kind # "ask"

Usual(acs, nt, st, ns, nts) ==
    /\ "freed" \notin nts
    /\ Fixed(ns) /\ Wanted(acs, ns) /\ Hushed(acs, nt)
    /\ Simple(st, ns) /\ Silent(st)

SafeOK ==
    /\ moves \in Nat
    /\ \A slot \in Slots : importing[slot] # None => moves > 0
    /\ aborted = "memory" => Excused
    /\ aborted = "no" /\ ~Excused => Usual(ac, net, stack, nodes, notes)

\* A step of the thread or of the user.
LEMMA SafeStep ==
    ASSUME SafeOK, UNCHANGED servers, aborted = "no", aborted' # "memory",
           \A x \in Excuses : x \in notes => x \in notes',
           Usual(ac, net, stack, nodes, notes) /\ ~Excused /\ aborted' = "no" /\ ~Noted(notes') =>
               Usual(ac', net', stack', nodes', notes')
    PROVE  SafeOK'
<1>1. UNCHANGED <<owner, before, importing, moves, useSlots>>
    BY DEF servers
<1>2. Noted(notes) => Noted(notes')
    BY DEF Noted
<1>3. Excused' <=> Noted(notes') \/ (useSlots /\ moves > 0)
    BY <1>1 DEF Excused, Noted
<1>4. Usual(ac, net, stack, nodes, notes)' <=> Usual(ac', net', stack', nodes', notes')
    BY <1>1 DEF Usual, Fixed, Wanted, Hushed, Simple, Silent, Owned, Listed, AskFree, Works, Pending
<1> QED
    BY <1>1, <1>2, <1>3, <1>4 DEF SafeOK, Excused

\* A callback runs, or a route has been read, as usual.
LEMMA UsualCall ==
    ASSUME Inv, OrderOK, NEW at \in {"callback", "user", "route"}, AtTop(at), Usual(ac, net, stack, nodes, notes)
    PROVE  /\ Len(stack) = 2 /\ Top = stack[2] /\ Works(stack[1]) /\ stack[1].c = Top.c /\ Owned(Top.c, nodes)
           /\ Len(Below) = 1 /\ Below[1] = stack[1] /\ StackOK(Below, Len(cads))
<1>1. /\ stack # <<>> /\ Top.at = at /\ Pending(Top) /\ ShapeOK(stack) /\ StackOK(stack, Len(cads)) /\ Len(cads) \in Nat
    BY InOrder
<1>2. /\ Len(stack) \in Nat \ {0} /\ Top = stack[Len(stack)] /\ StackOK(Below, Len(cads))
      /\ Len(Below) = Len(stack) - 1 /\ \A p \in 1 .. Len(Below) : Below[p] = stack[p]
    BY <1>1, TopFrame
<1>3. Len(stack) = 1 => Works(Top)
    BY <1>2 DEF Usual, Simple
<1>4. Len(stack) = 2
    BY <1>1, <1>2, <1>3 DEF Usual, Simple, Works, Pending
<1>5. CalledFrom(stack[1], stack[2])
    BY <1>1, <1>2, <1>4 DEF ShapeOK
<1> QED
    BY <1>2, <1>4, <1>5 DEF Usual, Simple, CalledFrom

\* A context that belongs to a node is not left with one that has been freed.
LEMMA OwnedData ==
    ASSUME Inv, OrderOK, aborted = "no", Usual(ac, net, stack, nodes, notes), NEW c \in Contexts, Owned(c, nodes)
    PROVE  data[c] \in DOMAIN nodes /\ data[c] # "freed"
<1>1. PICK k \in DOMAIN nodes : nodes[k].acon = c
    BY DEF Owned
<1>2. ServersOK /\ Ordered(ac, stack, nodes, data, notes)
    BY Running DEF OrderOK, Inv, TypeOK
<1>3. None \notin Contexts
    BY ClusterAssumption DEF None
<1>4. data[c] = k
    BY <1>1, <1>2, <1>3 DEF Ordered, LinksOK, LinkOK
<1>5. DOMAIN nodes \subseteq Servers
    BY <1>2 DEF Usual, Fixed, Listed, ServersOK, Routes, Range
<1> QED
    BY <1>4, <1>5, ClusterAssumption

\* Contexts, connections and nodes are as usual, and the library works on c.
Ready(acs, nt, ns, c) == Fixed(ns) /\ Wanted(acs, ns) /\ Hushed(acs, nt) /\ Owned(c, ns)

\* A callback of the user is called.
LEMMA UserUsual ==
    ASSUME Inv, OrderOK, NEW at \in {"callback", "route"}, AtTop(at), Usual(ac, net, stack, nodes, notes),
           NEW err, Done(err), notes' = notes, Ready(ac', net', nodes', Top.c)
    PROVE  Usual(ac', net', stack', nodes', notes')
<1>1. /\ Len(stack) = 2 /\ Top = stack[2] /\ Works(stack[1]) /\ stack[1].c = Top.c
    BY UsualCall
<1>2. Top.at = at /\ stack # <<>> /\ ShapeOK(stack) /\ StackOK(stack, Len(cads)) /\ Len(cads) \in Nat
    BY InOrder
<1>3. /\ Len(stack') = Len(stack) /\ \A p \in 1 .. Len(stack) - 1 : stack'[p] = stack[p]
      /\ LET u == stack'[Len(stack')] IN u.at = "user" /\ u.reply = Top.reply
    BY <1>2, DoneShape
<1>4. Len(stack') = 2 /\ stack'[1] = stack[1] /\ stack'[2].at = "user" /\ stack'[2].reply = Top.reply
    BY <1>1, <1>3
<1>5. Simple(stack', nodes')
    BY <1>1, <1>4 DEF Ready, Simple, Pending
<1>6. Silent(stack')
    BY <1>1, <1>4 DEF Usual, Silent
<1> QED
    BY <1>5, <1>6 DEF Usual, Ready

\* The same contexts and nodes are wanted.
LEMMA KeptReady ==
    ASSUME NEW acs, NEW nt, NEW ns, NEW c, Ready(acs, nt, ns, c), NEW then,
           \A d \in Contexts : then[d].ev = acs[d].ev /\ then[d].ibuf = acs[d].ibuf
    PROVE  Ready(then, nt, ns, c)
    BY DEF Ready, Wanted, Hushed

\* A callback returns.
LEMMA BackUsual ==
    ASSUME Inv, OrderOK, NEW at \in {"callback", "user", "route"}, AtTop(at), Usual(ac, net, stack, nodes, notes),
           NEW acs, ContextsOK(acs), Back(acs, Top.c, Below), notes' = notes, Ready(acs, net', nodes', Top.c)
    PROVE  Usual(ac', net', stack', nodes', notes')
<1>1. /\ Works(stack[1]) /\ stack[1].c = Top.c /\ Len(Below) = 1 /\ Below[1] = stack[1] /\ StackOK(Below, Len(cads))
    BY UsualCall
<1>2. Top.c \in Contexts /\ Len(cads) \in Nat
    BY InOrder
<1>3. /\ OthersSame(acs, ac', Top.c) /\ Kept(acs[Top.c], ac'[Top.c])
      /\ stack' = Below \/ FreeCalled(SubSeq(Below, 1, Len(Below) - 1), Top.c)
    BY <1>1, <1>2, Returned
<1>4. Ready(ac', net', nodes', Top.c)
    <2>1. \A d \in Contexts : ac'[d].ev = acs[d].ev /\ ac'[d].ibuf = acs[d].ibuf
        BY <1>3 DEF OthersSame, Kept
    <2> QED
        BY <2>1, KeptReady
<1>5. Len(stack') = 1 /\ Works(stack'[1]) /\ stack'[1].c = Top.c
    <2>1. CASE stack' = Below
        BY <1>1, <2>1
    <2>2. CASE FreeCalled(SubSeq(Below, 1, Len(Below) - 1), Top.c)
        <3>1. SubSeq(Below, 1, Len(Below) - 1) = <<>>
            BY <1>1 DEF StackOK
        <3>2. PICK f \in Frames : f.at = "free" /\ f.c = Top.c /\ stack' = Append(<<>>, f)
            BY <2>2, <3>1 DEF FreeCalled
        <3>3. Len(stack') = 1 /\ stack'[1] = f
            BY <3>2
        <3> QED
            BY <3>2, <3>3 DEF Works
    <2> QED
        BY <1>3, <2>1, <2>2
<1>6. Simple(stack', nodes') /\ Silent(stack')
    BY <1>4, <1>5 DEF Ready, Simple, Silent
<1> QED
    BY <1>4, <1>6 DEF Usual, Ready

\* What is usual, when a call about a command is at the top.
LEMMA UsualReady ==
    ASSUME Inv, OrderOK, NEW at \in {"callback", "user", "route"}, AtTop(at), Usual(ac, net, stack, nodes, notes),
           NEW nt, \A c \in Contexts : nt[c].out = net[c].out, NEW ns, SameLinks(nodes, ns)
    PROVE  Ready(ac, nt, ns, Top.c)
<1>1. Owned(Top.c, nodes)
    BY UsualCall
<1>2. \A c : Owned(c, nodes) => Owned(c, ns)
    BY DEF Owned, SameLinks
<1> QED
    BY <1>1, <1>2 DEF Usual, Ready, Fixed, Wanted, Hushed, SameLinks

\* Answered, TooMany, NullCounted.
LEMMA DoneSafe ==
    ASSUME Inv, OrderOK, SafeOK, Answered \/ TooMany \/ NullCounted
    PROVE  SafeOK'
<1>1. /\ AtTop("callback") /\ \E err : Done(err)
      /\ UNCHANGED <<ac, net, servers, notes>> /\ SameLinks(nodes, nodes')
    <2>1. CASE Answered \/ TooMany
        BY <2>1 DEF Answered, TooMany, InCallback, route, SameLinks
    <2>2. CASE NullCounted
        BY <2>2, NullCountedLinks DEF NullCounted, InCallback
    <2> QED
        BY <2>1, <2>2
<1>2. aborted = "no" /\ aborted' = aborted
    BY <1>1 DEF AtTop, Done
<1>3. ASSUME Usual(ac, net, stack, nodes, notes) PROVE Usual(ac', net', stack', nodes', notes')
    <2>1. Ready(ac, net, nodes', Top.c)
        BY <1>1, <1>3, UsualReady
    <2>2. Ready(ac', net', nodes', Top.c)
        BY <1>1, <2>1
    <2> QED
        BY <1>1, <1>3, <2>2, UserUsual
<1> QED
    BY <1>1, <1>2, <1>3, SafeStep

\* UserReturns.
LEMMA UserReturnsSafe ==
    ASSUME Inv, OrderOK, SafeOK, UserReturns
    PROVE  SafeOK'
<1>1. AtTop("user") /\ Back(ac, Top.c, Below) /\ UNCHANGED <<net, servers, nodes, notes, aborted>>
    BY DEF UserReturns, route
<1>2. aborted = "no" /\ ContextsOK(ac)
    BY <1>1, InOrder
<1>3. ASSUME Usual(ac, net, stack, nodes, notes) PROVE Usual(ac', net', stack', nodes', notes')
    <2>1. Ready(ac, net, nodes, Top.c)
        BY <1>1, <1>3, UsualReady DEF SameLinks
    <2>2. Ready(ac, net', nodes', Top.c)
        BY <1>1, <2>1
    <2> QED
        BY <1>1, <1>2, <1>3, <2>2, BackUsual
<1> QED
    BY <1>1, <1>2, <1>3, SafeStep

\* cluster_update_route: no context is freed.
LEMMA UpdateUsual ==
    ASSUME Inv, OrderOK, AtTop("callback"), Top.reply # NULL \/ ~Freeing, Usual(ac, net, stack, nodes, notes),
           UpdateRoute, UNCHANGED <<net, nodes, notes>>
    PROVE  Usual(ac', net', stack', nodes', notes')
<1>1. /\ Len(stack) = 2 /\ Top = stack[2] /\ Works(stack[1]) /\ stack[1].c = Top.c /\ Owned(Top.c, nodes)
    BY UsualCall
<1>2. aborted = "no" /\ stack # <<>> /\ Top.at = "callback" /\ ShapeOK(stack)
    BY InOrder
<1>3. PICK t \in {owner, before} : t \in Routes /\ RouteRead(t)
    BY <1>2, RouteBegins
<1>4. Listed(t) = DOMAIN nodes
    BY <1>3 DEF Usual, Fixed
<1>5. ContextsOf(DOMAIN nodes \ Listed(t)) = {}
    BY <1>4 DEF ContextsOf
<1>6. /\ \A c \in Contexts : Kept(ac[c], ac'[c])
      /\ Len(stack') \in Nat /\ Len(stack') > 1
      /\ stack'[1] = stack[1]
      /\ stack'[2] = [at |-> "route", c |-> Top.c, cb |-> Top.cb, reply |-> Top.reply, table |-> t]
      /\ \A p \in 1 .. Len(stack') : p > 2 => stack'[p].c \in ContextsOf(DOMAIN nodes \ Listed(t))
    BY <1>3 DEF RouteRead
<1>7. Len(stack') = 2
    <2>1. \A l \in Nat : l > 1 /\ l # 2 => 3 \in 1 .. l /\ 3 > 2
        OBVIOUS
    <2> QED
        BY <1>5, <1>6, <2>1
<1>8. stack'[2].at = "route" /\ stack'[2].reply = Top.reply /\ stack'[2].table = t
    BY <1>6
<1>9. Simple(stack', nodes')
    BY <1>1, <1>4, <1>6, <1>7, <1>8 DEF Simple, Pending
<1>10. Silent(stack')
    BY <1>1, <1>8 DEF Silent, Usual
<1>11. Wanted(ac', nodes') /\ Hushed(ac', net')
    BY <1>6 DEF Usual, Wanted, Hushed, Kept
<1> QED
    BY <1>9, <1>10, <1>11 DEF Usual, Fixed

\* NullTimed, Moved.
LEMMA UpdateSafe ==
    ASSUME Inv, OrderOK, SafeOK, NullTimed \/ Moved
    PROVE  SafeOK'
<1>1. /\ AtTop("callback") /\ UNCHANGED <<net, servers, nodes, notes, aborted>>
      /\ \/ (\E err : Done(err)) /\ UNCHANGED ac
         \/ (Top.reply # NULL \/ ~Freeing) /\ UpdateRoute
    <2>1. CASE NullTimed
        <3>1. AtTop("callback") /\ UNCHANGED <<net, servers, nodes, notes>>
            BY <2>1 DEF NullTimed, InCallback
        <3>2. CASE Done(ac[Top.c].err) /\ UNCHANGED <<ac, timer, spent>>
            <4>1. (\E err : Done(err)) /\ UNCHANGED ac
                BY <3>2
            <4>2. UNCHANGED aborted
                BY <3>2 DEF Done
            <4> QED
                BY <3>1, <4>1, <4>2
        <3>3. CASE CanUpdate /\ UpdateRoute /\ UNCHANGED <<timer, spent, accErr, answers, aborted>>
            BY <3>1, <3>3 DEF CanUpdate
        <3>4. CASE CanUpdate /\ UpdateFails /\ timer' = FALSE
            BY <3>1, <3>4 DEF UpdateFails, Done
        <3> QED
            BY <2>1, <3>2, <3>3, <3>4 DEF NullTimed
    <2>2. CASE Moved
        <3>1. AtTop("callback") /\ Top.reply # NULL /\ UNCHANGED <<net, servers, nodes, notes>>
            BY <2>2 DEF Moved, Redirected, InCallback, route
        <3>2. CASE UpdateRoute /\ UNCHANGED <<spent, accErr, answers, aborted>>
            BY <3>1, <3>2
        <3>3. CASE UpdateFails
            BY <3>1, <3>3 DEF UpdateFails, Done
        <3> QED
            BY <2>2, <3>2, <3>3 DEF Moved
    <2> QED
        BY <2>1, <2>2
<1>2. aborted = "no"
    BY <1>1 DEF AtTop
<1>3. ASSUME Usual(ac, net, stack, nodes, notes) PROVE Usual(ac', net', stack', nodes', notes')
    <2>1. CASE (\E err : Done(err)) /\ UNCHANGED ac
        <3>1. Ready(ac, net, nodes, Top.c)
            BY <1>1, <1>3, UsualReady DEF SameLinks
        <3>2. Ready(ac', net', nodes', Top.c)
            BY <1>1, <2>1, <3>1
        <3> QED
            BY <1>1, <1>3, <2>1, <3>2, UserUsual
    <2>2. CASE (Top.reply # NULL \/ ~Freeing) /\ UpdateRoute
        BY <1>1, <1>3, <2>2, UpdateUsual
    <2> QED
        BY <1>1, <2>1, <2>2
<1> QED
    BY <1>1, <1>2, <1>3, SafeStep

\* A context is got for a node, and linked to it.  One that the node had before
\* has failed, and has no events.
LEMMA GotReady ==
    ASSUME ContextsOK(ac), net \in [Contexts -> Connections], NEW ns, Keyed(ns), NEW ds, OnContexts(ds),
           Fixed(ns), Wanted(ac, ns), Hushed(ac, net), NEW key \in DOMAIN ns, NEW node, ns[key].acon = node.acon,
           NEW got \in actx_get_by_node(node), NEW server \in Servers, Link(got, key, server, ns, ds),
           \A d \in Contexts : d = node.acon /\ ac[d].err => ac[d].ev = {}
    PROVE  /\ Fixed(nodes') /\ Wanted(WithContext(got), nodes') /\ Hushed(WithContext(got), net')
           /\ \A c \in Contexts : Owned(c, ns) /\ ~ac[c].err => Owned(c, nodes')
           /\ ~got.err => got.c \in Contexts /\ Owned(got.c, nodes')
<1>1. node.acon \in Contexts \cup {None} /\ None \notin Contexts
    BY ClusterAssumption DEF Keyed, Pairs, None
<1>2. PICK acs : acs = WithContext(got)
    OBVIOUS
<1>3. /\ got.fresh \in BOOLEAN /\ got.err \in BOOLEAN /\ (got.fresh \/ ~got.err => got.c \in Contexts)
      /\ ~got.fresh => acs = ac
      /\ ~got.fresh /\ ~got.err => got.c = node.acon
      /\ got.fresh => OthersSame(ac, acs, got.c) /\ acs[got.c].ibuf = <<>>
    BY <1>1, <1>2, GotContext
<1>4. LinkedTo(ns, key, got)
    BY <1>3, Linked
<1>5. got.fresh => \A d \in Contexts : d = node.acon => ac[d].ev = {} /\ ac[d].err
    <2> SUFFICES ASSUME got.fresh, NEW d \in Contexts, d = node.acon, ~ac[d].err PROVE FALSE
        OBVIOUS
    <2>1. got = Had(node.acon)
        BY <1>1 DEF actx_get_by_node
    <2> QED
        BY <2>1 DEF Had
<1>6. ASSUME NEW d \in Contexts, Owned(d, ns), ~got.fresh \/ d # node.acon PROVE Owned(d, nodes')
    BY <1>4, <1>6 DEF LinkedTo, Owned
<1>7. got.fresh => Owned(got.c, nodes')
    BY <1>4 DEF LinkedTo, Owned
<1>8. \A c \in Contexts : Owned(c, ns) /\ ~ac[c].err => Owned(c, nodes')
    BY <1>5, <1>6
<1>9. Wanted(acs, nodes')
    <2> SUFFICES ASSUME NEW d \in Contexts, acs[d].ev # {} PROVE Owned(d, nodes')
        BY DEF Wanted
    <2>1. CASE got.fresh /\ d = got.c
        BY <1>7, <2>1
    <2>2. CASE ~(got.fresh /\ d = got.c)
        <3>1. acs[d] = ac[d]
            BY <1>3, <2>2 DEF OthersSame
        <3>2. Owned(d, ns)
            BY <3>1 DEF Wanted
        <3> QED
            BY <1>3, <1>5, <1>6, <3>1, <3>2
    <2> QED
        BY <2>1, <2>2
<1>10. Hushed(acs, net')
    <2> SUFFICES ASSUME useSlots, NEW d \in Contexts PROVE AskFree(acs[d].ibuf) /\ AskFree(net'[d].out)
        BY DEF Hushed
    <2>1. AskFree(ac[d].ibuf) /\ AskFree(net[d].out)
        BY DEF Hushed
    <2>2. net'[d].out = net[d].out
        BY <1>4 DEF LinkedTo
    <2>3. acs[d] = ac[d] \/ acs[d].ibuf = <<>>
        BY <1>3 DEF OthersSame
    <2>4. AskFree(<<>>)
        BY DEF AskFree
    <2> QED
        BY <2>1, <2>2, <2>3, <2>4
<1>11. Fixed(nodes')
    BY <1>4 DEF LinkedTo, Fixed
<1>12. ~got.err => got.c \in Contexts /\ Owned(got.c, nodes')
    <2>1. Owned(node.acon, ns)
        BY DEF Owned
    <2> QED
        BY <1>1, <1>3, <1>6, <1>7, <2>1
<1> QED
    BY <1>2, <1>8, <1>9, <1>10, <1>11, <1>12

\* The command of the call at the top is sent again, or is lost.
LEMMA RetryUsual ==
    ASSUME Inv, OrderOK, NEW at \in {"callback", "route"}, AtTop(at), Usual(ac, net, stack, nodes, notes),
           NEW acs, ContextsOK(acs), NEW c \in Contexts, NEW asking \in BOOLEAN, Retry(acs, c, asking), notes' = notes,
           Ready(acs, net', nodes', Top.c), Owned(c, nodes')
    PROVE  Usual(ac', net', stack', nodes', notes')
<1>1. stack # <<>> /\ Top.at = at /\ StackOK(stack, Len(cads)) /\ CommandsOK
    BY InOrder
<1>2. PICK then : ContextsOK(then) /\ SentBack(acs, then, c)
    BY <1>1, RetryContexts
<1>3. Wanted(then, nodes') /\ Hushed(then, net')
    BY <1>2 DEF SentBack, OthersSame, Ready, Wanted, Hushed
<1>4. Ready(then, net', nodes', Top.c)
    BY <1>3 DEF Ready
<1>5. Back(then, Top.c, Below)
    BY <1>2 DEF SentBack
<1> QED
    BY <1>2, <1>4, <1>5, BackUsual

\* ... to the context of a node (RetryAt).
LEMMA RetryAtUsual ==
    ASSUME Inv, OrderOK, NEW at \in {"callback", "route"}, AtTop(at), Usual(ac, net, stack, nodes, notes),
           Top.reply # NULL, NEW ns, Keyed(ns), NEW ds, OnContexts(ds), Ready(ac, net, ns, Top.c),
           NEW key \in DOMAIN ns, NEW node, ns[key].acon = node.acon, NEW got \in actx_get_by_node(node),
           NEW server \in Servers, Link(got, key, server, ns, ds), NEW asking \in BOOLEAN, RetryAt(got, asking),
           notes' = notes
    PROVE  Usual(ac', net', stack', nodes', notes')
<1>1. /\ StackOK(stack, Len(cads)) /\ Len(cads) \in Nat /\ ContextsOK(ac) /\ Pending(Top) /\ aborted = "no"
      /\ stack # <<>> /\ ShapeOK(stack) /\ Top.c \in Contexts /\ Ordered(ac, stack, nodes, data, notes)
    BY InOrder
<1>2. Len(stack) = 2 /\ stack[1].at = "process" /\ stack[1].c = Top.c /\ \A d : Busy(stack, d) => d = Top.c
    BY <1>1, Reading
<1>3. ~ac[Top.c].err
    BY <1>1, <1>2 DEF Ordered, ReaderOK
<1>4. \A d \in Contexts : ac[d].err => ac[d].ev = {} /\ d # Top.c
    BY <1>1, <1>2, <1>3 DEF Ordered, FlagsOK
<1>5. net \in [Contexts -> Connections]
    BY <1>1, Running
<1>6. PICK acs : acs = WithContext(got)
    OBVIOUS
<1>7. /\ Ready(acs, net', nodes', Top.c)
      /\ ~got.err => got.c \in Contexts /\ Owned(got.c, nodes')
    <2>1. /\ Fixed(ns) /\ Wanted(ac, ns) /\ Hushed(ac, net) /\ Owned(Top.c, ns)
          /\ \A d \in Contexts : d = node.acon /\ ac[d].err => ac[d].ev = {}
        BY <1>4 DEF Ready
    <2>2. /\ Fixed(nodes') /\ Wanted(acs, nodes') /\ Hushed(acs, net')
          /\ \A c \in Contexts : Owned(c, ns) /\ ~ac[c].err => Owned(c, nodes')
          /\ ~got.err => got.c \in Contexts /\ Owned(got.c, nodes')
        BY <1>1, <1>5, <1>6, <2>1, GotReady
    <2> QED
        BY <1>1, <1>3, <2>1, <2>2 DEF Ready
<1>8. ContextsOK(acs) /\ got.err \in BOOLEAN
    BY <1>1, <1>6, GotContext DEF Keyed, Pairs
<1>9. CASE got.err
    <2>1. ac' = acs /\ Done(TRUE)
        BY <1>6, <1>9 DEF RetryAt
    <2> QED
        BY <1>7, <2>1, UserUsual
<1>10. CASE ~got.err
    <2>1. Retry(acs, got.c, asking)
        BY <1>6, <1>10 DEF RetryAt
    <2> QED
        BY <1>7, <1>8, <1>10, <2>1, RetryUsual
<1> QED
    BY <1>8, <1>9, <1>10

\* Again.
LEMMA AgainSafe ==
    ASSUME Inv, OrderOK, SafeOK, Again
    PROVE  SafeOK'
<1>1. /\ AtTop("callback") /\ Retry(ac, Top.c, FALSE) /\ UNCHANGED <<net, servers, nodes, notes, aborted>>
    <2>1. AtTop("callback") /\ Retry(ac, Top.c, FALSE) /\ UNCHANGED <<net, servers, nodes, notes>>
        BY DEF Again, Redirected, InCallback, route
    <2>2. UNCHANGED aborted
        BY <2>1 DEF Retry
    <2> QED
        BY <2>1, <2>2
<1>2. aborted = "no" /\ ContextsOK(ac) /\ Top.c \in Contexts
    BY <1>1, InOrder
<1>3. ASSUME Usual(ac, net, stack, nodes, notes) PROVE Usual(ac', net', stack', nodes', notes')
    <2>1. Ready(ac, net, nodes, Top.c)
        BY <1>1, <1>3, UsualReady DEF SameLinks
    <2>2. Ready(ac, net', nodes', Top.c) /\ Owned(Top.c, nodes')
        BY <1>1, <2>1 DEF Ready
    <2> QED
        BY <1>1, <1>2, <1>3, <2>2, RetryUsual
<1> QED
    BY <1>1, <1>2, <1>3, SafeStep

\* What RetryAt does to the program.
LEMMA RetryAtGoesOn ==
    ASSUME NEW got, NEW asking, RetryAt(got, asking)
    PROVE  UNCHANGED aborted
<1>1. CASE got.err
    BY <1>1 DEF RetryAt, Done
<1>2. CASE ~got.err
    BY <1>2 DEF RetryAt, Retry
<1> QED
    BY <1>1, <1>2

\* Ask.
LEMMA AskSafe ==
    ASSUME Inv, OrderOK, SafeOK, Ask
    PROVE  SafeOK'
<1>1. AtTop("callback") /\ Top.reply # NULL /\ Top.reply.kind = "ask" /\ UNCHANGED <<servers, notes>>
    BY AskDoes
<1>2. PICK s, ns, key, node, got : Asks(s, ns, key, node, got)
    BY AskDoes
<1>3. aborted = "no" /\ OnContexts(data)
    BY <1>1, InOrder
<1>4. /\ s \in Servers /\ Keyed(ns) /\ GotAt(node, got, ns, key) /\ Link(got, key, s, ns, data) /\ RetryAt(got, TRUE)
    BY <1>2 DEF Asks
<1>5. UNCHANGED aborted
    BY <1>4, RetryAtGoesOn
<1>6. ASSUME Usual(ac, net, stack, nodes, notes) PROVE Usual(ac', net', stack', nodes', notes')
    <2>1. Len(stack) = 2 /\ Top = stack[2]
        BY <1>1, <1>6, UsualCall
    <2>2. DOMAIN nodes = Servers
        BY <1>1, <1>6, <2>1 DEF Usual, Silent, Fixed, Listed
    <2>3. key \in DOMAIN ns /\ node = ns[key] /\ SameLinks(nodes, ns)
        BY <1>2, <1>4, <2>2 DEF Asks, SameLinks
    <2>4. Ready(ac, net, ns, Top.c)
        BY <1>1, <1>6, <2>3, UsualReady
    <2>5. got \in actx_get_by_node(node)
        BY <1>4 DEF GotAt
    <2> QED
        BY <1>1, <1>3, <1>4, <1>6, <2>3, <2>4, <2>5, RetryAtUsual
<1> QED
    BY <1>1, <1>3, <1>5, <1>6, SafeStep

\* A new route with the same nodes takes over their contexts.
LEMMA SwappedLinks ==
    ASSUME NEW t, Listed(t) = DOMAIN nodes
    PROVE  SameLinks(nodes, Swapped(t))
<1>1. DOMAIN Swapped(t) = DOMAIN nodes
    BY DEF Swapped
<1>2. ASSUME NEW k \in DOMAIN nodes PROVE Swapped(t)[k].acon = nodes[k].acon
    <2>1. Swapped(t)[k] = [Node(k) EXCEPT !.acon = nodes[k].acon]
        BY DEF Swapped
    <2> QED
        BY <2>1 DEF Node
<1> QED
    BY <1>1, <1>2 DEF SameLinks

\* Install.
LEMMA InstallSafe ==
    ASSUME Inv, OrderOK, SafeOK, Install
    PROVE  SafeOK'
<1>1. /\ AtTop("route") /\ Keyed(Swapped(Top.table)) /\ OnContexts(DataAfter(Top.table))
      /\ UNCHANGED <<servers, notes>>
    BY InstallDoes
<1>2. aborted = "no"
    BY <1>1, InOrder
<1>3. PICK ns, ds : ns = Swapped(Top.table) /\ ds = DataAfter(Top.table)
    OBVIOUS
<1>4. Keyed(ns) /\ OnContexts(ds)
    BY <1>1, <1>3
<1>5. ASSUME Usual(ac, net, stack, nodes, notes) PROVE Ready(ac, net, ns, Top.c)
    <2>1. Len(stack) = 2 /\ Top = stack[2]
        BY <1>1, <1>5, UsualCall
    <2>2. Listed(Top.table) = DOMAIN nodes
        BY <1>1, <1>5, <2>1 DEF AtTop, Usual, Simple
    <2>3. SameLinks(nodes, ns)
        BY <1>3, <2>2, SwappedLinks
    <2> QED
        BY <1>1, <1>5, <2>3, UsualReady
<1>6. CASE Top.reply = NULL /\ nodes' = ns /\ (\E err : Done(err)) /\ UNCHANGED <<ac, net>>
    <2>1. UNCHANGED aborted
        BY <1>6 DEF Done
    <2>2. ASSUME Usual(ac, net, stack, nodes, notes) PROVE Usual(ac', net', stack', nodes', notes')
        <3>1. Ready(ac', net', nodes', Top.c)
            BY <1>5, <1>6, <2>2
        <3> QED
            BY <1>1, <1>6, <2>2, <3>1, UserUsual
    <2> QED
        BY <1>1, <1>2, <2>1, <2>2, SafeStep
<1>7. CASE Top.reply # NULL /\ \E key, got : Gets(key, got)
    <2>1. PICK key, got : Gets(key, got)
        BY <1>7
    <2>2. /\ key \in DOMAIN ns /\ key \in Servers /\ GotAt(ns[key], got, ns, key)
          /\ Link(got, key, key, ns, ds) /\ RetryAt(got, FALSE)
        BY <1>3, <2>1 DEF Gets
    <2>3. UNCHANGED aborted
        BY <2>2, RetryAtGoesOn
    <2>4. got \in actx_get_by_node(ns[key])
        BY <2>2 DEF GotAt
    <2>5. ASSUME Usual(ac, net, stack, nodes, notes) PROVE Usual(ac', net', stack', nodes', notes')
        <3>1. PICK node : node = ns[key]
            OBVIOUS
        <3> QED
            BY <1>1, <1>4, <1>5, <1>7, <2>2, <2>4, <2>5, <3>1, RetryAtUsual
    <2> QED
        BY <1>1, <1>2, <2>3, <2>5, SafeStep
<1> QED
    BY <1>3, <1>6, <1>7, InstallDoes

\* The library works on a context, as usual.
LEMMA UsualWork ==
    ASSUME Inv, OrderOK, aborted = "no", stack # <<>>, Works(Top), Usual(ac, net, stack, nodes, notes)
    PROVE  Len(stack) = 1 /\ Top = stack[1] /\ Owned(Top.c, nodes)
<1>1. StackOK(stack, Len(cads)) /\ Len(cads) \in Nat
    BY Running
<1>2. Len(stack) \in Nat \ {0} /\ Top = stack[Len(stack)]
    BY <1>1, TopFrame
<1>3. Len(stack) = 2 => Pending(Top)
    BY <1>2 DEF Usual, Simple
<1>4. Len(stack) = 1
    BY <1>2, <1>3 DEF Usual, Simple, Works, Pending
<1> QED
    BY <1>2, <1>4 DEF Usual, Simple

\* A callback is called by the library.
LEMMA CalledUsual ==
    ASSUME Usual(ac, net, stack, nodes, notes), NEW c \in Contexts, Owned(c, nodes), OthersSame(ac, ac', c),
           ac'[c].ev = ac[c].ev, useSlots => AskFree(ac'[c].ibuf), NEW n \in Nat, NEW st, StackOK(st, n), Len(st) = 1,
           Works(st[1]), st[1].c = c, NEW cb, NEW reply, useSlots => reply.kind # "ask", Called(c, cb, reply, st)
    PROVE  Usual(ac', net, stack', nodes, notes)
<1>1. Wanted(ac', nodes) /\ Hushed(ac', net)
    BY DEF Usual, Wanted, Hushed, OthersSame
<1>2. Simple(stack', nodes) /\ Silent(stack')
    <2>1. CASE cb.fn
        <3>1. PICK f \in Frames : f = CallbackFrame(c, cb, reply) /\ stack' = Append(st, f)
            BY <2>1 DEF Called
        <3>2. Pushed(st, f, stack')
            BY <3>1, PushedOn
        <3>3. Len(stack') = 2 /\ stack'[1] = st[1] /\ stack'[2] = f
            BY <3>2 DEF Pushed
        <3>4. f.at = "callback" /\ f.reply = reply
            BY <3>1 DEF CallbackFrame
        <3> QED
            BY <3>3, <3>4 DEF Simple, Silent, Pending
    <2>2. CASE ~cb.fn
        <3>1. stack' = st
            BY <2>2 DEF Called
        <3>2. Len(stack') = 1 /\ Works(stack'[1]) /\ stack'[1].c = c
            BY <3>1
        <3> QED
            BY <3>2 DEF Simple, Silent
    <2> QED
        BY <2>1, <2>2
<1> QED
    BY <1>1, <1>2 DEF Usual

\* FreeCallback.
LEMMA FreeCallbackSafe ==
    ASSUME Inv, OrderOK, SafeOK, FreeCallback, UNCHANGED <<servers, route, client, executed>>
    PROVE  SafeOK'
<1>1. /\ aborted = "no" /\ stack # <<>> /\ Top.at = "free" /\ Top.c \in Contexts /\ OthersSame(ac, ac', Top.c)
      /\ ac'[Top.c].ibuf = ac[Top.c].ibuf /\ ac'[Top.c].ev = ac[Top.c].ev
      /\ Called(Top.c, Head(ac[Top.c].replies), NULL, stack) /\ UNCHANGED <<net, aborted>>
    BY FreeCallbackDoes DEF Inv
<1>2. StackOK(stack, Len(cads)) /\ Len(cads) \in Nat
    BY <1>1, Running
<1>3. UNCHANGED <<nodes, notes, servers>>
    BY DEF route, client
<1>4. ASSUME Usual(ac, net, stack, nodes, notes) PROVE Usual(ac', net', stack', nodes', notes')
    <2>1. Works(Top)
        BY <1>1 DEF Works
    <2>2. Len(stack) = 1 /\ Top = stack[1] /\ Owned(Top.c, nodes)
        BY <1>1, <1>4, <2>1, UsualWork
    <2>3. useSlots => AskFree(ac'[Top.c].ibuf)
        BY <1>1, <1>4 DEF Usual, Hushed
    <2>4. NULL.kind # "ask"
        BY DEF NULL
    <2>5. Usual(ac', net, stack', nodes, notes)
        BY <1>1, <1>2, <1>4, <2>1, <2>2, <2>3, <2>4, CalledUsual
    <2> QED
        BY <1>1, <1>3, <2>5
<1> QED
    BY <1>1, <1>3, <1>4, SafeStep

\* ProcessReply.
LEMMA ProcessReplySafe ==
    ASSUME Inv, OrderOK, SafeOK, ProcessReply, UNCHANGED <<servers, route, client, executed>>
    PROVE  SafeOK'
<1> DEFINE c == Top.c
           cb == Head(ac[c].replies)
           r == Head(ac[c].ibuf)
           st == <<ProcessFrame(c, cb)>>
<1>1. /\ aborted = "no" /\ stack # <<>> /\ Top.at = "process" /\ c \in Contexts /\ ac[c].ibuf # <<>> /\ UNCHANGED net
      /\ \/ /\ ac[c].replies # <<>> /\ OthersSame(ac, ac', c)
            /\ ac'[c].ibuf = Tail(ac[c].ibuf) /\ ac'[c].ev = ac[c].ev
            /\ Called(c, cb, r, st)
            /\ UNCHANGED aborted
         \/ aborted' = "unexpected"
    BY ProcessReplyDoes DEF Inv
<1>2. UNCHANGED <<nodes, notes, servers>> /\ aborted' # "memory"
    BY <1>1 DEF route, client
<1>3. ASSUME Usual(ac, net, stack, nodes, notes), aborted' = "no" PROVE Usual(ac', net', stack', nodes', notes')
    <2>1. Owned(c, nodes)
        BY <1>1, <1>3, UsualWork DEF Works
    <2>2. ContextsOK(ac) /\ IdsOK(ac, Len(cads)) /\ Len(cads) \in Nat
        BY <1>1, Running DEF TypeOK
    <2>3. cb \in Callbacks
        BY <1>1, <1>3, <2>2, FirstCallback
    <2>4. StackOK(st, Len(cads))
        BY <1>1, <2>2, <2>3, ProcessFrames
    <2>5. Len(st) = 1 /\ Works(st[1]) /\ st[1].c = c
        BY DEF Works, ProcessFrame
    <2>6. useSlots => AskFree(ac[c].ibuf)
        BY <1>1, <1>3 DEF Usual, Hushed
    <2>7. /\ Len(ac[c].ibuf) \in Nat \ {0} /\ r = ac[c].ibuf[1] /\ Len(Tail(ac[c].ibuf)) = Len(ac[c].ibuf) - 1
          /\ \A k \in 1 .. Len(ac[c].ibuf) - 1 : Tail(ac[c].ibuf)[k] = ac[c].ibuf[k + 1]
        BY <1>1, <2>2, FirstReply
    <2>8. useSlots => r.kind # "ask" /\ AskFree(Tail(ac[c].ibuf))
        BY <2>6, <2>7 DEF AskFree
    <2> HIDE DEF st
    <2>9. Usual(ac', net, stack', nodes, notes)
        BY <1>1, <1>3, <2>1, <2>2, <2>4, <2>5, <2>8, CalledUsual
    <2> QED
        BY <1>1, <1>2, <2>9
<1> QED
    BY <1>1, <1>2, <1>3, SafeStep

\* What is on the way between a context and its server, and holds no ASK: it is
\* still so when replies are read, or commands are answered.
LEMMA ThingsAskFree ==
    ASSUME NEW i, NEW o, NEW b, NEW j, NEW q, Len(i) \in Nat, Len(o) \in Nat, Len(b) \in Nat, Len(j) \in Nat,
           Len(q) \in Nat, AskFree(i), AskFree(o),
           Len(j) + Len(q) + Len(b) = Len(i) + Len(o) + Len(b),
           \A k \in 1 .. Len(i) + Len(o) + Len(b) : Thing(j, q, b, k) = Thing(i, o, b, k)
    PROVE  AskFree(j) /\ AskFree(q)
<1>1. ASSUME NEW k \in 1 .. Len(j) PROVE j[k].kind # "ask"
    <2>1. k \in 1 .. Len(i) + Len(o) + Len(b) /\ k <= Len(j) /\ k <= Len(i) + Len(o)
        OBVIOUS
    <2>2. j[k] = Thing(i, o, b, k)
        BY <2>1 DEF Thing
    <2>3. CASE k <= Len(i)
        BY <2>1, <2>2, <2>3 DEF Thing, AskFree
    <2>4. CASE ~(k <= Len(i))
        <3>1. k - Len(i) \in 1 .. Len(o)
            BY <2>1, <2>4
        <3> QED
            BY <2>1, <2>2, <2>4, <3>1 DEF Thing, AskFree
    <2> QED
        BY <2>3, <2>4
<1>2. ASSUME NEW k \in 1 .. Len(q) PROVE q[k].kind # "ask"
    <2> DEFINE m == Len(j) + k
    <2>1. /\ m \in 1 .. Len(i) + Len(o) + Len(b) /\ ~(m <= Len(j)) /\ m <= Len(j) + Len(q) /\ m <= Len(i) + Len(o)
          /\ m - Len(j) = k
        OBVIOUS
    <2> HIDE DEF m
    <2>2. Thing(j, q, b, m) = q[k]
        BY <2>1 DEF Thing
    <2>3. q[k] = Thing(i, o, b, m)
        BY <2>1, <2>2
    <2>4. CASE m <= Len(i)
        <3>1. m \in 1 .. Len(i)
            BY <2>1, <2>4
        <3> QED
            BY <2>3, <2>4, <3>1 DEF Thing, AskFree
    <2>5. CASE ~(m <= Len(i))
        <3>1. m - Len(i) \in 1 .. Len(o)
            BY <2>1, <2>5
        <3> QED
            BY <2>1, <2>3, <2>5, <3>1 DEF Thing, AskFree
    <2> QED
        BY <2>4, <2>5
<1> QED
    BY <1>1, <1>2 DEF AskFree

\* Commands are answered while no slot is moving: no server says ASK.
LEMMA WrittenAskFree ==
    ASSUME TypeOK, NEW c \in Contexts, ContextsOK(ac'), net' \in [Contexts -> Connections], NEW ans, Written(c, ans),
           Settled, AskFree(net[c].out)
    PROVE  AskFree(net'[c].out)
<1>1. PICK i, o, b : i = ac[c].ibuf /\ o = net[c].out /\ b = ac[c].obuf
    OBVIOUS
<1>2. PICK r, q : r = net'[c].out /\ q = ac'[c].obuf
    OBVIOUS
<1>3. IsContext(ac[c]) /\ IsContext(ac'[c]) /\ net[c] \in Connections /\ net'[c] \in Connections
    BY DEF TypeOK, ContextsOK
<1>4. Len(i) \in Nat /\ Len(o) \in Nat /\ Len(b) \in Nat /\ Len(r) \in Nat /\ Len(q) \in Nat
    BY <1>1, <1>2, <1>3, SizeTyped
<1>5. /\ ServedList(i, o, b, r, q, ans) /\ Len(ans) \in 0 .. Len(b) /\ AskFree(o)
      /\ \A k \in 1 .. Len(ans) : ans[k].kind # "ask"
    BY <1>1, <1>2 DEF Written
<1>6. \A k \in 1 .. Len(b) : b[k].kind # "ask"
    <2>1. b \in Seq(Commands)
        BY <1>1, <1>3 DEF IsContext
    <2>2. \A k \in 1 .. Len(b) : b[k] \in Commands
        BY <2>1
    <2>3. \A x \in Commands : x.kind # "ask"
        BY DEF Commands
    <2> QED
        BY <2>2, <2>3
<1>7. ASSUME NEW k \in 1 .. Len(r) PROVE r[k].kind # "ask"
    <2> DEFINE m == Len(i) + k
    <2>1. /\ m \in 1 .. Len(i) + Len(o) + Len(b) /\ ~(m <= Len(i)) /\ m <= Len(i) + Len(r) /\ m - Len(i) = k
        BY <1>4, <1>5 DEF ServedList
    <2>2. m \in Nat /\ Len(ans) \in Nat
        BY <1>4, <1>5
    <2> HIDE DEF m
    <2>3. Thing(i, r, q, m) = r[k]
        BY <2>1 DEF Thing
    <2>4. CASE m > Len(i) + Len(o) /\ m <= Len(i) + Len(o) + Len(ans)
        <3>1. m - (Len(i) + Len(o)) \in 1 .. Len(ans)
            BY <1>4, <2>2, <2>4
        <3>2. r[k] = ans[m - (Len(i) + Len(o))]
            BY <1>5, <2>1, <2>3, <2>4 DEF ServedList
        <3> QED
            BY <1>5, <3>1, <3>2
    <2>5. CASE ~(m > Len(i) + Len(o) /\ m <= Len(i) + Len(o) + Len(ans))
        <3>1. r[k] = Thing(i, o, b, m)
            BY <1>5, <2>1, <2>3, <2>5 DEF ServedList
        <3>2. CASE m <= Len(i) + Len(o)
            <4>1. m - Len(i) \in 1 .. Len(o)
                BY <1>4, <2>1, <2>2, <3>2
            <4> QED
                BY <1>5, <2>1, <3>1, <3>2, <4>1 DEF Thing, AskFree
        <3>3. CASE ~(m <= Len(i) + Len(o))
            <4>1. m - (Len(i) + Len(o)) \in 1 .. Len(b)
                BY <1>4, <2>1, <2>2, <3>3
            <4> QED
                BY <1>6, <2>1, <3>1, <3>3, <4>1 DEF Thing
        <3> QED
            BY <3>2, <3>3
    <2> QED
        BY <2>4, <2>5
<1> QED
    BY <1>2, <1>7 DEF AskFree

\* A context is to be freed, and nothing else is done.
LEMMA FreedUsual ==
    ASSUME NEW c, FreeCalled(<<>>, c), NEW ns, Owned(c, ns)
    PROVE  Simple(stack', ns) /\ Silent(stack')
<1>1. PICK f \in Frames : f.at = "free" /\ f.c = c /\ stack' = Append(<<>>, f)
    BY DEF FreeCalled
<1>2. Len(stack') = 1 /\ stack'[1] = f
    BY <1>1
<1> QED
    BY <1>1, <1>2 DEF Simple, Silent, Works

\* Nothing is done.
LEMMA IdleUsual ==
    ASSUME stack' = <<>>, NEW ns
    PROVE  Simple(stack', ns) /\ Silent(stack')
<1>1. Len(stack') = 0
    OBVIOUS
<1> QED
    BY <1>1 DEF Simple, Silent

\* ProcessNone.
LEMMA ProcessNoneSafe ==
    ASSUME Inv, OrderOK, SafeOK, ProcessNone, UNCHANGED <<servers, route, client, executed>>
    PROVE  SafeOK'
<1> DEFINE c == Top.c
<1>1. /\ aborted = "no" /\ stack # <<>> /\ Top.at = "process" /\ c \in Contexts /\ UNCHANGED net
      /\ OthersSame(ac, ac', c) /\ Kept(ac[c], ac'[c])
      /\ stack' = <<>> \/ FreeCalled(<<>>, c)
      /\ aborted' \in {"no", "pending"}
    BY ProcessNoneDoes DEF Inv
<1>2. UNCHANGED <<nodes, notes, servers>>
    BY DEF route, client
<1>3. ASSUME Usual(ac, net, stack, nodes, notes) PROVE Usual(ac', net', stack', nodes', notes')
    <2>1. Owned(c, nodes)
        BY <1>1, <1>3, UsualWork DEF Works
    <2>2. Simple(stack', nodes) /\ Silent(stack')
        BY <1>1, <2>1, FreedUsual, IdleUsual
    <2>3. Wanted(ac', nodes) /\ Hushed(ac', net)
        BY <1>1, <1>3 DEF Usual, Wanted, Hushed, OthersSame, Kept
    <2> QED
        BY <1>1, <1>2, <1>3, <2>2, <2>3 DEF Usual
<1> QED
    BY <1>1, <1>2, <1>3, SafeStep

\* An event of a context: only what is on the way on its connection changes.
LEMMA EventSafe ==
    ASSUME SafeOK, NEW c \in Contexts, aborted = "no", aborted' = "no", ac[c].ev # {}, OthersSame(ac, ac', c),
           \A d \in Contexts : d # c => net'[d].out = net[d].out, UNCHANGED <<servers, nodes, notes>>,
           FreeCalled(<<>>, c) \/ stack' = <<>> \/ stack' = <<ProcessFrame(c, NullCb)>>,
           useSlots /\ Settled /\ AskFree(ac[c].ibuf) /\ AskFree(net[c].out) =>
               AskFree(ac'[c].ibuf) /\ AskFree(net'[c].out)
    PROVE  SafeOK'
<1>1. ASSUME Usual(ac, net, stack, nodes, notes), ~Excused PROVE Usual(ac', net', stack', nodes', notes')
    <2>1. Owned(c, nodes)
        BY <1>1 DEF Usual, Wanted
    <2>2. Simple(stack', nodes) /\ Silent(stack')
        <3>1. ASSUME stack' = <<ProcessFrame(c, NullCb)>> PROVE Simple(stack', nodes) /\ Silent(stack')
            <4>1. Len(stack') = 1 /\ stack'[1] = ProcessFrame(c, NullCb)
                BY <3>1
            <4> QED
                BY <2>1, <4>1 DEF Simple, Silent, Works, ProcessFrame
        <3> QED
            BY <2>1, <3>1, FreedUsual, IdleUsual
    <2>3. Wanted(ac', nodes)
        BY <1>1, <2>1 DEF Usual, Wanted, OthersSame
    <2>4. useSlots => Settled
        BY <1>1 DEF SafeOK, Excused, Settled
    <2>5. Hushed(ac', net')
        BY <1>1, <2>4 DEF Usual, Hushed, OthersSame
    <2> QED
        BY <1>1, <2>2, <2>3, <2>5 DEF Usual
<1> QED
    BY <1>1, SafeStep

\* ConnectFails, ReadFails, redisAsyncHandleRead, redisAsyncHandleWrite and Break.
LEMMA EventsSafe ==
    ASSUME Inv, OrderOK, SafeOK, NEW c \in Contexts,
           Write(c) \/ (Event(c) /\ UNCHANGED <<servers, route, client, executed>>)
    PROVE  SafeOK'
<1>1. TypeOK
    BY DEF Inv
<1>2. CASE Write(c)
    <2>1. /\ aborted = "no" /\ stack = <<>> /\ OthersSame(ac, ac', c) /\ ac[c].ev # {} /\ ContextsOK(ac')
          /\ net' \in [Contexts -> Connections] /\ \A d \in Contexts : d # c => net'[d] = net[d]
          /\ UNCHANGED <<servers, route, client>>
          /\ (\E ans : Written(c, ans)) \/ WriteFailed(c)
        BY <1>1, <1>2, WriteDoes
    <2>2. UNCHANGED <<nodes, notes>>
        BY <2>1 DEF route, client
    <2>3. CASE WriteFailed(c)
        BY <2>1, <2>2, <2>3, EventSafe DEF WriteFailed
    <2>4. CASE \E ans : Written(c, ans)
        <3>1. PICK ans : Written(c, ans)
            BY <2>4
        <3>2. ASSUME Settled, AskFree(net[c].out) PROVE AskFree(net'[c].out)
            BY <1>1, <2>1, <3>1, <3>2, WrittenAskFree
        <3> QED
            BY <2>1, <2>2, <3>1, <3>2, EventSafe DEF Written
    <2> QED
        BY <2>1, <2>3, <2>4
<1>3. CASE (ConnectFails(c) \/ ReadFails(c)) /\ UNCHANGED <<servers, route, client>>
    <2>1. /\ aborted = "no" /\ stack = <<>> /\ OthersSame(ac, ac', c) /\ ac'[c].ibuf = ac[c].ibuf
          /\ ac[c].ev # {} /\ UNCHANGED <<net, aborted>> /\ FreeCalled(<<>>, c)
        BY <1>1, <1>3, FailsDo
    <2>2. UNCHANGED <<nodes, notes, servers>>
        BY <1>3 DEF route, client
    <2> QED
        BY <2>1, <2>2, EventSafe
<1>4. CASE redisAsyncHandleRead(c) /\ UNCHANGED <<servers, route, client>>
    <2>1. /\ aborted = "no" /\ stack = <<>> /\ OthersSame(ac, ac', c) /\ ContextsOK(ac')
          /\ ac'[c].obuf = ac[c].obuf /\ ac[c].ev # {} /\ SameThings(ac[c], net[c], ac'[c], net'[c])
          /\ net' \in [Contexts -> Connections]
          /\ \A d \in Contexts : d # c => net'[d] = net[d]
          /\ stack' = <<ProcessFrame(c, NullCb)>> /\ UNCHANGED aborted
        BY <1>1, <1>4, ReadDoes
    <2>2. UNCHANGED <<nodes, notes, servers>>
        BY <1>4 DEF route, client
    <2>3. ASSUME AskFree(ac[c].ibuf), AskFree(net[c].out) PROVE AskFree(ac'[c].ibuf) /\ AskFree(net'[c].out)
        <3>1. IsContext(ac[c]) /\ IsContext(ac'[c]) /\ net[c] \in Connections /\ net'[c] \in Connections
            BY <1>1, <2>1 DEF TypeOK, ContextsOK
        <3>2. /\ Len(ac[c].ibuf) \in Nat /\ Len(net[c].out) \in Nat /\ Len(ac[c].obuf) \in Nat
              /\ Len(ac'[c].ibuf) \in Nat /\ Len(net'[c].out) \in Nat
            BY <3>1, SizeTyped
        <3>3. PICK i, o, b : i = ac[c].ibuf /\ o = net[c].out /\ b = ac[c].obuf
            OBVIOUS
        <3>4. PICK j, q : j = ac'[c].ibuf /\ q = net'[c].out
            OBVIOUS
        <3>5. /\ Len(j) + Len(q) + Len(b) = Len(i) + Len(o) + Len(b)
              /\ \A k \in 1 .. Len(i) + Len(o) + Len(b) : Thing(j, q, b, k) = Thing(i, o, b, k)
            BY <2>1, <3>3, <3>4 DEF SameThings, Size, At
        <3>6. AskFree(j) /\ AskFree(q)
            <4>1. /\ Len(i) \in Nat /\ Len(o) \in Nat /\ Len(b) \in Nat /\ Len(j) \in Nat /\ Len(q) \in Nat
                  /\ AskFree(i) /\ AskFree(o)
                BY <2>3, <3>2, <3>3, <3>4
            <4> QED
                BY <3>5, <4>1, ThingsAskFree
        <3> QED
            BY <3>4, <3>6
    <2> QED
        BY <2>1, <2>2, <2>3, EventSafe
<1>5. CASE Break(c) /\ UNCHANGED <<servers, route, client>>
    <2>1. /\ aborted = "no" /\ stack = <<>> /\ UNCHANGED <<ac, stack, aborted, notes, nodes, servers>>
          /\ net' = [net EXCEPT ![c].up = FALSE] /\ net \in [Contexts -> Connections]
        BY <1>1, <1>5 DEF Break, Serving, EventLoop, route, client, TypeOK
    <2>2. \A d \in Contexts : net'[d].out = net[d].out
        BY <2>1 DEF Connections
    <2>3. ASSUME Usual(ac, net, stack, nodes, notes) PROVE Usual(ac', net', stack', nodes', notes')
        BY <2>1, <2>2, <2>3 DEF Usual, Hushed
    <2> QED
        BY <2>1, <2>3, SafeStep
<1> QED
    BY <1>2, <1>3, <1>4, <1>5 DEF Event

\* Unlink.
LEMMA UnlinkSafe ==
    ASSUME Inv, OrderOK, SafeOK, Unlink
    PROVE  SafeOK'
<1> DEFINE c == Top.c
<1>1. /\ AtTop("free") /\ FreeEnd /\ stack' = Below /\ ac' = [ac EXCEPT ![c] = Ended]
      /\ net' = [net EXCEPT ![c] = [NoNet EXCEPT !.up = FALSE]]
      /\ nodes' = IF data[c] \in DOMAIN nodes THEN [nodes EXCEPT ![data[c]].acon = None] ELSE nodes
      /\ UNCHANGED <<notes, servers, aborted>>
    BY DEF Unlink, FreeEnd, client, Ended
<1>2. aborted = "no" /\ stack # <<>> /\ Works(Top) /\ Top.at # "release"
    BY <1>1 DEF AtTop, Works
<1>3. /\ Ordered(ac, stack, nodes, data, notes) /\ StackOK(stack, Len(cads)) /\ Len(cads) \in Nat
      /\ ContextsOK(ac) /\ Keyed(nodes) /\ net \in [Contexts -> Connections]
    BY <1>2, Running DEF OrderOK, RouteOK
<1>4. c \in Contexts /\ Popped(stack, Below)
    BY <1>2, <1>3, TopFrame, TopPopped
<1>5. ac'[c].ev = {} /\ ac'[c].ibuf = <<>> /\ OthersSame(ac, ac', c)
    <2>1. ac'[c] = Ended /\ OthersSame(ac, ac', c)
        BY <1>1, <1>3, <1>4 DEF ContextsOK, OthersSame
    <2> QED
        BY <2>1, FreedContext DEF Ended
<1>6. net'[c].out = <<>> /\ \A d \in Contexts : d # c => net'[d] = net[d]
    BY <1>1, <1>3, <1>4 DEF NoNet
<1>7. /\ DOMAIN nodes' = DOMAIN nodes
      /\ \A k \in DOMAIN nodes : nodes'[k].acon = IF k = data[c] THEN None ELSE nodes[k].acon
    BY <1>1, <1>3, UnlinkedNodes
<1> HIDE DEF c
<1>8. ASSUME Usual(ac, net, stack, nodes, notes) PROVE Usual(ac', net', stack', nodes', notes')
    <2>1. ASSUME NEW d \in Contexts, d # c, Owned(d, nodes) PROVE Owned(d, nodes')
        <3>1. PICK k \in DOMAIN nodes : nodes[k].acon = d
            BY <2>1 DEF Owned
        <3>2. d # None
            BY ClusterAssumption DEF None
        <3>3. LinkOK(ac[d], data[d], k, stack)
            BY <1>3, <3>1, <3>2 DEF Ordered, LinksOK
        <3>4. PICK e \in Contexts : e = c
            BY <1>4
        <3>5. k = data[e] => FALSE
            <4> SUFFICES ASSUME k = data[e] PROVE FALSE
                OBVIOUS
            <4>1. Owned(e, nodes)
                BY <1>2, <1>8, <3>4, UsualWork DEF c
            <4>2. PICK j \in DOMAIN nodes : nodes[j].acon = e
                BY <4>1 DEF Owned
            <4>3. e # None
                BY ClusterAssumption DEF None
            <4>4. LinkOK(ac[e], data[e], j, stack)
                BY <1>3, <4>2, <4>3 DEF Ordered, LinksOK
            <4>5. j = k
                BY <4>4 DEF LinkOK
            <4> QED
                BY <2>1, <3>1, <3>4, <4>2, <4>5
        <3>6. nodes'[k].acon = d
            BY <1>7, <3>1, <3>4, <3>5
        <3> QED
            BY <1>7, <3>1, <3>6 DEF Owned
    <2>2. Wanted(ac', nodes')
        BY <1>5, <1>8, <2>1 DEF Usual, Wanted, OthersSame
    <2>3. AskFree(<<>>)
        BY DEF AskFree
    <2>4. Hushed(ac', net')
        BY <1>5, <1>6, <1>8, <2>3 DEF Usual, Hushed, OthersSame
    <2>5. Len(stack) = 1
        BY <1>2, <1>8, UsualWork
    <2>6. Len(stack') = 0
        BY <1>1, <1>4, <2>5 DEF Popped
    <2>7. Simple(stack', nodes') /\ Silent(stack')
        BY <2>6 DEF Simple, Silent
    <2> QED
        BY <1>1, <1>7, <1>8, <2>2, <2>4, <2>7 DEF Usual, Fixed
<1> QED
    BY <1>1, <1>2, <1>8, SafeStep

\* Released.
LEMMA ReleasedSafe ==
    ASSUME Inv, OrderOK, SafeOK, Released
    PROVE  SafeOK'
<1>1. /\ aborted = "no" /\ stack # <<>> /\ Top.at = "release" /\ notes' = notes \cup {"freed"}
      /\ UNCHANGED <<servers, aborted>>
    BY DEF Released, AtTop
<1>2. StackOK(stack, Len(cads)) /\ Len(cads) \in Nat
    BY <1>1, Running
<1>3. Len(stack) \in Nat \ {0} /\ Top = stack[Len(stack)]
    BY <1>1, <1>2, TopFrame
<1>4. ~Usual(ac, net, stack, nodes, notes)
    BY <1>1, <1>3 DEF Usual, Simple, Works, Pending
<1> QED
    BY <1>1, <1>4, SafeStep

\* redisClusterAsyncFree, redisClusterAsyncDisconnect: the user has ended
\* contexts.
LEMMA EndedSafe ==
    ASSUME SafeOK, redisClusterAsyncFree \/ redisClusterAsyncDisconnect
    PROVE  SafeOK'
<1>1. /\ aborted = "no" /\ Noted(notes') /\ UNCHANGED <<servers, aborted>>
      /\ \A x \in Excuses : x \in notes => x \in notes'
    BY DEF redisClusterAsyncFree, redisClusterAsyncDisconnect, EventLoop, UserMayAct, Noted, Excuses
<1> QED
    BY <1>1, SafeStep

\* CommandRefused, Down and Up.
LEMMA NotesSafe ==
    ASSUME SafeOK, CommandRefused \/ Down \/ Up
    PROVE  SafeOK'
<1>1. /\ aborted = "no" /\ UNCHANGED <<ac, net, stack, nodes, servers, aborted>>
      /\ \A x \in Excuses : x \in notes => x \in notes'
      /\ "freed" \in notes' => "freed" \in notes
    BY DEF CommandRefused, Down, Up, Serves, EventLoop, UserMayAct, Excuses, avars, route
<1>2. ASSUME Usual(ac, net, stack, nodes, notes) PROVE Usual(ac', net', stack', nodes', notes')
    BY <1>1, <1>2 DEF Usual
<1> QED
    BY <1>1, <1>2, SafeStep

\* Memory that has been freed is used, and that is excused.
LEMMA LostSafe ==
    ASSUME SafeOK, UNCHANGED servers, aborted' # "no", Excused \/ Noted(notes'), notes \subseteq notes'
    PROVE  SafeOK'
<1>1. UNCHANGED <<importing, moves, useSlots>>
    BY DEF servers
<1>2. Excused'
    BY <1>1 DEF Excused, Noted
<1> QED
    BY <1>1, <1>2 DEF SafeOK

\* CommandInUpdate, CallbackLost and UnlinkLost.
LEMMA LossesSafe ==
    ASSUME Inv, OrderOK, SafeOK, CommandInUpdate \/ CallbackLost \/ UnlinkLost
    PROVE  SafeOK'
<1>1. CASE CommandInUpdate
    <2>1. /\ aborted = "no" /\ stack # <<>> /\ Top.at = "user" /\ \E i \in DOMAIN stack : stack[i].at = "route"
          /\ aborted' # "no" /\ UNCHANGED <<notes, servers>>
        <3>1. PICK i \in DOMAIN stack : stack[i].at = "route"
            BY <1>1 DEF CommandInUpdate
        <3>2. stack # <<>>
            BY <3>1
        <3> QED
            BY <1>1, <3>1, <3>2 DEF CommandInUpdate, UserMayAct, Abort, client
    <2>2. ASSUME ~Excused PROVE FALSE
        <3>1. AtTop("user")
            BY <2>1 DEF AtTop
        <3>2. Usual(ac, net, stack, nodes, notes)
            BY <2>1, <2>2 DEF SafeOK
        <3>3. Len(stack) = 2 /\ Top = stack[2] /\ Works(stack[1])
            BY <3>1, <3>2, UsualCall
        <3>4. StackOK(stack, Len(cads))
            BY <3>1, InOrder
        <3>5. DOMAIN stack = {1, 2}
            BY <3>3, <3>4 DEF StackOK
        <3> QED
            BY <2>1, <3>3, <3>5 DEF Works
    <2> QED
        BY <2>1, <2>2, LostSafe
<1>2. CASE CallbackLost
    <2>1. AtTop("callback") /\ aborted' # "no" /\ UNCHANGED <<notes, servers>>
        BY <1>2 DEF CallbackLost, Abort, client
    <2>2. ASSUME ~Excused PROVE FALSE
        <3>1. Usual(ac, net, stack, nodes, notes)
            BY <2>1, <2>2 DEF SafeOK, AtTop
        <3>2. /\ Len(stack) = 2 /\ Top = stack[2] /\ Works(stack[1]) /\ Owned(Top.c, nodes)
            BY <2>1, <3>1, UsualCall
        <3>3. ~Freeing
            <4>1. aborted = "no" /\ StackOK(stack, Len(cads))
                BY <2>1, InOrder
            <4>2. DOMAIN stack = {1, 2}
                BY <3>2, <4>1 DEF StackOK
            <4> QED
                BY <2>1, <3>2, <4>2 DEF Freeing, Works, AtTop
        <3>4. Top.c \in Contexts /\ aborted = "no"
            BY <2>1, InOrder
        <3>5. data[Top.c] # "freed"
            BY <3>1, <3>2, <3>4, OwnedData
        <3>6. "freed" \notin notes
            BY <3>1 DEF Usual
        <3> QED
            BY <1>2, <3>3, <3>5, <3>6 DEF CallbackLost
    <2> QED
        BY <2>1, <2>2, LostSafe
<1>3. CASE UnlinkLost
    <2>1. AtTop("free") /\ data[Top.c] = "freed" /\ aborted' # "no" /\ UNCHANGED <<notes, servers>>
        BY <1>3 DEF UnlinkLost, Abort, client
    <2>2. aborted = "no" /\ stack # <<>> /\ Works(Top) /\ Top.at # "release"
        BY <2>1 DEF AtTop, Works
    <2>3. ASSUME ~Excused PROVE FALSE
        <3>1. Usual(ac, net, stack, nodes, notes)
            BY <2>2, <2>3 DEF SafeOK
        <3>2. Owned(Top.c, nodes)
            BY <2>2, <3>1, UsualWork
        <3>3. StackOK(stack, Len(cads)) /\ Len(cads) \in Nat
            BY <2>2, Running
        <3>4. Top.c \in Contexts
            BY <2>2, <3>3, TopFrame
        <3> QED
            BY <2>1, <2>2, <3>1, <3>2, <3>4, OwnedData
    <2> QED
        BY <2>1, <2>3, LostSafe
<1> QED
    BY <1>1, <1>2, <1>3

\* Import: a slot moves.
LEMMA ImportSafe ==
    ASSUME SafeOK, NEW slot \in Slots, Import(slot)
    PROVE  SafeOK'
<1>1. /\ aborted = "no" /\ moves' = moves + 1
      /\ UNCHANGED <<owner, before, useSlots, ac, net, stack, nodes, notes, aborted>>
    BY DEF Import, Serves, EventLoop, avars, route, client
<1>2. moves' \in Nat /\ moves' > 0
    BY <1>1 DEF SafeOK
<1>3. Excused => Excused'
    BY <1>1, <1>2 DEF Excused, Noted
<1>4. Usual(ac, net, stack, nodes, notes)' <=> Usual(ac, net, stack, nodes, notes)
    BY <1>1 DEF Usual, Fixed, Wanted, Hushed, Simple, Silent, Owned, Listed, AskFree, Works, Pending
<1> QED
    BY <1>1, <1>2, <1>3, <1>4 DEF SafeOK

\* Take: a slot has moved.  If nodes are those of the slots, that is excused.
LEMMA TakeSafe ==
    ASSUME Inv, SafeOK, NEW slot \in Slots, Take(slot)
    PROVE  SafeOK'
<1>1. /\ aborted = "no" /\ importing[slot] # None /\ importing' = [importing EXCEPT ![slot] = None]
      /\ UNCHANGED <<moves, useSlots, ac, net, stack, nodes, notes, aborted>>
    BY DEF Take, Serves, EventLoop, avars, route, client
<1>2. importing \in [Slots -> Servers \cup {None}]
    BY DEF Inv, TypeOK, ServersOK
<1>3. \A s \in Slots : importing'[s] # None => importing[s] # None
    BY <1>1, <1>2
<1>4. Excused' <=> Excused
    BY <1>1 DEF Excused, Noted
<1>5. CASE useSlots
    <2>1. Excused
        BY <1>1, <1>5 DEF SafeOK, Excused
    <2> QED
        BY <1>1, <1>3, <1>4, <2>1 DEF SafeOK
<1>6. CASE ~useSlots
    <2>1. Usual(ac, net, stack, nodes, notes)' <=> Usual(ac, net, stack, nodes, notes)
        BY <1>1, <1>6 DEF Usual, Fixed, Wanted, Hushed, Simple, Silent, Owned, Listed, AskFree, Works, Pending
    <2> QED
        BY <1>1, <1>3, <1>4, <2>1 DEF SafeOK
<1> QED
    BY <1>5, <1>6

\* redisClusterAsyncFormattedCommand, as usual: what is linked and sent.
LEMMA CommandUsual ==
    ASSUME NEW acs, ContextsOK(acs), Fixed(nodes'), Wanted(acs, nodes'), Hushed(acs, net'),
           \A c \in Contexts : Owned(c, nodes) /\ ~ac[c].err => Owned(c, nodes'),
           stack # <<>> => Len(stack) = 2 /\ Top = stack[2] /\ Works(stack[1]) /\ stack[1].c = Top.c,
           stack # <<>> => Top.at = "user" /\ Top.c \in Contexts /\ ~ac[Top.c].err,
           Usual(ac, net, stack, nodes, notes), stack' = stack, "freed" \notin notes',
           NEW n \in Nat, NEW slot \in Slots,
           ac' = acs \/ \E c \in Contexts : Owned(c, nodes') /\ SentAs(acs, ac', c, Get(n + 1, slot), Callback(n + 1))
    PROVE  Usual(ac', net', stack', nodes', notes')
<1>1. \A d \in Contexts : /\ ac'[d].ibuf = acs[d].ibuf
                          /\ ac'[d].ev = acs[d].ev \/ Owned(d, nodes')
    <2>1. CASE ac' = acs
        BY <2>1
    <2>2. CASE \E c \in Contexts : Owned(c, nodes') /\ SentAs(acs, ac', c, Get(n + 1, slot), Callback(n + 1))
        <3>1. PICK c \in Contexts : Owned(c, nodes') /\ SentAs(acs, ac', c, Get(n + 1, slot), Callback(n + 1))
            BY <2>2
        <3>2. PICK id, cb : id = n + 1 /\ cb = Callback(id)
            OBVIOUS
        <3>3. id \in Nat \ {0}
            BY <3>2
        <3>4. Get(id, slot) \in Commands /\ cb \in Callbacks
            BY <3>2, <3>3, CommandCallback DEF Get, Commands
        <3>5. SentAs(acs, ac', c, Get(id, slot), cb)
            BY <3>1, <3>2
        <3>6. OthersSame(acs, ac', c) /\ ac'[c].ibuf = acs[c].ibuf
            BY <3>4, <3>5, SentTo
        <3> QED
            BY <3>1, <3>6 DEF OthersSame
    <2> QED
        BY <2>1, <2>2
<1>2. Wanted(ac', nodes') /\ Hushed(ac', net')
    BY <1>1 DEF Wanted, Hushed
<1>3. CASE stack = <<>>
    BY <1>3, IdleUsual, <1>2 DEF Usual
<1>4. CASE stack # <<>>
    <2>1. /\ Len(stack) = 2 /\ Works(stack[1]) /\ Owned(stack[1].c, nodes) /\ stack[1].c \in Contexts
          /\ stack[2].at = "user"
        BY <1>4 DEF Usual, Simple
    <2>2. Owned(stack[1].c, nodes')
        BY <1>4, <2>1
    <2>3. Simple(stack', nodes') /\ Silent(stack')
        BY <2>1, <2>2 DEF Usual, Simple, Silent, Pending
    <2> QED
        BY <1>2, <2>3 DEF Usual
<1> QED
    BY <1>3, <1>4

\* redisClusterAsyncFormattedCommand.  What the user does in the callback of a
\* context that has failed is excused: the context of the node may then be
\* replaced while the library works on it.
LEMMA CommandSafe ==
    ASSUME Inv, OrderOK, SafeOK, NEW slot \in Slots, AsyncCommand(slot)
    PROVE  SafeOK'
<1> DEFINE key == table[slot]
           n == Len(cads)
           noted == IF stack # <<>> /\ ac[Top.c].err THEN notes \cup {"in error"} ELSE notes
<1>1. /\ aborted = "no" /\ "freed" \notin notes /\ (stack # <<>> => Top.at = "user") /\ ~Freeing
      /\ UNCHANGED <<stack, aborted, servers>>
    BY DEF AsyncCommand, UserMayAct
<1>2. PICK got \in actx_get_by_node(nodes[key]) :
              /\ Link(got, key, key, nodes, data)
              /\ \/ got.err /\ ac' = WithContext(got) /\ notes' = noted \cup {"refused"}
                 \/ ~got.err /\ ac' = Sent(WithContext(got), got.c, Get(n + 1, slot), Callback(n + 1)) /\ notes' = noted
    <2>1. PICK got \in actx_get_by_node(nodes[key]) :
              /\ Link(got, key, key, nodes, data)
              /\ IF got.err
                 THEN /\ ac' = WithContext(got)
                      /\ notes' = noted \cup {"refused"}
                 ELSE /\ ac' = Sent(WithContext(got), got.c, Get(n + 1, slot), Callback(n + 1))
                      /\ notes' = noted
        BY DEF AsyncCommand
    <2> QED
        BY <2>1
<1>3. /\ Ordered(ac, stack, nodes, data, notes) /\ ShapeOK(stack)
      /\ ContextsOK(ac) /\ net \in [Contexts -> Connections] /\ StackOK(stack, n) /\ RouteOK /\ n \in Nat
    BY <1>1, Running DEF OrderOK, Ordered
<1>4. key \in DOMAIN nodes /\ key \in Servers /\ Keyed(nodes) /\ OnContexts(data)
    BY <1>1, <1>3 DEF RouteOK, Routes
<1>5. notes \subseteq noted /\ noted \subseteq notes' /\ ("freed" \in notes' => "freed" \in notes)
    BY <1>2
<1>6. "in error" \notin notes' /\ stack # <<>> => ~ac[Top.c].err
    BY <1>5
<1> HIDE DEF key, n, noted
<1>7. ASSUME Usual(ac, net, stack, nodes, notes), "in error" \notin notes'
      PROVE  Usual(ac', net', stack', nodes', notes')
    <2>1. /\ stack # <<>> => Len(stack) = 2 /\ Top = stack[2] /\ Works(stack[1]) /\ stack[1].c = Top.c
          /\ stack # <<>> => Top.at = "user" /\ Top.c \in Contexts /\ ~ac[Top.c].err
        <3> SUFFICES ASSUME stack # <<>>
                     PROVE  /\ Len(stack) = 2 /\ Top = stack[2] /\ Works(stack[1]) /\ stack[1].c = Top.c
                            /\ Top.at = "user" /\ Top.c \in Contexts /\ ~ac[Top.c].err
            OBVIOUS
        <3>1. AtTop("user")
            BY <1>1 DEF AtTop
        <3>2. /\ Len(stack) = 2 /\ Top = stack[2] /\ Works(stack[1]) /\ stack[1].c = Top.c
            BY <1>7, <3>1, UsualCall
        <3>3. Top.c \in Contexts
            BY <3>1, InOrder
        <3> QED
            BY <1>1, <1>6, <1>7, <3>2, <3>3
    <2>2. \A d \in Contexts : ac[d].err => ac[d].ev = {}
        <3> SUFFICES ASSUME NEW d \in Contexts, ac[d].err, ac[d].ev # {} PROVE FALSE
            OBVIOUS
        <3>1. PICK p \in 1 .. Len(stack) : Works(stack[p]) /\ stack[p].c = d
            BY <1>3 DEF Ordered, FlagsOK, Busy
        <3>2. stack # <<>>
            <4>1. stack = <<>> => Len(stack) = 0
                OBVIOUS
            <4>2. 1 .. 0 = {}
                OBVIOUS
            <4> QED
                BY <3>1, <4>1, <4>2
        <3>3. p \in 1 .. 2
            BY <2>1, <3>1, <3>2
        <3>4. p = 1
            BY <2>1, <3>1, <3>2, <3>3 DEF Works
        <3> QED
            BY <2>1, <3>1, <3>2, <3>4
    <2>3. PICK node : node = nodes[key]
        OBVIOUS
    <2>4. PICK acs : acs = WithContext(got)
        OBVIOUS
    <2>5. PICK ns, ds : ns = nodes /\ ds = data
        OBVIOUS
    <2>6. /\ Keyed(ns) /\ OnContexts(ds) /\ Fixed(ns) /\ Wanted(ac, ns) /\ Hushed(ac, net)
          /\ key \in DOMAIN ns /\ ns[key].acon = node.acon /\ got \in actx_get_by_node(node)
          /\ Link(got, key, key, ns, ds)
        BY <1>2, <1>4, <1>7, <2>3, <2>5 DEF Usual
    <2>7. /\ Fixed(nodes') /\ Wanted(acs, nodes') /\ Hushed(acs, net')
          /\ \A c \in Contexts : Owned(c, ns) /\ ~ac[c].err => Owned(c, nodes')
          /\ ~got.err => got.c \in Contexts /\ Owned(got.c, nodes')
        BY <1>3, <1>4, <2>2, <2>4, <2>6, GotReady
    <2>8. ContextsOK(acs)
        <3>1. node.acon \in Contexts \cup {None}
            BY <1>4, <2>3 DEF Keyed, Pairs
        <3> QED
            BY <1>3, <2>4, <2>6, <3>1, GotContext
    <2>9. \/ ac' = acs
          \/ \E c \in Contexts : Owned(c, nodes') /\ SentAs(acs, ac', c, Get(n + 1, slot), Callback(n + 1))
        <3>1. CASE got.err
            BY <1>2, <2>4, <3>1
        <3>2. CASE ~got.err
            BY <1>2, <2>4, <2>7, <3>2 DEF SentAs
        <3> QED
            BY <3>1, <3>2
    <2>10. stack' = stack /\ "freed" \notin notes'
        BY <1>1, <1>5
    <2>11. \A c \in Contexts : Owned(c, nodes) /\ ~ac[c].err => Owned(c, nodes')
        BY <2>5, <2>7
    <2> QED
        BY <1>3, <1>7, <2>1, <2>7, <2>8, <2>9, <2>10, <2>11, CommandUsual
<1>8. /\ aborted' # "memory" /\ \A x \in Excuses : x \in notes => x \in notes'
      /\ ~Noted(notes') => "in error" \notin notes'
    BY <1>1, <1>5 DEF Noted, Excuses
<1> QED
    BY <1>1, <1>7, <1>8, SafeStep

\* At the beginning no node has a context.
LEMMA InitSafe == Init => SafeOK
<1> SUFFICES ASSUME Init PROVE SafeOK
    OBVIOUS
<1>1. /\ aborted = "no" /\ Len(stack) = 0 /\ moves = 0 /\ notes = {} /\ owner = FirstOwner /\ before = FirstOwner
      /\ importing = [s \in Slots |-> None] /\ nodes = [s \in Listed(FirstOwner) |-> Node(s)]
      /\ ac = [c \in Contexts |-> Unused] /\ net = [c \in Contexts |-> NoNet]
    BY DEF Init, redisClusterAsyncInitialize, redisClusterConnectNonBlock, AsyncInit
<1>2. Unused.ev = {} /\ Unused.ibuf = <<>>
    BY DEF Unused
<1>3. NoNet.out = <<>>
    BY DEF NoNet
<1>4. AskFree(<<>>)
    BY DEF AskFree
<1>5. Wanted(ac, nodes) /\ Hushed(ac, net)
    BY <1>1, <1>2, <1>3, <1>4 DEF Wanted, Hushed
<1>6. Fixed(nodes)
    BY <1>1 DEF Fixed
<1>7. Simple(stack, nodes) /\ Silent(stack)
    BY <1>1 DEF Simple, Silent
<1> QED
    BY <1>1, <1>5, <1>6, <1>7 DEF SafeOK, Usual

\* Every step keeps what is usual.
LEMMA StepSafe == Inv /\ OrderOK /\ SafeOK /\ [Next]_vars => SafeOK'
<1> SUFFICES ASSUME Inv, OrderOK, SafeOK, [Next]_vars
             PROVE  SafeOK'
    OBVIOUS
<1>1. CASE Library /\ UNCHANGED <<servers, route, client, executed>>
    BY <1>1, FreeCallbackSafe, ProcessNoneSafe, ProcessReplySafe DEF Library
<1>2. CASE UserReturns \/ Answered \/ NullCounted \/ NullTimed \/ TooMany \/ Moved \/ Install \/ Ask \/ Again
    BY <1>2, UserReturnsSafe, DoneSafe, UpdateSafe, InstallSafe, AskSafe, AgainSafe
<1>3. CASE CallbackLost \/ UnlinkLost \/ CommandInUpdate
    BY <1>3, LossesSafe
<1>4. CASE Unlink \/ Released
    BY <1>4, UnlinkSafe, ReleasedSafe
<1>5. CASE (\E slot \in Slots : AsyncCommand(slot)) \/ redisClusterAsyncDisconnect \/ redisClusterAsyncFree
    BY <1>5, CommandSafe, EndedSafe
<1>6. CASE CommandRefused \/ Down \/ Up
    BY <1>6, NotesSafe
<1>7. CASE \E slot \in Slots : Import(slot) \/ Take(slot)
    BY <1>7, ImportSafe, TakeSafe
<1>8. CASE \E c \in Contexts : Write(c) \/ (Event(c) /\ UNCHANGED <<servers, route, client, executed>>)
    BY <1>8, EventsSafe
<1>9. CASE Over \/ UNCHANGED vars
    <2>1. UNCHANGED <<ac, net, stack, aborted, nodes, servers, notes>>
        BY <1>9 DEF Over, vars, avars, route, client
    <2>2. UNCHANGED <<owner, before, importing, moves, useSlots>>
        BY <2>1 DEF servers
    <2>3. Usual(ac, net, stack, nodes, notes)' <=> Usual(ac, net, stack, nodes, notes)
        BY <2>1, <2>2 DEF Usual, Fixed, Wanted, Hushed, Simple, Silent, Owned, Listed, AskFree, Works, Pending
    <2>4. Excused' <=> Excused
        BY <2>1, <2>2 DEF Excused, Noted
    <2> QED
        BY <2>1, <2>2, <2>3, <2>4 DEF SafeOK
<1> QED
    BY <1>1, <1>2, <1>3, <1>4, <1>5, <1>6, <1>7, <1>8, <1>9 DEF Next, thread, user

\* What MemorySafe says follows.
LEMMA SafeMemory == OrderOK /\ SafeOK => MemorySafe
<1> SUFFICES ASSUME OrderOK, SafeOK PROVE MemorySafe
    OBVIOUS
<1>1. ASSUME aborted = "no", NEW k \in DOMAIN nodes, nodes[k].acon # None PROVE ac[nodes[k].acon].life = "alive"
    BY <1>1 DEF OrderOK, Ordered, LinksOK, LinkOK
<1>2. aborted = "memory" => Noted(notes) \/ (useSlots /\ moves > 0)
    BY DEF SafeOK, Excused
<1> QED
    BY <1>1, <1>2 DEF MemorySafe, Noted, Excuses

\* A node never points to a context that has been freed; and memory that has been
\* freed is used only if the user has ended contexts, or has called the library
\* from the callback of a command that failed, or if nodes are those of the
\* slots and a slot has moved
\* (redisClusterAsyncCallback, unlinkAsyncContextAndNode, cluster_update_route).
THEOREM MemoryUsedRightly == Spec => []MemorySafe
<1>1. Inv /\ OrderOK /\ SafeOK /\ [Next]_vars => (Inv /\ OrderOK /\ SafeOK)'
    BY StepInv, StepOrder, StepSafe
<1>2. Init => Inv /\ OrderOK /\ SafeOK
    BY InitInv, InitOrder, InitSafe
<1> QED
    BY <1>1, <1>2, SafeMemory, PTL DEF Spec
=============================================================================
