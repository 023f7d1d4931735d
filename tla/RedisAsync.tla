----------------------------- MODULE RedisAsync -----------------------------
(***************************************************************************)
(* The asynchronous contexts of hiredis-vip (async.c).  One thread runs an *)
(* event loop: it calls redisAsyncHandleRead and redisAsyncHandleWrite     *)
(* when a socket is ready, these call callbacks, and callbacks call the    *)
(* library again, on the context that they are called for or on another.   *)
(* The calls that have not returned are the frames on the stack:           *)
(*    process   redisProcessCallbacks, with its variable cb                *)
(*    free      __redisAsyncFree, with the callbacks it has still to call  *)
(*    callback  a function of the user                                     *)
(*                                                                         *)
(* A command is known by its number, and so is its callback.  onConnect    *)
(* and onDisconnect are functions that do nothing to a context.            *)
(***************************************************************************)
EXTENDS Dict

CONSTANTS Contexts,
          Channels, Patterns,    \* names to subscribe to
          MaxSpent               \* bound: published messages, reads that end within a
                                 \* reply, broken connections, refusals, garbage

VARIABLES ac,          \* the contexts
          net,         \* the connections and the servers behind them
          stack,       \* the calls of the thread
          cmds,        \* the commands that were accepted
          calls,       \* what their callbacks have been called with
          onDisc,      \* what onDisconnect has been called with
          asked,       \* contexts that the user has disconnected or freed
          aborted,     \* the assertion that has ended the program
          odd,         \* the user has done what the library does not support
          spent        \* bounds

avars == <<ac, net, stack, cmds, calls, onDisc, asked, aborted, odd, spent>>

NullCb == [fn |-> FALSE, id |-> 0]
Callback(id) == [fn |-> TRUE, id |-> id]
NULL == [kind |-> "NULL"]

Unused == [life |-> "unused", flags |-> {}, err |-> FALSE, replies |-> <<>>, invalid |-> <<>>,
           channels |-> dictCreate, patterns |-> dictCreate, obuf |-> <<>>, ibuf |-> <<>>, ev |-> {}]

\* redisAsyncConnect, and redisAsyncSetConnectCallback, which waits for the
\* first write event
redisAsyncInitialize == [Unused EXCEPT !.life = "alive", !.ev = {"w"}]

\* peer and asking are for the servers of a cluster
NoNet == [out |-> <<>>, up |-> TRUE, subs |-> {}, mon |-> FALSE, peer |-> "", asking |-> FALSE]

AsyncInit ==
    /\ net = [c \in Contexts |-> NoNet]
    /\ stack = <<>>
    /\ cmds = <<>>
    /\ calls = <<>>
    /\ onDisc = [c \in Contexts |-> <<>>]
    /\ asked = {}
    /\ aborted = "no"
    /\ odd = FALSE
    /\ spent = [messages |-> 0, partial |-> 0, faults |-> 0]

Spend(what) ==
    /\ spent.messages + spent.partial + spent.faults < MaxSpent
    /\ spent' = [spent EXCEPT ![what] = @ + 1]

-----------------------------------------------------------------------------
(***************************************************************************)
(* Calls and returns.                                                      *)
(***************************************************************************)
Top == stack[Len(stack)]
Below == SubSeq(stack, 1, Len(stack) - 1)
AtTop(at) == aborted = "no" /\ stack # <<>> /\ Top.at = at

\* the user's code runs: in the event loop, or in a callback
UserRuns == aborted = "no" /\ (stack # <<>> => Top.at = "callback")
EventLoop == aborted = "no" /\ stack = <<>>

ProcessFrame(c, cb) == [at |-> "process", c |-> c, cb |-> cb]
CallbackFrame(c, cb, reply) == [at |-> "callback", c |-> c, cb |-> cb, reply |-> reply]

\* the callbacks of the subscriptions, as the iterators give them
Subscriptions(a) == [i \in DOMAIN Entries(a.channels) |-> Entries(a.channels)[i].val]
                    \o [i \in DOMAIN Entries(a.patterns) |-> Entries(a.patterns)[i].val]
FreeFrame(c, a) == [at |-> "free", c |-> c, subs |-> Subscriptions(a)]

\* __redisRunCallback, on a stack st; a is the context
RunCallback(c, a, cb, reply, st) ==
    IF cb.fn
    THEN /\ ac' = [ac EXCEPT ![c] = [a EXCEPT !.flags = @ \cup {"IN_CALLBACK"}]]
         /\ stack' = Append(st, CallbackFrame(c, cb, reply))
         /\ calls' = [calls EXCEPT ![cb.id] = Append(@, reply)]
    ELSE /\ ac' = [ac EXCEPT ![c] = a]
         /\ stack' = st
         /\ UNCHANGED calls

\* an assertion fails
Abort(why) == aborted' = why /\ stack' = <<>>

\* __redisAsyncDisconnect
Disconnect(c, a, st) ==
    /\ ac' = [ac EXCEPT ![c] = IF a.err THEN [a EXCEPT !.flags = @ \cup {"DISCONNECTING"}] ELSE a]
    /\ IF ~a.err /\ a.replies # <<>> THEN Abort("pending")
       ELSE stack' = Append(st, FreeFrame(c, a)) /\ UNCHANGED aborted

-----------------------------------------------------------------------------
(***************************************************************************)
(* The functions that the user calls.                                      *)
(***************************************************************************)
Names(kind) == IF kind \in {"psubscribe", "punsubscribe"} THEN Patterns ELSE Channels
DictOf(kind) == IF kind \in {"psubscribe", "punsubscribe"} THEN "patterns" ELSE "channels"
Subscribes == {"subscribe", "psubscribe"}
Unsubscribes == {"unsubscribe", "punsubscribe"}

\* whether __redisAsyncCommand takes a command
Accepts(a, kind) ==
    /\ {"DISCONNECTING", "FREEING"} \cap a.flags = {}
    /\ kind \in Unsubscribes => "SUBSCRIBED" \in a.flags

\* __redisPushCallback: at the end of a list
PushCallback(list, cb) == Append(list, cb)

\* __redisShiftCallback: the first callback of a list, and the context without it
ShiftCallback(a, list) == [a |-> [a EXCEPT ![list] = Tail(@)], cb |-> Head(a[list])]

\* mutant: a callback is always expected to get the next regular reply
redisAsyncCommand_InOrder(a, cmd, cb) ==
    LET Registered ==
          CASE cmd.kind \in Subscribes ->
                 [a EXCEPT !.flags = @ \cup {"SUBSCRIBED"},
                           ![DictOf(cmd.kind)] =
                              FoldLeft(LAMBDA d, name : dictReplace(d, name, cb), @, cmd.names)]
            [] cmd.kind \in Unsubscribes -> a
            [] OTHER -> [a EXCEPT !.replies = PushCallback(@, cb)]
    IN  [Registered EXCEPT !.obuf = Append(@, cmd), !.ev = @ \cup {"w"}]

\* __redisAsyncCommand: the context with the command in its buffer and the
\* callback where its replies will find it
redisAsyncCommand(a, cmd, cb) ==
    LET Registered ==
          CASE cmd.kind \in Subscribes ->
                 [a EXCEPT !.flags = @ \cup {"SUBSCRIBED"},
                           ![DictOf(cmd.kind)] =
                              FoldLeft(LAMBDA d, name : dictReplace(d, name, cb), @, cmd.names)]
            [] cmd.kind \in Unsubscribes -> a
            [] cmd.kind = "monitor" -> [a EXCEPT !.flags = @ \cup {"MONITORING"}, !.replies = PushCallback(@, cb)]
            [] OTHER -> IF "SUBSCRIBED" \in a.flags THEN [a EXCEPT !.invalid = PushCallback(@, cb)]
                        ELSE [a EXCEPT !.replies = PushCallback(@, cb)]
    IN  [Registered EXCEPT !.obuf = Append(@, cmd), !.ev = @ \cup {"w"}]

\* an UNSUBSCRIBE or its replies are on their way
Unsubscribing(c) ==
    \/ \E cmd \in Range(ac[c].obuf) : cmd.kind \in Unsubscribes
    \/ \E r \in Range(net[c].out) \cup Range(ac[c].ibuf) : r.kind \in Unsubscribes

\* what the library does not support: MONITOR, anything but UNSUBSCRIBE while
\* an UNSUBSCRIBE is under way, and UNSUBSCRIBE from what one is not
\* subscribed to
Unsupported(c, cmd) ==
    \/ cmd.kind = "monitor" \/ "MONITORING" \in ac[c].flags
    \/ cmd.kind \notin Unsubscribes /\ Unsubscribing(c)
    \/ cmd.kind \in Unsubscribes /\ \E name \in Range(cmd.names) : dictFind(ac[c][DictOf(cmd.kind)], name) = <<>>
    \/ cmd.kind \in Unsubscribes /\ cmd.names = <<>>
    \/ cmd.kind \in Unsubscribes /\ Unsubscribing(c)

Command(c, kind, names) ==
    LET cmd == [id |-> Len(cmds) + 1, kind |-> kind, names |-> names, c |-> c]
    IN  /\ UserRuns
        /\ ac[c].life = "alive"
        /\ Accepts(ac[c], kind)
        /\ ac' = [ac EXCEPT ![c] = redisAsyncCommand(@, cmd, Callback(cmd.id))]
        /\ cmds' = Append(cmds, cmd)
        /\ calls' = Append(calls, <<>>)
        /\ odd' = (odd \/ Unsupported(c, cmd))
        /\ UNCHANGED <<net, stack, onDisc, asked, aborted, spent>>

\* mutant: it is always left to redisProcessCallbacks
redisAsyncDisconnect_Later(c) ==
    /\ UserRuns
    /\ ac[c].life = "alive"
    /\ asked' = asked \cup {c}
    /\ ac' = [ac EXCEPT ![c].flags = @ \cup {"DISCONNECTING"}]
    /\ UNCHANGED <<net, stack, cmds, calls, onDisc, aborted, odd, spent>>

\* it is left to redisProcessCallbacks if this is called from a callback or
\* if there are callbacks to be called
redisAsyncDisconnect(c) ==
    LET a == [ac[c] EXCEPT !.flags = @ \cup {"DISCONNECTING"}]
    IN  /\ UserRuns
        /\ ac[c].life = "alive"
        /\ asked' = asked \cup {c}
        /\ IF "IN_CALLBACK" \notin a.flags /\ a.replies = <<>>
           THEN Disconnect(c, a, stack)
           ELSE ac' = [ac EXCEPT ![c] = a] /\ UNCHANGED <<stack, aborted>>
        /\ UNCHANGED <<net, cmds, calls, onDisc, odd, spent>>

\* mutant: the context is freed in its callback
redisAsyncFree_Now(c) ==
    LET a == [ac[c] EXCEPT !.flags = @ \cup {"FREEING"}]
    IN  /\ UserRuns
        /\ ac[c].life = "alive"
        /\ asked' = asked \cup {c}
        /\ ac' = [ac EXCEPT ![c] = a]
        /\ stack' = Append(stack, FreeFrame(c, a))
        /\ UNCHANGED <<net, cmds, calls, onDisc, aborted, odd, spent>>

redisAsyncFree(c) ==
    LET a == [ac[c] EXCEPT !.flags = @ \cup {"FREEING"}]
    IN  /\ UserRuns
        /\ ac[c].life = "alive"
        /\ asked' = asked \cup {c}
        /\ ac' = [ac EXCEPT ![c] = a]
        /\ stack' = IF "IN_CALLBACK" \in a.flags THEN stack ELSE Append(stack, FreeFrame(c, a))
        /\ UNCHANGED <<net, cmds, calls, onDisc, aborted, odd, spent>>

\* a callback returns to __redisRunCallback, whose frame is the last of st;
\* redisProcessCallbacks then frees the context if it is to be freed.  acs
\* are the contexts
Back(acs, c, st) ==
    LET a == [acs[c] EXCEPT !.flags = @ \ {"IN_CALLBACK"}]
        caller == st[Len(st)]
    IN  /\ ac' = [acs EXCEPT ![c] = a]
        /\ stack' = IF caller.at = "process" /\ "FREEING" \in a.flags
                    THEN Append(SubSeq(st, 1, Len(st) - 1), FreeFrame(c, a))
                    ELSE st

Return ==
    /\ AtTop("callback")
    /\ Back(ac, Top.c, Below)
    /\ UNCHANGED <<net, cmds, calls, onDisc, asked, aborted, odd, spent>>

-----------------------------------------------------------------------------
(***************************************************************************)
(* __redisAsyncFree.                                                       *)
(***************************************************************************)
\* the next callback with a NULL reply
FreeCallback ==
    /\ AtTop("free")
    /\ LET c == Top.c
           a == ac[c]
           Run(got) == RunCallback(c, got.a, got.cb, NULL, stack)
       IN  IF a.replies # <<>> THEN Run(ShiftCallback(a, "replies"))
           ELSE IF a.invalid # <<>> THEN Run(ShiftCallback(a, "invalid"))
           ELSE /\ Top.subs # <<>>
                /\ RunCallback(c, a, Head(Top.subs), NULL, Append(Below, [Top EXCEPT !.subs = Tail(@)]))
    /\ UNCHANGED <<net, cmds, onDisc, asked, aborted, odd, spent>>

\* every callback has been called
NoneLeft == ac[Top.c].replies = <<>> /\ ac[Top.c].invalid = <<>> /\ Top.subs = <<>>

\* there are no callbacks left: cleanup, onDisconnect and dataHandler
FreeEnd ==
    /\ AtTop("free")
    /\ NoneLeft
    /\ LET c == Top.c
           a == ac[c]
           status == IF "FREEING" \in a.flags \/ ~a.err THEN "OK" ELSE "ERR"
       IN  /\ onDisc' = IF "CONNECTED" \in a.flags THEN [onDisc EXCEPT ![c] = Append(@, status)] ELSE onDisc
           /\ ac' = [ac EXCEPT ![c] = [Unused EXCEPT !.life = "freed"]]
           /\ net' = [net EXCEPT ![c] = [NoNet EXCEPT !.up = FALSE]]
    /\ stack' = Below
    /\ UNCHANGED <<cmds, calls, asked, aborted, odd, spent>>

-----------------------------------------------------------------------------
(***************************************************************************)
(* redisProcessCallbacks.                                                  *)
(***************************************************************************)
\* there is no complete reply: the end of the loop, or of the context
ProcessNone ==
    /\ AtTop("process")
    /\ LET c == Top.c
           a == ac[c]
       IN  /\ a.ibuf = <<>>
           /\ IF "DISCONNECTING" \in a.flags /\ a.obuf = <<>> THEN Disconnect(c, a, Below)
              ELSE /\ ac' = [ac EXCEPT ![c] = IF "MONITORING" \in a.flags
                                              THEN [a EXCEPT !.replies = PushCallback(@, Top.cb)] ELSE a]
                   /\ stack' = Below
                   /\ UNCHANGED aborted
    /\ UNCHANGED <<net, cmds, calls, onDisc, asked, odd, spent>>

Arrays == {"subscribe", "psubscribe", "unsubscribe", "punsubscribe", "message", "pmessage"}

\* mutant: the first UNSUBSCRIBE ends the subscribed mode
redisGetSubscribeCallback_First(a, cb, r) ==
    IF r.kind \notin Arrays
    THEN IF a.invalid = <<>> THEN [a |-> a, cb |-> cb]
         ELSE ShiftCallback(a, "invalid")
    ELSE LET dict == IF r.kind \in {"psubscribe", "punsubscribe", "pmessage"} THEN "patterns" ELSE "channels"
             de == dictFind(a[dict], r.name)
         IN  IF de = <<>> THEN [a |-> a, cb |-> cb]
             ELSE [a |-> IF r.kind \notin Unsubscribes THEN a
                         ELSE [a EXCEPT ![dict] = dictDelete(@, r.name),
                                        !.flags = @ \ {"SUBSCRIBED"}],
                   cb |-> de[1].val]

\* __redisGetSubscribeCallback: the context, and the callback for a reply;
\* that is the one of the reply before if there is none
redisGetSubscribeCallback(a, cb, r) ==
    IF r.kind \notin Arrays
    THEN IF a.invalid = <<>> THEN [a |-> a, cb |-> cb]
         ELSE ShiftCallback(a, "invalid")
    ELSE LET dict == IF r.kind \in {"psubscribe", "punsubscribe", "pmessage"} THEN "patterns" ELSE "channels"
             de == dictFind(a[dict], r.name)
         IN  IF de = <<>> THEN [a |-> a, cb |-> cb]
             ELSE [a |-> IF r.kind \notin Unsubscribes THEN a
                         ELSE [a EXCEPT ![dict] = dictDelete(@, r.name),
                                        !.flags = IF r.count = 0 THEN @ \ {"SUBSCRIBED"} ELSE @],
                   cb |-> de[1].val]

\* a reply, and the callback that it is for
ProcessReply ==
    /\ AtTop("process")
    /\ LET c == Top.c
           r == Head(ac[c].ibuf)
           a == [ac[c] EXCEPT !.ibuf = Tail(@)]
           Run(got) == /\ RunCallback(c, got.a, got.cb, r, Append(Below, ProcessFrame(c, got.cb)))
                       /\ UNCHANGED aborted
       IN  /\ ac[c].ibuf # <<>>
           /\ IF r.kind = "bad"
              THEN Disconnect(c, [a EXCEPT !.err = TRUE], Below) /\ UNCHANGED calls
              ELSE IF a.replies # <<>>
              THEN Run(ShiftCallback(a, "replies"))
              ELSE IF r.kind = "error"
              THEN Disconnect(c, [a EXCEPT !.err = TRUE], Below) /\ UNCHANGED calls
              ELSE IF {"SUBSCRIBED", "MONITORING"} \cap a.flags = {}
              THEN Abort("unexpected") /\ UNCHANGED <<ac, calls>>
              ELSE IF "SUBSCRIBED" \notin a.flags
              THEN Run([a |-> a, cb |-> Top.cb])
              ELSE IF r.kind \in Arrays /\ r.name = "nil"
              THEN Abort("nil") /\ UNCHANGED <<ac, calls>>
              ELSE Run(redisGetSubscribeCallback(a, Top.cb, r))
    /\ UNCHANGED <<net, cmds, onDisc, asked, odd, spent>>

-----------------------------------------------------------------------------
(***************************************************************************)
(* The servers.  A command is served when it is written: what comes later  *)
(* is when the client reads the replies.                                   *)
(***************************************************************************)
Reply(kind, id) == [kind |-> kind, id |-> id]
Notice(kind, name, count) == [kind |-> kind, name |-> name, count |-> count]

\* (P)SUBSCRIBE and (P)UNSUBSCRIBE answer for each name, with how many are left
SubscribeReplies(cmd, subs) ==
    [i \in DOMAIN cmd.names |->
       Notice(cmd.kind, cmd.names[i], Cardinality(subs \cup Range(SubSeq(cmd.names, 1, i))))]
UnsubscribeReplies(kind, names, subs) ==
    IF names = <<>> THEN <<Notice(kind, "nil", Cardinality(subs))>>
    ELSE [i \in DOMAIN names |-> Notice(kind, names[i], Cardinality(subs \ Range(SubSeq(names, 1, i))))]

\* what a server makes of a command: n is its end of the connection
Serve(n, cmd) ==
    LET all == IF cmd.names = <<>> THEN SetToSeq(n.subs \cap Names(cmd.kind)) ELSE cmd.names
    IN  CASE cmd.kind \in Subscribes ->
               [n EXCEPT !.out = @ \o SubscribeReplies(cmd, n.subs), !.subs = @ \cup Range(cmd.names)]
          [] cmd.kind \in Unsubscribes ->
               [n EXCEPT !.out = @ \o UnsubscribeReplies(cmd.kind, all, n.subs), !.subs = @ \ Range(all)]
          [] cmd.kind = "monitor" -> [n EXCEPT !.out = Append(@, Reply("reply", cmd.id)), !.mon = TRUE]
          [] OTHER -> [n EXCEPT !.out = Append(@, Reply(IF n.subs = {} THEN "reply" ELSE "error", cmd.id))]

\* the thread looks at the net only between callbacks, so that is when it changes
Serving(c) == EventLoop /\ net[c].up /\ ac[c].life = "alive"
Send(c, rs) == net' = [net EXCEPT ![c].out = @ \o rs]

\* a message that somebody publishes, or that MONITOR shows
Publish(c) ==
    /\ Serving(c)
    /\ Spend("messages")
    /\ \/ \E name \in net[c].subs :
             Send(c, <<Notice(IF name \in Patterns THEN "pmessage" ELSE "message", name, 0)>>)
       \/ net[c].mon /\ Send(c, <<Reply("feed", 0)>>)
    /\ UNCHANGED <<ac, stack, cmds, calls, onDisc, asked, aborted, odd>>

\* the connection breaks
Break(c) ==
    /\ Serving(c)
    /\ Spend("faults")
    /\ net' = [net EXCEPT ![c].up = FALSE]
    /\ UNCHANGED <<ac, stack, cmds, calls, onDisc, asked, aborted, odd>>

\* the server sends garbage, or it has too many clients
Misbehave(c) ==
    /\ Serving(c)
    /\ Spend("faults")
    /\ \/ Send(c, <<[kind |-> "bad"]>>)
       \/ "CONNECTED" \in ac[c].flags /\ net' = [net EXCEPT ![c].up = FALSE, ![c].out = Append(@, Reply("error", 0))]
    /\ UNCHANGED <<ac, stack, cmds, calls, onDisc, asked, aborted, odd>>

-----------------------------------------------------------------------------
(***************************************************************************)
(* Events.  An event that comes while connect is still in progress does    *)
(* nothing; reads are scheduled once the context is connected.             *)
(***************************************************************************)
\* the connection has failed: onConnect is told, and the context is freed
ConnectFails(c) ==
    /\ EventLoop
    /\ "w" \in ac[c].ev
    /\ "CONNECTED" \notin ac[c].flags
    /\ Spend("faults")
    /\ Disconnect(c, [ac[c] EXCEPT !.err = TRUE], stack)
    /\ UNCHANGED <<net, cmds, calls, onDisc, asked, odd>>

\* The first n commands go out (to write none is as if the event came later),
\* or the connection is found broken; served[n] is what the server makes of n
\* commands.
redisAsyncHandleWrite(c, served) ==
    LET a == [ac[c] EXCEPT !.flags = @ \cup {"CONNECTED"}]
    IN  /\ EventLoop
        /\ "w" \in ac[c].ev
        /\ IF net[c].up \/ a.obuf = <<>>
           THEN \E n \in Min({1, Len(a.obuf)}) .. Len(a.obuf) :
                   /\ net' = [net EXCEPT ![c] = served[n]]
                   /\ ac' = [ac EXCEPT ![c] = [a EXCEPT !.obuf = SubSeq(@, n + 1, Len(@)),
                                                        !.ev = IF n = Len(a.obuf) THEN {"r"} ELSE {"r", "w"}]]
                   /\ UNCHANGED <<stack, aborted>>
           ELSE Disconnect(c, [a EXCEPT !.err = TRUE], stack) /\ UNCHANGED net
        /\ UNCHANGED <<cmds, calls, onDisc, asked, odd, spent>>

\* redisAsyncHandleRead: the bytes of some replies, or of a part of one
redisAsyncHandleRead(c) ==
    /\ EventLoop
    /\ "r" \in ac[c].ev
    /\ net[c].out # <<>>
    /\ \E n \in 0 .. Len(net[c].out) :
          /\ IF n = 0 THEN Spend("partial") ELSE UNCHANGED spent
          /\ net' = [net EXCEPT ![c].out = SubSeq(@, n + 1, Len(@))]
          /\ ac' = [ac EXCEPT ![c].ibuf = @ \o SubSeq(net[c].out, 1, n)]
    /\ stack' = <<ProcessFrame(c, NullCb)>>
    /\ UNCHANGED <<cmds, calls, onDisc, asked, aborted, odd>>

\* redisAsyncHandleRead: the connection is found closed or broken
ReadFails(c) ==
    /\ EventLoop
    /\ "r" \in ac[c].ev
    /\ ~net[c].up
    /\ Disconnect(c, [ac[c] EXCEPT !.err = TRUE], stack)
    /\ UNCHANGED <<net, cmds, calls, onDisc, asked, odd, spent>>
=============================================================================
