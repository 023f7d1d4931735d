----------------------------- MODULE AsyncClient -----------------------------
(***************************************************************************)
(* A program that uses asynchronous contexts: it sends commands, also to   *)
(* subscribe, from its event loop and from its callbacks, and disconnects  *)
(* or frees a context at any point.                                        *)
(***************************************************************************)
EXTENDS RedisAsync

CONSTANTS Calls,          \* the commands: {[kind, names]}
          MaxCommands     \* bound: commands

Init ==
    /\ ac = [c \in Contexts |-> redisAsyncInitialize]
    /\ AsyncInit

\* bound: nothing is sent after a command that is not supported
Issue(c) ==
    /\ Len(cmds) < MaxCommands
    /\ ~odd
    /\ \E call \in Calls : Command(c, call.kind, call.names)

End(c) == c \notin asked /\ (redisAsyncDisconnect(c) \/ redisAsyncFree(c))

\* the end of the program; a context that is not used as it should be may
\* wait for a message for ever
Over ==
    /\ aborted # "no" \/ \A c \in Contexts : ac[c].life = "freed" \/ (odd /\ net[c].out = <<>>)
    /\ stack = <<>>
    /\ UNCHANGED avars

\* what the server makes of the first n commands that are to be written
Served(c) == [n \in 0 .. Len(ac[c].obuf) |-> FoldLeft(Serve, net[c], SubSeq(ac[c].obuf, 1, n))]

thread == Return \/ FreeCallback \/ FreeEnd \/ ProcessNone \/ ProcessReply
event(c) == ConnectFails(c) \/ redisAsyncHandleWrite(c, Served(c)) \/ redisAsyncHandleRead(c) \/ ReadFails(c)
server(c) == Publish(c) \/ Break(c) \/ Misbehave(c)

Next ==
    \/ thread \/ Over
    \/ \E c \in Contexts : event(c) \/ server(c) \/ Issue(c) \/ End(c)

Spec == Init /\ [][Next]_avars

\* Callbacks return, and the event loop gives every ready socket its turn.
Fairness ==
    /\ WF_avars(thread)
    /\ \A c \in Contexts : /\ WF_avars(redisAsyncHandleWrite(c, Served(c)))
                           /\ WF_avars(redisAsyncHandleRead(c) \/ ReadFails(c))

FairSpec == Spec /\ Fairness

-----------------------------------------------------------------------------
(***************************************************************************)
(* Properties.  They leave out what the library does not support: see      *)
(* Unsupported.                                                            *)
(***************************************************************************)
Regular(cmd) == cmd.kind = "get"

Fits(cmd, r) ==
    \/ r = NULL
    \/ Regular(cmd) /\ r.kind = "reply" /\ r.id = cmd.id
    \/ Regular(cmd) /\ r.kind = "error" /\ r.id \in {cmd.id, 0}
    \/ cmd.kind \in Subscribes /\ r.kind \in Arrays /\ r.name \in Range(cmd.names)

\* The callback of a command is called with the reply to that command, with
\* the error of a server that has too many clients, or with NULL, and the
\* callback of a SUBSCRIBE only with messages for a name that it has
\* subscribed to: callbacks are found by their order in the lists, or by name
\* in the tables, whatever else is pending.
RepliesFit == ~odd => \A i \in DOMAIN cmds : \A r \in Range(calls[i]) : Fits(cmds[i], r)

\* The callback of a command that is not about subscriptions is called once:
\* never again, and when the context has been freed not never.
CalledOnce ==
    ~odd => \A i \in DOMAIN cmds :
        Regular(cmds[i]) =>
            /\ Len(calls[i]) <= 1
            /\ ac[cmds[i].c].life = "freed" => Len(calls[i]) = 1

\* onDisconnect is called once at most, with REDIS_OK only if the user has
\* ended the context, and with REDIS_ERR only if something has failed.
StatusTrue ==
    \A c \in Contexts :
        /\ Len(onDisc[c]) <= 1
        /\ "OK" \in Range(onDisc[c]) => c \in asked
        /\ "ERR" \in Range(onDisc[c]) => spent.faults > 0 \/ \E i \in DOMAIN cmds : cmds[i].kind \in Subscribes

\* Callbacks are called rightly: each gets what is its own, a regular one is
\* called once, and onDisconnect hears the truth - with commands, messages,
\* errors, disconnects and frees in any order, also from within callbacks.
CallbacksRight == RepliesFit /\ CalledOnce /\ StatusTrue

\* No call that is still to return works on a context that has been freed.
NoUseAfterFree == \A i \in DOMAIN stack : ac[stack[i].c].life = "alive"

\* Of the assertions of async.c, only the one on pending callbacks can fail.
OtherAssertionsHold == ~odd => aborted \in {"no", "pending"}

LastFor(c, kind, name) ==
    {i \in DOMAIN cmds : /\ cmds[i].c = c /\ cmds[i].kind = kind /\ name \in Range(cmds[i].names)
                         /\ \A j \in i + 1 .. Len(cmds) :
                               ~(cmds[j].c = c /\ cmds[j].kind = kind /\ name \in Range(cmds[j].names))}
Confirmed(c, i, kind, name) ==
    \E r \in Range(calls[i]) : r # NULL /\ r.kind = kind /\ r.name = name
Held(c, kind, unkind, name) ==
    {i \in LastFor(c, kind, name) : ~Confirmed(c, i, unkind, name)}
InTable(d, name) == {e.val.id : e \in Range(dictFind(d, name))}

\* The table of a context has exactly the callbacks of the last SUBSCRIBE
\* for each name whose UNSUBSCRIBE has not been confirmed, however often it
\* has grown and shrunk.
TablesTrue ==
    ~odd => \A c \in Contexts :
        ac[c].life = "alive" =>
            /\ \A name \in Channels : InTable(ac[c].channels, name) = Held(c, "subscribe", "unsubscribe", name)
            /\ \A name \in Patterns : InTable(ac[c].patterns, name) = Held(c, "psubscribe", "punsubscribe", name)

\* When the user has disconnected or freed a context, it is freed in the end,
\* unless the assertion on pending callbacks fails.
AskedThenFreed ==
    \A c \in Contexts : (c \in asked /\ ~odd) ~> (ac[c].life = "freed" \/ aborted # "no" \/ odd)
=============================================================================
