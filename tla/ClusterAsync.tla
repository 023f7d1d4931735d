---------------------------- MODULE ClusterAsync ----------------------------
(***************************************************************************)
(* The asynchronous cluster client of hiredis-vip (hircluster.c): commands *)
(* go to the asynchronous context of the node that has their slot, and     *)
(* redisClusterAsyncCallback, which is the callback of each of them,       *)
(* follows redirections, counts failures, updates the route and calls the  *)
(* callback of the user.                                                   *)
(*                                                                         *)
(* Two frames are added to those of RedisAsync:                            *)
(*    route   cluster_update_route_by_addr, which frees the nodes of the   *)
(*            old route, and with them their contexts, before it installs  *)
(*            the new one                                                  *)
(*    user    a callback of the user                                       *)
(*                                                                         *)
(* A context points to its node, data, and a node to its context, acon.  A *)
(* node is known by its key in cc->nodes: its server or, if it has come    *)
(* with an ASK, the slot.  When the memory of a node that has been freed   *)
(* is used, nothing is said about what follows: aborted is "memory".       *)
(***************************************************************************)
EXTENDS RedisAsync

CONSTANTS Servers, Slots,
          FirstOwner,            \* the server of every slot at the beginning
          max_redirect_count,
          Begins,                \* bound: the flag and the timer at the beginning
          MaxCommands,           \* bound: commands of the user
          MaxMoves               \* bound: slots that move

ASSUME BeginsAssumption == Begins \subseteq [useSlots : BOOLEAN, timer : BOOLEAN]
ASSUME ClusterAssumption ==
    /\ IsFiniteSet(Contexts)
    /\ FirstOwner \in [Slots -> Servers]
    /\ max_redirect_count \in Nat
    /\ "none" \notin Contexts /\ {"freed", "leaked"} \cap Servers = {}    \* no context, and no nodes of the list

VARIABLES owner, before,   \* the server of every slot, now and before the last move
          importing,       \* the server that a slot is moving to
          moves,
          useSlots,        \* HIRCLUSTER_FLAG_ROUTE_USE_SLOTS
          nodes, table,    \* cc->nodes and cc->table
          data,            \* the node of a context
          accErr,          \* acc->err
          timer,           \* cc->update_route_time
          retries,         \* cad->retry_count
          cads,            \* what has become of a cluster_async_data
          answers,         \* what the callback of the user has been called with
          executed,        \* how often a command has been executed
          notes            \* what the user and the servers have done

servers == <<owner, before, importing, moves, useSlots>>
route == <<nodes, table, data, timer>>
client == <<accErr, retries, cads, answers, notes>>
vars == <<avars, servers, route, client, executed>>

None == "none"
Node(s) == [server |-> s, acon |-> None, failure_count |-> 0]
Listed(t) == IF useSlots THEN Range(t) ELSE Servers

\* the cluster context, which has got its route
redisClusterConnectNonBlock ==
    /\ nodes = [s \in Listed(FirstOwner) |-> Node(s)]
    /\ table = FirstOwner

\* ... and the asynchronous one around it
redisClusterAsyncInitialize ==
    /\ ac = [c \in Contexts |-> Unused]
    /\ data = [c \in Contexts |-> None]
    /\ accErr = FALSE
    /\ retries = <<>> /\ cads = <<>> /\ answers = <<>>

\* redisClusterAsyncConnect has returned, or the connections of a time
\* before this have been lost, often enough to set update_route_time
Init ==
    /\ \E b \in Begins : useSlots = b.useSlots /\ timer = b.timer
    /\ redisClusterConnectNonBlock
    /\ redisClusterAsyncInitialize
    /\ AsyncInit
    /\ owner = FirstOwner /\ before = FirstOwner
    /\ importing = [s \in Slots |-> None]
    /\ moves = 0
    /\ executed = <<>>
    /\ notes = {}

\* the user's code runs
UserMayAct == aborted = "no" /\ "freed" \notin notes /\ (stack # <<>> => Top.at = "user")

\* nodes are being freed
Freeing == \E i \in DOMAIN stack : stack[i].at \in {"route", "release"}

-----------------------------------------------------------------------------
(***************************************************************************)
(* Contexts and nodes.                                                     *)
(***************************************************************************)
\* what actx_get_by_node may return for a node: its context, if that has no
\* error, or a new one, which may fail at once; none when memory is short
FreshContexts == {c \in Contexts : ac[c].life = "unused"}
Had(c) == [c |-> c, fresh |-> FALSE, err |-> FALSE]
Fresh(c, err) == [c |-> c, fresh |-> TRUE, err |-> err]
actx_get_by_node(node) ==
    IF node.acon # None /\ ~ac[node.acon].err THEN {Had(node.acon)}
    ELSE IF FreshContexts = {} THEN {[Had(None) EXCEPT !.err = TRUE]}
    ELSE LET c == CHOOSE c \in FreshContexts : TRUE
         IN  {Fresh(c, FALSE), Fresh(c, TRUE)}

\* the contexts with the one that was got
WithContext(got) ==
    IF ~got.fresh THEN ac
    ELSE [ac EXCEPT ![got.c] = [redisAsyncInitialize EXCEPT !.err = got.err,
                                                            !.ev = IF got.err THEN {} ELSE @]]

\* the node with a key and its new context point to each other; ns are the
\* nodes, and ds the nodes of the contexts
Link(got, key, server, ns, ds) ==
    IF ~got.fresh THEN nodes' = ns /\ data' = ds /\ UNCHANGED <<net, spent>>
    ELSE /\ nodes' = IF key \in DOMAIN ns THEN [ns EXCEPT ![key].acon = got.c] ELSE ns
         /\ data' = [ds EXCEPT ![got.c] = key]
         /\ net' = [net EXCEPT ![got.c].peer = server]
         /\ IF got.err THEN Spend("faults") ELSE UNCHANGED spent

\* redisClusterAsyncCallback and redisClusterAsyncFormattedCommand send
Get(id, slot) == [id |-> id, kind |-> "get", names |-> <<>>, slot |-> slot]
ASKING(slot) == [Get(0, slot) EXCEPT !.kind = "asking"]

\* mutant: no write is scheduled
Sent_Idle(acs, c, cmd, cb) == [acs EXCEPT ![c] = [redisAsyncCommand(@, cmd, cb) EXCEPT !.ev = ac[c].ev]]

Sent(acs, c, cmd, cb) == [acs EXCEPT ![c] = redisAsyncCommand(@, cmd, cb)]

-----------------------------------------------------------------------------
(***************************************************************************)
(* The functions that the user calls.                                      *)
(***************************************************************************)
\* redisClusterAsyncFormattedCommand, for a slot
AsyncCommand(slot) ==
    LET key == table[slot]
        id == Len(cads) + 1
        noted == IF stack # <<>> /\ ac[Top.c].err THEN notes \cup {"in error"} ELSE notes
    IN  /\ UserMayAct
        /\ id <= MaxCommands
        /\ ~Freeing
        /\ \E got \in actx_get_by_node(nodes[key]) :
              /\ Link(got, key, key, nodes, data)
              /\ accErr' = got.err
              /\ IF got.err
                 THEN /\ ac' = WithContext(got)
                      /\ notes' = noted \cup {"refused"}
                      /\ UNCHANGED <<calls, cmds, cads, retries, answers, executed>>
                 ELSE /\ ac' = Sent(WithContext(got), got.c, Get(id, slot), Callback(id))
                      /\ cmds' = Append(cmds, Get(id, slot))
                      /\ calls' = Append(calls, <<>>)
                      /\ cads' = Append(cads, "out")
                      /\ retries' = Append(retries, 0)
                      /\ answers' = Append(answers, <<>>)
                      /\ executed' = Append(executed, 0)
                      /\ notes' = noted
        /\ UNCHANGED <<stack, onDisc, asked, aborted, odd, servers, table, timer>>

\* redisClusterAsyncFormattedCommand, for keys in several slots, or when the
\* cluster context is being freed and its table is empty.  Bound: once,
\* with commands under way
CommandRefused ==
    /\ UserMayAct
    /\ "refused" \notin notes
    /\ "out" \in Range(cads)
    /\ \A i \in DOMAIN stack : stack[i].at # "route"
    /\ accErr' = TRUE
    /\ notes' = notes \cup {"refused"}
    /\ UNCHANGED <<avars, servers, route, retries, cads, answers, executed>>

\* a command while the nodes of the table are being freed
CommandInUpdate ==
    /\ UserMayAct
    /\ \E i \in DOMAIN stack : stack[i].at = "route"
    /\ Abort("memory")
    /\ UNCHANGED <<ac, net, cmds, calls, onDisc, asked, odd, spent, servers, route, client, executed>>

\* redisClusterAsyncDisconnect: redisAsyncDisconnect for every node.  Bound: once
redisClusterAsyncDisconnect ==
    LET keys == {k \in DOMAIN nodes : nodes[k].acon # None /\ ~ac[nodes[k].acon].err}
        ended == {nodes[k].acon : k \in keys}
        now == {c \in ended : "IN_CALLBACK" \notin ac[c].flags /\ ac[c].replies = <<>>}
    IN  /\ UserMayAct
        /\ ~Freeing
        /\ keys # {}
        /\ "disconnected" \notin notes
        /\ ac' = [c \in Contexts |->
                     IF c \in now THEN [Unused EXCEPT !.life = "freed"]
                     ELSE IF c \in ended THEN [ac[c] EXCEPT !.flags = @ \cup {"DISCONNECTING"}]
                     ELSE ac[c]]
        /\ net' = [c \in Contexts |-> IF c \in now THEN [NoNet EXCEPT !.up = FALSE] ELSE net[c]]
        /\ onDisc' = [c \in Contexts |-> IF c \in now /\ "CONNECTED" \in ac[c].flags THEN Append(onDisc[c], "OK")
                                         ELSE onDisc[c]]
        /\ nodes' = [k \in DOMAIN nodes |-> IF k \in keys THEN [nodes[k] EXCEPT !.acon = None] ELSE nodes[k]]
        /\ asked' = asked \cup ended
        /\ notes' = notes \cup {"disconnected"}
        /\ UNCHANGED <<stack, cmds, calls, aborted, odd, spent, servers, table, data, timer, accErr, retries, cads,
                       answers, executed>>

\* redisClusterAsyncFree: the nodes are freed, and with them their contexts
FreeFrames(cs, acs) == [i \in DOMAIN cs |-> FreeFrame(cs[i], acs[cs[i]])]
WithFlag(cs, flag) == [c \in Contexts |-> IF c \in cs THEN [ac[c] EXCEPT !.flags = @ \cup {flag}] ELSE ac[c]]
ContextsOf(keys) == {nodes[k].acon : k \in keys} \ {None}

redisClusterAsyncFree ==
    /\ EventLoop
    /\ "ended" \notin notes
    /\ LET cs == ContextsOf(DOMAIN nodes)
           acs == WithFlag(cs, "FREEING")
       IN  /\ ac' = acs
           /\ stack' = <<[at |-> "release", c |-> None]>> \o FreeFrames(SetToSeq(cs), acs)
    /\ notes' = notes \cup {"ended"}
    /\ UNCHANGED <<net, cmds, calls, onDisc, asked, aborted, odd, spent, servers, route, accErr, retries, cads,
                   answers, executed>>

Released ==
    /\ AtTop("release")
    /\ stack' = Below
    /\ nodes' = <<>>
    /\ data' = [c \in Contexts |-> IF data[c] \in DOMAIN nodes THEN "freed" ELSE data[c]]
    /\ notes' = notes \cup {"freed"}
    /\ UNCHANGED <<ac, net, cmds, calls, onDisc, asked, aborted, odd, spent, servers, table, timer, accErr, retries,
                   cads, answers, executed>>

-----------------------------------------------------------------------------
(***************************************************************************)
(* redisClusterAsyncCallback.                                              *)
(***************************************************************************)
InCallback == AtTop("callback") /\ "freed" \notin notes
Id == Top.cb.id
Redirections == {"moved", "ask", "again"}

\* done: the callback of the user is called, with NULL if there is an error
Done(err) ==
    /\ accErr' = err
    /\ answers' = [answers EXCEPT ![Id] = Append(@, IF err THEN NULL ELSE Top.reply)]
    /\ stack' = Append(Below, [Top EXCEPT !.at = "user"])
    /\ UNCHANGED aborted

\* ... and returns: errors are cleared and the data of the command is freed
UserReturns ==
    /\ AtTop("user")
    /\ accErr' = FALSE
    /\ cads' = [cads EXCEPT ![Id] = "freed"]
    /\ Back(ac, Top.c, Below)
    /\ UNCHANGED <<net, cmds, calls, onDisc, asked, aborted, odd, spent, servers, route, retries, answers, notes,
                   executed>>

\* an answer, or an error that is not about the cluster
Answered ==
    /\ InCallback
    /\ Top.reply # NULL /\ Top.reply.kind \notin Redirections
    /\ Done(accErr)
    /\ UNCHANGED <<ac, net, cmds, calls, onDisc, asked, odd, spent, servers, route, retries, cads, notes, executed>>

\* cluster_update_route, in two steps: the route is read from a server, which
\* may not know of the last move, and what the old route alone has is freed
CanUpdate == InCallback /\ ~Freeing
UpdateRoute ==
    \E t \in {owner, before} :
        LET cs == ContextsOf(DOMAIN nodes \ Listed(t))
            acs == WithFlag(cs, "FREEING")
            now == {c \in cs : "IN_CALLBACK" \notin ac[c].flags}
        IN  /\ ac' = acs
            /\ stack' = Append(Below, [at |-> "route", c |-> Top.c, cb |-> Top.cb, reply |-> Top.reply, table |-> t])
                        \o FreeFrames(SetToSeq(now), acs)

\* no server gives a route
UpdateFails == Spend("faults") /\ Done(TRUE) /\ UNCHANGED ac

\* cluster_nodes_swap_ctx: the nodes of the new route take over the contexts
\* of those with the same address; other contexts are left with a node that
\* has been freed
Swapped(t) ==
    [s \in Listed(t) |-> IF s \in DOMAIN nodes THEN [Node(s) EXCEPT !.acon = nodes[s].acon] ELSE Node(s)]

\* mutant: the contexts are not told of their new nodes
DataAfter_Old(t) == [c \in Contexts |-> IF data[c] \in DOMAIN nodes THEN "freed" ELSE data[c]]

DataAfter(t) ==
    [c \in Contexts |-> IF data[c] \notin DOMAIN nodes \/ (data[c] \in Listed(t) /\ nodes[data[c]].acon = c)
                       THEN data[c] ELSE "freed"]

\* retry: the command goes to another context, after ASKING or alone, or is
\* lost when that takes no commands.  acs are the contexts
Retry(acs, c, asking) ==
    LET ready == IF asking THEN Sent(acs, c, ASKING(cmds[Id].slot), NullCb) ELSE acs
    IN  IF Accepts(acs[c], "get")
        THEN /\ Back(Sent(ready, c, cmds[Id], Callback(Id)), Top.c, Below)
             /\ UNCHANGED <<cads, accErr, answers, aborted>>
        ELSE /\ Back(acs, Top.c, Below)
             /\ cads' = [cads EXCEPT ![Id] = "dropped"]
             /\ UNCHANGED <<accErr, answers, aborted>>

\* mutant: a command that cannot be sent again is forgotten
RetryAt_Forgets(got, asking) ==
    IF got.err THEN Back(WithContext(got), Top.c, Below) /\ cads' = [cads EXCEPT ![Id] = "dropped"]
                    /\ UNCHANGED <<accErr, answers, aborted>>
    ELSE Retry(WithContext(got), got.c, asking)

RetryAt(got, asking) ==
    IF got.err THEN ac' = WithContext(got) /\ Done(TRUE) /\ UNCHANGED cads
    ELSE Retry(WithContext(got), got.c, asking)

\* NULL: the context has been freed, on an error or by the user.  When this
\* has happened often enough to a node, the route is updated, after a time
\* that is read from a server with CONFIG GET
Counted(key) == [nodes EXCEPT ![key].failure_count = (@ + 1) % (max_redirect_count + 1)]

\* mutant: a command whose connection is lost is sent again
NullCounted_Retries ==
    /\ InCallback
    /\ Top.reply = NULL
    /\ ~timer
    /\ ~Freeing
    /\ data[Top.c] # "freed"
    /\ LET key == table[cmds[Id].slot]
       IN  \E got \in actx_get_by_node(nodes[key]) : Link(got, key, key, nodes, data) /\ RetryAt(got, FALSE)
    /\ UNCHANGED <<cmds, calls, onDisc, asked, odd, servers, table, timer, retries, notes, executed>>

\* cluster_config_get: cluster-node-timeout, as the first node says that is
\* reached, or nothing
cluster_config_get(got) == IF got THEN UNCHANGED spent ELSE Spend("faults")

NullCounted ==
    /\ InCallback
    /\ Top.reply = NULL
    /\ ~timer
    /\ data[Top.c] # "freed"
    /\ LET key == data[Top.c]
           enough == key \in DOMAIN nodes /\ nodes[key].failure_count = max_redirect_count
           err == ac[Top.c].err
       IN  /\ nodes' = IF key \in DOMAIN nodes THEN Counted(key) ELSE nodes
           /\ \/ ~enough /\ Done(err) /\ UNCHANGED <<timer, spent>>
              \/ /\ enough
                 /\ ~Freeing
                 /\ \E got \in BOOLEAN :
                       cluster_config_get(got) /\ Done(err \/ ~got) /\ timer' = got
    /\ UNCHANGED <<ac, net, cmds, calls, onDisc, asked, odd, servers, table, data, retries, cads, notes, executed>>

NullTimed ==
    /\ InCallback
    /\ Top.reply = NULL
    /\ timer
    /\ \/ Done(ac[Top.c].err) /\ UNCHANGED <<ac, timer, spent>>
       \/ CanUpdate /\ UpdateRoute /\ UNCHANGED <<timer, spent, accErr, answers, aborted>>
       \/ CanUpdate /\ UpdateFails /\ timer' = FALSE
    /\ UNCHANGED <<net, cmds, calls, onDisc, asked, odd, servers, nodes, table, data, retries, cads, notes, executed>>

\* MOVED, ASK, TRYAGAIN, CROSSSLOT or CLUSTERDOWN once more than is followed
TooMany ==
    /\ InCallback
    /\ Top.reply # NULL /\ Top.reply.kind \in Redirections
    /\ retries[Id] = max_redirect_count
    /\ retries' = [retries EXCEPT ![Id] = 0]
    /\ Done(TRUE)
    /\ UNCHANGED <<ac, net, cmds, calls, onDisc, asked, odd, spent, servers, route, cads, notes, executed>>

Redirected(kind) ==
    /\ InCallback
    /\ Top.reply # NULL /\ Top.reply.kind = kind
    /\ retries[Id] < max_redirect_count
    /\ retries' = [retries EXCEPT ![Id] = @ + 1]

Moved ==
    /\ Redirected("moved")
    /\ \/ UpdateRoute /\ UNCHANGED <<spent, accErr, answers, aborted>>
       \/ UpdateFails
    /\ UNCHANGED <<net, cmds, calls, onDisc, asked, odd, servers, route, cads, notes, executed>>

\* cluster_update_route has freed the old nodes: the new route is installed,
\* and redisClusterAsyncCallback goes on
Install ==
    /\ AtTop("route")
    /\ table' = Top.table
    /\ LET ns == Swapped(Top.table)
           ds == DataAfter(Top.table)
       IN  IF Top.reply = NULL
           THEN /\ nodes' = ns /\ data' = ds
                /\ timer' = FALSE
                /\ Done(ac[Top.c].err)
                /\ UNCHANGED <<ac, net, spent, cads>>
           ELSE LET key == Top.table[cmds[Id].slot]
                IN  /\ \E got \in actx_get_by_node(ns[key]) : Link(got, key, key, ns, ds) /\ RetryAt(got, FALSE)
                    /\ UNCHANGED timer
    /\ UNCHANGED <<cmds, calls, onDisc, asked, odd, servers, retries, notes, executed>>

\* node_get_by_ask_error_reply: the node with the address, or a new one that
\* is filed under the slot, if there is none there yet
Ask ==
    /\ Redirected("ask")
    /\ LET slot == cmds[Id].slot
           s == Top.reply.server
           key == IF s \in DOMAIN nodes THEN s ELSE IF slot \in DOMAIN nodes THEN "leaked" ELSE slot
           ns == [k \in DOMAIN nodes \cup ({key} \ {"leaked"}) |-> IF k \in DOMAIN nodes THEN nodes[k] ELSE Node(s)]
       IN  \E got \in actx_get_by_node(IF key = "leaked" THEN Node(s) ELSE ns[key]) :
              Link(got, key, s, ns, data) /\ RetryAt(got, TRUE)
    /\ UNCHANGED <<cmds, calls, onDisc, asked, odd, servers, table, timer, notes, executed>>

Again ==
    /\ Redirected("again")
    /\ Retry(ac, Top.c, FALSE)
    /\ UNCHANGED <<net, cmds, calls, onDisc, asked, odd, spent, servers, route, notes, executed>>

\* memory that has been freed is used: the cluster context, the node of the
\* context, or nodes that are being freed
CallbackLost ==
    /\ AtTop("callback")
    /\ \/ "freed" \in notes
       \/ Top.reply = NULL /\ ~timer /\ data[Top.c] = "freed"
       \/ Top.reply = NULL /\ timer /\ Freeing
       \/ Top.reply = NULL /\ ~timer /\ Freeing /\ data[Top.c] \in DOMAIN nodes
          /\ nodes[data[Top.c]].failure_count = max_redirect_count
    /\ Abort("memory")
    /\ UNCHANGED <<ac, net, cmds, calls, onDisc, asked, odd, spent, servers, route, client, executed>>

\* unlinkAsyncContextAndNode, when a context has been freed
Unlink ==
    /\ AtTop("free")
    /\ data[Top.c] # "freed"
    /\ FreeEnd
    /\ nodes' = IF data[Top.c] \in DOMAIN nodes THEN [nodes EXCEPT ![data[Top.c]].acon = None] ELSE nodes
    /\ data' = [data EXCEPT ![Top.c] = None]
    /\ UNCHANGED <<servers, table, timer, client, executed>>

UnlinkLost ==
    /\ AtTop("free")
    /\ NoneLeft
    /\ data[Top.c] = "freed"
    /\ Abort("memory")
    /\ UNCHANGED <<ac, net, cmds, calls, onDisc, asked, odd, spent, servers, route, client, executed>>

-----------------------------------------------------------------------------
(***************************************************************************)
(* The servers of the cluster.  A slot that moves is first imported: what  *)
(* is asked for is no longer where it was.                                 *)
(***************************************************************************)
Answer(server, asking, cmd) ==
    IF "down" \in notes THEN Reply("again", cmd.id)
    ELSE IF owner[cmd.slot] = server
    THEN IF importing[cmd.slot] = None THEN Reply("reply", cmd.id)
         ELSE [kind |-> "ask", id |-> cmd.id, server |-> importing[cmd.slot]]
    ELSE IF asking /\ importing[cmd.slot] = server THEN Reply("reply", cmd.id)
    ELSE Reply("moved", cmd.id)

\* the answers to the commands cs; ASKING is for the next one
AnswersTo(n, cs) ==
    [i \in DOMAIN cs |->
       IF cs[i].kind = "asking" THEN Reply("reply", 0)
       ELSE Answer(n.peer, IF i = 1 THEN n.asking ELSE cs[i - 1].kind = "asking", cs[i])]
ServeAt(n, cs) ==
    [n EXCEPT !.out = @ \o AnswersTo(n, cs),
              !.asking = IF cs = <<>> THEN @ ELSE cs[Len(cs)].kind = "asking"]

\* the thread sees the servers only between callbacks, or chooses the owner of
\* before
Serves == EventLoop /\ "ended" \notin notes

Import(slot) ==
    /\ Serves
    /\ importing[slot] = None
    /\ moves < MaxMoves
    /\ moves' = moves + 1
    /\ \E s \in Servers \ {owner[slot]} : importing' = [importing EXCEPT ![slot] = s]
    /\ UNCHANGED <<avars, owner, before, useSlots, route, client, executed>>

Take(slot) ==
    /\ Serves
    /\ importing[slot] # None
    /\ before' = owner
    /\ owner' = [owner EXCEPT ![slot] = importing[slot]]
    /\ importing' = [importing EXCEPT ![slot] = None]
    /\ UNCHANGED <<avars, moves, useSlots, route, client, executed>>

\* the cluster is down
Down ==
    /\ Serves
    /\ "down" \notin notes
    /\ Spend("faults")
    /\ notes' = notes \cup {"down"}
    /\ UNCHANGED <<ac, net, stack, cmds, calls, onDisc, asked, aborted, odd, servers, route, accErr, retries, cads,
                   answers, executed>>
Up ==
    /\ Serves
    /\ "down" \in notes
    /\ notes' = notes \ {"down"}
    /\ UNCHANGED <<avars, servers, route, accErr, retries, cads, answers, executed>>

-----------------------------------------------------------------------------
\* redisAsyncHandleWrite, and what the server executes
Write(c) ==
    /\ redisAsyncHandleWrite(c, [n \in 0 .. Len(ac[c].obuf) |-> ServeAt(net[c], SubSeq(ac[c].obuf, 1, n))])
    /\ LET new == SubSeq(net'[c].out, Len(net[c].out) + 1, Len(net'[c].out))
       IN  executed' = [i \in DOMAIN executed |->
                          executed[i] + Cardinality({j \in DOMAIN new : new[j] = Reply("reply", i)})]
    /\ UNCHANGED <<servers, route, client>>

Library == FreeCallback \/ ProcessNone \/ ProcessReply
Event(c) == ConnectFails(c) \/ redisAsyncHandleRead(c) \/ ReadFails(c) \/ Break(c)

thread ==
    \/ Library /\ UNCHANGED <<servers, route, client, executed>>
    \/ UserReturns \/ Answered \/ NullCounted \/ NullTimed \/ TooMany \/ Moved \/ Install \/ Ask \/ Again
    \/ CallbackLost \/ Unlink \/ UnlinkLost \/ Released

user ==
    \/ \E slot \in Slots : AsyncCommand(slot)
    \/ CommandRefused \/ CommandInUpdate \/ redisClusterAsyncDisconnect \/ redisClusterAsyncFree

Over == (aborted # "no" \/ EventLoop) /\ UNCHANGED vars

Next ==
    \/ thread \/ user \/ Down \/ Up \/ Over
    \/ \E c \in Contexts : Write(c) \/ (Event(c) /\ UNCHANGED <<servers, route, client, executed>>)
    \/ \E slot \in Slots : Import(slot) \/ Take(slot)

Spec == Init /\ [][Next]_vars

\* Callbacks return, and the event loop goes on while a socket is ready.
Reads(c) == (redisAsyncHandleRead(c) \/ ReadFails(c)) /\ UNCHANGED <<servers, route, client, executed>>
loop == thread \/ \E c \in Contexts : Write(c) \/ Reads(c)

FairSpec == Spec /\ WF_vars(loop)

-----------------------------------------------------------------------------
(***************************************************************************)
(* Properties.                                                             *)
(***************************************************************************)
\* The callback of a command is called once at most, with the reply to that
\* command or with NULL; the library does not forget a command without
\* calling it unless the user has disconnected; and what a server has answered
\* reaches the callback, unless the error of another command, which
\* redisClusterAsyncCommand has refused, hides it.
AnsweredOnce ==
    \A i \in DOMAIN cads :
        /\ Len(answers[i]) <= 1
        /\ \A r \in Range(answers[i]) : r = NULL \/ r = Reply("reply", i)
        /\ cads[i] = "freed" => Len(answers[i]) = 1
        /\ cads[i] = "dropped" => "disconnected" \in notes
        /\ (answers[i] = <<NULL>> /\ Reply("reply", i) \in Range(calls[i])) => "refused" \in notes

\* However a command is redirected, retried or lost, it is executed once at
\* most, and it has been if its callback is told so.
ExecutedOnce ==
    \A i \in DOMAIN cads :
        /\ executed[i] <= 1
        /\ answers[i] = <<Reply("reply", i)>> => executed[i] = 1

\* A node never points to a context that has been freed, and freed memory is
\* used only if the user has ended contexts, has called the library from the
\* callback of a command that failed, or a server may have left the route.
MemorySafe ==
    /\ aborted = "no" => \A k \in DOMAIN nodes : nodes[k].acon # None => ac[nodes[k].acon].life = "alive"
    /\ aborted = "memory" =>
          \/ {"disconnected", "ended", "in error"} \cap notes # {}
          \/ useSlots /\ moves > 0

\* The callback of every command is called in the end, unless memory is lost
\* or the command is forgotten.
CalledBack ==
    <>[](aborted # "no" \/ \A i \in DOMAIN cads : answers[i] # <<>> \/ cads[i] = "dropped")
=============================================================================
