----------------------------- MODULE HirCluster -----------------------------
(***************************************************************************)
(* The blocking cluster client of hiredis-vip, which redis_op.cpp uses:    *)
(* one redisClusterContext, its table of slots, its connections, and the   *)
(* way of a command through redirections, retries, route updates and       *)
(* failures; and the pipeline of the same context.                         *)
(*                                                                         *)
(* A command is known by its number and the slots of its keys; commands    *)
(* with keys in several slots are executed as one sub-command per slot, in *)
(* the order of the slots.  The servers, which are not part of the         *)
(* repository, answer as the client expects them to: they know slots,      *)
(* migrate them, learn of each other's slots late, refuse, and fail.       *)
(***************************************************************************)
EXTENDS Integers, FiniteSets, Sequences

CONSTANTS Addrs,        \* the addresses of the servers
          Slots,        \* the hash slots, numbers; 0 .. 16383 in the code
          None,
          Leaked,       \* a node that cc->nodes does not hold, see Keys
          max_redirect_count,
          Careful,      \* the caller resets the pipeline before it goes on after an error
          Commands,     \* the sets of slots that commands may have their keys in
          Owners,       \* who may have which slots at the beginning
          Running,      \* the sets of servers that may run at the beginning
          MaxCalls,     \* bound: commands
          MaxFaults,    \* bound: crashes, broken connections, timeouts
          MaxRefusals,  \* bound: commands that are refused
          MaxMoves      \* bound: slots that change hands

ASSUME HirConstants ==
    /\ Cardinality({None, Leaked}) = 2 /\ {None, Leaked} \cap (Addrs \cup Slots) = {}
    /\ Slots \subseteq Nat
    /\ Addrs \cap Slots = {}
    /\ Owners \subseteq [Slots -> Addrs]
    /\ Running \subseteq SUBSET Addrs
    /\ Commands \subseteq (SUBSET Slots) \ {{}}
    /\ \A S \in Commands : IsFiniteSet(S)
    /\ {max_redirect_count, MaxCalls, MaxFaults, MaxRefusals, MaxMoves} \subseteq Nat
    /\ Careful \in BOOLEAN

VARIABLES alive,        \* the servers that run
          view,         \* the slot table that each server knows
          mig,          \* to which server a slot is being moved
          orphans,      \* commands on closed connections that a server may still execute
          executed,     \* history: how often a sub-command has been executed
          nodes,        \* cc->nodes: its keys
          host,         \* the address of the nodes that an ASK has added
          con,          \* node->con
          table,        \* cc->table
          err,          \* cc->err
          retry_count,
          need_update_route,
          requests,     \* cc->requests
          pc, cur,      \* the call that is being made, and its command
          c,            \* the node whose context is in use
          tried,        \* the nodes that a loop over cc->nodes has passed
          piping,       \* commands have been appended since the last redisClusterReset
          draining,     \* redisClusterReset is fetching the replies that are left
          answer,       \* what the last call gave
          calls, faults, refusals, moves

server == <<alive, view, mig>>
route == <<nodes, host, table>>
bounds == <<calls, faults, refusals, moves>>
control == <<pc, cur, c, tried>>
pipe == <<requests, need_update_route, piping, draining>>
vars == <<server, orphans, executed, route, con, err, retry_count, pipe, control, answer, bounds>>

\* the keys of cc->nodes: addresses, and the slot numbers under which
\* node_get_by_ask_error_reply files its nodes; Leaked is such a node when
\* the key is taken, which dictAdd refuses
Keys == Addrs \cup Slots \cup {Leaked}
Host(k) == IF k \in Addrs THEN k ELSE host[k]

NoCon == [to |-> None]
NoCall == [id |-> 0, todo |-> <<>>, got |-> <<>>]
NoAnswer == [id |-> 0, slots |-> <<>>, got |-> <<>>]

\* what travels: a sub-command, ASKING and PING, and the replies to them
Cmd(id, s) == [t |-> "cmd", id |-> id, slot |-> s]
Asking == [t |-> "asking", id |-> 0, slot |-> None]
Ping == [t |-> "ping", id |-> 0, slot |-> None]
Reply(t, m, a) == [t |-> t, id |-> m.id, slot |-> m.slot, to |-> a]

\* cluster_reply_error_type: "again" stands for TRYAGAIN, CROSSSLOT and
\* CLUSTERDOWN, which are treated alike
Redirects == {"moved", "ask", "again"}

\* redisClusterSetOptionAddNodes: each address once, without a connection
Seeds == Addrs

\* servers that are down at first may restart; when all are, no more faults
Init ==
    /\ alive \in Running
    /\ faults = IF alive = {} THEN MaxFaults ELSE 0
    /\ \E o \in Owners : view = [a \in Addrs |-> o]
    /\ mig = [s \in Slots |-> None]
    /\ orphans = {}
    /\ executed = [i \in 1 .. MaxCalls |-> [s \in Slots |-> 0]]
    /\ nodes = Seeds
    /\ host = [k \in Slots \cup {Leaked} |-> None]
    /\ con = [k \in Keys |-> NoCon]
    /\ table = [s \in Slots |-> None]
    /\ err = FALSE
    /\ retry_count = 0
    /\ need_update_route = FALSE
    /\ requests = <<>>
    /\ pc = "connect"
    /\ cur = NoCall
    /\ c = None
    /\ tried = {}
    /\ piping = FALSE
    /\ draining = FALSE
    /\ answer = NoAnswer
    /\ calls = 0 /\ refusals = 0 /\ moves = 0

-----------------------------------------------------------------------------
(***************************************************************************)
(* Connections: redisConnect, redisReconnect, redisGetReply.               *)
(***************************************************************************)

\* an unconnected context: its buffer and its reader are empty
redisContextInit(a) ==
    [to |-> a, err |-> FALSE, up |-> FALSE, asking |-> FALSE, out |-> <<>>, wire |-> <<>>, in |-> <<>>]

\* what poll and SO_ERROR say of a connect(2) under way: somebody listens
redisContextWaitReady(a) == a \in alive

\* a name stands for one address; an unbound socket, without REUSEADDR
redisContextConnectTcp(x) ==
    IF redisContextWaitReady(x.to) THEN [x EXCEPT !.up = TRUE] ELSE [x EXCEPT !.err = TRUE]

redisConnect(a) == redisContextConnectTcp(redisContextInit(a))

\* redisReconnect: the buffers go with the old connection
redisReconnect(x) == redisConnect(x.to)

\* mutant: what was buffered and sent survives a reconnect
ctx_get_by_node_Keeps(k) ==
    IF con[k] = NoCon THEN redisConnect(Host(k))
    ELSE IF con[k].err THEN [con[k] EXCEPT !.err = con[k].to \notin alive, !.up = con[k].to \in alive]
    ELSE con[k]

\* the context of a node: a new one, a new connection in place of one that
\* has an error, or the one that is there
ctx_get_by_node(k) ==
    IF con[k] = NoCon THEN redisConnect(Host(k))
    ELSE IF con[k].err THEN redisReconnect(con[k])
    ELSE con[k]

\* redisFree closes a connection: the sub-commands that were on their way
redisFree(x) ==
    IF x = NoCon THEN {}
    ELSE {[msg |-> x.wire[i], to |-> x.to, asking |-> IF i = 1 THEN x.asking ELSE x.wire[i-1] = Asking] :
            i \in {j \in DOMAIN x.wire : x.wire[j].t = "cmd"}}

\* context k becomes x; what a closed connection leaves may still be executed
SetCon(k, x) ==
    /\ con' = [con EXCEPT ![k] = x]
    /\ orphans' = orphans \cup IF con[k] # NoCon /\ con[k].err THEN redisFree(con[k]) ELSE {}

\* __redisAppendCommand
Put(x, m) == [x EXCEPT !.out = Append(@, m)]

Waiting == pc \in {"reply", "asking", "pong", "collect"}

\* redisBufferWrite
Write ==
    /\ Waiting
    /\ con[c].out # <<>>
    /\ con[c].up
    /\ con' = [con EXCEPT ![c].wire = @ \o con[c].out, ![c].out = <<>>]
    /\ UNCHANGED <<server, orphans, executed, route, err, retry_count, pipe, control, answer, bounds>>

\* the reply that redisGetReply gives
Incoming == {con[c].in[i] : i \in DOMAIN con[c].in \cap {1}}

Read ==
    /\ con' = [con EXCEPT ![c].in = Tail(@)]
    /\ UNCHANGED orphans

\* redisGetReply gives no reply: the connection is broken, or a timeout has
\* passed; the context has an error from now on
ReadFails ==
    /\ \/ ~con[c].up /\ con[c].in = <<>> /\ UNCHANGED faults
       \/ con[c].up /\ faults < MaxFaults /\ faults' = faults + 1
    /\ con' = [con EXCEPT ![c].err = TRUE]
    /\ UNCHANGED orphans

-----------------------------------------------------------------------------
(***************************************************************************)
(* The end of a call.                                                      *)
(***************************************************************************)
Idle == pc' = (IF draining THEN "drain" ELSE "idle") /\ cur' = NoCall /\ c' = None /\ tried' = {}

\* redisClusterFormattedCommand returns NULL
Fail ==
    /\ Idle
    /\ err' = TRUE
    /\ retry_count' = 0
    /\ answer' = NoAnswer

\* redisClusterFormattedCommand returns the replies, or that of the first
\* sub-command that was refused
Give(got) ==
    /\ Idle
    /\ answer' = [id |-> cur.id, slots |-> cur.todo, got |-> got]
    /\ retry_count' = 0
    /\ UNCHANGED err

\* the slots of a command in the order in which it is split: the one
\* increasing sequence of them
Split(S) == {q \in [1 .. Cardinality(S) -> S] : \A i, j \in DOMAIN q : i < j => q[i] < q[j]}
AtSlot == cur.todo[Len(cur.got) + 1]
This == Cmd(cur.id, AtSlot)

\* redisClusterFormattedCommand.  No command is called while others are in
\* the pipeline.
Call ==
    /\ pc = "idle"
    /\ ~piping
    /\ calls < MaxCalls
    /\ calls' = calls + 1
    /\ \E S \in Commands : \E q \in Split(S) : cur' = [id |-> calls', todo |-> q, got |-> <<>>]
    /\ pc' = "retry"
    /\ err' = FALSE
    /\ answer' = NoAnswer
    /\ UNCHANGED <<server, orphans, executed, route, con, retry_count, pipe, c, tried, faults, refusals, moves>>

-----------------------------------------------------------------------------
(***************************************************************************)
(* redis_cluster_command_execute.                                          *)
(***************************************************************************)

\* one more redirection, if there may be one
MayRedirect == retry_count + 1 <= max_redirect_count

\* mutant: redirections are not counted
Redirect_Uncounted(to) ==
    /\ pc' = to
    /\ UNCHANGED <<err, answer, cur, retry_count>>

Redirect(to) ==
    /\ MayRedirect
    /\ retry_count' = retry_count + 1
    /\ pc' = to
    /\ UNCHANGED <<err, answer, cur>>
TooMany == ~MayRedirect /\ Fail

\* no node for the slot
NoNode ==
    /\ pc = "retry"
    /\ table[AtSlot] = None
    /\ Fail
    /\ UNCHANGED <<server, orphans, executed, route, con, pipe, bounds>>

\* the context of the slot's node, or a search for another one
Retry ==
    /\ pc = "retry"
    /\ table[AtSlot] # None
    /\ LET n == table[AtSlot]
           x == ctx_get_by_node(n)
       IN  IF x.err
           THEN SetCon(n, x) /\ pc' = "ping" /\ tried' = {} /\ UNCHANGED c
           ELSE SetCon(n, Put(x, This)) /\ pc' = "reply" /\ c' = n /\ UNCHANGED tried
    /\ UNCHANGED <<server, executed, route, err, retry_count, pipe, cur, answer, bounds>>

\* node_get_witch_connected: the next node of cc->nodes
TryNode ==
    /\ pc = "ping"
    /\ \E n \in nodes \ tried :
          LET x == ctx_get_by_node(n)
          IN  IF x.err
              THEN SetCon(n, x) /\ tried' = tried \cup {n} /\ UNCHANGED <<pc, c>>
              ELSE SetCon(n, Put(x, Ping)) /\ pc' = "pong" /\ c' = n /\ UNCHANGED tried
    /\ UNCHANGED <<server, executed, route, err, retry_count, pipe, cur, answer, bounds>>

NoneReachable ==
    /\ pc = "ping"
    /\ nodes \subseteq tried
    /\ Fail
    /\ UNCHANGED <<server, orphans, executed, route, con, pipe, bounds>>

\* PONG: the command goes to this node
Pong ==
    /\ pc = "pong"
    /\ \E r \in Incoming :
          /\ IF r.t = "pong"
             THEN IF MayRedirect
                  THEN /\ Redirect("reply")
                       /\ con' = [con EXCEPT ![c].in = Tail(@), ![c].out = Append(@, This)]
                       /\ UNCHANGED <<c, tried, orphans>>
                  ELSE Read /\ TooMany
             ELSE /\ Read
                  /\ pc' = "ping"
                  /\ tried' = tried \cup {c}
                  /\ UNCHANGED <<c, cur, err, retry_count, answer>>
    /\ UNCHANGED <<server, executed, route, pipe, bounds>>

PongFails ==
    /\ pc = "pong"
    /\ ReadFails
    /\ pc' = "ping"
    /\ tried' = tried \cup {c}
    /\ UNCHANGED <<server, executed, route, err, retry_count, pipe, cur, c, answer, calls, refusals, moves>>

\* mutant: a command without a reply is sent again
NoReply_Retries ==
    /\ pc = "reply"
    /\ ReadFails
    /\ IF MayRedirect
       THEN Redirect("retry") /\ UNCHANGED <<c, tried>>
       ELSE Fail
    /\ UNCHANGED <<server, executed, route, pipe, calls, refusals, moves>>

\* no reply: the call fails, whether or not the command has been executed
NoReply ==
    /\ pc \in {"reply", "asking"}
    /\ ReadFails
    /\ Fail
    /\ UNCHANGED <<server, executed, route, pipe, calls, refusals, moves>>

\* a reply that is not a redirection
Accept ==
    /\ pc = "reply"
    /\ \E r \in Incoming :
          /\ Read
          /\ r.t \notin Redirects
          /\ LET got == Append(cur.got, r)
             IN  IF r.t = "error" \/ Len(got) = Len(cur.todo)
                 THEN Give(got)
                 ELSE /\ cur' = [cur EXCEPT !.got = got]
                      /\ pc' = "retry"
                      /\ UNCHANGED <<c, tried, err, retry_count, answer>>
    /\ UNCHANGED <<server, executed, route, pipe, bounds>>

\* MOVED: the route is updated; TRYAGAIN, CROSSSLOT and CLUSTERDOWN: once more
Moved ==
    /\ pc = "reply"
    /\ \E r \in Incoming :
          /\ Read
          /\ r.t \in Redirects \ {"ask"}
          /\ \/ Redirect(IF r.t = "moved" THEN "update" ELSE "retry") /\ tried' = {} /\ UNCHANGED c
             \/ TooMany
    /\ UNCHANGED <<server, executed, route, pipe, bounds>>

\* the key of the node that an ASK for slot s names: the node of that
\* address, or else a new one, which is filed under the slot number
AskKey(s, a) ==
    IF a \in nodes THEN a
    ELSE IF s \notin nodes THEN s
    ELSE Leaked

\* ASK: ASKING goes to the named node, and then the command
Ask ==
    /\ pc = "reply"
    /\ \E r \in Incoming :
          /\ r.t = "ask"
          /\ LET k == AskKey(r.slot, r.to)
                 x == IF k \in Addrs THEN ctx_get_by_node(k) ELSE redisConnect(r.to)
                 read == [con EXCEPT ![c].in = Tail(@)]
             IN  IF ~MayRedirect
                 THEN TooMany /\ con' = read /\ UNCHANGED <<nodes, host, orphans>>
                 ELSE /\ nodes' = IF k = r.slot THEN nodes \cup {k} ELSE nodes
                      /\ host' = IF k \in Addrs THEN host ELSE [host EXCEPT ![k] = r.to]
                      /\ orphans' = orphans \cup IF con[k] # NoCon /\ (con[k].err \/ k = Leaked) THEN redisFree(con[k]) ELSE {}
                      /\ IF x.err
                         THEN con' = [read EXCEPT ![k] = x] /\ Fail
                         ELSE /\ con' = [read EXCEPT ![k] = Put(IF k = c /\ k \in Addrs THEN read[c] ELSE x, Asking)]
                              /\ c' = k
                              /\ Redirect("asking")
                              /\ UNCHANGED tried
    /\ UNCHANGED <<server, executed, table, pipe, bounds>>

\* whatever the reply to ASKING is
AskingReply ==
    /\ pc = "asking"
    /\ con[c].in # <<>>
    /\ con' = [con EXCEPT ![c].in = Tail(@), ![c].out = Append(@, This)]
    /\ pc' = "reply"
    /\ UNCHANGED <<server, orphans, executed, route, err, retry_count, pipe, cur, c, tried, answer, bounds>>

-----------------------------------------------------------------------------
(***************************************************************************)
(* cluster_update_route, called by redisClusterConnect2, on MOVED, and by  *)
(* redisClusterReset.                                                      *)
(***************************************************************************)
Updating == pc \in {"connect", "update", "reset"}

\* cluster_nodes_swap_ctx: the connections of addresses that stay; and the
\* old nodes with all others are freed
Swapped(new) == [k \in Keys |-> IF k \in new \cap nodes THEN con[k] ELSE NoCon]

\* a server gives its slots: cc->nodes and cc->table are replaced
Update ==
    /\ Updating
    /\ \E n \in nodes \ tried :
          /\ Host(n) \in alive
          /\ table' = view[Host(n)]
          /\ nodes' = {view[Host(n)][s] : s \in Slots}
    /\ con' = Swapped(nodes')
    /\ orphans' = orphans \cup UNION {redisFree(con[k]) : k \in {k \in Keys : con'[k] = NoCon}}
    /\ err' = FALSE
    /\ tried' = {}
    /\ c' = None
    /\ IF pc = "update"
       THEN pc' = "retry" /\ UNCHANGED <<need_update_route, piping>>
       ELSE pc' = "idle" /\ need_update_route' = FALSE /\ piping' = FALSE
    /\ UNCHANGED <<server, executed, host, retry_count, requests, draining, cur, answer, bounds>>

\* the error exit releases what has been made of the new route, and the
\* connection by which it was asked for; the old route stays
UpdateError == err' = TRUE /\ UNCHANGED <<route, con>>

\* a server does not
UpdateTry ==
    /\ Updating
    /\ \E n \in nodes \ tried :
          /\ \/ redisConnect(Host(n)).err /\ UNCHANGED faults
             \/ faults < MaxFaults /\ faults' = faults + 1
          /\ tried' = tried \cup {n}
    /\ UpdateError
    /\ UNCHANGED <<server, orphans, executed, retry_count, pipe, pc, cur, c, answer, calls, refusals, moves>>

\* none does
UpdateFails ==
    /\ Updating
    /\ nodes \subseteq tried
    /\ IF pc = "update"
       THEN Fail /\ UNCHANGED piping
       ELSE Idle /\ err' = TRUE /\ piping' = FALSE /\ UNCHANGED <<retry_count, answer>>
    /\ UNCHANGED <<server, orphans, executed, route, con, requests, need_update_route, draining, bounds>>

-----------------------------------------------------------------------------
(***************************************************************************)
(* The pipeline: redisClusterAppendCommand, redisClusterGetReply and       *)
(* redisClusterReset.                                                      *)
(***************************************************************************)
AppendCall ==
    /\ pc = "idle"
    /\ Careful => ~(piping /\ err)
    /\ calls < MaxCalls
    /\ calls' = calls + 1
    /\ \E S \in Commands : \E q \in Split(S) : cur' = [id |-> calls', todo |-> q, got |-> <<>>]
    /\ pc' = "append"
    /\ piping' = TRUE
    /\ answer' = NoAnswer
    /\ UNCHANGED <<server, orphans, executed, route, con, err, retry_count, requests, need_update_route,
                   draining, c, tried, faults, refusals, moves>>

\* mutant: the caller is not told of the failure
AppendSub_NoError ==
    /\ pc = "append"
    /\ LET n == table[AtSlot]
           x == ctx_get_by_node(n)
           got == Append(cur.got, This)
       IN  IF n = None \/ (n # None /\ x.err)
           THEN /\ IF n = None THEN UNCHANGED <<con, orphans>> ELSE SetCon(n, x)
                /\ Idle
                /\ UNCHANGED <<err, requests>>
           ELSE /\ SetCon(n, Put(x, This))
                /\ UNCHANGED err
                /\ IF Len(got) < Len(cur.todo)
                   THEN cur' = [cur EXCEPT !.got = got] /\ UNCHANGED <<pc, c, tried, requests>>
                   ELSE Idle /\ requests' = Append(requests, [cur EXCEPT !.got = <<>>])
    /\ UNCHANGED <<server, executed, route, retry_count, need_update_route, piping, draining, answer, bounds>>

\* __redisClusterAppendCommand, for the next sub-command; when it fails, the
\* ones before it stay in the buffers of their nodes
AppendSub ==
    /\ pc = "append"
    /\ LET n == table[AtSlot]
           x == ctx_get_by_node(n)
           got == Append(cur.got, This)
       IN  IF n = None \/ (n # None /\ x.err)
           THEN /\ IF n = None THEN UNCHANGED <<con, orphans>> ELSE SetCon(n, x)
                /\ Idle
                /\ err' = TRUE
                /\ UNCHANGED requests
           ELSE /\ SetCon(n, Put(x, This))
                /\ UNCHANGED err
                /\ IF Len(got) < Len(cur.todo)
                   THEN cur' = [cur EXCEPT !.got = got] /\ UNCHANGED <<pc, c, tried, requests>>
                   ELSE Idle /\ requests' = Append(requests, [cur EXCEPT !.got = <<>>])
    /\ UNCHANGED <<server, executed, route, retry_count, need_update_route, piping, draining, answer, bounds>>

\* redisClusterGetReply, called by the user or by redisClusterReset
GetReply ==
    /\ \/ pc = "idle" /\ (Careful => ~err)
       \/ pc = "drain" /\ ~err
    /\ requests # <<>>
    /\ cur' = Head(requests)
    /\ requests' = Tail(requests)
    /\ pc' = "get"
    /\ err' = FALSE
    /\ answer' = NoAnswer
    /\ UNCHANGED <<server, orphans, executed, route, con, retry_count, need_update_route, piping, draining, c, tried, bounds>>

PipeFails == Idle /\ err' = TRUE /\ UNCHANGED answer

\* __redisClusterGetReply, for the next sub-command: its node is looked up
\* again
Collect ==
    /\ pc = "get"
    /\ LET n == table[AtSlot]
           x == ctx_get_by_node(n)
       IN  IF n = None
           THEN PipeFails /\ UNCHANGED <<con, orphans, retry_count, need_update_route>>
           ELSE /\ SetCon(n, x)
                /\ IF x.err
                   THEN /\ PipeFails
                        /\ retry_count' = IF need_update_route THEN retry_count
                                          ELSE IF MayRedirect THEN retry_count + 1 ELSE 0
                        /\ need_update_route' = (need_update_route \/ ~MayRedirect)
                   ELSE /\ pc' = "collect"
                        /\ c' = n
                        /\ UNCHANGED <<cur, tried, err, answer, retry_count, need_update_route>>
    /\ UNCHANGED <<server, executed, route, requests, piping, draining, bounds>>

Collected ==
    /\ pc = "collect"
    /\ \E r \in Incoming :
          /\ Read
          /\ need_update_route' = (need_update_route \/ r.t = "moved")
          /\ LET got == Append(cur.got, r)
             IN  IF Len(got) < Len(cur.todo)
                 THEN cur' = [cur EXCEPT !.got = got] /\ pc' = "get" /\ UNCHANGED <<c, tried, answer>>
                 ELSE Idle /\ answer' = [id |-> cur.id, slots |-> cur.todo, got |-> got]
    /\ UNCHANGED <<server, executed, route, err, retry_count, requests, piping, draining, bounds>>

CollectFails ==
    /\ pc = "collect"
    /\ ReadFails
    /\ PipeFails
    /\ UNCHANGED <<server, executed, route, retry_count, pipe, calls, refusals, moves>>

\* redisCLusterSendAll: each node of S gets a context and writes its buffer,
\* up to the first one that has an error
Flush(x) ==
    IF x.err \/ x.out = <<>> THEN x
    ELSE IF x.up THEN [x EXCEPT !.wire = @ \o x.out, !.out = <<>>]
    ELSE [x EXCEPT !.err = TRUE]

SendAll ==
    \E S \in SUBSET nodes :
        LET sent == [k \in S |-> Flush(ctx_get_by_node(k))]
            bad == {k \in S : sent[k].err}
        IN  /\ \/ bad = {} /\ S = nodes
               \/ Cardinality(bad) = 1
            /\ con' = [k \in Keys |-> IF k \in S THEN sent[k] ELSE con[k]]
            /\ orphans' = orphans \cup UNION {redisFree(con[k]) : k \in {k \in S : con[k] # NoCon /\ con[k].err}}

\* redisClusterReset
Reset ==
    /\ pc = "idle"
    /\ piping
    /\ IF err THEN UNCHANGED <<con, orphans>> ELSE SendAll
    /\ draining' = TRUE
    /\ pc' = "drain"
    /\ answer' = NoAnswer
    /\ UNCHANGED <<server, executed, route, err, retry_count, requests, need_update_route, piping,
                   cur, c, tried, bounds>>

\* redisCLusterClearAll: every connection is closed
ClearAll ==
    /\ con' = [k \in Keys |-> NoCon]
    /\ orphans' = orphans \cup UNION {redisFree(con[k]) : k \in Keys}

\* the end of redisClusterReset
Drained ==
    /\ pc = "drain"
    /\ err \/ requests = <<>>
    /\ IF err THEN ClearAll ELSE UNCHANGED <<con, orphans>>
    /\ err' = FALSE
    /\ requests' = <<>>
    /\ draining' = FALSE
    /\ IF need_update_route
       THEN pc' = "reset" /\ UNCHANGED piping
       ELSE pc' = "idle" /\ piping' = FALSE
    /\ UNCHANGED <<server, executed, route, retry_count, need_update_route, cur, c, tried, answer, bounds>>

\* redisClusterFree, in the destructor of redis_data
Free ==
    /\ pc = "idle"
    /\ pc' = "freed"
    /\ ClearAll
    /\ requests' = <<>>
    /\ UNCHANGED <<server, executed, route, err, retry_count, need_update_route, piping, draining,
                   cur, c, tried, answer, bounds>>

-----------------------------------------------------------------------------
(***************************************************************************)
(* The servers.                                                            *)
(***************************************************************************)

\* what server a may answer to a sub-command
Answers(a, m, asking) ==
    LET s == m.slot
    IN  IF view[a][s] = a
        THEN {Reply("ok", m, a)} \cup IF mig[s] = None THEN {} ELSE {Reply("ask", m, mig[s])}
        ELSE IF asking /\ mig[s] = a THEN {Reply("ok", m, a)}
        ELSE {Reply("moved", m, view[a][s])}

Refusals(m, a) == {Reply(t, m, a) : t \in {"again", "error"}}

Execute(r) ==
    executed' = IF r.t = "ok" THEN [executed EXCEPT ![r.id][r.slot] = @ + 1] ELSE executed

\* a server takes the next message of a connection and replies
Serve ==
    /\ \E k \in Keys :
          /\ con[k] # NoCon
          /\ con[k].up
          /\ con[k].wire # <<>>
          /\ LET m == Head(con[k].wire)
             IN  \E r \in IF m.t = "cmd"
                          THEN Answers(con[k].to, m, con[k].asking)
                                  \cup IF refusals < MaxRefusals THEN Refusals(m, con[k].to) ELSE {}
                          ELSE {Reply(IF m.t = "ping" THEN "pong" ELSE "status", m, con[k].to)} :
                    /\ con' = [con EXCEPT ![k].wire = Tail(@), ![k].in = Append(@, r),
                                          ![k].asking = m = Asking]
                    /\ refusals' = IF r \in Refusals(m, con[k].to) THEN refusals + 1 ELSE refusals
                    /\ Execute(r)
    /\ UNCHANGED <<server, orphans, route, err, retry_count, pipe, control, answer, calls, faults, moves>>

\* a server gets to a command whose connection has been closed meanwhile
ServeLate ==
    /\ \E o \in orphans :
          /\ o.to \in alive
          /\ \E r \in Answers(o.to, o.msg, o.asking) : Execute(r)
          /\ orphans' = orphans \ {o}
    /\ UNCHANGED <<server, route, con, err, retry_count, pipe, control, answer, bounds>>

\* the connection breaks, with or without the replies that were on their way
Break ==
    /\ faults < MaxFaults
    /\ faults' = faults + 1
    /\ \E k \in Keys :
          /\ con[k] # NoCon
          /\ con[k].up
          /\ \E lost \in BOOLEAN :
                con' = [con EXCEPT ![k].up = FALSE, ![k].wire = <<>>, ![k].in = IF lost THEN <<>> ELSE @]
          /\ orphans' = orphans \cup redisFree(con[k])
    /\ UNCHANGED <<server, executed, route, err, retry_count, pipe, control, answer, calls, refusals, moves>>

Crash ==
    /\ faults < MaxFaults
    /\ faults' = faults + 1
    /\ \E a \in alive :
          /\ alive' = alive \ {a}
          /\ con' = [k \in Keys |-> IF con[k].to = a /\ a # None
                                    THEN [con[k] EXCEPT !.up = FALSE, !.wire = <<>>, !.in = <<>>]
                                    ELSE con[k]]
          /\ orphans' = {o \in orphans : o.to # a}
    /\ UNCHANGED <<view, mig, executed, route, err, retry_count, pipe, control, answer, calls, refusals, moves>>

Restart ==
    /\ \E a \in Addrs \ alive : alive' = alive \cup {a}
    /\ UNCHANGED <<view, mig, orphans, executed, route, con, err, retry_count, pipe, control, answer, bounds>>

\* a slot begins to move to another server
Migrate ==
    /\ moves < MaxMoves
    /\ moves' = moves + 1
    /\ \E s \in Slots, a \in Addrs : mig[s] = None /\ view[a][s] # a /\ mig' = [mig EXCEPT ![s] = a]
    /\ UNCHANGED <<alive, view, orphans, executed, route, con, err, retry_count, pipe, control, answer,
                   calls, faults, refusals>>

\* it has moved, as the new server knows first
Migrated ==
    /\ \E s \in Slots :
          /\ mig[s] # None
          /\ view[mig[s]][s] # mig[s]
          /\ view' = [view EXCEPT ![mig[s]][s] = mig[s]]
    /\ UNCHANGED <<alive, mig, orphans, executed, route, con, err, retry_count, pipe, control, answer, bounds>>

\* a server learns from another one that a slot is now there
Gossip ==
    /\ \E a, b \in Addrs, s \in Slots :
          /\ mig[s] = b
          /\ view[b][s] = b
          /\ view[a][s] # b
          /\ view' = [view EXCEPT ![a][s] = b]
          /\ mig' = IF \A x \in Addrs : view'[x][s] = b THEN [mig EXCEPT ![s] = None] ELSE mig
    /\ UNCHANGED <<alive, orphans, executed, route, con, err, retry_count, pipe, control, answer, bounds>>

execute == NoNode \/ Retry \/ TryNode \/ NoneReachable \/ Pong \/ PongFails \/ NoReply \/ Accept
           \/ Moved \/ Ask \/ AskingReply
update == Update \/ UpdateTry \/ UpdateFails
pipeline == AppendSub \/ Collect \/ Collected \/ CollectFails \/ Drained
            \/ (pc = "drain" /\ GetReply)
client == Write \/ execute \/ update \/ pipeline
caller == Call \/ AppendCall \/ (pc = "idle" /\ GetReply) \/ Reset \/ Free
environment == Serve \/ ServeLate \/ Break \/ Crash \/ Restart \/ Migrate \/ Migrated \/ Gossip

Next == client \/ caller \/ environment

Spec == Init /\ [][Next]_vars

(***************************************************************************)
(* The thread of the client goes on while it can, and a server that runs   *)
(* answers: no timeout is set by redis_op.cpp, so without this a call may  *)
(* wait for ever.                                                          *)
(***************************************************************************)
FairSpec == Spec /\ WF_vars(client) /\ WF_vars(Serve)

-----------------------------------------------------------------------------
(***************************************************************************)
(* Properties.                                                             *)
(***************************************************************************)

\* Whatever is redirected, retried, timed out or reconnected: the replies
\* that redisClusterCommand and redisClusterGetReply give are those to the
\* sub-commands of their own command, in the order of its slots.
ReplyMatches ==
    \A i \in DOMAIN answer.got : answer.got[i].id = answer.id /\ answer.got[i].slot = answer.slots[i]

\* A command is executed at most once: it is sent again only after a reply
\* that says that it was not executed.
AtMostOnce == \A i \in 1 .. MaxCalls, s \in Slots : executed[i][s] <= 1

\* Between calls nothing is outstanding on a connection that is still good,
\* so that the next command reads its own reply.
NothingOutstanding ==
    pc = "idle" /\ ~piping =>
        \A k \in nodes : con[k] # NoCon /\ ~con[k].err => con[k].out \o con[k].wire \o con[k].in = <<>>

Busy == pc \notin {"idle", "freed"} /\ ~draining

\* Every command, and every fetch of a reply, comes to an end: no chain of
\* redirections, retries, searches and route updates goes on for ever, and
\* nobody waits on a connection on which nothing was sent.  redisClusterReset
\* is left out: redisCLusterSendAll may fail to write the commands, and
\* ctx_get_by_node then connects again and waits for the replies to them.
CallReturns == Busy ~> ~Busy
=============================================================================
