--------------------------- MODULE ClusterCommand ---------------------------
(***************************************************************************)
(* The way of the data through hiredis-vip: a client learns the route from *)
(* a server, formats a command, sends the sub-commands to the nodes of     *)
(* their slots, by redisClusterCommand one after the other or through the  *)
(* pipeline all at once, reads the replies as the bytes arrive, and makes  *)
(* one reply of them.  Nobody fails and no slot moves here: HirCluster is  *)
(* about that, and knows commands by their numbers only.                   *)
(*                                                                         *)
(* The servers, which are not part of the repository, execute commands and *)
(* answer in the protocol that the reader of the client reads.             *)
(***************************************************************************)
EXTENDS RedisReader, RedisCommand, Route

CONSTANTS Masters, SlaveOf,   \* the servers; SlaveOf[a] is the master of the slave a
          Data,               \* what is stored at first: a function on the keys
          Requests,           \* what may be called: [argv, how]
          MaxRefusals         \* bound: commands that a server refuses

ASSUME OneTable == Slots = AllSlots

VARIABLES owner,        \* the master of each slot
          route,        \* cc->nodes and cc->table
          said,         \* the flags with which, and the command by which, the route was asked for
          phase,        \* what the client does
          request,      \* the call
          argv,         \* its arguments, formatted
          subs,         \* its sub-commands
          sent,         \* how many of them have been sent
          replies,      \* the replies to the first ones
          store,        \* what is stored
          stream,       \* bytes on their way, by node
          reader,       \* the reader of each node's connection
          result,       \* what the caller is given
          refusals

client == <<route, said, phase, request, argv, subs, sent, replies, reader, result>>
servers == <<owner, store, stream, refusals>>
vars == <<client, servers>>

\* the caller is given a reply that has been freed with its command
Freed == [type |-> "freed"]

NothingSaid == [by |-> "nodes", add_slave |-> FALSE, add_openslot |-> FALSE, self |-> NoAddress,
                busport |-> FALSE]
NoRequest == [argv |-> <<>>, how |-> "none"]

Init ==
    /\ owner \in [AllSlots -> Masters \cup {NoAddress}]
    /\ route = NoRoute
    /\ said = NothingSaid
    /\ phase = "route"
    /\ request = NoRequest
    /\ argv = <<>>
    /\ subs = <<>>
    /\ sent = 0
    /\ replies = <<>>
    /\ store = Data
    /\ stream = [m \in Masters |-> <<>>]
    /\ reader = [m \in Masters |-> redisReaderCreate]
    /\ result = NoReply
    /\ refusals = 0

-----------------------------------------------------------------------------
(***************************************************************************)
(* The servers.                                                            *)
(***************************************************************************)
\* the regions of a master, as long as they can be
RunsOf(m) ==
    {r \in AllSlots \X AllSlots :
        /\ r[1] <= r[2]
        /\ \A s \in r[1] .. r[2] : owner[s] = m
        /\ r[1] = 0 \/ owner[r[1] - 1] # m
        /\ r[2] = REDIS_CLUSTER_SLOTS - 1 \/ owner[r[2] + 1] # m}

SlavesOf(m) == {a \in DOMAIN SlaveOf : SlaveOf[a] = m}

\* CLUSTER SLOTS, in any order; self is the server that answers, if it does
\* not know its own host yet
SlotsReplies(self) ==
    SetToSeqs({[start |-> r[1], end |-> r[2],
                nodes |-> <<IF m = self THEN NoAddress ELSE m>> \o SetToSeq(SlavesOf(m))] :
                 <<m, r>> \in {<<x, q>> \in Masters \X (AllSlots \X AllSlots) : q \in RunsOf(x)}})

\* CLUSTER NODES, in any order, with a server that has been forgotten; a
\* master may be moving a slot
PartOf(r) == IF r[1] = r[2] THEN [kind |-> "slot", start |-> r[1], end |-> r[1]]
             ELSE [kind |-> "range", start |-> r[1], end |-> r[2]]
Moving(s, to) == [kind |-> to, start |-> s, end |-> s]

NodesReplies ==
    UNION {SetToSeqs(
              {[name |-> m, addr |-> m, role |-> "master", master |-> NoAddress, busport |-> busport,
                parts |-> SetToSeq({PartOf(r) : r \in RunsOf(m)})
                          \o (IF owner[0] = m THEN <<Moving(0, "migrating")>> ELSE <<Moving(0, "importing")>>)] : m \in Masters}
              \cup {[name |-> a, addr |-> a, role |-> "slave", master |-> SlaveOf[a], busport |-> busport,
                     parts |-> <<>>] : a \in DOMAIN SlaveOf}
              \cup {[name |-> NoAddress, addr |-> NoAddress, role |-> "master", master |-> NoAddress,
                     busport |-> busport, parts |-> <<>>]}) : busport \in BOOLEAN}

\* the keys of a command, as a server knows them
KeysOf(a) ==
    LET name == a[1][1]
        at == CASE name \in redis_argx -> 2 .. Len(a)
                [] name \in redis_argkvx -> {i \in 2 .. Len(a) : i % 2 = 0}
                [] name \in redis_argeval -> 4 .. 3 + Digit[a[3][1]]
                [] OTHER -> {2}
    IN  {a[i] : i \in at}

\* hash tags, as a server knows them
SlotOf(key) ==
    LET tags == {<<s, e>> \in (DOMAIN key) \X (DOMAIN key) :
                    /\ key[s] = "{" /\ \A i \in 1 .. s - 1 : key[i] # "{"
                    /\ s < e /\ key[e] = "}" /\ \A i \in s + 1 .. e - 1 : key[i] # "}"}
    IN  IF \E t \in tags : t[2] > t[1] + 1
        THEN LET t == CHOOSE t \in tags : TRUE IN crc16(SubSeq(key, t[1] + 1, t[2] - 1))
        ELSE crc16(key)

OK == StringObject("status", <<"OK">>)
Err == StringObject("error", <<"ERR">>)
Value(st, k) == IF st[k] = NoAddress THEN NilObject ELSE StringObject("string", st[k])
Scripts == [flat |-> ArrayObject(<<IntegerObject(-1), ArrayObject(<<>>), NilObject, OK>>),
            deep |-> ArrayObject(<<ArrayObject(<<ArrayObject(<<IntegerObject(1)>>)>>)>>)]

\* a command, on one server that has every key
Execute(st, a) ==
    LET name == a[1][1]
    IN  CASE name = "get" -> [store |-> st, reply |-> Value(st, a[2])]
          [] name = "set" /\ Len(a) = 3 -> [store |-> [st EXCEPT ![a[2]] = a[3]], reply |-> OK]
          [] name = "mget" ->
                [store |-> st, reply |-> ArrayObject([i \in 1 .. Len(a) - 1 |-> Value(st, a[i+1])])]
          [] name = "del" ->
                [store |-> [k \in DOMAIN st |-> IF k \in KeysOf(a) THEN NoAddress ELSE st[k]],
                 reply |-> IntegerObject(Cardinality({k \in KeysOf(a) : st[k] # NoAddress}))]
          [] name = "mset" /\ Len(a) % 2 = 1 ->
                [store |-> [k \in DOMAIN st |->
                              IF k \in KeysOf(a) THEN a[1 + Max({i \in 2 .. Len(a) : i % 2 = 0 /\ a[i] = k})]
                              ELSE st[k]],
                 reply |-> OK]
          [] name = "eval" -> [store |-> st, reply |-> Scripts[a[2][1]]]
          [] OTHER -> [store |-> st, reply |-> Err]

\* a server that has not all of the keys refuses
Serve(m, a) ==
    IF \E k \in KeysOf(a) : owner[SlotOf(k)] # m THEN [store |-> store, reply |-> Err]
    ELSE Execute(store, a)

Line(s) == s \o <<"CR", "LF">>
DigitOf(n) == CHOOSE d \in DOMAIN Digit : Digit[d] = n
Decimal(n) == IF n < 0 THEN <<"-", DigitOf(-n)>>
              ELSE IF n < 10 THEN <<DigitOf(n)>>
              ELSE <<DigitOf(n \div 10), DigitOf(n % 10)>>

RECURSIVE Encode(_)
\* a reply in the protocol
Encode(x) ==
    CASE x.type = "status" -> Line(<<"+">> \o x.str)
      [] x.type = "error" -> Line(<<"-">> \o x.str)
      [] x.type = "integer" -> Line(<<":">> \o Decimal(x.integer))
      [] x.type = "string" -> Line(<<"$">> \o Decimal(Len(x.str))) \o Line(x.str)
      [] x.type = "nil" -> Line(<<"$", "-", "1">>)
      [] x.type = "array" ->
            Line(<<"*">> \o Decimal(Len(x.element))) \o FlattenSeq([i \in DOMAIN x.element |-> Encode(x.element[i])])

-----------------------------------------------------------------------------
(***************************************************************************)
(* The client.                                                             *)
(***************************************************************************)

\* the options of the cluster context, set before the route is asked for
SetOption(s) ==
    /\ phase = "route"
    /\ said # s
    /\ said' = s
    /\ UNCHANGED <<servers, route, phase, request, argv, subs, sent, replies, reader, result>>

redisClusterSetOptionParseSlaves == SetOption([said EXCEPT !.add_slave = TRUE])
redisClusterSetOptionParseOpenSlots == SetOption([said EXCEPT !.add_openslot = TRUE])
redisClusterSetOptionRouteUseSlots == SetOption([said EXCEPT !.by = "slots"])

\* cluster_update_route_by_addr, with what one server says
Update ==
    /\ phase = "route"
    /\ \/ /\ said.by = "slots"
          /\ \E self \in Masters \cup {NoAddress} :
                /\ said' = [said EXCEPT !.self = self]
                /\ \E reply \in SlotsReplies(self) : route' = RouteOf(parse_cluster_slots(reply, said.add_slave))
       \/ /\ said.by = "nodes"
          /\ \E reply \in NodesReplies :
                /\ said' = [said EXCEPT !.busport = Head(reply).busport]
                /\ route' = RouteOf(parse_cluster_nodes(reply, said))
    /\ phase' = "routed"
    /\ UNCHANGED <<servers, request, argv, subs, sent, replies, reader, result>>

\* the arguments of a call: one string with a space between the arguments,
\* as redis_insert and redis_select are called, a %s for each, or as they are
redisFormatCommandArgv(args) == [argv |-> args, err |-> FALSE, undefined |-> FALSE]
Format(q) ==
    IF q.how = "argv" THEN redisFormatCommandArgv(q.argv)
    ELSE IF q.how \in {"text", "pipe"}
    THEN redisvFormatCommand(FlattenSeq([i \in DOMAIN q.argv |-> (IF i = 1 THEN <<>> ELSE <<" ">>) \o q.argv[i]]), <<>>)
    ELSE redisvFormatCommand(FlattenSeq([i \in DOMAIN q.argv |-> (IF i = 1 THEN <<>> ELSE <<" ">>) \o <<"%", "s">>]), q.argv)

\* the route is in place; of it, only the table matters from here on, and
\* whether there are ports to connect to
Install ==
    /\ phase = "routed"
    /\ phase' = "ready"
    /\ IF route.ok THEN route' = [ok |-> TRUE, nodes |-> Empty, table |-> route.table,
                                     usable |-> \A m \in DOMAIN route.nodes : route.nodes[m].usable]
       ELSE UNCHANGED route
    /\ said' = NothingSaid
    /\ UNCHANGED <<servers, request, argv, subs, sent, replies, reader, result>>

\* redisClusterCommand, or redisClusterAppendCommand
Issue ==
    /\ phase = "ready"
    /\ \E q \in Requests :
          LET f == Format(q)
          IN  /\ request' = q
              /\ argv' = f.argv
              /\ subs' = IF f.err \/ f.undefined THEN <<>> ELSE command_format_by_slot(f.argv)
              /\ phase' = IF f.undefined \/ Overrun(subs') THEN "undefined"
                           ELSE IF subs' = <<>> \/ ~route.ok THEN "done" ELSE "send"
              /\ result' = IF phase' = "done" THEN Null ELSE NoReply
    /\ UNCHANGED <<servers, route, said, sent, replies, reader>>

Pipelined == request.how = "pipe"
NodeOf(j) == route.table[subs[j].slot]

\* the next sub-command goes to its node; a server executes it, or refuses
Send ==
    /\ phase = "send"
    /\ NodeOf(sent + 1) # NoAddress
    /\ route.usable
    /\ LET m == NodeOf(sent + 1)
           done == Serve(m, subs[sent + 1].argv)
       IN  \/ /\ store' = done.store
              /\ stream' = [stream EXCEPT ![m] = @ \o Encode(done.reply)]
              /\ UNCHANGED refusals
           \/ /\ refusals < MaxRefusals
              /\ refusals' = refusals + 1
              /\ stream' = [stream EXCEPT ![m] = @ \o Encode(Err)]
              /\ UNCHANGED store
    /\ sent' = sent + 1
    /\ phase' = IF Pipelined /\ sent' < Len(subs) THEN "send" ELSE "read"
    /\ UNCHANGED <<owner, route, said, request, argv, subs, replies, reader, result>>

\* no node has the slot, or none has a port to connect to
NoNode ==
    /\ phase = "send"
    /\ NodeOf(sent + 1) = NoAddress \/ ~route.usable
    /\ phase' = "done"
    /\ result' = Null
    /\ UNCHANGED <<servers, route, said, request, argv, subs, sent, replies, reader>>

Next1 == Len(replies) + 1
Polled == redisReaderGetReply(reader[NodeOf(Next1)])

\* redisGetReply: there is no reply in the buffer, and redisBufferRead reads
\* some bytes
Feed ==
    /\ phase = "read"
    /\ Polled.reply = NoReply
    /\ ~Polled.err
    /\ LET m == NodeOf(Next1)
       IN  \E n \in 1 .. Len(stream[m]) :
              /\ reader' = [reader EXCEPT ![m] = redisReaderFeed(Polled, SubSeq(stream[m], 1, n))]
              /\ stream' = [stream EXCEPT ![m] = SubSeq(@, n + 1, Len(@))]
    /\ UNCHANGED <<owner, store, refusals, route, said, phase, request, argv, subs, sent, replies, result>>

\* the reply that the caller is given when the last one has come: it is one
\* of the sub-commands' own if one was refused, and those of the pipeline
\* are freed with their command
Merged(got) ==
    IF Len(subs) = 1 THEN got[1]
    ELSE LET reply == command_post_fragment(argv, subs, got)
         IN  IF Pipelined /\ reply.type = "error" THEN Freed ELSE reply

\* redisGetReply gives a reply
Take ==
    /\ phase = "read"
    /\ Polled.reply # NoReply
    /\ reader' = [reader EXCEPT ![NodeOf(Next1)] = [Polled EXCEPT !.reply = NoReply]]
    /\ replies' = Append(replies, Polled.reply)
    /\ IF Len(replies') = Len(subs)
       THEN phase' = "done" /\ result' = Merged(replies')
       ELSE IF ~Pipelined /\ Polled.reply.type = "error"
            THEN phase' = "done" /\ result' = Polled.reply
       ELSE phase' = (IF Pipelined THEN "read" ELSE "send") /\ UNCHANGED result
    /\ UNCHANGED <<servers, route, said, request, argv, subs, sent>>

\* the reader has given up: the connection is closed
ReadError ==
    /\ phase = "read"
    /\ Polled.err
    /\ phase' = "done"
    /\ result' = Null
    /\ reader' = [reader EXCEPT ![NodeOf(Next1)] = redisReaderCreate]
    /\ stream' = [stream EXCEPT ![NodeOf(Next1)] = <<>>]
    /\ UNCHANGED <<owner, store, refusals, route, said, request, argv, subs, sent, replies>>

Over == phase \in {"done", "undefined"} /\ UNCHANGED vars

Next == redisClusterSetOptionParseSlaves \/ redisClusterSetOptionParseOpenSlots \/ redisClusterSetOptionRouteUseSlots
        \/ Update \/ Install \/ Issue \/ Send \/ NoNode \/ Feed \/ Take \/ ReadError \/ Over

Spec == Init /\ [][Next]_vars

-----------------------------------------------------------------------------
(***************************************************************************)
(* Properties.                                                             *)
(***************************************************************************)

\* Whether the client asks with CLUSTER SLOTS or CLUSTER NODES, in whatever
\* order a server names regions, masters and slaves: the table that it makes
\* gives every slot its owner, and each master has its slaves, each once, and
\* a port to connect to; and there is one unless no slot has an owner, or the
\* server that answers owns some and does not know its own host.  Only when
\* CLUSTER NODES is answered with the ports of the cluster bus are the ports
\* not understood, and a server that has been forgotten is taken for a master.
RouteTrue ==
    phase = "routed" =>
        /\ route.ok \/ (said.by = "slots" /\ (Range(owner) = {NoAddress} \/ said.self \in Range(owner) \ {NoAddress}))
        /\ route.ok =>
              /\ route.table = owner
              /\ \A m \in DOMAIN route.nodes :
                    /\ m \in Masters \/ (m = NoAddress /\ said.busport)
                    /\ route.nodes[m].usable = ~said.busport
                    /\ Range(route.nodes[m].slaves) = (IF said.add_slave THEN SlavesOf(m) ELSE {})
                    /\ IsInjective(route.nodes[m].slaves)

Plain(arg) == arg # <<>> /\ {" ", "%"} \cap Range(arg) = {}

\* A command that is passed as an array, or with a %s for each argument,
\* reaches the parser with these arguments, and so does one that is passed as
\* a text if no argument is empty or has a space or a % in it.
ArgumentsKept ==
    phase \notin {"route", "routed", "ready"} /\ (request.how \in {"args", "argv"} \/ \A i \in DOMAIN request.argv : Plain(request.argv[i])) =>
        argv = request.argv

Splits == argv[1][1] \in redis_argx \cup redis_argkvx
OneSlot == Cardinality({SlotOf(k) : k \in KeysOf(argv)}) = 1
TooDeep == Contains(argv, <<"deep">>)

\* MGET, MSET and DEL on keys in several slots, and every command on keys in
\* one slot, do and give what they would on one server with all the keys: no
\* key is lost, no value goes to another key, and the values come back in
\* the order of the keys, however the bytes of the replies arrive.
AsOnOneServer ==
    phase = "done" /\ sent > 0 /\ sent = Len(subs) /\ refusals = 0 /\ (Splits \/ OneSlot) /\ ~TooDeep =>
        /\ result = Execute(Data, argv).reply
        /\ store = Execute(Data, argv).store

\* When a call returns, no byte of its replies is left behind in a buffer or
\* on the way, where the next call would take it for its own reply; unless
\* a sub-command in a pipeline failed and the pipeline has to be reset.
NothingLeftOver ==
    phase = "done" /\ (Pipelined => sent = Len(replies)) =>
        \A m \in Masters : stream[m] = <<>> /\ Rest(reader[m]) = <<>>

\* the sub-commands that command_pre_fragment has written
Fragments == {s \in Range(subs) : Splits /\ (Len(subs) > 1 \/ Len(s.keys) > 1)}

\* an empty key comes behind a number of two digits in the same sub-command:
\* the length of the last key that is not empty, or the number of arguments
EmptyBehindTwoDigits(s) ==
    \E i \in DOMAIN s.keys :
        LET before == {k \in 1 .. i - 1 : argv[s.keys[k]] # <<>>}
        IN  /\ argv[s.keys[i]] = <<>>
            /\ (IF before = {} THEN Len(s.argv) ELSE Len(argv[s.keys[Max(before)]])) >= 10

\* The buffer that command_pre_fragment allocates for a sub-command is as
\* long as what is written into it, and that is as long as the protocol has
\* it, for keys and values on both sides of the border of a digit.  Only an
\* empty key behind a number of two digits is written with the last digits
\* of that number, and over the end of the buffer.
LengthsExact ==
    \A s \in Fragments :
        /\ s.clen = FormattedLength(s.argv)
        /\ IF EmptyBehindTwoDigits(s) THEN s.idx > s.clen ELSE s.idx = s.clen
=============================================================================
