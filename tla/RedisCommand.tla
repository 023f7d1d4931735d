---------------------------- MODULE RedisCommand ----------------------------
(***************************************************************************)
(* What happens to a command on its way to the servers and to its replies  *)
(* on their way back: redisvFormatCommand (hiredis.c) makes arguments of a *)
(* format string, redis_parse_cmd (command.c) finds the keys among them,   *)
(* command_pre_fragment (hircluster.c) makes one sub-command per slot, and *)
(* command_post_fragment one reply of their replies.                       *)
(*                                                                         *)
(* A string is a sequence of symbols.  A symbol is a character, or a word  *)
(* that no code looks into.  A formatted command is the sequence of its    *)
(* arguments: the unified protocol gives the number of the arguments, and  *)
(* the length of each.                                                     *)
(***************************************************************************)
EXTENDS Integers, SequencesExt, FiniteSetsExt

CONSTANTS Slots,       \* 0 .. 16383: the hash slots
          crc16(_)     \* the slot of a string: crc16 & 0x3FFF

-----------------------------------------------------------------------------
(***************************************************************************)
(* redisvFormatCommand.                                                    *)
(***************************************************************************)
Flags == {" ", "#", "0", "-", "+"}
Conversions == {"d", "f"}     \* conversions of printf

NoArgs == [argv |-> <<>>, curarg |-> <<>>, touched |-> FALSE, spec |-> "no", pass |-> <<>>,
           err |-> FALSE, undefined |-> FALSE]

\* an argument is complete
EndArg(f) ==
    IF f.touched THEN [f EXCEPT !.argv = Append(@, f.curarg), !.curarg = <<>>, !.touched = FALSE]
    ELSE f

\* mutant: an empty argument is no argument
AddTo_NoEmpty(f, s) == [f EXCEPT !.curarg = @ \o s, !.touched = @ \/ s # <<>>, !.spec = "no"]

AddTo(f, s) == [f EXCEPT !.curarg = @ \o s, !.touched = TRUE, !.spec = "no"]

\* what the caller has passed next; if it has passed nothing, va_arg takes
\* whatever is there
va_arg(f) ==
    IF f.pass = <<>> THEN [f EXCEPT !.undefined = TRUE]
    ELSE [AddTo(f, Head(f.pass)) EXCEPT !.pass = Tail(@)]

\* the next character of the format
FormatChar(f, ch, last) ==
    IF f.err \/ f.undefined THEN f
    ELSE IF f.spec = "no"
         THEN IF ch = "%" /\ ~last THEN [f EXCEPT !.spec = "first"]
              ELSE IF ch = " " THEN EndArg(f)
              ELSE AddTo(f, <<ch>>)
    ELSE IF f.spec = "first" /\ ch \in {"s", "b"} THEN va_arg(f)
    ELSE IF f.spec = "first" /\ ch = "%" THEN AddTo(f, <<"%">>)
    ELSE IF ch \in Flags THEN [f EXCEPT !.spec = "flags"]
    ELSE IF ch \in Conversions THEN va_arg(f)
    ELSE [f EXCEPT !.err = TRUE]

\* the arguments that a format and what is passed with it make.  A format
\* that ends in the flags of a conversion is taken for a conversion, as
\* strchr finds the end of the string too, and the loop goes on behind it
redisvFormatCommand(format, passed) ==
    LET f == FoldLeftDomain(LAMBDA g, i : FormatChar(g, format[i], i = Len(format)),
                            [NoArgs EXCEPT !.pass = passed], format)
    IN  IF f.spec = "flags" /\ ~f.err THEN [f EXCEPT !.undefined = TRUE] ELSE EndArg(f)

-----------------------------------------------------------------------------
(***************************************************************************)
(* redis_parse_cmd.                                                        *)
(***************************************************************************)
redis_argz == {"ping", "quit"}
redis_arg0 == {"exists", "persist", "pttl", "sort", "ttl", "type", "dump", "decr", "get", "incr", "strlen",
               "hgetall", "hkeys", "hlen", "hvals", "llen", "lpop", "rpop", "scard", "smembers", "spop",
               "zcard", "pfcount", "auth"}
redis_arg1 == {"expire", "expireat", "pexpire", "pexpireat", "append", "decrby", "getbit", "getset", "incrby",
               "incrbyfloat", "setnx", "hexists", "hget", "lindex", "lpushx", "rpoplpush", "rpushx",
               "sismember", "zrank", "zrevrank", "zscore"}
redis_arg2 == {"getrange", "psetex", "setbit", "setex", "setrange", "hincrby", "hincrbyfloat", "hset", "hsetnx",
               "lrange", "lrem", "lset", "ltrim", "smove", "zcount", "zlexcount", "zincrby", "zremrangebylex",
               "zremrangebyrank", "zremrangebyscore", "restore"}
redis_arg3 == {"linsert"}
redis_argn == {"bitcount", "set", "hdel", "hmget", "hmset", "hscan", "lpush", "rpush", "sadd", "sdiff",
               "sdiffstore", "sinter", "sinterstore", "srem", "sunion", "sunionstore", "srandmember", "sscan",
               "pfadd", "pfmerge", "zadd", "zinterstore", "zrange", "zrangebyscore", "zrem", "zrevrange",
               "zrangebylex", "zrevrangebyscore", "zunionstore", "zscan"}
redis_argx == {"mget", "del"}
redis_argkvx == {"mset"}
redis_argeval == {"eval", "evalsha"}

\* the names that SW_REQ_TYPE recognises, by their length
Names3 == {"get", "set", "ttl", "del"}
Names4 == {"pttl", "decr", "dump", "hdel", "hget", "hlen", "hset", "incr", "llen", "lpop", "lrem", "lset",
           "rpop", "sadd", "spop", "srem", "type", "mget", "mset", "zadd", "zrem", "eval", "sort", "ping",
           "quit", "auth"}
Names5 == {"hkeys", "hmget", "hmset", "hvals", "hscan", "lpush", "ltrim", "rpush", "scard", "sdiff", "setex",
           "setnx", "smove", "sscan", "zcard", "zrank", "zscan", "pfadd"}
Names6 == {"append", "decrby", "exists", "expire", "getbit", "getset", "psetex", "hsetnx", "incrby", "lindex",
           "lpushx", "lrange", "rpushx", "setbit", "sinter", "strlen", "sunion", "zcount", "zrange", "zscore"}
Names7 == {"persist", "pexpire", "hexists", "hgetall", "hincrby", "linsert", "zincrby", "evalsha", "restore",
           "pfcount", "pfmerge"}
Names8 == {"expireat", "bitcount", "getrange", "setrange", "smembers", "zrevrank"}
Names9 == {"pexpireat", "rpoplpush", "sismember", "zrevrange", "zlexcount"}
NamesLong == {"sdiffstore", "incrbyfloat", "sinterstore", "srandmember", "sunionstore", "zinterstore",
              "zunionstore", "zrangebylex", "hincrbyfloat", "zrangebyscore", "zremrangebylex",
              "zremrangebyrank", "zremrangebyscore", "zrevrangebyscore"}
Names == Names3 \cup Names4 \cup Names5 \cup Names6 \cup Names7 \cup Names8 \cup Names9 \cup NamesLong

Numbers == {"0", "1", "2", "3"}

\* the parser before the argument that it reads next; at is what that
\* argument is taken for: "KEY", "ARG1", "ARG2", "ARG3", "ARGN"
Go(s, at) == [s EXCEPT !.at = at]
Ok(s) == [s EXCEPT !.at = "done"]
Bad(s) == [s EXCEPT !.at = "error"]
If(cond, s, at) == IF cond THEN Go(s, at) ELSE Bad(s)
OkIf(cond, s) == IF cond THEN Ok(s) ELSE Bad(s)
EndOr(s, at) == IF s.rnarg = 0 THEN Ok(s) ELSE Go(s, at)

\* SW_REQ_TYPE and SW_REQ_TYPE_LF
ReqType(s, arg) ==
    IF Len(arg) # 1 \/ arg[1] \notin Names THEN Bad(s)
    ELSE LET t == [s EXCEPT !.type = arg[1]]
         IN  IF t.type \in redis_argz THEN Ok(t)
             ELSE IF t.type \in redis_argeval THEN Go(t, "ARG1")
             ELSE Go(t, "KEY")

\* SW_KEY and SW_KEY_LF
Key(s, i) ==
    LET k == [s EXCEPT !.keys = Append(@, i)]
    IN  CASE k.type \in redis_arg0 -> OkIf(k.rnarg = 0, k)
          [] k.type \in redis_arg1 -> If(k.rnarg = 1, k, "ARG1")
          [] k.type \in redis_arg2 -> If(k.rnarg = 2, k, "ARG1")
          [] k.type \in redis_arg3 -> If(k.rnarg = 3, k, "ARG1")
          [] k.type \in redis_argn -> EndOr(k, "ARG1")
          [] k.type \in redis_argx -> EndOr(k, "KEY")
          [] k.type \in redis_argkvx ->
                IF k.rnarg # 0 /\ k.narg % 2 = 0 THEN Bad(k) ELSE EndOr(k, "ARG1")
          [] k.type \in redis_argeval -> EndOr(k, "ARGN")

\* SW_ARG1 and SW_ARG1_LF
Arg1(s) ==
    CASE s.type \in redis_arg1 -> OkIf(s.rnarg = 0, s)
      [] s.type \in redis_arg2 -> If(s.rnarg = 1, s, "ARG2")
      [] s.type \in redis_arg3 -> If(s.rnarg = 2, s, "ARG2")
      [] s.type \in redis_argn -> EndOr(s, "ARGN")
      [] s.type \in redis_argeval -> If(s.rnarg >= 2, s, "ARG2")
      [] s.type \in redis_argkvx -> EndOr(s, "KEY")

\* SW_ARG2 and SW_ARG2_LF: for EVAL, the number of the keys
Arg2(s, arg) ==
    CASE s.type \in redis_arg2 -> OkIf(s.rnarg = 0, s)
      [] s.type \in redis_arg3 -> If(s.rnarg = 1, s, "ARG3")
      [] s.type \in redis_argeval ->
            If(Len(arg) = 1 /\ arg[1] \in Numbers \ {"0"} /\ s.rnarg >= 1, s, "KEY")

\* SW_ARG3 and SW_ARG3_LF
Arg3(s) == OkIf(s.rnarg = 0, s)

\* SW_ARGN and SW_ARGN_LF
ArgN(s) == EndOr(s, "ARGN")

\* the next argument, if the parser has not come to an end
ParseArg(s, i, arg) ==
    LET t == [s EXCEPT !.rnarg = @ - 1]
    IN  CASE s.at \in {"done", "error"} -> s
          [] s.at = "TYPE" -> ReqType(t, arg)
          [] s.at = "KEY" -> Key(t, i)
          [] s.at = "ARG1" -> Arg1(t)
          [] s.at = "ARG2" -> Arg2(t, arg)
          [] s.at = "ARG3" -> Arg3(t)
          [] s.at = "ARGN" -> ArgN(t)

\* the positions of the keys of a command; a command that ends too early is
\* not an error: the result is CMD_PARSE_OK before redis_parse_cmd begins
redis_parse_cmd(argv) ==
    FoldLeftDomain(LAMBDA s, i : ParseArg(s, i, argv[i]),
                   [at |-> IF argv = <<>> THEN "error" ELSE "TYPE", type |-> "", keys |-> <<>>,
                    narg |-> Len(argv), rnarg |-> Len(argv)],
                   argv)

-----------------------------------------------------------------------------
(***************************************************************************)
(* Slots, sub-commands and the reply that is made of theirs.               *)
(***************************************************************************)

\* where a symbol is in a string from position n on, or behind its end
Find(s, ch, n) == Min({i \in n .. Len(s) : s[i] = ch} \cup {Len(s) + 1})

\* the part between the first { and the next }, if there is something
keyHashSlot(key) ==
    LET s == Find(key, "{", 1)
        e == Find(key, "}", s + 1)
    IN  IF s > Len(key) \/ e > Len(key) \/ e = s + 1 THEN crc16(key)
        ELSE crc16(SubSeq(key, s + 1, e - 1))

\* the number of digits, and the length of an argument and of a command in
\* the protocol
uint_len(n) == CHOOSE d \in 1 .. 10 : n < 10 ^ d /\ (d = 1 \/ n >= 10 ^ (d - 1))
Size(arg) == IF Len(arg) = 1 /\ arg[1] \in Names3 \cup Names4 THEN IF arg[1] \in Names3 THEN 3 ELSE 4 ELSE Len(arg)
bulklen(arg) == 1 + uint_len(Size(arg)) + 2 + Size(arg) + 2
FormattedLength(argv) == FoldLeft(LAMBDA n, arg : n + bulklen(arg), 1 + uint_len(Len(argv)) + 2, argv)

Total(n, f(_)) == FoldLeft(LAMBDA sum, i : sum + f(i), 0, [i \in 1 .. n |-> i])

\* mutant: the CR LF behind a value is forgotten
remain_len_Short(value) == 3 + uint_len(Size(value)) + 2 + Size(value)

\* what stands behind a key of MSET: its value, with the line end before it
remain_len(value) == 3 + uint_len(Size(value)) + 4 + Size(value)

\* narg: the arguments of a sub-command
SubArgs(type, keys) == IF type = "mset" THEN 2 * Len(keys) + 1 ELSE Len(keys) + 1

\* clen: the length that is allocated for a sub-command
SubLength(type, argv, keys) ==
    LET n == Len(keys)
        Own(i) == Size(argv[keys[i]]) + uint_len(Size(argv[keys[i]]))
        Remain(i) == remain_len(argv[keys[i] + 1])
        header == uint_len(SubArgs(type, keys))
    IN  CASE type = "mget" -> Total(n, Own) + 5 * n + 13 + header
          [] type = "del" -> Total(n, Own) + 5 * n + 12 + header
          [] type = "mset" -> Total(n, Own) + Total(n, Remain) + 3 * n + 13 + header

\* hi_itoa(num_str, n): how long the text in num_str is then.  For 0 the
\* digit is written and no NUL behind it: what was there before goes on.
hi_itoa(num_str_len, n) == IF n = 0 THEN num_str_len ELSE uint_len(n)

\* idx: how much is written into what was allocated
SubWritten(type, argv, keys) ==
    LET header == hi_itoa(0, SubArgs(type, keys))
        WriteKey(w, k) ==
            LET num_str_len == hi_itoa(w.num_str_len, Size(argv[k]))
                behind == IF type = "mset" THEN remain_len(argv[k + 1]) ELSE 2
            IN  [num_str_len |-> num_str_len, idx |-> w.idx + 1 + num_str_len + 2 + Size(argv[k]) + behind]
    IN  FoldLeft(WriteKey,
                 [num_str_len |-> header, idx |-> 1 + header + (IF type = "del" THEN 11 ELSE 12)], keys).idx

\* a sub-command with the keys of one slot, in the order of the command
SubCommand(type, argv, keys, slot) ==
    LET args == IF type = "mset" THEN FlattenSeq([i \in DOMAIN keys |-> <<argv[keys[i]], argv[keys[i] + 1]>>])
                ELSE [i \in DOMAIN keys |-> argv[keys[i]]]
    IN  [slot |-> slot, keys |-> keys, argv |-> <<<<type>>>> \o args,
         clen |-> SubLength(type, argv, keys), idx |-> SubWritten(type, argv, keys)]

\* a sub-command has been written over the end of its buffer
Overrun(subs) == \E j \in DOMAIN subs : subs[j].idx > subs[j].clen

\* a command whose keys are all in one slot is sent as it is; if it has
\* several, its sub-command has been written all the same
Unsplit(p, argv, slot) ==
    IF Len(p.keys) > 1 /\ p.type \in redis_argx \cup redis_argkvx
    THEN [SubCommand(p.type, argv, p.keys, slot) EXCEPT !.argv = argv]
    ELSE [slot |-> slot, keys |-> p.keys, argv |-> argv, clen |-> 0, idx |-> 0]

\* one sub-command per slot, in the order of the slots
command_pre_fragment(p, argv) ==
    LET slot == [i \in DOMAIN p.keys |-> keyHashSlot(argv[p.keys[i]])]
        Of(s) == SelectSeq(p.keys, LAMBDA k : keyHashSlot(argv[k]) = s)
        order == SetToSortSeq(Range(slot), <)
    IN  IF Len(order) = 1
        THEN <<Unsplit(p, argv, order[1])>>
        ELSE [j \in DOMAIN order |-> SubCommand(p.type, argv, Of(order[j]), order[j])]

\* the sub-commands of a command; none if it cannot be sent
command_format_by_slot(argv) ==
    LET p == redis_parse_cmd(argv)
    IN  IF p.at = "error" \/ p.keys = <<>> THEN <<>>
        ELSE command_pre_fragment(p, argv)

\* mutant: the elements of the replies are taken from the front
Element_First(sub, reply, k) ==
    reply.element[Len(SelectSeq(sub.keys, LAMBDA x : x > k)) + 1]

\* the element for key k of the reply to its sub-command: the elements are
\* taken from the back, key by key
Element(sub, reply, k) ==
    reply.element[Len(reply.element) - Len(SelectSeq(sub.keys, LAMBDA x : x > k))]

Null == [type |-> "null"]

\* one reply of the replies to the sub-commands
command_post_fragment(argv, subs, replies) ==
    LET type == redis_parse_cmd(argv).type
        Type == CASE type = "mget" -> "array" [] type = "del" -> "integer" [] type = "mset" -> "status"
        stop == {j \in DOMAIN replies : replies[j].type # Type}
        Count(j) == replies[j].integer
        keys == redis_parse_cmd(argv).keys
        OfKey(k) == CHOOSE j \in DOMAIN subs : Contains(subs[j].keys, k)
    IN  IF stop # {}
        THEN IF replies[Min(stop)].type = "error" THEN replies[Min(stop)] ELSE Null
        ELSE CASE type = "mget" ->
                    [type |-> "array",
                     element |-> [i \in DOMAIN keys |->
                                    Element(subs[OfKey(keys[i])], replies[OfKey(keys[i])], keys[i])]]
               [] type = "del" -> [type |-> "integer", integer |-> Total(Len(subs), Count)]
               [] type = "mset" -> replies[1]
=============================================================================
