----------------------------- MODULE RedisReader -----------------------------
(***************************************************************************)
(* The reply reader of hiredis (read.c, and the object functions of        *)
(* hiredis.c): an incremental parser.  Bytes are fed to it as they arrive; *)
(* between two calls it keeps what it has not consumed, and a stack with   *)
(* one task for every array that it is inside of.                          *)
(*                                                                         *)
(* A byte is a string; "CR" and "LF" end lines.  The tree of a reply is a  *)
(* value: a task collects the elements of its array, and hands the array   *)
(* to the task below when it is complete.                                  *)
(***************************************************************************)
EXTENDS Integers, SequencesExt, FiniteSetsExt

CONSTANTS MaxDepth,    \* 8: the position in rstack that an array may not have
          DiscardAt    \* 1024: consumed bytes are dropped from here on

ASSUME ReaderConstants == MaxDepth \in Nat /\ DiscardAt \in Nat

Digit == [d \in {"0", "1", "2", "3", "4", "5", "6", "7", "8", "9"} |->
            CASE d = "0" -> 0 [] d = "1" -> 1 [] d = "2" -> 2 [] d = "3" -> 3 [] d = "4" -> 4
              [] d = "5" -> 5 [] d = "6" -> 6 [] d = "7" -> 7 [] d = "8" -> 8 [] d = "9" -> 9]

\* the objects: createStringObject, createArrayObject, createIntegerObject
\* and createNilObject
StringObject(type, s) == [type |-> type, str |-> s]
ArrayObject(elements) == [type |-> "array", element |-> elements]
IntegerObject(n) == [type |-> "integer", integer |-> n]
NilObject == [type |-> "nil"]
NoReply == [type |-> "none"]

Task(idx) == [type |-> "?", elements |-> -1, idx |-> idx, obj |-> <<>>]

redisReaderCreate == [buf |-> <<>>, pos |-> 0, stack |-> <<>>, reply |-> NoReply, err |-> FALSE]

\* __redisReaderSetError
SetError(r) == [redisReaderCreate EXCEPT !.err = TRUE]

Rest(r) == SubSeq(r.buf, r.pos + 1, Len(r.buf))

\* where the next CR LF begins, or 0
seekNewline(s) ==
    LET at == {i \in 1 .. Len(s) - 1 : s[i] = "CR" /\ s[i+1] = "LF"}
    IN  IF at = {} THEN 0 ELSE Min(at)

readLongLong(s) ==
    LET digits == IF s # <<>> /\ Head(s) \in {"-", "+"} THEN Tail(s) ELSE s
        v == FoldLeft(LAMBDA n, d : 10 * n + Digit[d], 0, digits)
    IN  IF \E i \in DOMAIN digits : digits[i] \notin DOMAIN Digit THEN -1
        ELSE IF s # <<>> /\ Head(s) = "-" THEN -v
        ELSE v

\* the next line without its CR LF, and the reader behind it
readLine(r) ==
    LET nl == seekNewline(Rest(r))
    IN  [found |-> nl # 0, text |-> SubSeq(Rest(r), 1, nl - 1), behind |-> [r EXCEPT !.pos = @ + nl + 1]]

Top(r) == r.stack[Len(r.stack)]
SetTop(r, t) == [r EXCEPT !.stack[Len(r.stack)] = t]

RECURSIVE moveToNextTask(_, _)
\* the object of the current task is complete: it becomes the reply, or an
\* element of the array of the task below
moveToNextTask(r, obj) ==
    LET n == Len(r.stack)
    IN  IF n = 1
        THEN [r EXCEPT !.stack = <<>>, !.reply = obj]
        ELSE LET prv == [r.stack[n-1] EXCEPT !.obj = Append(@, obj)]
                 below == [r EXCEPT !.stack = Append(SubSeq(r.stack, 1, n - 2), prv)]
             IN  IF r.stack[n].idx = prv.elements - 1
                 THEN moveToNextTask(below, ArrayObject(prv.obj))
                 ELSE [below EXCEPT !.stack = Append(@, Task(r.stack[n].idx + 1))]

\* the result of a step: whether it could be done, and the reader
Done(r) == [ok |-> TRUE, r |-> r]
NotYet(r) == [ok |-> FALSE, r |-> r]

\* mutant: the line is consumed without its CR LF
processLineItem_Short(r) ==
    LET nl == seekNewline(Rest(r))
        line == SubSeq(Rest(r), 1, nl - 1)
        obj == IF Top(r).type = "integer" THEN IntegerObject(readLongLong(line))
               ELSE StringObject(Top(r).type, line)
    IN  IF nl = 0 THEN NotYet(r)
        ELSE Done(moveToNextTask([r EXCEPT !.pos = @ + nl - 1], obj))

processLineItem(r) ==
    LET line == readLine(r)
        obj == IF Top(r).type = "integer" THEN IntegerObject(readLongLong(line.text))
               ELSE StringObject(Top(r).type, line.text)
    IN  IF ~line.found THEN NotYet(r)
        ELSE Done(moveToNextTask(line.behind, obj))

\* a string of known length, whatever bytes it has
processBulkItem(r) ==
    LET rest == Rest(r)
        nl == seekNewline(rest)
        len == readLongLong(SubSeq(rest, 1, nl - 1))
        bytelen == nl + 1 + len + 2
    IN  IF nl = 0 THEN NotYet(r)
        ELSE IF len < 0
             THEN Done(moveToNextTask([r EXCEPT !.pos = @ + nl + 1], NilObject))
        ELSE IF bytelen > Len(rest) THEN NotYet(r)
        ELSE Done(moveToNextTask([r EXCEPT !.pos = @ + bytelen],
                                 StringObject("string", SubSeq(rest, nl + 2, nl + 1 + len))))

processMultiBulkItem(r) ==
    LET line == readLine(r)
        elements == readLongLong(line.text)
        read == line.behind
    IN  IF Len(r.stack) - 1 = MaxDepth THEN NotYet(SetError(r))
        ELSE IF ~line.found THEN NotYet(r)
        ELSE IF elements = -1 THEN Done(moveToNextTask(read, NilObject))
        ELSE IF elements > 0
             THEN Done([SetTop(read, [Top(r) EXCEPT !.elements = elements]) EXCEPT !.stack = Append(@, Task(0))])
        ELSE Done(moveToNextTask(read, ArrayObject(<<>>)))

TypeOf == [b \in {"-", "+", ":", "$", "*"} |->
             CASE b = "-" -> "error" [] b = "+" -> "status" [] b = ":" -> "integer"
               [] b = "$" -> "string" [] b = "*" -> "array"]

\* the type of the item, which may have been read by an earlier call, and
\* then the item
processItem(r) ==
    LET b == r.buf[r.pos + 1]
        typed == IF Top(r).type # "?" THEN r
                 ELSE [SetTop(r, [Top(r) EXCEPT !.type = TypeOf[b]]) EXCEPT !.pos = @ + 1]
    IN  IF Top(r).type = "?" /\ r.pos = Len(r.buf) THEN NotYet(r)
        ELSE IF Top(r).type = "?" /\ b \notin DOMAIN TypeOf THEN NotYet(SetError(r))
        ELSE CASE Top(typed).type \in {"error", "status", "integer"} -> processLineItem(typed)
               [] Top(typed).type = "string" -> processBulkItem(typed)
               [] Top(typed).type = "array" -> processMultiBulkItem(typed)

RECURSIVE processItems(_)
processItems(r) ==
    IF r.stack = <<>> THEN r
    ELSE LET step == processItem(r)
         IN  IF step.ok THEN processItems(step.r) ELSE step.r

redisReaderFeed(r, bytes) == IF r.err THEN r ELSE [r EXCEPT !.buf = @ \o bytes]

Discard(r) == IF r.pos >= DiscardAt THEN [r EXCEPT !.buf = Rest(r), !.pos = 0] ELSE r

\* the reader after the call; it has a reply if reply is not NoReply, which
\* the caller takes away
redisReaderGetReply(r) ==
    IF r.err \/ r.buf = <<>> THEN r
    ELSE LET s == processItems(IF r.stack = <<>> THEN [r EXCEPT !.stack = <<Task(-1)>>] ELSE r)
         IN  IF s.err THEN s ELSE Discard(s)
=============================================================================
