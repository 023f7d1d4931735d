# A TLA+ model of the distributed task dispatcher

The program in `src/` runs on several nodes. Each node loads its part of a set of
CSV files into tendis (a redis), registers the tasks it has found in ZooKeeper,
waits for the other nodes, and then takes part in a cluster in which one process,
the *monitor*, hands out tasks to the others, the *workers*. A worker rebuilds the
file of its task from redis and copies it to its destination. This directory holds
the TLA+ modules that model it, the TLC configurations that check them and the
TLAPS proofs about them.

1. [The system](#1-the-system)
2. [The modules and the code](#2-the-modules-and-the-code)
3. [What TLC checks](#3-what-tlc-checks)
4. [What the runs found](#4-what-the-runs-found)
5. [What is proved](#5-what-is-proved)
6. [What is not modelled](#6-what-is-not-modelled)
7. [Plan](#7-plan)

## 1. The system

### Components

| component | source | state | operations | properties that make it correct |
|---|---|---|---|---|
| start-up of a node | `work.cpp` (`main`, `insrt`, `read_file`), `create*` in `clust_comm.cpp` | local: loop counters; redis: blocks and `node_status`; ZooKeeper: `/files`, `/works`, `/elect` | load, register the tasks, report, poll the others, create the root nodes | nobody goes on before everything is loaded; everybody goes on in the end |
| CSV loader | `_read_csv/read_csv.cpp` | `isMemberOfTask`, `mLoopNum`, the lines of the file | `FindTotalTaskNum`, `load`, `insert_to_redis` | `load` returns when every block of every task has been inserted |
| thread pool | `ThreadPool.h` (three identical copies) | `tasks`, `stop`, `queue_mutex`, `condition` | `enqueue`, worker loop, destructor | no lost wake-up, every job once, queue drained before the destructor returns, the destructor returns |
| registration and election | `_zk_server/clust_comm.cpp` (`PREWORK`, `regist`, `identify`, `choose_mater`, `reelect`) | `g_mode`; `/elect/proc-N` (ephemeral, sequential) | register, choose, become monitor or worker | one monitor at a time, always the oldest; a monitor again after a failure |
| dispatch | `dispatch_work`, `zktest_watcher_g`, `monitor_work` | `/works/ip:pid` (command), `/files/t` (state r, y, g), one-shot watches | look at files and workers, assign, tell to stop | a command is not lost, no task is left over when workers are stopped, the monitor hears of every change |
| recovery after a crash | `recover` | the lists of `/elect` and `/works` | put back the task of a dead worker, delete its node | a task in progress has a worker; only dead workers' nodes go |
| work loop | `work.cpp` (`work`), `recv_work`, `set_wk_st`, `st` | `task_id` | poll, parse, set y, recover the file, retry, set g, copy, free | a task that is dispatched is done; a worker that is told to stop ends |
| file recovery | `_file_recovery/re_file.cpp` | blocks, files of blocks and of nodes, `line_flag` | `csv_recovery`, `sort_blocks`, `sort_nodes`, `sort_file` | the file holds the lines of the task in order, each once |
| file delivery | `_auto_scp/passwd_free_scp.h` | - | `send_file` | a done task has been copied (not looked at) |
| redis client of the program | `_tendis_server/redis_op.cpp` | one `redisClusterContext` | `redis_insert`, `redis_select`, `connect_init` | the command that was meant is executed; a lost write is noticed (it is not) |
| blocking cluster client | `hiredis-vip/hircluster.c`, `hiredis.c`, `net.c` | nodes, table of slots, connections with their buffers, `retry_count`, `requests` | command, pipeline (append, get reply, reset), connect, route update | each caller gets its own replies, nothing is executed twice, calls return |
| route | `hiredis-vip/hircluster.c` | nodes by address, regions, table | parsing of CLUSTER SLOTS and CLUSTER NODES | the table is what the server has said |
| commands | `hiredis-vip/hiredis.c`, `command.c`, `hircluster.c` | arguments, keys, sub-commands | format, parse, split by slot, merge the replies | splitting cannot be seen |
| reply reader | `hiredis-vip/read.c` | buffer, position, stack of tasks | feed, get a reply | replies do not depend on how bytes arrive |
| asynchronous client | `hiredis-vip/async.c`, `dict.c` | lists of callbacks, tables of subscriptions, flags | command, disconnect, free, read and write handlers | each callback gets what is its own, once; a freed context is not used |
| asynchronous cluster client | `hiredis-vip/hircluster.c` | one context per node, `cluster_async_data` per command | command, callback with redirections, route update, disconnect, free | every command is answered once |

The program uses the blocking client of `hiredis-vip`; the asynchronous ones come with
the library. `hiredis` is a second copy of the library without cluster support that
nothing links.

### How they interact, and what is hard

* **Two threads per process, no lock.** `work()` runs in the main thread. The
  ZooKeeper client library runs `zktest_watcher_g` in its completion thread, one
  event at a time, and with it `reelect`, `recover` and `dispatch_work`. Both
  threads write `g_mode`.
* **All communication goes through ZooKeeper**, one call at a time: the monitor
  writes a command into a worker's `/works` node, the worker polls it and answers
  by writing `s`; the state of a task is in `/files`. Between any two calls any other
  process may act, crash or lose its session. Sets carry no version.
* **Watches are one-shot.** Whoever wants to hear of the next change has to set the
  watch again; whatever happens in between must be seen by reading.
* **Crashes.** A dead process is noticed when its session expires and its `/elect`
  node goes; its `/works` node stays until a monitor deletes it.
* **The barrier** of `insrt()` makes every node wait for all the others through
  redis, whose commands may get no answer, while nodes may die and be restarted.
* **The redis cluster** answers late or not at all, redirects (MOVED, ASK), moves slots
  while commands are on their way, and knows slots that the client does not know yet. A
  late reply must not be taken for that to the next command.
* **Callbacks of the asynchronous client** call the library again: they send, disconnect
  and free while the library is in the middle of a loop over the same context, and in the
  cluster client a route update frees nodes and contexts under running callbacks.
* **Data cross several conversions**: lines into blocks and back through two merges, a
  command through a format string, a parser, a split by slot, and the merge of replies that
  arrive in arbitrary pieces.
* **The pool** is used in two ways: `csv_recovery` waits for a job's future at once,
  `load` for none and relies on the destructor.

The list `hazards` of `PROJECT.json` names, line by line, what can go wrong because
of this and which property would show it.

## 2. The modules and the code

| module | models | |
|---|---|---|
| `ZooKeeper` | the service, as `clust_comm.cpp` uses it | external |
| `ClustComm` | `clust_comm.cpp` and `work()` of `work.cpp` | extends `ZooKeeper` |
| `MonitorLease` | what the election promises | abstract specification |
| `ThreadPool` | `ThreadPool.h` and its one user | |
| `Insrt` | `main`, `insrt`, `read_file`, `load`, the creation of the root nodes | |
| `Recovery` | the way of the lines: `insert_to_redis`, `csv_recovery` | |
| `HirCluster` | the blocking cluster client and its pipeline, with the servers | |
| `RedisReader` | `read.c`: the reply reader | operators |
| `RedisCommand` | formatting, parsing, splitting and merging | operators |
| `Route` | the route from CLUSTER SLOTS and CLUSTER NODES | operators |
| `ClusterCommand` | a command from its text to its reply | extends the three above |
| `Dict` | `dict.c` | operators |
| `RedisAsync` | `async.c` | extends `Dict` |
| `AsyncClient` | a program that uses `async.c` | extends `RedisAsync` |
| `ClusterAsync` | the asynchronous cluster client | extends `RedisAsync` |
| `MC...` (one for each specification) | symmetry sets, initial states and parameter values for TLC | |
| `ClustCommProofs` | theorems about `ClustComm`: types, election, commands and watches | extends `MCClustComm` |
| `PoolProofs`, `InsrtProofs`, `RecoveryProofs`, `HirClusterProofs`, `AsyncProofs` | theorems about `ThreadPool`, `Insrt`, `Recovery`, `HirCluster`, `AsyncClient` | extend the module they are about |
| `ClusterAsyncProofs`, `AnswersProofs` | theorems about `ClusterAsync`: types and executions, then answers and memory | the first extends `ClusterAsync`, the second the first |

An operator with a name like `Look_NoWatch`, under a comment that begins with
"mutant", is a deliberately wrong version of the definition that follows it (here
`Look`). No specification uses it. Put in the place of the right one it must make
TLC report the property that `mutants` of `PROJECT.json` pairs it with; this shows
that the property depends on that piece of the code.

### `ClustComm`

*State.* `cversion`, `seqno`, `elect`, `works`, `files`, `watch`, `evq` are
ZooKeeper's: the nodes, the watches that are set and the events on their way to
each completion thread. `mode` is `g_mode`. `pc[p]["main"]` and `pc[p]["cb"]` say
where the two threads of a process are. The remaining variables are the locals of
the functions, named after them (`chd`, `els`, `dct`, `fls`, `wks`, with the cursors
`curf` for `i_fls` and `curw` for `i_wks`), and the history variables `sent`
(the files delivered), `served` (who has dispatched; a process that becomes monitor begins anew) and `epoch`
(the number of the last process made monitor).

*Steps.* One step is one call of the ZooKeeper client, or one assignment to `g_mode`.
`RegistElect`, `RegistWork`, `Identify`, `ChooseList`, `ChooseGet`, `BecomeMonitor`,
`BecomeWorker`, `MonitorWork`, `WatchChildren` are `PREWORK`; `RecvWork`, `StY`,
`CsvRecoveryFails`, `StG`, `SendFile`, `SetWkSt`, `Close` are the loop of `work`;
`Watcher`, `Reelect`, `Compare`, `CheckMode`, the `Recover...` and the `Dispatch...`
actions run in the completion thread. Two places join calls into one step: `recover`
reads, puts back and deletes the node of a dead process in one step (nobody else
writes that node: its process is gone and the monitor that could is this one), and
`dispatch_work` lists `/files` and `/works` together (`/files` does not change).

*Data.* A command is a sequence of tokens, because two parts of the code take it
apart in different ways: `work` takes what is between the first and the last `_`,
`recover` everything behind the first character. `cmd_task` and `PutBack` are those
two conversions. The number behind the second `_` (`calc_dest_no`) is one token.

*Order of lists.* `zoo_get_children` promises no order, so the loops choose the next
element freely. `choose_mater` takes the smallest name; the names are compared as
strings, and since ZooKeeper pads the numbers that is the order of registration.

*Failures.* `Crash` stops both threads anywhere, `Expire` ends the session of a dead
process, `LoseSession` that of a live one. After it every call of that process fails:
`choose_mater` and `identify` then leave `g_mode` alone, `zoo_set` has no effect. The
code also reads a `String_vector` that a failed `zoo_get_children` has not filled,
which is undefined behaviour. The model lets the running handler end without an
effect (`LoseSession`) or the process die (`Crash`). `f_zkhandle` (`st`) is a second
session, opened for each task, and is not affected. A process that restarts has a new
`ip:pid` and a new number, so it is another element of `Procs`.

*Left out.* The sleeps (they delay and never order); `DEBUG`, the printing of answers;
the truncation of node data to the buffer (`wks_st_len`), which is longer than any
command; connection loss within a session, during which the client library blocks or
fails calls without ending the session; the fork loop of `main` (`PROCS_NUM` is 0);
`dlt`, `gt`, `show_list`, `get_workers`, which the program does not call.

*Initial state.* No process has registered, the root nodes exist, every task is
registered in state `r`. This is what `Insrt` establishes: `ready` there is the point
at which a process of `ClustComm` may take `RegistElect`.

### `ThreadPool`

`queue_mutex` is the variable `lock`. A worker locks, tests the predicate and blocks
in three steps (`Lock`, `Test`, `Block`), because `notify_one` and `notify_all` are
called without the mutex and may fall between them. Blocking enters the wait set and
releases the mutex in one step, as `std::condition_variable` promises. `Spurious` is
the wake-up that promise allows. `Take` and `Run` pop and run a job; a job that throws
still makes its future ready, since it is a `packaged_task`. The user's actions are
`Enqueue`, `Push`, `NotifyOne`, `Get` and the destructor's `Destroy`, `SetStop`,
`NotifyAll`, `Join`. The user may leave after any number of jobs and may ask for the
future of a job or not, so that both uses in the repository are among its behaviours.

### `Insrt`

One action per redis command or ZooKeeper call of a node. `Blocks[n][t]` says how many
blocks node `n` has of task `t`; how lines are cut into blocks is not modelled. If the
last block is full `insert_to_redis` ends with one more `SET` without a value, which
redis refuses; it is left out. `create`, `create_works` and `create_elect` are the same
loop on three paths and one pair of actions (`Exists`, `Create`). The pool of `load` is
taken at its word: its jobs interleave, and `LoadReturns` waits for all of them; that
is the theorem `DrainedOnReturn` of `PoolProofs`. A command without a reply has no
effect, and a read returns "error", which is not "ok". The code's five nodes and its
`loop_num` of 20 are the constants `NumNodes` and `LoopNum`. `Crash` restarts the node
with the same number, as an operator would.

### `Recovery`

A line is its number; 0 is a line of another task, and a negative number is the last line
of a file without a newline, which the search for `\n` in `sort_blocks` does not see. The
nodes write under keys of their own and the jobs of `csv_recovery` are waited for one by one,
so the steps come one after the other: `InsertLine` and `InsertRest` cut the blocks,
`GetBlock` and its alternatives read and sort them (`LongLines` are the lines of `MAX_LINE_SIZE`, 40, or more
characters, which the `strcpy` in `sort_blocks` writes over the end of their buffer: the process ends), `MergeNode` and `MergeFile` are the turns of
the two priority queues. `line_flag` starts with any set of lines (`junk`): the code does not
initialise it. `buf` of each node with an empty file is a line of its own, any one, or ends the process; from then
on `ub` is set. A `SET` or a `GET` without a reply has the effect it has in the code: a missing
value ends the loop over the blocks, and "error" starts `csv_recovery` again. `out` is
what has been given to the FILE. What a FILE keeps in its buffer is not modelled (section 6). The code's five nodes and
`mLinePerInsert` are constants.

### `HirCluster`

*State.* `nodes`, `host`, `table`, `con`, `err`, `retry_count`, `need_update_route` and `requests`
are those of the `redisClusterContext`; a connection has its output buffer `out`, what is on its way
(`wire`) and what has arrived (`in`). `pc`, `cur`, `c`, `tried` say where the call is. The servers,
external, have `alive`, `view` (each its own idea of the slots) and `mig`; `orphans` are commands on
closed connections that may still be executed.

*Steps.* `Call` begins `redisClusterCommand`; `Retry`, `TryNode`, `Pong`, `NoReply`, `Accept`,
`Redirect` with `Moved` (also TRYAGAIN and the like), `Ask`, `AskingReply` are the paths of `redis_cluster_command_execute`; `Update...` is
`cluster_update_route`; `AppendSub`, `Collect`, `Drained` and their failures are the pipeline. A command
with keys in several slots (`Split`: in increasing order of the slots) runs its sub-commands one after the other. Connecting (`net.c`) succeeds when
the server runs. `Careful` says that the caller resets the pipeline after an error, which a comment
in `redisClusterAppendFormattedCommand` makes its duty.

*Environment.* Servers serve, crash, restart, break connections, move slots (with an interval in which
they answer ASK), learn of moves late (`Gossip`), refuse (TRYAGAIN and the like).

### `ClusterCommand` and its operators

Here the data are followed and nothing fails. `RedisCommand` works on strings as sequences of symbols,
a symbol being a character that the code looks at or a word that it does not look into.
`redisvFormatCommand` is a fold over the format; a conversion without an argument is `undefined`.
`redis_parse_cmd` has one operator per group of commands that the state machine treats alike.
`RedisReader` keeps what the C structure keeps between two calls; recursion over the reply is the stack
of tasks, as in the code. `Route` has the two parsers and the table. The servers execute a command on the
keys they have and answer in the protocol; the reference definition of the property is the same
command on one server with all the keys. The old limits of 7 nested arrays and 1024 bytes
are constants, small enough to be met. For the parts of a split command two lengths are computed, as in
`command_pre_fragment`: `clen`, which is allocated, and `idx`, which is written. They differ in how a number gets its
digits: `uint_len` counts them, while `idx` adds `strlen(num_str)` after `hi_itoa`, which writes no NUL behind a 0
(`hi_itoa` keeps the length of what `num_str` held before). When `idx` goes beyond `clen` nothing is said about what
follows (phase "undefined"). The CLUSTER NODES of a server has ports with the port of the cluster bus behind them or
without (`busport`). With it no port is a number to the client (`usable`), so that every connect fails, and a forgotten
node is written `:0@0`, which the client does not skip as it does `:0` (`Skipped`).

### `RedisAsync`, `AsyncClient`, `ClusterAsync`

One thread runs an event loop. The calls that have not returned are frames on `stack`: the loop of
`redisProcessCallbacks` with its variable `cb`, `__redisAsyncFree` with the callbacks it has still to
call, and callbacks of the user, in which the user may do everything he may do in the event loop. An
assertion that fails sets `aborted`. `odd` is set when the user does what the library does not
support (`Unsupported`): MONITOR, anything while an UNSUBSCRIBE is under way, UNSUBSCRIBE from what one
is not subscribed to. The model follows those behaviours; the properties leave them out. In `ClusterAsync` the
frames `route` and `user` are added; a context points to its node (`data`) and a node to its context
(`acon`). When freed memory is used `aborted` becomes "memory" and nothing is said about what follows.
The servers are external.

## 3. What TLC checks

| run | instance | properties | states |
|---|---|---|---|
| `start_up` | 2 processes from nothing, 2 tasks, 2 faults, 2 failures of `csv_recovery` or `scp` | `TypeOK`, `MonitorStaysNotified`, `NoTaskDropped`, `LeaseSpec`, `StopOnlyWhenAllAssigned` | 699 000 |
| `cluster` | 3 processes at work, 1 task, 1 fault | `OldestCoordinates`, `ListedNodesExist`, `LiveWorkerListed`, `AssignmentKept` | 1 700 000 |
| `progress` | 3 processes at work, 1 task, no fault | `ServedThenDone`, `WorkersEnd` | 218 000 |
| `reelect` | 3 processes, no task, 2 faults | `MonitorReturns` | 81 000 |
| `pool` | 3 workers, 3 jobs | `QueuedIsServed`, `OnceOnly`, `JoinedMeansDone`, `PoolCloses` | 15 300 |
| `insrt` | 3 nodes, 2 tasks, 1 crash, 1 lost write, 1 failing read | `BarrierComplete`, `UsedNodesStart` | 1 056 000 |
| `recovery` | 2 nodes, every file of up to 3 lines, some with a long line, blocks of 2 lines, 1 lost `SET`, 1 failing `GET` | `FileSorted`, `NoLineLost`, `NothingInvented` | 3 560 000 |
| `redis_cluster` | 2 servers, 2 slots, 2 commands, 1 fault, 1 refusal, 1 moving slot | `ReplyMatches`, `AtMostOnce`, `NothingOutstanding`, `CallReturns` | 904 000 |
| `cluster_command` | 2 masters, 2 slaves, 3 slots in every assignment, some hundred commands | `RouteTrue`, `ArgumentsKept`, `AsOnOneServer`, `NothingLeftOver`, `LengthsExact` | 492 000 |
| `redis_async` | 1 context, 3 commands, 1 published message, partial read or fault | `CallbacksRight`, `NoUseAfterFree`, `OtherAssertionsHold`, `TablesTrue`, `AskedThenFreed` | 887 000 |
| `cluster_async` | 2 servers, 1 slot, 3 contexts, 2 commands, 1 move, 1 fault or partial read | `AnsweredOnce`, `ExecutedOnce`, `MemorySafe`, `CalledBack` | 1 071 000 |

One more run, `lost_task` of section 4, ends with a violation.

What the properties say:

* `OldestCoordinates`: only the process with the oldest live session has `g_mode`
  MONITOR, recovers or dispatches, although every process decides on its own, in two
  threads, from a listing that may be out of date. `LeaseSpec` is the same fact as an
  abstract specification: the detailed one implements `MonitorLease`, in which the
  office is free before it is taken and is taken in the order of registration. The
  refinement mapping names a monitor by the number of its `/elect` node.
* `MonitorStaysNotified`: a monitor that has dispatched since it took the office and has no event to
  handle watches `/elect`, `/works` and every node of `/works`, whichever early exit
  its last handler took. No change can escape it. (Not so before its first dispatch, see section 4.)
* `ListedNodesExist`: the nodes that `dispatch_work` and `recover` have listed and not
  yet visited exist. `dispatch_work` relies on this: it does not look at the result of
  `zoo_get` and would otherwise read the state of the previous worker.
* `LiveWorkerListed`: a worker with a session keeps its `/works` node through the failures,
  reelections and recoveries of the others.
* `AssignmentKept`: a work command gives way only to `s`, when that very task has been
  done by that process or when the process has become monitor; a node that is deleted
  belongs to a process without a session.
* `StopOnlyWhenAllAssigned`: a worker is told to stop only when every task in state
  `r` is in somebody's command.
* `NoTaskDropped`: as long as no process has failed, a task in state `y` is somebody's,
  also across failing and repeated `csv_recovery` calls.
* `ServedThenDone`, `WorkersEnd`: without failures, once a dispatch has begun, all
  tasks are done in the end and stay done, their files have been copied to the destination, and all workers end.
* `MonitorReturns`: while a process with a session lives there is a live monitor again
  and again. It holds when all processes have joined before the failures.
* `QueuedIsServed`: a job that has been queued and announced has a worker that is
  awake. `OnceOnly`: no job is run twice. `JoinedMeansDone`: when the destructor
  returns every job has run. `PoolCloses`: the destructor returns.
* `BarrierComplete`: a node that has left `insrt()` finds every block of every task
  numbered 1 .. loop_num - 1 in redis and the task in `/files`, unless a write was lost
  unnoticed. `UsedNodesStart`: every node gets that far, if the root nodes were there.
* `FileSorted`: the file of a task is in strict order. `NoLineLost`: when `csv_recovery` returns 0 and
  redis lost no block, it holds every line of the task that `line_flag` did not happen to be set for,
  through full and half-full blocks, lines of other tasks, and retries. `NothingInvented`: whatever
  redis loses, every line is one of the task.
* `ReplyMatches`: whatever is redirected, retried, timed out or reconnected, a caller gets the replies to
  its own sub-commands in their order. `AtMostOnce`: no sub-command is executed twice.
  `NothingOutstanding`: between calls a good connection carries nothing. `CallReturns`: no chain of
  redirections, retries, searches and route updates goes on for ever.
* `RouteTrue`: in whatever order a server names regions, masters and slaves, every slot gets its owner and
  every master its slaves, and connections are possible
  exactly when the server wrote ports that the client can read. `ArgumentsKept`: which texts reach the parser with the arguments that were meant:
  all that are passed as an array or by `%s`, and texts without empty arguments, spaces and `%` in them.
  `AsOnOneServer`: a split command does and gives what it would on one server. `NothingLeftOver`:
  no byte of a reply is left for the next call. `LengthsExact`: the buffer of a sub-command has the
  length that the protocol gives it, and this is what is written into it, except that an empty key behind a
  number of two digits overruns it.
* `CallbacksRight`: a callback gets the reply to its own command, or a message for a name it has
  subscribed to; a regular one is called exactly once by the time the context is freed; and what
  `onDisconnect` is told is true. `NoUseAfterFree`: no call that is still to return works on a freed
  context. `OtherAssertionsHold`: of the assertions of `async.c` only the one on
  pending callbacks can fail. `TablesTrue`: the table of subscriptions is what the commands and their confirmations
  amount to, while it grows and shrinks. `AskedThenFreed`: a context that is disconnected or freed is
  freed in the end.
* `AnsweredOnce`, `ExecutedOnce`: through redirections, retries and failures a command is answered
  once, with its own reply if there is one, and executed once at most; the stated exceptions are a disconnect by the
  user and the shared `acc->err`. `MemorySafe`: no node points to a freed context, and
  freed memory is used in the listed situations only. `CalledBack`: every callback is
  called in the end.

### Bounds

`MaxFaults` bounds crashes and lost sessions, `MaxErrors` failures of `csv_recovery`
and `scp`; `MaxCrashes`, `MaxFailedSets`, `MaxFailedGets` do the same for `Insrt`.
They are guards of the failing actions and of nothing else. Two processes are enough
for every interleaving of registration, election and dispatch between a monitor and
another process, and two faults let either of them fail, or both. Three are needed for
two workers that compete for a task and for a reelection that leaves one worker; those
runs start with the cluster at work (`ClusterUp`), a state that is reached when the
first process runs `PREWORK` alone and the others follow. Two errors are what it takes
to fail a try and its repetition. In `start_up` there are more tasks than workers, in
`cluster` and `progress` more workers than tasks, which are the two ways out of
`dispatch_work`. In `insrt` task 1 is in two nodes' files and in two blocks of one, the
other task is `loop_num` itself, and one node has nothing to load. The theorems of section 5 lift
the most important of these properties to every size.

`recovery` takes every file of up to three lines over two line numbers and a foreign line, so that a block is full,
half full or preceded by a foreign line, two nodes have the same line, and a node has none; and files with a
long line, alone in its block, beside another, in a second block, or without a newline. `redis_cluster` needs two
slots for a command that is split, two servers for a redirection, `max_redirect_count` 2 for a chain of them, two
calls so that the second could read the first one's reply. Its servers all run at first, or the owner of slot 1 is
down (the search by PING, which may fail too), or all are down (the connect fails and slots have no node). In `cluster_command` two keys share a slot through a hash
tag and another tag is empty, values hold spaces, `%` and lengths on both sides of ten, a value is CR LF, one of two keys of the same slot is
empty and the other has ten bytes, a command has ten arguments for one slot, and arrays go deeper than `MaxDepth`. `redis_async` starts its table with one place instead of four, so that it doubles; `MaxSpent`
allows one published message, partial read or fault in all. In `cluster_async` three contexts let a broken one be
replaced and a redirection open another; `Begins` has the new context with CLUSTER SLOTS, and with CLUSTER NODES one
whose earlier connections were lost often enough to set `update_route_time`, a state that two commands alone would not
reach.

Symmetry (of processes and of tasks) is used where only invariants and action
properties are checked, never for liveness.

### Fairness

* `ClustComm`: weak fairness of each thread of each process, that is, threads are
  scheduled and calls return; and of `Expire`, since ZooKeeper expires the session of a
  process that no longer answers. Nothing obliges a process to start or to fail.
  `csv_recovery` fails at most `MaxErrors` times.
* `ThreadPool`: strong fairness of the user and of each worker, because a thread that
  competes for a mutex is able to take it only now and then. Jobs end. Spurious
  wake-ups are not obliged to happen, and `PoolCloses` must not depend on them.
* `Insrt`: weak fairness of each node; nodes run on machines of their own. A node that
  crashes is restarted.

* `HirCluster`: weak fairness of the client's thread, and of the servers that run: `redis_op.cpp` sets no timeout, so
  a server that runs and never answers would hold a call for ever.
* `AsyncClient`: callbacks return (weak fairness of the thread), and the event loop gives every
  ready socket its turn (weak fairness of each context's handlers).
* `ClusterAsync`: callbacks return, and the event loop goes on while some socket is ready (weak fairness of both
  together; which socket is served is left open).

The runs of `ClustComm` do not check deadlock: when all processes have ended or crashed
the system has stopped and is meant to. The pool and the start-up have explicit final
steps (`Gone`, `Started`) and deadlock is checked.

## 4. What the runs found

The run `lost_task` (`InProgressHasWorker`) checks what the README of the repository says of crashes, and TLC finds
the behaviour that contradicts it: `recover` takes the file name of a dead worker's command `w_3_2` to be `_3_2`, so the
put-back hits no node; then the worker's node is deleted. The task stays in state `y` for ever.

Other limits of the code are built into the models, and the properties are stated around them:

* Dispatch happens only in the watcher callback. When all processes have registered before the monitor sets its
  watches, no event comes and nothing is dispatched; `ServedThenDone` begins with the first dispatch.
* `g_mode` has two writers and no lock. A process whose thread "main" is about to execute `g_mode = MODE_WORKER`
  when its completion thread makes it monitor is turned back into a worker, and handles events as a worker does, that
  is, without setting the watches again, until it is elected once more. Then it hears of the next change only from
  its next dispatch on; this is why `MonitorStaysNotified` is stated for each term of office.
* `reelect` compares the number of `/elect` nodes with that of `/works` nodes. When the monitor fails while a process
  has created its `/elect` node only, they are equal and nobody is elected; `MonitorReturns` is checked for
  processes that have joined.
* A task stays in state `r` until its worker has begun, so a second dispatch gives it to a second worker, which later
  sets a done task back to `y`. In the end it is done (`ServedThenDone`).
* `recover` lists `/elect` before `/works`; a process that joins in between loses its `/works` node
  (`LiveWorkerListed` is about those that have joined).
* Two nodes that start together on a fresh ZooKeeper both find a root node missing; the one that comes second gets
  ZNODEEXISTS for ever (`UsedNodesStart` assumes the root nodes).
* `load()` covers the tasks 0 .. loop_num - 1 and `read_file()` 1 .. loop_num (`Covered` in `Insrt`).
* `work()` sets a task to `g` before `send_file` copies its file. When the process ends between the two steps, or `scp`
  fails (its exit status is only printed), the task counts as done, `dispatch_work` never gives it out again, and the file
  does not arrive. `ServedThenDone` is checked without failures.
* `_hi_itoa` returns for 0 before it writes the NUL, and `command_pre_fragment` takes the `strlen` of what then stands in
  `num_str`: the length of an empty key behind a key of ten or more bytes, or behind a count of ten or more arguments, is
  written with the remaining digits of that number, for example `$00`, and the sub-command becomes longer than its buffer.
  `LengthsExact` says that this happens for these keys and for no others.
* A worker that is told to stop prints "files have been recovered!" although others may be busy;
  `StopOnlyWhenAllAssigned` is all that holds then.
* A block that redis has lost ends the recovery of its node early, and the task is done without the rest; a line may
  be lost to the uninitialised `line_flag`; a line of 40 or more characters ends the process (`Recovery`).
* The text of a command is a format string: a space or a `%` in a line of the CSV file changes the command.
* In the pipeline an error reply to one sub-command of several is given to the caller after it has been freed (`Freed`
  in `ClusterCommand`), and `redisClusterReset` may wait for replies to commands that could not be sent
  (`draining` in `HirCluster`).
* `redisAsyncDisconnect` from a callback fails an assertion when other replies are pending. In the cluster
  client the callback is skipped when a command cannot be sent again after the user has disconnected, and nodes
  that leave the route are used after they are freed (`MemorySafe`).

## 5. What is proved

The proofs are checked by TLAPS with its SMT, Zenon and PTL back ends, for all values of
the constants that satisfy the named assumptions.

| theorem | statement | assumptions |
|---|---|---|
| `ClustCommProofs!TypeCorrect` | `Spec => []TypeOK` | `KeysDisjoint`, `NoneFresh`, `BoundsNat`, `TokensDisjoint` |
| `ClustCommProofs!OldestAlways` | `Spec => []OldestCoordinates` | the same |
| `ClustCommProofs!LeaseImplemented` | `Spec => LeaseSpec` | the same |
| `ClustCommProofs!ListingsTrue` | `Spec => []ListedNodesExist` | the same |
| `ClustCommProofs!CommandsKept` | `Spec => AssignmentKept` | the same |
| `ClustCommProofs!NoEarlyStop` | `Spec => StopOnlyWhenAllAssigned` | the same |
| `ClustCommProofs!NothingDropped` | `Spec => []NoTaskDropped` | the same |
| `ClustCommProofs!MonitorNotified` | `Spec => []MonitorStaysNotified` | the same |
| `ClustCommProofs!LiveWorkersStayListed` | `FullSpec => []LiveWorkerListed` | the same, and `IsFiniteSet(Procs)` |
| `ClustCommProofs!UpAsFromTheStart` | `FullSpec =>` the invariants above and `AssignmentKept` | the same, `IsFiniteSet(Procs)`, `Procs # {}` |
| `PoolProofs!NoLostWakeup` | `Spec => []QueuedIsServed` | `ThreadsDistinct`, `SomeWorker` |
| `PoolProofs!JobsRunOnce` | `Spec => []OnceOnly` | the same |
| `PoolProofs!DrainedOnReturn` | `Spec => []JoinedMeansDone` | the same |
| `InsrtProofs!TypeAlways` | `Spec => []TypeOK` | `InsrtSizes`, `BlocksType`, `InsrtBounds` |
| `InsrtProofs!BarrierHolds` | `Spec => []BarrierComplete` | `InsrtSizes`, `BlocksType`, `InsrtBounds` |
| `RecoveryProofs!FileInOrder` | `Spec => []FileSorted` | `RecoverySizes`, `InputsType` |
| `RecoveryProofs!OnlyTaskLines` | `Spec => []NothingInvented` | the same |
| `RecoveryProofs!EveryLineKept` | `Spec => []NoLineLost` | the same |
| `HirClusterProofs!RepliesMatch` | `Spec => []ReplyMatches` | `HirConstants`, `Careful` |
| `HirClusterProofs!ExecutedAtMostOnce` | `Spec => []AtMostOnce` | the same |
| `HirClusterProofs!NothingLeft` | `Spec => []NothingOutstanding` | the same |
| `AsyncProofs!Nested` | `Spec => []CallsOK` | none |
| `AsyncProofs!ContextsLive` | `Spec => []NoUseAfterFree` | none |
| `ClusterAsyncProofs!TypesRight` | `Spec => []TypeOK` | `BeginsAssumption`, `ClusterAssumption` |
| `ClusterAsyncProofs!OnceAtMost` | `Spec => []ExecutedOnce` | the same |
| `AnswersProofs!CalledOnce` | `Spec => []AnsweredOnce` | the same |
| `AnswersProofs!MemoryUsedRightly` | `Spec => []MemorySafe` | the same |

The assumptions say that model values are distinct (a process is not called "elect", a
task is not called "w"), that the bounds are numbers, that a pool has a thread, that the lines of a file are integers, that a command
names at least one slot and finitely many, that
every slot has a server at the beginning, that there are finitely many contexts, and that the names the model uses for no
context and for lost nodes are not those of contexts and servers (`ClusterAssumption`). None
restricts how many processes, tasks, threads, nodes, lines, servers, slots or failures there are. `Careful` is the duty
of the caller of the pipeline that the comment at `hircluster.c:3921` leaves to it: after an error it resets
the pipeline. A caller that does not would read replies to commands it has given up. The pipeline
calls in `redis_op.cpp` are commented out, and end with the reset there.

*Types.* `TypeOK` contains `LocalsSet`: a thread that is about to use a local (the
task of a worker, the file and the worker of a dispatch) has set it. It is inductive as
it stands.

*Election.* `OldestCoordinates` is not inductive: a thread that has found its own name
to be the smallest has not yet written `g_mode`. `ElectionInv` adds that

- `Numbered`: numbers are given out in increasing order and never twice, and no
  registered process is older than the last monitor;
- `NotStarted`: a process that has not started has no session and no handler running;
- `Seniority`: a process that is monitor, is acting as monitor, or has found itself to be
  the smallest is the oldest with a session. It stays the oldest as long as its session
  lives, since those who join later are younger and those who leave do not matter;
- `InOffice`: a monitor with a session has the number `epoch`.

The refinement follows step by step: `BecomeMonitor` is `Grant` or a stutter, the end of
a monitor's session, or its turning worker, is `Revoke`, and everything else stutters.
`ElectionInv` is needed for `Grant`: that the office is free when it is taken, and that
the new monitor is no older than the last.

*Dispatch and recovery.* The argument rests on the election: by `OldestCoordinates` at most one process is in
`dispatch_work` or `recover`, so between its look at a node and its write only the worker itself can write it. The
inductive invariant is `Sessions` (without a session a process has no watch, no event and no handler) and `Rest`, process
by process:

- `MainInv`: a worker that is at a task has it in its command, unless it has become the oldest and `recover` has
  taken its own command away; a task that has been begun is not `r`;
- `Walk`: the nodes of the listing exist, and the node that was found free is still free, since a free worker
  writes nothing;
- `Spares`: no process with a session and a command will be deleted: it was in `/elect` before it got the command, and
  the monitor that gives commands is the one that lists;
- `Passes`: the tasks that `dispatch_work` has passed are not `r`, or in a command, and a command is not taken away
  while the one process that could is busy.

`ListedNodesExist` is `Walk`; `AssignmentKept` and `StopOnlyWhenAllAssigned` follow from what a step may write to a
node (`Writes`). `NoTaskDropped` needs `ProgressInv`: without failures the oldest process stays the oldest
and gets no command, so `recover` takes none away (`Undisturbed`), and a task in progress is with a worker that is at it
or is going to read its command again (`AtTask`). `MonitorStaysNotified` needs `NotifyInv`: what a monitor does not
watch it has been told of (`Told`: an event other than one of `/elect` waits or a dispatch is about to begin) or is going
to look at in the dispatch it is in (`Looking`).

`LiveWorkerListed` does not hold from the start (section 4). `FullSpec`, in `MCClustComm`, begins when all have joined; from there
`/elect` only shrinks, and `ListedInv` says that the names `recover` has read include every process with a
session. `UpInvariants` shows that the state in which the runs `cluster` and `progress` begin satisfies all the
inductive invariants, so their start ahead of time does not hide behind an impossible state.

*Pool.* `PoolInv` adds to the properties that the holder of the mutex follows from where
the threads are (`MutexHeld`), that what a worker has read under the mutex still holds
(`TestHolds`), how far the destructor has come (`Closing`), and that an enqueued job is
queued, held or done (`Accounted`). `QueuedIsServed` is preserved by `Block` because the
worker that blocks still holds the mutex it has tested the predicate under, so the queue
is empty at that moment.

*Start-up.* `LoadInv` says for each node how far it has come (`Loading`, `Registering`,
`Waiting`): the blocks a job has passed are stored, the tasks the loop has passed are
registered, a node whose status is "ok" has stored and registered everything, and a
released node has seen the status of all. The last is stable because redis and
ZooKeeper only grow here (`OthersKeep`). A crash loses only local state.

*File recovery.* `RecoveryInv` follows a line on its way: redis holds only lines of the CSV files and, if no `SET` was
lost, all of them (`StoreInv`); the block files are the sorted blocks read so far (`BlocksInv`), the node files those of the
nodes before (`NodesInv`). For the merges `OrderInv` says that what is written is not greater than what is still to
be read, `NodeMergeInv` and `FileMergeInv` that what is written is what has been read, without the lines for which
`line_flag` was set. The two merges are actions, one line each, so this needs no induction over data.

*Cluster client.* `HirInv` is about where a sub-command can be. Its heart is `Once`: for each call and slot either the
sub-command has been executed once and is nowhere any more, or it is in at most one place from which it may still be executed (an
output buffer, a wire, an orphan of a closed connection). `Unsent` says that what the client may still send is nowhere
yet (`Fresh`): a command is sent again only after a redirection, which shows that the server has not executed it, and never after a
missing reply. `Quiet` and `Awaited` say that between two calls a good connection is empty, and within one only the
connection of the call carries anything, namely the awaited reply; a late one can only be on a connection marked with an error.
`Pipeline` is the same for the pipeline: a connection carries the pending sub-commands of its node in the order in
which their replies will be fetched, and leaves none of them out (`Queued`, `Kept`); route updates wait until
the pipeline is empty. `Collecting` and `Given` are what the caller has got. The first part of `HirClusterProofs` proves for every
step of the servers and of the network what it does to these facts.

*Asynchronous client.* `NoUseAfterFree` needs to know how calls are nested. `CallsOK` says of the stack that the
library calls a callback only for the context it works on and only with `IN_CALLBACK` set, that a callback or the event
loop calls the library, and that no two calls of the library work on the same context. The last is what `redisAsyncFree`
and `redisAsyncDisconnect` from a callback rely on: while the callback runs `IN_CALLBACK` is set, so they only leave a
flag, and the call below them frees the context when it is the only one.

*Asynchronous cluster client.* `Inv` follows a command as `HirInv` does, with the lists of callbacks and the stack in the
place of the one call. `OwnsOK`: the callback of a command is waited for in one place of one context, or is in
one call, or nowhere. `LinesOK`: the replies that a context has read, those on their way and the commands still to be
written are, in this order, about the commands of its callbacks (also through ASKING, whose callback is NULL), and whether a
command has been executed is what its reply says. `RepliesTrue`: the reply in a call is that to the command of the
call. So a command that is sent again has not been executed, and `redisClusterAsyncCallback` never sends again what
was lost with a context. The invariant is about every state until freed memory is used (`aborted`); what has
been executed and told by then stays as it is.

`AnsweredOnce` needs to know in which call of the library a callback runs. `ShapeOK` says which calls can be in which:
a callback with a reply is in the only call of `redisProcessCallbacks`, one with NULL in one of `__redisAsyncFree`; several
contexts are freed at once only below a route update or the end of the cluster context. With it `OrderOK` relates the flags
of a context to the stack: a context that is in error or is to be freed has events only while the library works on it
(`FlagsOK`), the context that replies are read from has no error (`ReaderOK`), and a node and its context point to each
other unless the node is being freed (`LinksOK`). So a redirection is never followed on a context that takes no commands,
unless the user has disconnected, which is the one way in which a command is dropped. `AnswersOK` then says that a
command whose callback is waited for has been told nothing (`WaitOK`) and that `acc->err` is set only by a command that was
refused or by the one whose callback runs (`ErrOK`), which is why only a refused command can hide the reply of
another.

`MemorySafe` is about what must *not* have happened, so its invariant, `SafeOK`, says what is the case as long as none of
it has (`Usual`): the nodes are those of every route that can be read (`Fixed`), so an update of the route frees no node; a
context with events, or one that the library works on, belongs to a node (`Wanted`, `Simple`), so it is not one that was
left with a freed node; there is one call of the library at most, with one callback in it; and if the nodes are those of the
slots no server says ASK (`Hushed`, `Silent`), since an ASK would add a node of which the next route does not know. Each
excuse of `MemorySafe` is needed: without "in error", for instance, a command from the callback of a failed one
would give the node another context while the first is still being freed, and the next update of the route would leave
the first with a node that is gone.

*Checked by TLC only.* The liveness properties (`ServedThenDone`, `WorkersEnd`, `MonitorReturns`, `PoolCloses`,
`UsedNodesStart`, `CallReturns`, `AskedThenFreed`, `CalledBack`), since the prover handles neither fairness nor ENABLED. The properties of
`ClusterCommand` (`RouteTrue`, `ArgumentsKept`, `AsOnOneServer`, `NothingLeftOver`, `LengthsExact`): `RedisReader`, `RedisCommand`
and `Route` compute by folds and recursion over data, which is out of the prover's reach. `CallbacksRight`,
`OtherAssertionsHold` and `TablesTrue` of `AsyncClient` for the same reason: the tables of subscriptions are hash tables with chains and
rehashing, and what a server answers is a fold over the commands it has read.

## 6. What is not modelled

* What the C library keeps in the buffer of a FILE. `sort_file` never closes `fp_out`, so that the file which `send_file`
  copies may lack its end until the process exits. How much it lacks is the library's matter, and a property of it
  would only repeat the bound that the model assumes.
* Lines of 200 or more characters, which `fgets` in `insert_to_redis` reads in pieces.
* `recovery_csv.cpp`, the first version of the recovery, which is not linked into the program.
* `hiredis`, the copy of the library that is not linked; tests, adapters and examples of `hiredis-vip`; the interactive
  drivers of the single components.
* The containers of `hiredis-vip` (`sds.c`, `adlist.c`, `hiarray.c`): their contents are values in the models.
  `crc16` is a parameter.
* The code of `hircluster.c` that nothing calls: `cluster_update_route_with_nodes_old`, `node_get_by_slot`,
  `slot_get_by_command`, the printing functions; options that only set a field, as timeouts.
* Want of memory, except where the code treats it as it treats another failure.
* Servers that contradict themselves (two owners of a slot, two masters of one name).
* Host identity (`GetIP`, `getlocalhost`), `scp` and the expect script, of which only success and failure are
  modelled.
* Connection loss within a ZooKeeper session.

## 7. Plan

Done: all the modules of section 2 with their runs, and the theorems of section 5: every safety property of
`ClustComm`, `ThreadPool`, `Insrt`, `Recovery`, `HirCluster` and `ClusterAsync` that holds is proved, and of `AsyncClient`
that no call works on a freed context. Left:

1. `Insrt` and `ClustComm` composed: that the initial state of the second is what the first establishes.
