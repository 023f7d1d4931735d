----------------------------- MODULE ThreadPool -----------------------------
(***************************************************************************)
(* The thread pool of ThreadPool.h (the same file in _read_csv,            *)
(* _file_recovery and _tendis_server), with the one thread that uses it:   *)
(* it enqueues jobs, waits for the future of a job at once                 *)
(* (csv_recovery in re_file.cpp) or not at all (read_csv::load), and       *)
(* leaves the scope of the pool, which runs the destructor.  It may leave  *)
(* after any number of jobs: csv_recovery returns early when a job fails.  *)
(*                                                                         *)
(* queue_mutex is explicit.  A worker reads the wait predicate and blocks  *)
(* in two steps, because a notification needs no lock and may fall between *)
(* them; blocking itself releases the mutex and enters the wait set in one *)
(* step, as std::condition_variable guarantees.                            *)
(***************************************************************************)
EXTENDS Naturals, Sequences, Functions

CONSTANTS Workers,  \* the threads of the pool
          Jobs,     \* the jobs its user may enqueue, each at most once
          User,     \* the thread that owns the pool
          Free      \* the holder of a mutex that nobody holds

ASSUME ThreadsDistinct == User \notin Workers /\ Free \notin Workers \cup {User}
ASSUME SomeWorker == Workers # {}

VARIABLES tasks,    \* the queue of jobs
          stop,     \* the flag of the destructor
          lock,     \* the holder of queue_mutex, or Free
          at,       \* where each thread is
          held,     \* the job a worker has popped, as a set of at most one
          done,     \* the jobs that have run: their futures are ready
          enqueued, \* the jobs whose enqueue has pushed them
          asked     \* the job whose enqueue or future the user is busy with, as a set

vars == <<tasks, stop, lock, at, held, done, enqueued, asked>>

Threads == Workers \cup {User}

WorkerPoints == {"loop", "test", "block", "waiting", "take", "run", "returned"}
UserPoints == {"idle", "push", "notify_one", "get", "set_stop", "notify_all", "join", "gone"}

TypeOK ==
    /\ tasks \in Seq(Jobs)
    /\ stop \in BOOLEAN
    /\ lock \in Threads \cup {Free}
    /\ at \in [Threads -> WorkerPoints \cup UserPoints]
    /\ \A w \in Workers : at[w] \in WorkerPoints
    /\ at[User] \in UserPoints
    /\ held \in [Workers -> SUBSET Jobs]
    /\ done \subseteq Jobs
    /\ enqueued \subseteq Jobs
    /\ asked \subseteq Jobs

Init ==
    /\ tasks = <<>>
    /\ stop = FALSE
    /\ lock = Free
    /\ at = [t \in Threads |-> IF t = User THEN "idle" ELSE "loop"]
    /\ held = [w \in Workers |-> {}]
    /\ done = {}
    /\ enqueued = {}
    /\ asked = {}

Move(t, from, to) == at[t] = from /\ at' = [at EXCEPT ![t] = to]

-----------------------------------------------------------------------------
(***************************************************************************)
(* A worker: the loop of the lambda of the constructor.                    *)
(***************************************************************************)
Lock(w) ==
    /\ Move(w, "loop", "test")
    /\ lock = Free
    /\ lock' = w
    /\ UNCHANGED <<tasks, stop, held, done, enqueued, asked>>

\* the predicate of condition.wait
Predicate == stop \/ tasks # <<>>

\* mutant: a worker returns on stop, whatever is still queued
Finished_Eager == stop

\* the test after the wait
Finished == stop /\ tasks = <<>>

Test(w) ==
    /\ Move(w, "test", IF ~Predicate THEN "block" ELSE IF Finished THEN "returned" ELSE "take")
    /\ lock' = IF Finished THEN Free ELSE lock
    /\ UNCHANGED <<tasks, stop, held, done, enqueued, asked>>

Block(w) ==
    /\ Move(w, "block", "waiting")
    /\ lock' = Free
    /\ UNCHANGED <<tasks, stop, held, done, enqueued, asked>>

\* condition_variable may wake a thread for no reason
Spurious(w) ==
    /\ Move(w, "waiting", "loop")
    /\ UNCHANGED <<tasks, stop, lock, held, done, enqueued, asked>>

\* mutant: the job is not popped
Take_Peek(w) ==
    /\ Move(w, "take", "run")
    /\ lock' = Free
    /\ held' = [held EXCEPT ![w] = {Head(tasks)}]
    /\ UNCHANGED <<tasks, stop, done, enqueued, asked>>

\* task = move(front); pop; the scope of the lock ends
Take(w) ==
    /\ Move(w, "take", "run")
    /\ lock' = Free
    /\ held' = [held EXCEPT ![w] = {Head(tasks)}]
    /\ tasks' = Tail(tasks)
    /\ UNCHANGED <<stop, done, enqueued, asked>>

\* task(): a packaged_task, which makes the future ready even if the job throws
Run(w) ==
    /\ Move(w, "run", "loop")
    /\ done' = done \cup held[w]
    /\ held' = [held EXCEPT ![w] = {}]
    /\ UNCHANGED <<tasks, stop, lock, enqueued, asked>>

worker(w) == Lock(w) \/ Test(w) \/ Block(w) \/ Take(w) \/ Run(w)

-----------------------------------------------------------------------------
(***************************************************************************)
(* The user.  enqueue throws after stop; the only user sets stop itself    *)
(* and enqueues nothing afterwards.                                        *)
(***************************************************************************)
Enqueue(j) ==
    /\ Move(User, "idle", "push")
    /\ lock = Free
    /\ lock' = User
    /\ j \in Jobs \ enqueued
    /\ asked' = {j}
    /\ UNCHANGED <<tasks, stop, held, done, enqueued>>

Push ==
    /\ Move(User, "push", "notify_one")
    /\ ~stop
    /\ \E j \in asked : tasks' = Append(tasks, j)
    /\ enqueued' = enqueued \cup asked
    /\ lock' = Free
    /\ UNCHANGED <<stop, held, done, asked>>

\* the threads in the wait set
Waiting == {w \in Workers : at[w] = "waiting"}

\* mutant: enqueue does not notify
NotifyOne_Missing ==
    /\ at[User] = "notify_one"
    /\ \E next \in {"get", "idle"} : at' = [at EXCEPT ![User] = next]
    /\ UNCHANGED <<tasks, stop, lock, held, done, enqueued, asked>>

\* notify_one wakes one waiting worker, if there is one; the user then asks
\* the future for its result, or goes on
NotifyOne ==
    /\ at[User] = "notify_one"
    /\ \E next \in {"get", "idle"} :
          IF Waiting = {} THEN at' = [at EXCEPT ![User] = next]
          ELSE \E w \in Waiting : at' = [at EXCEPT ![User] = next, ![w] = "loop"]
    /\ UNCHANGED <<tasks, stop, lock, held, done, enqueued, asked>>

\* future::get
Get ==
    /\ Move(User, "get", "idle")
    /\ asked \subseteq done
    /\ UNCHANGED <<tasks, stop, lock, held, done, enqueued, asked>>

(***************************************************************************)
(* The destructor.                                                         *)
(***************************************************************************)
\* mutant: the destructor sets stop without the mutex
Destroy_Unlocked ==
    /\ Move(User, "idle", "notify_all")
    /\ stop' = TRUE
    /\ UNCHANGED <<tasks, lock, held, done, enqueued, asked>>

Destroy ==
    /\ Move(User, "idle", "set_stop")
    /\ lock = Free
    /\ lock' = User
    /\ UNCHANGED <<tasks, stop, held, done, enqueued, asked>>

SetStop ==
    /\ Move(User, "set_stop", "notify_all")
    /\ stop' = TRUE
    /\ lock' = Free
    /\ UNCHANGED <<tasks, held, done, enqueued, asked>>

NotifyAll ==
    /\ at[User] = "notify_all"
    /\ at' = [t \in Threads |-> IF t = User THEN "join"
                                ELSE IF t \in Waiting THEN "loop" ELSE at[t]]
    /\ UNCHANGED <<tasks, stop, lock, held, done, enqueued, asked>>

\* worker.join() for every worker, in turn
Join ==
    /\ Move(User, "join", "gone")
    /\ \A w \in Workers : at[w] = "returned"
    /\ UNCHANGED <<tasks, stop, lock, held, done, enqueued, asked>>

user == (\E j \in Jobs : Enqueue(j)) \/ Push \/ NotifyOne \/ Get
            \/ Destroy \/ SetStop \/ NotifyAll \/ Join

\* the pool is gone, and the program goes on
Gone == at[User] = "gone" /\ UNCHANGED vars

Next == user \/ (\E w \in Workers : worker(w) \/ Spurious(w)) \/ Gone

Spec == Init /\ [][Next]_vars

(***************************************************************************)
(* Every job terminates, and a thread that finds the mutex free again and  *)
(* again gets it at last.  Nothing makes a spurious wake-up happen.        *)
(***************************************************************************)
Fairness == SF_vars(user) /\ \A w \in Workers : SF_vars(worker(w))

FairSpec == Spec /\ Fairness

-----------------------------------------------------------------------------
(***************************************************************************)
(* The promises of the pool to read_csv::load and csv_recovery.            *)
(***************************************************************************)

\* While a job is in the queue and its notify_one has been made, some worker
\* is awake to take it: the notification, made without the mutex, is never
\* lost between a worker's test of the predicate and its wait.
QueuedIsServed ==
    tasks # <<>> /\ at[User] # "notify_one" =>
        \E w \in Workers : at[w] \notin {"waiting", "returned"}

\* A job runs once: it is never in the queue, in the hands of a worker and
\* done at the same time, never in the hands of two workers, and never in
\* the queue twice.
OnceOnly ==
    /\ \A i, k \in DOMAIN tasks : tasks[i] = tasks[k] => i = k
    /\ \A w \in Workers : held[w] \cap (done \cup Range(tasks)) = {}
    /\ \A w, v \in Workers : w # v => held[w] \cap held[v] = {}
    /\ done \cap Range(tasks) = {}

\* When the destructor returns, every job that was enqueued has run: load()
\* returns only after every insert_to_redis, although nobody asks for their
\* futures.
JoinedMeansDone == at[User] = "gone" => done = enqueued

\* The destructor returns: no worker sleeps through the stop flag, whatever
\* the moment at which it is set, and a result that is waited for arrives.
PoolCloses == <>(at[User] = "gone")
-----------------------------------------------------------------------------
(***************************************************************************)
(* The inductive invariant behind QueuedIsServed, OnceOnly and             *)
(* JoinedMeansDone, in parts.                                              *)
(***************************************************************************)

\* who holds queue_mutex follows from where the threads are
MutexHeld ==
    /\ \A w \in Workers : at[w] \in {"test", "block", "take"} <=> lock = w
    /\ at[User] \in {"push", "set_stop"} <=> lock = User

\* what a worker has read under the mutex still holds
TestHolds ==
    \A w \in Workers :
        /\ at[w] = "block" => tasks = <<>> /\ ~stop
        /\ at[w] = "take" => tasks # <<>>
        /\ at[w] = "returned" => tasks = <<>> /\ stop

\* where the user is in the destructor
Closing ==
    /\ stop <=> at[User] \in {"notify_all", "join", "gone"}
    /\ at[User] = "gone" => \A w \in Workers : at[w] = "returned"

\* every enqueued job is queued, held or done
Accounted ==
    /\ enqueued = done \cup Range(tasks) \cup UNION {held[w] : w \in Workers}
    /\ \A w \in Workers : at[w] # "run" => held[w] = {}
    /\ at[User] = "push" => \E j \in Jobs \ enqueued : asked = {j}

PoolInv ==
    TypeOK /\ MutexHeld /\ TestHolds /\ Closing /\ Accounted /\ QueuedIsServed /\ OnceOnly
=============================================================================
