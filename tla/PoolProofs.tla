----------------------------- MODULE PoolProofs -----------------------------
(***************************************************************************)
(* The thread pool of ThreadPool.h runs every job it was given, once, and  *)
(* before its destructor returns - for every number of workers and jobs.   *)
(* PoolInv is inductive; there is one lemma per step of the code, with one *)
(* step per part of PoolInv that the action can disturb.                   *)
(***************************************************************************)
EXTENDS ThreadPool, TLAPS

\* What pop() leaves in the queue: the jobs but the first, still distinct.
LEMMA TailRange ==
    ASSUME NEW S, NEW s \in Seq(S), s # <<>>,
           \A i, k \in DOMAIN s : s[i] = s[k] => i = k
    PROVE  /\ Tail(s) \in Seq(S)
           /\ Head(s) \in S
           /\ Range(Tail(s)) = Range(s) \ {Head(s)}
           /\ Head(s) \in Range(s)
           /\ \A i, k \in DOMAIN Tail(s) : Tail(s)[i] = Tail(s)[k] => i = k
<1>1. Tail(s) \in Seq(S) /\ Head(s) \in S /\ Head(s) = s[1] /\ Len(s) \in Nat /\ Len(s) # 0
      /\ DOMAIN s = 1 .. Len(s)
    OBVIOUS
<1>2. DOMAIN Tail(s) = 1 .. Len(s) - 1 /\ \A i \in 1 .. Len(s) - 1 : Tail(s)[i] = s[i + 1]
    BY <1>1
<1>3. 1 \in DOMAIN s
    BY <1>1
<1>4. ASSUME NEW x \in Range(Tail(s)) PROVE x \in Range(s) \ {Head(s)}
  <2>1. PICK i \in 1 .. Len(s) - 1 : x = s[i + 1]
      BY <1>2 DEF Range
  <2>2. i + 1 \in DOMAIN s /\ i + 1 # 1
      BY <1>1
  <2> QED BY <1>1, <1>3, <2>1, <2>2 DEF Range
<1>5. ASSUME NEW x \in Range(s) \ {Head(s)} PROVE x \in Range(Tail(s))
  <2>1. PICK i \in DOMAIN s : x = s[i]
      BY DEF Range
  <2>2. i \in 1 .. Len(s) /\ i # 1
      BY <1>1, <2>1
  <2>3. i - 1 \in DOMAIN Tail(s) /\ Tail(s)[i - 1] = x
      BY <1>1, <1>2, <2>1, <2>2
  <2> QED BY <2>3 DEF Range
<1>6. Head(s) \in Range(s)
    BY <1>1, <1>3 DEF Range
<1>7. ASSUME NEW i \in DOMAIN Tail(s), NEW k \in DOMAIN Tail(s), Tail(s)[i] = Tail(s)[k]
      PROVE i = k
  <2>1. i + 1 \in DOMAIN s /\ k + 1 \in DOMAIN s /\ s[i + 1] = s[k + 1]
      BY <1>1, <1>2, <1>7
  <2> QED BY <1>1, <1>2, <2>1
<1> QED BY <1>1, <1>4, <1>5, <1>6, <1>7

\* What emplace() adds to the queue: the new job, distinct from the others.
LEMMA AppendRange ==
    ASSUME NEW S, NEW s \in Seq(S), NEW j \in S, j \notin Range(s),
           \A i, k \in DOMAIN s : s[i] = s[k] => i = k
    PROVE  /\ Append(s, j) \in Seq(S)
           /\ Append(s, j) # <<>>
           /\ Range(Append(s, j)) = Range(s) \cup {j}
           /\ \A i, k \in DOMAIN Append(s, j) : Append(s, j)[i] = Append(s, j)[k] => i = k
<1>1. /\ Append(s, j) \in Seq(S) /\ Len(s) \in Nat /\ DOMAIN s = 1 .. Len(s)
      /\ DOMAIN Append(s, j) = 1 .. Len(s) + 1 /\ Append(s, j) # <<>>
      /\ Append(s, j)[Len(s) + 1] = j
      /\ \A i \in 1 .. Len(s) : Append(s, j)[i] = s[i]
    OBVIOUS
<1>2. \A i \in DOMAIN s : s[i] # j
    BY DEF Range
<1>3. ASSUME NEW x \in Range(Append(s, j)) PROVE x \in Range(s) \cup {j}
  <2>1. PICK i \in 1 .. Len(s) + 1 : x = Append(s, j)[i]
      BY <1>1 DEF Range
  <2>2. CASE i = Len(s) + 1
      BY <1>1, <2>1, <2>2
  <2>3. CASE i # Len(s) + 1
    <3>1. i \in DOMAIN s /\ x = s[i]
        BY <1>1, <2>1, <2>3
    <3> QED BY <3>1 DEF Range
  <2> QED BY <2>2, <2>3
<1>4. ASSUME NEW x \in Range(s) PROVE x \in Range(Append(s, j))
  <2>1. PICK i \in DOMAIN s : x = s[i]
      BY DEF Range
  <2>2. i \in DOMAIN Append(s, j) /\ x = Append(s, j)[i]
      BY <1>1, <2>1
  <2> QED BY <2>2 DEF Range
<1>5. Len(s) + 1 \in DOMAIN Append(s, j)
    BY <1>1
<1>6. j \in Range(Append(s, j))
    BY <1>1, <1>5 DEF Range
<1>7. ASSUME NEW i \in DOMAIN Append(s, j), NEW k \in DOMAIN Append(s, j),
             Append(s, j)[i] = Append(s, j)[k]
      PROVE i = k
    BY <1>1, <1>2, <1>7
<1> QED BY <1>1, <1>3, <1>4, <1>6, <1>7

\* A worker that takes the mutex knows nothing yet.
LEMMA LockKeeps ==
    ASSUME PoolInv, NEW w \in Workers, Lock(w) PROVE PoolInv'
<1>1. TypeOK'
    BY ThreadsDistinct DEF PoolInv, TypeOK, Threads, WorkerPoints, UserPoints, Lock, Move
<1>2. MutexHeld'
    BY ThreadsDistinct DEF PoolInv, TypeOK, Threads, MutexHeld, Lock, Move
<1>3. TestHolds'
    BY ThreadsDistinct DEF PoolInv, TypeOK, Threads, MutexHeld, TestHolds, Closing, Lock, Move
<1>4. Closing'
    BY ThreadsDistinct DEF PoolInv, TypeOK, Threads, Closing, Lock, Move
<1>5. Accounted'
    BY ThreadsDistinct DEF PoolInv, TypeOK, Threads, Accounted, Lock, Move
<1>6. QueuedIsServed'
    BY ThreadsDistinct DEF PoolInv, TypeOK, Threads, QueuedIsServed, TestHolds, Lock, Move
<1>7. OnceOnly'
    BY DEF PoolInv, TypeOK, Threads, OnceOnly, Accounted, Lock, Move
<1> QED BY <1>1, <1>2, <1>3, <1>4, <1>5, <1>6, <1>7 DEF PoolInv

\* A worker that has tested the predicate holds the mutex, or has returned.
LEMMA TestKeeps ==
    ASSUME PoolInv, NEW w \in Workers, Test(w) PROVE PoolInv'
<1>1. TypeOK'
    BY ThreadsDistinct DEF PoolInv, TypeOK, Threads, WorkerPoints, UserPoints, Predicate, Finished, Test, Move
<1>2. MutexHeld'
    BY ThreadsDistinct DEF PoolInv, TypeOK, Threads, MutexHeld, Predicate, Finished, Test, Move
<1>3. TestHolds'
    BY ThreadsDistinct DEF PoolInv, TypeOK, Threads, MutexHeld, TestHolds, Closing, Predicate, Finished, Test, Move
<1>4. Closing'
    BY ThreadsDistinct DEF PoolInv, TypeOK, Threads, Closing, Predicate, Finished, Test, Move
<1>5. Accounted'
    BY ThreadsDistinct DEF PoolInv, TypeOK, Threads, Accounted, Predicate, Finished, Test, Move
<1>6. QueuedIsServed'
    BY ThreadsDistinct DEF PoolInv, TypeOK, Threads, QueuedIsServed, TestHolds, Predicate, Finished, Test, Move
<1>7. OnceOnly'
    BY DEF PoolInv, TypeOK, Threads, OnceOnly, Accounted, Predicate, Finished, Test, Move
<1> QED BY <1>1, <1>2, <1>3, <1>4, <1>5, <1>6, <1>7 DEF PoolInv

\* A worker blocks only while the queue is empty and the flag is down.
LEMMA BlockKeeps ==
    ASSUME PoolInv, NEW w \in Workers, Block(w) PROVE PoolInv'
<1>1. TypeOK'
    BY ThreadsDistinct DEF PoolInv, TypeOK, Threads, WorkerPoints, UserPoints, Block, Move
<1>2. MutexHeld'
    BY ThreadsDistinct DEF PoolInv, TypeOK, Threads, MutexHeld, Block, Move
<1>3. TestHolds'
    BY ThreadsDistinct DEF PoolInv, TypeOK, Threads, MutexHeld, TestHolds, Closing, Block, Move
<1>4. Closing'
    BY ThreadsDistinct DEF PoolInv, TypeOK, Threads, Closing, Block, Move
<1>5. Accounted'
    BY ThreadsDistinct DEF PoolInv, TypeOK, Threads, Accounted, Block, Move
<1>6. QueuedIsServed'
    BY ThreadsDistinct DEF PoolInv, TypeOK, Threads, QueuedIsServed, TestHolds, Block, Move
<1>7. OnceOnly'
    BY DEF PoolInv, TypeOK, Threads, OnceOnly, Accounted, Block, Move
<1> QED BY <1>1, <1>2, <1>3, <1>4, <1>5, <1>6, <1>7 DEF PoolInv

\* A worker that wakes for no reason disturbs nothing.
LEMMA SpuriousKeeps ==
    ASSUME PoolInv, NEW w \in Workers, Spurious(w) PROVE PoolInv'
<1>1. TypeOK'
    BY ThreadsDistinct DEF PoolInv, TypeOK, Threads, WorkerPoints, UserPoints, Spurious, Move
<1>2. MutexHeld'
    BY ThreadsDistinct DEF PoolInv, TypeOK, Threads, MutexHeld, Spurious, Move
<1>3. TestHolds'
    BY ThreadsDistinct DEF PoolInv, TypeOK, Threads, MutexHeld, TestHolds, Closing, Spurious, Move
<1>4. Closing'
    BY ThreadsDistinct DEF PoolInv, TypeOK, Threads, Closing, Spurious, Move
<1>5. Accounted'
    BY ThreadsDistinct DEF PoolInv, TypeOK, Threads, Accounted, Spurious, Move
<1>6. QueuedIsServed'
    BY ThreadsDistinct DEF PoolInv, TypeOK, Threads, QueuedIsServed, TestHolds, Spurious, Move
<1>7. OnceOnly'
    BY DEF PoolInv, TypeOK, Threads, OnceOnly, Accounted, Spurious, Move
<1> QED BY <1>1, <1>2, <1>3, <1>4, <1>5, <1>6, <1>7 DEF PoolInv

\* The job that leaves the queue is the one the worker holds.
LEMMA TakeKeeps ==
    ASSUME PoolInv, NEW w \in Workers, Take(w) PROVE PoolInv'
<1> DEFINE h == Head(tasks)
<1>0. tasks # <<>> /\ tasks \in Seq(Jobs)
    BY DEF PoolInv, TypeOK, TestHolds, Take, Move
<1>a. /\ Tail(tasks) \in Seq(Jobs) /\ h \in Jobs /\ h \in Range(tasks)
      /\ Range(Tail(tasks)) = Range(tasks) \ {h}
      /\ \A i, k \in DOMAIN Tail(tasks) : Tail(tasks)[i] = Tail(tasks)[k] => i = k
    BY <1>0, TailRange DEF PoolInv, OnceOnly
<1>1. TypeOK'
    BY <1>a, ThreadsDistinct DEF PoolInv, TypeOK, Threads, WorkerPoints, UserPoints, Take, Move
<1>2. MutexHeld'
    BY ThreadsDistinct DEF PoolInv, TypeOK, Threads, MutexHeld, Take, Move
<1>3. TestHolds'
    BY ThreadsDistinct DEF PoolInv, TypeOK, Threads, MutexHeld, TestHolds, Closing, Take, Move
<1>4. Closing'
    BY ThreadsDistinct DEF PoolInv, TypeOK, Threads, Closing, Take, Move
<1>5. Accounted'
  <2>1. held[w] = {} /\ held'[w] = {h} /\ \A v \in Workers \ {w} : held'[v] = held[v]
      BY DEF PoolInv, TypeOK, Accounted, Take, Move
  <2>2. UNION {held'[v] : v \in Workers} = {h} \cup UNION {held[v] : v \in Workers}
      BY <2>1
  <2>3. enqueued' = done' \cup Range(tasks') \cup UNION {held'[v] : v \in Workers}
      BY <1>a, <2>2 DEF PoolInv, Accounted, Take
  <2>4. at'[w] = "run" /\ (\A v \in Workers \ {w} : at'[v] = at[v]) /\ at'[User] = at[User]
      BY ThreadsDistinct DEF PoolInv, TypeOK, Threads, Take, Move
  <2> QED BY <2>1, <2>3, <2>4 DEF PoolInv, Accounted, Take
<1>6. QueuedIsServed'
    BY ThreadsDistinct DEF PoolInv, TypeOK, Threads, QueuedIsServed, TestHolds, Take, Move
<1>7. OnceOnly'
  <2>1. held'[w] = {h} /\ \A v \in Workers \ {w} : held'[v] = held[v]
      BY DEF PoolInv, TypeOK, Take
  <2>2. h \notin done /\ \A v \in Workers : h \notin held[v]
      BY <1>a DEF PoolInv, OnceOnly
  <2> QED BY <1>a, <2>1, <2>2 DEF PoolInv, OnceOnly, Take
<1> QED BY <1>1, <1>2, <1>3, <1>4, <1>5, <1>6, <1>7 DEF PoolInv

\* The job a worker holds becomes done.
LEMMA RunKeeps ==
    ASSUME PoolInv, NEW w \in Workers, Run(w) PROVE PoolInv'
<1>1. TypeOK'
    BY ThreadsDistinct DEF PoolInv, TypeOK, Threads, WorkerPoints, UserPoints, Run, Move
<1>2. MutexHeld'
    BY ThreadsDistinct DEF PoolInv, TypeOK, Threads, MutexHeld, Run, Move
<1>3. TestHolds'
    BY ThreadsDistinct DEF PoolInv, TypeOK, Threads, MutexHeld, TestHolds, Closing, Run, Move
<1>4. Closing'
    BY ThreadsDistinct DEF PoolInv, TypeOK, Threads, Closing, Run, Move
<1>5. Accounted'
    BY ThreadsDistinct DEF PoolInv, TypeOK, Threads, Accounted, Run, Move
<1>6. QueuedIsServed'
    BY ThreadsDistinct DEF PoolInv, TypeOK, Threads, QueuedIsServed, TestHolds, Run, Move
<1>7. OnceOnly'
    BY DEF PoolInv, TypeOK, Threads, OnceOnly, Accounted, Run, Move
<1> QED BY <1>1, <1>2, <1>3, <1>4, <1>5, <1>6, <1>7 DEF PoolInv

\* The job of a starting enqueue is new.
LEMMA EnqueueKeeps ==
    ASSUME PoolInv, NEW j \in Jobs, Enqueue(j) PROVE PoolInv'
<1>1. TypeOK'
    BY ThreadsDistinct DEF PoolInv, TypeOK, Threads, WorkerPoints, UserPoints, Enqueue, Move
<1>2. MutexHeld'
    BY ThreadsDistinct DEF PoolInv, TypeOK, Threads, MutexHeld, Enqueue, Move
<1>3. TestHolds'
    BY ThreadsDistinct DEF PoolInv, TypeOK, Threads, MutexHeld, TestHolds, Closing, Enqueue, Move
<1>4. Closing'
    BY ThreadsDistinct DEF PoolInv, TypeOK, Threads, Closing, Enqueue, Move
<1>5. Accounted'
    BY ThreadsDistinct DEF PoolInv, TypeOK, Threads, Accounted, Enqueue, Move
<1>6. QueuedIsServed'
    BY ThreadsDistinct DEF PoolInv, TypeOK, Threads, QueuedIsServed, TestHolds, Enqueue, Move
<1>7. OnceOnly'
    BY DEF PoolInv, TypeOK, Threads, OnceOnly, Accounted, Enqueue, Move
<1> QED BY <1>1, <1>2, <1>3, <1>4, <1>5, <1>6, <1>7 DEF PoolInv

\* A pushed job is new, and its notify_one is still to come.
LEMMA PushKeeps ==
    ASSUME PoolInv, Push PROVE PoolInv'
<1>0. PICK j \in asked : tasks' = Append(tasks, j)
    BY DEF Push
<1>a. asked = {j} /\ j \in Jobs /\ j \notin enqueued /\ Range(tasks) \subseteq enqueued
    BY <1>0 DEF PoolInv, TypeOK, Accounted, Push, Move
<1>b. /\ tasks' \in Seq(Jobs) /\ tasks' # <<>> /\ Range(tasks') = Range(tasks) \cup {j}
      /\ \A i, k \in DOMAIN tasks' : tasks'[i] = tasks'[k] => i = k
    BY <1>0, <1>a, AppendRange DEF PoolInv, TypeOK, OnceOnly
<1>1. TypeOK'
    BY ThreadsDistinct DEF PoolInv, TypeOK, Threads, WorkerPoints, UserPoints, Push, Move
<1>2. MutexHeld'
    BY ThreadsDistinct DEF PoolInv, TypeOK, Threads, MutexHeld, Push, Move
<1>3. TestHolds'
    BY ThreadsDistinct DEF PoolInv, TypeOK, Threads, MutexHeld, TestHolds, Closing, Push, Move
<1>4. Closing'
    BY ThreadsDistinct DEF PoolInv, TypeOK, Threads, Closing, Push, Move
<1>5. Accounted'
    BY <1>a, <1>b, ThreadsDistinct DEF PoolInv, TypeOK, Threads, Accounted, Push, Move
<1>6. QueuedIsServed'
    BY ThreadsDistinct DEF PoolInv, TypeOK, Threads, QueuedIsServed, TestHolds, Push, Move
<1>7. OnceOnly'
  <2>1. j \notin done /\ \A v \in Workers : j \notin held[v]
      BY <1>a DEF PoolInv, Accounted
  <2> QED BY <1>b, <2>1 DEF PoolInv, OnceOnly, Push
<1> QED BY <1>1, <1>2, <1>3, <1>4, <1>5, <1>6, <1>7 DEF PoolInv

\* notify_one leaves a worker awake.
LEMMA NotifyOneKeeps ==
    ASSUME PoolInv, NotifyOne PROVE PoolInv'
<1>1. TypeOK'
    BY ThreadsDistinct DEF PoolInv, TypeOK, Threads, WorkerPoints, UserPoints, Waiting, NotifyOne, Move
<1>2. MutexHeld'
    BY ThreadsDistinct DEF PoolInv, TypeOK, Threads, MutexHeld, Waiting, NotifyOne, Move
<1>3. TestHolds'
    BY ThreadsDistinct DEF PoolInv, TypeOK, Threads, MutexHeld, TestHolds, Closing, Waiting, NotifyOne, Move
<1>4. Closing'
    BY ThreadsDistinct DEF PoolInv, TypeOK, Threads, Closing, Waiting, NotifyOne, Move
<1>5. Accounted'
    BY ThreadsDistinct DEF PoolInv, TypeOK, Threads, Accounted, Waiting, NotifyOne, Move
<1>6. QueuedIsServed'
  <2>1. \A v \in Workers : at[v] # "returned"
      BY DEF PoolInv, TestHolds, Closing, NotifyOne
  <2>2. CASE Waiting = {}
    <3>1. \A v \in Workers : at'[v] = at[v] /\ at[v] # "waiting"
        BY <2>2, ThreadsDistinct DEF PoolInv, TypeOK, Threads, Waiting, NotifyOne
    <3> QED BY <2>1, <3>1, SomeWorker DEF QueuedIsServed
  <2>3. CASE Waiting # {}
    <3>1. \E v \in Workers : at'[v] = "loop"
        BY <2>3, ThreadsDistinct DEF PoolInv, TypeOK, Threads, Waiting, NotifyOne
    <3> QED BY <3>1 DEF QueuedIsServed
  <2> QED BY <2>2, <2>3
<1>7. OnceOnly'
    BY DEF PoolInv, TypeOK, Threads, OnceOnly, Accounted, Waiting, NotifyOne, Move
<1> QED BY <1>1, <1>2, <1>3, <1>4, <1>5, <1>6, <1>7 DEF PoolInv

\* Waiting for a result changes nothing.
LEMMA GetKeeps ==
    ASSUME PoolInv, Get PROVE PoolInv'
<1>1. TypeOK'
    BY ThreadsDistinct DEF PoolInv, TypeOK, Threads, WorkerPoints, UserPoints, Get, Move
<1>2. MutexHeld'
    BY ThreadsDistinct DEF PoolInv, TypeOK, Threads, MutexHeld, Get, Move
<1>3. TestHolds'
    BY ThreadsDistinct DEF PoolInv, TypeOK, Threads, MutexHeld, TestHolds, Closing, Get, Move
<1>4. Closing'
    BY ThreadsDistinct DEF PoolInv, TypeOK, Threads, Closing, Get, Move
<1>5. Accounted'
    BY ThreadsDistinct DEF PoolInv, TypeOK, Threads, Accounted, Get, Move
<1>6. QueuedIsServed'
    BY ThreadsDistinct DEF PoolInv, TypeOK, Threads, QueuedIsServed, TestHolds, Get, Move
<1>7. OnceOnly'
    BY DEF PoolInv, TypeOK, Threads, OnceOnly, Accounted, Get, Move
<1> QED BY <1>1, <1>2, <1>3, <1>4, <1>5, <1>6, <1>7 DEF PoolInv

\* The destructor takes the mutex.
LEMMA DestroyKeeps ==
    ASSUME PoolInv, Destroy PROVE PoolInv'
<1>1. TypeOK'
    BY ThreadsDistinct DEF PoolInv, TypeOK, Threads, WorkerPoints, UserPoints, Destroy, Move
<1>2. MutexHeld'
    BY ThreadsDistinct DEF PoolInv, TypeOK, Threads, MutexHeld, Destroy, Move
<1>3. TestHolds'
    BY ThreadsDistinct DEF PoolInv, TypeOK, Threads, MutexHeld, TestHolds, Closing, Destroy, Move
<1>4. Closing'
    BY ThreadsDistinct DEF PoolInv, TypeOK, Threads, Closing, Destroy, Move
<1>5. Accounted'
    BY ThreadsDistinct DEF PoolInv, TypeOK, Threads, Accounted, Destroy, Move
<1>6. QueuedIsServed'
    BY ThreadsDistinct DEF PoolInv, TypeOK, Threads, QueuedIsServed, TestHolds, Destroy, Move
<1>7. OnceOnly'
    BY DEF PoolInv, TypeOK, Threads, OnceOnly, Accounted, Destroy, Move
<1> QED BY <1>1, <1>2, <1>3, <1>4, <1>5, <1>6, <1>7 DEF PoolInv

\* The flag is set while no worker is between its test and its wait.
LEMMA SetStopKeeps ==
    ASSUME PoolInv, SetStop PROVE PoolInv'
<1>1. TypeOK'
    BY ThreadsDistinct DEF PoolInv, TypeOK, Threads, WorkerPoints, UserPoints, SetStop, Move
<1>2. MutexHeld'
    BY ThreadsDistinct DEF PoolInv, TypeOK, Threads, MutexHeld, SetStop, Move
<1>3. TestHolds'
    BY ThreadsDistinct DEF PoolInv, TypeOK, Threads, MutexHeld, TestHolds, Closing, SetStop, Move
<1>4. Closing'
    BY ThreadsDistinct DEF PoolInv, TypeOK, Threads, Closing, SetStop, Move
<1>5. Accounted'
    BY ThreadsDistinct DEF PoolInv, TypeOK, Threads, Accounted, SetStop, Move
<1>6. QueuedIsServed'
    BY ThreadsDistinct DEF PoolInv, TypeOK, Threads, QueuedIsServed, TestHolds, SetStop, Move
<1>7. OnceOnly'
    BY DEF PoolInv, TypeOK, Threads, OnceOnly, Accounted, SetStop, Move
<1> QED BY <1>1, <1>2, <1>3, <1>4, <1>5, <1>6, <1>7 DEF PoolInv

\* notify_all leaves no worker in the wait set.
LEMMA NotifyAllKeeps ==
    ASSUME PoolInv, NotifyAll PROVE PoolInv'
<1>1. TypeOK'
    BY ThreadsDistinct DEF PoolInv, TypeOK, Threads, WorkerPoints, UserPoints, Waiting, NotifyAll, Move
<1>2. MutexHeld'
    BY ThreadsDistinct DEF PoolInv, TypeOK, Threads, MutexHeld, Waiting, NotifyAll, Move
<1>3. TestHolds'
    BY ThreadsDistinct DEF PoolInv, TypeOK, Threads, MutexHeld, TestHolds, Closing, Waiting, NotifyAll, Move
<1>4. Closing'
    BY ThreadsDistinct DEF PoolInv, TypeOK, Threads, Closing, Waiting, NotifyAll, Move
<1>5. Accounted'
    BY ThreadsDistinct DEF PoolInv, TypeOK, Threads, Accounted, Waiting, NotifyAll, Move
<1>6. QueuedIsServed'
    BY ThreadsDistinct DEF PoolInv, TypeOK, Threads, QueuedIsServed, TestHolds, Waiting, NotifyAll, Move
<1>7. OnceOnly'
    BY DEF PoolInv, TypeOK, Threads, OnceOnly, Accounted, Waiting, NotifyAll, Move
<1> QED BY <1>1, <1>2, <1>3, <1>4, <1>5, <1>6, <1>7 DEF PoolInv

\* The destructor returns only after every worker.
LEMMA JoinKeeps ==
    ASSUME PoolInv, Join PROVE PoolInv'
<1>1. TypeOK'
    BY ThreadsDistinct DEF PoolInv, TypeOK, Threads, WorkerPoints, UserPoints, Join, Move
<1>2. MutexHeld'
    BY ThreadsDistinct DEF PoolInv, TypeOK, Threads, MutexHeld, Join, Move
<1>3. TestHolds'
    BY ThreadsDistinct DEF PoolInv, TypeOK, Threads, MutexHeld, TestHolds, Closing, Join, Move
<1>4. Closing'
    BY ThreadsDistinct DEF PoolInv, TypeOK, Threads, Closing, Join, Move
<1>5. Accounted'
    BY ThreadsDistinct DEF PoolInv, TypeOK, Threads, Accounted, Join, Move
<1>6. QueuedIsServed'
    BY ThreadsDistinct DEF PoolInv, TypeOK, Threads, QueuedIsServed, TestHolds, Join, Move
<1>7. OnceOnly'
    BY DEF PoolInv, TypeOK, Threads, OnceOnly, Accounted, Join, Move
<1> QED BY <1>1, <1>2, <1>3, <1>4, <1>5, <1>6, <1>7 DEF PoolInv

\* A pool that has just been made has nothing to account for.
LEMMA InitKeeps == Init => PoolInv
<1> SUFFICES ASSUME Init PROVE PoolInv
    OBVIOUS
<1>0. tasks \in Seq(Jobs) /\ held \in [Workers -> SUBSET Jobs]
    BY DEF Init
<1>a. /\ at \in [Threads -> WorkerPoints \cup UserPoints]
      /\ at[User] = "idle" /\ \A w \in Workers : at[w] = "loop"
    BY ThreadsDistinct DEF Init, Threads, WorkerPoints, UserPoints
<1>1. TypeOK
    BY <1>0, <1>a DEF Init, TypeOK, WorkerPoints, UserPoints
<1>2. MutexHeld /\ TestHolds /\ Closing /\ QueuedIsServed
    BY ThreadsDistinct DEF Init, Threads, MutexHeld, TestHolds, Closing, QueuedIsServed
<1>3. Range(tasks) = {} /\ UNION {held[w] : w \in Workers} = {}
    BY DEF Init, Range
<1>4. Accounted /\ OnceOnly
    BY <1>3, ThreadsDistinct DEF Init, Threads, Accounted, OnceOnly
<1> QED BY <1>1, <1>2, <1>4 DEF PoolInv

\* Every step of the workers and of the user preserves PoolInv.
LEMMA NextKeeps == PoolInv /\ [Next]_vars => PoolInv'
<1> SUFFICES ASSUME PoolInv, [Next]_vars PROVE PoolInv'
    OBVIOUS
<1>1. CASE user
    BY <1>1, EnqueueKeeps, PushKeeps, NotifyOneKeeps, GetKeeps, DestroyKeeps, SetStopKeeps,
       NotifyAllKeeps, JoinKeeps DEF user
<1>2. CASE \E w \in Workers : worker(w) \/ Spurious(w)
  <2>1. PICK w \in Workers : worker(w) \/ Spurious(w)
      BY <1>2
  <2> QED BY <2>1, LockKeeps, TestKeeps, BlockKeeps, TakeKeeps, RunKeeps, SpuriousKeeps DEF worker
<1>3. CASE UNCHANGED vars
    BY <1>3 DEF vars, PoolInv, TypeOK, MutexHeld, TestHolds, Closing, Accounted,
                QueuedIsServed, OnceOnly
<1> QED BY <1>1, <1>2, <1>3 DEF Next, Gone

\* The invariant of the pool holds in every reachable state.
LEMMA PoolAlways == Spec => []PoolInv
<1> QED BY InitKeeps, NextKeeps, PTL DEF Spec

\* For any number of workers: while a job is queued and announced, a worker
\* is awake to take it (condition.wait and notify_one of ThreadPool.h).
THEOREM NoLostWakeup == Spec => []QueuedIsServed
<1>1. PoolInv => QueuedIsServed
    BY DEF PoolInv
<1> QED BY <1>1, PoolAlways, PTL

\* For any number of workers and jobs: no job of the pool runs twice.
THEOREM JobsRunOnce == Spec => []OnceOnly
<1>1. PoolInv => OnceOnly
    BY DEF PoolInv
<1> QED BY <1>1, PoolAlways, PTL

\* For any number of workers and jobs: when ~ThreadPool returns, every job
\* that was enqueued has run.  This is what read_csv::load relies on when it
\* drops the futures of its insert_to_redis jobs.
THEOREM DrainedOnReturn == Spec => []JoinedMeansDone
<1>1. ASSUME PoolInv PROVE JoinedMeansDone
  <2> SUFFICES ASSUME at[User] = "gone" PROVE done = enqueued
      BY DEF JoinedMeansDone
  <2>1. \A w \in Workers : at[w] = "returned"
      BY <1>1 DEF PoolInv, Closing
  <2>2. tasks = <<>>
      BY <1>1, <2>1, SomeWorker DEF PoolInv, TestHolds
  <2>3. Range(tasks) = {}
      BY <2>2 DEF Range
  <2>4. UNION {held[w] : w \in Workers} = {}
      BY <1>1, <2>1 DEF PoolInv, Accounted
  <2> QED BY <1>1, <2>3, <2>4 DEF PoolInv, Accounted
<1> QED BY <1>1, PoolAlways, PTL
=============================================================================
