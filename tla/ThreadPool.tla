----------------------------- MODULE ThreadPool -----------------------------
(***************************************************************************)
(* NetworkThreadPool of TCP/inc/header.h and TCP/src/sourse.cpp: worker    *)
(* threads that wait on a condition variable for a queue of tasks, any     *)
(* number of threads that call AddTask (tasks running on the workers call  *)
(* it too), and one thread, the owner, that joins, stops, restarts, resets *)
(* or destroys the pool.                                                   *)
(*                                                                         *)
(* A step is what one thread does between two points where the others can  *)
(* see or influence it: an access to the atomic flag, the acquisition or   *)
(* release of the queue mutex, a wait or a notification.                   *)
(***************************************************************************)
EXTENDS Naturals, Sequences

CONSTANTS
  MaxThreads,     \* bound on the size of m_threadPool_
  InitThreads,    \* thread_count given to the constructor
  ThreadCounts,   \* the counts StartThreads may be given
  Tasks,          \* bound: the tasks ever submitted, each by one AddTask
  Submitters,     \* threads outside the pool that call AddTask
  Owner,          \* the thread that runs the life-cycle operations
  OwnerOps,       \* which of them this program calls
  MaxSpurious,    \* bound on the spurious wake-ups of the whole run
  Free, NoTask    \* "the mutex is free" and "no task"

Thread == 1 .. MaxThreads
Callers == Thread \cup Submitters

ASSUME ThreadPoolAssumption ==
  /\ MaxThreads \in Nat
  /\ InitThreads \in 0 .. MaxThreads
  /\ ThreadCounts \subseteq 0 .. MaxThreads
  /\ Submitters \cap Thread = {}
  /\ Owner \notin Thread          \* nobody joins the pool from one of its tasks
  /\ Free \notin Thread
  /\ NoTask \notin Tasks
  /\ MaxSpurious \in Nat

VARIABLES
  terminate,      \* m_terminatePool_
  queue,          \* m_queueWork_
  mutex,          \* the worker inside m_queueMutex_, or Free
  pc,             \* [Thread -> WorkerPC], where each worker stands
  job,            \* [Thread -> Tasks \cup {NoTask}], the local `work`
  joinable,       \* [Thread -> BOOLEAN], the std::thread can be joined
  poolSize,       \* m_threadPool_.size()
  call,           \* [Callers -> CallPC], progress of each caller's AddTask
  arg,            \* [Callers -> Tasks \cup {NoTask}], the task it submits
  own,            \* the owner: operation, place in it, and index or count
  tstate,         \* [Tasks -> TaskState], what became of each task
  spurious,       \* spurious wake-ups so far
  crash           \* how the process died, or "no"

poolVars == <<terminate, queue, mutex>>
workerVars == <<pc, job, joinable, poolSize>>
callVars == <<call, arg>>
vars == <<terminate, queue, mutex, pc, job, joinable, poolSize, call, arg,
          own, tstate, spurious, crash>>

(***************************************************************************)
(* A worker is "none" (not created), at the `while` test, wanting the      *)
(* mutex, about to wait with the mutex held, waiting, past the wait with   *)
(* the mutex held, executing its task, or out of ThreadWorkerLoop.         *)
(***************************************************************************)
WorkerPC == {"none", "loop", "lock", "enroll", "waiting", "take", "run", "exited"}
CallPC == {"idle", "push", "notify"}
TaskState == {"new", "refused", "calling", "queued", "running", "done", "dropped"}
OwnerPC == {"idle", "join", "swap", "configure", "destroyed"}
OwnerOp == {"none", "start", "join", "reset", "destroy"}
Crash == {"no", "terminate", "race", "emptyPop"}

Idle == [at |-> "idle", op |-> "none", n |-> 0]

TypeOK ==
  /\ terminate \in BOOLEAN
  /\ queue \in Seq(Tasks)
  /\ mutex \in Thread \cup {Free}
  /\ pc \in [Thread -> WorkerPC]
  /\ job \in [Thread -> Tasks \cup {NoTask}]
  /\ joinable \in [Thread -> BOOLEAN]
  /\ poolSize \in 0 .. MaxThreads
  /\ call \in [Callers -> CallPC]
  /\ arg \in [Callers -> Tasks \cup {NoTask}]
  /\ own \in [at : OwnerPC, op : OwnerOp, n : 0 .. MaxThreads + 1]
  /\ tstate \in [Tasks -> TaskState]
  /\ spurious \in 0 .. MaxSpurious
  /\ crash \in Crash

Init ==
  /\ terminate = FALSE
  /\ queue = <<>>
  /\ mutex = Free
  /\ pc = [w \in Thread |-> IF w <= InitThreads THEN "loop" ELSE "none"]
  /\ job = [w \in Thread |-> NoTask]
  /\ joinable = [w \in Thread |-> w <= InitThreads]
  /\ poolSize = InitThreads
  /\ call = [c \in Callers |-> "idle"]
  /\ arg = [c \in Callers |-> NoTask]
  /\ own = Idle
  /\ tstate = [t \in Tasks |-> "new"]
  /\ spurious = 0
  /\ crash = "no"

Alive == crash = "no"

Goto(w, from, to) == pc[w] = from /\ pc' = [pc EXCEPT ![w] = to]

-----------------------------------------------------------------------------
(* Faulty variants of the worker's steps, one slip each, against which the *)
(* properties below are tried.  They are no part of the specification.     *)

(* The wait is left out: the worker goes on whatever the predicate says. *)
WorkerAcquireNoWait(w) ==
  /\ Alive
  /\ mutex = Free
  /\ Goto(w, "lock", "take")
  /\ mutex' = w
  /\ UNCHANGED <<terminate, queue, job, joinable, poolSize, callVars, own, tstate, spurious, crash>>

(* The early return forgets to unlock. *)
WorkerReturnNoUnlock(w) ==
  /\ Alive
  /\ terminate
  /\ Goto(w, "take", "exited")
  /\ UNCHANGED <<poolVars, job, joinable, poolSize, callVars, own, tstate, spurious, crash>>

(* front() without pop(). *)
WorkerPopNoPop(w) ==
  /\ Alive
  /\ ~terminate
  /\ queue # <<>>
  /\ Goto(w, "take", "run")
  /\ job' = [job EXCEPT ![w] = Head(queue)]
  /\ tstate' = [tstate EXCEPT ![Head(queue)] = "running"]
  /\ mutex' = Free
  /\ UNCHANGED <<terminate, queue, joinable, poolSize, callVars, own, spurious, crash>>

(* back() instead of front(). *)
WorkerPopNewest(w) ==
  /\ Alive
  /\ ~terminate
  /\ queue # <<>>
  /\ Goto(w, "take", "run")
  /\ job' = [job EXCEPT ![w] = queue[Len(queue)]]
  /\ queue' = SubSeq(queue, 1, Len(queue) - 1)
  /\ tstate' = [tstate EXCEPT ![queue[Len(queue)]] = "running"]
  /\ mutex' = Free
  /\ UNCHANGED <<terminate, joinable, poolSize, callVars, own, spurious, crash>>

-----------------------------------------------------------------------------
(* ThreadWorkerLoop *)

(* while (!m_terminatePool_) *)
WorkerLoop(w) ==
  /\ Alive
  /\ Goto(w, "loop", IF terminate THEN "exited" ELSE "lock")
  /\ UNCHANGED <<poolVars, job, joinable, poolSize, callVars, own, tstate, spurious, crash>>

(* Acquire the mutex, first or after a wake-up, and evaluate the wait's    *)
(* predicate with it held.                                                 *)
WorkerAcquire(w) ==
  /\ Alive
  /\ mutex = Free
  /\ Goto(w, "lock", IF queue # <<>> \/ terminate THEN "take" ELSE "enroll")
  /\ mutex' = w
  /\ UNCHANGED <<terminate, queue, job, joinable, poolSize, callVars, own, tstate, spurious, crash>>

(* m_conditionVariable_.wait: release the mutex and sleep in one step. *)
WorkerEnroll(w) ==
  /\ Alive
  /\ Goto(w, "enroll", "waiting")
  /\ mutex' = Free
  /\ UNCHANGED <<terminate, queue, job, joinable, poolSize, callVars, own, tstate, spurious, crash>>

(* A condition variable may wake a waiter without a notification. *)
SpuriousWakeup(w) ==
  /\ Alive
  /\ spurious < MaxSpurious
  /\ Goto(w, "waiting", "lock")
  /\ spurious' = spurious + 1
  /\ UNCHANGED <<poolVars, job, joinable, poolSize, callVars, own, tstate, crash>>

(* Past the wait: if (m_terminatePool_) return. *)
WorkerReturn(w) ==
  /\ Alive
  /\ terminate
  /\ Goto(w, "take", "exited")
  /\ mutex' = Free
  /\ UNCHANGED <<terminate, queue, job, joinable, poolSize, callVars, own, tstate, spurious, crash>>

(* Past the wait: take the oldest task and release the mutex. *)
WorkerPop(w) ==
  /\ Alive
  /\ ~terminate
  /\ queue # <<>>
  /\ Goto(w, "take", "run")
  /\ job' = [job EXCEPT ![w] = Head(queue)]
  /\ queue' = Tail(queue)
  /\ tstate' = [tstate EXCEPT ![Head(queue)] = "running"]
  /\ mutex' = Free
  /\ UNCHANGED <<terminate, joinable, poolSize, callVars, own, spurious, crash>>

(* front() of an empty queue: the wait was left because of the flag, and  *)
(* the flag was lowered before it is read again.                          *)
WorkerPopEmpty(w) ==
  /\ Alive
  /\ ~terminate
  /\ queue = <<>>
  /\ pc[w] = "take"
  /\ crash' = "emptyPop"
  /\ UNCHANGED <<poolVars, workerVars, callVars, own, tstate, spurious>>

(* work() returns. *)
WorkerDone(w) ==
  /\ Alive
  /\ call[w] = "idle"
  /\ Goto(w, "run", "loop")
  /\ job' = [job EXCEPT ![w] = NoTask]
  /\ tstate' = [tstate EXCEPT ![job[w]] = "done"]
  /\ UNCHANGED <<poolVars, joinable, poolSize, callVars, own, spurious, crash>>

-----------------------------------------------------------------------------
(* Who may enter AddTask: a task on a worker, or an outside thread while   *)
(* the pool lives; the owner only between its own operations.              *)
MayCall(c) ==
  /\ call[c] = "idle"
  /\ c \in Thread => pc[c] = "run"
  /\ c \in Submitters => own.op # "destroy"
  /\ c = Owner => own.at = "idle"

(* Faulty variants of AddTask. *)

(* The flag is not looked at. *)
AddTaskCheckNoFlag(c, t) ==
  /\ Alive
  /\ MayCall(c)
  /\ tstate[t] = "new"
  /\ tstate' = [tstate EXCEPT ![t] = "calling"]
  /\ call' = [call EXCEPT ![c] = "push"]
  /\ arg' = [arg EXCEPT ![c] = t]
  /\ UNCHANGED <<poolVars, workerVars, own, spurious, crash>>

(* notify_one instead of notify_all. *)
AddTaskNotifyOne(c) ==
  /\ Alive
  /\ call[c] = "notify"
  /\ call' = [call EXCEPT ![c] = "idle"]
  /\ \/ \E w \in Thread : Goto(w, "waiting", "lock")
     \/ (\A w \in Thread : pc[w] # "waiting") /\ UNCHANGED pc
  /\ UNCHANGED <<poolVars, job, joinable, poolSize, arg, own, tstate, spurious, crash>>

(* No notification at all. *)
AddTaskNotifyNone(c) ==
  /\ Alive
  /\ call[c] = "notify"
  /\ call' = [call EXCEPT ![c] = "idle"]
  /\ UNCHANGED <<poolVars, workerVars, arg, own, tstate, spurious, crash>>

-----------------------------------------------------------------------------
(* AddTask *)

(* if (m_terminatePool_) return, the task is dropped without a word. *)
AddTaskCheck(c, t) ==
  /\ Alive
  /\ MayCall(c)
  /\ tstate[t] = "new"
  /\ IF terminate
     THEN /\ tstate' = [tstate EXCEPT ![t] = "refused"]
          /\ UNCHANGED callVars
     ELSE /\ tstate' = [tstate EXCEPT ![t] = "calling"]
          /\ call' = [call EXCEPT ![c] = "push"]
          /\ arg' = [arg EXCEPT ![c] = t]
  /\ UNCHANGED <<poolVars, workerVars, own, spurious, crash>>

(* The block under the lock. *)
AddTaskPush(c) ==
  /\ Alive
  /\ call[c] = "push"
  /\ mutex = Free
  /\ queue' = Append(queue, arg[c])
  /\ tstate' = [tstate EXCEPT ![arg[c]] = "queued"]
  /\ call' = [call EXCEPT ![c] = "notify"]
  /\ arg' = [arg EXCEPT ![c] = NoTask]
  /\ UNCHANGED <<terminate, mutex, workerVars, own, spurious, crash>>

(* notify_all, after the lock is gone. *)
AddTaskNotify(c) ==
  /\ Alive
  /\ call[c] = "notify"
  /\ call' = [call EXCEPT ![c] = "idle"]
  /\ pc' = [w \in Thread |-> IF pc[w] = "waiting" THEN "lock" ELSE pc[w]]
  /\ UNCHANGED <<poolVars, job, joinable, poolSize, arg, own, tstate, spurious, crash>>

-----------------------------------------------------------------------------
(* The owner *)

OwnerFree == own.at = "idle" /\ (Owner \in Submitters => call[Owner] = "idle")

OwnerBegin(op) == Alive /\ OwnerFree /\ op \in OwnerOps

(* Faulty variants of the owner's operations. *)

(* ResetJob does not join. *)
ResetJobNoJoin ==
  /\ OwnerBegin("reset")
  /\ own' = [at |-> "swap", op |-> "reset", n |-> 1]
  /\ UNCHANGED <<poolVars, workerVars, callVars, tstate, spurious, crash>>

(* Threads are detached instead of joined. *)
JoinOneDetach ==
  /\ Alive
  /\ own.at = "join"
  /\ own.n <= poolSize
  /\ joinable[own.n]
  /\ joinable' = [joinable EXCEPT ![own.n] = FALSE]
  /\ own' = [own EXCEPT !.n = @ + 1]
  /\ UNCHANGED <<poolVars, pc, job, poolSize, callVars, tstate, spurious, crash>>

(* The loop over the threads stops one short. *)
JoinReturnsEarly ==
  /\ Alive
  /\ own.at = "join"
  /\ own.n >= poolSize
  /\ own' = CASE own.op = "reset" -> [own EXCEPT !.at = "swap"]
              [] own.op = "destroy" -> [own EXCEPT !.at = "destroyed"]
              [] OTHER -> Idle
  /\ terminate' = IF own.op = "reset" THEN FALSE ELSE terminate
  /\ UNCHANGED <<queue, mutex, workerVars, callVars, tstate, spurious, crash>>

(* One thread too many is created. *)
ConfigureThreadPoolPlusOne ==
  /\ Alive
  /\ own.at = "configure"
  /\ poolSize' = own.n + 1
  /\ pc' = [w \in Thread |-> IF w <= poolSize' THEN "loop" ELSE "none"]
  /\ joinable' = [w \in Thread |-> w <= poolSize']
  /\ own' = Idle
  /\ UNCHANGED <<poolVars, job, callVars, tstate, spurious, crash>>

(* StopThreads raises the flag and does nothing else. *)
StopThreads ==
  /\ OwnerBegin("stop")
  /\ terminate' = TRUE
  /\ UNCHANGED <<queue, mutex, workerVars, callVars, own, tstate, spurious, crash>>

(* StartThreads lowers a raised flag, then configures; on a pool that is   *)
(* not stopped it does nothing.                                            *)
StartThreads(n) ==
  /\ OwnerBegin("start")
  /\ terminate
  /\ terminate' = FALSE
  /\ own' = [at |-> "configure", op |-> "start", n |-> n]
  /\ UNCHANGED <<queue, mutex, workerVars, callVars, tstate, spurious, crash>>

(* JoinThreads, called alone (Server::JoinLoop, Client::JoinHandler). *)
JoinThreads ==
  /\ OwnerBegin("join")
  /\ own' = [at |-> "join", op |-> "join", n |-> 1]
  /\ UNCHANGED <<poolVars, workerVars, callVars, tstate, spurious, crash>>

(* ResetJob raises the flag and joins ... *)
ResetJob ==
  /\ OwnerBegin("reset")
  /\ terminate' = TRUE
  /\ own' = [at |-> "join", op |-> "reset", n |-> 1]
  /\ UNCHANGED <<queue, mutex, workerVars, callVars, tstate, spurious, crash>>

(* ~NetworkThreadPool raises the flag and joins.  The program destroys the *)
(* pool only when no outside thread uses it any more.                      *)
DestroyPool ==
  /\ OwnerBegin("destroy")
  /\ \A s \in Submitters : call[s] = "idle"
  /\ terminate' = TRUE
  /\ own' = [at |-> "join", op |-> "destroy", n |-> 1]
  /\ UNCHANGED <<queue, mutex, workerVars, callVars, tstate, spurious, crash>>

(* thread.join() returns once the worker has left its loop. *)
JoinOne ==
  /\ Alive
  /\ own.at = "join"
  /\ own.n <= poolSize
  /\ joinable[own.n]
  /\ pc[own.n] = "exited"
  /\ joinable' = [joinable EXCEPT ![own.n] = FALSE]
  /\ own' = [own EXCEPT !.n = @ + 1]
  /\ UNCHANGED <<poolVars, pc, job, poolSize, callVars, tstate, spurious, crash>>

(* thread.join() on a thread already joined throws std::system_error: the  *)
(* operation is abandoned where it stands, and out of the destructor the   *)
(* exception ends the process.                                             *)
JoinThrows ==
  /\ Alive
  /\ own.at = "join"
  /\ own.n <= poolSize
  /\ ~joinable[own.n]
  /\ IF own.op = "destroy"
     THEN crash' = "terminate" /\ UNCHANGED own
     ELSE own' = Idle /\ UNCHANGED crash
  /\ UNCHANGED <<poolVars, workerVars, callVars, tstate, spurious>>

(* All joined: JoinThreads returns, ResetJob lowers the flag and goes on,  *)
(* the destructor ends.                                                    *)
JoinReturns ==
  /\ Alive
  /\ own.at = "join"
  /\ own.n > poolSize
  /\ own' = CASE own.op = "reset" -> [own EXCEPT !.at = "swap"]
              [] own.op = "destroy" -> [own EXCEPT !.at = "destroyed"]
              [] OTHER -> Idle
  /\ terminate' = IF own.op = "reset" THEN FALSE ELSE terminate
  /\ UNCHANGED <<queue, mutex, workerVars, callVars, tstate, spurious, crash>>

(* ... ResetJob swaps the queue away, without the mutex ...                *)
SwapQueue ==
  /\ Alive
  /\ own.at = "swap"
  /\ queue' = <<>>
  /\ tstate' = [t \in Tasks |-> IF tstate[t] = "queued" THEN "dropped" ELSE tstate[t]]
  /\ own' = [own EXCEPT !.at = "configure", !.n = poolSize]
  /\ UNCHANGED <<terminate, mutex, workerVars, callVars, spurious, crash>>

(* ... which is a data race with an outside thread that is pushing: besides *)
(* the two orders, the queue may be corrupted.                             *)
SwapQueueRace ==
  /\ Alive
  /\ own.at = "swap"
  /\ \E s \in Submitters : call[s] = "push"
  /\ crash' = "race"
  /\ UNCHANGED <<poolVars, workerVars, callVars, own, tstate, spurious>>

(* ConfigureThreadPool: clear() destroys the old std::thread objects, and  *)
(* destroying one that is still joinable calls std::terminate; then n new  *)
(* workers are created.                                                    *)
ConfigureThreadPool ==
  /\ Alive
  /\ own.at = "configure"
  /\ IF \E w \in Thread : joinable[w]
     THEN crash' = "terminate" /\ UNCHANGED <<workerVars, own>>
     ELSE /\ pc' = [w \in Thread |-> IF w <= own.n THEN "loop" ELSE "none"]
          /\ joinable' = [w \in Thread |-> w <= own.n]
          /\ poolSize' = own.n
          /\ own' = Idle
          /\ UNCHANGED <<job, crash>>
  /\ UNCHANGED <<poolVars, callVars, tstate, spurious>>

-----------------------------------------------------------------------------
WorkerStep(w) ==
  \/ WorkerLoop(w)
  \/ WorkerAcquire(w)
  \/ WorkerEnroll(w)
  \/ WorkerReturn(w)
  \/ WorkerPop(w)
  \/ WorkerPopEmpty(w)
  \/ WorkerDone(w)

CallStep(c) == AddTaskPush(c) \/ AddTaskNotify(c)

OwnerCall ==
  \/ StopThreads
  \/ \E n \in ThreadCounts : StartThreads(n)
  \/ JoinThreads
  \/ ResetJob
  \/ DestroyPool

OwnerStep ==
  \/ JoinOne
  \/ JoinThrows
  \/ JoinReturns
  \/ SwapQueue
  \/ SwapQueueRace
  \/ ConfigureThreadPool

Next ==
  \/ \E w \in Thread : WorkerStep(w) \/ SpuriousWakeup(w)
  \/ \E c \in Callers : CallStep(c) \/ \E t \in Tasks : AddTaskCheck(c, t)
  \/ OwnerCall
  \/ OwnerStep

Spec == Init /\ [][Next]_vars

(***************************************************************************)
(* The operating system runs every thread that can run, and a task         *)
(* returns.  Nobody has to begin a call, and no wake-up is owed to a       *)
(* waiter that nobody notifies.                                            *)
(***************************************************************************)
Fairness ==
  /\ \A w \in Thread : WF_vars(WorkerStep(w))
  /\ \A c \in Callers : WF_vars(CallStep(c))
  /\ WF_vars(OwnerStep)

FairSpec == Spec /\ Fairness
-----------------------------------------------------------------------------
(* Safety *)

(* A worker never sleeps on the condition variable while the queue holds a *)
(* task, unless a notify_all is on its way: AddTask's push cannot fall     *)
(* between a worker's test of the predicate and its wait.                  *)
NoSleepWithWork ==
  \A w \in Thread :
    pc[w] = "waiting" /\ queue # <<>> => \E c \in Callers : call[c] = "notify"

(* Every task has one home: the queue holds exactly the accepted tasks     *)
(* that have not started, each once, and every running task is the work of *)
(* exactly one worker.  No task is lost, duplicated or run twice, across   *)
(* ResetJob and restarts too.                                              *)
TaskHasOneHome ==
  /\ \A i, j \in DOMAIN queue : queue[i] = queue[j] => i = j
  /\ \A t \in Tasks :
       /\ tstate[t] = "queued" <=> \E i \in DOMAIN queue : queue[i] = t
       /\ tstate[t] = "running" <=> \E w \in Thread : job[w] = t
  /\ \A v, w \in Thread : job[v] = job[w] /\ job[v] # NoTask => v = w

(* When ResetJob swaps the queue away without the mutex, no worker is left *)
(* that could touch the queue, hold the mutex or be inside AddTask.        *)
SwapIsQuiet ==
  own.at = "swap" =>
    /\ mutex = Free
    /\ \A w \in Thread : pc[w] \in {"none", "exited"} /\ call[w] = "idle"

(* A worker about to take a task finds one, although the predicate it      *)
(* waited for is also true of an empty queue; the exception is a pool that *)
(* StartThreads restarts while its old workers have not been joined.       *)
TakeFindsWork ==
  \A w \in Thread :
    pc[w] = "take" /\ ~terminate =>
      queue # <<>> \/ (own.op = "start" /\ own.at = "configure" /\ joinable[w])

(* Between operations either all workers can be joined or none, so a join  *)
(* that throws has thrown on the first thread and joined none: the pool is *)
(* never left half joined.                                                 *)
JoinIsAllOrNone ==
  /\ own.at # "join" =>
       \A v, w \in 1 .. poolSize : joinable[v] <=> joinable[w]
  /\ (own.at = "join" /\ own.n <= poolSize /\ ~joinable[own.n]) =>
       \A w \in 1 .. poolSize : ~joinable[w]

(* Used as Server uses it (one outside thread, which is also the owner,    *)
(* never stops and restarts, and destroys the pool last) the pool does not *)
(* kill the process: no double join, no joinable thread destroyed, no race *)
(* on the queue, no pop of an empty queue.                                 *)
NeverCrashes == crash = "no"

-----------------------------------------------------------------------------
(* Progress *)

(* The owner waits for workers that sleep and that nobody will notify: the *)
(* operations that raise the flag do not notify the condition variable.    *)
Hung ==
  /\ Alive
  /\ own.at = "join"
  /\ terminate
  /\ \E w \in Thread : pc[w] = "waiting"
  /\ \A c \in Callers : call[c] = "idle"

(* From such a state only a spurious wake-up leads out; in particular no   *)
(* task that still runs and calls AddTask can wake the sleepers, because   *)
(* AddTask returns at once on a raised flag.                               *)
HungUntilSpurious ==
  [][Hung => Hung' \/ \E w \in Thread : SpuriousWakeup(w)]_vars

(* A join with the flag raised (ResetJob, the destructor, JoinThreads      *)
(* after StopThreads) ends, unless a sleeping worker has been missed.      *)
JoinEndsOrHangs ==
  (own.at = "join" /\ terminate) ~> (own.at # "join" \/ Hung \/ ~Alive)

(* An accepted task is started, by a worker that is running or woken by    *)
(* the notification, unless the pool is told to terminate first or was     *)
(* given no workers (a thread_count of 0).                                 *)
QueuedTaskStarts ==
  \A t \in Tasks :
    (tstate[t] = "queued")
      ~> (tstate[t] # "queued" \/ terminate \/ poolSize = 0 \/ ~Alive)

-----------------------------------------------------------------------------
(* The pool implements WorkQueue: a task being submitted is still new to   *)
(* the queue until it is pushed.                                           *)
taskState == [t \in Tasks |-> IF tstate[t] = "calling" THEN "new" ELSE tstate[t]]

Queue == INSTANCE WorkQueue WITH pending <- queue, state <- taskState

ImplementsWorkQueue == Queue!Spec
==============================================================================
