-------------------------- MODULE ThreadPoolProofs --------------------------
(***************************************************************************)
(* Proofs about ThreadPool, for any number of threads, tasks, submitters   *)
(* and any choice of life-cycle operations.                                *)
(*                                                                         *)
(* Each invariant is proved from the ones before it: types first, then who *)
(* holds the mutex and which workers have been joined, then the hand-over  *)
(* of tasks.                                                               *)
(***************************************************************************)
EXTENDS ThreadPool, TLAPS

-----------------------------------------------------------------------------
(* Type correctness.  TypeOK needs to know that a caller about to push     *)
(* holds a task and that the owner configures at most MaxThreads workers.  *)

TypeInv ==
  /\ TypeOK
  /\ own.at = "configure" => own.n <= MaxThreads
  /\ \A c \in Callers : call[c] = "push" => arg[c] \in Tasks

LEMMA IdleType == Idle \in [at : OwnerPC, op : OwnerOp, n : 0 .. MaxThreads + 1]
<1>1. 0 \in 0 .. MaxThreads + 1
  BY ThreadPoolAssumption
<1> QED
  BY <1>1 DEF Idle, OwnerPC, OwnerOp

LEMMA EmptyQueueType == <<>> \in Seq(Tasks)
  OBVIOUS

LEMMA TypeInit == Init => TypeInv
<1> SUFFICES ASSUME Init PROVE TypeInv
  OBVIOUS
<1> USE ThreadPoolAssumption
    DEF Init, TypeInv, TypeOK, WorkerPC, CallPC, TaskState, OwnerPC, OwnerOp, Crash
<1>1. own \in [at : OwnerPC, op : OwnerOp, n : 0 .. MaxThreads + 1]
  BY IdleType
<1>2. poolSize \in 0 .. MaxThreads /\ spurious \in 0 .. MaxSpurious
  OBVIOUS
<1>3. queue \in Seq(Tasks)
  BY EmptyQueueType
<1>4. /\ joinable \in [Thread -> BOOLEAN]
      /\ pc \in [Thread -> WorkerPC]
      /\ job \in [Thread -> Tasks \cup {NoTask}]
      /\ call \in [Callers -> CallPC]
      /\ arg \in [Callers -> Tasks \cup {NoTask}]
      /\ tstate \in [Tasks -> TaskState]
  OBVIOUS
<1>5. own.at = "idle" /\ \A c \in Callers : call[c] # "push"
  BY DEF Idle
<1> QED
  BY <1>1, <1>2, <1>3, <1>4, <1>5

LEMMA TypeStep == TypeInv /\ [Next]_vars => TypeInv'
<1> SUFFICES ASSUME TypeInv, [Next]_vars PROVE TypeInv'
  OBVIOUS
<1> USE ThreadPoolAssumption
    DEF TypeInv, TypeOK, WorkerPC, CallPC, TaskState, OwnerPC, OwnerOp, Crash,
        poolVars, workerVars, callVars
<1>1. ASSUME NEW w \in Thread, WorkerLoop(w) PROVE TypeInv'
  BY <1>1 DEF WorkerLoop, Goto
<1>2. ASSUME NEW w \in Thread, WorkerAcquire(w) PROVE TypeInv'
  BY <1>2 DEF WorkerAcquire, Goto
<1>3. ASSUME NEW w \in Thread, WorkerEnroll(w) PROVE TypeInv'
  BY <1>3 DEF WorkerEnroll, Goto
<1>4. ASSUME NEW w \in Thread, SpuriousWakeup(w) PROVE TypeInv'
  BY <1>4 DEF SpuriousWakeup, Goto
<1>5. ASSUME NEW w \in Thread, WorkerReturn(w) PROVE TypeInv'
  BY <1>5 DEF WorkerReturn, Goto
<1>6. ASSUME NEW w \in Thread, WorkerPop(w) PROVE TypeInv'
  <2>1. Head(queue) \in Tasks /\ Tail(queue) \in Seq(Tasks)
    BY <1>6 DEF WorkerPop
  <2>2. QED
    BY <1>6, <2>1 DEF WorkerPop, Goto
<1>7. ASSUME NEW w \in Thread, WorkerPopEmpty(w) PROVE TypeInv'
  BY <1>7 DEF WorkerPopEmpty
<1>8. ASSUME NEW w \in Thread, WorkerDone(w) PROVE TypeInv'
  BY <1>8 DEF WorkerDone, Goto
<1>9. ASSUME NEW c \in Callers, NEW t \in Tasks, AddTaskCheck(c, t) PROVE TypeInv'
  BY <1>9 DEF AddTaskCheck
<1>10. ASSUME NEW c \in Callers, AddTaskPush(c) PROVE TypeInv'
  <2>1. arg[c] \in Tasks
    BY <1>10 DEF AddTaskPush
  <2>2. Append(queue, arg[c]) \in Seq(Tasks)
    BY <2>1
  <2>3. QED
    BY <1>10, <2>1, <2>2 DEF AddTaskPush
<1>11. ASSUME NEW c \in Callers, AddTaskNotify(c) PROVE TypeInv'
  BY <1>11 DEF AddTaskNotify
<1>12. CASE StopThreads
  BY <1>12 DEF StopThreads
<1>13. ASSUME NEW n \in ThreadCounts, StartThreads(n) PROVE TypeInv'
  <2>1. n \in 0 .. MaxThreads + 1 /\ n <= MaxThreads
    OBVIOUS
  <2>2. QED
    BY <1>13, <2>1 DEF StartThreads
<1>14. CASE JoinThreads
  BY <1>14 DEF JoinThreads
<1>15. CASE ResetJob
  BY <1>15 DEF ResetJob
<1>16. CASE DestroyPool
  BY <1>16 DEF DestroyPool
<1>17. CASE JoinOne
  <2>1. own.n + 1 \in 0 .. MaxThreads + 1
    <3>1. own.n \in 0 .. MaxThreads + 1
      OBVIOUS
    <3>2. QED
      BY <1>17, <3>1 DEF JoinOne
  <2>2. QED
    BY <1>17, <2>1 DEF JoinOne
<1>18. CASE JoinThrows
  BY <1>18, IdleType DEF JoinThrows, Idle
<1>19. CASE JoinReturns
  <2>1. own' \in [at : OwnerPC, op : OwnerOp, n : 0 .. MaxThreads + 1]
    BY <1>19, IdleType DEF JoinReturns
  <2>2. own'.at # "configure"
    BY <1>19 DEF JoinReturns, Idle
  <2>3. QED
    BY <1>19, <2>1, <2>2 DEF JoinReturns
<1>20. CASE SwapQueue
  <2>1. poolSize \in 0 .. MaxThreads + 1 /\ poolSize <= MaxThreads
    OBVIOUS
  <2>2. own' \in [at : OwnerPC, op : OwnerOp, n : 0 .. MaxThreads + 1]
    BY <1>20, <2>1 DEF SwapQueue
  <2>3. own'.n = poolSize
    BY <1>20 DEF SwapQueue
  <2>4. queue' \in Seq(Tasks) /\ tstate' \in [Tasks -> TaskState]
    BY <1>20, EmptyQueueType DEF SwapQueue
  <2>5. QED
    BY <1>20, <2>1, <2>2, <2>3, <2>4 DEF SwapQueue
<1>21. CASE SwapQueueRace
  BY <1>21 DEF SwapQueueRace
<1>22. CASE ConfigureThreadPool
  <2>1. CASE \E w \in Thread : joinable[w]
    BY <1>22, <2>1 DEF ConfigureThreadPool
  <2>2. CASE ~ \E w \in Thread : joinable[w]
    <3>1. own.n \in 0 .. MaxThreads
      <4>1. own.n \in 0 .. MaxThreads + 1 /\ own.n <= MaxThreads
        BY <1>22 DEF ConfigureThreadPool
      <4>2. QED
        BY <4>1
    <3>2. own'.at = "idle"
      BY <1>22, <2>2 DEF ConfigureThreadPool, Idle
    <3>3. /\ pc' \in [Thread -> WorkerPC]
          /\ joinable' \in [Thread -> BOOLEAN]
          /\ poolSize' \in 0 .. MaxThreads
          /\ own' \in [at : OwnerPC, op : OwnerOp, n : 0 .. MaxThreads + 1]
      <4>1. /\ pc' = [w \in Thread |-> IF w <= own.n THEN "loop" ELSE "none"]
            /\ joinable' = [w \in Thread |-> w <= own.n]
            /\ poolSize' = own.n
            /\ own' = Idle
        BY <1>22, <2>2 DEF ConfigureThreadPool
      <4>2. pc' \in [Thread -> WorkerPC] /\ joinable' \in [Thread -> BOOLEAN]
        BY <4>1
      <4>3. QED
        BY <3>1, <4>1, <4>2, IdleType
    <3>4. QED
      BY <1>22, <2>2, <3>2, <3>3 DEF ConfigureThreadPool
  <2>3. QED
    BY <2>1, <2>2
<1>23. CASE UNCHANGED vars
  BY <1>23 DEF vars
<1> QED
  BY <1>1, <1>2, <1>3, <1>4, <1>5, <1>6, <1>7, <1>8, <1>9, <1>10, <1>11, <1>12,
     <1>13, <1>14, <1>15, <1>16, <1>17, <1>18, <1>19, <1>20, <1>21, <1>22, <1>23
  DEF Next, WorkerStep, CallStep, OwnerCall, OwnerStep

(* Every variable of the pool keeps its type. *)
THEOREM TypeCorrect == Spec => []TypeOK
<1>1. TypeInv => TypeOK
  BY DEF TypeInv
<1> QED
  BY TypeInit, TypeStep, <1>1, PTL DEF Spec

-----------------------------------------------------------------------------
(* Who stands where: the mutex is held exactly by the worker between its   *)
(* acquisition and its release; a worker that cannot be joined any more    *)
(* has left its loop; only a running task is inside AddTask; and the owner *)
(* has joined every thread it has passed.                                  *)

ControlInv ==
  /\ \A w \in Thread : pc[w] \in {"enroll", "take"} <=> mutex = w
  /\ \A w \in Thread : ~joinable[w] => pc[w] \in {"none", "exited"}
  /\ \A w \in Thread : joinable[w] => w <= poolSize
  /\ \A w \in Thread : call[w] # "idle" => pc[w] = "run"
  /\ own.at = "join" => \A w \in Thread : w < own.n => ~joinable[w]
  /\ own.at = "swap" => \A w \in Thread : ~joinable[w]

LEMMA ThreadIndex ==
  \A w \in Thread : w \in Nat /\ ~(w < 1) /\ w <= MaxThreads
  BY ThreadPoolAssumption DEF Thread

LEMMA ControlInit == Init => ControlInv
<1> SUFFICES ASSUME Init PROVE ControlInv
  OBVIOUS
<1>1. own.at = "idle"
  BY DEF Init, Idle
<1>2. \A w \in Thread : mutex # w
  BY ThreadPoolAssumption DEF Init
<1>3. \A w \in Thread :
        /\ pc[w] \in {"loop", "none"}
        /\ ~joinable[w] => pc[w] = "none"
        /\ joinable[w] => w <= poolSize
        /\ call[w] = "idle"
  BY DEF Init, Callers
<1> QED
  BY <1>1, <1>2, <1>3 DEF ControlInv

LEMMA ControlStep == TypeInv /\ TypeInv' /\ ControlInv /\ [Next]_vars => ControlInv'
<1> SUFFICES ASSUME TypeInv, TypeInv', ControlInv, [Next]_vars PROVE ControlInv'
  OBVIOUS
<1> USE ThreadPoolAssumption
    DEF TypeInv, TypeOK, ControlInv, poolVars, workerVars, callVars, Callers
<1>1. ASSUME NEW v \in Thread, WorkerLoop(v) PROVE ControlInv'
  BY <1>1 DEF WorkerLoop, Goto
<1>2. ASSUME NEW v \in Thread, WorkerAcquire(v) PROVE ControlInv'
  BY <1>2 DEF WorkerAcquire, Goto
<1>3. ASSUME NEW v \in Thread, WorkerEnroll(v) PROVE ControlInv'
  BY <1>3 DEF WorkerEnroll, Goto
<1>4. ASSUME NEW v \in Thread, SpuriousWakeup(v) PROVE ControlInv'
  BY <1>4 DEF SpuriousWakeup, Goto
<1>5. ASSUME NEW v \in Thread, WorkerReturn(v) PROVE ControlInv'
  BY <1>5 DEF WorkerReturn, Goto
<1>6. ASSUME NEW v \in Thread, WorkerPop(v) PROVE ControlInv'
  BY <1>6 DEF WorkerPop, Goto
<1>7. ASSUME NEW v \in Thread, WorkerPopEmpty(v) PROVE ControlInv'
  BY <1>7 DEF WorkerPopEmpty
<1>8. ASSUME NEW v \in Thread, WorkerDone(v) PROVE ControlInv'
  BY <1>8 DEF WorkerDone, Goto
<1>9. ASSUME NEW c \in Callers, NEW t \in Tasks, AddTaskCheck(c, t) PROVE ControlInv'
  BY <1>9 DEF AddTaskCheck, MayCall
<1>10. ASSUME NEW c \in Callers, AddTaskPush(c) PROVE ControlInv'
  BY <1>10 DEF AddTaskPush
<1>11. ASSUME NEW c \in Callers, AddTaskNotify(c) PROVE ControlInv'
  BY <1>11 DEF AddTaskNotify
<1>12. CASE StopThreads
  BY <1>12 DEF StopThreads, OwnerBegin, OwnerFree
<1>13. ASSUME NEW n \in ThreadCounts, StartThreads(n) PROVE ControlInv'
  BY <1>13 DEF StartThreads, OwnerBegin, OwnerFree
<1>14. CASE JoinThreads
  <2>1. own'.n = 1 /\ own'.at = "join"
    BY <1>14 DEF JoinThreads
  <2>2. QED
    BY <1>14, <2>1, ThreadIndex DEF JoinThreads
<1>15. CASE ResetJob
  <2>1. own'.n = 1 /\ own'.at = "join"
    BY <1>15 DEF ResetJob
  <2>2. QED
    BY <1>15, <2>1, ThreadIndex DEF ResetJob
<1>16. CASE DestroyPool
  <2>1. own'.n = 1 /\ own'.at = "join"
    BY <1>16 DEF DestroyPool
  <2>2. QED
    BY <1>16, <2>1, ThreadIndex DEF DestroyPool
<1>17. CASE JoinOne
  <2>1. own.n \in Nat /\ own'.n = own.n + 1 /\ own'.at = own.at
    BY <1>17 DEF JoinOne
  <2>2. \A w \in Thread : w < own'.n => w < own.n \/ w = own.n
    BY <2>1, ThreadIndex
  <2>3. \A w \in Thread : joinable'[w] <=> joinable[w] /\ w # own.n
    BY <1>17 DEF JoinOne
  <2>4. \A w \in Thread : w < own'.n => ~joinable'[w]
    BY <1>17, <2>2, <2>3 DEF JoinOne
  <2>5. \A w \in Thread : ~joinable'[w] => pc'[w] \in {"none", "exited"}
    BY <1>17, <2>3 DEF JoinOne
  <2>6. QED
    BY <1>17, <2>1, <2>3, <2>4, <2>5 DEF JoinOne
<1>18. CASE JoinThrows
  BY <1>18 DEF JoinThrows, Idle
<1>19. CASE JoinReturns
  <2>1. \A w \in Thread : ~joinable[w]
    <3>1. own.n \in Nat /\ poolSize \in Nat /\ own.n > poolSize
      BY <1>19 DEF JoinReturns
    <3>2. \A w \in Thread : w <= poolSize => w < own.n
      BY <3>1, ThreadIndex
    <3>3. QED
      BY <1>19, <3>2 DEF JoinReturns
  <2>2. own'.at \in {"idle", "swap", "destroyed"}
    BY <1>19 DEF JoinReturns, Idle
  <2>3. QED
    BY <1>19, <2>1, <2>2 DEF JoinReturns
<1>20. CASE SwapQueue
  BY <1>20 DEF SwapQueue
<1>21. CASE SwapQueueRace
  BY <1>21 DEF SwapQueueRace
<1>22. CASE ConfigureThreadPool
  <2>1. CASE \E w \in Thread : joinable[w]
    BY <1>22, <2>1 DEF ConfigureThreadPool
  <2>2. CASE \A w \in Thread : ~joinable[w]
    <3>1. \A w \in Thread : mutex # w /\ call[w] = "idle"
      BY <2>2
    <3>2. /\ pc' = [w \in Thread |-> IF w <= own.n THEN "loop" ELSE "none"]
          /\ joinable' = [w \in Thread |-> w <= own.n]
          /\ poolSize' = own.n
          /\ own'.at = "idle"
          /\ mutex' = mutex /\ call' = call
      BY <1>22, <2>2 DEF ConfigureThreadPool, Idle
    <3>3. QED
      BY <3>1, <3>2
  <2>3. QED
    BY <2>1, <2>2
<1>23. CASE UNCHANGED vars
  BY <1>23 DEF vars
<1> QED
  BY <1>1, <1>2, <1>3, <1>4, <1>5, <1>6, <1>7, <1>8, <1>9, <1>10, <1>11,
     <1>12, <1>13, <1>14, <1>15, <1>16, <1>17, <1>18, <1>19, <1>20, <1>21,
     <1>22, <1>23
  DEF Next, WorkerStep, CallStep, OwnerCall, OwnerStep

(* The three parts proved so far hold in every reachable state. *)
LEMMA ControlCorrect == Spec => [](TypeInv /\ ControlInv)
  BY TypeInit, TypeStep, ControlInit, ControlStep, PTL DEF Spec

(* ResetJob swaps the queue away without the mutex only when no worker is  *)
(* left that could touch the queue, hold the mutex or be inside AddTask.   *)
THEOREM SwapQuiet == Spec => []SwapIsQuiet
<1>1. TypeInv /\ ControlInv => SwapIsQuiet
  BY DEF TypeInv, TypeOK, ControlInv, SwapIsQuiet, WorkerPC, CallPC, Callers
<1> QED
  BY <1>1, ControlCorrect, PTL

-----------------------------------------------------------------------------
(* The queue is empty in front of a worker that is about to sleep, and no  *)
(* worker sleeps on a queue with a task.                                   *)

WakeInv ==
  /\ \A w \in Thread : pc[w] = "enroll" => queue = <<>>
  /\ NoSleepWithWork

LEMMA WakeInit == Init => WakeInv
  BY DEF Init, WakeInv, NoSleepWithWork

LEMMA WakeStep == TypeInv /\ ControlInv /\ WakeInv /\ [Next]_vars => WakeInv'
<1> SUFFICES ASSUME TypeInv, ControlInv, WakeInv, [Next]_vars PROVE WakeInv'
  OBVIOUS
<1> USE ThreadPoolAssumption
    DEF TypeInv, TypeOK, ControlInv, WakeInv, NoSleepWithWork, poolVars,
        workerVars, callVars, Callers
<1>1. ASSUME NEW v \in Thread, WorkerLoop(v) PROVE WakeInv'
  BY <1>1 DEF WorkerLoop, Goto
<1>2. ASSUME NEW v \in Thread, WorkerAcquire(v) PROVE WakeInv'
  BY <1>2 DEF WorkerAcquire, Goto
<1>3. ASSUME NEW v \in Thread, WorkerEnroll(v) PROVE WakeInv'
  BY <1>3 DEF WorkerEnroll, Goto
<1>4. ASSUME NEW v \in Thread, SpuriousWakeup(v) PROVE WakeInv'
  BY <1>4 DEF SpuriousWakeup, Goto
<1>5. ASSUME NEW v \in Thread, WorkerReturn(v) PROVE WakeInv'
  BY <1>5 DEF WorkerReturn, Goto
<1>6. ASSUME NEW v \in Thread, WorkerPop(v) PROVE WakeInv'
  BY <1>6 DEF WorkerPop, Goto
<1>7. ASSUME NEW v \in Thread, WorkerPopEmpty(v) PROVE WakeInv'
  BY <1>7 DEF WorkerPopEmpty
<1>8. ASSUME NEW v \in Thread, WorkerDone(v) PROVE WakeInv'
  BY <1>8 DEF WorkerDone, Goto
<1>9. ASSUME NEW c \in Callers, NEW t \in Tasks, AddTaskCheck(c, t) PROVE WakeInv'
  BY <1>9 DEF AddTaskCheck, MayCall
<1>10. ASSUME NEW c \in Callers, AddTaskPush(c) PROVE WakeInv'
  BY <1>10 DEF AddTaskPush
<1>11. ASSUME NEW c \in Callers, AddTaskNotify(c) PROVE WakeInv'
  BY <1>11 DEF AddTaskNotify
<1>12. CASE StopThreads
  BY <1>12 DEF StopThreads, OwnerBegin, OwnerFree
<1>13. ASSUME NEW n \in ThreadCounts, StartThreads(n) PROVE WakeInv'
  BY <1>13 DEF StartThreads, OwnerBegin, OwnerFree
<1>14. CASE JoinThreads
  BY <1>14 DEF JoinThreads, OwnerBegin, OwnerFree
<1>15. CASE ResetJob
  BY <1>15 DEF ResetJob, OwnerBegin, OwnerFree
<1>16. CASE DestroyPool
  BY <1>16 DEF DestroyPool, OwnerBegin, OwnerFree
<1>17. CASE JoinOne
  BY <1>17 DEF JoinOne
<1>18. CASE JoinThrows
  BY <1>18 DEF JoinThrows, Idle
<1>19. CASE JoinReturns
  BY <1>19 DEF JoinReturns, Idle
<1>20. CASE SwapQueue
  BY <1>20 DEF SwapQueue
<1>21. CASE SwapQueueRace
  BY <1>21 DEF SwapQueueRace
<1>22. CASE ConfigureThreadPool
  BY <1>22 DEF ConfigureThreadPool, Idle
<1>23. CASE UNCHANGED vars
  BY <1>23 DEF vars
<1> QED
  BY <1>1, <1>2, <1>3, <1>4, <1>5, <1>6, <1>7, <1>8, <1>9, <1>10, <1>11,
     <1>12, <1>13, <1>14, <1>15, <1>16, <1>17, <1>18, <1>19, <1>20, <1>21,
     <1>22, <1>23
  DEF Next, WorkerStep, CallStep, OwnerCall, OwnerStep

(* No worker sleeps on a queue that holds a task unless a notify_all is on *)
(* its way: AddTask cannot lose a wake-up.                                 *)
THEOREM NoLostWakeup == Spec => []NoSleepWithWork
<1>1. WakeInv => NoSleepWithWork
  BY DEF WakeInv
<1> QED
  BY <1>1, WakeInit, WakeStep, ControlCorrect, PTL DEF Spec

-----------------------------------------------------------------------------
(* A lowered flag finds no worker past its wait in front of an empty       *)
(* queue, except in a restart without a join.                              *)

LEMMA TakeInit == Init => TakeFindsWork
  BY DEF Init, TakeFindsWork

LEMMA TakeStep ==
  TypeInv /\ ControlInv /\ TakeFindsWork /\ [Next]_vars => TakeFindsWork'
<1> SUFFICES ASSUME TypeInv, ControlInv, TakeFindsWork, [Next]_vars
             PROVE  TakeFindsWork'
  OBVIOUS
<1> USE ThreadPoolAssumption
    DEF TypeInv, TypeOK, ControlInv, TakeFindsWork, poolVars, workerVars,
        callVars, Callers
<1>1. ASSUME NEW v \in Thread, WorkerLoop(v) PROVE TakeFindsWork'
  BY <1>1 DEF WorkerLoop, Goto
<1>2. ASSUME NEW v \in Thread, WorkerAcquire(v) PROVE TakeFindsWork'
  BY <1>2 DEF WorkerAcquire, Goto
<1>3. ASSUME NEW v \in Thread, WorkerEnroll(v) PROVE TakeFindsWork'
  BY <1>3 DEF WorkerEnroll, Goto
<1>4. ASSUME NEW v \in Thread, SpuriousWakeup(v) PROVE TakeFindsWork'
  BY <1>4 DEF SpuriousWakeup, Goto
<1>5. ASSUME NEW v \in Thread, WorkerReturn(v) PROVE TakeFindsWork'
  BY <1>5 DEF WorkerReturn, Goto
<1>6. ASSUME NEW v \in Thread, WorkerPop(v) PROVE TakeFindsWork'
  BY <1>6 DEF WorkerPop, Goto
<1>7. ASSUME NEW v \in Thread, WorkerPopEmpty(v) PROVE TakeFindsWork'
  BY <1>7 DEF WorkerPopEmpty
<1>8. ASSUME NEW v \in Thread, WorkerDone(v) PROVE TakeFindsWork'
  BY <1>8 DEF WorkerDone, Goto
<1>9. ASSUME NEW c \in Callers, NEW t \in Tasks, AddTaskCheck(c, t) PROVE TakeFindsWork'
  BY <1>9 DEF AddTaskCheck, MayCall
<1>10. ASSUME NEW c \in Callers, AddTaskPush(c) PROVE TakeFindsWork'
  BY <1>10 DEF AddTaskPush
<1>11. ASSUME NEW c \in Callers, AddTaskNotify(c) PROVE TakeFindsWork'
  BY <1>11 DEF AddTaskNotify
<1>12. CASE StopThreads
  BY <1>12 DEF StopThreads, OwnerBegin, OwnerFree
<1>13. ASSUME NEW n \in ThreadCounts, StartThreads(n) PROVE TakeFindsWork'
  BY <1>13 DEF StartThreads, OwnerBegin, OwnerFree
<1>14. CASE JoinThreads
  BY <1>14 DEF JoinThreads, OwnerBegin, OwnerFree
<1>15. CASE ResetJob
  BY <1>15 DEF ResetJob, OwnerBegin, OwnerFree
<1>16. CASE DestroyPool
  BY <1>16 DEF DestroyPool, OwnerBegin, OwnerFree
<1>17. CASE JoinOne
  BY <1>17 DEF JoinOne
<1>18. CASE JoinThrows
  BY <1>18 DEF JoinThrows, Idle
<1>19. CASE JoinReturns
  BY <1>19 DEF JoinReturns, Idle
<1>20. CASE SwapQueue
  BY <1>20 DEF SwapQueue
<1>21. CASE SwapQueueRace
  BY <1>21 DEF SwapQueueRace
<1>22. CASE ConfigureThreadPool
  BY <1>22 DEF ConfigureThreadPool, Idle
<1>23. CASE UNCHANGED vars
  BY <1>23 DEF vars
<1> QED
  BY <1>1, <1>2, <1>3, <1>4, <1>5, <1>6, <1>7, <1>8, <1>9, <1>10, <1>11,
     <1>12, <1>13, <1>14, <1>15, <1>16, <1>17, <1>18, <1>19, <1>20, <1>21,
     <1>22, <1>23
  DEF Next, WorkerStep, CallStep, OwnerCall, OwnerStep

(* A worker that takes a task finds one, although the predicate it waited  *)
(* for is also true of an empty queue, unless StartThreads restarts a pool *)
(* whose workers have not been joined.                                     *)
THEOREM TakeCorrect == Spec => []TakeFindsWork
  BY TakeInit, TakeStep, ControlCorrect, PTL DEF Spec

-----------------------------------------------------------------------------
(* In the middle of a join the threads not reached yet are all joinable or *)
(* none is, and all are once one has been joined.                          *)

JoinInv ==
  /\ own.at # "join" =>
       \A v, w \in 1 .. poolSize : joinable[v] <=> joinable[w]
  /\ own.at = "join" =>
       /\ own.n >= 1
       /\ \A v, w \in own.n .. poolSize : joinable[v] <=> joinable[w]
       /\ own.n > 1 => \A w \in own.n .. poolSize : joinable[w]

LEMMA JoinInit == Init => JoinInv
<1> SUFFICES ASSUME Init PROVE JoinInv
  OBVIOUS
<1>1. own.at = "idle"
  BY DEF Init, Idle
<1>2. \A w \in 1 .. poolSize : w \in Thread /\ w <= InitThreads
  BY ThreadPoolAssumption DEF Init, Thread
<1>3. \A w \in 1 .. poolSize : joinable[w]
  BY <1>2 DEF Init
<1> QED
  BY <1>1, <1>3 DEF JoinInv

LEMMA JoinStep ==
  TypeInv /\ ControlInv /\ JoinInv /\ [Next]_vars => JoinInv'
<1> SUFFICES ASSUME TypeInv, ControlInv, JoinInv, [Next]_vars PROVE JoinInv'
  OBVIOUS
<1> USE ThreadPoolAssumption, ThreadIndex
    DEF TypeInv, TypeOK, ControlInv, JoinInv, poolVars, workerVars, callVars,
        Callers
<1>1. ASSUME NEW v \in Thread, WorkerLoop(v) PROVE JoinInv'
  BY <1>1 DEF WorkerLoop, Goto
<1>2. ASSUME NEW v \in Thread, WorkerAcquire(v) PROVE JoinInv'
  BY <1>2 DEF WorkerAcquire, Goto
<1>3. ASSUME NEW v \in Thread, WorkerEnroll(v) PROVE JoinInv'
  BY <1>3 DEF WorkerEnroll, Goto
<1>4. ASSUME NEW v \in Thread, SpuriousWakeup(v) PROVE JoinInv'
  BY <1>4 DEF SpuriousWakeup, Goto
<1>5. ASSUME NEW v \in Thread, WorkerReturn(v) PROVE JoinInv'
  BY <1>5 DEF WorkerReturn, Goto
<1>6. ASSUME NEW v \in Thread, WorkerPop(v) PROVE JoinInv'
  BY <1>6 DEF WorkerPop, Goto
<1>7. ASSUME NEW v \in Thread, WorkerPopEmpty(v) PROVE JoinInv'
  BY <1>7 DEF WorkerPopEmpty
<1>8. ASSUME NEW v \in Thread, WorkerDone(v) PROVE JoinInv'
  BY <1>8 DEF WorkerDone, Goto
<1>9. ASSUME NEW c \in Callers, NEW t \in Tasks, AddTaskCheck(c, t) PROVE JoinInv'
  BY <1>9 DEF AddTaskCheck, MayCall
<1>10. ASSUME NEW c \in Callers, AddTaskPush(c) PROVE JoinInv'
  BY <1>10 DEF AddTaskPush
<1>11. ASSUME NEW c \in Callers, AddTaskNotify(c) PROVE JoinInv'
  BY <1>11 DEF AddTaskNotify
<1>12. CASE StopThreads
  BY <1>12 DEF StopThreads, OwnerBegin, OwnerFree
<1>13. ASSUME NEW n \in ThreadCounts, StartThreads(n) PROVE JoinInv'
  BY <1>13 DEF StartThreads, OwnerBegin, OwnerFree
<1>14. CASE JoinThreads
  BY <1>14 DEF JoinThreads, OwnerBegin, OwnerFree
<1>15. CASE ResetJob
  BY <1>15 DEF ResetJob, OwnerBegin, OwnerFree
<1>16. CASE DestroyPool
  BY <1>16 DEF DestroyPool, OwnerBegin, OwnerFree
<1>17. CASE JoinOne
  BY <1>17 DEF JoinOne
<1>18. CASE JoinThrows
  BY <1>18 DEF JoinThrows, Idle
<1>19. CASE JoinReturns
  <2>1. own.n \in Nat /\ poolSize \in Nat /\ poolSize <= MaxThreads /\ own.n > poolSize
    BY <1>19 DEF JoinReturns
  <2>2. \A w \in 1 .. poolSize : w \in Thread /\ w < own.n
    BY <2>1 DEF Thread
  <2>3. \A w \in 1 .. poolSize : ~joinable[w]
    BY <1>19, <2>2 DEF JoinReturns
  <2>4. own'.at \in {"idle", "swap", "destroyed"}
    BY <1>19 DEF JoinReturns, Idle
  <2>5. QED
    BY <1>19, <2>3, <2>4 DEF JoinReturns
<1>20. CASE SwapQueue
  BY <1>20 DEF SwapQueue
<1>21. CASE SwapQueueRace
  BY <1>21 DEF SwapQueueRace
<1>22. CASE ConfigureThreadPool
  <2>1. CASE \E w \in Thread : joinable[w]
    BY <1>22, <2>1 DEF ConfigureThreadPool
  <2>2. CASE \A w \in Thread : ~joinable[w]
    <3>1. /\ joinable' = [w \in Thread |-> w <= own.n]
          /\ poolSize' = own.n
          /\ own'.at = "idle"
      BY <1>22, <2>2 DEF ConfigureThreadPool, Idle
    <3>2. \A w \in 1 .. own.n : w \in Thread /\ w <= own.n
      BY <1>22 DEF ConfigureThreadPool, Thread
    <3>3. \A w \in 1 .. poolSize' : joinable'[w]
      BY <3>1, <3>2
    <3>4. QED
      BY <3>1, <3>3
  <2>3. QED
    BY <2>1, <2>2
<1>23. CASE UNCHANGED vars
  BY <1>23 DEF vars
<1> QED
  BY <1>1, <1>2, <1>3, <1>4, <1>5, <1>6, <1>7, <1>8, <1>9, <1>10, <1>11,
     <1>12, <1>13, <1>14, <1>15, <1>16, <1>17, <1>18, <1>19, <1>20, <1>21,
     <1>22, <1>23
  DEF Next, WorkerStep, CallStep, OwnerCall, OwnerStep

(* The pool is never left half joined: between operations all its threads  *)
(* can be joined or none, and a join that throws throws on the first.      *)
THEOREM JoinCorrect == Spec => []JoinIsAllOrNone
<1>1. TypeInv /\ ControlInv /\ JoinInv => JoinIsAllOrNone
  BY ThreadIndex DEF TypeInv, TypeOK, ControlInv, JoinInv, JoinIsAllOrNone
<1> QED
  BY <1>1, JoinInit, JoinStep, ControlCorrect, PTL DEF Spec

-----------------------------------------------------------------------------
(* The tasks that callers are submitting are theirs alone, and a worker    *)
(* has a task exactly while it runs one.                                   *)

TaskInv ==
  /\ \A w \in Thread : pc[w] = "run" <=> job[w] # NoTask
  /\ \A c \in Callers : call[c] = "push" => tstate[arg[c]] = "calling"
  /\ \A c, d \in Callers :
       call[c] = "push" /\ call[d] = "push" /\ arg[c] = arg[d] => c = d
  /\ TaskHasOneHome

Occurs(t, q) == \E i \in DOMAIN q : q[i] = t
Distinct(q) == \A i, j \in DOMAIN q : q[i] = q[j] => i = j

LEMMA AppendTask ==
  ASSUME NEW q \in Seq(Tasks), NEW t \in Tasks, Distinct(q), ~Occurs(t, q)
  PROVE  /\ Distinct(Append(q, t))
         /\ \A u : Occurs(u, Append(q, t)) <=> Occurs(u, q) \/ u = t
<1> DEFINE n == Len(q)
           a == Append(q, t)
<1>1. n \in Nat /\ DOMAIN q = 1 .. n
  OBVIOUS
<1>2. DOMAIN a = 1 .. n + 1 /\ a[n + 1] = t
  OBVIOUS
<1>3. \A i \in 1 .. n : a[i] = q[i]
  OBVIOUS
<1>4. \A i \in 1 .. n + 1 : i \in 1 .. n \/ i = n + 1
  BY <1>1
<1>5. Distinct(a)
  BY <1>1, <1>2, <1>3, <1>4 DEF Distinct, Occurs
<1>6. \A u : Occurs(u, a) => Occurs(u, q) \/ u = t
  BY <1>1, <1>2, <1>3, <1>4 DEF Occurs
<1>7. \A u : Occurs(u, q) \/ u = t => Occurs(u, a)
  <2>1. n + 1 \in 1 .. n + 1 /\ \A i \in 1 .. n : i \in 1 .. n + 1
    BY <1>1
  <2>2. QED
    BY <2>1, <1>1, <1>2, <1>3 DEF Occurs
<1> QED
  BY <1>5, <1>6, <1>7

LEMMA TakeTask ==
  ASSUME NEW q \in Seq(Tasks), q # <<>>, Distinct(q)
  PROVE  /\ Head(q) \in Tasks
         /\ Occurs(Head(q), q)
         /\ Distinct(Tail(q))
         /\ \A u : Occurs(u, Tail(q)) <=> Occurs(u, q) /\ u # Head(q)
<1> DEFINE n == Len(q)
           r == Tail(q)
<1>1. n \in Nat /\ n >= 1 /\ DOMAIN q = 1 .. n /\ Head(q) = q[1]
  OBVIOUS
<1>2. DOMAIN r = 1 .. n - 1
  OBVIOUS
<1>3. \A i \in 1 .. n - 1 : r[i] = q[i + 1] /\ i + 1 \in 1 .. n /\ i + 1 # 1
  OBVIOUS
<1>4. \A i \in 1 .. n : i = 1 \/ (i - 1 \in 1 .. n - 1 /\ (i - 1) + 1 = i)
  BY <1>1
<1>5. 1 \in 1 .. n
  BY <1>1
<1>6. Distinct(r)
  <2>1. \A i, j \in 1 .. n - 1 : i + 1 = j + 1 => i = j
    BY <1>1
  <2>2. QED
    BY <1>1, <1>2, <1>3, <2>1 DEF Distinct
<1>7. \A u : Occurs(u, r) => Occurs(u, q) /\ u # Head(q)
  BY <1>1, <1>2, <1>3, <1>5 DEF Occurs, Distinct
<1>8. ASSUME NEW u, Occurs(u, q), u # Head(q) PROVE Occurs(u, r)
  <2>1. PICK i \in 1 .. n : q[i] = u
    BY <1>1, <1>8 DEF Occurs
  <2>2. i - 1 \in 1 .. n - 1 /\ (i - 1) + 1 = i
    BY <2>1, <1>1, <1>4, <1>8
  <2>3. r[i - 1] = u
    BY <2>1, <2>2, <1>3
  <2>4. QED
    BY <2>2, <2>3, <1>2 DEF Occurs
<1>9. Head(q) \in Tasks /\ Occurs(Head(q), q)
  BY <1>1, <1>5 DEF Occurs
<1> QED
  BY <1>6, <1>7, <1>8, <1>9

LEMMA OneHome ==
  TaskHasOneHome <=>
    /\ Distinct(queue)
    /\ \A t \in Tasks : tstate[t] = "queued" <=> Occurs(t, queue)
    /\ \A t \in Tasks : tstate[t] = "running" <=> \E w \in Thread : job[w] = t
    /\ \A v, w \in Thread : job[v] = job[w] /\ job[v] # NoTask => v = w
  BY DEF TaskHasOneHome, Distinct, Occurs

LEMMA OneHomeNext ==
  TaskHasOneHome' <=>
    /\ Distinct(queue')
    /\ \A t \in Tasks : tstate'[t] = "queued" <=> Occurs(t, queue')
    /\ \A t \in Tasks : tstate'[t] = "running" <=> \E w \in Thread : job'[w] = t
    /\ \A v, w \in Thread : job'[v] = job'[w] /\ job'[v] # NoTask => v = w
  BY DEF TaskHasOneHome, Distinct, Occurs

LEMMA TaskInit == Init => TaskInv
<1> SUFFICES ASSUME Init PROVE TaskInv
  OBVIOUS
<1>1. \A w \in Thread : pc[w] # "run" /\ job[w] = NoTask
  BY DEF Init
<1>2. \A c \in Callers : call[c] = "idle"
  BY DEF Init
<1>3. DOMAIN queue = {}
  BY DEF Init
<1>4. \A t \in Tasks : tstate[t] = "new" /\ t # NoTask
  BY ThreadPoolAssumption DEF Init
<1>5. TaskHasOneHome
  BY <1>1, <1>3, <1>4 DEF TaskHasOneHome
<1> QED
  BY <1>1, <1>2, <1>5 DEF TaskInv

LEMMA TaskStep ==
  TypeInv /\ ControlInv /\ TaskInv /\ [Next]_vars => TaskInv'
<1> SUFFICES ASSUME TypeInv, ControlInv, TaskInv, [Next]_vars PROVE TaskInv'
  OBVIOUS
<1> USE ThreadPoolAssumption, OneHome, OneHomeNext
    DEF TypeInv, TypeOK, ControlInv, TaskInv, poolVars, workerVars, callVars,
        Callers
<1>1. ASSUME NEW v \in Thread, WorkerLoop(v) PROVE TaskInv'
  BY <1>1 DEF WorkerLoop, Goto
<1>2. ASSUME NEW v \in Thread, WorkerAcquire(v) PROVE TaskInv'
  BY <1>2 DEF WorkerAcquire, Goto
<1>3. ASSUME NEW v \in Thread, WorkerEnroll(v) PROVE TaskInv'
  BY <1>3 DEF WorkerEnroll, Goto
<1>4. ASSUME NEW v \in Thread, SpuriousWakeup(v) PROVE TaskInv'
  BY <1>4 DEF SpuriousWakeup, Goto
<1>5. ASSUME NEW v \in Thread, WorkerReturn(v) PROVE TaskInv'
  BY <1>5 DEF WorkerReturn, Goto
<1>6. ASSUME NEW v \in Thread, WorkerPop(v) PROVE TaskInv'
  <2>1. /\ job' = [job EXCEPT ![v] = Head(queue)]
        /\ queue' = Tail(queue)
        /\ tstate' = [tstate EXCEPT ![Head(queue)] = "running"]
        /\ pc' = [pc EXCEPT ![v] = "run"]
        /\ pc[v] = "take" /\ queue # <<>>
        /\ UNCHANGED <<call, arg>>
    BY <1>6 DEF WorkerPop, Goto
  <2>2. /\ Head(queue) \in Tasks
        /\ Occurs(Head(queue), queue)
        /\ Distinct(queue')
        /\ \A u : Occurs(u, queue') <=> Occurs(u, queue) /\ u # Head(queue)
    BY <2>1, TakeTask
  <2>3. tstate[Head(queue)] = "queued" /\ Head(queue) # NoTask
    BY <2>2
  <2>4. job[v] = NoTask /\ \A w \in Thread : job[w] # Head(queue)
    BY <2>1, <2>2, <2>3
  <2>5. \A w \in Thread : job'[w] = IF w = v THEN Head(queue) ELSE job[w]
    BY <2>1
  <2>6. \A t \in Tasks : tstate'[t] = IF t = Head(queue) THEN "running" ELSE tstate[t]
    BY <2>1
  <2>7. \A t \in Tasks : tstate'[t] = "queued" <=> Occurs(t, queue')
    BY <2>2, <2>6
  <2>8. \A t \in Tasks : tstate'[t] = "running" <=> \E w \in Thread : job'[w] = t
    BY <2>4, <2>5, <2>6
  <2>9. \A u, w \in Thread : job'[u] = job'[w] /\ job'[u] # NoTask => u = w
    BY <2>4, <2>5
  <2>10. \A w \in Thread : pc'[w] = "run" <=> job'[w] # NoTask
    BY <2>1, <2>3, <2>5
  <2>11. \A c \in Callers : call'[c] = "push" => tstate'[arg'[c]] = "calling"
    BY <2>1, <2>3, <2>6
  <2>12. QED
    BY <2>1, <2>2, <2>7, <2>8, <2>9, <2>10, <2>11
<1>7. ASSUME NEW v \in Thread, WorkerPopEmpty(v) PROVE TaskInv'
  BY <1>7 DEF WorkerPopEmpty
<1>8. ASSUME NEW v \in Thread, WorkerDone(v) PROVE TaskInv'
  <2>1. /\ job' = [job EXCEPT ![v] = NoTask]
        /\ tstate' = [tstate EXCEPT ![job[v]] = "done"]
        /\ pc' = [pc EXCEPT ![v] = "loop"]
        /\ pc[v] = "run"
        /\ UNCHANGED <<call, arg, queue>>
    BY <1>8 DEF WorkerDone, Goto
  <2>2. job[v] \in Tasks /\ tstate[job[v]] = "running"
    BY <2>1
  <2>3. \A t \in Tasks : tstate'[t] = IF t = job[v] THEN "done" ELSE tstate[t]
    BY <2>1, <2>2
  <2>4. \A w \in Thread : job'[w] = IF w = v THEN NoTask ELSE job[w]
    BY <2>1
  <2>5. \A t \in Tasks : tstate'[t] = "queued" <=> Occurs(t, queue')
    BY <2>1, <2>2, <2>3
  <2>6. \A t \in Tasks : tstate'[t] = "running" <=> \E w \in Thread : job'[w] = t
    BY <2>2, <2>3, <2>4
  <2>7. \A u, w \in Thread : job'[u] = job'[w] /\ job'[u] # NoTask => u = w
    BY <2>4
  <2>8. \A w \in Thread : pc'[w] = "run" <=> job'[w] # NoTask
    BY <2>1, <2>4
  <2>9. \A c \in Callers : call'[c] = "push" => tstate'[arg'[c]] = "calling"
    BY <2>1, <2>2, <2>3
  <2>10. QED
    BY <2>1, <2>5, <2>6, <2>7, <2>8, <2>9
<1>9. ASSUME NEW c \in Callers, NEW t \in Tasks, AddTaskCheck(c, t) PROVE TaskInv'
  <2>1. CASE terminate
    BY <1>9, <2>1 DEF AddTaskCheck
  <2>2. CASE ~terminate
    <3>1. /\ tstate' = [tstate EXCEPT ![t] = "calling"]
          /\ call' = [call EXCEPT ![c] = "push"]
          /\ arg' = [arg EXCEPT ![c] = t]
          /\ tstate[t] = "new" /\ call[c] = "idle"
          /\ UNCHANGED <<pc, job, queue>>
      BY <1>9, <2>2 DEF AddTaskCheck, MayCall
    <3>2. \A u \in Tasks : tstate'[u] = IF u = t THEN "calling" ELSE tstate[u]
      BY <3>1
    <3>3. \A d \in Callers : /\ call'[d] = IF d = c THEN "push" ELSE call[d]
                             /\ arg'[d] = IF d = c THEN t ELSE arg[d]
      BY <3>1
    <3>4. \A d \in Callers : call'[d] = "push" => tstate'[arg'[d]] = "calling"
      BY <3>1, <3>2, <3>3
    <3>5. \A d, e \in Callers :
            call'[d] = "push" /\ call'[e] = "push" /\ arg'[d] = arg'[e] => d = e
      BY <3>1, <3>3
    <3>6. /\ \A u \in Tasks : tstate'[u] = "queued" <=> Occurs(u, queue')
          /\ \A u \in Tasks : tstate'[u] = "running" <=> \E w \in Thread : job'[w] = u
      BY <3>1, <3>2
    <3>7. QED
      BY <3>1, <3>4, <3>5, <3>6
  <2>3. QED
    BY <2>1, <2>2
<1>10. ASSUME NEW c \in Callers, AddTaskPush(c) PROVE TaskInv'
  <2> DEFINE t == arg[c]
  <2>1. /\ queue' = Append(queue, t)
        /\ tstate' = [tstate EXCEPT ![t] = "queued"]
        /\ call' = [call EXCEPT ![c] = "notify"]
        /\ arg' = [arg EXCEPT ![c] = NoTask]
        /\ call[c] = "push"
        /\ UNCHANGED <<pc, job>>
    BY <1>10 DEF AddTaskPush
  <2>2. t \in Tasks /\ tstate[t] = "calling" /\ ~Occurs(t, queue)
    BY <2>1
  <2>3. /\ Distinct(queue')
        /\ \A u : Occurs(u, queue') <=> Occurs(u, queue) \/ u = t
    BY <2>1, <2>2, AppendTask
  <2>4. \A u \in Tasks : tstate'[u] = IF u = t THEN "queued" ELSE tstate[u]
    BY <2>1, <2>2
  <2>5. \A d \in Callers : call'[d] = "push" => d # c /\ call[d] = "push" /\ arg'[d] = arg[d]
    BY <2>1
  <2>6. \A d \in Callers : call'[d] = "push" => tstate'[arg'[d]] = "calling"
    BY <2>1, <2>4, <2>5
  <2>7. /\ \A u \in Tasks : tstate'[u] = "queued" <=> Occurs(u, queue')
        /\ \A u \in Tasks : tstate'[u] = "running" <=> \E w \in Thread : job'[w] = u
    BY <2>1, <2>2, <2>3, <2>4
  <2>8. \A d, e \in Callers :
          call'[d] = "push" /\ call'[e] = "push" /\ arg'[d] = arg'[e] => d = e
    BY <2>5
  <2>9. QED
    BY <2>1, <2>3, <2>6, <2>7, <2>8
<1>11. ASSUME NEW c \in Callers, AddTaskNotify(c) PROVE TaskInv'
  BY <1>11 DEF AddTaskNotify
<1>12. CASE StopThreads
  BY <1>12 DEF StopThreads, OwnerBegin, OwnerFree
<1>13. ASSUME NEW n \in ThreadCounts, StartThreads(n) PROVE TaskInv'
  BY <1>13 DEF StartThreads, OwnerBegin, OwnerFree
<1>14. CASE JoinThreads
  BY <1>14 DEF JoinThreads, OwnerBegin, OwnerFree
<1>15. CASE ResetJob
  BY <1>15 DEF ResetJob, OwnerBegin, OwnerFree
<1>16. CASE DestroyPool
  BY <1>16 DEF DestroyPool, OwnerBegin, OwnerFree
<1>17. CASE JoinOne
  BY <1>17 DEF JoinOne
<1>18. CASE JoinThrows
  BY <1>18 DEF JoinThrows, Idle
<1>19. CASE JoinReturns
  BY <1>19 DEF JoinReturns, Idle
<1>20. CASE SwapQueue
  <2>1. /\ queue' = <<>>
        /\ tstate' = [t \in Tasks |-> IF tstate[t] = "queued" THEN "dropped" ELSE tstate[t]]
        /\ UNCHANGED <<pc, job, call, arg>>
    BY <1>20 DEF SwapQueue
  <2>2. \A t \in Tasks : tstate'[t] # "queued"
    BY <2>1
  <2>3. \A t : ~Occurs(t, queue')
    BY <2>1 DEF Occurs
  <2>4. Distinct(queue')
    BY <2>1 DEF Distinct
  <2>5. \A t \in Tasks : tstate'[t] = "running" <=> tstate[t] = "running"
    BY <2>1
  <2>6. \A c \in Callers : call'[c] = "push" => tstate'[arg'[c]] = "calling"
    BY <2>1
  <2>7. QED
    BY <2>1, <2>2, <2>3, <2>4, <2>5, <2>6
<1>21. CASE SwapQueueRace
  BY <1>21 DEF SwapQueueRace
<1>22. CASE ConfigureThreadPool
  <2>1. CASE \E w \in Thread : joinable[w]
    BY <1>22, <2>1 DEF ConfigureThreadPool
  <2>2. CASE \A w \in Thread : ~joinable[w]
    <3>1. \A w \in Thread : pc[w] # "run" /\ job[w] = NoTask
      BY <2>2
    <3>2. /\ pc' = [w \in Thread |-> IF w <= own.n THEN "loop" ELSE "none"]
          /\ UNCHANGED <<job, call, arg, queue, tstate>>
      BY <1>22, <2>2 DEF ConfigureThreadPool
    <3>3. \A w \in Thread : pc'[w] # "run"
      BY <3>2
    <3>4. QED
      BY <3>1, <3>2, <3>3
  <2>3. QED
    BY <2>1, <2>2
<1>23. CASE UNCHANGED vars
  BY <1>23 DEF vars
<1> QED
  BY <1>1, <1>2, <1>3, <1>4, <1>5, <1>6, <1>7, <1>8, <1>9, <1>10, <1>11,
     <1>12, <1>13, <1>14, <1>15, <1>16, <1>17, <1>18, <1>19, <1>20, <1>21,
     <1>22, <1>23
  DEF Next, WorkerStep, CallStep, OwnerCall, OwnerStep

(* Every task has one home: none is lost, duplicated or run twice, across  *)
(* resets, restarts and spurious wake-ups.                                 *)
THEOREM TasksConserved == Spec => []TaskHasOneHome
<1>1. TaskInv => TaskHasOneHome
  BY DEF TaskInv
<1> QED
  BY <1>1, TaskInit, TaskStep, ControlCorrect, PTL DEF Spec

-----------------------------------------------------------------------------
(* The pool implements WorkQueue.  A push is Accept, a pop is Start, the   *)
(* swap in ResetJob is Discard, which WorkQueue allows only while no task  *)
(* runs; everything the threads do in between is a stutter.                *)

LEMMA QueueInit == Init => Queue!Init
<1> SUFFICES ASSUME Init PROVE Queue!Init
  OBVIOUS
<1>1. queue = <<>> /\ taskState = [t \in Tasks |-> "new"]
  BY DEF Init, taskState
<1> QED
  BY <1>1 DEF Queue!Init

LEMMA QueueStep ==
  TypeInv /\ ControlInv /\ TaskInv /\ [Next]_vars => [Queue!Next]_(Queue!vars)
<1> SUFFICES ASSUME TypeInv, ControlInv, TaskInv, [Next]_vars
             PROVE  Queue!Next \/ UNCHANGED <<queue, taskState>>
  BY DEF Queue!vars
<1> USE DEF TypeInv, TypeOK, ControlInv, TaskInv, poolVars, workerVars, callVars
<1>1. ASSUME NEW v \in Thread, WorkerLoop(v) PROVE Queue!Next \/ UNCHANGED <<queue, taskState>>
  BY <1>1 DEF WorkerLoop, taskState
<1>2. ASSUME NEW v \in Thread, WorkerAcquire(v) PROVE Queue!Next \/ UNCHANGED <<queue, taskState>>
  BY <1>2 DEF WorkerAcquire, taskState
<1>3. ASSUME NEW v \in Thread, WorkerEnroll(v) PROVE Queue!Next \/ UNCHANGED <<queue, taskState>>
  BY <1>3 DEF WorkerEnroll, taskState
<1>4. ASSUME NEW v \in Thread, SpuriousWakeup(v) PROVE Queue!Next \/ UNCHANGED <<queue, taskState>>
  BY <1>4 DEF SpuriousWakeup, taskState
<1>5. ASSUME NEW v \in Thread, WorkerReturn(v) PROVE Queue!Next \/ UNCHANGED <<queue, taskState>>
  BY <1>5 DEF WorkerReturn, taskState
<1>6. ASSUME NEW v \in Thread, WorkerPop(v) PROVE Queue!Next \/ UNCHANGED <<queue, taskState>>
  <2>1. /\ queue' = Tail(queue) /\ queue # <<>>
        /\ tstate' = [tstate EXCEPT ![Head(queue)] = "running"]
    BY <1>6 DEF WorkerPop
  <2>2. Head(queue) \in Tasks
    BY <2>1
  <2>3. taskState' = [taskState EXCEPT ![Head(queue)] = "running"]
    BY <2>1, <2>2 DEF taskState
  <2>4. Queue!Start
    BY <2>1, <2>3 DEF Queue!Start
  <2>5. QED
    BY <2>4 DEF Queue!Next
<1>7. ASSUME NEW v \in Thread, WorkerPopEmpty(v) PROVE Queue!Next \/ UNCHANGED <<queue, taskState>>
  BY <1>7 DEF WorkerPopEmpty, taskState
<1>8. ASSUME NEW v \in Thread, WorkerDone(v) PROVE Queue!Next \/ UNCHANGED <<queue, taskState>>
  <2>1. /\ tstate' = [tstate EXCEPT ![job[v]] = "done"]
        /\ UNCHANGED queue
        /\ pc[v] = "run"
    BY <1>8 DEF WorkerDone, Goto
  <2>2. job[v] \in Tasks /\ tstate[job[v]] = "running"
    BY <2>1 DEF TaskHasOneHome
  <2>3. taskState' = [taskState EXCEPT ![job[v]] = "done"] /\ taskState[job[v]] = "running"
    BY <2>1, <2>2 DEF taskState
  <2>4. Queue!Finish(job[v])
    BY <2>1, <2>3 DEF Queue!Finish
  <2>5. QED
    BY <2>2, <2>4 DEF Queue!Next
<1>9. ASSUME NEW c \in Callers, NEW t \in Tasks, AddTaskCheck(c, t) PROVE Queue!Next \/ UNCHANGED <<queue, taskState>>
  <2>1. CASE terminate
    <3>1. /\ tstate' = [tstate EXCEPT ![t] = "refused"]
          /\ tstate[t] = "new"
          /\ UNCHANGED queue
      BY <1>9, <2>1 DEF AddTaskCheck
    <3>2. taskState' = [taskState EXCEPT ![t] = "refused"] /\ taskState[t] = "new"
      BY <3>1 DEF taskState
    <3>3. Queue!Refuse(t)
      BY <3>1, <3>2 DEF Queue!Refuse
    <3>4. QED
      BY <3>3 DEF Queue!Next
  <2>2. CASE ~terminate
    <3>1. /\ tstate' = [tstate EXCEPT ![t] = "calling"]
          /\ tstate[t] = "new"
          /\ UNCHANGED queue
      BY <1>9, <2>2 DEF AddTaskCheck
    <3>2. UNCHANGED <<queue, taskState>>
      BY <3>1 DEF taskState
    <3>3. QED
      BY <3>2
  <2>3. QED
    BY <2>1, <2>2
<1>10. ASSUME NEW c \in Callers, AddTaskPush(c) PROVE Queue!Next \/ UNCHANGED <<queue, taskState>>
  <2>1. /\ queue' = Append(queue, arg[c])
        /\ tstate' = [tstate EXCEPT ![arg[c]] = "queued"]
        /\ arg[c] \in Tasks /\ tstate[arg[c]] = "calling"
    BY <1>10 DEF AddTaskPush
  <2>2. taskState' = [taskState EXCEPT ![arg[c]] = "queued"] /\ taskState[arg[c]] = "new"
    BY <2>1 DEF taskState
  <2>3. Queue!Accept(arg[c])
    BY <2>1, <2>2 DEF Queue!Accept
  <2>4. QED
    BY <2>1, <2>3 DEF Queue!Next
<1>11. ASSUME NEW c \in Callers, AddTaskNotify(c) PROVE Queue!Next \/ UNCHANGED <<queue, taskState>>
  BY <1>11 DEF AddTaskNotify, taskState
<1>12. CASE StopThreads
  BY <1>12 DEF StopThreads, taskState
<1>13. ASSUME NEW n \in ThreadCounts, StartThreads(n) PROVE Queue!Next \/ UNCHANGED <<queue, taskState>>
  BY <1>13 DEF StartThreads, taskState
<1>14. CASE JoinThreads
  BY <1>14 DEF JoinThreads, taskState
<1>15. CASE ResetJob
  BY <1>15 DEF ResetJob, taskState
<1>16. CASE DestroyPool
  BY <1>16 DEF DestroyPool, taskState
<1>17. CASE JoinOne
  BY <1>17 DEF JoinOne, taskState
<1>18. CASE JoinThrows
  BY <1>18 DEF JoinThrows, taskState
<1>19. CASE JoinReturns
  BY <1>19 DEF JoinReturns, taskState
<1>20. CASE SwapQueue
  <2>1. /\ queue' = <<>>
        /\ tstate' = [t \in Tasks |-> IF tstate[t] = "queued" THEN "dropped" ELSE tstate[t]]
        /\ \A w \in Thread : ~joinable[w]
    BY <1>20 DEF SwapQueue
  <2>2. \A w \in Thread : job[w] = NoTask
    BY <2>1
  <2>3. \A t \in Tasks : tstate[t] # "running"
    BY <2>2, ThreadPoolAssumption DEF TaskHasOneHome
  <2>4. /\ \A t \in Tasks : taskState[t] # "running"
        /\ taskState' = [t \in Tasks |-> IF taskState[t] = "queued" THEN "dropped" ELSE taskState[t]]
    BY <2>1, <2>3 DEF taskState
  <2>5. Queue!Discard
    BY <2>1, <2>4 DEF Queue!Discard
  <2>6. QED
    BY <2>5 DEF Queue!Next
<1>21. CASE SwapQueueRace
  BY <1>21 DEF SwapQueueRace, taskState
<1>22. CASE ConfigureThreadPool
  BY <1>22 DEF ConfigureThreadPool, taskState
<1>23. CASE UNCHANGED vars
  BY <1>23 DEF vars, taskState
<1> QED
  BY <1>1, <1>2, <1>3, <1>4, <1>5, <1>6, <1>7, <1>8, <1>9, <1>10, <1>11,
     <1>12, <1>13, <1>14, <1>15, <1>16, <1>17, <1>18, <1>19, <1>20, <1>21,
     <1>22, <1>23
  DEF Next, WorkerStep, CallStep, OwnerCall, OwnerStep

(* To the code that hands it work the pool is a FIFO queue that starts     *)
(* every accepted task once, or discards it while nothing runs.            *)
THEOREM PoolImplementsWorkQueue == Spec => ImplementsWorkQueue
<1>1. Spec => []TaskInv
  BY TaskInit, TaskStep, ControlCorrect, PTL DEF Spec
<1> QED
  BY <1>1, ControlCorrect, QueueInit, QueueStep, PTL
  DEF Spec, ImplementsWorkQueue, Queue!Spec

-----------------------------------------------------------------------------
(* A missed sleeper stays missed.                                          *)

LEMMA HungJoin ==
  TypeInv /\ ControlInv /\ JoinInv /\ Hung => ~JoinThrows /\ ~JoinReturns
<1> SUFFICES ASSUME TypeInv, ControlInv, JoinInv, Hung
             PROVE  ~JoinThrows /\ ~JoinReturns
  OBVIOUS
<1>1. PICK w \in Thread : pc[w] = "waiting"
  BY DEF Hung
<1>2. joinable[w] /\ w \in Nat /\ w <= poolSize /\ ~(w < own.n)
  BY <1>1, ThreadIndex DEF ControlInv, Hung
<1>3. own.n \in Nat /\ poolSize \in Nat
  BY DEF TypeInv, TypeOK
<1>4. own.n <= w /\ own.n <= poolSize /\ w \in own.n .. poolSize
  BY <1>2, <1>3
<1>5. own.n \in own.n .. poolSize
  BY <1>3, <1>4
<1>6. joinable[own.n]
  BY <1>2, <1>4, <1>5 DEF JoinInv, Hung
<1>7. ~JoinThrows
  BY <1>6 DEF JoinThrows
<1>8. ~(own.n > poolSize)
  BY <1>3, <1>4
<1> QED
  BY <1>7, <1>8 DEF JoinReturns

LEMMA HungStep ==
  TypeInv /\ ControlInv /\ JoinInv /\ [Next]_vars /\ Hung
    => Hung' \/ \E w \in Thread : SpuriousWakeup(w)
<1> SUFFICES ASSUME TypeInv, ControlInv, JoinInv, [Next]_vars, Hung
             PROVE  Hung' \/ \E w \in Thread : SpuriousWakeup(w)
  OBVIOUS
<1> USE ThreadPoolAssumption
    DEF TypeInv, TypeOK, Hung, Alive, poolVars, workerVars, callVars, Callers
<1>1. ASSUME NEW v \in Thread, WorkerLoop(v) PROVE Hung' \/ \E w \in Thread : SpuriousWakeup(w)
  BY <1>1 DEF WorkerLoop, Goto
<1>2. ASSUME NEW v \in Thread, WorkerAcquire(v) PROVE Hung' \/ \E w \in Thread : SpuriousWakeup(w)
  BY <1>2 DEF WorkerAcquire, Goto
<1>3. ASSUME NEW v \in Thread, WorkerEnroll(v) PROVE Hung' \/ \E w \in Thread : SpuriousWakeup(w)
  BY <1>3 DEF WorkerEnroll, Goto
<1>4. ASSUME NEW v \in Thread, SpuriousWakeup(v) PROVE Hung' \/ \E w \in Thread : SpuriousWakeup(w)
  BY <1>4
<1>5. ASSUME NEW v \in Thread, WorkerReturn(v) PROVE Hung' \/ \E w \in Thread : SpuriousWakeup(w)
  BY <1>5 DEF WorkerReturn, Goto
<1>6. ASSUME NEW v \in Thread, WorkerPop(v) PROVE Hung' \/ \E w \in Thread : SpuriousWakeup(w)
  BY <1>6 DEF WorkerPop, Goto
<1>7. ASSUME NEW v \in Thread, WorkerPopEmpty(v) PROVE Hung' \/ \E w \in Thread : SpuriousWakeup(w)
  BY <1>7 DEF WorkerPopEmpty
<1>8. ASSUME NEW v \in Thread, WorkerDone(v) PROVE Hung' \/ \E w \in Thread : SpuriousWakeup(w)
  BY <1>8 DEF WorkerDone, Goto
<1>9. ASSUME NEW c \in Callers, NEW t \in Tasks, AddTaskCheck(c, t) PROVE Hung' \/ \E w \in Thread : SpuriousWakeup(w)
  BY <1>9 DEF AddTaskCheck, MayCall
<1>10. ASSUME NEW c \in Callers, AddTaskPush(c) PROVE Hung' \/ \E w \in Thread : SpuriousWakeup(w)
  BY <1>10 DEF AddTaskPush
<1>11. ASSUME NEW c \in Callers, AddTaskNotify(c) PROVE Hung' \/ \E w \in Thread : SpuriousWakeup(w)
  BY <1>11 DEF AddTaskNotify
<1>12. CASE StopThreads
  BY <1>12 DEF StopThreads, OwnerBegin, OwnerFree
<1>13. ASSUME NEW n \in ThreadCounts, StartThreads(n) PROVE Hung' \/ \E w \in Thread : SpuriousWakeup(w)
  BY <1>13 DEF StartThreads, OwnerBegin, OwnerFree
<1>14. CASE JoinThreads
  BY <1>14 DEF JoinThreads, OwnerBegin, OwnerFree
<1>15. CASE ResetJob
  BY <1>15 DEF ResetJob, OwnerBegin, OwnerFree
<1>16. CASE DestroyPool
  BY <1>16 DEF DestroyPool, OwnerBegin, OwnerFree
<1>17. CASE JoinOne
  BY <1>17 DEF JoinOne
<1>18. CASE JoinThrows
  BY <1>18, HungJoin
<1>19. CASE JoinReturns
  BY <1>19, HungJoin
<1>20. CASE SwapQueue
  BY <1>20 DEF SwapQueue
<1>21. CASE SwapQueueRace
  BY <1>21 DEF SwapQueueRace
<1>22. CASE ConfigureThreadPool
  BY <1>22 DEF ConfigureThreadPool, Idle
<1>23. CASE UNCHANGED vars
  BY <1>23 DEF vars
<1> QED
  BY <1>1, <1>2, <1>3, <1>4, <1>5, <1>6, <1>7, <1>8, <1>9, <1>10, <1>11,
     <1>12, <1>13, <1>14, <1>15, <1>16, <1>17, <1>18, <1>19, <1>20, <1>21,
     <1>22, <1>23
  DEF Next, WorkerStep, CallStep, OwnerCall, OwnerStep

(* Once the owner waits for a worker that sleeps unnotified, nothing but a *)
(* spurious wake-up ends the wait: no task that still runs can.            *)
THEOREM HangIsFinal == Spec => HungUntilSpurious
<1>1. Spec => []JoinInv
  BY JoinInit, JoinStep, ControlCorrect, PTL DEF Spec
<1>2. TypeInv /\ ControlInv /\ JoinInv /\ [Next]_vars
        => [Hung => Hung' \/ \E w \in Thread : SpuriousWakeup(w)]_vars
  BY HungStep
<1> QED
  BY <1>1, <1>2, ControlCorrect, PTL DEF Spec, HungUntilSpurious
-----------------------------------------------------------------------------
(* The pool as Server uses it: threads are only reset, joined and          *)
(* destroyed, and nobody outside but the owner adds tasks.  The flag is    *)
(* then raised during a reset and from the destructor on, no thread leaves *)
(* its loop at any other time, and every thread of the pool can be joined  *)
(* until that join has come to it.                                         *)

ServerUse == OwnerOps \subseteq {"join", "reset", "destroy"} /\ Submitters \subseteq {Owner}

UseInv ==
  /\ crash = "no"
  /\ \/ own.at = "idle"
     \/ own.at = "join" /\ own.op \in {"join", "reset", "destroy"}
     \/ own.at \in {"swap", "configure"} /\ own.op = "reset"
     \/ own.at = "destroyed"
  /\ own.at # "idle" => \A s \in Submitters : call[s] = "idle"
  /\ terminate => own.at = "destroyed" \/ (own.at = "join" /\ own.op # "join")
  /\ own.at = "join" /\ own.op = "join" => own.n = 1
  /\ \A w \in Thread : pc[w] = "exited" => terminate \/ ~joinable[w]
  /\ own.at = "idle" => \A w \in 1 .. poolSize : joinable[w]
  /\ own.at = "join" => own.n # 0 /\ \A w \in own.n .. poolSize : joinable[w]
  /\ own.at = "configure" => \A w \in Thread : ~joinable[w]

LEMMA UseInit == Init => UseInv
<1> SUFFICES ASSUME Init PROVE UseInv
  OBVIOUS
<1>1. own.at = "idle"
  BY DEF Init, Idle
<1>2. \A w \in 1 .. poolSize : w \in Thread /\ w <= InitThreads
  BY ThreadPoolAssumption DEF Init, Thread
<1>3. \A w \in 1 .. poolSize : joinable[w]
  BY <1>2 DEF Init
<1>4. \A w \in Thread : pc[w] # "exited"
  BY DEF Init
<1>5. crash = "no" /\ ~terminate
  BY DEF Init
<1> QED
  BY <1>1, <1>3, <1>4, <1>5 DEF UseInv

(* A step that leaves the owner, the threads and the flag as they are, and *)
(* the owner out of AddTask while it is in an operation                    *)
LEMMA UseKept ==
  ASSUME UseInv, UNCHANGED <<own, joinable, poolSize, terminate, crash>>,
         \A w \in Thread : pc'[w] = "exited" => terminate \/ pc[w] = "exited",
         own.at # "idle" => \A s \in Submitters : call'[s] = "idle"
  PROVE  UseInv'
BY DEF UseInv

LEMMA UseStep ==
  ASSUME ServerUse, TypeInv, ControlInv, TakeFindsWork, UseInv, [Next]_vars
  PROVE  UseInv'
<1> USE DEF poolVars, workerVars, callVars
<1>0. /\ pc \in [Thread -> WorkerPC] /\ call \in [Callers -> CallPC]
      /\ joinable \in [Thread -> BOOLEAN]
      /\ own \in [at : OwnerPC, op : OwnerOp, n : 0 .. MaxThreads + 1]
      /\ poolSize \in 0 .. MaxThreads /\ MaxThreads \in Nat /\ terminate \in BOOLEAN
  BY ThreadPoolAssumption DEF TypeInv, TypeOK
<1>1. \A s \in Submitters : s = Owner /\ s \in Callers /\ s \notin Thread
  BY ThreadPoolAssumption DEF ServerUse, Callers
<1>2. own.at # "idle" => \A s \in Submitters : call[s] = "idle"
  BY DEF UseInv
<1>3. \A w \in 1 .. poolSize : w \in Thread
  BY <1>0 DEF Thread
<1>4. ASSUME NEW v \in Thread, WorkerStep(v) \/ SpuriousWakeup(v) PROVE UseInv'
  <2>1. CASE WorkerPopEmpty(v)
    BY <2>1 DEF WorkerPopEmpty, TakeFindsWork, UseInv
  <2>2. CASE ~ WorkerPopEmpty(v)
    <3>1. UNCHANGED <<own, joinable, poolSize, terminate, crash, call>>
      BY <1>4, <2>2 DEF WorkerStep, WorkerLoop, WorkerAcquire, WorkerEnroll, WorkerReturn,
                        WorkerPop, WorkerDone, SpuriousWakeup
    <3>2. \A w \in Thread : pc'[w] = "exited" => terminate \/ pc[w] = "exited"
      BY <1>0, <1>4, <2>2 DEF WorkerStep, WorkerLoop, WorkerAcquire, WorkerEnroll, WorkerReturn,
                        WorkerPop, WorkerDone, SpuriousWakeup, Goto
    <3> QED
      BY <1>2, <3>1, <3>2, UseKept
  <2> QED
    BY <2>1, <2>2
<1>5. ASSUME NEW c \in Callers, NEW t \in Tasks, AddTaskCheck(c, t) PROVE UseInv'
  <2>1. UNCHANGED <<own, joinable, poolSize, terminate, crash, pc>>
    BY <1>5 DEF AddTaskCheck
  <2>2. own.at # "idle" => c # Owner
    BY <1>5 DEF AddTaskCheck, MayCall
  <2>3. \A d \in Callers : d # c => call'[d] = call[d]
    BY <1>0, <1>5 DEF AddTaskCheck
  <2> QED
    BY <1>1, <1>2, <2>1, <2>2, <2>3, UseKept
<1>6. ASSUME NEW c \in Callers, AddTaskPush(c) \/ AddTaskNotify(c) PROVE UseInv'
  <2>1. UNCHANGED <<own, joinable, poolSize, terminate, crash>>
    BY <1>6 DEF AddTaskPush, AddTaskNotify
  <2>2. \A w \in Thread : pc'[w] = "exited" => pc[w] = "exited"
    BY <1>0, <1>6 DEF AddTaskPush, AddTaskNotify
  <2>3. \A d \in Callers : d # c => call'[d] = call[d]
    BY <1>0, <1>6 DEF AddTaskPush, AddTaskNotify
  <2>4. call[c] # "idle"
    BY <1>6 DEF AddTaskPush, AddTaskNotify
  <2> QED
    BY <1>1, <1>2, <2>1, <2>2, <2>3, <2>4, UseKept
<1>7. ~ StopThreads /\ \A n \in ThreadCounts : ~ StartThreads(n)
  BY DEF ServerUse, StopThreads, StartThreads, OwnerBegin
<1>8. ASSUME JoinThreads \/ ResetJob \/ DestroyPool PROVE UseInv'
  <2>1. /\ UNCHANGED <<joinable, poolSize, crash, pc, call>>
        /\ own'.at = "join" /\ own'.n = 1 /\ own'.op \in {"join", "reset", "destroy"}
        /\ own.at = "idle" /\ (Owner \in Submitters => call[Owner] = "idle")
    BY <1>8 DEF JoinThreads, ResetJob, DestroyPool, OwnerBegin, OwnerFree
  <2>2. own'.op = "join" => terminate' = terminate
    BY <1>8 DEF JoinThreads, ResetJob, DestroyPool
  <2>3. terminate => terminate'
    BY <1>8 DEF JoinThreads, ResetJob, DestroyPool
  <2> QED
    BY <1>1, <2>1, <2>2, <2>3 DEF UseInv
<1>9. ASSUME JoinOne PROVE UseInv'
  <2>1. /\ UNCHANGED <<terminate, poolSize, crash, pc, call>>
        /\ own.at = "join" /\ own.n <= poolSize /\ joinable[own.n] /\ pc[own.n] = "exited"
        /\ joinable' = [joinable EXCEPT ![own.n] = FALSE]
        /\ own' = [own EXCEPT !.n = own.n + 1]
    BY <1>9 DEF JoinOne
  <2>2. own.n \in 1 .. poolSize
    <3>1. own.n \in 0 .. MaxThreads + 1 /\ own.n # 0
      BY <1>0, <2>1 DEF UseInv
    <3> QED
      BY <1>0, <2>1, <3>1
  <2>3. own'.n = own.n + 1 /\ own'.at = "join" /\ own'.op = own.op
    BY <1>0, <2>1
  <2>4. \A w \in Thread : joinable'[w] <=> joinable[w] /\ w # own.n
    BY <1>0, <2>1
  <2>5. terminate /\ own.op # "join"
    BY <1>3, <2>1, <2>2 DEF UseInv
  <2>6. own'.n # 0 /\ \A w \in own'.n .. poolSize : joinable'[w]
    BY <1>0, <1>3, <2>1, <2>2, <2>3, <2>4 DEF UseInv
  <2> QED
    BY <2>1, <2>3, <2>4, <2>5, <2>6 DEF UseInv
<1>10. ~ JoinThrows
  <2> SUFFICES ASSUME JoinThrows PROVE FALSE
    OBVIOUS
  <2>1. own.at = "join" /\ own.n <= poolSize /\ ~ joinable[own.n]
    BY DEF JoinThrows
  <2>2. own.n \in own.n .. poolSize
    BY <1>0, <2>1
  <2> QED
    BY <2>1, <2>2 DEF UseInv
<1>11. ASSUME JoinReturns PROVE UseInv'
  <2>1. /\ UNCHANGED <<joinable, poolSize, crash, pc, call>>
        /\ own.at = "join" /\ own.n > poolSize
        /\ terminate' = IF own.op = "reset" THEN FALSE ELSE terminate
    BY <1>11 DEF JoinReturns
  <2>2. \A w \in Thread : ~ joinable[w]
    <3>1. \A w \in Thread : joinable[w] => w <= poolSize
      BY DEF ControlInv
    <3>2. \A w \in Thread : w <= poolSize => w < own.n
      BY <1>0, <2>1, ThreadIndex
    <3> QED
      BY <2>1, <3>1, <3>2 DEF ControlInv
  <2>3. CASE own.op = "reset"
    <3>1. own' = [own EXCEPT !.at = "swap"]
      BY <1>11, <2>3 DEF JoinReturns
    <3>2. own'.at = "swap" /\ own'.op = "reset"
      BY <1>0, <2>3, <3>1
    <3> QED
      BY <2>1, <2>2, <2>3, <3>2 DEF UseInv
  <2>4. CASE own.op = "destroy"
    <3>1. own' = [own EXCEPT !.at = "destroyed"]
      BY <1>11, <2>4 DEF JoinReturns
    <3>2. own'.at = "destroyed"
      BY <1>0, <3>1
    <3> QED
      BY <2>1, <2>2, <2>4, <3>2 DEF UseInv
  <2>5. CASE own.op = "join"
    <3>1. own'.at = "idle"
      BY <1>11, <2>5 DEF JoinReturns, Idle
    <3>2. own.n = 1 /\ ~ terminate
      BY <2>1, <2>5 DEF UseInv
    <3>3. \A w \in 1 .. poolSize : FALSE
      BY <1>0, <2>1, <3>2
    <3> QED
      BY <2>1, <2>2, <2>5, <3>1, <3>2, <3>3 DEF UseInv
  <2> QED
    BY <2>1, <2>3, <2>4, <2>5 DEF UseInv
<1>12. ASSUME SwapQueue PROVE UseInv'
  <2>1. /\ UNCHANGED <<terminate, joinable, poolSize, crash, pc, call>>
        /\ own.at = "swap" /\ own' = [own EXCEPT !.at = "configure", !.n = poolSize]
    BY <1>12 DEF SwapQueue
  <2>2. own'.at = "configure" /\ own'.op = own.op
    BY <1>0, <2>1
  <2>3. \A w \in Thread : ~ joinable[w]
    BY <2>1 DEF ControlInv
  <2> QED
    BY <2>1, <2>2, <2>3 DEF UseInv
<1>13. ~ SwapQueueRace
  BY <1>2 DEF SwapQueueRace
<1>14. ASSUME ConfigureThreadPool PROVE UseInv'
  <2>1. own.at = "configure" /\ \A w \in Thread : ~ joinable[w]
    BY <1>14 DEF ConfigureThreadPool, UseInv
  <2>2. /\ pc' = [w \in Thread |-> IF w <= own.n THEN "loop" ELSE "none"]
        /\ joinable' = [w \in Thread |-> w <= own.n]
        /\ poolSize' = own.n /\ own' = Idle
        /\ UNCHANGED <<terminate, crash, call>>
    BY <1>14, <2>1 DEF ConfigureThreadPool
  <2>3. own'.at = "idle" /\ own.n <= MaxThreads /\ own.n \in Nat
    BY <1>0, <2>1, <2>2 DEF Idle, TypeInv
  <2>4. \A w \in 1 .. own.n : w \in Thread /\ w <= own.n
    BY <1>0, <2>3 DEF Thread
  <2>5. \A w \in 1 .. poolSize' : joinable'[w]
    BY <2>2, <2>4
  <2>6. \A w \in Thread : pc'[w] # "exited"
    BY <2>2
  <2> QED
    BY <2>1, <2>2, <2>3, <2>5, <2>6 DEF UseInv
<1>15. CASE UNCHANGED vars
  <2>1. UNCHANGED <<own, joinable, poolSize, terminate, crash, pc, call>>
    BY <1>15 DEF vars
  <2> QED
    BY <1>2, <2>1, UseKept
<1> QED
  BY <1>4, <1>5, <1>6, <1>7, <1>8, <1>9, <1>10, <1>11, <1>12, <1>13, <1>14, <1>15
  DEF Next, CallStep, OwnerCall, OwnerStep

(* Used as Server uses it, with any number of threads and tasks, the pool  *)
(* does not kill the process: no double join, no joinable thread destroyed, *)
(* no race on the queue, no pop of an empty queue.                         *)
THEOREM ServerPoolSafe == ASSUME ServerUse PROVE Spec => []NeverCrashes
<1>1. Spec => [](TypeInv /\ ControlInv /\ TakeFindsWork)
  BY ControlCorrect, TakeCorrect, PTL
<1>2. TypeInv /\ ControlInv /\ TakeFindsWork /\ UseInv /\ [Next]_vars => UseInv'
  BY UseStep
<1>3. UseInv => NeverCrashes
  BY DEF UseInv, NeverCrashes
<1> QED
  BY <1>1, <1>2, <1>3, UseInit, PTL DEF Spec
=============================================================================
