------------------------------ MODULE WorkQueue ------------------------------
(***************************************************************************)
(* What NetworkThreadPool (TCP/inc/header.h, TCP/src/sourse.cpp) promises  *)
(* to the code that hands it work, with threads, mutex and condition       *)
(* variable left out: a task is refused or accepted, accepted tasks start  *)
(* one by one in the order they were accepted, a started task finishes,    *)
(* and accepted tasks are thrown away only all at once and only while no   *)
(* task runs.  ThreadPool is shown to implement this module.               *)
(***************************************************************************)
EXTENDS Sequences

CONSTANT Tasks          \* the work items callers may submit, each once

VARIABLES pending,      \* accepted tasks that have not started, oldest first
          state         \* [Tasks -> TaskState]

vars == <<pending, state>>

TaskState == {"new", "refused", "queued", "running", "done", "dropped"}

TypeOK ==
  /\ pending \in Seq(Tasks)
  /\ state \in [Tasks -> TaskState]

Init ==
  /\ pending = <<>>
  /\ state = [t \in Tasks |-> "new"]

(* AddTask on a pool that is shutting down drops the task silently. *)
Refuse(t) ==
  /\ state[t] = "new"
  /\ state' = [state EXCEPT ![t] = "refused"]
  /\ UNCHANGED pending

Accept(t) ==
  /\ state[t] = "new"
  /\ state' = [state EXCEPT ![t] = "queued"]
  /\ pending' = Append(pending, t)

(* Some thread takes the oldest accepted task. *)
Start ==
  /\ pending # <<>>
  /\ state' = [state EXCEPT ![Head(pending)] = "running"]
  /\ pending' = Tail(pending)

Finish(t) ==
  /\ state[t] = "running"
  /\ state' = [state EXCEPT ![t] = "done"]
  /\ UNCHANGED pending

(* ResetJob: everything pending goes at once, while no task is running. *)
Discard ==
  /\ \A t \in Tasks : state[t] # "running"
  /\ state' = [t \in Tasks |-> IF state[t] = "queued" THEN "dropped" ELSE state[t]]
  /\ pending' = <<>>

Next ==
  \/ \E t \in Tasks : Refuse(t) \/ Accept(t) \/ Finish(t)
  \/ Start
  \/ Discard

Spec == Init /\ [][Next]_vars
==============================================================================
