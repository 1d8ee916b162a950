-------------------------- MODULE ConcurrentTasks --------------------------
(***************************************************************************)
(* ConcurrentTasks of core/src/raw/futures_util.rs: the ordered queue of    *)
(* background tasks under the multipart, block and position writers and the *)
(* chunked reader.                                                          *)
(*                                                                          *)
(* A task is identified with its input, and the output of a task that       *)
(* succeeds with that input.  The tasks run in the background, so a task    *)
(* finishes at any time (TaskDone) but is only looked at by a call of the   *)
(* owner, and only at the front of the queue.                               *)
(*                                                                          *)
(* This module has no specification of its own.  Its actions constrain      *)
(* taskVars only; the modules that extend it say who calls them.  A call of *)
(* `execute` starts with StartExecute and runs through ExecuteContinues to  *)
(* ExecuteReturnsOk or ExecuteReturnsErr; the places where it is suspended  *)
(* at an await, and so may be dropped by its caller, are the values         *)
(* "await" and "inline" of exec.  `next` has one await and no state.        *)
(*                                                                          *)
(* The definitions named ...Mutant are wrong on purpose: plausible mistakes *)
(* in the code, each of which a property must notice.                       *)
(***************************************************************************)
EXTENDS Naturals, Sequences

CONSTANT Concurrent   \* the argument `concurrent` of `new`, the capacity of both deques

ASSUME ConcurrentAssumption == Concurrent \in Nat

VARIABLES
  tasks,      \* the queue of running or finished tasks, not yet looked at
  results,    \* the outputs taken from the front of the queue
  errored,    \* an unrecoverable error was hit
  exec,       \* where the current call of `execute` is, "none" if there is none
  input       \* the argument of that call

taskVars == <<tasks, results, errored, exec, input>>

Errors == {"temp", "perm"}              \* err.is_temporary() or not
Outcomes == {"ok"} \cup Errors

Tasks(I) == [input : I, state : {"running"} \cup Outcomes]

Spawn(i) == [input |-> i, state |-> "running"]

FrontIs(s) == tasks # <<>> /\ Head(tasks).state = s

IsConcurrent == Concurrent > 1
HasRemainingMutant == Len(tasks) <= Concurrent
HasRemaining == Len(tasks) < Concurrent

TasksInit ==
  /\ tasks = <<>>
  /\ results = <<>>
  /\ errored = FALSE
  /\ exec = "none"

-----------------------------------------------------------------------------
(* The executor runs every queued task; the k-th one resolves with o.       *)

TaskDone(k, o) ==
  /\ k \in DOMAIN tasks
  /\ tasks[k].state = "running"
  /\ tasks' = [tasks EXCEPT ![k].state = o]
  /\ UNCHANGED <<results, errored, exec, input>>

-----------------------------------------------------------------------------
(* What the owner does with the front task once it has been seen ready.     *)

ClearMutant ==          \* a cleared queue may be used again
  /\ tasks' = <<>>
  /\ results' = <<>>
  /\ errored' = FALSE

(* `clear` drops, and so cancels, every task.  It does not reset errored.   *)
Clear ==
  /\ tasks' = <<>>
  /\ results' = <<>>
  /\ UNCHANGED errored

RetryFrontMutant ==     \* the input is queued again behind the other tasks
  /\ FrontIs("temp")
  /\ tasks' = Append(Tail(tasks), Spawn(Head(tasks).input))
  /\ UNCHANGED <<results, errored>>

(* A temporary error: the same input runs again in the same place.          *)
RetryFront ==
  /\ FrontIs("temp")
  /\ tasks' = [tasks EXCEPT ![1] = Spawn(@.input)]
  /\ UNCHANGED <<results, errored>>

(* Any other error: all tasks and all results are dropped for good.         *)
FailAll ==
  /\ FrontIs("perm")
  /\ tasks' = <<>>
  /\ results' = <<>>
  /\ errored' = TRUE

-----------------------------------------------------------------------------
(* execute(i) *)

StartExecute(i) ==
  /\ exec = "none"
  /\ exec' = "poll"
  /\ input' = i
  /\ UNCHANGED <<tasks, results, errored>>

ExecuteRefused ==
  /\ exec = "poll"
  /\ errored
  /\ exec' = "none"
  /\ UNCHANGED <<tasks, results, errored, input>>

(* Not concurrent: the task runs inside the call.                           *)
RunInline ==
  /\ exec = "poll"
  /\ ~errored
  /\ ~IsConcurrent
  /\ exec' = "inline"
  /\ UNCHANGED <<tasks, results, errored, input>>

InlineOkMutant ==       \* the output of an inline task is not kept
  /\ exec = "inline"
  /\ exec' = "none"
  /\ UNCHANGED <<tasks, results, errored, input>>

InlineOk ==
  /\ exec = "inline"
  /\ results' = Append(results, input)
  /\ exec' = "none"
  /\ UNCHANGED <<tasks, errored, input>>

InlineErr ==
  /\ exec = "inline"
  /\ exec' = "none"
  /\ UNCHANGED <<tasks, results, errored, input>>

(* Concurrent: poll the front task once, then push the new one if there is  *)
(* room.  A front task that succeeded leaves the queue and makes room.      *)
Polling ==
  /\ exec = "poll"
  /\ ~errored
  /\ IsConcurrent

PushTaskMutant ==       \* the output of the polled task is not kept
  /\ Polling
  /\ \/ FrontIs("ok") /\ tasks' = Append(Tail(tasks), Spawn(input))
     \/ /\ tasks = <<>> \/ FrontIs("running")
        /\ HasRemaining
        /\ tasks' = Append(tasks, Spawn(input))
  /\ exec' = "none"
  /\ UNCHANGED <<results, errored, input>>

PushTask ==
  /\ Polling
  /\ \/ /\ FrontIs("ok")
        /\ tasks' = Append(Tail(tasks), Spawn(input))
        /\ results' = Append(results, Head(tasks).input)
     \/ /\ tasks = <<>> \/ FrontIs("running")
        /\ HasRemaining
        /\ tasks' = Append(tasks, Spawn(input))
        /\ UNCHANGED results
  /\ exec' = "none"
  /\ UNCHANGED <<errored, input>>

(* No room: wait for the front task.                                        *)
WaitForFront ==
  /\ Polling
  /\ FrontIs("running")
  /\ ~HasRemaining
  /\ exec' = "await"
  /\ UNCHANGED <<tasks, results, errored, input>>

AwaitedOkMutant ==      \* wait for the next front task instead of pushing
  /\ exec = "await"
  /\ FrontIs("ok")
  /\ tasks' = Tail(tasks)
  /\ results' = Append(results, Head(tasks).input)
  /\ UNCHANGED <<errored, exec, input>>

(* The awaited task succeeded: back to the top of the loop, without a pause. *)
AwaitedOk ==
  /\ exec = "await"
  /\ FrontIs("ok")
  /\ tasks' = Tail(tasks)
  /\ results' = Append(results, Head(tasks).input)
  /\ exec' = "poll"
  /\ UNCHANGED <<errored, input>>

(* The polled or awaited front task failed: the call fails with its error.  *)
FrontFailed ==
  /\ Polling \/ exec = "await"
  /\ RetryFront \/ FailAll
  /\ exec' = "none"
  /\ UNCHANGED input

ExecuteContinues == RunInline \/ WaitForFront \/ AwaitedOk
ExecuteReturnsOk == InlineOk \/ PushTask
ExecuteReturnsErr == ExecuteRefused \/ InlineErr \/ FrontFailed

(* The caller drops the future of `execute` while it is suspended.  Nothing *)
(* has been taken from the queue; a task that runs inline is cancelled.     *)
DropExecute ==
  /\ exec \in {"await", "inline"}
  /\ exec' = "none"
  /\ UNCHANGED <<tasks, results, errored, input>>

-----------------------------------------------------------------------------
(* next() *)

NextReturns(r) ==
  /\ ~errored
  /\ \/ /\ results # <<>>
        /\ r = Head(results)
        /\ results' = Tail(results)
        /\ UNCHANGED tasks
     \/ /\ results = <<>>
        /\ FrontIs("ok")
        /\ r = Head(tasks).input
        /\ tasks' = Tail(tasks)
        /\ UNCHANGED results
  /\ UNCHANGED <<errored, exec, input>>

NextReturnsErr ==
  /\ \/ errored /\ UNCHANGED <<tasks, results, errored>>
     \/ ~errored /\ results = <<>> /\ (RetryFront \/ FailAll)
  /\ UNCHANGED <<exec, input>>

NextReturnsNone ==
  /\ ~errored
  /\ results = <<>>
  /\ tasks = <<>>
  /\ UNCHANGED taskVars

(* The call of `next` is suspended on the front task.                       *)
NextAwaits ==
  /\ ~errored
  /\ results = <<>>
  /\ tasks # <<>>
=============================================================================
