----------------------------- MODULE TaskCaller -----------------------------
(***************************************************************************)
(* ConcurrentTasks under the most general owner.  ConcurrentTasks takes     *)
(* &mut self, so its owner makes one call at a time, but which calls it     *)
(* makes, whether it tries again after an error, and whether it drops a     *)
(* call that is suspended at an await (as TimeoutLayer does, and as any     *)
(* user of a future may) is arbitrary.  The tasks finish in any order, with *)
(* any outcome.                                                             *)
(***************************************************************************)
EXTENDS ConcurrentTasks

CONSTANTS
  Input,         \* what the owner submits
  MaxSubmits     \* bound: how many submissions a behaviour has

ASSUME MaxSubmitsAssumption == MaxSubmits \in Nat

VARIABLES
  call,          \* the call the owner is in: "none", "execute" or "next"
  submitted,     \* history: inputs whose execute returned Ok, cleared ones excepted
  delivered,     \* history: outputs returned by next
  unrecoverable  \* history: the owner has been told of an error that is not temporary

callerVars == <<call, submitted, delivered, unrecoverable>>
vars == <<taskVars, callerVars>>

Init ==
  /\ TasksInit
  /\ input \in Input
  /\ call = "none"
  /\ submitted = <<>>
  /\ delivered = <<>>
  /\ unrecoverable = FALSE

-----------------------------------------------------------------------------
CallExecute(i) ==
  /\ call = "none"
  /\ Len(submitted) < MaxSubmits
  /\ StartExecute(i)
  /\ call' = "execute"
  /\ UNCHANGED <<submitted, delivered, unrecoverable>>

ExecuteStep ==
  /\ ExecuteContinues
  /\ UNCHANGED callerVars

ExecuteOk ==
  /\ ExecuteReturnsOk
  /\ call' = "none"
  /\ submitted' = Append(submitted, input)
  /\ UNCHANGED <<delivered, unrecoverable>>

ExecuteErr(o) ==
  /\ ExecuteReturnsErr
  /\ exec = "inline" \/ o = IF errored' THEN "perm" ELSE "temp"
  /\ call' = "none"
  /\ unrecoverable' = (unrecoverable \/ o = "perm")
  /\ UNCHANGED <<submitted, delivered>>

CancelExecute ==
  /\ DropExecute
  /\ call' = "none"
  /\ UNCHANGED <<submitted, delivered, unrecoverable>>

CallNext ==
  /\ call = "none"
  /\ call' = "next"
  /\ UNCHANGED <<taskVars, submitted, delivered, unrecoverable>>

NextOk ==
  /\ call = "next"
  /\ \E r \in Input : NextReturns(r) /\ delivered' = Append(delivered, r)
  /\ call' = "none"
  /\ UNCHANGED <<submitted, unrecoverable>>

NextErr ==
  /\ call = "next"
  /\ NextReturnsErr
  /\ call' = "none"
  /\ unrecoverable' = (unrecoverable \/ errored')
  /\ UNCHANGED <<submitted, delivered>>

NextNone ==
  /\ call = "next"
  /\ NextReturnsNone
  /\ call' = "none"
  /\ UNCHANGED <<submitted, delivered, unrecoverable>>

CancelNext ==
  /\ call = "next"
  /\ NextAwaits
  /\ call' = "none"
  /\ UNCHANGED <<taskVars, submitted, delivered, unrecoverable>>

CallClear ==
  /\ call = "none"
  /\ Clear
  /\ submitted' = delivered
  /\ UNCHANGED <<exec, input, call, delivered, unrecoverable>>

Finish(k, o) ==
  /\ TaskDone(k, o)
  /\ UNCHANGED callerVars

(* The code that runs once the owner polls the call it is in.               *)
CallRuns ==
  \/ ExecuteStep
  \/ ExecuteOk
  \/ \E o \in Errors : ExecuteErr(o)
  \/ NextOk
  \/ NextErr
  \/ NextNone

Next ==
  \/ \E i \in Input : CallExecute(i)
  \/ CallRuns
  \/ CancelExecute
  \/ CallNext
  \/ CancelNext
  \/ CallClear
  \/ \E k \in 1..Concurrent, o \in Outcomes : Finish(k, o)

(* The executor must keep every spawned future moving, as the documentation *)
(* of Execute requires, and the owner polls the call it is in.  Whether a   *)
(* call is ever made, cancelled or repeated is not assumed.                 *)
Fairness ==
  /\ WF_vars(CallRuns)
  /\ \A k \in 1..Concurrent : WF_vars(\E o \in Outcomes : Finish(k, o))

Spec == Init /\ [][Next]_vars
FairSpec == Spec /\ Fairness

-----------------------------------------------------------------------------
(* Every variable has its type, and the queue is never longer than the      *)
(* capacity given to ConcurrentTasks::new.                                  *)
TypeOK ==
  /\ tasks \in Seq(Tasks(Input))
  /\ Len(tasks) <= Concurrent
  /\ results \in Seq(Input)
  /\ errored \in BOOLEAN
  /\ exec \in {"none", "poll", "await", "inline"}
  /\ input \in Input
  /\ call \in {"none", "execute", "next"}
  /\ submitted \in Seq(Input)
  /\ delivered \in Seq(Input)
  /\ unrecoverable \in BOOLEAN

(* The k-th input that ConcurrentTasks still holds: the results come first, *)
(* then the tasks.                                                          *)
Held(k) ==
  IF k <= Len(results) THEN results[k] ELSE tasks[k - Len(results)].input

HeldLen == Len(results) + Len(tasks)

(* `next` returns exactly what `execute` accepted, in the order in which it *)
(* was accepted and each once, whatever the order in which tasks finish,    *)
(* fail, are retried and in which calls are dropped: what was delivered is  *)
(* the beginning of what was submitted, and until an unrecoverable error    *)
(* the rest is what results and tasks hold, in order.                       *)
FifoExactlyOnce ==
  /\ Len(delivered) <= Len(submitted)
  /\ \A k \in 1..Len(delivered) : delivered[k] = submitted[k]
  /\ ~errored =>
       /\ Len(submitted) = Len(delivered) + HeldLen
       /\ \A k \in 1..HeldLen : Held(k) = submitted[Len(delivered) + k]

(* The same with never more tasks at a time than the option allows: the     *)
(* loop of execute makes room before it pushes.                             *)
FifoWithinLimit == FifoExactlyOnce /\ Len(tasks) <= Concurrent

(* After an unrecoverable error of a background task ConcurrentTasks stays  *)
(* silent for good: no clear, call or late task gets anything out of it or  *)
(* into it any more.                                                        *)
ErrorIsFinal ==
  [][errored => /\ errored'
                /\ tasks' = <<>>
                /\ results' = <<>>
                /\ delivered' = delivered
                /\ (submitted' = submitted \/ submitted' = delivered)]_vars

(* Every call of execute or next returns (or is dropped): in particular the *)
(* loop of execute, which goes round again after the task it waited for,    *)
(* comes to an end.                                                         *)
EveryCallReturns == (call # "none") ~> (call = "none")

(* The field `errored`: "If concurrent tasks hit an unrecoverable error, it *)
(* will stop executing new tasks and return an unrecoverable error to       *)
(* users."                                                                  *)
StopsAfterUnrecoverable ==
  [][unrecoverable => Len(submitted') <= Len(submitted)]_vars

Queue == INSTANCE OrderedQueue WITH
  pending <- [k \in 1..HeldLen |-> Held(k)],
  broken <- errored

(* ConcurrentTasks implements an ordered queue that may break.              *)
ImplementsQueue == Queue!Spec

=============================================================================
