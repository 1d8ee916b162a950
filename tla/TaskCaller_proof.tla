-------------------------- MODULE TaskCaller_proof --------------------------
(***************************************************************************)
(* ConcurrentTasks delivers what it accepted, in order and once, for every  *)
(* capacity, every set of inputs and every number of submissions.           *)
(***************************************************************************)
EXTENDS TaskCaller, SequenceTheorems, TLAPS

(* What is known besides about the call in progress: a task runs inline     *)
(* only when nothing is concurrent, and then the queue is empty; an errored *)
(* queue is empty, and no call waits on it.                                 *)
CallInv ==
  /\ (exec # "none") <=> (call = "execute")
  /\ exec = "inline" => ~IsConcurrent
  /\ ~IsConcurrent => tasks = <<>>
  /\ errored => tasks = <<>> /\ results = <<>> /\ exec \in {"none", "poll"}

IInv == TypeOK /\ CallInv /\ FifoExactlyOnce

(* What a step does to the inputs the queue holds, the results first: it    *)
(* leaves them alone, adds the input of the call at the end, or takes the   *)
(* first of them, r.                                                        *)
HeldKept ==
  /\ HeldLen \in Nat /\ HeldLen' = HeldLen
  /\ \A k \in 1..HeldLen : Held(k)' = Held(k)

HeldGains ==
  /\ HeldLen \in Nat /\ HeldLen' = HeldLen + 1
  /\ \A k \in 1..HeldLen : Held(k)' = Held(k)
  /\ \A k \in Nat : k = HeldLen + 1 => Held(k)' = input

HeldLoses(r) ==
  /\ HeldLen \in Nat /\ HeldLen > 0 /\ HeldLen' = HeldLen - 1
  /\ r = Held(1)
  /\ \A k \in 1..HeldLen - 1 : Held(k)' = Held(k + 1)

-----------------------------------------------------------------------------
(* The effects on the queue.  Each lemma says what an operation of          *)
(* ConcurrentTasks does to the types and to the inputs the queue holds.     *)

(* A task that finishes stays where it is, with its input.                  *)
LEMMA TaskDoneEffect ==
  ASSUME TypeOK, NEW k, NEW o \in Outcomes, TaskDone(k, o)
  PROVE  /\ tasks' \in Seq(Tasks(Input))
         /\ tasks # <<>>
         /\ Len(tasks') = Len(tasks)
         /\ \A j \in 1..Len(tasks) : tasks'[j].input = tasks[j].input
<1> DEFINE e == [tasks[k] EXCEPT !.state = o]
<1>1. k \in 1..Len(tasks) /\ tasks' = [tasks EXCEPT ![k] = e]
  BY DEF TaskDone, TypeOK
<1>2. tasks[k] \in Tasks(Input)
  BY <1>1 DEF TypeOK
<1>3. e \in Tasks(Input) /\ e.input = tasks[k].input
  BY <1>2 DEF Tasks, Outcomes
<1> HIDE DEF e
<1>4. QED
  BY <1>1, <1>3, ExceptSeq DEF TypeOK

(* A retried task stays at the front, with its input.                       *)
LEMMA RetryFrontEffect ==
  ASSUME TypeOK, RetryFront
  PROVE  /\ tasks' \in Seq(Tasks(Input))
         /\ tasks # <<>>
         /\ Len(tasks') = Len(tasks)
         /\ \A j \in 1..Len(tasks) : tasks'[j].input = tasks[j].input
<1> DEFINE e == Spawn(tasks[1].input)
<1>1. 1 \in 1..Len(tasks) /\ tasks # <<>> /\ tasks[1] \in Tasks(Input)
  BY DEF RetryFront, FrontIs, TypeOK
<1>2. tasks' = [tasks EXCEPT ![1] = e]
  BY <1>1 DEF RetryFront
<1>3. e \in Tasks(Input) /\ e.input = tasks[1].input
  BY <1>1 DEF Tasks, Spawn
<1> HIDE DEF e
<1>4. QED
  BY <1>1, <1>2, <1>3, ExceptSeq DEF TypeOK

(* The front task is a task, and a spawned task is one.                     *)
LEMMA FrontType ==
  ASSUME TypeOK, tasks # <<>>
  PROVE  /\ Head(tasks) \in Tasks(Input)
         /\ Head(tasks).input \in Input
         /\ Head(tasks).input = tasks[1].input
<1>1. tasks \in Seq(Tasks(Input))
  BY DEF TypeOK
<1>2. Head(tasks) = tasks[1] /\ Head(tasks) \in Tasks(Input)
  BY <1>1, HeadTailProperties
<1>3. QED
  BY <1>2 DEF Tasks

(* A new task is a task of the input it is given.                           *)
LEMMA SpawnType ==
  ASSUME NEW i \in Input
  PROVE  Spawn(i) \in Tasks(Input) /\ Spawn(i).input = i
  BY DEF Spawn, Tasks

(* Tasks that keep their inputs and places change nothing that is held.     *)
LEMMA SameHeld ==
  ASSUME TypeOK, UNCHANGED results,
         tasks' \in Seq(Tasks(Input)),
         Len(tasks') = Len(tasks),
         \A j \in 1..Len(tasks) : tasks'[j].input = tasks[j].input
  PROVE  HeldKept
<1>1. Len(tasks) \in Nat /\ Len(results) \in Nat
  BY DEF TypeOK
<1>2. HeldLen' = HeldLen /\ HeldLen \in Nat
  BY <1>1 DEF HeldLen
<1>3. ASSUME NEW k \in 1..HeldLen
      PROVE  Held(k)' = Held(k)
  BY <1>1, <1>3 DEF HeldLen, Held
<1>4. QED
  BY <1>2, <1>3 DEF HeldKept

(* The front task moves to the end of the results: what is held, and in     *)
(* which order, stays the same.                                             *)
LEMMA MoveFront ==
  ASSUME TypeOK, tasks # <<>>,
         tasks' = Tail(tasks),
         results' = Append(results, Head(tasks).input)
  PROVE  HeldKept
<1>1. /\ tasks' \in Seq(Tasks(Input))
      /\ Len(tasks) \in Nat /\ Len(tasks) > 0
      /\ Len(tasks') = Len(tasks) - 1
      /\ \A k \in 1..Len(tasks) - 1 : tasks'[k] = tasks[k + 1]
  BY HeadTailProperties DEF TypeOK
<1>2. /\ Len(results') = Len(results) + 1
      /\ Len(results) \in Nat
      /\ \A k \in 1..Len(results) : results'[k] = results[k]
      /\ results'[Len(results) + 1] = tasks[1].input
  BY FrontType, AppendProperties DEF TypeOK
<1>3. HeldLen' = HeldLen /\ HeldLen \in Nat
  BY <1>1, <1>2 DEF HeldLen
<1>4. ASSUME NEW k \in 1..HeldLen
      PROVE  Held(k)' = Held(k)
  BY <1>1, <1>2, <1>4 DEF HeldLen, Held
<1>5. QED
  BY <1>3, <1>4 DEF HeldKept

(* As long as what is held stays the same, so does the order promised.      *)
LEMMA KeptInOrder ==
  ASSUME FifoExactlyOnce, HeldKept, UNCHANGED <<submitted, delivered, errored>>
  PROVE  FifoExactlyOnce'
  BY DEF FifoExactlyOnce, HeldKept

(* An accepted input joins the end of what is held.                         *)
LEMMA AcceptLast ==
  ASSUME TypeOK, FifoExactlyOnce, HeldGains,
         UNCHANGED <<delivered, errored>>,
         submitted' = Append(submitted, input)
  PROVE  FifoExactlyOnce'
<1> USE DEF HeldGains
<1>1. /\ Len(submitted) \in Nat
      /\ Len(submitted') = Len(submitted) + 1
      /\ \A k \in 1..Len(submitted) : submitted'[k] = submitted[k]
      /\ submitted'[Len(submitted) + 1] = input
  BY AppendProperties DEF TypeOK
<1>2. Len(delivered) \in Nat
  BY DEF TypeOK
<1>3. ASSUME ~errored, NEW k \in 1..HeldLen + 1
      PROVE  Held(k)' = submitted'[Len(delivered) + k]
  <2>1. Len(submitted) = Len(delivered) + HeldLen
    BY <1>3 DEF FifoExactlyOnce
  <2>2. CASE k \in 1..HeldLen
    <3>1. Held(k) = submitted[Len(delivered) + k]
      BY <1>3, <2>2 DEF FifoExactlyOnce
    <3>2. Len(delivered) + k \in 1..Len(submitted)
      BY <1>2, <2>1, <2>2
    <3>3. QED
      BY <1>1, <2>2, <3>1, <3>2
  <2>3. CASE k = HeldLen + 1
    <3>1. Len(delivered) + k = Len(submitted) + 1
      BY <1>2, <2>1, <2>3
    <3>2. QED
      BY <1>1, <2>3, <3>1
  <2>4. k \in 1..HeldLen \/ k = HeldLen + 1
    OBVIOUS
  <2>5. QED
    BY <2>2, <2>3, <2>4
<1>4. Len(delivered') <= Len(submitted')
  BY <1>1, <1>2 DEF FifoExactlyOnce
<1>5. ASSUME NEW k \in 1..Len(delivered')
      PROVE  delivered'[k] = submitted'[k]
  BY <1>1, <1>2, <1>5 DEF FifoExactlyOnce
<1>6. ~errored' => Len(submitted') = Len(delivered') + HeldLen'
  BY <1>1, <1>2 DEF FifoExactlyOnce
<1>7. QED
  BY <1>3, <1>4, <1>5, <1>6 DEF FifoExactlyOnce

(* A new task joins the end of the queue.                                   *)
LEMMA PushBack ==
  ASSUME TypeOK, UNCHANGED results,
         tasks' = Append(tasks, Spawn(input))
  PROVE  HeldGains
<1>1. /\ Len(tasks) \in Nat
      /\ Len(tasks') = Len(tasks) + 1
      /\ \A k \in 1..Len(tasks) : tasks'[k] = tasks[k]
      /\ tasks'[Len(tasks) + 1].input = input
  BY SpawnType, AppendProperties DEF TypeOK
<1>2. Len(results) \in Nat
  BY DEF TypeOK
<1>3. HeldLen' = HeldLen + 1 /\ HeldLen \in Nat
  BY <1>1, <1>2 DEF HeldLen
<1>4. ASSUME NEW k \in 1..HeldLen
      PROVE  Held(k)' = Held(k)
  BY <1>1, <1>2, <1>4 DEF HeldLen, Held
<1>5. ASSUME NEW k \in Nat, k = HeldLen + 1
      PROVE  Held(k)' = input
  BY <1>1, <1>2, <1>5 DEF HeldLen, Held
<1>6. QED
  BY <1>3, <1>4, <1>5 DEF HeldGains

(* A task that runs inline, with nothing queued, adds its output to the     *)
(* results.                                                                 *)
LEMMA AddResult ==
  ASSUME TypeOK, tasks = <<>>, UNCHANGED tasks,
         results' = Append(results, input)
  PROVE  HeldGains
<1>1. /\ Len(results) \in Nat
      /\ Len(results') = Len(results) + 1
      /\ \A k \in 1..Len(results) : results'[k] = results[k]
      /\ results'[Len(results) + 1] = input
  BY AppendProperties DEF TypeOK
<1>2. Len(tasks) = 0
  OBVIOUS
<1>3. HeldLen' = HeldLen + 1 /\ HeldLen \in Nat /\ HeldLen = Len(results)
  BY <1>1, <1>2 DEF HeldLen
<1>4. ASSUME NEW k \in 1..HeldLen
      PROVE  Held(k)' = Held(k)
  BY <1>1, <1>3, <1>4 DEF Held
<1>5. ASSUME NEW k \in Nat, k = HeldLen + 1
      PROVE  Held(k)' = input
  BY <1>1, <1>3, <1>5 DEF Held
<1>6. QED
  BY <1>3, <1>4, <1>5 DEF HeldGains

(* Both at once: the front task moves to the results and a new one joins.   *)
LEMMA MovePush ==
  ASSUME TypeOK, tasks # <<>>,
         tasks' = Append(Tail(tasks), Spawn(input)),
         results' = Append(results, Head(tasks).input)
  PROVE  HeldGains
<1>1. /\ Tail(tasks) \in Seq(Tasks(Input))
      /\ Len(tasks) \in Nat /\ Len(tasks) > 0
      /\ Len(Tail(tasks)) = Len(tasks) - 1
      /\ \A k \in 1..Len(tasks) - 1 : Tail(tasks)[k] = tasks[k + 1]
  BY HeadTailProperties DEF TypeOK
<1>2. /\ Len(tasks') = Len(tasks)
      /\ \A k \in 1..Len(tasks) - 1 : tasks'[k] = tasks[k + 1]
      /\ tasks'[Len(tasks)].input = input
  BY <1>1, SpawnType, AppendProperties DEF TypeOK
<1>3. /\ Len(results') = Len(results) + 1
      /\ Len(results) \in Nat
      /\ \A k \in 1..Len(results) : results'[k] = results[k]
      /\ results'[Len(results) + 1] = tasks[1].input
  BY FrontType, AppendProperties DEF TypeOK
<1>4. HeldLen' = HeldLen + 1 /\ HeldLen \in Nat
  BY <1>1, <1>2, <1>3 DEF HeldLen
<1>5. ASSUME NEW k \in 1..HeldLen
      PROVE  Held(k)' = Held(k)
  BY <1>1, <1>2, <1>3, <1>5 DEF HeldLen, Held
<1>6. ASSUME NEW k \in Nat, k = HeldLen + 1
      PROVE  Held(k)' = input
  BY <1>1, <1>2, <1>3, <1>6 DEF HeldLen, Held
<1>7. QED
  BY <1>4, <1>5, <1>6 DEF HeldGains

(* The first input held is delivered and leaves.                            *)
LEMMA DeliverFirst ==
  ASSUME TypeOK, FifoExactlyOnce, ~errored, NEW r \in Input,
         UNCHANGED <<submitted, errored>>,
         delivered' = Append(delivered, r),
         HeldLoses(r)
  PROVE  FifoExactlyOnce'
<1> USE DEF HeldLoses
<1>1. /\ Len(delivered) \in Nat
      /\ Len(delivered') = Len(delivered) + 1
      /\ \A k \in 1..Len(delivered) : delivered'[k] = delivered[k]
      /\ delivered'[Len(delivered) + 1] = r
  BY AppendProperties DEF TypeOK
<1>2. Len(submitted) \in Nat /\ Len(submitted) = Len(delivered) + HeldLen
  BY DEF TypeOK, FifoExactlyOnce
<1>3. r = submitted[Len(delivered) + 1]
  BY <1>1 DEF FifoExactlyOnce
<1>4. ASSUME NEW k \in 1..Len(delivered')
      PROVE  delivered'[k] = submitted[k]
  BY <1>1, <1>3, <1>4 DEF FifoExactlyOnce
<1>5. ASSUME NEW k \in 1..HeldLen - 1
      PROVE  Held(k)' = submitted[Len(delivered') + k]
  <2>1. k + 1 \in 1..HeldLen
    BY <1>5
  <2>2. Held(k + 1) = submitted[Len(delivered) + (k + 1)]
    BY <2>1 DEF FifoExactlyOnce
  <2>3. Len(delivered) + (k + 1) = Len(delivered') + k
    BY <1>1, <1>5
  <2>4. QED
    BY <1>5, <2>2, <2>3
<1>6. QED
  BY <1>1, <1>2, <1>4, <1>5 DEF FifoExactlyOnce

-----------------------------------------------------------------------------
(* The two ways in which next finds an output. *)

(* next takes the first of the results.                                     *)
LEMMA NextTakesResult ==
  ASSUME TypeOK, results # <<>>, results' = Tail(results), UNCHANGED tasks
  PROVE  /\ HeldLoses(Head(results))
         /\ results' \in Seq(Input)
<1>1. /\ results' \in Seq(Input)
      /\ Len(results) \in Nat /\ Len(results) > 0
      /\ Len(results') = Len(results) - 1
      /\ \A k \in 1..Len(results) - 1 : results'[k] = results[k + 1]
      /\ Head(results) = results[1]
  BY HeadTailProperties DEF TypeOK
<1>2. Len(tasks) \in Nat
  BY DEF TypeOK
<1>3. ASSUME NEW k \in 1..HeldLen - 1
      PROVE  Held(k)' = Held(k + 1)
  BY <1>1, <1>2, <1>3 DEF HeldLen, Held
<1>4. QED
  BY <1>1, <1>2, <1>3 DEF HeldLen, Held, HeldLoses

(* next takes the front task when there are no results.                     *)
LEMMA NextTakesTask ==
  ASSUME TypeOK, results = <<>>, tasks # <<>>, tasks' = Tail(tasks),
         UNCHANGED results
  PROVE  /\ HeldLoses(Head(tasks).input)
         /\ tasks' \in Seq(Tasks(Input)) /\ Len(tasks') <= Concurrent
<1>1. /\ tasks' \in Seq(Tasks(Input))
      /\ Len(tasks) \in Nat /\ Len(tasks) > 0
      /\ Len(tasks') = Len(tasks) - 1
      /\ \A k \in 1..Len(tasks) - 1 : tasks'[k] = tasks[k + 1]
      /\ Head(tasks) = tasks[1]
  BY HeadTailProperties DEF TypeOK
<1>2. Len(results) = 0
  OBVIOUS
<1>3. ASSUME NEW k \in 1..HeldLen - 1
      PROVE  Held(k)' = Held(k + 1)
  BY <1>1, <1>2, <1>3 DEF HeldLen, Held
<1>4. QED
  BY <1>1, <1>2, <1>3, ConcurrentAssumption DEF HeldLen, Held, HeldLoses, TypeOK

(* The queue and its history lose everything, or only the queue does and    *)
(* is errored.                                                              *)
LEMMA EmptyQueue ==
  ASSUME TypeOK, FifoExactlyOnce,
         tasks' = <<>>, results' = <<>>, UNCHANGED delivered,
         \/ submitted' = delivered
         \/ UNCHANGED submitted /\ errored'
  PROVE  FifoExactlyOnce'
<1>1. HeldLen' = 0
  BY DEF HeldLen
<1>2. Len(delivered) \in Nat
  BY DEF TypeOK
<1>3. CASE submitted' = delivered
  BY <1>1, <1>2, <1>3 DEF FifoExactlyOnce
<1>4. CASE UNCHANGED submitted /\ errored'
  BY <1>4 DEF FifoExactlyOnce
<1>5. QED
  BY <1>3, <1>4

-----------------------------------------------------------------------------
(* Every step preserves the inductive invariant, action by action. *)

(* The steps inside execute keep what is held, in order.                    *)
LEMMA ExecuteStepInv ==
  ASSUME IInv, ExecuteStep
  PROVE  IInv'
<1> USE ConcurrentAssumption
<1>1. CASE RunInline
  <2>1. TypeOK' /\ CallInv'
    BY <1>1 DEF IInv, TypeOK, CallInv, RunInline, ExecuteStep, callerVars, IsConcurrent
  <2>2. FifoExactlyOnce'
    BY <1>1, SameHeld, KeptInOrder DEF IInv, TypeOK, RunInline, ExecuteStep, callerVars
  <2>3. QED
    BY <2>1, <2>2 DEF IInv
<1>2. CASE WaitForFront
  <2>1. TypeOK' /\ CallInv'
    BY <1>2 DEF IInv, TypeOK, CallInv, WaitForFront, Polling, ExecuteStep, callerVars,
                IsConcurrent
  <2>2. FifoExactlyOnce'
    BY <1>2, SameHeld, KeptInOrder DEF IInv, TypeOK, WaitForFront, ExecuteStep, callerVars
  <2>3. QED
    BY <2>1, <2>2 DEF IInv
<1>3. CASE AwaitedOk
  <2>1. tasks # <<>>
    BY <1>3 DEF AwaitedOk, FrontIs
  <2>2. /\ tasks' \in Seq(Tasks(Input))
        /\ Len(tasks') <= Concurrent
        /\ results' \in Seq(Input)
    BY <1>3, <2>1, FrontType, HeadTailProperties, AppendProperties DEF AwaitedOk, IInv, TypeOK
  <2>3. TypeOK' /\ CallInv'
    BY <1>3, <2>1, <2>2
    DEF IInv, TypeOK, CallInv, AwaitedOk, ExecuteStep, callerVars, IsConcurrent
  <2>4. FifoExactlyOnce'
    BY <1>3, <2>1, MoveFront, KeptInOrder DEF IInv, AwaitedOk, ExecuteStep, callerVars
  <2>5. QED
    BY <2>3, <2>4 DEF IInv
<1>4. QED
  BY <1>1, <1>2, <1>3 DEF ExecuteStep, ExecuteContinues

(* An execute that returns Ok adds its input at the end of what is held.    *)
LEMMA ExecuteOkInv ==
  ASSUME IInv, ExecuteOk
  PROVE  IInv'
<1> USE ConcurrentAssumption
<1>1. submitted' \in Seq(Input)
  BY AppendProperties DEF IInv, TypeOK, ExecuteOk
<1>2. CASE InlineOk
  <2>1. tasks = <<>> /\ ~errored
    BY <1>2 DEF InlineOk, IInv, CallInv
  <2>2. results' \in Seq(Input)
    BY <1>2, AppendProperties DEF InlineOk, IInv, TypeOK
  <2>3. TypeOK' /\ CallInv'
    BY <1>1, <1>2, <2>1, <2>2 DEF IInv, TypeOK, CallInv, InlineOk, ExecuteOk, IsConcurrent
  <2>4. FifoExactlyOnce'
    BY <1>2, <2>1, AddResult, AcceptLast DEF IInv, InlineOk, ExecuteOk
  <2>5. QED
    BY <2>3, <2>4 DEF IInv
<1>3. CASE PushTask
  <2>1. CASE FrontIs("ok") /\ tasks' = Append(Tail(tasks), Spawn(input))
                           /\ results' = Append(results, Head(tasks).input)
    <3>1. tasks # <<>>
      BY <2>1 DEF FrontIs
    <3>2. Tail(tasks) \in Seq(Tasks(Input)) /\ Len(Tail(tasks)) = Len(tasks) - 1
      BY <3>1, HeadTailProperties DEF IInv, TypeOK
    <3>3. tasks' \in Seq(Tasks(Input)) /\ Len(tasks') <= Concurrent
      BY <2>1, <3>2, SpawnType, AppendProperties DEF IInv, TypeOK
    <3>4. results' \in Seq(Input)
      BY <2>1, <3>1, FrontType, AppendProperties DEF IInv, TypeOK
    <3>5. TypeOK' /\ CallInv'
      BY <1>1, <1>3, <3>3, <3>4
      DEF IInv, TypeOK, CallInv, PushTask, Polling, ExecuteOk, IsConcurrent
    <3>6. FifoExactlyOnce'
      BY <1>3, <2>1, <3>1, MovePush, AcceptLast DEF IInv, PushTask, ExecuteOk
    <3>7. QED
      BY <3>5, <3>6 DEF IInv
  <2>2. CASE HasRemaining /\ tasks' = Append(tasks, Spawn(input)) /\ UNCHANGED results
    <3>1. tasks' \in Seq(Tasks(Input)) /\ Len(tasks') <= Concurrent
      BY <2>2, SpawnType, AppendProperties DEF IInv, TypeOK, HasRemaining
    <3>2. TypeOK' /\ CallInv'
      BY <1>1, <1>3, <2>2, <3>1
      DEF IInv, TypeOK, CallInv, PushTask, Polling, ExecuteOk, IsConcurrent
    <3>3. FifoExactlyOnce'
      BY <1>3, <2>2, PushBack, AcceptLast DEF IInv, PushTask, ExecuteOk
    <3>4. QED
      BY <3>2, <3>3 DEF IInv
  <2>3. QED
    BY <1>3, <2>1, <2>2 DEF PushTask
<1>4. QED
  BY <1>2, <1>3 DEF ExecuteOk, ExecuteReturnsOk

(* What RetryFront and FailAll do to the invariant, in execute or in next.  *)
LEMMA RetryFrontInv ==
  ASSUME IInv, RetryFront, UNCHANGED <<submitted, delivered>>
  PROVE  /\ tasks' \in Seq(Tasks(Input)) /\ Len(tasks') <= Concurrent
         /\ IsConcurrent /\ ~errored' /\ UNCHANGED <<results, errored>>
         /\ FifoExactlyOnce'
<1>1. /\ tasks' \in Seq(Tasks(Input))
      /\ tasks # <<>>
      /\ Len(tasks') = Len(tasks)
      /\ \A j \in 1..Len(tasks) : tasks'[j].input = tasks[j].input
  BY RetryFrontEffect DEF IInv
<1>2. UNCHANGED <<results, errored>>
  BY DEF RetryFront
<1>3. FifoExactlyOnce'
  BY <1>1, <1>2, SameHeld, KeptInOrder DEF IInv
<1>4. IsConcurrent /\ ~errored
  BY <1>1 DEF IInv, CallInv
<1>5. QED
  BY <1>1, <1>2, <1>3, <1>4 DEF IInv, TypeOK

(* An execute that fails adds nothing.                                      *)
LEMMA ExecuteErrInv ==
  ASSUME IInv, NEW o, ExecuteErr(o)
  PROVE  IInv'
<1> USE ConcurrentAssumption
<1>1. unrecoverable' \in BOOLEAN
  BY DEF ExecuteErr
<1>2. CASE ExecuteRefused \/ InlineErr
  <2>1. TypeOK' /\ CallInv'
    BY <1>1, <1>2
    DEF IInv, TypeOK, CallInv, ExecuteErr, ExecuteRefused, InlineErr, IsConcurrent
  <2>2. FifoExactlyOnce'
    BY <1>2, SameHeld, KeptInOrder DEF IInv, TypeOK, ExecuteErr, ExecuteRefused, InlineErr
  <2>3. QED
    BY <2>1, <2>2 DEF IInv
<1>3. CASE FrontFailed /\ RetryFront
  <2>1. UNCHANGED <<submitted, delivered, input>> /\ exec' = "none" /\ call' = "none"
    BY <1>3 DEF ExecuteErr, FrontFailed
  <2>2. /\ tasks' \in Seq(Tasks(Input)) /\ Len(tasks') <= Concurrent
        /\ IsConcurrent /\ ~errored' /\ UNCHANGED <<results, errored>>
        /\ FifoExactlyOnce'
    BY <1>3, <2>1, RetryFrontInv
  <2>3. TypeOK' /\ CallInv'
    BY <1>1, <2>1, <2>2 DEF IInv, TypeOK, CallInv, IsConcurrent
  <2>4. QED
    BY <2>2, <2>3 DEF IInv
<1>4. CASE FrontFailed /\ FailAll
  <2>1. TypeOK' /\ CallInv'
    BY <1>1, <1>4
    DEF IInv, TypeOK, CallInv, ExecuteErr, FrontFailed, FailAll, IsConcurrent
  <2>2. FifoExactlyOnce'
    BY <1>4, EmptyQueue DEF IInv, ExecuteErr, FailAll
  <2>3. QED
    BY <2>1, <2>2 DEF IInv
<1>5. QED
  BY <1>2, <1>3, <1>4 DEF ExecuteErr, ExecuteReturnsErr, FrontFailed

(* Steps that leave the queue and its history alone.                        *)
LEMMA QuietInv ==
  ASSUME IInv, \/ \E i \in Input : CallExecute(i)
               \/ CancelExecute
               \/ CallNext
               \/ NextNone
               \/ CancelNext
               \/ UNCHANGED vars
  PROVE  IInv'
<1>1. UNCHANGED <<tasks, results, errored, submitted, delivered>>
  BY DEF CallExecute, StartExecute, CancelExecute, DropExecute, CallNext, NextNone,
         NextReturnsNone, CancelNext, vars, taskVars, callerVars
<1>2. TypeOK' /\ CallInv'
  BY <1>1 DEF IInv, TypeOK, CallInv, IsConcurrent, CallExecute, StartExecute,
              CancelExecute, DropExecute, CallNext, NextNone, NextReturnsNone,
              CancelNext, vars, taskVars, callerVars
<1>3. FifoExactlyOnce'
  BY <1>1, SameHeld, KeptInOrder DEF IInv, TypeOK
<1>4. QED
  BY <1>2, <1>3 DEF IInv

(* next delivers the first of what is held.                                 *)
LEMMA NextOkInv ==
  ASSUME IInv, NextOk
  PROVE  IInv'
<1> USE ConcurrentAssumption
<1>1. PICK r \in Input : NextReturns(r) /\ delivered' = Append(delivered, r)
  BY DEF NextOk
<1>2. delivered' \in Seq(Input)
  BY <1>1, AppendProperties DEF IInv, TypeOK
<1>3. CASE results # <<>> /\ r = Head(results) /\ results' = Tail(results) /\ UNCHANGED tasks
  <2>1. /\ HeldLoses(Head(results))
        /\ results' \in Seq(Input)
    BY <1>3, NextTakesResult DEF IInv
  <2>2. FifoExactlyOnce'
    BY <1>1, <1>3, <2>1, DeliverFirst DEF IInv, NextReturns, NextOk
  <2>3. TypeOK' /\ CallInv'
    BY <1>1, <1>2, <1>3, <2>1 DEF IInv, TypeOK, CallInv, NextReturns, NextOk, IsConcurrent
  <2>4. QED
    BY <2>2, <2>3 DEF IInv
<1>4. CASE /\ results = <<>> /\ FrontIs("ok") /\ r = Head(tasks).input
           /\ tasks' = Tail(tasks) /\ UNCHANGED results
  <2>1. tasks # <<>>
    BY <1>4 DEF FrontIs
  <2>2. /\ HeldLoses(Head(tasks).input)
        /\ tasks' \in Seq(Tasks(Input)) /\ Len(tasks') <= Concurrent
    BY <1>4, <2>1, NextTakesTask DEF IInv
  <2>3. FifoExactlyOnce'
    BY <1>1, <1>4, <2>2, DeliverFirst DEF IInv, NextReturns, NextOk
  <2>4. TypeOK' /\ CallInv'
    BY <1>1, <1>2, <1>4, <2>1, <2>2
    DEF IInv, TypeOK, CallInv, NextReturns, NextOk, IsConcurrent
  <2>5. QED
    BY <2>3, <2>4 DEF IInv
<1>5. QED
  BY <1>1, <1>3, <1>4 DEF NextReturns

(* A next that fails delivers nothing and keeps the order.                  *)
LEMMA NextErrInv ==
  ASSUME IInv, NextErr
  PROVE  IInv'
<1> USE ConcurrentAssumption
<1>1. /\ unrecoverable' \in BOOLEAN /\ exec = "none" /\ call' = "none"
      /\ UNCHANGED <<exec, input, submitted, delivered>>
  BY DEF IInv, CallInv, TypeOK, NextErr, NextReturnsErr, FailAll, RetryFront
<1>2. CASE errored /\ UNCHANGED <<tasks, results, errored>>
  <2>1. TypeOK' /\ CallInv'
    BY <1>1, <1>2 DEF IInv, TypeOK, CallInv, IsConcurrent
  <2>2. FifoExactlyOnce'
    BY <1>1, <1>2, SameHeld, KeptInOrder DEF IInv, TypeOK
  <2>3. QED
    BY <2>1, <2>2 DEF IInv
<1>3. CASE RetryFront
  <2>1. /\ tasks' \in Seq(Tasks(Input)) /\ Len(tasks') <= Concurrent
        /\ IsConcurrent /\ ~errored' /\ UNCHANGED <<results, errored>>
        /\ FifoExactlyOnce'
    BY <1>1, <1>3, RetryFrontInv
  <2>2. TypeOK' /\ CallInv'
    BY <1>1, <2>1 DEF IInv, TypeOK, CallInv, IsConcurrent
  <2>3. QED
    BY <2>1, <2>2 DEF IInv
<1>4. CASE FailAll
  <2>1. TypeOK' /\ CallInv'
    BY <1>1, <1>4 DEF IInv, TypeOK, CallInv, FailAll, IsConcurrent
  <2>2. FifoExactlyOnce'
    BY <1>1, <1>4, EmptyQueue DEF IInv, FailAll
  <2>3. QED
    BY <2>1, <2>2 DEF IInv
<1>5. QED
  BY <1>2, <1>3, <1>4 DEF NextErr, NextReturnsErr

(* clear drops all that is held.                                            *)
LEMMA CallClearInv ==
  ASSUME IInv, CallClear
  PROVE  IInv'
<1>1. TypeOK' /\ CallInv'
  BY ConcurrentAssumption DEF IInv, TypeOK, CallInv, CallClear, Clear, IsConcurrent
<1>2. FifoExactlyOnce'
  BY EmptyQueue DEF IInv, CallClear, Clear
<1>3. QED
  BY <1>1, <1>2 DEF IInv

(* A task that ends keeps its place.                                        *)
LEMMA FinishInv ==
  ASSUME IInv, NEW k, NEW o \in Outcomes, Finish(k, o)
  PROVE  IInv'
<1>1. /\ tasks' \in Seq(Tasks(Input))
      /\ tasks # <<>>
      /\ Len(tasks') = Len(tasks)
      /\ \A j \in 1..Len(tasks) : tasks'[j].input = tasks[j].input
  BY TaskDoneEffect DEF IInv, Finish
<1>2. UNCHANGED <<results, errored, exec, input, call, submitted, delivered, unrecoverable>>
  BY DEF Finish, TaskDone, callerVars
<1>3. TypeOK' /\ CallInv'
  BY <1>1, <1>2 DEF IInv, TypeOK, CallInv, IsConcurrent
<1>4. FifoExactlyOnce'
  BY <1>1, <1>2, SameHeld, KeptInOrder DEF IInv
<1>5. QED
  BY <1>3, <1>4 DEF IInv

(* A new ConcurrentTasks satisfies the invariant.                           *)
LEMMA InitInv == Init => IInv
<1> SUFFICES ASSUME Init PROVE IInv
  OBVIOUS
<1>1. TypeOK
  <2>1. /\ tasks \in Seq(Tasks(Input)) /\ results \in Seq(Input)
        /\ submitted \in Seq(Input) /\ delivered \in Seq(Input)
    BY DEF Init, TasksInit
  <2>2. Len(tasks) <= Concurrent
    BY ConcurrentAssumption DEF Init, TasksInit
  <2>3. QED
    BY <2>1, <2>2 DEF Init, TasksInit, TypeOK
<1>2. CallInv
  BY DEF Init, TasksInit, CallInv
<1>3. HeldLen = 0
  BY DEF Init, TasksInit, HeldLen
<1>4. FifoExactlyOnce
  BY <1>3 DEF Init, TasksInit, FifoExactlyOnce
<1>5. QED
  BY <1>1, <1>2, <1>4 DEF IInv

(* Every step preserves the invariant.                                      *)
LEMMA StepInv == IInv /\ [Next]_vars => IInv'
<1> SUFFICES ASSUME IInv, [Next]_vars PROVE IInv'
  OBVIOUS
<1>1. CASE \/ \E i \in Input : CallExecute(i)
           \/ CancelExecute \/ CallNext \/ NextNone \/ CancelNext
           \/ UNCHANGED vars
  BY <1>1, QuietInv
<1>2. CASE ExecuteStep
  BY <1>2, ExecuteStepInv
<1>3. CASE ExecuteOk
  BY <1>3, ExecuteOkInv
<1>4. CASE \E o \in Errors : ExecuteErr(o)
  BY <1>4, ExecuteErrInv
<1>5. CASE NextOk
  BY <1>5, NextOkInv
<1>6. CASE NextErr
  BY <1>6, NextErrInv
<1>7. CASE CallClear
  BY <1>7, CallClearInv
<1>8. CASE \E k \in 1..Concurrent, o \in Outcomes : Finish(k, o)
  BY <1>8, FinishInv
<1>9. QED
  BY <1>1, <1>2, <1>3, <1>4, <1>5, <1>6, <1>7, <1>8 DEF Next, CallRuns

-----------------------------------------------------------------------------
(* The inductive invariant holds throughout.                                *)
THEOREM Invariant == Spec => []IInv
  BY InitInv, StepInv, PTL DEF Spec

(* The types, and with them the bound on the number of tasks in flight.     *)
THEOREM TypeCorrect == Spec => []TypeOK
<1>1. IInv => TypeOK
  BY DEF IInv
<1>2. QED
  BY <1>1, Invariant, PTL

(* Outputs come back in the order of submission, each once, and none is     *)
(* lost unless an unrecoverable error has been reported: for every capacity *)
(* of the queue, every order in which tasks end and every place at which    *)
(* calls are dropped.                                                       *)
THEOREM Fifo == Spec => []FifoWithinLimit
<1>1. IInv => FifoWithinLimit
  BY DEF IInv, TypeOK, FifoWithinLimit
<1>2. QED
  BY <1>1, Invariant, PTL

(* Once a background task has failed for good, every step leaves the queue  *)
(* empty and the histories alone, but that clear forgets what was lost.     *)
Silent ==
  /\ errored'
  /\ tasks' = <<>>
  /\ results' = <<>>
  /\ delivered' = delivered
  /\ (submitted' = submitted \/ submitted' = delivered)

(* An errored queue takes and delivers nothing, and stays errored.          *)
LEMMA ErroredStaysSilent ==
  ASSUME IInv, [Next]_vars, errored
  PROVE  Silent
<1> USE DEF Silent
<1>1. tasks = <<>> /\ results = <<>> /\ exec \in {"none", "poll"}
  BY DEF IInv, CallInv
<1>2. CASE CallClear
  BY <1>2 DEF CallClear, Clear
<1>3. CASE ExecuteStep \/ ExecuteOk
  BY <1>1, <1>3
  DEF ExecuteStep, ExecuteContinues, RunInline, WaitForFront, AwaitedOk, ExecuteOk,
      ExecuteReturnsOk, InlineOk, PushTask, Polling
<1>4. CASE \E o \in Errors : ExecuteErr(o)
  BY <1>1, <1>4
  DEF ExecuteErr, ExecuteReturnsErr, ExecuteRefused, InlineErr, FrontFailed,
      RetryFront, FailAll, FrontIs
<1>5. CASE NextOk \/ NextErr
  BY <1>1, <1>5
  DEF NextOk, NextReturns, NextErr, NextReturnsErr, RetryFront, FailAll, FrontIs
<1>6. CASE \E k \in 1..Concurrent, o \in Outcomes : Finish(k, o)
  BY <1>1, <1>6 DEF Finish, TaskDone
<1>7. CASE \/ \E i \in Input : CallExecute(i)
           \/ CancelExecute \/ CallNext \/ NextNone \/ CancelNext
           \/ UNCHANGED vars
  BY <1>1, <1>7
  DEF CallExecute, StartExecute, CancelExecute, DropExecute, CallNext, NextNone,
      NextReturnsNone, CancelNext, vars, taskVars, callerVars
<1>8. QED
  BY <1>2, <1>3, <1>4, <1>5, <1>6, <1>7 DEF Next, CallRuns

(* After an unrecoverable error of a background task nothing is accepted or *)
(* delivered any more, whatever is called, cleared or finished afterwards.  *)
THEOREM ErrorFinal == Spec => ErrorIsFinal
<1>1. IInv /\ [Next]_vars => [errored => Silent]_vars
  BY ErroredStaysSilent
<1>2. QED
  BY <1>1, Invariant, PTL DEF Spec, ErrorIsFinal, Silent

-----------------------------------------------------------------------------
(* What the owner was told and the flag agree when tasks run in the         *)
(* background.  Inline they do not: InlineErr reports its error and leaves  *)
(* errored alone, so that the capacity must be above 1 here.                *)
ToldInv == unrecoverable => errored

(* Who was told of an unrecoverable error finds the queue errored for good. *)
LEMMA ToldStep ==
  ASSUME IsConcurrent, IInv, ToldInv, [Next]_vars
  PROVE  ToldInv'
<1> USE DEF ToldInv
<1>1. exec # "inline"
  BY DEF IInv, CallInv
<1>2. errored => errored'
  BY ErroredStaysSilent DEF Silent
<1>3. CASE UNCHANGED unrecoverable
  BY <1>2, <1>3
<1>4. CASE NextErr
  BY <1>2, <1>4 DEF NextErr
<1>5. ASSUME NEW o \in Errors, ExecuteErr(o)
      PROVE  ToldInv'
  BY <1>1, <1>2, <1>5 DEF ExecuteErr
<1>6. QED
  BY <1>3, <1>4, <1>5
  DEF Next, CallRuns, CallExecute, CancelExecute, CallNext, NextNone, CancelNext,
      ExecuteStep, ExecuteOk, NextOk, CallClear, Finish, vars, callerVars

(* "If concurrent tasks hit an unrecoverable error, it will stop executing  *)
(* new tasks": true for every capacity at which tasks run in the            *)
(* background.                                                              *)
THEOREM StopsForGood ==
  ASSUME IsConcurrent
  PROVE  Spec => StopsAfterUnrecoverable
<1>1. Init => ToldInv
  BY DEF Init, ToldInv
<1>2. IInv /\ ToldInv /\ [Next]_vars => ToldInv'
  BY ToldStep
<1>3. IInv /\ ToldInv /\ [Next]_vars
        => [unrecoverable => Len(submitted') <= Len(submitted)]_vars
  <2>1. SUFFICES ASSUME IInv, ToldInv, [Next]_vars, unrecoverable
                 PROVE  Len(submitted') <= Len(submitted)
    OBVIOUS
  <2>2. Silent
    BY <2>1, ErroredStaysSilent DEF ToldInv
  <2>3. Len(submitted) \in Nat /\ Len(delivered) <= Len(submitted)
    BY <2>1 DEF IInv, TypeOK, FifoExactlyOnce
  <2>4. QED
    BY <2>2, <2>3 DEF Silent
<1>4. QED
  BY <1>1, <1>2, <1>3, Invariant, PTL DEF Spec, StopsAfterUnrecoverable

-----------------------------------------------------------------------------
(* ConcurrentTasks implements OrderedQueue.  The pending inputs of the      *)
(* queue are what results and tasks hold, in order.                         *)

Pending == [k \in 1..HeldLen |-> Held(k)]

PendingIsSeq ==
  /\ HeldLen \in Nat
  /\ Pending \in Seq(Input)
  /\ Len(Pending) = HeldLen

(* What the queue holds, as a sequence.                                     *)
LEMMA PendingType == TypeOK => PendingIsSeq
<1> SUFFICES ASSUME TypeOK PROVE PendingIsSeq
  OBVIOUS
<1>1. Len(results) \in Nat /\ Len(tasks) \in Nat
  BY DEF TypeOK
<1>2. HeldLen \in Nat
  BY <1>1 DEF HeldLen
<1>3. ASSUME NEW k \in 1..HeldLen
      PROVE  Held(k) \in Input
  <2>1. CASE k <= Len(results)
    BY <1>1, <1>3, <2>1 DEF Held, TypeOK
  <2>2. CASE ~(k <= Len(results))
    <3>1. k - Len(results) \in 1..Len(tasks)
      BY <1>1, <1>3, <2>2 DEF HeldLen
    <3>2. tasks[k - Len(results)] \in Tasks(Input)
      BY <3>1 DEF TypeOK
    <3>3. tasks[k - Len(results)].input \in Input
      BY <3>2 DEF Tasks
    <3>4. QED
      BY <2>2, <3>3 DEF Held
  <2>3. QED
    BY <2>1, <2>2
<1>4. Pending \in [1..HeldLen -> Input]
  BY <1>3 DEF Pending
<1>5. QED
  BY <1>2, <1>4 DEF PendingIsSeq

(* The same after a step.                                                   *)
LEMMA PendingTypeNext == TypeOK' => PendingIsSeq'
  BY PendingType, PTL

(* What is held as a sequence, after each kind of step.                     *)
LEMMA PendingKept ==
  ASSUME HeldKept
  PROVE  Pending' = Pending
  BY DEF HeldKept, Pending

(* A new task is the last of what is held.                                  *)
LEMMA PendingGains ==
  ASSUME TypeOK, TypeOK', HeldGains
  PROVE  Pending' = Append(Pending, input)
<1>1. /\ HeldLen \in Nat
      /\ Pending \in Seq(Input)
      /\ Len(Pending) = HeldLen
      /\ Pending' \in Seq(Input)
      /\ Len(Pending') = HeldLen + 1
  BY PendingType, PendingTypeNext DEF PendingIsSeq, HeldGains
<1>2. input \in Input
  BY DEF TypeOK
<1>3. /\ Append(Pending, input) \in Seq(Input)
      /\ Len(Append(Pending, input)) = HeldLen + 1
      /\ \A k \in 1..HeldLen : Append(Pending, input)[k] = Pending[k]
      /\ Append(Pending, input)[HeldLen + 1] = input
  BY <1>1, <1>2, AppendProperties
<1>4. ASSUME NEW k \in 1..HeldLen + 1
      PROVE  Pending'[k] = Append(Pending, input)[k]
  <2>1. CASE k \in 1..HeldLen
    BY <1>1, <1>3, <2>1 DEF HeldGains, Pending
  <2>2. CASE k = HeldLen + 1
    BY <1>1, <1>3, <2>2 DEF HeldGains, Pending
  <2>3. QED
    BY <1>1, <2>1, <2>2
<1>5. QED
  BY <1>1, <1>3, <1>4, SeqEqual

(* A delivery takes the first of what is held.                              *)
LEMMA PendingLoses ==
  ASSUME TypeOK, TypeOK', NEW r, HeldLoses(r)
  PROVE  /\ Pending # <<>>
         /\ Head(Pending) = r
         /\ Pending' = Tail(Pending)
<1>1. /\ HeldLen \in Nat /\ HeldLen > 0
      /\ Pending \in Seq(Input)
      /\ Len(Pending) = HeldLen
      /\ Pending' \in Seq(Input)
      /\ Len(Pending') = HeldLen - 1
  BY PendingType, PendingTypeNext DEF PendingIsSeq, HeldLoses
<1>2. Pending # <<>> /\ Pending[1] = r
  BY <1>1 DEF HeldLoses, Pending
<1>3. /\ Tail(Pending) \in Seq(Input)
      /\ Len(Tail(Pending)) = HeldLen - 1
      /\ \A k \in 1..HeldLen - 1 : Tail(Pending)[k] = Pending[k + 1]
      /\ Head(Pending) = Pending[1]
  BY <1>1, <1>2, HeadTailProperties
<1>4. ASSUME NEW k \in 1..HeldLen - 1
      PROVE  Pending'[k] = Tail(Pending)[k]
  <2>1. Pending'[k] = Held(k)' /\ Pending[k + 1] = Held(k + 1)
    BY <1>1, <1>4 DEF HeldLoses, Pending
  <2>2. QED
    BY <1>3, <1>4, <2>1 DEF HeldLoses
<1>5. Pending' = Tail(Pending)
  BY <1>1, <1>3, <1>4, SeqEqual
<1>6. QED
  BY <1>2, <1>3, <1>5

(* An empty queue holds nothing.                                            *)
LEMMA PendingEmpty ==
  ASSUME tasks' = <<>>, results' = <<>>
  PROVE  Pending' = <<>>
<1>1. HeldLen' = 0
  BY DEF HeldLen
<1>2. QED
  BY <1>1 DEF Pending

(* The steps that keep what is held are steps the queue does not see.       *)
LEMMA KeptIsStutter ==
  ASSUME HeldKept, UNCHANGED <<delivered, errored>>
  PROVE  UNCHANGED Queue!vars
  BY PendingKept DEF Queue!vars, Pending

(* execute accepts an input, or moves what is held and keeps its order.     *)
LEMMA ExecuteRefines ==
  ASSUME IInv, IInv', ExecuteStep \/ ExecuteOk
  PROVE  [Queue!Next]_(Queue!vars)
<1>1. CASE RunInline /\ ExecuteStep
  BY <1>1, SameHeld, KeptIsStutter DEF IInv, TypeOK, RunInline, ExecuteStep, callerVars
<1>2. CASE WaitForFront /\ ExecuteStep
  BY <1>2, SameHeld, KeptIsStutter DEF IInv, TypeOK, WaitForFront, ExecuteStep, callerVars
<1>3. CASE AwaitedOk /\ ExecuteStep
  <2>1. HeldKept
    BY <1>3, MoveFront DEF IInv, AwaitedOk, FrontIs
  <2>2. QED
    BY <1>3, <2>1, KeptIsStutter DEF AwaitedOk, ExecuteStep, callerVars
<1>4. CASE ExecuteOk
  <2>1. HeldGains
    <3>1. CASE InlineOk
      BY <3>1, AddResult DEF IInv, CallInv, InlineOk
    <3>2. CASE /\ PushTask
               /\ FrontIs("ok") /\ tasks' = Append(Tail(tasks), Spawn(input))
               /\ results' = Append(results, Head(tasks).input)
      BY <3>2, MovePush DEF IInv, FrontIs
    <3>3. CASE PushTask /\ tasks' = Append(tasks, Spawn(input)) /\ UNCHANGED results
      BY <3>3, PushBack DEF IInv
    <3>4. QED
      BY <1>4, <3>1, <3>2, <3>3 DEF ExecuteOk, ExecuteReturnsOk, PushTask
  <2>2. Pending' = Append(Pending, input) /\ input \in Input
    BY <2>1, PendingGains DEF IInv, TypeOK
  <2>3. ~errored /\ UNCHANGED <<delivered, errored>>
    BY <1>4 DEF ExecuteOk, ExecuteReturnsOk, InlineOk, PushTask, Polling, IInv, CallInv
  <2>4. Queue!Accept(input)
    BY <2>2, <2>3 DEF Queue!Accept, Pending
  <2>5. QED
    BY <2>2, <2>4 DEF Queue!Next
<1>5. QED
  BY <1>1, <1>2, <1>3, <1>4 DEF ExecuteStep, ExecuteContinues

(* An error keeps what is held and its order, or breaks the queue.          *)
LEMMA ErrRefines ==
  ASSUME IInv, UNCHANGED delivered,
         \/ UNCHANGED <<tasks, results, errored>>
         \/ RetryFront
         \/ FailAll
  PROVE  [Queue!Next]_(Queue!vars)
<1>1. CASE UNCHANGED <<tasks, results, errored>>
  BY <1>1, SameHeld, KeptIsStutter DEF IInv, TypeOK
<1>2. CASE RetryFront
  BY <1>2, RetryFrontEffect, SameHeld, KeptIsStutter DEF IInv, RetryFront
<1>3. CASE FailAll
  <2>1. Pending' = <<>>
    BY <1>3, PendingEmpty DEF FailAll
  <2>2. Queue!Break
    BY <1>3, <2>1 DEF FailAll, Queue!Break, Pending
  <2>3. QED
    BY <2>2 DEF Queue!Next
<1>4. QED
  BY <1>1, <1>2, <1>3

(* next delivers the first of what is held.                                 *)
LEMMA NextOkRefines ==
  ASSUME IInv, IInv', NextOk
  PROVE  [Queue!Next]_(Queue!vars)
<1>1. PICK r \in Input : NextReturns(r) /\ delivered' = Append(delivered, r)
  BY DEF NextOk
<1>2. HeldLoses(r)
  <2>1. CASE results # <<>> /\ r = Head(results) /\ results' = Tail(results) /\ UNCHANGED tasks
    BY <2>1, NextTakesResult DEF IInv
  <2>2. CASE /\ results = <<>> /\ FrontIs("ok") /\ r = Head(tasks).input
             /\ tasks' = Tail(tasks) /\ UNCHANGED results
    BY <2>2, NextTakesTask DEF IInv, FrontIs
  <2>3. QED
    BY <1>1, <2>1, <2>2 DEF NextReturns
<1>3. Pending # <<>> /\ Head(Pending) = r /\ Pending' = Tail(Pending)
  BY <1>2, PendingLoses DEF IInv
<1>4. Queue!Deliver
  BY <1>1, <1>3 DEF Queue!Deliver, Pending, NextReturns
<1>5. QED
  BY <1>4 DEF Queue!Next

(* Every step is a step of the ordered queue, or none.                      *)
LEMMA StepRefines ==
  ASSUME IInv, IInv', [Next]_vars
  PROVE  [Queue!Next]_(Queue!vars)
<1>1. CASE \/ \E i \in Input : CallExecute(i)
           \/ CancelExecute \/ CallNext \/ NextNone \/ CancelNext
           \/ UNCHANGED vars
  <2>1. UNCHANGED <<tasks, results, errored, delivered>>
    BY <1>1 DEF CallExecute, StartExecute, CancelExecute, DropExecute, CallNext, NextNone,
       NextReturnsNone, CancelNext, vars, taskVars, callerVars
  <2>2. QED
    BY <2>1, ErrRefines
<1>2. CASE ExecuteStep \/ ExecuteOk
  BY <1>2, ExecuteRefines
<1>3. CASE \E o \in Errors : ExecuteErr(o)
  BY <1>3, ErrRefines
  DEF ExecuteErr, ExecuteReturnsErr, ExecuteRefused, InlineErr, FrontFailed
<1>4. CASE NextOk
  BY <1>4, NextOkRefines
<1>5. CASE NextErr
  BY <1>5, ErrRefines DEF NextErr, NextReturnsErr
<1>6. CASE CallClear
  <2>1. Pending' = <<>>
    BY <1>6, PendingEmpty DEF CallClear, Clear
  <2>2. Queue!Discard
    BY <1>6, <2>1 DEF CallClear, Clear, Queue!Discard, Pending
  <2>3. QED
    BY <2>2 DEF Queue!Next
<1>7. CASE \E k \in 1..Concurrent, o \in Outcomes : Finish(k, o)
  <2>1. PICK k \in 1..Concurrent, o \in Outcomes : Finish(k, o)
    BY <1>7
  <2>2. HeldKept
    BY <2>1, TaskDoneEffect, SameHeld DEF IInv, Finish, TaskDone
  <2>3. QED
    BY <2>1, <2>2, KeptIsStutter DEF Finish, TaskDone, callerVars
<1>8. QED
  BY <1>1, <1>2, <1>3, <1>4, <1>5, <1>6, <1>7 DEF Next, CallRuns

(* ConcurrentTasks implements a queue that hands out exactly what it        *)
(* accepted, in order, until it breaks.                                     *)
THEOREM Refinement == Spec => ImplementsQueue
<1>1. Init => Queue!Init
  <2>1. SUFFICES ASSUME Init PROVE Queue!Init
    OBVIOUS
  <2>2. HeldLen = 0
    BY <2>1 DEF Init, TasksInit, HeldLen
  <2>3. Pending = <<>>
    BY <2>2 DEF Pending
  <2>4. QED
    BY <2>1, <2>3 DEF Init, TasksInit, Queue!Init, Pending
<1>2. IInv /\ IInv' /\ [Next]_vars => [Queue!Next]_(Queue!vars)
  BY StepRefines
<1>3. QED
  BY <1>1, <1>2, Invariant, PTL DEF Spec, ImplementsQueue, Queue!Spec
=============================================================================
