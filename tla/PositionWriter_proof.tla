------------------------ MODULE PositionWriter_proof ------------------------
(***************************************************************************)
(* The file a PositionWriter of the fs service leaves behind, for every     *)
(* number of slots, buffers and writes: after a close that returned Ok, and *)
(* behind the path of an atomic write, it is complete and stays complete,   *)
(* whatever writes come late and wherever the machine crashes.              *)
(***************************************************************************)
EXTENDS PositionWriter, SequenceTheorems, TLAPS

(* A task that has not succeeded yet will write cell o, or fail the writer. *)
Busy(o) ==
  \E k \in 1..Len(tasks) : tasks[k].input.offset = o /\ tasks[k].state # "ok"

QueueOK ==
  /\ tasks \in Seq(Tasks(Write)) /\ Len(tasks) <= Concurrent
  /\ \A k \in 1..Len(tasks) : tasks[k].input \in sent

(* While execute runs it holds the cache, which is not taken before it      *)
(* returns Ok; its write is given away only where it runs inline.           *)
CallInv ==
  /\ (exec # "none") <=> (pc = "execute")
  /\ exec # "none" =>
       cache # NoData /\ input = PendingWrite /\ Len(accepted) < MaxWrites
  /\ exec = "inline" => ~IsConcurrent /\ input \in sent
  /\ ~IsConcurrent => tasks = <<>>
  /\ \A k \in 1..Len(tasks) : tasks[k].input \in sent

(* close gets past the queue only when it is empty and nothing has failed.  *)
CloseInv ==
  /\ inner # "open" => pc \in {"idle", "crashed"}
  /\ pc \in {"drain", "last", "sync", "rename"} => closing
  /\ pc \in {"last", "sync", "rename", "crashed"} => tasks = <<>>
  /\ pc \in {"last", "sync", "rename"} => ~errored
  /\ pc = "last" => cache # NoData /\ PendingWrite \in sent
  /\ pc \in {"sync", "rename"} => cache = NoData

BaseInv == TypeOK /\ CallInv /\ CloseInv

(* Until an abort the cache is the last buffer acknowledged, or close wrote *)
(* it at next_offset.                                                       *)
CacheInv ==
  /\ cache # NoData =>
       Len(accepted) = next_offset + 1 /\ accepted[next_offset + 1] = cache
  /\ cache = NoData =>
       \/ Len(accepted) = next_offset
       \/ /\ Len(accepted) = next_offset + 1 /\ closing
          /\ pc # "crashed" => file[next_offset] = accepted[next_offset + 1]

FileInv(f) ==
  \A o \in Cells : f[o] # NoData => o < Len(accepted) /\ f[o] = accepted[o + 1]

SentInv ==
  \A r \in sent : r.offset < Len(accepted) /\ r.data = accepted[r.offset + 1]

WrittenInv ==
  (~errored /\ pc # "crashed") =>
    \A o \in Cells : o < next_offset => file[o] = accepted[o + 1] \/ Busy(o)

DoneInv ==
  /\ pc = "rename" => synced = Complete
  /\ inner = "closed" => file = Complete /\ synced = Complete
  /\ Atomic /\ path = "new" => inner = "closed"

KeptInv ==
  ~discarded =>
    /\ CacheInv /\ SentInv
    /\ FileInv(file) /\ FileInv(synced)
    /\ WrittenInv
    /\ DoneInv

IInv == BaseInv /\ KeptInv

-----------------------------------------------------------------------------
(* What the operations of ConcurrentTasks do to the queue.                  *)

(* A task that succeeds frees its own cell only.                            *)
LEMMA TaskDoneEffect ==
  ASSUME QueueOK, NEW k, NEW s \in Outcomes, TaskDone(k, s), UNCHANGED sent
  PROVE  /\ QueueOK' /\ tasks # <<>>
         /\ tasks[k].input \in sent
         /\ \A o : Busy(o) => Busy(o)' \/ (s = "ok" /\ o = tasks[k].input.offset)
<1> DEFINE e == [tasks[k] EXCEPT !.state = s]
<1>1. k \in 1..Len(tasks) /\ tasks' = [tasks EXCEPT ![k] = e]
  BY DEF TaskDone, QueueOK
<1>2. tasks[k] \in Tasks(Write)
  BY <1>1, ElementOfSeq DEF QueueOK
<1>3. e \in Tasks(Write) /\ e.input = tasks[k].input /\ e.state = s
  BY <1>2 DEF Tasks, Outcomes
<1> HIDE DEF e
<1>4. /\ tasks' \in Seq(Tasks(Write)) /\ Len(tasks') = Len(tasks)
      /\ \A j \in 1..Len(tasks) : tasks'[j] = IF j = k THEN e ELSE tasks[j]
  BY <1>1, <1>3, ExceptSeq DEF QueueOK
<1>5. QueueOK'
  BY <1>1, <1>3, <1>4 DEF QueueOK
<1>6. ASSUME NEW o, Busy(o), ~(s = "ok" /\ o = tasks[k].input.offset)
      PROVE  Busy(o)'
  <2>1. PICK j \in 1..Len(tasks) : tasks[j].input.offset = o /\ tasks[j].state # "ok"
    BY <1>6 DEF Busy
  <2>2. tasks'[j].input.offset = o /\ tasks'[j].state # "ok"
    BY <1>3, <1>4, <1>6, <2>1
  <2>3. QED
    BY <1>4, <2>2 DEF Busy
<1>7. QED
  BY <1>1, <1>5, <1>6, EmptySeq DEF QueueOK

(* A task that is started again is still going to write its cell.           *)
LEMMA RetryFrontEffect ==
  ASSUME QueueOK, RetryFront, UNCHANGED sent
  PROVE  QueueOK' /\ tasks # <<>> /\ \A o : Busy(o) => Busy(o)'
<1> DEFINE e == Spawn(tasks[1].input)
<1>1. 1 \in 1..Len(tasks) /\ tasks # <<>> /\ tasks[1] \in Tasks(Write)
  BY DEF RetryFront, FrontIs, QueueOK
<1>2. tasks' = [tasks EXCEPT ![1] = e]
  BY <1>1 DEF RetryFront
<1>3. e \in Tasks(Write) /\ e.input = tasks[1].input /\ e.state # "ok"
  BY <1>1 DEF Tasks, Spawn
<1> HIDE DEF e
<1>4. /\ tasks' \in Seq(Tasks(Write)) /\ Len(tasks') = Len(tasks)
      /\ \A j \in 1..Len(tasks) : tasks'[j] = IF j = 1 THEN e ELSE tasks[j]
  BY <1>1, <1>2, <1>3, ExceptSeq DEF QueueOK
<1>5. QueueOK'
  BY <1>1, <1>3, <1>4 DEF QueueOK
<1>6. ASSUME NEW o, Busy(o)
      PROVE  Busy(o)'
  <2>1. PICK j \in 1..Len(tasks) : tasks[j].input.offset = o /\ tasks[j].state # "ok"
    BY <1>6 DEF Busy
  <2>2. tasks'[j].input.offset = o /\ tasks'[j].state # "ok"
    BY <1>3, <1>4, <2>1
  <2>3. QED
    BY <1>4, <2>2 DEF Busy
<1>7. QED
  BY <1>1, <1>5, <1>6

(* The queue without a front task that succeeded.                           *)
LEMMA TailEffect ==
  ASSUME QueueOK, FrontIs("ok")
  PROVE  /\ Head(tasks).input \in Write
         /\ Tail(tasks) \in Seq(Tasks(Write))
         /\ Len(Tail(tasks)) < Concurrent
         /\ \A k \in 1..Len(Tail(tasks)) : Tail(tasks)[k].input \in sent
         /\ \A o : Busy(o) =>
              \E k \in 1..Len(Tail(tasks)) :
                Tail(tasks)[k].input.offset = o /\ Tail(tasks)[k].state # "ok"
<1> DEFINE q == Tail(tasks)
<1>1. /\ tasks \in Seq(Tasks(Write)) /\ tasks # <<>>
      /\ tasks[1].state = "ok" /\ Head(tasks) = tasks[1]
  BY HeadTailProperties DEF QueueOK, FrontIs
<1>2. /\ q \in Seq(Tasks(Write)) /\ Len(q) = Len(tasks) - 1 /\ Len(tasks) \in Nat
      /\ \A k \in 1..Len(q) : q[k] = tasks[k + 1]
      /\ tasks[1] \in Tasks(Write) /\ Len(tasks) > 0
  BY <1>1, HeadTailProperties
<1> HIDE DEF q
<1>3. Len(q) < Concurrent
  BY <1>2, ConcurrentAssumption DEF QueueOK
<1>4. \A k \in 1..Len(q) : q[k].input \in sent
  BY <1>2 DEF QueueOK
<1>5. ASSUME NEW o, Busy(o)
      PROVE  \E k \in 1..Len(q) : q[k].input.offset = o /\ q[k].state # "ok"
  <2>1. PICK j \in 1..Len(tasks) : tasks[j].input.offset = o /\ tasks[j].state # "ok"
    BY <1>5 DEF Busy
  <2>2. j - 1 \in 1..Len(q) /\ q[j - 1] = tasks[j]
    BY <1>1, <1>2, <2>1
  <2>3. QED
    BY <2>1, <2>2
<1>6. Head(tasks).input \in Write
  BY <1>1, <1>2 DEF Tasks
<1>7. QED
  BY <1>2, <1>3, <1>4, <1>5, <1>6 DEF q

(* A task that leaves the queue with success has written its cell.          *)
LEMMA DropFrontEffect ==
  ASSUME QueueOK, FrontIs("ok"), tasks' = Tail(tasks), UNCHANGED sent
  PROVE  QueueOK' /\ \A o : Busy(o) => Busy(o)'
<1>1. QueueOK'
  BY TailEffect, ConcurrentAssumption, LenProperties DEF QueueOK
<1>2. QED
  BY <1>1, TailEffect DEF Busy

(* The new task joins the queue q and keeps what it was busy with.          *)
LEMMA PushEffect ==
  ASSUME NEW q \in Seq(Tasks(Write)), Len(q) < Concurrent,
         \A k \in 1..Len(q) : q[k].input \in sent,
         \A o : Busy(o) =>
           \E k \in 1..Len(q) : q[k].input.offset = o /\ q[k].state # "ok",
         input \in Write, UNCHANGED input, sent' = sent \cup {input},
         tasks' = Append(q, Spawn(input))
  PROVE  /\ QueueOK'
         /\ \A o : Busy(o) => Busy(o)'
         /\ Busy(input.offset)'
<1>1. Spawn(input) \in Tasks(Write) /\ Spawn(input).input = input /\ Spawn(input).state # "ok"
  BY DEF Spawn, Tasks
<1>2. /\ tasks' \in Seq(Tasks(Write))
      /\ Len(tasks') = Len(q) + 1 /\ Len(q) \in Nat
      /\ \A k \in 1..Len(q) : tasks'[k] = q[k]
      /\ tasks'[Len(q) + 1] = Spawn(input)
  BY <1>1, AppendProperties
<1>3. QueueOK'
  BY <1>1, <1>2, ConcurrentAssumption DEF QueueOK
<1>4. ASSUME NEW o, Busy(o)
      PROVE  Busy(o)'
  <2>1. PICK k \in 1..Len(q) : q[k].input.offset = o /\ q[k].state # "ok"
    BY <1>4
  <2>2. QED
    BY <1>2, <2>1 DEF Busy
<1>5. Busy(input.offset)'
  BY <1>1, <1>2 DEF Busy
<1>6. QED
  BY <1>3, <1>4, <1>5

-----------------------------------------------------------------------------
(* Types, where the call is, and where close is.                            *)

(* What the lemmas about the queue need.                                    *)
LEMMA BaseIsQueue == BaseInv => QueueOK
  BY DEF BaseInv, TypeOK, CallInv, QueueOK

(* A new writer has an empty queue and an empty file.                       *)
LEMMA BaseInit == Init => BaseInv
<1> SUFFICES ASSUME Init PROVE BaseInv
  OBVIOUS
<1> USE DEF Init, TasksInit
<1>1. /\ tasks \in Seq(Tasks(Write)) /\ Len(tasks) = 0
      /\ results \in Seq(Write)
      /\ accepted \in Seq(Data) /\ Len(accepted) = 0
  BY EmptySeq
<1>2. /\ file \in [Cells -> Data \cup {NoData}]
      /\ synced \in [Cells -> Data \cup {NoData}]
  BY DEF EmptyFile
<1>3. Len(tasks) <= Concurrent /\ Len(accepted) <= MaxWrites /\ path \in {"old", "new"}
  BY <1>1, ConcurrentAssumption, PositionAssumption DEF PositionConstants
<1>4. next_offset \in Nat /\ next_offset + (IF cache = NoData THEN 0 ELSE 1) <= Len(accepted)
  BY <1>1
<1>5. TypeOK
  BY <1>1, <1>2, <1>3, <1>4 DEF TypeOK
<1>6. CallInv
  BY <1>1 DEF CallInv
<1>7. CloseInv
  BY DEF CloseInv
<1>8. QED
  BY <1>5, <1>6, <1>7 DEF BaseInv

(* The buffer in the cache has a cell of its own.                           *)
LEMMA PendingType ==
  ASSUME TypeOK, cache # NoData
  PROVE  PendingWrite \in Write
<1>1. next_offset \in Nat /\ next_offset + 1 <= Len(accepted) /\ Len(accepted) <= MaxWrites
  BY DEF TypeOK
<1>2. next_offset \in Cells
  BY <1>1, LenProperties, PositionAssumption DEF TypeOK, Cells, PositionConstants
<1>3. QED
  BY <1>2 DEF TypeOK, PendingWrite, Write

(* write_at changes one cell.                                               *)
LEMMA WriteAtType ==
  ASSUME TypeOK, NEW r \in Write, WriteAt(r)
  PROVE  /\ file' \in [Cells -> Data \cup {NoData}]
         /\ r.offset \in Cells /\ r.data \in Data
         /\ \A o \in Cells : file'[o] = IF o = r.offset THEN r.data ELSE file[o]
  BY DEF TypeOK, Write, WriteAt

(* execute goes on, the owner's state stays: the queue may lose its front.  *)
LEMMA ExecuteStepBase == ASSUME BaseInv, ExecuteStep PROVE BaseInv'
<1> USE DEF BaseInv
<1>1. /\ UNCHANGED <<writerVars, pc, historyVars, file, synced, path, errored, input>>
      /\ pc = "execute"
      /\ exec # "none" /\ exec' \in {"poll", "await", "inline"}
      /\ PendingWrite' = PendingWrite
  BY
  DEF ExecuteStep, ExecuteContinues, RunInline, WaitForFront, AwaitedOk, Polling, writerVars,
      PendingWrite
<1>2. cache # NoData /\ input = PendingWrite /\ input \in Write
  BY <1>1, PendingType DEF CallInv
<1>3. sent' \subseteq Write /\ sent \subseteq sent' /\ (exec' = "inline" => input' \in sent')
  BY <1>1, <1>2 DEF ExecuteStep, TypeOK
<1>4. /\ QueueOK' /\ results' \in Seq(Write)
      /\ (exec' = "inline" => ~IsConcurrent) /\ (~IsConcurrent => tasks' = <<>>)
  <2>1. CASE RunInline
    BY <2>1, <1>3, BaseIsQueue DEF RunInline, QueueOK, TypeOK, CallInv
  <2>2. CASE WaitForFront
    BY <2>2, <1>3, BaseIsQueue DEF WaitForFront, Polling, QueueOK, TypeOK, CallInv
  <2>3. CASE AwaitedOk
    <3>1. sent' = sent /\ FrontIs("ok") /\ tasks # <<>> /\ tasks' = Tail(tasks)
      BY <2>3 DEF AwaitedOk, ExecuteStep, FrontIs
    <3>2. QueueOK' /\ Head(tasks).input \in Write
      BY <3>1, BaseIsQueue, DropFrontEffect, TailEffect
    <3>3. results' \in Seq(Write)
      BY <2>3, <3>2, AppendProperties DEF AwaitedOk, TypeOK
    <3>4. QED
      BY <2>3, <3>1, <3>2, <3>3 DEF AwaitedOk, CallInv
  <2>4. QED
    BY <2>1, <2>2, <2>3 DEF ExecuteStep, ExecuteContinues
<1>5. TypeOK'
  BY <1>1, <1>3, <1>4 DEF TypeOK, writerVars, historyVars, QueueOK
<1>6. CallInv'
  BY <1>1, <1>3, <1>4 DEF CallInv, writerVars, historyVars, QueueOK
<1>7. CloseInv'
  BY <1>1 DEF CloseInv, writerVars, historyVars
<1>8. QED
  BY <1>5, <1>6, <1>7

(* A call returns with an error: the queue lost its front, all or nothing.  *)
LEMMA ExecuteErrQueue ==
  ASSUME BaseInv, ExecuteErr
  PROVE  /\ QueueOK' /\ results' \in Seq(Write) /\ errored' \in BOOLEAN
         /\ exec' = "none" /\ (tasks = <<>> => tasks' = <<>>)
         /\ ~errored' => ~errored /\ \A o : Busy(o) => Busy(o)'
<1> USE DEF BaseInv
<1>0. QueueOK /\ UNCHANGED sent
  BY BaseIsQueue DEF ExecuteErr, fsVars
<1>1. CASE UNCHANGED <<tasks, results, errored>> /\ exec' = "none"
  BY <1>0, <1>1 DEF QueueOK, TypeOK, Busy
<1>2. CASE FrontFailed /\ RetryFront
  BY <1>0, <1>2, RetryFrontEffect DEF FrontFailed, RetryFront, TypeOK
<1>3. CASE FrontFailed /\ FailAll
  BY <1>0, <1>3, EmptySeq, ConcurrentAssumption DEF FrontFailed, FailAll, QueueOK
<1>4. QED
  BY <1>1, <1>2, <1>3
  DEF ExecuteErr, ExecuteReturnsErr, ExecuteRefused, InlineErr, FrontFailed, DropExecute

(* execute returns an error.                                                *)
LEMMA ExecuteErrBase == ASSUME BaseInv, ExecuteErr PROVE BaseInv'
<1> USE DEF BaseInv
<1>1. /\ QueueOK' /\ results' \in Seq(Write) /\ errored' \in BOOLEAN
      /\ exec' = "none" /\ (tasks = <<>> => tasks' = <<>>)
  BY ExecuteErrQueue
<1>2. /\ UNCHANGED <<writerVars, historyVars, fsVars>>
      /\ pc = "execute" /\ pc' = "idle"
  BY DEF ExecuteErr
<1>3. TypeOK'
  BY <1>1, <1>2 DEF TypeOK, writerVars, historyVars, fsVars, QueueOK
<1>4. CallInv' /\ CloseInv'
  BY <1>1, <1>2 DEF CallInv, CloseInv, QueueOK
<1>5. QED
  BY <1>3, <1>4

(* execute returns Ok: the write is given away, inline it has been done.    *)
LEMMA WriteOkQueue ==
  ASSUME BaseInv, WriteOk
  PROVE  /\ QueueOK' /\ results' \in Seq(Write)
         /\ exec' = "none" /\ UNCHANGED errored
         /\ ~IsConcurrent => tasks' = <<>>
         /\ cache # NoData /\ input = PendingWrite /\ input \in Write
         /\ sent' = sent \cup {input}
         /\ \A o : Busy(o) => Busy(o)'
         /\ \/ WriteAt(input)
            \/ UNCHANGED file /\ Busy(input.offset)'
<1> USE DEF BaseInv
<1>1. exec # "none" /\ exec' = "none" /\ UNCHANGED <<errored, input>>
  BY DEF WriteOk, ExecuteReturnsOk, InlineOk, PushTask, Polling
<1>2. cache # NoData /\ input = PendingWrite /\ input \in Write
  BY <1>1, PendingType DEF CallInv
<1>3. CASE InlineOk
  <2>1. exec = "inline" /\ UNCHANGED tasks /\ ~IsConcurrent /\ tasks = <<>> /\ input \in sent
    BY <1>3 DEF InlineOk, CallInv
  <2>2. sent' = sent /\ sent = sent \cup {input} /\ WriteAt(input)
    BY <2>1 DEF WriteOk
  <2>3. results' \in Seq(Write)
    BY <1>2, <1>3, AppendProperties DEF InlineOk, TypeOK
  <2>4. QED
    BY <1>1, <1>2, <2>1, <2>2, <2>3, BaseIsQueue DEF QueueOK, Busy
<1>4. CASE PushTask
  <2>1. exec = "poll" /\ IsConcurrent /\ sent' = sent \cup {input} /\ UNCHANGED file
    BY <1>4 DEF PushTask, Polling, WriteOk
  <2>2. QueueOK
    BY BaseIsQueue
  <2>3. CASE FrontIs("ok") /\ tasks' = Append(Tail(tasks), Spawn(input))
             /\ results' = Append(results, Head(tasks).input)
    <3>1. QueueOK' /\ Busy(input.offset)' /\ \A o : Busy(o) => Busy(o)'
      BY <1>1, <1>2, <2>1, <2>2, <2>3, TailEffect, PushEffect
    <3>2. results' \in Seq(Write)
      BY <2>2, <2>3, TailEffect, AppendProperties DEF TypeOK
    <3>3. QED
      BY <1>1, <1>2, <2>1, <3>1, <3>2
  <2>4. CASE HasRemaining /\ tasks' = Append(tasks, Spawn(input)) /\ UNCHANGED results
    <3>1. QueueOK' /\ Busy(input.offset)' /\ \A o : Busy(o) => Busy(o)'
      BY <1>1, <1>2, <2>1, <2>2, <2>4, PushEffect DEF QueueOK, HasRemaining, Busy
    <3>2. QED
      BY <1>1, <1>2, <2>1, <2>4, <3>1 DEF TypeOK
  <2>5. QED
    BY <1>4, <2>3, <2>4 DEF PushTask
<1>5. QED
  BY <1>3, <1>4 DEF WriteOk, ExecuteReturnsOk

(* A buffer is acknowledged.                                                *)
LEMMA AcceptedEffect ==
  ASSUME TypeOK, Len(accepted) < MaxWrites,
         NEW d \in Data, accepted' = Append(accepted, d)
  PROVE  /\ accepted' \in Seq(Data) /\ Len(accepted) \in Nat
         /\ Len(accepted') = Len(accepted) + 1 /\ Len(accepted') <= MaxWrites
         /\ \A k \in 1..Len(accepted) : accepted'[k] = accepted[k]
         /\ accepted'[Len(accepted) + 1] = d
  BY AppendProperties, LenProperties, PositionAssumption DEF TypeOK, PositionConstants

(* execute has taken the write.                                             *)
LEMMA WriteOkBase == ASSUME BaseInv, WriteOk PROVE BaseInv'
<1> USE DEF BaseInv
<1>1. /\ QueueOK' /\ results' \in Seq(Write) /\ exec' = "none" /\ UNCHANGED errored
      /\ (~IsConcurrent => tasks' = <<>>)
      /\ cache # NoData /\ sent' \subseteq Write
  BY WriteOkQueue DEF TypeOK
<1>2. file' \in [Cells -> Data \cup {NoData}]
  BY WriteOkQueue, WriteAtType DEF TypeOK
<1>3. /\ pc = "execute" /\ pc' = "idle"
      /\ UNCHANGED <<inner, bs, discarded, closing, synced, path>>
      /\ cache' = bs /\ bs \in Data /\ next_offset' = next_offset + 1
      /\ accepted' = Append(accepted, bs)
  BY DEF WriteOk, TypeOK
<1>4. /\ accepted' \in Seq(Data) /\ Len(accepted') = Len(accepted) + 1
      /\ Len(accepted) \in Nat /\ Len(accepted') <= MaxWrites
  BY <1>3, AcceptedEffect DEF CallInv
<1>5. /\ next_offset' \in Nat
      /\ next_offset' + (IF cache' = NoData THEN 0 ELSE 1) <= Len(accepted')
  BY <1>1, <1>3, <1>4 DEF TypeOK
<1>6. TypeOK'
  BY <1>1, <1>2, <1>3, <1>4, <1>5 DEF TypeOK, QueueOK
<1>7. CallInv' /\ CloseInv'
  BY <1>1, <1>3 DEF CallInv, CloseInv, QueueOK
<1>8. QED
  BY <1>6, <1>7

(* A call begins.                                                           *)
LEMMA WriteCachedBase == ASSUME BaseInv, NEW d \in Data, WriteCached(d) PROVE BaseInv'
<1> USE DEF BaseInv
<1>1. /\ UNCHANGED <<taskVars, next_offset, inner, pc, discarded, closing, fsVars>>
      /\ pc = "idle" /\ inner = "open" /\ cache = NoData
      /\ cache' = d /\ bs' = d /\ exec = "none"
  BY DEF WriteCached, WriteCall, Callable, CallInv
<1>2. /\ accepted' \in Seq(Data) /\ Len(accepted') = Len(accepted) + 1
      /\ Len(accepted) \in Nat /\ Len(accepted') <= MaxWrites
  BY AcceptedEffect DEF WriteCached, WriteCall
<1>3. /\ cache' \in Data \cup {NoData} /\ cache' # NoData
      /\ next_offset' + (IF cache' = NoData THEN 0 ELSE 1) <= Len(accepted')
  BY <1>1, <1>2, PositionAssumption DEF TypeOK, PositionConstants
<1>4. TypeOK'
  BY <1>1, <1>2, <1>3 DEF TypeOK, taskVars, fsVars
<1>5. CallInv' /\ CloseInv'
  BY <1>1 DEF CallInv, CloseInv, taskVars, fsVars
<1>6. QED
  BY <1>4, <1>5

(* write calls execute.                                                     *)
LEMMA WriteNextBase == ASSUME BaseInv, NEW d \in Data, WriteNext(d) PROVE BaseInv'
<1> USE DEF BaseInv
<1>1. /\ UNCHANGED <<next_offset, cache, inner, historyVars, fsVars, tasks, results, errored>>
      /\ pc = "idle" /\ inner = "open" /\ cache # NoData /\ Len(accepted) < MaxWrites
      /\ exec' = "poll" /\ input' = PendingWrite /\ bs' = d /\ pc' = "execute"
  BY DEF WriteNext, WriteCall, Callable, StartExecute
<1>2. PendingWrite' = PendingWrite
  BY <1>1 DEF PendingWrite
<1>3. TypeOK'
  BY <1>1 DEF TypeOK, historyVars, fsVars
<1>4. CallInv' /\ CloseInv'
  BY <1>1, <1>2 DEF CallInv, CloseInv, historyVars, fsVars
<1>5. QED
  BY <1>3, <1>4

(* close goes on: it takes from the queue, or gives up.                     *)
LEMMA DrainQueue ==
  ASSUME BaseInv, DrainOne \/ DrainErr
  PROVE  /\ QueueOK' /\ results' \in Seq(Write) /\ errored' \in BOOLEAN
         /\ UNCHANGED <<exec, input, sent>>
         /\ (tasks = <<>> => tasks' = <<>>)
         /\ ~errored' => ~errored /\ \A o : Busy(o) => Busy(o)'
<1> USE DEF BaseInv
<1>1. QueueOK /\ UNCHANGED <<exec, input, sent>>
  BY BaseIsQueue DEF DrainOne, DrainErr, NextReturns, NextReturnsErr, taskVars, fsVars
<1>2. CASE DrainOne /\ results # <<>> /\ results' = Tail(results) /\ UNCHANGED <<tasks, errored>>
  <2>1. results' \in Seq(Write)
    BY <1>2, HeadTailProperties DEF TypeOK
  <2>2. QED
    BY <1>1, <1>2, <2>1 DEF QueueOK, TypeOK, Busy
<1>3. CASE DrainOne /\ FrontIs("ok") /\ tasks' = Tail(tasks) /\ UNCHANGED <<results, errored>>
  BY <1>1, <1>3, DropFrontEffect DEF TypeOK, FrontIs
<1>4. CASE UNCHANGED <<tasks, results, errored>>
  BY <1>1, <1>4 DEF QueueOK, TypeOK, Busy
<1>5. CASE RetryFront
  BY <1>1, <1>5, RetryFrontEffect DEF RetryFront, TypeOK
<1>6. CASE FailAll
  BY <1>1, <1>6, EmptySeq, ConcurrentAssumption DEF FailAll, QueueOK
<1>7. QED
  BY <1>2, <1>3, <1>4, <1>5, <1>6
  DEF DrainOne, DrainErr, NextReturns, NextReturnsErr, taskVars

(* close takes a result, or an error.                                       *)
LEMMA DrainBase == ASSUME BaseInv, DrainOne \/ DrainErr PROVE BaseInv'
<1> USE DEF BaseInv
<1>1. /\ QueueOK' /\ results' \in Seq(Write) /\ errored' \in BOOLEAN
      /\ UNCHANGED <<exec, input>> /\ (tasks = <<>> => tasks' = <<>>)
  BY DrainQueue
<1>2. /\ UNCHANGED <<writerVars, historyVars, fsVars>>
      /\ pc = "drain" /\ pc' \in {"drain", "idle"} /\ exec = "none"
  BY DEF DrainOne, DrainErr, CallInv
<1>3. TypeOK'
  BY <1>1, <1>2 DEF TypeOK, writerVars, historyVars, fsVars, QueueOK
<1>4. CallInv' /\ CloseInv'
  BY <1>1, <1>2 DEF CallInv, CloseInv, QueueOK, writerVars, historyVars
<1>5. QED
  BY <1>3, <1>4

(* close finds the queue empty.                                             *)
LEMMA DrainEndsBase == ASSUME BaseInv, DrainEnds PROVE BaseInv'
<1> USE DEF BaseInv
<1>1. /\ UNCHANGED <<taskVars, writerVars, historyVars, file, synced, path>>
      /\ pc = "drain" /\ exec = "none" /\ tasks = <<>> /\ ~errored
      /\ pc' = IF cache = NoData THEN "sync" ELSE "last"
      /\ PendingWrite' = PendingWrite
  BY DEF DrainEnds, NextReturnsNone, CallInv, writerVars, PendingWrite
<1>2. /\ sent' \subseteq Write /\ sent \subseteq sent'
      /\ cache # NoData => PendingWrite \in sent'
  BY PendingType DEF DrainEnds, TypeOK
<1>3. TypeOK'
  BY <1>1, <1>2 DEF TypeOK, taskVars, writerVars, historyVars
<1>4. CallInv' /\ CloseInv'
  BY <1>1, <1>2 DEF CallInv, CloseInv, taskVars, writerVars, historyVars
<1>5. QED
  BY <1>3, <1>4

(* The steps on the file, and those that end a call.                        *)
LEMMA TaskBase ==
  ASSUME BaseInv, NEW k \in 1..Concurrent, PositionTaskOk(k) \/ PositionTaskErr(k)
  PROVE  BaseInv'
<1> USE DEF BaseInv
<1>1. PICK s \in Outcomes : TaskDone(k, s)
  BY DEF PositionTaskOk, PositionTaskErr, Outcomes
<1>2. /\ UNCHANGED <<writerVars, pc, historyVars, sent, synced, path, results, errored, exec, input>>
      /\ PendingWrite' = PendingWrite
  BY DEF PositionTaskOk, PositionTaskErr, TaskDone, fsVars, writerVars, PendingWrite
<1>3. QueueOK' /\ tasks # <<>> /\ tasks[k].input \in Write
  BY <1>1, <1>2, BaseIsQueue, TaskDoneEffect DEF TypeOK
<1>4. file' \in [Cells -> Data \cup {NoData}]
  BY <1>3, WriteAtType DEF PositionTaskOk, PositionTaskErr, TypeOK, fsVars
<1>5. TypeOK'
  BY <1>2, <1>3, <1>4 DEF TypeOK, writerVars, historyVars, QueueOK
<1>6. CallInv' /\ CloseInv'
  BY <1>2, <1>3 DEF CallInv, CloseInv, writerVars, historyVars, QueueOK
<1>7. QED
  BY <1>5, <1>6

(* A write that was sent takes effect late.                                 *)
LEMMA LateWriteBase == ASSUME BaseInv, LateWrite PROVE BaseInv'
<1> USE DEF BaseInv
<1>1. UNCHANGED <<taskVars, writerVars, pc, historyVars, sent, synced, path>> /\ PendingWrite' = PendingWrite
  BY DEF LateWrite, writerVars, PendingWrite
<1>2. file' \in [Cells -> Data \cup {NoData}]
  BY WriteAtType DEF LateWrite, TypeOK
<1>3. TypeOK'
  BY <1>1, <1>2 DEF TypeOK, taskVars, writerVars, historyVars
<1>4. CallInv' /\ CloseInv'
  BY <1>1 DEF CallInv, CloseInv, taskVars, writerVars, historyVars
<1>5. QED
  BY <1>3, <1>4

(* The machine stops.                                                       *)
LEMMA CrashBase == ASSUME BaseInv, Crash PROVE BaseInv'
<1> USE DEF BaseInv
<1>1. /\ UNCHANGED <<results, errored, input, writerVars, historyVars, sent, synced>>
      /\ pc' = "crashed" /\ tasks' = <<>> /\ exec' = "none" /\ path' \in {"old", "new"}
  BY DEF Crash, TypeOK
<1>2. file' \in [Cells -> Data \cup {NoData}]
  BY DEF Crash, TypeOK
<1>3. tasks' \in Seq(Tasks(Write)) /\ Len(tasks') = 0 /\ Len(tasks') <= Concurrent
  BY <1>1, EmptySeq, ConcurrentAssumption
<1>4. TypeOK'
  BY <1>1, <1>2, <1>3 DEF TypeOK, writerVars, historyVars
<1>5. CallInv' /\ CloseInv'
  BY <1>1, <1>3 DEF CallInv, CloseInv, writerVars
<1>6. QED
  BY <1>4, <1>5

(* close has written the last buffer.                                       *)
LEMMA LastOkBase == ASSUME BaseInv, LastOk PROVE BaseInv'
<1> USE DEF BaseInv
<1>1. /\ UNCHANGED <<taskVars, next_offset, inner, bs, historyVars, sent, synced, path>>
      /\ pc = "last" /\ pc' = "sync" /\ cache' = NoData /\ exec = "none" /\ cache # NoData
  BY DEF LastOk, CallInv, CloseInv
<1>2. file' \in [Cells -> Data \cup {NoData}]
  BY <1>1, PendingType, WriteAtType DEF LastOk
<1>3. next_offset' + (IF cache' = NoData THEN 0 ELSE 1) <= Len(accepted')
  BY <1>1, LenProperties DEF TypeOK, historyVars
<1>4. TypeOK'
  BY <1>1, <1>2, <1>3 DEF TypeOK, taskVars, historyVars
<1>5. CallInv' /\ CloseInv'
  BY <1>1 DEF CallInv, CloseInv, taskVars, historyVars
<1>6. QED
  BY <1>4, <1>5

(* abort empties the queue.                                                 *)
LEMMA AbortBase == ASSUME BaseInv, Abort PROVE BaseInv'
<1> USE DEF BaseInv
<1>1. /\ UNCHANGED <<exec, input, next_offset, bs, pc, accepted, closing, fsVars, errored>>
      /\ pc = "idle" /\ cache' = NoData /\ exec = "none"
      /\ tasks' = <<>> /\ results' = <<>> /\ discarded' = TRUE
      /\ inner' \in {"open", "aborted"}
  BY DEF Abort, Callable, Clear, CallInv
<1>2. tasks' \in Seq(Tasks(Write)) /\ Len(tasks') = 0 /\ Len(tasks') <= Concurrent
      /\ results' \in Seq(Write)
  BY <1>1, EmptySeq, ConcurrentAssumption
<1>3. next_offset' + (IF cache' = NoData THEN 0 ELSE 1) <= Len(accepted')
  BY <1>1, LenProperties DEF TypeOK
<1>4. TypeOK'
  BY <1>1, <1>2, <1>3 DEF TypeOK, fsVars
<1>5. CallInv' /\ CloseInv'
  BY <1>1, <1>2 DEF CallInv, CloseInv
<1>6. QED
  BY <1>4, <1>5

(* close begins, fails, syncs or renames.                                   *)
LEMMA CloseBase ==
  ASSUME BaseInv, CloseBegins \/ CloseErr \/ SyncOk \/ RenameOk
  PROVE  BaseInv'
<1> USE DEF BaseInv
<1>1. /\ UNCHANGED <<taskVars, next_offset, cache, bs, accepted, discarded, sent, file>>
      /\ exec = "none" /\ PendingWrite' = PendingWrite
      /\ synced' \in {synced, file} /\ path' \in {path, "new"}
  BY
  DEF CloseBegins, CloseErr, SyncOk, RenameOk, Callable, CallInv, writerVars, historyVars,
      fsVars, PendingWrite
<1>2. /\ pc \in {"idle", "last", "sync", "rename"}
      /\ pc' \in {"idle", "drain", "rename"} /\ inner' \in {inner, "closed"}
      /\ (inner' # "open" => pc' = "idle")
      /\ (pc' # "idle" => closing')
      /\ (pc' = "rename" => pc = "sync")
      /\ closing' \in BOOLEAN
  BY
  DEF CloseBegins, CloseErr, SyncOk, RenameOk, Callable, CloseInv, TypeOK, writerVars,
      historyVars
<1>3. TypeOK'
  BY <1>1, <1>2 DEF TypeOK, taskVars
<1>4. CallInv'
  BY <1>1, <1>2 DEF CallInv, taskVars
<1>5. CloseInv'
  BY <1>1, <1>2 DEF CloseInv, taskVars
<1>6. QED
  BY <1>3, <1>4, <1>5

(* Nothing happens.                                                         *)
LEMMA BaseStutter == ASSUME BaseInv, UNCHANGED vars PROVE BaseInv'
<1>1. PendingWrite' = PendingWrite
  BY DEF vars, writerVars, PendingWrite
<1>2. QED
  BY <1>1
  DEF BaseInv, TypeOK, CallInv, CloseInv, vars, taskVars, writerVars, historyVars, fsVars

(* Every step keeps types and control.                                      *)
LEMMA BaseStep == BaseInv /\ [Next]_vars => BaseInv'
<1> SUFFICES ASSUME BaseInv, [Next]_vars PROVE BaseInv'
  OBVIOUS
<1>1. CASE Call
  BY <1>1, WriteCachedBase, WriteNextBase, CloseBase, AbortBase DEF Call
<1>2. CASE CallRuns
  BY <1>2, ExecuteStepBase, ExecuteErrBase, WriteOkBase, DrainBase, DrainEndsBase,
     LastOkBase, CloseBase DEF CallRuns
<1>3. CASE \E k \in 1..Concurrent : PositionTaskOk(k) \/ PositionTaskErr(k)
  BY <1>3, TaskBase
<1>4. CASE LateWrite \/ Crash \/ Ended \/ UNCHANGED vars
  BY <1>4, LateWriteBase, CrashBase, BaseStutter DEF Ended
<1>5. QED
  BY <1>1, <1>2, <1>3, <1>4 DEF Next

-----------------------------------------------------------------------------
(* What is in the file.                                                     *)

(* A complete file, cell by cell.                                           *)
LEMMA CompleteCells ==
  ASSUME NEW f \in [Cells -> Data \cup {NoData}]
  PROVE  f = Complete <=>
         \A o \in Cells : f[o] = IF o < Len(accepted) THEN accepted[o + 1] ELSE NoData
  BY DEF Complete

(* A write that was given away fills a cell with what belongs there.        *)
LEMMA GivenWrite ==
  ASSUME TypeOK, SentInv, FileInv(file), NEW r \in sent, WriteAt(r),
         UNCHANGED accepted
  PROVE  /\ FileInv(file)'
         /\ \A o \in Cells :
              file'[o] = file[o] \/ (o = r.offset /\ file'[o] = accepted[o + 1])
         /\ \A o \in Cells : file[o] = accepted[o + 1] => file'[o] = accepted[o + 1]
         /\ file'[r.offset] = accepted[r.offset + 1] /\ r.offset \in Cells
         /\ file = Complete => file' = Complete
<1>1. r \in Write
  BY DEF TypeOK
<1>2. /\ file' \in [Cells -> Data \cup {NoData}]
      /\ r.offset \in Cells
      /\ \A o \in Cells : file'[o] = IF o = r.offset THEN r.data ELSE file[o]
  BY <1>1, WriteAtType
<1>3. r.offset < Len(accepted) /\ r.data = accepted[r.offset + 1]
  BY DEF SentInv
<1>4. FileInv(file)'
  BY <1>2, <1>3 DEF FileInv
<1>5. file = Complete => file' = Complete
  BY <1>2, <1>3, CompleteCells DEF TypeOK
<1>6. QED
  BY <1>2, <1>3, <1>4, <1>5

(* With the queue and the cache empty, and no failure, nothing is missing.  *)
LEMMA NothingMissing ==
  ASSUME BaseInv, KeptInv, ~discarded, pc \in {"sync", "rename"}
  PROVE  file = Complete
<1> USE DEF BaseInv
<1>1. cache = NoData /\ tasks = <<>> /\ ~errored
  BY DEF CloseInv
<1>2. CacheInv /\ FileInv(file) /\ WrittenInv
  BY DEF KeptInv
<1>3. \A o \in Cells : ~Busy(o)
  BY <1>1 DEF Busy
<1>4. \A o \in Cells : o < next_offset => file[o] = accepted[o + 1]
  BY <1>1, <1>2, <1>3 DEF WrittenInv
<1>5. ASSUME NEW o \in Cells
      PROVE  file[o] = IF o < Len(accepted) THEN accepted[o + 1] ELSE NoData
  <2>1. o \in Nat /\ next_offset \in Nat
    BY DEF Cells, TypeOK
  <2>2. CASE o < next_offset
    BY <1>1, <1>2, <1>4, <2>1, <2>2 DEF CacheInv
  <2>3. CASE o = next_offset
    BY <1>1, <1>2, <2>1, <2>3 DEF CacheInv, FileInv
  <2>4. CASE o > next_offset
    BY <1>1, <1>2, <2>1, <2>4 DEF CacheInv, FileInv
  <2>5. QED
    BY <2>1, <2>2, <2>3, <2>4
<1>6. QED
  BY <1>5, CompleteCells DEF TypeOK

(* Steps that acknowledge nothing and leave the cache and the disk alone:   *)
(* cells are only filled, and what is no longer busy has been written.      *)
LEMMA QuietKept ==
  ASSUME BaseInv, KeptInv,
         UNCHANGED <<accepted, discarded, next_offset, cache, inner, synced, path>>,
         UNCHANGED file \/ \E r \in sent : WriteAt(r),
         sent' \in {sent, sent \cup {PendingWrite}}, cache = NoData => sent' = sent,
         closing => closing', pc # "crashed",
         pc' # "rename" \/ UNCHANGED pc,
         ~errored' => ~errored /\ \A o \in Cells :
                        Busy(o) => Busy(o)' \/ file'[o] = accepted[o + 1]
  PROVE  KeptInv'
<1> SUFFICES ASSUME ~discarded PROVE KeptInv'
  BY DEF KeptInv
<1> USE DEF BaseInv
<1>1. CacheInv /\ SentInv /\ FileInv(file) /\ FileInv(synced) /\ WrittenInv /\ DoneInv
  BY DEF KeptInv
<1>2. /\ FileInv(file)'
      /\ \A o \in Cells : file[o] = accepted[o + 1] => file'[o] = accepted[o + 1]
      /\ file = Complete => file' = Complete
  <2>1. CASE UNCHANGED file
    BY <1>1, <2>1 DEF FileInv
  <2>2. CASE \E r \in sent : WriteAt(r)
    BY <1>1, <2>2, GivenWrite
  <2>3. QED
    BY <2>1, <2>2
<1>3. CacheInv'
  <2>1. CASE cache # NoData
    BY <1>1, <2>1 DEF CacheInv
  <2>2. CASE cache = NoData
    <3>1. CASE Len(accepted) = next_offset
      BY <2>2, <3>1 DEF CacheInv
    <3>2. CASE Len(accepted) = next_offset + 1 /\ closing
               /\ file[next_offset] = accepted[next_offset + 1]
      <4>1. next_offset \in Cells
        BY <3>2, PositionAssumption DEF TypeOK, Cells, PositionConstants
      <4>2. QED
        BY <1>2, <2>2, <3>2, <4>1 DEF CacheInv
    <3>3. QED
      BY <1>1, <2>2, <3>1, <3>2 DEF CacheInv
  <2>3. QED
    BY <2>1, <2>2
<1>4. SentInv'
  BY <1>1 DEF SentInv, CacheInv, PendingWrite, TypeOK
<1>5. FileInv(synced)'
  BY <1>1 DEF FileInv
<1>6. WrittenInv'
  BY <1>1, <1>2 DEF WrittenInv
<1>7. DoneInv'
  <2>1. Complete' = Complete
    BY DEF Complete
  <2>2. QED
    BY <1>1, <1>2, <2>1 DEF DoneInv
<1>8. QED
  BY <1>2, <1>3, <1>4, <1>5, <1>6, <1>7 DEF KeptInv

(* A task finishes, or a write comes late.                                  *)
LEMMA TaskKept ==
  ASSUME BaseInv, KeptInv, NEW k \in 1..Concurrent, PositionTaskOk(k) \/ PositionTaskErr(k)
  PROVE  KeptInv'
<1>1. /\ UNCHANGED <<accepted, discarded, closing, next_offset, cache, inner, pc, sent, synced, path, errored>>
      /\ \E s \in Outcomes : TaskDone(k, s)
  BY DEF PositionTaskOk, PositionTaskErr, TaskDone, writerVars, historyVars, fsVars, Outcomes
<1>2. /\ tasks # <<>> /\ tasks[k].input \in sent
      /\ TaskDone(k, "ok") => \A o : Busy(o) => Busy(o)' \/ o = tasks[k].input.offset
      /\ \A s \in Errors : TaskDone(k, s) => \A o : Busy(o) => Busy(o)'
  BY <1>1, BaseIsQueue, TaskDoneEffect DEF Outcomes, Errors
<1>3. pc # "crashed"
  BY <1>2 DEF BaseInv, CloseInv
<1>4. SUFFICES ASSUME ~discarded PROVE KeptInv'
  BY <1>1 DEF KeptInv
<1>5. CASE PositionTaskOk(k)
  <2>1. WriteAt(tasks[k].input) /\ TaskDone(k, "ok")
    BY <1>5 DEF PositionTaskOk
  <2>2. file'[tasks[k].input.offset] = accepted[tasks[k].input.offset + 1]
    BY <1>1, <1>2, <1>4, <2>1, GivenWrite DEF KeptInv, BaseInv
  <2>3. QED
    BY <1>1, <1>2, <1>3, <2>1, <2>2, QuietKept
<1>6. CASE PositionTaskErr(k)
  <2>1. UNCHANGED file /\ \A o : Busy(o) => Busy(o)'
    BY <1>2, <1>6 DEF PositionTaskErr, fsVars
  <2>2. QED
    BY <1>1, <1>3, <2>1, QuietKept
<1>7. QED
  BY <1>5, <1>6

(* A late write writes what belongs there.                                  *)
LEMMA LateWriteKept == ASSUME BaseInv, KeptInv, LateWrite PROVE KeptInv'
<1>1. /\ UNCHANGED <<accepted, discarded, closing, next_offset, cache, inner, pc, sent, synced, path, errored, tasks>>
      /\ pc # "crashed" /\ \E r \in sent : WriteAt(r)
  BY DEF LateWrite, taskVars, writerVars, historyVars
<1>2. QED
  BY <1>1, QuietKept DEF Busy

(* A call begins, goes on or fails.                                         *)
LEMMA WriteNextKept == ASSUME BaseInv, KeptInv, NEW d \in Data, WriteNext(d) PROVE KeptInv'
<1>1. /\ UNCHANGED <<accepted, discarded, closing, next_offset, cache, inner, sent, file, synced, path, errored, tasks>>
      /\ pc = "idle" /\ pc' = "execute"
  BY DEF WriteNext, WriteCall, Callable, StartExecute, historyVars, fsVars
<1>2. QED
  BY <1>1, QuietKept DEF Busy

(* execute goes on.                                                         *)
LEMMA ExecuteStepKept == ASSUME BaseInv, KeptInv, ExecuteStep PROVE KeptInv'
<1>1. /\ UNCHANGED <<accepted, discarded, closing, next_offset, cache, inner, pc, file, synced, path, errored>>
      /\ pc = "execute" /\ exec # "none"
  BY
  DEF ExecuteStep, ExecuteContinues, RunInline, WaitForFront, AwaitedOk, Polling, writerVars,
      historyVars
<1>2. sent' \in {sent, sent \cup {PendingWrite}} /\ cache # NoData
  BY <1>1 DEF ExecuteStep, BaseInv, CallInv
<1>3. \A o : Busy(o) => Busy(o)'
  <2>1. CASE AwaitedOk
    <3>1. FrontIs("ok") /\ tasks' = Tail(tasks) /\ UNCHANGED sent
      BY <2>1 DEF AwaitedOk, ExecuteStep
    <3>2. QED
      BY <3>1, BaseIsQueue, DropFrontEffect
  <2>2. CASE UNCHANGED tasks
    BY <2>2 DEF Busy
  <2>3. QED
    BY <2>1, <2>2 DEF ExecuteStep, ExecuteContinues, RunInline, WaitForFront
<1>4. QED
  BY <1>1, <1>2, <1>3, QuietKept

(* An error leaves the file alone.                                          *)
LEMMA ErrKept == ASSUME BaseInv, KeptInv, ExecuteErr \/ DrainOne \/ DrainErr PROVE KeptInv'
<1>1. /\ UNCHANGED <<accepted, discarded, closing, next_offset, cache, inner, sent, file, synced, path>>
      /\ pc \in {"execute", "drain"} /\ pc' \in {"idle", "drain"}
  BY DEF ExecuteErr, DrainOne, DrainErr, writerVars, historyVars, fsVars
<1>2. ~errored' => ~errored /\ \A o : Busy(o) => Busy(o)'
  BY ExecuteErrQueue, DrainQueue
<1>3. QED
  BY <1>1, <1>2, QuietKept

(* The steps of close that write nothing.                                   *)
LEMMA CloseKept == ASSUME BaseInv, KeptInv, CloseBegins \/ CloseErr \/ DrainEnds PROVE KeptInv'
<1>1. /\ UNCHANGED <<accepted, discarded, next_offset, cache, inner, file, synced, path, errored, tasks>>
      /\ (closing => closing') /\ pc # "crashed" /\ pc' \in {"idle", "drain", "sync", "last"}
      /\ sent' \in {sent, sent \cup {PendingWrite}} /\ (cache = NoData => sent' = sent)
  BY
  DEF CloseBegins, CloseErr, DrainEnds, Callable, NextReturnsNone, taskVars, writerVars,
      historyVars, fsVars
<1>2. QED
  BY <1>1, QuietKept DEF Busy

-----------------------------------------------------------------------------
(* A buffer is acknowledged: what was sent and written stays right.         *)
LEMMA MoreAccepted ==
  ASSUME BaseInv, KeptInv, ~discarded, inner = "open", pc' = "idle", pc # "crashed",
         UNCHANGED <<discarded, closing, inner, synced, path>>,
         Len(accepted) < MaxWrites, NEW d \in Data, accepted' = Append(accepted, d)
  PROVE  /\ SentInv /\ UNCHANGED sent => SentInv'
         /\ FileInv(file) /\ UNCHANGED file => FileInv(file)'
         /\ FileInv(synced)'
         /\ DoneInv'
         /\ \A o \in Cells : o < Len(accepted) => accepted'[o + 1] = accepted[o + 1]
         /\ Len(accepted') = Len(accepted) + 1 /\ Len(accepted) \in Nat
         /\ accepted'[Len(accepted) + 1] = d
<1> USE DEF BaseInv
<1>1. /\ accepted' \in Seq(Data) /\ Len(accepted) \in Nat
      /\ Len(accepted') = Len(accepted) + 1
      /\ \A k \in 1..Len(accepted) : accepted'[k] = accepted[k]
      /\ accepted'[Len(accepted) + 1] = d
  BY AcceptedEffect
<1>2. \A o \in Cells : o < Len(accepted) => accepted'[o + 1] = accepted[o + 1]
  BY <1>1 DEF Cells
<1>3. FileInv(synced) /\ DoneInv
  BY DEF KeptInv
<1>4. SentInv /\ UNCHANGED sent => SentInv'
  BY <1>1, <1>2 DEF SentInv, TypeOK, Write, Cells
<1>5. FileInv(synced)' /\ (FileInv(file) /\ UNCHANGED file => FileInv(file)')
  BY <1>1, <1>2, <1>3 DEF FileInv, Cells
<1>6. DoneInv'
  BY <1>3 DEF DoneInv
<1>7. QED
  BY <1>1, <1>2, <1>4, <1>5, <1>6

(* The first buffer, or the first after the last write of a close.  Only a  *)
(* caller that goes on writing after close puts it over that write.         *)
LEMMA WriteCachedKept ==
  ASSUME ~WriteAfterClose, BaseInv, KeptInv, NEW d \in Data, WriteCached(d)
  PROVE  KeptInv'
<1> SUFFICES ASSUME ~discarded PROVE KeptInv'
  BY DEF KeptInv, WriteCached
<1> USE DEF BaseInv
<1>1. /\ UNCHANGED <<tasks, errored, next_offset, inner, pc, discarded, closing, sent, file, synced, path>>
      /\ pc = "idle" /\ inner = "open" /\ cache = NoData /\ cache' = d /\ ~closing
      /\ Len(accepted) < MaxWrites /\ accepted' = Append(accepted, d)
  BY DEF WriteCached, WriteCall, Callable, taskVars, fsVars
<1>2. CacheInv /\ SentInv /\ FileInv(file) /\ WrittenInv
  BY DEF KeptInv
<1>3. Len(accepted) = next_offset
  BY <1>1, <1>2 DEF CacheInv
<1>4. /\ SentInv' /\ FileInv(file)' /\ FileInv(synced)' /\ DoneInv'
      /\ \A o \in Cells : o < Len(accepted) => accepted'[o + 1] = accepted[o + 1]
      /\ Len(accepted') = Len(accepted) + 1 /\ Len(accepted) \in Nat
      /\ accepted'[Len(accepted) + 1] = d
  BY <1>1, <1>2, MoreAccepted
<1>5. CacheInv'
  BY <1>1, <1>3, <1>4, PositionAssumption DEF CacheInv, PositionConstants
<1>6. WrittenInv'
  BY <1>1, <1>2, <1>3, <1>4 DEF WrittenInv, Busy
<1>7. QED
  BY <1>4, <1>5, <1>6 DEF KeptInv

(* The cached buffer becomes a task, the new one the cache.                 *)
LEMMA WriteOkKept == ASSUME BaseInv, KeptInv, WriteOk PROVE KeptInv'
<1> SUFFICES ASSUME ~discarded PROVE KeptInv'
  BY DEF KeptInv, WriteOk
<1> USE DEF BaseInv
<1>1. /\ UNCHANGED <<inner, bs, discarded, closing, synced, path, errored>>
      /\ pc = "execute" /\ pc' = "idle" /\ inner = "open"
      /\ next_offset' = next_offset + 1 /\ cache' = bs /\ bs \in Data
      /\ Len(accepted) < MaxWrites /\ accepted' = Append(accepted, bs)
  BY WriteOkQueue DEF WriteOk, CloseInv, CallInv, TypeOK
<1>2. CacheInv /\ SentInv /\ FileInv(file) /\ WrittenInv
  BY DEF KeptInv
<1>3. /\ cache # NoData /\ input = PendingWrite /\ input \in Write
      /\ sent' = sent \cup {input}
      /\ \A o : Busy(o) => Busy(o)'
      /\ \/ WriteAt(input)
         \/ UNCHANGED file /\ Busy(input.offset)'
  BY WriteOkQueue
<1>4. /\ Len(accepted) = next_offset + 1 /\ accepted[next_offset + 1] = cache
      /\ input.offset = next_offset /\ input.data = cache
  BY <1>2, <1>3 DEF CacheInv, PendingWrite
<1>5. /\ FileInv(synced)' /\ DoneInv'
      /\ \A o \in Cells : o < Len(accepted) => accepted'[o + 1] = accepted[o + 1]
      /\ Len(accepted') = Len(accepted) + 1 /\ Len(accepted) \in Nat
      /\ accepted'[Len(accepted) + 1] = bs
  BY <1>1, MoreAccepted
<1>6. next_offset \in Cells /\ next_offset \in Nat /\ accepted'[next_offset + 1] = cache
  BY <1>3, <1>4, <1>5 DEF Write, TypeOK
<1>7. CacheInv'
  BY <1>1, <1>4, <1>5, PositionAssumption DEF CacheInv, PositionConstants
<1>8. SentInv'
  BY <1>2, <1>3, <1>4, <1>5, <1>6 DEF SentInv, TypeOK, Write, Cells
<1>9. \A o \in Cells : \/ file'[o] = file[o]
                       \/ o = next_offset /\ file'[o] = accepted'[o + 1]
  BY <1>3, <1>4, <1>6, WriteAtType
<1>10. FileInv(file)'
  BY <1>2, <1>4, <1>5, <1>9 DEF FileInv, Cells
<1>11. WrittenInv'
  <2>1. SUFFICES ASSUME ~errored, NEW o \in Cells, o < next_offset + 1
                 PROVE  file'[o] = accepted'[o + 1] \/ Busy(o)'
    BY <1>1 DEF WrittenInv
  <2>2. CASE o < next_offset
    BY <1>1, <1>2, <1>3, <1>4, <1>5, <1>6, <1>9, <2>1, <2>2 DEF WrittenInv, Cells
  <2>3. CASE o = next_offset
    <3>1. CASE WriteAt(input)
      BY <1>3, <1>4, <1>6, <2>3, <3>1, WriteAtType
    <3>2. CASE Busy(input.offset)'
      <4>1. input' = input
        BY DEF WriteOk, ExecuteReturnsOk, InlineOk, PushTask
      <4>2. QED
        BY <1>4, <2>3, <3>2, <4>1
    <3>3. QED
      BY <1>3, <3>1, <3>2
  <2>4. QED
    BY <1>6, <2>1, <2>2, <2>3 DEF Cells
<1>12. QED
  BY <1>5, <1>7, <1>8, <1>10, <1>11 DEF KeptInv

-----------------------------------------------------------------------------
(* The end of close, an abort and a crash.                                  *)
LEMMA LastOkKept == ASSUME BaseInv, KeptInv, LastOk PROVE KeptInv'
<1> SUFFICES ASSUME ~discarded PROVE KeptInv'
  BY DEF KeptInv, LastOk, historyVars
<1> USE DEF BaseInv
<1>1. /\ UNCHANGED <<tasks, errored, next_offset, inner, accepted, discarded, closing, sent, synced, path>>
      /\ pc = "last" /\ pc' = "sync" /\ cache' = NoData /\ cache # NoData /\ closing
      /\ WriteAt(PendingWrite) /\ PendingWrite \in sent
  BY DEF LastOk, CloseInv, taskVars, historyVars
<1>2. CacheInv /\ SentInv /\ FileInv(file) /\ FileInv(synced) /\ WrittenInv /\ DoneInv
  BY DEF KeptInv
<1>3. /\ FileInv(file)'
      /\ \A o \in Cells : file[o] = accepted[o + 1] => file'[o] = accepted[o + 1]
      /\ file'[PendingWrite.offset] = accepted[PendingWrite.offset + 1]
      /\ file = Complete => file' = Complete
  BY <1>1, <1>2, GivenWrite
<1>4. CacheInv'
  BY <1>1, <1>2, <1>3 DEF CacheInv, PendingWrite
<1>5. SentInv' /\ FileInv(synced)'
  BY <1>1, <1>2 DEF SentInv, FileInv
<1>6. WrittenInv'
  BY <1>1, <1>2, <1>3 DEF WrittenInv, Busy
<1>7. DoneInv'
  <2>1. Complete' = Complete
    BY <1>1 DEF Complete
  <2>2. QED
    BY <1>1, <1>2, <1>3, <2>1 DEF DoneInv
<1>8. QED
  BY <1>3, <1>4, <1>5, <1>6, <1>7 DEF KeptInv

(* The sync, and the rename after it.                                       *)
LEMMA EndKept == ASSUME BaseInv, KeptInv, SyncOk \/ RenameOk PROVE KeptInv'
<1> SUFFICES ASSUME ~discarded PROVE KeptInv'
  BY DEF KeptInv, SyncOk, RenameOk, historyVars
<1> USE DEF BaseInv
<1>1. /\ UNCHANGED <<tasks, errored, next_offset, cache, accepted, discarded, closing, sent, file>>
      /\ pc \in {"sync", "rename"} /\ pc' \in {"rename", "idle"}
  BY DEF SyncOk, RenameOk, taskVars, historyVars
<1>2. CacheInv /\ SentInv /\ FileInv(file) /\ FileInv(synced) /\ WrittenInv /\ DoneInv
  BY DEF KeptInv
<1>3. file = Complete /\ Complete' = Complete
  BY <1>1, NothingMissing DEF Complete
<1>4. synced' = Complete
  BY <1>2, <1>3 DEF SyncOk, RenameOk, DoneInv
<1>5. FileInv(synced)' /\ FileInv(file)' /\ SentInv'
  BY <1>1, <1>2, <1>3, <1>4 DEF FileInv, SentInv
<1>6. CacheInv' /\ WrittenInv'
  BY <1>1, <1>2 DEF CacheInv, WrittenInv, Busy
<1>7. DoneInv'
  <2>1. Atomic /\ path' = "new" => inner' = "closed"
    BY <1>2 DEF SyncOk, RenameOk, DoneInv, CloseInv
  <2>2. QED
    BY <1>1, <1>3, <1>4, <2>1 DEF DoneInv
<1>8. QED
  BY <1>5, <1>6, <1>7 DEF KeptInv

(* A crash leaves some of what was not synced.                              *)
LEMMA CrashKept == ASSUME BaseInv, KeptInv, Crash PROVE KeptInv'
<1> SUFFICES ASSUME ~discarded PROVE KeptInv'
  BY DEF KeptInv, Crash, historyVars
<1> USE DEF BaseInv
<1>1. /\ UNCHANGED <<next_offset, cache, inner, accepted, discarded, closing, sent, synced>>
      /\ pc' = "crashed" /\ (Atomic => path' \in {path, "old"})
      /\ \A o \in Cells : file'[o] \in {file[o], synced[o]}
      /\ file' \in [Cells -> Data \cup {NoData}]
  BY DEF Crash, writerVars, historyVars, TypeOK
<1>2. CacheInv /\ SentInv /\ FileInv(file) /\ FileInv(synced) /\ DoneInv
  BY DEF KeptInv
<1>3. CacheInv' /\ SentInv' /\ WrittenInv' /\ FileInv(synced)'
  BY <1>1, <1>2 DEF CacheInv, SentInv, WrittenInv, FileInv
<1>4. FileInv(file)'
  BY <1>1, <1>2 DEF FileInv
<1>5. DoneInv'
  <2>1. Complete' = Complete
    BY <1>1 DEF Complete
  <2>2. file = Complete /\ synced = Complete => file' = Complete
    BY <1>1, CompleteCells DEF TypeOK
  <2>3. QED
    BY <1>1, <1>2, <2>1, <2>2 DEF DoneInv
<1>6. QED
  BY <1>3, <1>4, <1>5 DEF KeptInv

(* Nothing happens.                                                         *)
LEMMA StutterKept == ASSUME KeptInv, UNCHANGED vars PROVE KeptInv'
<1> USE DEF vars, taskVars, writerVars, historyVars, fsVars
<1>1. (Complete' = Complete) /\ \A o : Busy(o)' = Busy(o)
  BY DEF Complete, Busy
<1>2. QED
  BY <1>1 DEF KeptInv, CacheInv, SentInv, FileInv, WrittenInv, DoneInv

(* Every step keeps what is known of the file.                              *)
LEMMA KeptStep ==
  ASSUME ~WriteAfterClose, BaseInv, KeptInv, [Next]_vars
  PROVE  KeptInv'
<1>1. CASE Call
  <2>1. Abort => KeptInv'
    BY DEF Abort, KeptInv
  <2>2. QED
    BY <1>1, <2>1, WriteCachedKept, WriteNextKept, CloseKept DEF Call
<1>2. CASE CallRuns
  BY <1>2, ExecuteStepKept, ErrKept, WriteOkKept, CloseKept, LastOkKept, EndKept DEF CallRuns
<1>3. CASE \E k \in 1..Concurrent : PositionTaskOk(k) \/ PositionTaskErr(k)
  BY <1>3, TaskKept
<1>4. CASE LateWrite \/ Crash \/ Ended \/ UNCHANGED vars
  BY <1>4, LateWriteKept, CrashKept, StutterKept DEF Ended
<1>5. QED
  BY <1>1, <1>2, <1>3, <1>4 DEF Next

(* At the start nothing is acknowledged and nothing written.                *)
LEMMA KeptInit == Init => KeptInv
<1> SUFFICES ASSUME Init PROVE KeptInv
  OBVIOUS
<1> USE DEF Init, TasksInit
<1>1. Len(accepted) = 0 /\ \A o \in Cells : o \in Nat /\ file[o] = NoData /\ synced[o] = NoData
  BY EmptySeq DEF EmptyFile, Cells
<1>2. CacheInv /\ SentInv /\ FileInv(file) /\ FileInv(synced)
  BY <1>1 DEF CacheInv, SentInv, FileInv
<1>3. WrittenInv /\ DoneInv
  BY <1>1 DEF WrittenInv, DoneInv
<1>4. QED
  BY <1>2, <1>3 DEF KeptInv

-----------------------------------------------------------------------------
(* The types hold whatever the caller does, and the calls stay within the   *)
(* cells of what was acknowledged.                                          *)
THEOREM TypeCorrect == Spec => []TypeOK
<1>1. BaseInv => TypeOK
  BY DEF BaseInv
<1>2. QED
  BY <1>1, BaseInit, BaseStep, PTL DEF Spec

(* The inductive invariant, for a caller that writes no more after close.   *)
THEOREM Invariant ==
  ASSUME ~WriteAfterClose
  PROVE  Spec => []IInv
<1>1. Init => IInv
  BY BaseInit, KeptInit DEF IInv
<1>2. IInv /\ [Next]_vars => IInv'
  BY BaseStep, KeptStep DEF IInv
<1>3. QED
  BY <1>1, <1>2, PTL DEF Spec

(* Who opens the path of an atomic write finds the old file or all of the   *)
(* new one, after a crash and whatever writes come late.                    *)
THEOREM NeverHalfWritten ==
  ASSUME ~WriteAfterClose
  PROVE  Spec => []OldOrComplete
<1>1. IInv => OldOrComplete
  BY DEF IInv, BaseInv, KeptInv, DoneInv, TypeOK, OldOrComplete
<1>2. QED
  BY <1>1, Invariant, PTL

(* After a close that returned Ok the file is complete for good, crashes    *)
(* and late writes included.                                                *)
THEOREM ClosedStaysComplete ==
  ASSUME ~WriteAfterClose
  PROVE  Spec => []ClosedIsDurable
<1>1. IInv => ClosedIsDurable
  BY DEF IInv, KeptInv, DoneInv, ClosedIsDurable
<1>2. QED
  BY <1>1, Invariant, PTL
=============================================================================
