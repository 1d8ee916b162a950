------------------------ MODULE ChunkedReader_proof -------------------------
(***************************************************************************)
(* A stream that reads its chunks concurrently returns the bytes in order,  *)
(* for every length, every size of chunks, every number of tasks and        *)
(* however many of them fail.  SeekReader is proved here as well: where its *)
(* buffer, its position and its generator meet, whatever seeks and failures *)
(* come between the reads.                                                  *)
(***************************************************************************)
EXTENDS ChunkedReader, SequenceTheorems, TLAPS

(* The chunks that have been asked for and not been returned, in order: the *)
(* results, the tasks, and the input of the call of `execute`.              *)
HeldLen == Len(results) + Len(tasks)
Held(k) == IF k <= Len(results) THEN results[k] ELSE tasks[k - Len(results)].input
LineLen == HeldLen + (IF exec = "none" THEN 0 ELSE 1)
Line(k) == IF k <= HeldLen THEN Held(k) ELSE input

(* A call of `execute` is only made when there is room for its task, so it  *)
(* never waits; a result is returned before anything else happens; and      *)
(* `next` is called when something is left to wait for or nothing is left   *)
(* to ask for.                                                              *)
ControlInv ==
  /\ exec = "inline" => ~IsConcurrent /\ ~errored
  /\ ~IsConcurrent => tasks = <<>>
  /\ exec # "none" => HasRemaining
  /\ pc # "next" => results = <<>>
  /\ done => size = 0
  /\ errored => tasks = <<>> /\ results = <<>>
  /\ pc = "next" => errored \/ results # <<>> \/ tasks # <<>> \/ size = 0

(* Whatever has failed, the chunks are ahead of the bytes returned, do not  *)
(* overlap and come in order.                                               *)
OrderInv ==
  /\ \A k \in 1..LineLen : Line(k).off + Line(k).size <= offset
  /\ \A k, l \in 1..LineLen : k < l => Line(k).off + Line(k).size <= Line(l).off
  /\ \A i, j \in 1..Len(out) : i < j => out[i] < out[j]
  /\ \A i \in 1..Len(out) : out[i] <= offset
  /\ \A i \in 1..Len(out), k \in 1..LineLen : out[i] <= Line(k).off

(* A chunk has lost no more than it has, and nothing before its task runs.  *)
LostInv ==
  /\ \A k \in 1..LineLen : lost[Line(k).off] <= Line(k).size
  /\ \A o \in 0..Total : o >= offset => lost[o] = 0
  /\ exec # "none" => lost[input.off] = 0

(* Until an error is returned, the bytes returned and the chunks follow     *)
(* each other without a gap,                                                *)
ExactLine ==
  failed = {} =>
    /\ \A i \in 1..Len(out) : out[i] = i
    /\ LineLen = 0 => Len(out) = offset
    /\ LineLen > 0 => Line(1).off = Len(out)
    /\ \A k \in 1..LineLen : k + 1 <= LineLen => Line(k).off + Line(k).size = Line(k + 1).off
    /\ \A k \in 1..LineLen : k = LineLen => Line(k).off + Line(k).size = offset
    /\ ended => LineLen = 0 /\ size = 0

(* and only a chunk whose task has failed, and has not been retried, has    *)
(* lost something.                                                          *)
ExactLost ==
  failed = {} =>
    /\ \A k \in 1..Len(results) : lost[results[k].off] = 0
    /\ \A k \in 1..Len(tasks) : tasks[k].state \notin Errors => lost[tasks[k].input.off] = 0

IInv == TypeOK /\ ControlInv /\ OrderInv /\ LostInv /\ ExactLine /\ ExactLost

-----------------------------------------------------------------------------
(* What a step does to the line of chunks: it leaves it alone, it cuts      *)
(* chunks off its end, it adds the chunk r, or it takes the first one, r.   *)
LineCut ==
  /\ LineLen' \in Nat /\ LineLen' <= LineLen
  /\ \A k \in 1..LineLen' : Line(k)' = Line(k)

LineKept == LineCut /\ LineLen' = LineLen

LineGains(r) ==
  /\ LineLen' = LineLen + 1
  /\ \A k \in 1..LineLen : Line(k)' = Line(k)
  /\ \A k \in Nat : k = LineLen + 1 => Line(k)' = r

LineLoses(r) ==
  /\ LineLen > 0 /\ LineLen' = LineLen - 1
  /\ r = Line(1)
  /\ \A k \in 1..LineLen' : Line(k)' = Line(k + 1)

(* The chunks are ranges.                                                   *)
LEMMA LineType ==
  ASSUME TypeOK
  PROVE  /\ LineLen \in Nat
         /\ \A k \in 1..LineLen : /\ Line(k) \in Ranges
                                  /\ Line(k).off \in 0..Total
                                  /\ Line(k).size \in 1..Total
                                  /\ Line(k).off \in Nat /\ Line(k).size \in Nat
                                  /\ Line(k).size >= 1 /\ Line(k).size <= Total
<1>1. /\ results \in Seq(Ranges) /\ tasks \in Seq(Tasks(Ranges))
      /\ Len(results) \in Nat /\ Len(tasks) \in Nat
  BY DEF TypeOK
<1>2. LineLen \in Nat /\ HeldLen \in Nat
  BY <1>1 DEF LineLen, HeldLen
<1>3. ASSUME NEW k \in 1..LineLen PROVE Line(k) \in Ranges
  <2>1. CASE k <= Len(results)
    <3>1. results[k] \in Ranges
      BY <1>1, <2>1, <1>2
    <3>2. QED
      BY <1>1, <1>2, <2>1, <3>1 DEF Line, Held, HeldLen
  <2>2. CASE k > Len(results) /\ k <= HeldLen
    <3>1. k - Len(results) \in 1..Len(tasks)
      BY <1>1, <1>2, <2>2 DEF HeldLen
    <3>2. tasks[k - Len(results)] \in Tasks(Ranges)
      BY <1>1, <3>1
    <3>3. tasks[k - Len(results)].input \in Ranges
      BY <3>2 DEF Tasks
    <3>4. QED
      BY <1>1, <1>2, <2>2, <3>3 DEF Line, Held
  <2>3. CASE k > HeldLen
    <3>1. exec # "none"
      BY <1>2, <2>3 DEF LineLen
    <3>2. QED
      BY <1>2, <2>3, <3>1 DEF Line, TypeOK
  <2>4. QED
    BY <1>1, <1>2, <2>1, <2>2, <2>3
<1>4. \A r \in Ranges : /\ r.off \in 0..Total /\ r.size \in 1..Total
                        /\ r.off \in Nat /\ r.size \in Nat
                        /\ r.size >= 1 /\ r.size <= Total
  BY ReadAssumption DEF Ranges, ReadConstants
<1>5. QED
  BY <1>2, <1>3, <1>4

(* Where the chunks are in the line.                                        *)
LEMMA LinePlaces ==
  ASSUME TypeOK
  PROVE  /\ \A k \in 1..Len(results) : k \in 1..LineLen /\ Line(k) = results[k]
         /\ \A k \in 1..Len(tasks) : /\ Len(results) + k \in 1..LineLen
                                     /\ Line(Len(results) + k) = tasks[k].input
         /\ exec # "none" => LineLen \in Nat /\ LineLen > 0 /\ Line(LineLen) = input
<1>1. Len(results) \in Nat /\ Len(tasks) \in Nat
  BY DEF TypeOK
<1>2. QED
  BY <1>1 DEF LineLen, HeldLen, Line, Held

(* A range of a task.                                                       *)
LEMMA TaskType ==
  ASSUME TypeOK, NEW k \in 1..Len(tasks)
  PROVE  /\ tasks[k] \in Tasks(Ranges)
         /\ tasks[k].input \in Ranges
         /\ tasks[k].input.off \in 0..Total
         /\ tasks[k].input.size \in 1..Total
<1>1. tasks[k] \in Tasks(Ranges)
  BY DEF TypeOK
<1>2. QED
  BY <1>1 DEF Tasks, Ranges

-----------------------------------------------------------------------------
(* What the operations of ConcurrentTasks do to the line.                   *)

(* A task that finishes stays where it is, with its input.                  *)
LEMMA TaskDoneEffect ==
  ASSUME TypeOK, NEW k, NEW o \in Outcomes, TaskDone(k, o)
  PROVE  /\ tasks' \in Seq(Tasks(Ranges))
         /\ k \in 1..Len(tasks)
         /\ Len(tasks') = Len(tasks)
         /\ \A j \in 1..Len(tasks) :
              /\ tasks'[j].input = tasks[j].input
              /\ tasks'[j].state = IF j = k THEN o ELSE tasks[j].state
<1> DEFINE e == [tasks[k] EXCEPT !.state = o]
<1>1. k \in 1..Len(tasks) /\ tasks' = [tasks EXCEPT ![k] = e]
  BY DEF TaskDone, TypeOK
<1>2. tasks[k] \in Tasks(Ranges)
  BY <1>1, TaskType
<1>3. e \in Tasks(Ranges) /\ e.input = tasks[k].input /\ e.state = o
  BY <1>2 DEF Tasks, Outcomes
<1> HIDE DEF e
<1>4. QED
  BY <1>1, <1>3, ExceptSeq DEF TypeOK

(* A retried task stays at the front, with its input.                       *)
LEMMA RetryFrontEffect ==
  ASSUME TypeOK, RetryFront
  PROVE  /\ tasks' \in Seq(Tasks(Ranges))
         /\ tasks # <<>>
         /\ Len(tasks') = Len(tasks)
         /\ \A j \in 1..Len(tasks) : tasks'[j].input = tasks[j].input
<1> DEFINE e == Spawn(tasks[1].input)
<1>1. 1 \in 1..Len(tasks) /\ tasks # <<>>
  BY DEF RetryFront, FrontIs, TypeOK
<1>2. tasks' = [tasks EXCEPT ![1] = e]
  BY <1>1 DEF RetryFront
<1>3. e \in Tasks(Ranges) /\ e.input = tasks[1].input
  BY <1>1, TaskType DEF Tasks, Spawn
<1> HIDE DEF e
<1>4. QED
  BY <1>1, <1>2, <1>3, ExceptSeq DEF TypeOK

(* Tasks that keep their inputs and places, and a call that goes on with    *)
(* its input, change nothing in the line; a call that returns drops it.     *)
LEMMA SameLine ==
  ASSUME TypeOK, UNCHANGED <<results, input>>,
         tasks' \in Seq(Tasks(Ranges)),
         Len(tasks') = Len(tasks),
         \A j \in 1..Len(tasks) : tasks'[j].input = tasks[j].input,
         exec' # "none" => exec # "none"
  PROVE  /\ LineCut
         /\ (exec' = "none" <=> exec = "none") => LineKept
<1>1. Len(tasks) \in Nat /\ Len(results) \in Nat
  BY DEF TypeOK
<1>2. /\ HeldLen' = HeldLen /\ HeldLen \in Nat
      /\ LineLen' \in Nat /\ LineLen \in Nat /\ LineLen' <= LineLen
      /\ (exec' = "none" <=> exec = "none") => LineLen' = LineLen
  BY <1>1 DEF HeldLen, LineLen
<1>3. ASSUME NEW k \in 1..LineLen'
      PROVE  Line(k)' = Line(k)
  <2>1. ASSUME k <= HeldLen PROVE Held(k)' = Held(k)
    BY <1>1, <1>2, <2>1 DEF HeldLen, Held
  <2>2. QED
    BY <1>2, <2>1 DEF Line
<1>4. QED
  BY <1>2, <1>3 DEF LineCut, LineKept

(* A queue that is emptied when the call returns leaves no line.            *)
LEMMA EmptyLine ==
  ASSUME tasks' = <<>>, results' = <<>>, exec' = "none", LineLen \in Nat
  PROVE  LineCut
<1>1. LineLen' = 0
  BY DEF LineLen, HeldLen
<1>2. QED
  BY <1>1 DEF LineCut

(* The front task of the queue.                                             *)
LEMMA FrontType ==
  ASSUME TypeOK, tasks # <<>>
  PROVE  /\ Head(tasks) = tasks[1]
         /\ 1 \in 1..Len(tasks)
         /\ Head(tasks) \in Tasks(Ranges)
         /\ Head(tasks).input \in Ranges
<1>1. tasks \in Seq(Tasks(Ranges)) /\ 1 \in 1..Len(tasks)
  BY DEF TypeOK
<1>2. Head(tasks) = tasks[1]
  BY <1>1, HeadTailProperties
<1>3. QED
  BY <1>1, <1>2, TaskType

(* A new task is a task of the input it is given.                           *)
LEMMA SpawnType ==
  ASSUME NEW i \in Ranges
  PROVE  Spawn(i) \in Tasks(Ranges) /\ Spawn(i).input = i /\ Spawn(i).state = "running"
  BY DEF Spawn, Tasks

(* The new task goes to the end of the queue, behind the one in front of it *)
(* that may have become a result.                                           *)
PushEffect ==
  \/ /\ tasks # <<>> /\ tasks[1].state = "ok"
     /\ Len(results') = 1 /\ results'[1] = tasks[1].input
     /\ Len(tasks') = Len(tasks)
     /\ \A k \in 1..Len(tasks) - 1 : tasks'[k] = tasks[k + 1]
     /\ tasks'[Len(tasks)] = Spawn(input)
  \/ /\ UNCHANGED results
     /\ Len(tasks) < Concurrent
     /\ Len(tasks') = Len(tasks) + 1
     /\ \A k \in 1..Len(tasks) : tasks'[k] = tasks[k]
     /\ tasks'[Len(tasks) + 1] = Spawn(input)

(* What push does to the queue: the front task, if it is done, becomes a    *)
(* result, and the new task is the last.                                    *)
LEMMA PushTaskEffect ==
  ASSUME TypeOK, results = <<>>, PushTask
  PROVE  /\ tasks' \in Seq(Tasks(Ranges)) /\ results' \in Seq(Ranges)
         /\ input \in Ranges
         /\ PushEffect
<1>1. exec = "poll" /\ input \in Ranges
  BY DEF PushTask, Polling, TypeOK
<1>2. Spawn(input) \in Tasks(Ranges)
  BY <1>1, SpawnType
<1>3. tasks \in Seq(Tasks(Ranges)) /\ results \in Seq(Ranges) /\ Len(tasks) \in Nat
  BY DEF TypeOK
<1>4. CASE /\ FrontIs("ok")
           /\ tasks' = Append(Tail(tasks), Spawn(input))
           /\ results' = Append(results, Head(tasks).input)
  <2>1. tasks # <<>> /\ tasks[1].state = "ok" /\ Head(tasks) = tasks[1] /\ Head(tasks).input \in Ranges
    BY <1>4, FrontType DEF FrontIs
  <2>2. /\ Tail(tasks) \in Seq(Tasks(Ranges)) /\ Len(Tail(tasks)) = Len(tasks) - 1
        /\ \A k \in 1..Len(tasks) - 1 : Tail(tasks)[k] = tasks[k + 1]
    BY <1>3, <2>1, HeadTailProperties
  <2>3. /\ tasks' \in Seq(Tasks(Ranges)) /\ Len(tasks') = Len(tasks)
        /\ \A k \in 1..Len(tasks) - 1 : tasks'[k] = tasks[k + 1]
        /\ tasks'[Len(tasks)] = Spawn(input)
    BY <1>2, <1>3, <1>4, <2>2, AppendProperties
  <2>4. results' \in Seq(Ranges) /\ Len(results') = 1 /\ results'[1] = tasks[1].input
    BY <1>3, <1>4, <2>1, AppendProperties
  <2>5. QED
    BY <1>1, <2>1, <2>3, <2>4 DEF PushEffect
<1>5. CASE HasRemaining /\ tasks' = Append(tasks, Spawn(input)) /\ UNCHANGED results
  <2>1. /\ tasks' \in Seq(Tasks(Ranges)) /\ Len(tasks') = Len(tasks) + 1
        /\ \A k \in 1..Len(tasks) : tasks'[k] = tasks[k]
        /\ tasks'[Len(tasks) + 1] = Spawn(input)
    BY <1>2, <1>3, <1>5, AppendProperties
  <2>2. QED
    BY <1>1, <1>3, <1>5, <2>1 DEF PushEffect, HasRemaining
<1>6. QED
  BY <1>4, <1>5 DEF PushTask

(* The line stays as it is.                                                 *)
LEMMA PushKeeps ==
  ASSUME TypeOK, results = <<>>, PushTask
  PROVE  LineKept
<1>1. exec = "poll" /\ exec' = "none"
  BY DEF PushTask, Polling
<1>2. Len(tasks) \in Nat /\ Len(results) = 0
  BY DEF TypeOK
<1>3. PushEffect /\ Spawn(input).input = input
  BY PushTaskEffect, SpawnType
<1>4. /\ HeldLen = Len(tasks) /\ HeldLen' = Len(tasks) + 1
      /\ LineLen = Len(tasks) + 1 /\ LineLen' = Len(tasks) + 1
  <2>1. Len(results') + Len(tasks') = Len(tasks) + 1
    <3>1. CASE Len(results') = 1 /\ Len(tasks') = Len(tasks)
      BY <1>2, <3>1
    <3>2. CASE results' = results /\ Len(tasks') = Len(tasks) + 1
      BY <1>2, <3>2
    <3>3. QED
      BY <1>3, <3>1, <3>2 DEF PushEffect
  <2>2. QED
    BY <1>1, <1>2, <2>1 DEF HeldLen, LineLen
<1>5. ASSUME NEW k \in 1..LineLen'
      PROVE  Line(k)' = Line(k)
  <2>1. Line(k)' = Held(k)' /\ Line(k) = IF k <= Len(tasks) THEN tasks[k].input ELSE input
    BY <1>2, <1>4 DEF Line, Held
  <2>2. CASE Len(results') = 1 /\ results'[1] = tasks[1].input /\ Len(tasks) > 0
             /\ (\A j \in 1..Len(tasks) - 1 : tasks'[j] = tasks[j + 1])
             /\ tasks'[Len(tasks)] = Spawn(input)
    <3>1. CASE k = 1
      BY <1>2, <1>4, <2>1, <2>2, <3>1 DEF Held
    <3>2. CASE k > 1 /\ k <= Len(tasks)
      <4>1. k - 1 \in 1..Len(tasks) - 1 /\ (k - 1) + 1 = k
        BY <1>2, <3>2
      <4>2. tasks'[k - 1] = tasks[k]
        BY <2>2, <4>1
      <4>3. QED
        BY <1>2, <1>4, <2>1, <2>2, <3>2, <4>2 DEF Held
    <3>3. CASE k = Len(tasks) + 1
      <4>1. k - 1 = Len(tasks)
        BY <1>2, <3>3
      <4>2. QED
        BY <1>2, <1>3, <1>4, <2>1, <2>2, <3>3, <4>1 DEF Held
    <3>4. QED
      BY <1>2, <1>4, <3>1, <3>2, <3>3
  <2>3. CASE UNCHANGED results /\ (\A j \in 1..Len(tasks) : tasks'[j] = tasks[j])
             /\ tasks'[Len(tasks) + 1] = Spawn(input)
    BY <1>2, <1>3, <1>4, <2>1, <2>3 DEF Held
  <2>4. QED
    BY <1>2, <1>3, <2>2, <2>3 DEF PushEffect, TypeOK
<1>6. QED
  BY <1>2, <1>4, <1>5 DEF LineKept, LineCut

(* A task that runs inline becomes the only result.                         *)
LEMMA InlineOkKeeps ==
  ASSUME TypeOK, results = <<>>, tasks = <<>>, InlineOk
  PROVE  /\ results' \in Seq(Ranges) /\ Len(results') = 1 /\ results'[1] = input
         /\ LineKept
<1>1. exec = "inline" /\ exec' = "none" /\ input \in Ranges /\ results' = Append(results, input)
      /\ UNCHANGED tasks
  BY DEF InlineOk, TypeOK
<1>2. results' \in Seq(Ranges) /\ Len(results') = 1 /\ results'[1] = input
  BY <1>1, AppendProperties DEF TypeOK
<1>3. LineLen = 1 /\ LineLen' = 1 /\ HeldLen = 0 /\ HeldLen' = 1
  BY <1>1, <1>2 DEF LineLen, HeldLen
<1>4. Line(1) = input /\ Line(1)' = input
  BY <1>2, <1>3 DEF Line, Held
<1>5. QED
  BY <1>2, <1>3, <1>4 DEF LineKept, LineCut

(* A new call takes the chunk r.                                            *)
LEMMA StartGains ==
  ASSUME TypeOK, NEW r, StartExecute(r)
  PROVE  LineGains(r)
<1>1. Len(tasks) \in Nat /\ Len(results) \in Nat
  BY DEF TypeOK
<1>2. /\ HeldLen \in Nat /\ HeldLen' = HeldLen
      /\ LineLen = HeldLen /\ LineLen' = HeldLen + 1
  BY <1>1 DEF StartExecute, HeldLen, LineLen
<1>3. ASSUME NEW k \in 1..LineLen PROVE Line(k)' = Line(k)
  BY <1>1, <1>2 DEF StartExecute, Line, Held
<1>4. ASSUME NEW k \in Nat, k = LineLen + 1 PROVE Line(k)' = r
  BY <1>2, <1>4 DEF StartExecute, Line
<1>5. QED
  BY <1>2, <1>3, <1>4 DEF LineGains

(* `next` takes the first chunk, from the results or from the queue.        *)
LEMMA NextTakes ==
  ASSUME TypeOK, exec = "none", NEW r, NextReturns(r)
  PROVE  /\ tasks' \in Seq(Tasks(Ranges)) /\ Len(tasks') <= Len(tasks)
         /\ results' \in Seq(Ranges) /\ Len(results') <= Len(results)
         /\ results # <<>> => Len(results') = Len(results) - 1
         /\ LineLoses(r)
<1>1. /\ tasks \in Seq(Tasks(Ranges)) /\ results \in Seq(Ranges)
      /\ Len(tasks) \in Nat /\ Len(results) \in Nat /\ exec' = "none"
  BY DEF TypeOK, NextReturns
<1>2. CASE results # <<>> /\ r = Head(results) /\ results' = Tail(results) /\ UNCHANGED tasks
  <2>1. /\ results' \in Seq(Ranges) /\ Len(results) > 0 /\ Len(results') = Len(results) - 1
        /\ \A k \in 1..Len(results) - 1 : results'[k] = results[k + 1]
        /\ r = results[1]
    BY <1>1, <1>2, HeadTailProperties
  <2>2. /\ HeldLen' = HeldLen - 1 /\ HeldLen > 0 /\ HeldLen \in Nat
        /\ LineLen = HeldLen /\ LineLen' = HeldLen'
    BY <1>1, <1>2, <2>1 DEF HeldLen, LineLen
  <2>3. ASSUME NEW k \in 1..LineLen' PROVE Line(k)' = Line(k + 1)
    BY <1>1, <1>2, <2>1, <2>2 DEF HeldLen, Held, Line
  <2>4. r = Line(1)
    BY <1>1, <2>1, <2>2 DEF Held, Line
  <2>5. QED
    BY <1>1, <1>2, <2>1, <2>2, <2>3, <2>4 DEF LineLoses
<1>3. CASE /\ results = <<>> /\ FrontIs("ok") /\ r = Head(tasks).input
           /\ tasks' = Tail(tasks) /\ UNCHANGED results
  <2>1. /\ tasks' \in Seq(Tasks(Ranges)) /\ Len(tasks) > 0 /\ Len(tasks') = Len(tasks) - 1
        /\ \A k \in 1..Len(tasks) - 1 : tasks'[k] = tasks[k + 1]
        /\ r = tasks[1].input
    BY <1>1, <1>3, HeadTailProperties DEF FrontIs
  <2>2. /\ HeldLen' = HeldLen - 1 /\ HeldLen > 0 /\ HeldLen \in Nat /\ HeldLen = Len(tasks)
        /\ LineLen = HeldLen /\ LineLen' = HeldLen' /\ Len(results) = 0 /\ Len(results') = 0
    BY <1>1, <1>3, <2>1 DEF HeldLen, LineLen
  <2>3. ASSUME NEW k \in 1..LineLen' PROVE Line(k)' = Line(k + 1)
    BY <1>1, <2>1, <2>2 DEF HeldLen, Held, Line
  <2>4. r = Line(1)
    BY <1>1, <2>1, <2>2 DEF Held, Line
  <2>5. LineLoses(r)
    BY <2>2, <2>3, <2>4 DEF LineLoses
  <2>6. results' = results
    BY <1>3
  <2>7. QED
    BY <1>1, <1>3, <2>1, <2>5, <2>6
<1>4. QED
  BY <1>2, <1>3 DEF NextReturns

-----------------------------------------------------------------------------
(* The generator.                                                           *)

(* The minimum of two numbers.                                              *)
LEMMA MinOfTwo ==
  ASSUME NEW a \in Int, NEW b \in Int
  PROVE  Min({a, b}) \in {a, b} /\ Min({a, b}) <= a /\ Min({a, b}) <= b
<1>1. \E x \in {a, b} : \A y \in {a, b} : x =< y
  <2>1. CASE a <= b
    BY <2>1
  <2>2. CASE b <= a
    BY <2>2
  <2>3. QED
    BY <2>1, <2>2
<1>2. Min({a, b}) \in {a, b} /\ \A y \in {a, b} : Min({a, b}) =< y
  BY <1>1 DEF Min
<1>3. QED
  BY <1>2

(* The next range starts where the last one ended, is not empty and goes no *)
(* further than what is asked for.                                          *)
LEMMA ChunkRange ==
  ASSUME TypeOK, NEW r, NextRange(r)
  PROVE  /\ r \in Ranges
         /\ r.off = offset
         /\ r.size \in 1..Total
         /\ offset' = offset + r.size
         /\ size' = size - r.size
         /\ offset' \in 0..Total /\ size' \in 0..Total /\ offset' + size' = Total
<1>1. /\ Chunk \in Nat \ {0} /\ Chunk # NoSize /\ NoSize \notin Int /\ Total \in Nat
  BY ReadAssumption DEF ReadConstants, ChunkAssumption
<1>2. size \in 1..Total /\ size # NoSize /\ offset \in 0..Total /\ offset + size = Total
  BY <1>1 DEF TypeOK, NextRange
<1> DEFINE n == Min({size, Chunk})
<1>3. n \in Int /\ 1 <= n /\ n <= size
  <2>1. size \in Int /\ Chunk \in Int
    BY <1>1, <1>2
  <2>2. n \in {size, Chunk} /\ n <= size
    BY <2>1, MinOfTwo
  <2> HIDE DEF n
  <2>3. QED
    BY <1>1, <1>2, <2>2
<1>4. r = [off |-> offset, size |-> n]
  BY <1>1, <1>2 DEF NextRange
<1>5. offset' = offset + r.size /\ size' = size - r.size
  BY <1>2 DEF NextRange
<1> HIDE DEF n
<1>6. QED
  BY <1>1, <1>2, <1>3, <1>4, <1>5 DEF Ranges

-----------------------------------------------------------------------------
(* The order of the chunks and of the bytes returned.                       *)

(* Nothing is out of order when chunks leave at the end.                    *)
LEMMA OrderCut ==
  ASSUME TypeOK, OrderInv, LineCut, offset' \in Nat, offset' >= offset, UNCHANGED out
  PROVE  OrderInv'
<1>1. /\ LineLen \in Nat /\ LineLen' \in Nat /\ LineLen' <= LineLen
      /\ \A k \in 1..LineLen : Line(k).off \in Nat /\ Line(k).size \in Nat
      /\ \A k \in 1..LineLen' : k \in 1..LineLen /\ Line(k)' = Line(k)
  BY LineType DEF LineCut
<1>2. offset \in Nat /\ out \in Seq(Nat)
  BY DEF TypeOK
<1>3. ASSUME NEW k \in 1..LineLen' PROVE (Line(k).off + Line(k).size <= offset)'
  BY <1>1, <1>2 DEF OrderInv
<1>4. ASSUME NEW k \in 1..LineLen', NEW l \in 1..LineLen', k < l
      PROVE  (Line(k).off + Line(k).size <= Line(l).off)'
  BY <1>1, <1>4 DEF OrderInv
<1>5. ASSUME NEW i \in 1..Len(out') PROVE (out[i] <= offset)'
  BY <1>2 DEF OrderInv
<1>6. ASSUME NEW i \in 1..Len(out'), NEW k \in 1..LineLen' PROVE (out[i] <= Line(k).off)'
  BY <1>1 DEF OrderInv
<1>7. \A i, j \in 1..Len(out') : i < j => out'[i] < out'[j]
  BY DEF OrderInv
<1>8. QED
  BY <1>3, <1>4, <1>5, <1>6, <1>7 DEF OrderInv

(* A new chunk comes behind the others.                                     *)
LEMMA OrderGains ==
  ASSUME TypeOK, OrderInv, NEW r, NextRange(r), LineGains(r), UNCHANGED out
  PROVE  OrderInv'
<1>1. /\ LineLen \in Nat /\ LineLen' = LineLen + 1
      /\ \A k \in 1..LineLen : Line(k).off \in Nat /\ Line(k).size \in Nat /\ Line(k)' = Line(k)
      /\ \A k \in Nat : k = LineLen + 1 => Line(k)' = r
  BY LineType DEF LineGains
<1>2. offset \in Nat /\ out \in Seq(Nat)
  BY DEF TypeOK
<1>3. r.off = offset /\ r.size \in Nat /\ offset' = offset + r.size
  BY ChunkRange
<1>4. \A k \in 1..LineLen' : k \in 1..LineLen \/ (k = LineLen + 1 /\ Line(k)' = r)
  BY <1>1
<1>5. ASSUME NEW k \in 1..LineLen' PROVE (Line(k).off + Line(k).size <= offset)'
  BY <1>1, <1>2, <1>3, <1>4, SMTT(30) DEF OrderInv
<1>6. ASSUME NEW k \in 1..LineLen', NEW l \in 1..LineLen', k < l
      PROVE  (Line(k).off + Line(k).size <= Line(l).off)'
  <2>1. k \in 1..LineLen
    BY <1>1, <1>6
  <2>2. CASE l \in 1..LineLen
    BY <1>1, <1>6, <2>1, <2>2 DEF OrderInv
  <2>3. CASE Line(l)' = r
    BY <1>1, <1>2, <1>3, <2>1, <2>3 DEF OrderInv
  <2>4. QED
    BY <1>4, <2>2, <2>3
<1>7. ASSUME NEW i \in 1..Len(out') PROVE (out[i] <= offset)'
  BY <1>2, <1>3 DEF OrderInv
<1>8. ASSUME NEW i \in 1..Len(out'), NEW k \in 1..LineLen' PROVE (out[i] <= Line(k).off)'
  BY <1>1, <1>2, <1>3, <1>4 DEF OrderInv
<1>9. \A i, j \in 1..Len(out') : i < j => out'[i] < out'[j]
  BY DEF OrderInv
<1>10. QED
  BY <1>5, <1>6, <1>7, <1>8, <1>9 DEF OrderInv

(* The bytes of a chunk that a task returns, whatever it has lost.          *)
LEMMA ReadAllBytes ==
  ASSUME TypeOK, NEW r \in Ranges, lost[r.off] <= r.size
  PROVE  /\ ReadAll(r) \in Seq(Nat)
         /\ Len(ReadAll(r)) = r.size - lost[r.off]
         /\ \A i \in 1..Len(ReadAll(r)) : /\ ReadAll(r)[i] = r.off + lost[r.off] + i
                                          /\ r.off < ReadAll(r)[i]
                                          /\ ReadAll(r)[i] <= r.off + r.size
<1>1. Total \in Nat
  BY ReadAssumption DEF ReadConstants
<1>2. r.off \in 0..Total /\ r.size \in 1..Total /\ lost[r.off] \in 0..Total
  BY <1>1 DEF Ranges, TypeOK
<1> DEFINE m == lost[r.off]
           n == r.size - m
<1>3. m \in Nat /\ n \in Nat /\ n + m = r.size
  BY <1>1, <1>2
<1>4. ReadAll(r) = [i \in 1..n |-> (r.off + m) + i]
  BY DEF ReadAll, Bytes
<1> HIDE DEF m, n
<1>5. ReadAll(r) \in Seq(Nat) /\ Len(ReadAll(r)) = n
  <2>1. ReadAll(r) \in [1..n -> Nat]
    BY <1>2, <1>3, <1>4
  <2>2. QED
    BY <1>3, <1>4, <2>1, IsASeq, LenProperties
<1>6. \A i \in 1..n : ReadAll(r)[i] = r.off + m + i
  BY <1>3, <1>4
<1>7. QED
  BY <1>2, <1>3, <1>5, <1>6 DEF m, n

(* What ends before a place is before it.                                   *)
LEMMA Ahead ==
  ASSUME NEW a \in Nat, NEW s \in Nat, NEW b \in Nat, s >= 1, a + s <= b
  PROVE  a < b /\ a # b
  OBVIOUS

(* The bytes of the first chunk come behind the bytes returned and before   *)
(* the other chunks.                                                        *)
LEMMA OrderLoses ==
  ASSUME TypeOK, OrderInv, NEW r \in Ranges, LineLoses(r), lost[r.off] <= r.size,
         out' = out \o ReadAll(r), UNCHANGED offset
  PROVE  OrderInv'
<1>1. /\ LineLen \in Nat /\ LineLen > 0 /\ LineLen' = LineLen - 1
      /\ 1 \in 1..LineLen /\ r = Line(1)
      /\ \A k \in 1..LineLen : Line(k).off \in Nat /\ Line(k).size \in Nat
      /\ \A k \in 1..LineLen' : /\ k + 1 \in 1..LineLen /\ k \in Int /\ 1 < k + 1
                               /\ Line(k)' = Line(k + 1)
  BY LineType DEF LineLoses
<1>2. offset \in Nat /\ out \in Seq(Nat) /\ Len(out) \in Nat
  BY DEF TypeOK
<1>3. r.off + r.size <= offset /\ r.off \in Nat /\ r.size \in Nat
  BY <1>1 DEF OrderInv
<1> DEFINE bs == ReadAll(r)
<1>4. /\ bs \in Seq(Nat) /\ Len(bs) \in Nat
      /\ \A i \in 1..Len(bs) : /\ bs[i] \in Nat /\ bs[i] = r.off + lost[r.off] + i
                               /\ r.off < bs[i] /\ bs[i] <= r.off + r.size
  BY ReadAllBytes
<1>5. lost[r.off] \in Nat
  BY <1>3, ReadAssumption DEF TypeOK, Ranges, ReadConstants
<1> HIDE DEF bs
<1>6. /\ Len(out') = Len(out) + Len(bs)
      /\ \A i \in 1..Len(out') : \/ i \in 1..Len(out) /\ out'[i] = out[i]
                                 \/ i > Len(out) /\ i - Len(out) \in 1..Len(bs)
                                    /\ out'[i] = bs[i - Len(out)]
  BY <1>2, <1>4, ConcatProperties DEF bs
<1>7. ASSUME NEW k \in 1..LineLen' PROVE (Line(k).off + Line(k).size <= offset)'
  BY <1>1 DEF OrderInv
<1>8. ASSUME NEW k \in 1..LineLen', NEW l \in 1..LineLen', k < l
      PROVE  (Line(k).off + Line(k).size <= Line(l).off)'
  <2>1. k + 1 \in 1..LineLen /\ l + 1 \in 1..LineLen /\ k + 1 < l + 1
    BY <1>1, <1>8
  <2>2. QED
    BY <1>1, <2>1 DEF OrderInv
<1>9. \A i \in 1..Len(out) : out[i] \in Nat /\ out[i] <= r.off /\ out[i] <= offset
  BY <1>1, <1>2 DEF OrderInv
<1>10. ASSUME NEW i \in 1..Len(out') PROVE out'[i] \in Nat /\ out'[i] <= r.off + r.size
  BY <1>3, <1>4, <1>6, <1>9
<1>11. ASSUME NEW i \in 1..Len(out') PROVE (out[i] <= offset)'
  BY <1>2, <1>3, <1>10
<1>12. ASSUME NEW i \in 1..Len(out'), NEW k \in 1..LineLen' PROVE (out[i] <= Line(k).off)'
  <2>1. r.off + r.size <= Line(k + 1).off
    BY <1>1 DEF OrderInv
  <2>2. QED
    <3>1. Line(k)' = Line(k + 1) /\ Line(k + 1).off \in Nat
      BY <1>1
    <3>2. out'[i] <= Line(k + 1).off
      BY <1>3, <1>10, <2>1, <3>1
    <3>3. QED
      BY <3>1, <3>2
<1>13. ASSUME NEW i \in 1..Len(out'), NEW j \in 1..Len(out'), i < j
       PROVE  out'[i] < out'[j]
  <2>1. CASE j \in 1..Len(out)
    BY <1>2, <1>6, <1>13, <2>1 DEF OrderInv
  <2>2. CASE i \in 1..Len(out) /\ j > Len(out)
    <3>1. out'[i] \in Nat /\ out'[i] <= r.off
      BY <1>2, <1>6, <1>9, <2>2
    <3>2. out'[j] \in Nat /\ r.off < out'[j]
      BY <1>2, <1>4, <1>6, <2>2
    <3>3. QED
      BY <1>3, <3>1, <3>2, SMTT(30)
  <2>3. CASE i > Len(out) /\ j > Len(out)
    <3>1. /\ i - Len(out) \in 1..Len(bs) /\ out'[i] = bs[i - Len(out)]
          /\ j - Len(out) \in 1..Len(bs) /\ out'[j] = bs[j - Len(out)]
      BY <1>2, <1>6, <2>3
    <3>2. /\ out'[i] = r.off + lost[r.off] + (i - Len(out))
          /\ out'[j] = r.off + lost[r.off] + (j - Len(out))
      BY <1>4, <3>1
    <3>3. r.off + lost[r.off] \in Nat /\ i \in Int /\ j \in Int
      BY <1>3, <1>5
    <3>4. QED
      BY <1>2, <1>13, <3>2, <3>3
  <2>4. QED
    BY <1>2, <1>6, <1>13, <2>1, <2>2, <2>3
<1>14. QED
  BY <1>7, <1>8, <1>11, <1>12, <1>13 DEF OrderInv

-----------------------------------------------------------------------------
(* What the chunks have lost.                                               *)

(* Nothing is lost when chunks leave at the end or the generator moves on.  *)
LEMMA LostCut ==
  ASSUME TypeOK, LostInv, LineCut, offset' \in Nat, offset' >= offset, UNCHANGED lost,
         exec' # "none" => exec # "none" /\ UNCHANGED input
  PROVE  LostInv'
<1>1. /\ LineLen \in Nat
      /\ \A k \in 1..LineLen' : k \in 1..LineLen /\ Line(k)' = Line(k)
  BY LineType DEF LineCut
<1>2. ASSUME NEW k \in 1..LineLen' PROVE (lost[Line(k).off] <= Line(k).size)'
  BY <1>1 DEF LostInv
<1>3. ASSUME NEW o \in 0..Total, o >= offset' PROVE lost'[o] = 0
  <2>1. o >= offset
    BY <1>3, ReadAssumption DEF TypeOK, ReadConstants
  <2>2. QED
    BY <2>1 DEF LostInv
<1>4. exec' # "none" => lost'[input'.off] = 0
  BY DEF LostInv
<1>5. QED
  BY <1>2, <1>3, <1>4 DEF LostInv

(* A new chunk has lost nothing.                                            *)
LEMMA LostGains ==
  ASSUME TypeOK, LostInv, NEW r, NextRange(r), LineGains(r), UNCHANGED lost, input' = r
  PROVE  LostInv'
<1>1. /\ LineLen \in Nat /\ LineLen' = LineLen + 1
      /\ \A k \in 1..LineLen : Line(k)' = Line(k)
      /\ \A k \in Nat : k = LineLen + 1 => Line(k)' = r
  BY LineType DEF LineGains
<1>2. \A k \in 1..LineLen' : k \in 1..LineLen \/ Line(k)' = r
  BY <1>1
<1>3. /\ r.off = offset /\ r.size \in 1..Total /\ offset' = offset + r.size
      /\ offset' \in 0..Total /\ Total \in Nat /\ offset \in 0..Total
  BY ChunkRange, ReadAssumption DEF ReadConstants, TypeOK
<1>4. lost[r.off] = 0
  BY <1>3 DEF LostInv
<1>5. ASSUME NEW k \in 1..LineLen' PROVE (lost[Line(k).off] <= Line(k).size)'
  <2>1. CASE k \in 1..LineLen
    BY <1>1, <2>1 DEF LostInv
  <2>2. CASE Line(k)' = r
    BY <1>3, <1>4, <2>2
  <2>3. QED
    BY <1>2, <2>1, <2>2
<1>6. ASSUME NEW o \in 0..Total, o >= offset' PROVE lost'[o] = 0
  <2>1. o >= offset
    BY <1>3, <1>6
  <2>2. QED
    BY <2>1 DEF LostInv
<1>7. QED
  BY <1>4, <1>5, <1>6 DEF LostInv

(* Taking the first chunk changes nothing for the others.                   *)
LEMMA LostLoses ==
  ASSUME TypeOK, LostInv, NEW r, LineLoses(r), UNCHANGED <<lost, offset>>, exec' = "none"
  PROVE  LostInv'
<1>1. \A k \in 1..LineLen' : k + 1 \in 1..LineLen /\ Line(k)' = Line(k + 1)
  BY LineType DEF LineLoses
<1>2. ASSUME NEW k \in 1..LineLen' PROVE (lost[Line(k).off] <= Line(k).size)'
  BY <1>1 DEF LostInv
<1>3. \A o \in 0..Total : o >= offset' => lost'[o] = 0
  BY DEF LostInv
<1>4. QED
  BY <1>2, <1>3 DEF LostInv

(* When the chunk at place q loses bytes of its own, the others lose        *)
(* nothing.                                                                 *)
LEMMA LostByChunk ==
  ASSUME TypeOK, OrderInv, LostInv, LineKept, NEW q \in 1..LineLen,
         exec # "none" => q # LineLen,
         NEW n \in Nat, n <= Line(q).size,
         lost' = [lost EXCEPT ![Line(q).off] = n],
         UNCHANGED <<offset, exec, input>>
  PROVE  /\ LostInv' /\ lost' \in [0..Total -> 0..Total]
         /\ \A l \in 1..LineLen : l # q => lost'[Line(l).off] = lost[Line(l).off]
<1>1. Total \in Nat /\ lost \in [0..Total -> 0..Total] /\ offset \in 0..Total
  BY ReadAssumption DEF ReadConstants, TypeOK
<1>2. \A l \in 1..LineLen : /\ Line(l).off \in 0..Total /\ Line(l).off \in Nat
                            /\ Line(l).size \in Nat /\ Line(l).size >= 1 /\ Line(l).size <= Total
  BY <1>1, LineType
<1>3. LineLen \in Nat /\ LineLen' = LineLen /\ \A l \in 1..LineLen : Line(l)' = Line(l)
  BY LineType DEF LineKept, LineCut
<1>4. n \in 0..Total
  BY <1>1, <1>2, SMTT(30)
<1>5. ASSUME NEW l \in 1..LineLen, l # q
      PROVE  Line(l).off # Line(q).off
  <2>1. CASE l < q
    <3>1. Line(l).off + Line(l).size <= Line(q).off
      BY <2>1 DEF OrderInv
    <3>2. QED
      BY <1>2, <3>1, Ahead
  <2>2. CASE q < l
    <3>1. Line(q).off + Line(q).size <= Line(l).off
      BY <2>2 DEF OrderInv
    <3>2. QED
      BY <1>2, <3>1, Ahead
  <2>3. QED
    BY <1>3, <1>5, <2>1, <2>2
<1>6. lost' \in [0..Total -> 0..Total] /\ lost'[Line(q).off] = n
      /\ \A o \in 0..Total : o # Line(q).off => lost'[o] = lost[o]
  BY <1>1, <1>2, <1>4
<1>7. \A l \in 1..LineLen : l # q => lost'[Line(l).off] = lost[Line(l).off]
  BY <1>2, <1>5, <1>6
<1>8. ASSUME NEW l \in 1..LineLen' PROVE (lost[Line(l).off] <= Line(l).size)'
  <2>1. CASE l = q
    BY <1>3, <1>6, <2>1
  <2>2. CASE l # q
    BY <1>3, <1>7, <2>2 DEF LostInv
  <2>3. QED
    BY <2>1, <2>2
<1>9. ASSUME NEW o \in 0..Total, o >= offset' PROVE lost'[o] = 0
  <2>1. Line(q).off + Line(q).size <= offset /\ offset \in Nat /\ o \in Nat
    BY <1>1 DEF OrderInv
  <2>2. Line(q).off < offset
    BY <1>2, <2>1, Ahead
  <2>3. o # Line(q).off
    BY <1>2, <1>9, <2>1, <2>2
  <2>4. QED
    BY <1>6, <1>9, <2>3 DEF LostInv
<1>10. ASSUME exec' # "none" PROVE lost'[input'.off] = 0
  <2>1. /\ exec # "none" /\ LineLen \in 1..LineLen /\ Line(LineLen) = input
        /\ lost[input.off] = 0 /\ LineLen # q
    BY <1>3, <1>10, LinePlaces DEF LostInv
  <2>2. QED
    BY <1>7, <2>1
<1>11. QED
  BY <1>6, <1>7, <1>8, <1>9, <1>10 DEF LostInv

-----------------------------------------------------------------------------
(* The line has no gap.                                                     *)

(* While the line of chunks stays as it is, nothing comes between it and    *)
(* the bytes returned.                                                      *)
LEMMA ExactKept ==
  ASSUME TypeOK, ExactLine, LineKept, UNCHANGED <<out, offset, size, failed>>,
         ended' => ended \/ (LineLen = 0 /\ size = 0)
  PROVE  ExactLine'
<1>1. LineLen \in Nat /\ LineLen' = LineLen /\ \A k \in 1..LineLen : Line(k)' = Line(k)
  BY LineType DEF LineKept, LineCut
<1>2. SUFFICES ASSUME failed' = {} PROVE ExactLine'
  BY DEF ExactLine
<1>3. /\ \A i \in 1..Len(out) : out[i] = i
      /\ LineLen = 0 => Len(out) = offset
      /\ LineLen > 0 => Line(1).off = Len(out)
      /\ \A k \in 1..LineLen : k + 1 <= LineLen => Line(k).off + Line(k).size = Line(k + 1).off
      /\ \A k \in 1..LineLen : k = LineLen => Line(k).off + Line(k).size = offset
      /\ ended => LineLen = 0 /\ size = 0
  BY <1>2 DEF ExactLine
<1>4. LineLen' > 0 => Line(1)'.off = Len(out')
  BY <1>1, <1>3
<1>5. ASSUME NEW k \in 1..LineLen', k + 1 <= LineLen'
      PROVE  (Line(k).off + Line(k).size = Line(k + 1).off)'
  <2>1. k \in 1..LineLen /\ k + 1 \in 1..LineLen
    BY <1>1, <1>5
  <2>2. Line(k)' = Line(k) /\ Line(k + 1)' = Line(k + 1)
    BY <1>1, <2>1
  <2>3. QED
    BY <1>1, <1>3, <1>5, <2>1, <2>2
<1>6. ASSUME NEW k \in 1..LineLen', k = LineLen'
      PROVE  (Line(k).off + Line(k).size = offset)'
  BY <1>1, <1>3, <1>6
<1>7. QED
  BY <1>1, <1>3, <1>4, <1>5, <1>6 DEF ExactLine

(* The new chunk starts where the last one ends.                            *)
LEMMA ExactGains ==
  ASSUME TypeOK, ExactLine, NEW r, NextRange(r), LineGains(r), UNCHANGED <<out, failed, ended>>
  PROVE  ExactLine'
<1>1. /\ LineLen \in Nat /\ LineLen' = LineLen + 1
      /\ \A k \in 1..LineLen : Line(k)' = Line(k)
      /\ \A k \in Nat : k = LineLen + 1 => Line(k)' = r
  BY LineType DEF LineGains
<1>2. r.off = offset /\ offset' = offset + r.size /\ size # 0
  BY ChunkRange DEF NextRange
<1>3. SUFFICES ASSUME failed' = {} PROVE ExactLine'
  BY DEF ExactLine
<1>4. /\ \A i \in 1..Len(out) : out[i] = i
      /\ LineLen = 0 => Len(out) = offset
      /\ LineLen > 0 => Line(1).off = Len(out)
      /\ \A k \in 1..LineLen : k + 1 <= LineLen => Line(k).off + Line(k).size = Line(k + 1).off
      /\ \A k \in 1..LineLen : k = LineLen => Line(k).off + Line(k).size = offset
      /\ ended => LineLen = 0 /\ size = 0
  BY <1>3 DEF ExactLine
<1>5. Line(1)'.off = Len(out')
  <2>1. CASE LineLen = 0
    BY <1>1, <1>2, <1>4, <2>1
  <2>2. CASE LineLen > 0
    BY <1>1, <1>4, <2>2
  <2>3. QED
    BY <1>1, <2>1, <2>2
<1>6. ASSUME NEW k \in 1..LineLen', k + 1 <= LineLen'
      PROVE  (Line(k).off + Line(k).size = Line(k + 1).off)'
  <2>1. k \in 1..LineLen /\ Line(k)' = Line(k)
    BY <1>1, <1>6
  <2>2. CASE k + 1 <= LineLen
    <3>1. Line(k + 1)' = Line(k + 1)
      BY <1>1, <2>1, <2>2
    <3>2. QED
      BY <1>4, <2>1, <2>2, <3>1
  <2>3. CASE k = LineLen
    <3>1. Line(k + 1)' = r
      BY <1>1, <2>3
    <3>2. QED
      BY <1>2, <1>4, <2>1, <2>3, <3>1
  <2>4. QED
    BY <1>1, <1>6, <2>1, <2>2, <2>3
<1>7. ASSUME NEW k \in 1..LineLen', k = LineLen'
      PROVE  (Line(k).off + Line(k).size = offset)'
  <2>1. Line(k)' = r
    BY <1>1, <1>7
  <2>2. QED
    BY <1>2, <2>1
<1>8. QED
  BY <1>1, <1>2, <1>4, <1>5, <1>6, <1>7 DEF ExactLine

(* The first chunk, of which nothing is lost, is the continuation of the    *)
(* bytes returned.                                                          *)
LEMMA ExactLoses ==
  ASSUME TypeOK, ExactLine, NEW r \in Ranges, LineLoses(r),
         failed = {} => lost[r.off] = 0,
         ReturnBuffer(ReadAll(r)), UNCHANGED <<offset, failed>>
  PROVE  ExactLine'
<1>1. /\ LineLen \in Nat /\ LineLen > 0 /\ LineLen' = LineLen - 1
      /\ r = Line(1) /\ 1 \in 1..LineLen
      /\ r.off \in Nat /\ r.size \in Nat /\ r.size >= 1
      /\ \A k \in 1..LineLen' : /\ k \in Int /\ k + 1 \in 1..LineLen
                               /\ Line(k)' = Line(k + 1)
  BY LineType DEF LineLoses
<1>2. SUFFICES ASSUME failed' = {} PROVE ExactLine'
  BY DEF ExactLine
<1>3. /\ \A i \in 1..Len(out) : out[i] = i
      /\ Line(1).off = Len(out)
      /\ \A k \in 1..LineLen : k + 1 <= LineLen => Line(k).off + Line(k).size = Line(k + 1).off
      /\ \A k \in 1..LineLen : k = LineLen => Line(k).off + Line(k).size = offset
      /\ ~ended
  BY <1>1, <1>2 DEF ExactLine
<1> DEFINE bs == ReadAll(r)
<1>4. lost[r.off] = 0
  BY <1>2
<1>5. bs \in Seq(Nat) /\ Len(bs) = r.size /\ \A i \in 1..Len(bs) : bs[i] = r.off + i
  <2>1. lost[r.off] <= r.size
    BY <1>1, <1>4
  <2>2. /\ bs \in Seq(Nat) /\ Len(bs) = r.size - lost[r.off]
        /\ \A i \in 1..Len(bs) : bs[i] = r.off + lost[r.off] + i
    BY <2>1, ReadAllBytes
  <2> HIDE DEF bs
  <2>3. QED
    BY <1>1, <1>4, <2>2
<1>6. out \in Seq(Nat) /\ Len(out) \in Nat
  BY DEF TypeOK
<1>7. out' = out \o bs /\ ended' = (ended \/ bs = <<>>)
  BY DEF ReturnBuffer
<1> HIDE DEF bs
<1>8. ~ended'
  <2>1. Len(bs) # 0
    BY <1>1, <1>5
  <2>2. bs # <<>>
    BY <2>1
  <2>3. QED
    BY <1>3, <1>7, <2>2, Zenon
<1>9. /\ Len(out') = Len(out) + r.size
      /\ \A i \in 1..Len(out') : out'[i] = IF i <= Len(out) THEN out[i] ELSE bs[i - Len(out)]
  <2>1. /\ Len(out \o bs) = Len(out) + Len(bs)
        /\ \A i \in 1..Len(out) + Len(bs) :
             (out \o bs)[i] = IF i <= Len(out) THEN out[i] ELSE bs[i - Len(out)]
    <3>1. out \in Seq(Nat) /\ bs \in Seq(Nat)
      BY <1>5, <1>6
    <3>2. QED
      BY ONLY <3>1, ConcatProperties
  <2>2. out' = out \o bs /\ Len(bs) = r.size
    BY <1>5, <1>7
  <2>3. QED
    BY ONLY <2>1, <2>2
<1>10. ASSUME NEW i \in 1..Len(out') PROVE out'[i] = i
  <2>1. CASE i <= Len(out)
    BY <1>3, <1>6, <1>9, <2>1
  <2>2. CASE i > Len(out)
    <3>1. i - Len(out) \in 1..Len(bs)
      BY <1>1, <1>5, <1>6, <1>9, <2>2
    <3>2. bs[i - Len(out)] = r.off + (i - Len(out))
      BY <1>5, <3>1
    <3>3. r.off = Len(out) /\ out'[i] = bs[i - Len(out)]
      BY <1>1, <1>3, <1>6, <1>9, <2>2
    <3>4. QED
      BY <1>6, <3>2, <3>3
  <2>3. QED
    BY <1>6, <2>1, <2>2
<1>11. LineLen' = 0 => Len(out') = offset'
  BY <1>1, <1>3, <1>6, <1>9
<1>12. LineLen' > 0 => Line(1)'.off = Len(out')
  <2>1. SUFFICES ASSUME LineLen' > 0 PROVE Line(1)'.off = Len(out')
    OBVIOUS
  <2>2. Line(1)' = Line(2) /\ 1 + 1 <= LineLen /\ 1 + 1 = 2
    BY <1>1, <2>1
  <2>3. Line(1).off + Line(1).size = Line(2).off
    BY <1>1, <1>3, <2>2
  <2>4. QED
    BY <1>1, <1>3, <1>9, <2>2, <2>3
<1>13. ASSUME NEW k \in 1..LineLen', k + 1 <= LineLen'
       PROVE  (Line(k).off + Line(k).size = Line(k + 1).off)'
  <2>1. /\ k + 1 \in 1..LineLen /\ Line(k)' = Line(k + 1)
        /\ k + 1 \in 1..LineLen' /\ (k + 1) + 1 <= LineLen
    BY <1>1, <1>13
  <2>2. Line(k + 1)' = Line((k + 1) + 1)
    BY <1>1, <2>1
  <2>3. QED
    BY <1>3, <2>1, <2>2
<1>14. ASSUME NEW k \in 1..LineLen', k = LineLen'
       PROVE  (Line(k).off + Line(k).size = offset)'
  <2>1. k + 1 \in 1..LineLen /\ k + 1 = LineLen /\ Line(k)' = Line(k + 1)
    BY <1>1, <1>14
  <2>2. QED
    BY <1>3, <2>1
<1>15. QED
  BY <1>8, <1>10, <1>11, <1>12, <1>13, <1>14 DEF ExactLine

-----------------------------------------------------------------------------
(* Only failed tasks have lost something.                                   *)

(* A chunk that is returned has lost nothing.                               *)
LEMMA FirstIsWhole ==
  ASSUME TypeOK, ExactLost, NEW r, NextReturns(r)
  PROVE  failed = {} => lost[r.off] = 0
<1>1. SUFFICES ASSUME failed = {} PROVE lost[r.off] = 0
  OBVIOUS
<1>2. CASE results # <<>> /\ r = Head(results)
  <2>1. results \in Seq(Ranges) /\ 1 \in 1..Len(results) /\ r = results[1]
    BY <1>2, HeadTailProperties DEF TypeOK
  <2>2. QED
    BY <1>1, <2>1 DEF ExactLost
<1>3. CASE FrontIs("ok") /\ r = Head(tasks).input
  <2>1. /\ 1 \in 1..Len(tasks) /\ r = tasks[1].input /\ tasks[1].state = "ok"
    BY <1>3, FrontType DEF FrontIs
  <2>2. tasks[1].state \notin Errors
    BY <2>1 DEF Errors
  <2>3. QED
    BY <1>1, <2>1, <2>2 DEF ExactLost
<1>4. QED
  BY <1>2, <1>3 DEF NextReturns

(* The chunks that are left after it are as they were.                      *)
LEMMA LostTail ==
  ASSUME TypeOK, ExactLost, NEW r, NextReturns(r), UNCHANGED <<lost, failed>>
  PROVE  ExactLost'
<1>1. SUFFICES ASSUME failed = {} PROVE ExactLost'
  BY DEF ExactLost
<1>2. /\ \A k \in 1..Len(results) : lost[results[k].off] = 0
      /\ \A k \in 1..Len(tasks) : tasks[k].state \notin Errors => lost[tasks[k].input.off] = 0
  BY <1>1 DEF ExactLost
<1>3. /\ tasks \in Seq(Tasks(Ranges)) /\ results \in Seq(Ranges)
      /\ Len(tasks) \in Nat /\ Len(results) \in Nat
  BY DEF TypeOK
<1>4. CASE results # <<>> /\ results' = Tail(results) /\ tasks' = tasks
  <2>1. \A k \in 1..Len(results') : k + 1 \in 1..Len(results) /\ results'[k] = results[k + 1]
    BY <1>3, <1>4, HeadTailProperties
  <2>2. \A k \in 1..Len(results') : lost'[results'[k].off] = 0
    BY <1>2, <2>1
  <2>3. \A k \in 1..Len(tasks') : tasks'[k].state \notin Errors => lost'[tasks'[k].input.off] = 0
    BY <1>2, <1>4
  <2>4. QED
    BY <2>2, <2>3 DEF ExactLost
<1>5. CASE tasks # <<>> /\ tasks' = Tail(tasks) /\ results' = results
  <2>1. \A k \in 1..Len(tasks') : k + 1 \in 1..Len(tasks) /\ tasks'[k] = tasks[k + 1]
    BY <1>3, <1>5, HeadTailProperties
  <2>2. \A k \in 1..Len(tasks') : tasks'[k].state \notin Errors => lost'[tasks'[k].input.off] = 0
    BY <1>2, <2>1
  <2>3. \A k \in 1..Len(results') : lost'[results'[k].off] = 0
    BY <1>2, <1>5
  <2>4. QED
    BY <2>2, <2>3 DEF ExactLost
<1>6. QED
  BY <1>4, <1>5 DEF NextReturns, FrontIs

(* Neither has a chunk whose task is new, nor one that becomes a result.    *)
LEMMA LostPush ==
  ASSUME TypeOK, ExactLost, LostInv, results = <<>>, PushTask, UNCHANGED <<lost, failed>>
  PROVE  ExactLost'
<1>1. SUFFICES ASSUME failed = {} PROVE ExactLost'
  BY DEF ExactLost
<1>2. \A k \in 1..Len(tasks) : tasks[k].state \notin Errors => lost[tasks[k].input.off] = 0
  BY <1>1 DEF ExactLost
<1>3. Len(tasks) \in Nat /\ Len(results) = 0 /\ tasks \in Seq(Tasks(Ranges))
  BY DEF TypeOK
<1>4. lost[input.off] = 0
  BY DEF PushTask, Polling, LostInv
<1>5. PushEffect /\ Spawn(input).input = input
  BY PushTaskEffect, SpawnType
<1>6. CASE /\ tasks # <<>> /\ tasks[1].state = "ok"
           /\ Len(results') = 1 /\ results'[1] = tasks[1].input
           /\ Len(tasks') = Len(tasks)
           /\ \A k \in 1..Len(tasks) - 1 : tasks'[k] = tasks[k + 1]
           /\ tasks'[Len(tasks)] = Spawn(input)
  <2>1. 1 \in 1..Len(tasks) /\ tasks[1].state \notin Errors
    BY <1>3, <1>6 DEF Errors
  <2>2. lost[tasks[1].input.off] = 0
    BY <1>2, <2>1
  <2>3. \A k \in 1..Len(results') : lost'[results'[k].off] = 0
    BY <1>6, <2>2
  <2>4. ASSUME NEW k \in 1..Len(tasks'), tasks'[k].state \notin Errors
        PROVE  lost'[tasks'[k].input.off] = 0
    <3>1. CASE k = Len(tasks)
      BY <1>4, <1>5, <1>6, <3>1
    <3>2. CASE k < Len(tasks)
      <4>1. k \in 1..Len(tasks) - 1 /\ k + 1 \in 1..Len(tasks)
        BY <1>3, <1>6, <3>2
      <4>2. QED
        BY <1>2, <1>6, <2>4, <4>1
    <3>3. QED
      BY <1>3, <1>6, <3>1, <3>2
  <2>5. QED
    BY <2>3, <2>4 DEF ExactLost
<1>7. CASE /\ UNCHANGED results
           /\ Len(tasks') = Len(tasks) + 1
           /\ \A k \in 1..Len(tasks) : tasks'[k] = tasks[k]
           /\ tasks'[Len(tasks) + 1] = Spawn(input)
  <2>1. Len(results') = 0
    BY <1>3, <1>7
  <2>2. ASSUME NEW k \in 1..Len(tasks'), tasks'[k].state \notin Errors
        PROVE  lost'[tasks'[k].input.off] = 0
    <3>1. CASE k = Len(tasks) + 1
      BY <1>4, <1>5, <1>7, <3>1
    <3>2. CASE k \in 1..Len(tasks)
      BY <1>2, <1>7, <2>2, <3>2
    <3>3. QED
      BY <1>3, <1>7, <3>1, <3>2
  <2>3. QED
    BY <2>1, <2>2 DEF ExactLost
<1>8. QED
  BY <1>5, <1>6, <1>7 DEF PushEffect

(* A task that ends, with or without an error, changes its own chunk only.  *)
LEMMA LostTaskEnds ==
  ASSUME TypeOK, ExactLost, NEW k \in 1..Len(tasks), NEW o \in Outcomes, TaskDone(k, o),
         o \in Errors \/ UNCHANGED lost,
         \A l \in 1..LineLen : l # Len(results) + k => lost'[Line(l).off] = lost[Line(l).off],
         UNCHANGED failed
  PROVE  ExactLost'
<1>1. SUFFICES ASSUME failed = {} PROVE ExactLost'
  BY DEF ExactLost
<1>2. /\ \A j \in 1..Len(results) : lost[results[j].off] = 0
      /\ \A j \in 1..Len(tasks) : tasks[j].state \notin Errors => lost[tasks[j].input.off] = 0
  BY <1>1 DEF ExactLost
<1>3. Len(tasks) \in Nat /\ Len(results) \in Nat /\ results' = results
  BY DEF TypeOK, TaskDone
<1>4. /\ Len(tasks') = Len(tasks)
      /\ \A j \in 1..Len(tasks) :
           /\ tasks'[j].input = tasks[j].input
           /\ tasks'[j].state = IF j = k THEN o ELSE tasks[j].state
  BY TaskDoneEffect
<1>5. ASSUME NEW j \in 1..Len(results') PROVE lost'[results'[j].off] = 0
  <2>1. j \in 1..LineLen /\ Line(j) = results[j] /\ j # Len(results) + k
    BY <1>3, LinePlaces
  <2>2. QED
    BY <1>2, <1>3, <2>1
<1>6. ASSUME NEW j \in 1..Len(tasks'), tasks'[j].state \notin Errors
      PROVE  lost'[tasks'[j].input.off] = 0
  <2>1. CASE j # k
    <3>1. /\ Len(results) + j \in 1..LineLen /\ Line(Len(results) + j) = tasks[j].input
          /\ Len(results) + j # Len(results) + k
      BY <1>3, <1>4, <2>1, LinePlaces
    <3>2. QED
      BY <1>2, <1>4, <1>6, <2>1, <3>1
  <2>2. CASE j = k
    <3>1. o \notin Errors /\ lost' = lost
      BY <1>4, <1>6, <2>2
    <3>2. tasks[k].state \notin Errors
      BY DEF TaskDone, Errors
    <3>3. QED
      BY <1>2, <1>4, <2>2, <3>1, <3>2
  <2>3. QED
    BY <2>1, <2>2
<1>7. QED
  BY <1>5, <1>6 DEF ExactLost

-----------------------------------------------------------------------------
(* The steps.                                                               *)

OrderAndLoss == OrderInv /\ LostInv /\ ExactLine /\ ExactLost

(* A step that leaves the queue, the generator and the bytes alone keeps    *)
(* what is known of them.                                                   *)
LEMMA QuietStep ==
  ASSUME IInv,
         UNCHANGED <<tasks, results, input, offset, size, lost, out, failed>>,
         exec' = "none" <=> exec = "none",
         ended' => ended \/ (LineLen = 0 /\ size = 0)
  PROVE  OrderAndLoss'
<1>1. TypeOK /\ OrderInv /\ LostInv /\ ExactLine /\ ExactLost
  BY DEF IInv
<1>2. tasks' \in Seq(Tasks(Ranges)) /\ Len(tasks') = Len(tasks)
  BY <1>1 DEF TypeOK
<1>3. LineKept
  BY <1>1, <1>2, SameLine
<1>4. offset' \in Nat /\ offset' >= offset
  BY <1>1, ReadAssumption DEF TypeOK, ReadConstants
<1>5. OrderInv'
  BY <1>1, <1>3, <1>4, OrderCut DEF LineKept
<1>6. LostInv'
  BY <1>1, <1>3, <1>4, LostCut DEF LineKept
<1>7. ExactLine'
  BY <1>1, <1>3, ExactKept
<1>8. ExactLost'
  BY <1>1 DEF ExactLost
<1>9. QED
  BY <1>5, <1>6, <1>7, <1>8 DEF OrderAndLoss

(* A step that returns an error may drop chunks at the end.                 *)
LEMMA ErrorStep ==
  ASSUME IInv, LineCut, UNCHANGED <<lost, out>>, exec' = "none",
         offset' \in Nat, offset' >= offset, failed' # {}
  PROVE  OrderAndLoss'
<1>1. TypeOK /\ OrderInv /\ LostInv
  BY DEF IInv
<1>2. OrderInv'
  BY <1>1, OrderCut
<1>3. LostInv'
  BY <1>1, LostCut
<1>4. QED
  BY <1>2, <1>3 DEF OrderAndLoss, ExactLine, ExactLost

(* A new stream: nothing is asked for, nothing is returned.                 *)
LEMMA InitInv == Init => IInv
<1>1. SUFFICES ASSUME Init PROVE IInv
  OBVIOUS
<1>2. /\ tasks = <<>> /\ results = <<>> /\ exec = "none" /\ errored = FALSE
      /\ offset = 0 /\ size = Total /\ pc = "idle" /\ done = FALSE
      /\ lost = [o \in 0..Total |-> 0] /\ failures = 0 /\ out = <<>>
      /\ failed = {} /\ ended = FALSE
  BY <1>1 DEF Init, TasksInit
<1>3. Total \in Nat /\ MaxFailures \in Nat /\ Concurrent \in Nat \ {0}
  BY ReadAssumption DEF ReadConstants
<1>4. LineLen = 0
  BY <1>2 DEF LineLen, HeldLen
<1>5. TypeOK
  <2>1. lost \in [0..Total -> 0..Total] /\ failures \in 0..MaxFailures
    BY <1>2, <1>3
  <2>2. tasks \in Seq(Tasks(Ranges)) /\ results \in Seq(Ranges) /\ out \in Seq(Nat)
        /\ Len(tasks) <= Concurrent /\ Len(results) <= 1
    BY <1>2, <1>3
  <2>3. offset \in 0..Total /\ size \in 0..Total /\ offset + size = Total
    BY <1>2, <1>3
  <2>4. QED
    BY <1>2, <2>1, <2>2, <2>3 DEF TypeOK
<1>6. ControlInv
  BY <1>2, <1>3 DEF ControlInv
<1>7. OrderInv /\ LostInv /\ ExactLost
  BY <1>2, <1>3, <1>4 DEF OrderInv, LostInv, ExactLost
<1>8. ExactLine
  BY <1>2, <1>4 DEF ExactLine
<1>9. QED
  BY <1>5, <1>6, <1>7, <1>8 DEF IInv

(* A poll of the stream starts the loop and touches no chunk.               *)
LEMMA PollNextStep ==
  ASSUME IInv, PollNext
  PROVE  IInv'
<1>1. /\ pc = "idle" /\ pc' = "loop"
      /\ UNCHANGED <<tasks, results, errored, exec, input, offset, size, done, lost,
                     failures, out, failed, ended>>
  BY DEF PollNext, taskVars, generatorVars
<1>2. OrderAndLoss'
  BY <1>1, QuietStep
<1>3. TypeOK'
  BY <1>1 DEF IInv, TypeOK
<1>4. ControlInv'
  BY <1>1 DEF IInv, ControlInv, HasRemaining, IsConcurrent
<1>5. QED
  BY <1>2, <1>3, <1>4 DEF IInv, OrderAndLoss

(* The loop ends when a result is ready, the queue is full or nothing is    *)
(* left to ask for.                                                         *)
LEMMA LoopEndsStep ==
  ASSUME IInv, LoopEnds
  PROVE  IInv'
<1>1. /\ pc = "loop" /\ pc' = "next"
      /\ UNCHANGED <<tasks, results, errored, exec, input, offset, size, lost,
                     failures, out, failed, ended>>
      /\ ~HasRemaining \/ done \/ size = 0
      /\ done' = (done \/ (HasRemaining /\ size = 0))
  BY DEF LoopEnds, taskVars, generatorVars
<1>2. OrderAndLoss'
  BY <1>1, QuietStep
<1>3. TypeOK /\ ControlInv /\ exec = "none"
  BY <1>1 DEF IInv, TypeOK
<1>4. TypeOK'
  <2>1. done' \in BOOLEAN
    BY <1>1
  <2>2. QED
    BY <1>1, <1>3, <2>1 DEF TypeOK
<1>5. ControlInv'
  <2>1. done' => size' = 0
    BY <1>1, <1>3 DEF ControlInv
  <2>2. errored' \/ results' # <<>> \/ tasks' # <<>> \/ size' = 0
    <3>1. CASE ~HasRemaining
      <4>1. Len(tasks) \in Nat /\ Len(tasks) # 0
        BY <1>3, <3>1, ReadAssumption DEF HasRemaining, TypeOK, ReadConstants
      <4>2. tasks # <<>>
        BY <4>1
      <4>3. QED
        BY <1>1, <4>2
    <3>2. CASE done \/ size = 0
      BY <1>1, <1>3, <3>2 DEF ControlInv
    <3>3. QED
      BY <1>1, <3>1, <3>2
  <2>3. QED
    BY <1>1, <1>3, <2>1, <2>2 DEF ControlInv, HasRemaining, IsConcurrent
<1>6. QED
  BY <1>2, <1>4, <1>5 DEF IInv, OrderAndLoss

(* The chunk that next_reader cuts becomes the input of execute, behind all *)
(* others.                                                                  *)
LEMMA NextReaderOkStep ==
  ASSUME IInv, NextReaderOk
  PROVE  IInv'
<1>1. PICK r \in RangesUpTo(Total) : NextRange(r) /\ StartExecute(r)
  BY DEF NextReaderOk
<1>2. /\ pc = "loop" /\ pc' = "execute" /\ HasRemaining /\ ~done
      /\ exec = "none" /\ exec' = "poll" /\ input' = r
      /\ UNCHANGED <<tasks, results, errored, done, lost, failures, out, failed, ended>>
  BY <1>1 DEF NextReaderOk, StartExecute
<1>3. TypeOK /\ ControlInv /\ OrderInv /\ LostInv /\ ExactLine /\ ExactLost
  BY DEF IInv
<1>4. /\ r \in Ranges /\ offset' \in 0..Total /\ size' \in 0..Total /\ offset' + size' = Total
  BY <1>1, <1>3, ChunkRange
<1>5. LineGains(r)
  BY <1>1, <1>3, StartGains
<1>6. OrderInv'
  BY <1>1, <1>2, <1>3, <1>5, OrderGains
<1>7. LostInv'
  BY <1>1, <1>2, <1>3, <1>5, LostGains
<1>8. ExactLine'
  BY <1>1, <1>2, <1>3, <1>5, ExactGains
<1>9. ExactLost'
  BY <1>2, <1>3 DEF ExactLost
<1>10. TypeOK'
  BY <1>2, <1>3, <1>4 DEF TypeOK
<1>11. ControlInv'
  BY <1>2, <1>3 DEF ControlInv, HasRemaining, IsConcurrent
<1>12. QED
  BY <1>6, <1>7, <1>8, <1>9, <1>10, <1>11 DEF IInv

(* next_reader moves on although it fails: the chunk is lost, and the error *)
(* returned.                                                                *)
LEMMA NextReaderErrStep ==
  ASSUME IInv, NextReaderErr
  PROVE  IInv'
<1>1. PICK r \in RangesUpTo(Total) : NextRange(r)
  BY DEF NextReaderErr
<1>2. /\ pc = "loop" /\ pc' = "idle" /\ ~done /\ failed' = failed \cup {"open"}
      /\ failures < MaxFailures /\ failures' = failures + 1
      /\ UNCHANGED <<tasks, results, errored, exec, input, done, lost, out, ended>>
  BY DEF NextReaderErr, ReturnErr, taskVars
<1>3. TypeOK /\ ControlInv
  BY DEF IInv
<1>4. /\ offset' \in 0..Total /\ size' \in 0..Total /\ offset' + size' = Total
      /\ offset' \in Nat /\ offset' >= offset
  <2>1. /\ offset' \in 0..Total /\ size' \in 0..Total /\ offset' + size' = Total
        /\ offset' = offset + r.size /\ r.size \in 1..Total
    BY <1>1, <1>3, ChunkRange
  <2>2. Total \in Nat /\ offset \in 0..Total
    BY <1>3, ReadAssumption DEF TypeOK, ReadConstants
  <2>3. QED
    BY <2>1, <2>2
<1>5. exec = "none"
  BY <1>2, <1>3 DEF TypeOK
<1>6. LineCut
  <2>1. tasks' \in Seq(Tasks(Ranges)) /\ Len(tasks') = Len(tasks)
    BY <1>2, <1>3 DEF TypeOK
  <2>2. QED
    BY <1>2, <1>3, <2>1, SameLine
<1>7. OrderAndLoss'
  BY <1>2, <1>4, <1>5, <1>6, ErrorStep
<1>8. failures' \in 0..MaxFailures /\ failed' \subseteq {"open", "task"}
  BY <1>2, <1>3, ReadAssumption DEF TypeOK, ReadConstants
<1>9. TypeOK'
  BY <1>2, <1>3, <1>4, <1>5, <1>8 DEF TypeOK
<1>10. ControlInv'
  BY <1>2, <1>3, <1>5 DEF ControlInv, IsConcurrent
<1>11. QED
  BY <1>7, <1>9, <1>10 DEF IInv, OrderAndLoss

(* There is room for the task, so the call does not wait.                   *)
LEMMA ExecuteStepStep ==
  ASSUME IInv, ExecuteStep
  PROVE  IInv'
<1>1. TypeOK /\ ControlInv
  BY DEF IInv
<1>2. RunInline
  BY <1>1 DEF ExecuteStep, ExecuteContinues, WaitForFront, Polling, AwaitedOk, TypeOK, ControlInv
<1>3. /\ exec = "poll" /\ exec' = "inline" /\ ~IsConcurrent /\ ~errored
      /\ UNCHANGED <<tasks, results, errored, input, offset, size, pc, done, lost,
                     failures, out, failed, ended>>
  BY <1>2 DEF ExecuteStep, RunInline, generatorVars, readVars
<1>4. OrderAndLoss'
  BY <1>3, QuietStep
<1>5. TypeOK'
  BY <1>1, <1>3 DEF TypeOK
<1>6. ControlInv'
  BY <1>1, <1>3 DEF ControlInv, HasRemaining, IsConcurrent
<1>7. QED
  BY <1>4, <1>5, <1>6 DEF IInv, OrderAndLoss

(* execute returns: its chunk is a task, or already a result.               *)
LEMMA ExecuteOkStep ==
  ASSUME IInv, ExecuteOk
  PROVE  IInv'
<1>1. TypeOK /\ ControlInv /\ OrderInv /\ LostInv /\ ExactLine /\ ExactLost
  BY DEF IInv
<1>2. /\ exec # "none" /\ exec' = "none"
      /\ UNCHANGED <<errored, input, offset, size, done, lost, failures, out, failed, ended>>
      /\ pc' = IF results' # <<>> THEN "next" ELSE "loop"
  BY DEF ExecuteOk, ExecuteReturnsOk, InlineOk, PushTask, Polling, generatorVars
<1>3. results = <<>>
  BY <1>1, <1>2 DEF TypeOK, ControlInv
<1>4. /\ tasks' \in Seq(Tasks(Ranges)) /\ Len(tasks') <= Concurrent
      /\ results' \in Seq(Ranges) /\ Len(results') <= 1
      /\ LineKept /\ ExactLost'
      /\ ~IsConcurrent => tasks' = <<>>
      /\ ~errored
  <2>1. CASE InlineOk
    <3>1. tasks = <<>> /\ tasks' = tasks /\ ~IsConcurrent
      BY <1>1, <2>1 DEF InlineOk, ControlInv
    <3>2. results' \in Seq(Ranges) /\ Len(results') = 1 /\ results'[1] = input /\ LineKept
      BY <1>1, <1>3, <2>1, <3>1, InlineOkKeeps
    <3>3. ExactLost'
      <4>1. lost'[input.off] = 0
        BY <1>1, <1>2 DEF LostInv
      <4>2. \A k \in 1..Len(results') : lost'[results'[k].off] = 0
        BY <3>2, <4>1
      <4>3. Len(tasks') = 0
        BY <3>1
      <4>4. QED
        BY <4>2, <4>3 DEF ExactLost
    <3>4. ~errored
      BY <1>1, <2>1 DEF InlineOk, ControlInv
    <3>5. QED
      BY <1>1, <3>1, <3>2, <3>3, <3>4 DEF TypeOK
  <2>2. CASE PushTask
    <3>1. tasks' \in Seq(Tasks(Ranges)) /\ results' \in Seq(Ranges) /\ PushEffect
      BY <1>1, <1>3, <2>2, PushTaskEffect
    <3>2. Len(tasks) \in Nat /\ Len(results) = 0 /\ Len(tasks) <= Concurrent /\ Concurrent \in Nat
      BY <1>1, <1>3, ConcurrentAssumption DEF TypeOK
    <3>3. Len(tasks') <= Concurrent /\ Len(results') <= 1
      <4>1. CASE Len(results') = 1 /\ Len(tasks') = Len(tasks)
        BY <3>2, <4>1
      <4>2. CASE results' = results /\ Len(tasks) < Concurrent /\ Len(tasks') = Len(tasks) + 1
        BY <3>2, <4>2
      <4>3. QED
        BY <3>1, <4>1, <4>2 DEF PushEffect
    <3>4. LineKept
      BY <1>1, <1>3, <2>2, PushKeeps
    <3>5. ExactLost'
      BY <1>1, <1>2, <1>3, <2>2, LostPush
    <3>6. IsConcurrent /\ ~errored
      BY <2>2 DEF PushTask, Polling
    <3>7. QED
      BY <3>1, <3>3, <3>4, <3>5, <3>6
  <2>3. QED
    BY <2>1, <2>2 DEF ExecuteOk, ExecuteReturnsOk
<1>5. offset' \in Nat /\ offset' >= offset
  BY <1>1, <1>2, ReadAssumption DEF TypeOK, ReadConstants
<1>6. OrderInv'
  BY <1>1, <1>2, <1>4, <1>5, OrderCut DEF LineKept
<1>7. LostInv'
  BY <1>1, <1>2, <1>4, <1>5, LostCut DEF LineKept
<1>8. ExactLine'
  BY <1>1, <1>2, <1>4, ExactKept
<1>9. TypeOK'
  BY <1>1, <1>2, <1>4 DEF TypeOK
<1>10. ControlInv'
  BY <1>1, <1>2, <1>4 DEF ControlInv, IsConcurrent
<1>11. QED
  BY <1>4, <1>6, <1>7, <1>8, <1>9, <1>10 DEF IInv

(* execute returns the error of another task: its own chunk is dropped.     *)
LEMMA ExecuteErrStep ==
  ASSUME IInv, ExecuteErr
  PROVE  IInv'
<1>1. TypeOK /\ ControlInv
  BY DEF IInv
<1>2. /\ exec # "none" /\ exec' = "none" /\ pc' = "idle"
      /\ failed' = failed \cup {"task"}
      /\ UNCHANGED <<input, offset, size, done, lost, out, ended>>
  BY DEF ExecuteErr, ExecuteReturnsErr, ExecuteRefused, InlineErr, FrontFailed, Polling,
     ReturnErr, generatorVars
<1>3. results = <<>>
  BY <1>1, <1>2 DEF TypeOK, ControlInv
<1>4. /\ tasks' \in Seq(Tasks(Ranges)) /\ Len(tasks') <= Concurrent /\ results' = <<>>
      /\ LineCut /\ errored' \in BOOLEAN
      /\ ~IsConcurrent => tasks' = <<>>
      /\ errored' => tasks' = <<>>
  <2>1. CASE ExecuteRefused \/ InlineErr
    <3>1. UNCHANGED <<tasks, results, errored>>
      BY <2>1 DEF ExecuteRefused, InlineErr
    <3>2. tasks' \in Seq(Tasks(Ranges)) /\ Len(tasks') = Len(tasks) /\ Len(tasks') <= Concurrent
      BY <1>1, <3>1 DEF TypeOK
    <3>3. LineCut
      BY <1>1, <1>2, <3>1, <3>2, SameLine
    <3>4. QED
      BY <1>1, <1>3, <3>1, <3>2, <3>3 DEF TypeOK, ControlInv
  <2>2. CASE FrontFailed /\ RetryFront
    <3>1. /\ tasks' \in Seq(Tasks(Ranges)) /\ tasks # <<>> /\ Len(tasks') = Len(tasks)
          /\ \A j \in 1..Len(tasks) : tasks'[j].input = tasks[j].input
      BY <1>1, <2>2, RetryFrontEffect
    <3>2. UNCHANGED <<results, errored>> /\ ~errored /\ IsConcurrent
      BY <1>1, <2>2, <3>1 DEF RetryFront, ControlInv
    <3>3. LineCut
      BY <1>1, <1>2, <3>1, <3>2, SameLine
    <3>4. QED
      BY <1>1, <1>3, <3>1, <3>2, <3>3 DEF TypeOK
  <2>3. CASE FrontFailed /\ FailAll
    <3>1. tasks' = <<>> /\ results' = <<>> /\ errored' = TRUE
      BY <2>3 DEF FailAll
    <3>2. LineCut
      BY <1>1, <1>2, <3>1, LineType, EmptyLine
    <3>3. tasks' \in Seq(Tasks(Ranges)) /\ Len(tasks') <= Concurrent
      BY <3>1, ConcurrentAssumption
    <3>4. QED
      BY <3>1, <3>2, <3>3
  <2>4. QED
    BY <2>1, <2>2, <2>3 DEF ExecuteErr, ExecuteReturnsErr, FrontFailed
<1>5. offset' \in Nat /\ offset' >= offset
  BY <1>1, <1>2, ReadAssumption DEF TypeOK, ReadConstants
<1>6. OrderAndLoss'
  BY <1>2, <1>4, <1>5, ErrorStep
<1>7. failures' \in 0..MaxFailures
  BY <1>1, ReadAssumption DEF ExecuteErr, TypeOK, ReadConstants
<1>8. TypeOK'
  <2>1. results' \in Seq(Ranges) /\ Len(results') <= 1
    BY <1>4
  <2>2. failed' \subseteq {"open", "task"}
    BY <1>1, <1>2 DEF TypeOK
  <2>3. QED
    BY <1>1, <1>2, <1>4, <1>7, <2>1, <2>2 DEF TypeOK
<1>9. ControlInv'
  BY <1>1, <1>2, <1>4 DEF ControlInv, IsConcurrent
<1>10. QED
  BY <1>6, <1>8, <1>9 DEF IInv, OrderAndLoss

(* The first chunk is returned, behind the bytes that were returned before. *)
LEMMA NextOkStep ==
  ASSUME IInv, NextOk
  PROVE  IInv'
<1>1. TypeOK /\ ControlInv /\ OrderInv /\ LostInv /\ ExactLine /\ ExactLost
  BY DEF IInv
<1>2. PICK r \in RangesUpTo(Total) : NextReturns(r) /\ ReturnBuffer(ReadAll(r))
  BY DEF NextOk
<1>3. /\ pc = "next" /\ pc' = "idle" /\ ~errored /\ out' = out \o ReadAll(r)
      /\ ended' = (ended \/ ReadAll(r) = <<>>)
      /\ UNCHANGED <<errored, exec, input, offset, size, done, lost, failures, failed>>
  BY <1>2 DEF NextOk, NextReturns, ReturnBuffer, generatorVars
<1>4. exec = "none"
  BY <1>1, <1>3 DEF TypeOK
<1>5. /\ tasks' \in Seq(Tasks(Ranges)) /\ Len(tasks') <= Len(tasks)
      /\ results' \in Seq(Ranges) /\ Len(results') <= Len(results)
      /\ results # <<>> => Len(results') = Len(results) - 1
      /\ LineLoses(r)
  BY <1>1, <1>2, <1>4, NextTakes
<1>6. r \in Ranges /\ lost[r.off] <= r.size
  <2>1. LineLen \in Nat /\ 1 \in 1..LineLen /\ r = Line(1)
    BY <1>1, <1>5, LineType DEF LineLoses
  <2>2. QED
    BY <1>1, <2>1, LineType DEF LostInv
<1>7. OrderInv'
  BY <1>1, <1>3, <1>5, <1>6, OrderLoses
<1>8. LostInv'
  BY <1>1, <1>3, <1>4, <1>5, LostLoses
<1>9. failed = {} => lost[r.off] = 0
  BY <1>1, <1>2, FirstIsWhole
<1>10. ExactLine'
  BY <1>1, <1>2, <1>3, <1>5, <1>6, <1>9, ExactLoses
<1>11. ExactLost'
  BY <1>1, <1>2, <1>3, LostTail
<1>12. results' = <<>>
  <2>1. Len(results) \in Nat /\ Len(results) <= 1 /\ (results = <<>> => Len(results) = 0)
    BY <1>1 DEF TypeOK
  <2>2. Len(results') = 0
    BY <1>5, <2>1
  <2>3. QED
    BY <1>5, <2>2, EmptySeq
<1>13. TypeOK'
  <2>1. out' \in Seq(Nat)
    BY <1>1, <1>3, <1>6, ReadAllBytes, ConcatProperties DEF TypeOK
  <2>2. ended' \in BOOLEAN
    BY <1>3
  <2>3. Len(tasks') <= Concurrent /\ Len(results') <= 1
    BY <1>1, <1>5, ConcurrentAssumption DEF TypeOK
  <2>4. QED
    BY <1>1, <1>3, <1>4, <1>5, <2>1, <2>2, <2>3 DEF TypeOK
<1>14. ControlInv'
  <2>1. ~IsConcurrent => tasks' = <<>>
    <3>1. SUFFICES ASSUME ~IsConcurrent PROVE tasks' = <<>>
      OBVIOUS
    <3>2. Len(tasks) = 0
      BY <1>1, <3>1 DEF ControlInv
    <3>3. Len(tasks') = 0
      BY <1>5, <3>2
    <3>4. QED
      BY <1>5, <3>3, EmptySeq
  <2>2. QED
    BY <1>1, <1>3, <1>4, <1>12, <2>1 DEF ControlInv, IsConcurrent
<1>15. QED
  BY <1>7, <1>8, <1>10, <1>11, <1>13, <1>14 DEF IInv

(* A task has failed: it is put back at the front, or the queue is emptied  *)
(* for good.                                                                *)
LEMMA NextErrStep ==
  ASSUME IInv, NextErr
  PROVE  IInv'
<1>1. TypeOK /\ ControlInv
  BY DEF IInv
<1>2. /\ pc = "next" /\ pc' = "idle" /\ failed' = failed \cup {"task"}
      /\ UNCHANGED <<exec, input, offset, size, done, lost, failures, out, ended>>
  BY DEF NextErr, NextReturnsErr, ReturnErr, generatorVars
<1>3. exec = "none"
  BY <1>1, <1>2 DEF TypeOK
<1>4. /\ tasks' \in Seq(Tasks(Ranges)) /\ Len(tasks') <= Concurrent /\ results' = <<>>
      /\ LineCut /\ errored' \in BOOLEAN
      /\ ~IsConcurrent => tasks' = <<>>
      /\ errored' => tasks' = <<>>
  <2>1. CASE errored /\ UNCHANGED <<tasks, results, errored>>
    <3>1. tasks' \in Seq(Tasks(Ranges)) /\ Len(tasks') = Len(tasks) /\ Len(tasks') <= Concurrent
      BY <1>1, <2>1 DEF TypeOK
    <3>2. LineCut
      BY <1>1, <1>2, <2>1, <3>1, SameLine
    <3>3. QED
      BY <1>1, <2>1, <3>1, <3>2 DEF TypeOK, ControlInv
  <2>2. CASE ~errored /\ results = <<>> /\ RetryFront
    <3>1. /\ tasks' \in Seq(Tasks(Ranges)) /\ tasks # <<>> /\ Len(tasks') = Len(tasks)
          /\ \A j \in 1..Len(tasks) : tasks'[j].input = tasks[j].input
      BY <1>1, <2>2, RetryFrontEffect
    <3>2. UNCHANGED <<results, errored>> /\ IsConcurrent
      BY <1>1, <2>2, <3>1 DEF RetryFront, ControlInv
    <3>3. LineCut
      BY <1>1, <1>2, <3>1, <3>2, SameLine
    <3>4. QED
      BY <1>1, <2>2, <3>1, <3>2, <3>3 DEF TypeOK
  <2>3. CASE FailAll
    <3>1. tasks' = <<>> /\ results' = <<>> /\ errored' = TRUE
      BY <2>3 DEF FailAll
    <3>2. LineCut
      BY <1>1, <1>2, <1>3, <3>1, LineType, EmptyLine
    <3>3. tasks' \in Seq(Tasks(Ranges)) /\ Len(tasks') <= Concurrent
      BY <3>1, ConcurrentAssumption
    <3>4. QED
      BY <3>1, <3>2, <3>3
  <2>4. QED
    BY <2>1, <2>2, <2>3 DEF NextErr, NextReturnsErr
<1>5. offset' \in Nat /\ offset' >= offset
  BY <1>1, <1>2, ReadAssumption DEF TypeOK, ReadConstants
<1>6. OrderAndLoss'
  BY <1>2, <1>3, <1>4, <1>5, ErrorStep
<1>7. TypeOK'
  <2>1. results' \in Seq(Ranges) /\ Len(results') <= 1
    BY <1>4
  <2>2. failed' \subseteq {"open", "task"}
    BY <1>1, <1>2 DEF TypeOK
  <2>3. QED
    BY <1>1, <1>2, <1>3, <1>4, <2>1, <2>2 DEF TypeOK
<1>8. ControlInv'
  BY <1>1, <1>2, <1>3, <1>4 DEF ControlInv, IsConcurrent
<1>9. QED
  BY <1>6, <1>7, <1>8 DEF IInv, OrderAndLoss

(* The stream ends when nothing is left.                                    *)
LEMMA NextNoneStep ==
  ASSUME IInv, NextNone
  PROVE  IInv'
<1>1. TypeOK /\ ControlInv
  BY DEF IInv
<1>2. /\ pc = "next" /\ pc' = "idle" /\ ~errored /\ results = <<>> /\ tasks = <<>>
      /\ UNCHANGED <<tasks, results, errored, exec, input, offset, size, done, lost,
                     failures, failed>>
      /\ out' = out \o <<>> /\ ended' = (ended \/ <<>> = <<>>)
  BY DEF NextNone, NextReturnsNone, ReturnBuffer, taskVars, generatorVars
<1>3. out' = out /\ ended' \in BOOLEAN
  BY <1>1, <1>2, ConcatEmptySeq DEF TypeOK
<1>4. exec = "none" /\ size = 0
  BY <1>1, <1>2 DEF TypeOK, ControlInv
<1>5. LineLen = 0
  BY <1>2, <1>4 DEF LineLen, HeldLen
<1>6. OrderAndLoss'
  BY <1>2, <1>3, <1>4, <1>5, QuietStep
<1>7. TypeOK'
  BY <1>1, <1>2, <1>3 DEF TypeOK
<1>8. ControlInv'
  BY <1>1, <1>2, <1>4 DEF ControlInv, HasRemaining, IsConcurrent
<1>9. QED
  BY <1>6, <1>7, <1>8 DEF IInv, OrderAndLoss

(* A task reads the bytes that its reader has left.                         *)
LEMMA ReadAllOkStep ==
  ASSUME IInv, NEW k, ReadAllOk(k)
  PROVE  IInv'
<1>1. TypeOK /\ ControlInv /\ OrderInv /\ LostInv /\ ExactLine /\ ExactLost
  BY DEF IInv
<1>2. /\ TaskDone(k, "ok") /\ "ok" \in Outcomes
      /\ UNCHANGED <<results, errored, exec, input, offset, size, pc, done, lost,
                     failures, out, failed, ended>>
  BY DEF ReadAllOk, TaskDone, Outcomes, generatorVars, readVars
<1>3. /\ tasks' \in Seq(Tasks(Ranges)) /\ k \in 1..Len(tasks) /\ Len(tasks') = Len(tasks)
      /\ \A j \in 1..Len(tasks) : tasks'[j].input = tasks[j].input
  BY <1>1, <1>2, TaskDoneEffect
<1>4. LineKept
  BY <1>1, <1>2, <1>3, SameLine
<1>5. offset' \in Nat /\ offset' >= offset
  BY <1>1, <1>2, ReadAssumption DEF TypeOK, ReadConstants
<1>6. OrderInv'
  BY <1>1, <1>2, <1>4, <1>5, OrderCut DEF LineKept
<1>7. LostInv'
  BY <1>1, <1>2, <1>4, <1>5, LostCut DEF LineKept
<1>8. ExactLine'
  BY <1>1, <1>2, <1>4, ExactKept
<1>9. ExactLost'
  BY <1>1, <1>2, <1>3, LostTaskEnds
<1>10. tasks # <<>> /\ tasks' # <<>>
  BY <1>1, <1>3 DEF TypeOK
<1>11. TypeOK'
  BY <1>1, <1>2, <1>3 DEF TypeOK
<1>12. ControlInv'
  BY <1>1, <1>2, <1>3, <1>10 DEF ControlInv, HasRemaining, IsConcurrent
<1>13. QED
  BY <1>6, <1>7, <1>8, <1>9, <1>11, <1>12 DEF IInv

(* A task fails after some bytes, which its reader then has no more.        *)
LEMMA ReadAllErrStep ==
  ASSUME IInv, NEW k, NEW e \in Errors, ReadAllErr(k, e)
  PROVE  IInv'
<1>1. TypeOK /\ ControlInv /\ OrderInv /\ LostInv /\ ExactLine /\ ExactLost
  BY DEF IInv
<1>2. /\ TaskDone(k, e) /\ e \in Outcomes
      /\ failures < MaxFailures /\ failures' = failures + 1
      /\ UNCHANGED <<results, errored, exec, input, offset, size, pc, done, out, failed, ended>>
  BY DEF ReadAllErr, TaskDone, Outcomes, generatorVars
<1>3. /\ tasks' \in Seq(Tasks(Ranges)) /\ k \in 1..Len(tasks) /\ Len(tasks') = Len(tasks)
      /\ \A j \in 1..Len(tasks) : tasks'[j].input = tasks[j].input
  BY <1>1, <1>2, TaskDoneEffect
<1>4. LineKept
  BY <1>1, <1>2, <1>3, SameLine
<1>5. offset' \in Nat /\ offset' >= offset
  BY <1>1, <1>2, ReadAssumption DEF TypeOK, ReadConstants
<1>6. OrderInv'
  BY <1>1, <1>2, <1>4, <1>5, OrderCut DEF LineKept
<1> DEFINE q == Len(results) + k
<1>7. q \in 1..LineLen /\ Line(q) = tasks[k].input
  BY <1>1, <1>3, LinePlaces
<1>8. exec # "none" => q # LineLen
  <2>1. Len(results) \in Nat /\ Len(tasks) \in Nat
    BY <1>1 DEF TypeOK
  <2>2. QED
    BY <1>3, <2>1 DEF LineLen, HeldLen
<1> HIDE DEF q
<1>9. PICK n \in lost[Line(q).off]..Line(q).size : lost' = [lost EXCEPT ![Line(q).off] = n]
  BY <1>7 DEF ReadAllErr
<1>10. n \in Nat /\ n <= Line(q).size
  <2>1. Line(q).off \in 0..Total /\ Line(q).size \in Nat
    BY <1>1, <1>7, LineType
  <2>2. lost[Line(q).off] \in Nat
    BY <1>1, <2>1, ReadAssumption, SMTT(30) DEF TypeOK, ReadConstants
  <2>3. QED
    BY <2>1, <2>2
<1>11. /\ LostInv' /\ lost' \in [0..Total -> 0..Total]
       /\ \A l \in 1..LineLen : l # q => lost'[Line(l).off] = lost[Line(l).off]
  BY <1>1, <1>2, <1>4, <1>7, <1>8, <1>9, <1>10, LostByChunk
<1>12. ExactLine'
  BY <1>1, <1>2, <1>4, ExactKept
<1>13. ExactLost'
  BY <1>1, <1>2, <1>3, <1>11, LostTaskEnds DEF q
<1>14. tasks # <<>> /\ tasks' # <<>>
  BY <1>1, <1>3 DEF TypeOK
<1>15. TypeOK'
  <2>1. failures' \in 0..MaxFailures
    BY <1>1, <1>2, ReadAssumption DEF TypeOK, ReadConstants
  <2>2. QED
    BY <1>1, <1>2, <1>3, <1>11, <2>1 DEF TypeOK
<1>16. ControlInv'
  BY <1>1, <1>2, <1>3, <1>14 DEF ControlInv, HasRemaining, IsConcurrent
<1>17. QED
  BY <1>6, <1>11, <1>12, <1>13, <1>15, <1>16 DEF IInv

-----------------------------------------------------------------------------
(* Every step keeps the inductive invariant.                                *)
LEMMA NextInv == IInv /\ [Next]_vars => IInv'
<1>1. SUFFICES ASSUME IInv, [Next]_vars PROVE IInv'
  OBVIOUS
<1>2. CASE UNCHANGED vars
  <2>1. UNCHANGED <<tasks, results, errored, exec, input, offset, size, pc, done, lost,
                    failures, out, failed, ended>>
    BY <1>2 DEF vars, taskVars, generatorVars, readVars
  <2>2. OrderAndLoss'
    BY <1>1, <2>1, QuietStep
  <2>3. TypeOK'
    BY <1>1, <2>1 DEF IInv, TypeOK
  <2>4. ControlInv'
    BY <1>1, <2>1 DEF IInv, ControlInv, HasRemaining, IsConcurrent
  <2>5. QED
    BY <2>2, <2>3, <2>4 DEF IInv, OrderAndLoss
<1>3. CASE PollNext
  BY <1>1, <1>3, PollNextStep
<1>4. CASE ReadRuns
  <2>1. CASE LoopEnds
    BY <1>1, <2>1, LoopEndsStep
  <2>2. CASE NextReaderOk
    BY <1>1, <2>2, NextReaderOkStep
  <2>3. CASE NextReaderErr
    BY <1>1, <2>3, NextReaderErrStep
  <2>4. CASE ExecuteStep
    BY <1>1, <2>4, ExecuteStepStep
  <2>5. CASE ExecuteOk
    BY <1>1, <2>5, ExecuteOkStep
  <2>6. CASE ExecuteErr
    BY <1>1, <2>6, ExecuteErrStep
  <2>7. CASE NextOk
    BY <1>1, <2>7, NextOkStep
  <2>8. CASE NextErr
    BY <1>1, <2>8, NextErrStep
  <2>9. CASE NextNone
    BY <1>1, <2>9, NextNoneStep
  <2>10. QED
    BY <1>4, <2>1, <2>2, <2>3, <2>4, <2>5, <2>6, <2>7, <2>8, <2>9 DEF ReadRuns, Execute
<1>5. ASSUME NEW k \in 1..Concurrent, TaskEnds(k) PROVE IInv'
  BY <1>1, <1>5, ReadAllOkStep, ReadAllErrStep DEF TaskEnds
<1>6. QED
  BY <1>1, <1>2, <1>3, <1>4, <1>5 DEF Next

(* The chunks that are under way always follow the bytes returned, and      *)
(* without a gap until an error is returned: for every length, chunk size   *)
(* and number of tasks, in whichever order the tasks of ConcurrentTasks     *)
(* finish or fail.                                                          *)
THEOREM Invariant == Spec => []IInv
  BY InitInv, NextInv, PTL DEF Spec

(* ChunkedReader never waits in `execute`, as it asks for a chunk only when *)
(* has_remaining; and it never keeps more than one result back.             *)
THEOREM TypeCorrect == Spec => []TypeOK
<1>1. IInv => TypeOK
  BY DEF IInv
<1>2. QED
  BY <1>1, Invariant, PTL

(* What is known of the line and of what is lost makes the stream exact.    *)
LEMMA ExactFromInv ==
  ASSUME IInv
  PROVE  StreamIsExact
<1>1. TypeOK /\ OrderInv /\ ExactLine
  BY DEF IInv
<1>2. Total \in Nat /\ out \in Seq(Nat) /\ Len(out) \in Nat /\ offset \in 0..Total
  BY <1>1, ReadAssumption DEF ReadConstants, TypeOK
<1>3. Increasing(out)
  <2>1. SUFFICES ASSUME NEW i \in 1..Len(out) - 1 PROVE out[i] < out[i + 1]
    BY DEF Increasing
  <2>2. i \in 1..Len(out) /\ i + 1 \in 1..Len(out) /\ i < i + 1
    BY <1>2
  <2>3. QED
    BY <1>1, <2>2 DEF OrderInv
<1>4. Wanted \in Seq(Nat) /\ Len(Wanted) = Total /\ \A i \in 1..Total : Wanted[i] = i
  <2>1. Wanted = [i \in 1..Total |-> 0 + i]
    BY DEF Wanted, Bytes
  <2>2. Wanted \in [1..Total -> Nat]
    BY <1>2, <2>1
  <2>3. Wanted \in Seq(Nat) /\ Len(Wanted) = Total
    BY <1>2, <2>1, <2>2, IsASeq, LenProperties
  <2>4. QED
    BY <1>2, <2>1, <2>3
<1>5. ASSUME failed = {}
      PROVE  /\ Len(out) <= Total
             /\ out = SubSeq(Wanted, 1, Len(out))
             /\ ended => out = Wanted
  <2>1. \A i \in 1..Len(out) : out[i] = i
    BY <1>1, <1>5 DEF ExactLine
  <2>2. Len(out) <= Total
    <3>1. LineLen \in Nat /\ \A k \in 1..LineLen : Line(k).off \in 0..Total
      BY <1>1, LineType
    <3>2. CASE LineLen = 0
      BY <1>1, <1>2, <1>5, <3>2 DEF ExactLine
    <3>3. CASE LineLen > 0
      <4>1. Len(out) = Line(1).off /\ 1 \in 1..LineLen
        BY <1>1, <1>5, <3>1, <3>3 DEF ExactLine
      <4>2. Len(out) \in 0..Total
        BY <3>1, <4>1
      <4>3. QED
        BY <1>2, <4>2
    <3>4. QED
      BY <3>1, <3>2, <3>3
  <2>3. out = SubSeq(Wanted, 1, Len(out))
    <3> DEFINE w == SubSeq(Wanted, 1, Len(out))
    <3>1. w \in Seq(Nat) /\ Len(w) = Len(out) /\ \A i \in 1..Len(out) : w[i] = i
      BY <1>2, <1>4, <2>2, SubSeqProperties
    <3> HIDE DEF w
    <3>2. out = w
      BY <1>2, <2>1, <3>1, SeqEqual
    <3>3. QED
      BY <3>2 DEF w
  <2>4. ended => out = Wanted
    <3>1. SUFFICES ASSUME ended PROVE out = Wanted
      OBVIOUS
    <3>2. LineLen = 0 /\ size = 0 /\ Len(out) = offset
      BY <1>1, <1>5, <3>1 DEF ExactLine
    <3>3. Len(out) = Total
      BY <1>1, <1>2, <3>2 DEF TypeOK
    <3>4. QED
      BY <1>2, <1>4, <2>1, <3>3, SeqEqual
  <2>5. QED
    BY <2>2, <2>3, <2>4
<1>6. QED
  BY <1>3, <1>5 DEF StreamIsExact, ExactUntilError, NeverGoesBack

(* The stream returns the bytes asked for in order, none missing and none   *)
(* twice, until it returns an error, ends only when all of them are there,  *)
(* and never goes back even when it is polled on after errors.              *)
THEOREM StreamExact == Spec => []StreamIsExact
<1>1. IInv => StreamIsExact
  BY ExactFromInv
<1>2. QED
  BY <1>1, Invariant, PTL

-----------------------------------------------------------------------------
(***************************************************************************)
(* SeekReader, on the same generator: StdReader and FuturesAsyncReader      *)
(* return the bytes where they are, whatever reads and seeks came before.   *)
(***************************************************************************)
CONSTANTS SeekChunk, N, Start, End, MaxSeek, ReadSizes
VARIABLES reader, buf, pos, op, got, at, broken

Seeker == INSTANCE SeekReader WITH Chunk <- SeekChunk

SeekConstants == Seeker!ChunkAssumption /\ Seeker!SeekAssumption

Left == IF reader = Seeker!NoReader THEN 0 ELSE reader.size

(* The open reader ends where the generator goes on, with or without a      *)
(* failed request.                                                          *)
SeekTypes ==
  /\ pos \in Nat /\ op \in Nat /\ failures \in Nat
  /\ offset \in Start..End /\ size = End - offset
  /\ buf \in Seq(Nat)
  /\ reader # Seeker!NoReader => /\ reader.off \in Nat /\ reader.size \in Nat
                                 /\ reader.off + reader.size = offset

(* The position, the buffer and the reader never reach beyond the           *)
(* generator, and meet it as long as no request has failed.                 *)
SeekInv ==
  /\ SeekTypes
  /\ Start + pos + Len(buf) + Left <= offset
  /\ ~broken => /\ Start + pos + Len(buf) + Left = offset
                /\ \A i \in 1..Len(buf) : buf[i] = Start + pos + i
  /\ op # 0 => at = pos /\ got = <<>>

(* The minimum is the minimum.                                              *)
LEMMA SeekerMin ==
  ASSUME NEW S
  PROVE  Seeker!Min(S) = Min(S)
  BY DEF Seeker!Min, Min

(* The next range starts where the last one ended and is not empty.         *)
LEMMA SeekRange ==
  ASSUME SeekConstants, SeekTypes, NEW r, Seeker!NextRange(r)
  PROVE  /\ r.off = offset /\ r.size \in Nat /\ r.size >= 1
         /\ offset' = offset + r.size /\ size' = End - offset'
         /\ offset' \in Start..End
         /\ offset \in Nat /\ r # Seeker!NoReader
<1>1. /\ NoSize \notin Int /\ SeekChunk \in (Nat \ {0}) \cup {NoSize}
      /\ Start \in Nat /\ End \in Nat
  BY DEF SeekConstants, Seeker!ChunkAssumption, Seeker!SeekAssumption
<1>2. size \in Nat /\ size >= 1 /\ size # NoSize /\ offset \in Nat /\ offset \in Start..End
      /\ size = End - offset
  BY <1>1 DEF SeekTypes, Seeker!NextRange
<1> DEFINE n == IF SeekChunk = NoSize THEN size ELSE Min({size, SeekChunk})
<1>3. n \in Nat /\ 1 <= n /\ n <= size
  <2>1. CASE SeekChunk = NoSize
    BY <1>2, <2>1
  <2>2. CASE SeekChunk # NoSize
    <3>1. size \in Int /\ SeekChunk \in Int /\ SeekChunk >= 1
      BY <1>1, <1>2, <2>2
    <3>2. Min({size, SeekChunk}) \in {size, SeekChunk} /\ Min({size, SeekChunk}) <= size
      BY <3>1, MinOfTwo
    <3>3. QED
      BY <1>2, <2>2, <3>1, <3>2
  <2>3. QED
    BY <2>1, <2>2
<1>4. r = [off |-> offset, size |-> n]
  BY <1>2, SeekerMin DEF Seeker!NextRange
<1>5. offset' = offset + r.size /\ size' = size - r.size
  BY <1>2 DEF Seeker!NextRange
<1> HIDE DEF n
<1>6. r.off = offset /\ r.size = n
  BY <1>4
<1>7. r # Seeker!NoReader
  <2>1. Seeker!NoReader.size = -1
    BY DEF Seeker!NoReader
  <2>2. QED
    BY <1>3, <1>6, <2>1
<1>8. QED
  BY <1>1, <1>2, <1>3, <1>5, <1>6, <1>7

(* The numbers of the invariant.                                            *)
LEMMA SeekNumbers ==
  ASSUME SeekConstants, SeekInv
  PROVE  /\ Start \in Nat /\ End \in Nat /\ pos \in Nat /\ offset \in Nat
         /\ Len(buf) \in Nat /\ Left \in Nat /\ buf \in Seq(Nat)
         /\ N \in Nat /\ End <= N /\ offset <= End
<1>1. N \in Nat /\ Start \in 0..N /\ End \in Start..N
  BY DEF SeekConstants, Seeker!SeekAssumption
<1>2. SeekTypes
  BY DEF SeekInv
<1>3. Start \in Nat /\ End \in Nat /\ End <= N
  BY <1>1
<1>4. offset \in Nat /\ offset <= End /\ pos \in Nat /\ buf \in Seq(Nat) /\ Len(buf) \in Nat
  BY <1>2, <1>3 DEF SeekTypes
<1>5. Left \in Nat
  BY <1>2 DEF Left, SeekTypes
<1>6. QED
  BY <1>1, <1>3, <1>4, <1>5

(* Bytes that leave the front of the buffer take the position with them.    *)
LEMMA BufAdvances ==
  ASSUME SeekConstants, SeekInv, NEW k \in 0..Len(buf),
         buf' = SubSeq(buf, k + 1, Len(buf)), pos' = pos + k, op' = 0,
         UNCHANGED <<offset, size, reader, failures, broken>>
  PROVE  SeekInv'
<1>1. SeekTypes
  BY DEF SeekInv
<1>2. /\ Start \in Nat /\ pos \in Nat /\ offset \in Nat
      /\ Len(buf) \in Nat /\ Left \in Nat /\ buf \in Seq(Nat) /\ k \in Nat /\ k <= Len(buf)
  BY SeekNumbers
<1>3. /\ buf' \in Seq(Nat) /\ Len(buf') = Len(buf) - k
      /\ \A i \in 1..Len(buf') : k + i \in 1..Len(buf) /\ buf'[i] = buf[k + i]
  <2>1. /\ SubSeq(buf, k + 1, Len(buf)) \in Seq(Nat)
        /\ Len(SubSeq(buf, k + 1, Len(buf)))
             = IF k + 1 <= Len(buf) THEN Len(buf) - (k + 1) + 1 ELSE 0
        /\ \A i \in 1..Len(buf) - (k + 1) + 1 :
             SubSeq(buf, k + 1, Len(buf))[i] = buf[k + 1 + i - 1]
    BY <1>2, SubSeqProperties
  <2>2. Len(buf') = Len(buf) - k
    BY <1>2, <2>1
  <2>3. ASSUME NEW i \in 1..Len(buf') PROVE k + i \in 1..Len(buf) /\ buf'[i] = buf[k + i]
    <3>1. i \in 1..Len(buf) - (k + 1) + 1 /\ k + 1 + i - 1 = k + i /\ k + i \in 1..Len(buf)
      BY <1>2, <2>2
    <3>2. QED
      BY <2>1, <3>1
  <2>4. QED
    BY <2>1, <2>2, <2>3
<1>4. Left' = Left
  BY DEF Left, Seeker!NoReader
<1>5. SeekTypes'
  BY <1>1, <1>2, <1>3 DEF SeekTypes, Seeker!NoReader
<1>6. (Start + pos + Len(buf) + Left)' = Start + pos + Len(buf) + Left
  <2>1. Start + (pos + k) + (Len(buf) - k) + Left = Start + pos + Len(buf) + Left
    BY <1>2
  <2>2. QED
    BY <1>3, <1>4, <2>1
<1>7. ASSUME ~broken' PROVE \A i \in 1..Len(buf') : buf'[i] = Start + pos' + i
  <2>1. \A i \in 1..Len(buf) : buf[i] = Start + pos + i
    BY <1>7 DEF SeekInv
  <2>2. ASSUME NEW i \in 1..Len(buf') PROVE buf'[i] = Start + pos' + i
    <3>1. buf'[i] = Start + pos + (k + i)
      BY <1>3, <2>1
    <3>2. QED
      BY <1>2, <3>1
  <2>3. QED
    BY <2>2
<1>8. QED
  BY <1>5, <1>6, <1>7 DEF SeekInv

(* A step that leaves the buffer, the reader and the generator alone.       *)
LEMMA SeekQuiet ==
  ASSUME SeekConstants, SeekInv,
         UNCHANGED <<offset, size, reader, buf, pos, broken>>,
         op' \in Nat, failures' \in Nat,
         op' # 0 => at' = pos' /\ got' = <<>>
  PROVE  SeekInv'
<1>1. SeekTypes'
  BY DEF SeekInv, SeekTypes, Seeker!NoReader
<1>2. Left' = Left
  BY DEF Left, Seeker!NoReader
<1>3. QED
  BY <1>1, <1>2 DEF SeekInv

(* The generator gives a new range: to a reader, or to a request that       *)
(* fails.                                                                   *)
LEMMA SeekOpens ==
  ASSUME SeekConstants, SeekInv, NEW r, Seeker!NextRange(r),
         reader = Seeker!NoReader, buf = <<>>, UNCHANGED <<buf, pos, at, got>>,
         op' \in {0, op}, failures' \in Nat,
         \/ reader' = r /\ UNCHANGED broken
         \/ UNCHANGED reader /\ broken' = TRUE
  PROVE  SeekInv'
<1>1. SeekTypes
  BY DEF SeekInv
<1>2. /\ Start \in Nat /\ pos \in Nat /\ offset \in Nat /\ Len(buf) = 0 /\ Left = 0
  BY SeekNumbers DEF Left
<1>3. /\ r.off = offset /\ r.size \in Nat
      /\ offset' = offset + r.size /\ size' = End - offset'
      /\ offset' \in Start..End /\ r # Seeker!NoReader
  BY <1>1, SeekRange
<1>4. Seeker!NoReader' = Seeker!NoReader
  BY DEF Seeker!NoReader
<1>5. SeekTypes'
  BY <1>1, <1>2, <1>3, <1>4 DEF SeekTypes
<1>6. Left' \in {0, r.size} /\ (reader' = r => Left' = r.size)
  BY <1>3, <1>4 DEF Left
<1>7. (Start + pos + Len(buf) + Left <= offset)'
  BY <1>2, <1>3, <1>6 DEF SeekInv
<1>8. ASSUME ~broken' PROVE (Start + pos + Len(buf) + Left = offset)'
  <2>1. reader' = r /\ ~broken
    BY <1>8
  <2>2. Start + pos + Len(buf) + Left = offset
    BY <2>1 DEF SeekInv
  <2>3. QED
    BY <1>2, <1>3, <1>6, <2>1, <2>2
<1>9. \A i \in 1..Len(buf') : FALSE
  BY <1>2
<1>10. op' # 0 => at' = pos' /\ got' = <<>>
  BY DEF SeekInv
<1>11. QED
  BY <1>5, <1>7, <1>8, <1>9, <1>10 DEF SeekInv

(* Bytes that the service has sent go from the reader to the buffer.        *)
LEMMA SeekFills ==
  ASSUME SeekConstants, SeekInv, Seeker!FillBuf
  PROVE  SeekInv'
<1>1. SeekTypes
  BY DEF SeekInv
<1>2. /\ Start \in Nat /\ pos \in Nat /\ offset \in Nat /\ buf = <<>> /\ Len(buf) = 0
  BY SeekNumbers DEF Seeker!FillBuf, Seeker!Filling
<1>3. PICK n \in 1..reader.size :
         /\ buf' = Seeker!Bytes(reader.off, n)
         /\ reader' = [off |-> reader.off + n, size |-> reader.size - n]
  BY DEF Seeker!FillBuf
<1>4. UNCHANGED <<offset, size, pos, op, got, at, failures, broken>>
  BY DEF Seeker!FillBuf, Seeker!generatorVars
<1>5. reader # Seeker!NoReader
  <2>1. SUFFICES ASSUME reader = Seeker!NoReader PROVE FALSE
    OBVIOUS
  <2>2. reader.size = -1
    BY <2>1 DEF Seeker!NoReader
  <2>3. QED
    BY <1>3, <2>2
<1>6. /\ reader.off \in Nat /\ reader.size \in Nat /\ reader.off + reader.size = offset
      /\ Left = reader.size
  BY <1>1, <1>5 DEF SeekTypes, Left
<1>7. n \in Nat /\ n >= 1 /\ n <= reader.size
  BY <1>3, <1>6
<1>8. /\ reader'.off = reader.off + n /\ reader'.size = reader.size - n
      /\ reader' # Seeker!NoReader' /\ Left' = reader.size - n
  <2>1. reader'.off = reader.off + n /\ reader'.size = reader.size - n
    BY <1>3
  <2>2. Seeker!NoReader'.size = -1
    BY DEF Seeker!NoReader
  <2>3. reader' # Seeker!NoReader'
    BY <1>6, <1>7, <2>1, <2>2
  <2>4. QED
    BY <2>1, <2>3 DEF Left
<1>9. /\ buf' \in Seq(Nat) /\ Len(buf') = n
      /\ \A i \in 1..n : buf'[i] = reader.off + i
  <2>1. buf' = [i \in 1..n |-> reader.off + i]
    BY <1>3 DEF Seeker!Bytes
  <2>2. buf' \in [1..n -> Nat]
    BY <1>6, <1>7, <2>1
  <2>3. QED
    BY <1>7, <2>1, <2>2, IsASeq, LenProperties
<1>10. SeekTypes'
  <2>1. reader'.off \in Nat /\ reader'.size \in Nat /\ reader'.off + reader'.size = offset
    BY <1>6, <1>7, <1>8
  <2>2. QED
    BY <1>1, <1>4, <1>9, <2>1 DEF SeekTypes
<1>11. (Start + pos + Len(buf) + Left)' = Start + pos + Len(buf) + Left
  BY <1>2, <1>4, <1>6, <1>7, <1>8, <1>9
<1>12. ASSUME ~broken' PROVE \A i \in 1..Len(buf') : buf'[i] = Start + pos' + i
  <2>1. Start + pos + Len(buf) + Left = offset
    BY <1>4, <1>12 DEF SeekInv
  <2>2. reader.off = Start + pos
    BY <1>2, <1>6, <2>1
  <2>3. QED
    BY <1>4, <1>9, <2>2
<1>13. QED
  BY <1>4, <1>10, <1>11, <1>12 DEF SeekInv

(* A reader that has nothing left is let go.                                *)
LEMMA SeekReaderEnds ==
  ASSUME SeekConstants, SeekInv, Seeker!ReaderEnds
  PROVE  SeekInv'
<1>1. /\ reader.size = 0 /\ reader' = Seeker!NoReader
      /\ UNCHANGED <<offset, size, buf, pos, op, got, at, failures, broken>>
  BY DEF Seeker!ReaderEnds, Seeker!generatorVars
<1>2. Left = 0 /\ Left' = 0
  BY <1>1 DEF Left, Seeker!NoReader
<1>3. SeekTypes'
  BY <1>1 DEF SeekInv, SeekTypes, Seeker!NoReader
<1>4. QED
  BY <1>1, <1>2, <1>3 DEF SeekInv

(* A seek out of the buffer starts over at the new position.                *)
LEMMA SeekRestarts ==
  ASSUME SeekConstants, SeekInv, NEW p \in Nat, p <= End - Start,
         Seeker!Restart(p), pos' = p, op' = 0, UNCHANGED failures
  PROVE  SeekInv'
<1>1. Start \in Nat /\ End \in Nat
  BY SeekNumbers
<1>2. /\ offset' = Start + p /\ size' = End - Start - p
      /\ reader' = Seeker!NoReader /\ buf' = <<>>
  BY DEF Seeker!Restart
<1>3. Left' = 0 /\ Len(buf') = 0
  BY <1>2 DEF Left, Seeker!NoReader
<1>4. failures \in Nat
  BY DEF SeekInv, SeekTypes
<1>5. SeekTypes'
  BY <1>1, <1>2, <1>4 DEF SeekTypes, Seeker!NoReader
<1>6. (Start + pos + Len(buf) + Left = offset)'
  BY <1>1, <1>2, <1>3
<1>7. (Start + pos + Len(buf) + Left <= offset)'
  BY <1>1, <1>2, <1>3
<1>8. \A i \in 1..Len(buf') : FALSE
  BY <1>3
<1>9. QED
  BY <1>5, <1>6, <1>7, <1>8 DEF SeekInv

(* Every step of a read keeps the invariant.                                *)
LEMMA SeekReadStep ==
  ASSUME SeekConstants, SeekInv, Seeker!ReadRuns
  PROVE  SeekInv'
<1>1. SeekTypes
  BY DEF SeekInv
<1>2. op \in Nat /\ failures \in Nat /\ failures + 1 \in Nat
  BY <1>1 DEF SeekTypes
<1>3. CASE Seeker!TakeFromBuf
  <2> DEFINE n == Min({op, Len(buf)})
  <2>1. n \in 0..Len(buf)
    <3>1. Len(buf) \in Nat
      BY SeekNumbers
    <3>2. n \in {op, Len(buf)} /\ n <= Len(buf)
      BY <1>2, <3>1, MinOfTwo
    <3>3. QED
      BY <1>2, <3>1, <3>2
  <2>2. /\ buf' = SubSeq(buf, n + 1, Len(buf)) /\ pos' = pos + n /\ op' = 0
        /\ UNCHANGED <<offset, size, reader, failures, broken>>
    BY <1>3, SeekerMin DEF Seeker!TakeFromBuf, Seeker!generatorVars
  <2> HIDE DEF n
  <2>3. QED
    BY <2>1, <2>2, BufAdvances
<1>4. CASE Seeker!OpenReader
  <2>1. PICK r \in Seeker!RangesUpTo(N) : Seeker!NextRange(r) /\ reader' = r
    BY <1>4 DEF Seeker!OpenReader
  <2>2. /\ reader = Seeker!NoReader /\ buf = <<>>
        /\ UNCHANGED <<buf, pos, op, got, at, failures, broken>>
    BY <1>4 DEF Seeker!OpenReader, Seeker!Filling
  <2>3. QED
    BY <1>2, <2>1, <2>2, SeekOpens
<1>5. CASE Seeker!OpenFails
  <2>1. PICK r \in Seeker!RangesUpTo(N) : Seeker!NextRange(r)
    BY <1>5 DEF Seeker!OpenFails
  <2>2. /\ reader = Seeker!NoReader /\ buf = <<>> /\ op' = 0 /\ broken' = TRUE
        /\ failures' = failures + 1 /\ UNCHANGED <<reader, buf, pos, got, at>>
    BY <1>5 DEF Seeker!OpenFails, Seeker!Filling
  <2>3. QED
    BY <1>2, <2>1, <2>2, SeekOpens
<1>6. CASE Seeker!FillBuf
  BY <1>6, SeekFills
<1>7. CASE Seeker!FillFails \/ Seeker!ReadReturnsEnd
  <2>1. /\ UNCHANGED <<offset, size, reader, buf, pos, broken>>
        /\ op' = 0 /\ failures' \in {failures, failures + 1}
    BY <1>7 DEF Seeker!FillFails, Seeker!ReadReturnsEnd, Seeker!generatorVars
  <2>2. QED
    BY <1>2, <2>1, SeekQuiet
<1>8. CASE Seeker!ReaderEnds
  BY <1>8, SeekReaderEnds
<1>9. QED
  BY <1>3, <1>4, <1>5, <1>6, <1>7, <1>8 DEF Seeker!ReadRuns

(* So does a seek, in the buffer or out of it.                              *)
LEMMA SeekSeekStep ==
  ASSUME SeekConstants, SeekInv, NEW p \in Int, p <= End - Start, Seeker!Seek(p)
  PROVE  SeekInv'
<1>1. /\ op = 0 /\ p >= 0 /\ pos' = p /\ UNCHANGED <<op, failures>>
  BY DEF Seeker!Seek
<1>2. pos \in Nat /\ Len(buf) \in Nat
  BY SeekNumbers
<1>3. CASE Seeker!SeekInBuf(p)
  <2> DEFINE k == p - pos
  <2>1. k \in 0..Len(buf) /\ pos + k = p
    BY <1>2, <1>3 DEF Seeker!SeekInBuf
  <2>2. /\ buf' = SubSeq(buf, k + 1, Len(buf))
        /\ UNCHANGED <<offset, size, reader, broken>>
    BY <1>3 DEF Seeker!Seek, Seeker!generatorVars
  <2> HIDE DEF k
  <2>3. QED
    BY <1>1, <2>1, <2>2, BufAdvances
<1>4. CASE ~Seeker!SeekInBuf(p)
  <2>1. Seeker!Restart(p) /\ p \in Nat
    BY <1>1, <1>4 DEF Seeker!Seek
  <2>2. QED
    BY <1>1, <2>1, SeekRestarts
<1>5. QED
  BY <1>3, <1>4

(* Every step of a seekable reader keeps its invariant.                     *)
LEMMA SeekStep ==
  ASSUME SeekConstants, SeekInv, [Seeker!Next]_(Seeker!vars)
  PROVE  SeekInv'
<1>1. SeekTypes /\ MaxSeek \in Nat /\ Start \in Nat /\ End \in Nat /\ ReadSizes \subseteq Nat \ {0}
      /\ pos \in Nat
  BY SeekNumbers DEF SeekInv, SeekConstants, Seeker!SeekAssumption
<1>2. op \in Nat /\ failures \in Nat
  BY <1>1 DEF SeekTypes
<1>3. CASE UNCHANGED Seeker!vars
  <2>1. UNCHANGED <<offset, size, reader, buf, pos, op, got, at, failures, broken>>
    BY <1>3 DEF Seeker!vars, Seeker!seekVars, Seeker!generatorVars
  <2>2. op' # 0 => at' = pos' /\ got' = <<>>
    BY <2>1 DEF SeekInv
  <2>3. QED
    BY <1>2, <2>1, <2>2, SeekQuiet
<1>4. ASSUME NEW n \in ReadSizes, Seeker!CallRead(n) PROVE SeekInv'
  <2>1. /\ UNCHANGED <<offset, size, reader, buf, pos, failures, broken>>
        /\ op' = n /\ at' = pos /\ got' = <<>>
    BY <1>4 DEF Seeker!CallRead, Seeker!generatorVars
  <2>2. n \in Nat
    BY <1>1
  <2>3. QED
    BY <1>2, <2>1, <2>2, SeekQuiet
<1>5. CASE Seeker!ReadRuns
  BY <1>5, SeekReadStep
<1>6. ASSUME NEW s \in -MaxSeek..MaxSeek, NEW p \in Seeker!SeekFrom(s), p <= End - Start,
             Seeker!Seek(p) \/ Seeker!SeekNegative(p)
      PROVE  SeekInv'
  <2>1. p \in Int
    <3>1. s \in Int
      BY <1>1
    <3>2. QED
      BY <1>1, <3>1 DEF Seeker!SeekFrom
  <2>2. CASE Seeker!Seek(p)
    BY <1>6, <2>1, <2>2, SeekSeekStep
  <2>3. CASE Seeker!SeekNegative(p)
    BY <1>3, <2>3 DEF Seeker!SeekNegative
  <2>4. QED
    BY <1>6, <2>2, <2>3
<1>7. QED
  BY <1>3, <1>4, <1>5, <1>6 DEF Seeker!Next

(* A new reader is at the start of its range.                               *)
LEMMA SeekInit ==
  ASSUME SeekConstants, Seeker!Init
  PROVE  SeekInv
<1>1. N \in Nat /\ Start \in 0..N /\ End \in Start..N
  BY DEF SeekConstants, Seeker!SeekAssumption
<1>2. Start \in Nat /\ End \in Nat /\ Start <= End
  BY <1>1
<1>3. /\ offset = Start /\ size = End - Start /\ reader = Seeker!NoReader /\ buf = <<>>
      /\ pos = 0 /\ op = 0 /\ failures = 0
  BY DEF Seeker!Init
<1>4. Left = 0 /\ Len(buf) = 0
  BY <1>3 DEF Left
<1>5. SeekTypes
  BY <1>2, <1>3 DEF SeekTypes
<1>6. Start + pos + Len(buf) + Left = offset /\ Start + pos + Len(buf) + Left <= offset
  BY <1>2, <1>3, <1>4
<1>7. QED
  BY <1>3, <1>4, <1>5, <1>6 DEF SeekInv

(* The position, the buffer, the open reader and the generator of a seeking *)
(* reader follow each other, for every range, chunk size and slice.         *)
THEOREM SeekInvariant ==
  ASSUME SeekConstants
  PROVE  Seeker!Spec => []SeekInv
<1>1. Seeker!Init => SeekInv
  BY SeekInit
<1>2. SeekInv /\ [Seeker!Next]_(Seeker!vars) => SeekInv'
  BY SeekStep
<1>3. QED
  BY <1>1, <1>2, PTL DEF Seeker!Spec

(* Between the calls of a reader that has not failed, the stages meet.      *)
LEMMA SeekMeets ==
  ASSUME SeekConstants, SeekInv
  PROVE  Seeker!TypeOK /\ Seeker!StagesMeet
<1>1. SeekTypes
  BY DEF SeekInv
<1>2. /\ Start \in Nat /\ End \in Nat /\ pos \in Nat /\ offset \in Nat /\ N \in Nat
      /\ Len(buf) \in Nat /\ Left \in Nat /\ buf \in Seq(Nat) /\ End <= N /\ offset <= End
      /\ Start + pos + Len(buf) + Left <= offset
  BY SeekNumbers DEF SeekInv
<1>3. Seeker!TypeOK
  <2>1. pos \in 0..End - Start /\ Len(buf) <= N
    BY <1>2
  <2>2. QED
    BY <1>1, <2>1 DEF SeekTypes, Seeker!TypeOK
<1>4. ASSUME ~broken
      PROVE  /\ buf = Seeker!Bytes(Start + pos, Len(buf))
             /\ reader # Seeker!NoReader => reader.off = Start + pos + Len(buf)
             /\ Start + pos + Len(buf) + Seeker!Max({0, reader.size}) = offset
  <2>1. /\ Start + pos + Len(buf) + Left = offset
        /\ \A i \in 1..Len(buf) : buf[i] = Start + pos + i
    BY <1>4 DEF SeekInv
  <2>2. buf = Seeker!Bytes(Start + pos, Len(buf))
    <3> DEFINE b == [i \in 1..Len(buf) |-> Start + pos + i]
    <3>1. b \in Seq(Nat) /\ Len(b) = Len(buf) /\ \A i \in 1..Len(buf) : b[i] = Start + pos + i
      <4>1. b \in [1..Len(buf) -> Nat]
        BY <1>2
      <4>2. QED
        BY <1>2, <4>1, IsASeq, LenProperties
    <3>2. buf = b
      <4> HIDE DEF b
      <4>1. QED
        BY <1>2, <2>1, <3>1, SeqEqual
    <3>3. QED
      BY <3>2 DEF Seeker!Bytes
  <2>3. reader # Seeker!NoReader => reader.off = Start + pos + Len(buf)
    BY <1>1, <1>2, <2>1, SMTT(30) DEF SeekTypes, Left
  <2>4. Seeker!Max({0, reader.size}) = Left
    <3>1. reader.size \in Int /\ (reader.size >= 0 => Left = reader.size)
          /\ (reader.size < 0 => Left = 0)
      BY <1>1 DEF SeekTypes, Left, Seeker!NoReader
    <3>2. Left \in {0, reader.size} /\ Left >= 0 /\ Left >= reader.size
      BY <1>2, <3>1
    <3>3. \A x \in {0, reader.size} : (\A y \in {0, reader.size} : x >= y) => x = Left
      BY <1>2, <3>1, <3>2
    <3>4. QED
      BY <3>2, <3>3 DEF Seeker!Max
  <2>5. QED
    BY <2>1, <2>2, <2>3, <2>4
<1>5. QED
  BY <1>3, <1>4 DEF Seeker!StagesMeet

(* Whatever reads and seeks came before, the bytes in the buffer are those  *)
(* at the position of StdReader or FuturesAsyncReader, and the reader and   *)
(* the generator go on where the buffer ends.                               *)
THEOREM SeekStagesMeet ==
  ASSUME SeekConstants
  PROVE  Seeker!Spec => [](Seeker!TypeOK /\ Seeker!StagesMeet)
<1>1. SeekInv => Seeker!TypeOK /\ Seeker!StagesMeet
  BY SeekMeets
<1>2. QED
  BY <1>1, SeekInvariant, PTL

(* A step that returns from a read returns the bytes at the position.       *)
LEMMA SeekReadsStep ==
  ASSUME SeekConstants, SeekInv, [Seeker!Next]_(Seeker!vars)
  PROVE  [Seeker!ReadsWhereItIs]_(Seeker!vars)
<1>1. SUFFICES ASSUME Seeker!Next, op # 0, op' = 0, ~broken', failures' = failures
               PROVE  /\ got' = Seeker!Bytes(Start + at, Len(got'))
                      /\ got' = <<>> => pos = End - Start
  BY DEF Seeker!ReadsWhereItIs
<1>2. SeekTypes /\ at = pos /\ got = <<>>
  BY <1>1 DEF SeekInv
<1>3. /\ Start \in Nat /\ End \in Nat /\ pos \in Nat /\ offset \in Nat
      /\ Len(buf) \in Nat /\ buf \in Seq(Nat)
  BY SeekNumbers
<1>4. failures \in Nat /\ op \in Nat /\ failures # failures + 1
  BY <1>2 DEF SeekTypes
<1>5. Seeker!TakeFromBuf \/ Seeker!ReadReturnsEnd
  BY <1>1, <1>4 DEF Seeker!Next, Seeker!CallRead, Seeker!ReadRuns, Seeker!OpenReader,
     Seeker!OpenFails, Seeker!FillBuf, Seeker!FillFails, Seeker!ReaderEnds, Seeker!Seek,
     Seeker!SeekNegative
<1>6. CASE Seeker!TakeFromBuf
  <2> DEFINE n == Min({op, Len(buf)})
  <2>1. got' = SubSeq(buf, 1, n) /\ buf # <<>> /\ broken' = broken
    BY <1>6, SeekerMin DEF Seeker!TakeFromBuf
  <2>2. n \in Nat /\ n >= 1 /\ n <= Len(buf)
    <3>1. Len(buf) # 0
      BY <1>3, <2>1, EmptySeq
    <3>2. n \in {op, Len(buf)} /\ n <= Len(buf)
      <4>1. op \in Int /\ Len(buf) \in Int
        BY <1>3, <1>4
      <4>2. QED
        BY <4>1, MinOfTwo
    <3> HIDE DEF n
    <3>3. QED
      BY <1>1, <1>3, <1>4, <3>1, <3>2
  <2> HIDE DEF n
  <2>3. \A i \in 1..Len(buf) : buf[i] = Start + pos + i
    BY <1>1, <2>1 DEF SeekInv
  <2>4. got' \in Seq(Nat) /\ Len(got') = n /\ \A i \in 1..n : got'[i] = Start + pos + i
    <3>1. \A i \in 1..n : i \in 1..Len(buf) /\ buf[i] \in Nat
      BY <1>3, <2>2
    <3>2. /\ SubSeq(buf, 1, n) \in Seq(Nat)
          /\ Len(SubSeq(buf, 1, n)) = IF 1 <= n THEN n - 1 + 1 ELSE 0
          /\ \A i \in 1..n - 1 + 1 : SubSeq(buf, 1, n)[i] = buf[1 + i - 1]
      BY <2>2, <3>1, SubSeqProperties
    <3>3. \A i \in 1..n : i \in 1..n - 1 + 1 /\ 1 + i - 1 = i
      BY <2>2
    <3>4. \A i \in 1..n : got'[i] = buf[i]
      BY <2>1, <3>2, <3>3
    <3>5. QED
      BY <2>1, <2>2, <2>3, <3>1, <3>2, <3>4
  <2>5. got' = [i \in 1..n |-> Start + pos + i]
    <3> DEFINE b == [i \in 1..n |-> Start + pos + i]
    <3>1. b \in Seq(Nat) /\ Len(b) = n /\ \A i \in 1..n : b[i] = Start + pos + i
      <4>1. b \in [1..n -> Nat]
        BY <1>3, <2>2
      <4>2. QED
        BY <2>2, <4>1, IsASeq, LenProperties
    <3> HIDE DEF b
    <3>2. got' = b
      BY <2>4, <3>1, SeqEqual
    <3>3. QED
      BY <3>2 DEF b
  <2>6. got' # <<>>
    BY <2>2, <2>4
  <2>7. QED
    BY <1>2, <2>4, <2>5, <2>6 DEF Seeker!Bytes
<1>7. CASE Seeker!ReadReturnsEnd
  <2>1. /\ got' = <<>> /\ buf = <<>> /\ reader = Seeker!NoReader /\ size = 0 /\ broken' = broken
    BY <1>2, <1>7 DEF Seeker!ReadReturnsEnd, Seeker!Filling
  <2>2. Left = 0 /\ Len(buf) = 0 /\ Start + pos + Len(buf) + Left = offset
    BY <1>1, <2>1 DEF Left, SeekInv
  <2>3. pos = End - Start
    BY <1>2, <1>3, <2>1, <2>2 DEF SeekTypes
  <2>4. got' = Seeker!Bytes(Start + at, Len(got'))
    <3>1. Len(got') = 0
      BY <2>1
    <3>2. [i \in 1..0 |-> Start + at + i] = <<>>
      OBVIOUS
    <3>3. QED
      BY <2>1, <3>1, <3>2 DEF Seeker!Bytes
  <2>5. QED
    BY <2>3, <2>4
<1>8. QED
  BY <1>5, <1>6, <1>7

(* A read of a seeking reader returns the bytes at the position where it    *)
(* began, and none only at the end of the range or with an error; also      *)
(* after a failed request, once the user has sought away.                   *)
THEOREM SeekReadsWhereItIs ==
  ASSUME SeekConstants
  PROVE  Seeker!Spec => [][Seeker!ReadsWhereItIs]_(Seeker!vars)
<1>1. SeekInv /\ [Seeker!Next]_(Seeker!vars) => [Seeker!ReadsWhereItIs]_(Seeker!vars)
  BY SeekReadsStep
<1>2. QED
  BY <1>1, SeekInvariant, PTL DEF Seeker!Spec
=============================================================================
