--------------------------- MODULE ChunkedReader ----------------------------
(***************************************************************************)
(* ChunkedReader of core/src/types/read/buffer_stream.rs under the          *)
(* BufferStream that polls it: the chunks are read concurrently by tasks of *)
(* ConcurrentTasks and returned in order.                                   *)
(*                                                                          *)
(* The input of a task is the reader of a chunk, identified by its range.   *)
(* A task is read_all: the buffers it has when the reader fails are         *)
(* dropped, and a task that is run again goes on with the same reader.      *)
(***************************************************************************)
EXTENDS ConcurrentTasks, ReadGenerator

CONSTANTS
  Total,         \* the number of bytes asked for
  MaxFailures    \* bound: the failures of a behaviour

ReadConstants ==
  /\ ChunkAssumption /\ Chunk # NoSize
  /\ Total \in Nat /\ MaxFailures \in Nat /\ Concurrent \in Nat \ {0}

ASSUME ReadAssumption == ReadConstants

VARIABLES
  pc,         \* in ChunkedReader::read: "idle", "loop", "execute", "next"
  done,       \* the generator has no more readers
  lost,       \* how many bytes of the chunk at an offset a failed task has dropped
  failures,   \* bound
  out,        \* history: the bytes of the buffers returned
  failed,     \* history: what has made the stream return an error: "open", "task"
  ended       \* history: the stream has returned None

readVars == <<pc, done, lost, failures, out, failed, ended>>
vars == <<taskVars, generatorVars, readVars>>

NoRange == [off |-> 0, size |-> 0]

Init ==
  /\ TasksInit
  /\ input = NoRange
  /\ offset = 0
  /\ size = Total
  /\ pc = "idle"
  /\ done = FALSE
  /\ lost = [o \in 0..Total |-> 0]
  /\ failures = 0
  /\ out = <<>>
  /\ failed = {}
  /\ ended = FALSE

(* What read_all returns for the reader of a chunk.                         *)
ReadAll(r) == Bytes(r.off + lost[r.off], r.size - lost[r.off])

PollNext ==
  /\ pc = "idle"
  /\ pc' = "loop"
  /\ UNCHANGED <<taskVars, generatorVars, done, lost, failures, out, failed, ended>>

ReturnErr(e) == pc' = "idle" /\ failed' = failed \cup {e}

(* BufferStream takes an empty buffer for the end.                          *)
ReturnBuffer(bs) ==
  /\ pc' = "idle"
  /\ out' = out \o bs
  /\ ended' = (ended \/ bs = <<>>)

LoopEndsMutant ==              \* a generator at its end is asked again
  /\ pc = "loop"
  /\ IF ~HasRemaining THEN pc' = "next" ELSE size = 0 /\ UNCHANGED pc
  /\ UNCHANGED <<taskVars, generatorVars, done, lost, failures, out, failed, ended>>

LoopEnds ==
  /\ pc = "loop"
  /\ ~HasRemaining \/ done \/ size = 0
  /\ done' = (done \/ (HasRemaining /\ size = 0))
  /\ pc' = "next"
  /\ UNCHANGED <<taskVars, generatorVars, lost, failures, out, failed, ended>>

NextReaderOk ==
  /\ pc = "loop"
  /\ HasRemaining /\ ~done
  /\ \E r \in RangesUpTo(Total) : NextRange(r) /\ StartExecute(r)
  /\ pc' = "execute"
  /\ UNCHANGED <<done, lost, failures, out, failed, ended>>

(* The request fails, but the generator has moved on.                       *)
NextReaderErr ==
  /\ pc = "loop"
  /\ HasRemaining /\ ~done
  /\ failures < MaxFailures
  /\ failures' = failures + 1
  /\ \E r \in RangesUpTo(Total) : NextRange(r)
  /\ ReturnErr("open")
  /\ UNCHANGED <<taskVars, done, lost, out, ended>>

ExecuteStep == ExecuteContinues /\ UNCHANGED <<generatorVars, readVars>>

ExecuteOk ==
  /\ ExecuteReturnsOk
  /\ pc' = IF results' # <<>> THEN "next" ELSE "loop"
  /\ UNCHANGED <<generatorVars, done, lost, failures, out, failed, ended>>

(* The error of the first task in the queue; the new reader is dropped.     *)
ExecuteErr ==
  /\ ExecuteReturnsErr
  /\ exec = "inline" => failures < MaxFailures
  /\ failures' = failures + (IF exec = "inline" THEN 1 ELSE 0)
  /\ ReturnErr("task")
  /\ UNCHANGED <<generatorVars, done, lost, out, ended>>

NextOk ==
  /\ pc = "next"
  /\ \E r \in RangesUpTo(Total) : NextReturns(r) /\ ReturnBuffer(ReadAll(r))
  /\ UNCHANGED <<generatorVars, done, lost, failures, failed>>

NextErr ==
  /\ pc = "next"
  /\ NextReturnsErr
  /\ ReturnErr("task")
  /\ UNCHANGED <<generatorVars, done, lost, failures, out, ended>>

NextNone ==
  /\ pc = "next"
  /\ NextReturnsNone
  /\ ReturnBuffer(<<>>)
  /\ UNCHANGED <<generatorVars, done, lost, failures, failed>>

ReadAllOk(k) == TaskDone(k, "ok") /\ UNCHANGED <<generatorVars, readVars>>

ReadAllErr(k, e) ==
  /\ failures < MaxFailures
  /\ failures' = failures + 1
  /\ TaskDone(k, e)
  /\ \E n \in lost[tasks[k].input.off]..tasks[k].input.size :
       lost' = [lost EXCEPT ![tasks[k].input.off] = n]
  /\ UNCHANGED <<generatorVars, pc, done, out, failed, ended>>

(* With concurrency `execute` is never suspended: there is room for a task. *)
Execute ==
  /\ pc = "execute"
  /\ ExecuteStep \/ ExecuteOk \/ ExecuteErr

ReadRuns ==
  \/ LoopEnds \/ NextReaderOk \/ NextReaderErr \/ Execute
  \/ NextOk \/ NextErr \/ NextNone

TaskEnds(k) == ReadAllOk(k) \/ \E e \in Errors : ReadAllErr(k, e)

Next ==
  \/ PollNext
  \/ ReadRuns
  \/ \E k \in 1..Concurrent : TaskEnds(k)

Fairness ==
  /\ WF_vars(ReadRuns)
  /\ \A k \in 1..Concurrent : WF_vars(TaskEnds(k))

Spec == Init /\ [][Next]_vars /\ Fairness

-----------------------------------------------------------------------------
Wanted == Bytes(0, Total)

(* The ranges of chunks.                                                    *)
Ranges == [off : 0..Total, size : 1..Total]

TypeOK ==
  /\ tasks \in Seq(Tasks(Ranges)) /\ Len(tasks) <= Concurrent
  /\ results \in Seq(Ranges) /\ Len(results) <= 1
  /\ errored \in BOOLEAN /\ done \in BOOLEAN /\ ended \in BOOLEAN
  /\ exec \in {"none", "poll", "inline"}
  /\ exec # "none" => input \in Ranges
  /\ pc \in {"idle", "loop", "execute", "next"}
  /\ pc = "execute" <=> exec # "none"
  /\ offset \in 0..Total /\ size \in 0..Total /\ offset + size = Total
  /\ lost \in [0..Total -> 0..Total]
  /\ failures \in 0..MaxFailures
  /\ out \in Seq(Nat)
  /\ failed \subseteq {"open", "task"}

(* Until it returns an error, the stream returns the bytes in order, none   *)
(* missing and none twice, in whichever order the chunks arrive; and it     *)
(* ends, or stops asking for chunks, only when all of them are there.       *)
ExactUntilError ==
  failed = {} => /\ Len(out) <= Total
                 /\ out = SubSeq(Wanted, 1, Len(out))
                 /\ ended => out = Wanted

(* After errors, a stream that is polled on leaves bytes out, but it never  *)
(* goes back: no byte is returned twice or before an earlier one.           *)
NeverGoesBack == Increasing(out)

(* Both.                                                                    *)
StreamIsExact == ExactUntilError /\ NeverGoesBack

(* A poll is going on.  It returns if the tasks come to their end.          *)
InPoll == pc # "idle"

(* "If the given result is error, the error will be returned to users and   *)
(* the task will be retried": a stream that ends after temporary errors of  *)
(* tasks only has returned everything.                                      *)
RetriedTaskIsWhole == (ended /\ ~errored /\ failed = {"task"}) => out = Wanted
=============================================================================
