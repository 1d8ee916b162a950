----------------------------- MODULE FlexWriter -----------------------------
(***************************************************************************)
(* The two writers that put a FlexBuf (core/src/raw/oio/buf/flex_buf.rs) in *)
(* front of a WriteGenerator, in two specifications.  A FlexBuf is filled,  *)
(* frozen when it is full, handed over and cleaned; its `len` is the length *)
(* of flex.                                                                 *)
(*                                                                          *)
(* Spec: FuturesAsyncWriter of core/src/types/write/futures_async_writer.rs *)
(* with a BufferSink (core/src/types/write/buffer_sink.rs) in between.  The *)
(* user polls write, flush and close in any order, may stop polling one and *)
(* poll another, and may go on after an error or a close.  A poll runs      *)
(* until it returns Ready or waits for the future the sink holds, so that   *)
(* each turn of a loop is an action.  No empty slice is written: StdWriter  *)
(* has that case of the same loop.                                          *)
(*                                                                          *)
(* StdSpec: StdWriter of core/src/types/blocking_write/std_writer.rs,       *)
(* std::io::Write over a blocking WriteGenerator.  Calls do not overlap,    *)
(* and each turn of a loop is an action.  `w` is None once it is closed or  *)
(* dropped.                                                                 *)
(***************************************************************************)
EXTENDS WriteGenerator

CONSTANTS
  Cap,        \* the capacity of the FlexBuf; 256 KiB in both users
  Lengths,    \* the lengths of the slices the user writes
  MaxBytes    \* bound: the bytes offered in a behaviour

FlexConstants == Cap \in Nat \ {0} /\ Lengths \subseteq Nat /\ MaxBytes \in Nat

VARIABLES
  flex,       \* the bytes put since the last freeze
  frozen,     \* the frozen bytes, <<>> for None
  sink,       \* state of BufferSink: "idle", "writing", "closing", or "none" for Idle(None)
  sbuf,       \* its buf
  w,          \* of StdWriter: "some", "none", or "dropped" with the whole StdWriter
  op,         \* the call or poll in progress: "none", "write", "flush", "close"
  slice,      \* the argument of write
  taken,      \* history: the bytes write said it took
  failed,     \* history: some call has failed
  panicked    \* an expect() of StdWriter has failed

flexVars == <<flex, frozen>>
sinkVars == <<sink, sbuf>>
vars == <<generatorVars, flexVars, sinkVars, op, slice, taken, failed>>
stdVars == <<generatorVars, flexVars, w, op, slice, taken, failed, panicked>>

FlexInit == flex = <<>> /\ frozen = <<>>

(* put(bs), which takes the first n bytes.                                  *)
PutMutant(bs, n) ==       \* what does not fit is taken to be stored
  /\ n = IF frozen # <<>> THEN 0 ELSE Len(bs)
  /\ LET all == flex \o SubSeq(bs, 1, Min({Cap - Len(flex), n}))
     IN IF Len(all) >= Cap THEN flex' = <<>> /\ frozen' = all
                           ELSE flex' = all /\ UNCHANGED frozen

Put(bs, n) ==
  /\ n = IF frozen # <<>> THEN 0 ELSE Min({Cap - Len(flex), Len(bs)})
  /\ LET all == flex \o SubSeq(bs, 1, n)
     IN IF Len(all) >= Cap THEN flex' = <<>> /\ frozen' = all
                           ELSE flex' = all /\ UNCHANGED frozen

FreezeMutant ==           \* len is not set back to zero
  IF flex = <<>> THEN UNCHANGED flexVars ELSE frozen' = flex /\ UNCHANGED flex

Freeze ==
  IF flex = <<>> THEN UNCHANGED flexVars ELSE flex' = <<>> /\ frozen' = flex

FlexAdvance(n) ==
  /\ frozen' = SubSeq(frozen, n + 1, Len(frozen))
  /\ UNCHANGED flex

FlexClean == frozen' = <<>> /\ UNCHANGED flex

-----------------------------------------------------------------------------
(* FuturesAsyncWriter.                                                      *)

Init ==
  /\ GeneratorInit
  /\ FlexInit
  /\ sink = "idle"
  /\ sbuf = <<>>
  /\ op = "none"
  /\ slice = <<>>
  /\ taken = <<>>
  /\ failed = FALSE

Poll(o, n) ==
  /\ op = "none"
  /\ Len(taken) + n <= MaxBytes
  /\ op' = o
  /\ slice' = Bytes(Len(taken), n)
  /\ o = "write" \/ n = 0
  /\ IF o = "write" THEN UNCHANGED flexVars ELSE Freeze
  /\ UNCHANGED <<generatorVars, sinkVars, taken, failed>>

Return == op' = "none"
Fail == op' = "none" /\ failed' = TRUE

WritePuts ==
  /\ op = "write"
  /\ \E n \in 1..Len(slice) :
       /\ Put(slice, n)
       /\ taken' = taken \o SubSeq(slice, 1, n)
  /\ Return
  /\ UNCHANGED <<generatorVars, sinkVars, slice, failed>>

(* put returned 0, or freeze has frozen: sink.poll_ready, then start_send.  *)
NeedsSink == frozen # <<>> /\ op # "none"

HandOver ==
  /\ NeedsSink
  /\ sink \in {"idle", "none"}
  /\ sbuf = <<>>
  /\ sbuf' = frozen
  /\ FlexClean
  /\ UNCHANGED <<generatorVars, sink, op, slice, taken, failed>>

FlushReturns ==
  /\ op = "flush"
  /\ frozen = <<>>
  /\ Return
  /\ UNCHANGED <<generatorVars, flexVars, sinkVars, slice, taken, failed>>

-----------------------------------------------------------------------------
(* BufferSink: poll_ready and poll_flush under NeedsSink, poll_close once   *)
(* nothing is frozen.                                                       *)

Closing == op = "close" /\ frozen = <<>>

SinkWrites ==
  /\ NeedsSink \/ Closing
  /\ sink = "idle"
  /\ sbuf # <<>>
  /\ sink' = "writing"
  /\ UNCHANGED <<generatorVars, flexVars, sbuf, op, slice, taken, failed>>

SinkWroteMutant ==       \* the whole buffer is dropped after a partial write
  /\ NeedsSink \/ Closing
  /\ sink = "writing"
  /\ \E n \in 0..Len(sbuf) : GeneratorWriteOk(sbuf, n)
  /\ sbuf' = <<>>
  /\ sink' = "idle"
  /\ UNCHANGED <<flexVars, op, slice, taken, failed>>

SinkWrote ==
  /\ NeedsSink \/ Closing
  /\ sink = "writing"
  /\ \E n \in 0..Len(sbuf) :
       /\ GeneratorWriteOk(sbuf, n)
       /\ sbuf' = SubSeq(sbuf, n + 1, Len(sbuf))
  /\ sink' = "idle"
  /\ UNCHANGED <<flexVars, op, slice, taken, failed>>

SinkWriteErr ==
  /\ NeedsSink \/ Closing
  /\ sink = "writing"
  /\ GeneratorWriteErr(sbuf)
  /\ sink' = "idle"
  /\ Fail
  /\ UNCHANGED <<flexVars, sbuf, slice, taken>>

(* A close was begun, not polled to its end, and something else is called.  *)
SinkIsClosing ==
  /\ NeedsSink
  /\ sink = "closing"
  /\ Fail
  /\ UNCHANGED <<generatorVars, flexVars, sinkVars, slice, taken>>

(* Idle(None): only an empty buffer passes poll_ready.                      *)
SinkIsClosed ==
  /\ (NeedsSink /\ sbuf # <<>>) \/ Closing
  /\ sink = "none"
  /\ Fail
  /\ UNCHANGED <<generatorVars, flexVars, sinkVars, slice, taken>>

SinkCloses ==
  /\ Closing
  /\ sink = "idle"
  /\ sbuf = <<>>
  /\ sink' = "closing"
  /\ UNCHANGED <<generatorVars, flexVars, sbuf, op, slice, taken, failed>>

SinkClosedMutant ==      \* the writer is put back and not dropped
  /\ Closing
  /\ sink = "closing"
  /\ GeneratorCloseOk
  /\ sink' = "idle"
  /\ Return
  /\ UNCHANGED <<flexVars, sbuf, slice, taken, failed>>

SinkClosed ==
  /\ Closing
  /\ sink = "closing"
  /\ GeneratorCloseOk
  /\ sink' = "none"
  /\ Return
  /\ UNCHANGED <<flexVars, sbuf, slice, taken, failed>>

SinkCloseErr ==
  /\ Closing
  /\ sink = "closing"
  /\ GeneratorCloseErr
  /\ sink' = "idle"
  /\ Fail
  /\ UNCHANGED <<flexVars, sbuf, slice, taken>>

(* The user stops polling while the future of the sink is pending.          *)
StopPolling ==
  /\ op # "none"
  /\ sink \in {"writing", "closing"}
  /\ Return
  /\ UNCHANGED <<generatorVars, flexVars, sinkVars, slice, taken, failed>>

Ended == sink = "none" /\ UNCHANGED vars

PollRuns ==
  \/ WritePuts \/ HandOver \/ FlushReturns
  \/ SinkWrites \/ SinkWrote \/ SinkWriteErr \/ SinkIsClosing \/ SinkIsClosed
  \/ SinkCloses \/ SinkClosed \/ SinkCloseErr

Next ==
  \/ \E n \in Lengths \ {0} : Poll("write", n)
  \/ Poll("flush", 0)
  \/ Poll("close", 0)
  \/ PollRuns
  \/ StopPolling
  \/ Ended

Spec == Init /\ [][Next]_vars /\ WF_vars(PollRuns)

-----------------------------------------------------------------------------
(* All the bytes on their way down, the oldest first.                       *)
AllStages == committed \o buffer \o sbuf \o frozen \o flex

TypeOK ==
  /\ sink \in {"idle", "writing", "closing", "none"}
  /\ op \in {"none", "write", "flush", "close"}
  /\ Len(flex) < Cap /\ Len(frozen) <= Cap /\ Len(sbuf) <= Cap
  /\ writer = "closed" <=> sink = "none"

(* Until a call fails, the bytes acknowledged by poll_write are the bytes   *)
(* in the four buffers and below, in order, whichever polls were given up   *)
(* half way.                                                                *)
AcknowledgedIsKept == ~failed => AllStages = taken

(* A close that returns Ok with no failure before it leaves none of the     *)
(* acknowledged bytes behind in a buffer.                                   *)
CloseLeavesNothing ==
  (sink # "none" /\ sink' = "none" /\ ~failed) => committed' = taken

(* After failures too, what is sent again by the sink is neither repeated   *)
(* below nor overtaken.                                                     *)
StagesInOrder == Increasing(AllStages)

(* A poll is going on.  It returns if it is polled on: no loop waits for    *)
(* itself.                                                                  *)
Polling == op # "none"

-----------------------------------------------------------------------------
(* StdWriter.                                                               *)

StdInit ==
  /\ GeneratorInit
  /\ FlexInit
  /\ w = "some"
  /\ op = "none"
  /\ slice = <<>>
  /\ taken = <<>>
  /\ failed = FALSE
  /\ panicked = FALSE

StdCall(o, n) ==
  /\ op = "none"
  /\ w = "some"
  /\ ~panicked
  /\ Len(taken) + n <= MaxBytes
  /\ op' = o
  /\ slice' = Bytes(Len(taken), n)
  /\ o = "write" \/ n = 0
  /\ IF o = "write" THEN UNCHANGED flexVars ELSE Freeze
  /\ UNCHANGED <<generatorVars, w, taken, failed, panicked>>

StdWritePuts ==
  /\ op = "write"
  /\ \E n \in 1..Len(slice) :
       /\ Put(slice, n)
       /\ taken' = taken \o SubSeq(slice, 1, n)
  /\ op' = "none"
  /\ UNCHANGED <<generatorVars, w, slice, failed, panicked>>

(* The buffer is frozen: the generator takes a part of it.                  *)
WriteMakesRoom ==
  /\ op = "write"
  /\ frozen # <<>>
  /\ \E n \in 0..Len(frozen) :
       /\ GeneratorWriteOk(frozen, n)
       /\ FlexAdvance(n)
  /\ UNCHANGED <<w, op, slice, taken, failed, panicked>>

(* put took nothing although nothing is frozen.                             *)
WritePanics ==
  /\ op = "write"
  /\ slice = <<>>
  /\ frozen = <<>>
  /\ panicked' = TRUE
  /\ op' = "none"
  /\ UNCHANGED <<generatorVars, flexVars, w, slice, taken, failed>>

(* flush, and the flush in close.  The count that write returns is ignored. *)
FlushWrites ==
  /\ op \in {"flush", "close"}
  /\ frozen # <<>>
  /\ \E n \in 0..Len(frozen) : GeneratorWriteOk(frozen, n)
  /\ FlexClean
  /\ UNCHANGED <<w, op, slice, taken, failed, panicked>>

WriteErr ==
  /\ op # "none"
  /\ frozen # <<>>
  /\ GeneratorWriteErr(frozen)
  /\ op' = "none"
  /\ failed' = TRUE
  /\ UNCHANGED <<flexVars, w, slice, taken, panicked>>

StdFlushReturns ==
  /\ op = "flush"
  /\ frozen = <<>>
  /\ op' = "none"
  /\ UNCHANGED <<generatorVars, flexVars, w, slice, taken, failed, panicked>>

CloseOk ==
  /\ op = "close"
  /\ frozen = <<>>
  /\ GeneratorCloseOk
  /\ w' = "none"
  /\ op' = "none"
  /\ UNCHANGED <<flexVars, slice, taken, failed, panicked>>

CloseErr ==
  /\ op = "close"
  /\ frozen = <<>>
  /\ GeneratorCloseErr
  /\ op' = "none"
  /\ failed' = TRUE
  /\ UNCHANGED <<flexVars, w, slice, taken, panicked>>

(* Drop: the generator is closed, without a flush, and an error is ignored. *)
DropWriter ==
  /\ op = "none"
  /\ w = "some"
  /\ \/ GeneratorCloseOk /\ UNCHANGED failed
     \/ GeneratorCloseErr /\ failed' = TRUE
  /\ w' = "dropped"
  /\ UNCHANGED <<flexVars, op, slice, taken, panicked>>

StdEnded == (w # "some" \/ panicked) /\ UNCHANGED stdVars

StdRuns ==
  \/ StdWritePuts \/ WriteMakesRoom \/ WritePanics \/ WriteErr
  \/ FlushWrites \/ StdFlushReturns \/ CloseOk \/ CloseErr

StdNext ==
  \/ \E n \in Lengths : StdCall("write", n)
  \/ StdCall("flush", 0)
  \/ StdCall("close", 0)
  \/ StdRuns
  \/ DropWriter
  \/ StdEnded

StdSpec == StdInit /\ [][StdNext]_stdVars /\ WF_stdVars(StdRuns)

-----------------------------------------------------------------------------
StdStages == committed \o buffer \o frozen \o flex

StdTypeOK ==
  /\ w \in {"some", "none", "dropped"} /\ op \in {"none", "write", "flush", "close"}
  /\ Len(flex) < Cap /\ Len(frozen) <= Cap
  /\ frozen = <<>> \/ flex = <<>>

(* A generator that is not exact takes every buffer whole; then no byte     *)
(* that write acknowledged is lost on its way down before a call fails.     *)
StdAcknowledgedIsKept == (~failed /\ w # "dropped") => StdStages = taken

(* No byte overtakes another or is written twice, whatever fails.           *)
StdStagesInOrder == Increasing(StdStages)

(* "Close the internal writer and make sure all data have been stored."     *)
CloseStoresAll == (w = "none" /\ ~failed) => committed = taken

(* "Files are automatically closed when they go out of scope": a writer     *)
(* that is dropped, where no error had to be ignored, has stored all data.  *)
DropStoresAll == (w = "dropped" /\ ~failed) => committed = taken

(* "Return 0 means the buffer is frozen": the expect() on the frozen buffer *)
(* after put returned 0 does not fail.                                      *)
PutZeroMeansFrozen == ~panicked
=============================================================================
