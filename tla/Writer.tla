------------------------------- MODULE Writer -------------------------------
(***************************************************************************)
(* Writer of core/src/types/write/writer.rs over WriteGenerator, and the    *)
(* user who writes buffers of various lengths, goes on after a call that    *)
(* failed or was dropped, and repeats close.  BlockingWriter is the same.   *)
(* Every byte the user offers is new.                                       *)
(***************************************************************************)
EXTENDS WriteGenerator

CONSTANTS
  Lengths,    \* the lengths of the buffers the user writes
  MaxBytes    \* bound: the bytes offered in a behaviour

UserIsValid == Lengths \subseteq Nat /\ MaxBytes \in Nat

ASSUME UserAssumption == UserIsValid

VARIABLES
  call,       \* the call in progress: "none" or "write"
  bs,         \* what is left of the buffer of the current write
  offered,    \* how many bytes the user has offered
  taken,      \* history: the bytes the generator said it took
  failed      \* history: some call has failed

vars == <<generatorVars, call, bs, offered, taken, failed>>

Init ==
  /\ GeneratorInit
  /\ call = "none"
  /\ bs = <<>>
  /\ offered = 0
  /\ taken = <<>>
  /\ failed = FALSE

CallWrite(n) ==
  /\ call = "none"
  /\ writer = "open"
  /\ offered + n <= MaxBytes
  /\ call' = "write"
  /\ bs' = Bytes(offered, n)
  /\ offered' = offered + n
  /\ UNCHANGED <<generatorVars, taken, failed>>

(* One turn of `while !bs.is_empty()`. *)
WriteStep ==
  /\ call = "write"
  /\ bs # <<>>
  /\ \E n \in 0..Len(bs) :
       /\ GeneratorWriteOk(bs, n)
       /\ bs' = SubSeq(bs, n + 1, Len(bs))
       /\ taken' = taken \o SubSeq(bs, 1, n)
  /\ UNCHANGED <<call, offered, failed>>

WriteReturns ==
  /\ call = "write"
  /\ bs = <<>>
  /\ call' = "none"
  /\ UNCHANGED <<generatorVars, bs, offered, taken, failed>>

WriteErr ==
  /\ call = "write"
  /\ bs # <<>>
  /\ GeneratorWriteErr(bs)
  /\ call' = "none"
  /\ bs' = <<>>
  /\ failed' = TRUE
  /\ UNCHANGED <<offered, taken>>

CloseOk ==
  /\ call = "none"
  /\ GeneratorCloseOk
  /\ UNCHANGED <<call, bs, offered, taken, failed>>

CloseErr ==
  /\ call = "none"
  /\ writer = "open"
  /\ GeneratorCloseErr
  /\ failed' = TRUE
  /\ UNCHANGED <<call, bs, offered, taken>>

Abort ==
  /\ call = "none"
  /\ writer = "open"
  /\ \E ok \in BOOLEAN :
       /\ GeneratorAbort(ok)
       /\ failed' = (failed \/ ~ok)
  /\ UNCHANGED <<call, bs, offered, taken>>

Ended == writer # "open" /\ UNCHANGED vars

Next ==
  \/ \E n \in Lengths : CallWrite(n)
  \/ WriteStep
  \/ WriteReturns
  \/ WriteErr
  \/ CloseOk
  \/ CloseErr
  \/ Abort
  \/ Ended

Spec == Init /\ [][Next]_vars /\ WF_vars(WriteStep \/ WriteReturns)

-----------------------------------------------------------------------------
(* The buffer never holds more than one chunk, whatever has failed before.   *)
TypeOK ==
  /\ Chunked => Len(buffer) <= CalculateChunkSize
  /\ buffer \in Seq(Nat) /\ committed \in Seq(Nat) /\ sizes \subseteq Nat
  /\ writer \in {"open", "closed", "aborted"}
  /\ call \in {"none", "write"} /\ bs \in Seq(Nat) /\ taken \in Seq(Nat)
  /\ offered \in 0..MaxBytes /\ failed \in BOOLEAN

(* Until a call fails, the bytes below and in the buffer are the bytes the  *)
(* user wrote, in order, and a close has left none behind: no combination   *)
(* of lengths, chunk sizes and capabilities loses, repeats or swaps a byte. *)
NothingLostBeforeError ==
  (~failed /\ writer # "aborted") =>
    /\ Pipeline = taken
    /\ writer = "closed" => committed = taken

(* Even after failures, and whatever is written next, no byte overtakes     *)
(* another and none is written twice.                                       *)
OrderKept == Increasing(Pipeline)

(* What the user may rely on: a byte is lost by a failed call only, and     *)
(* what is not lost stays in order.                                         *)
BytesKeptInOrder == NothingLostBeforeError /\ OrderKept

(* "If exact is true, the size of the data written to the underlying        *)
(* storage is exactly chunk_size bytes"; otherwise a chunk is at least      *)
(* that.  A service with write_multi_min_size never sees a smaller one from *)
(* `write`, also not after a failure.                                       *)
ChunksHaveTheSize ==
  \A n \in sizes :
    /\ Chunked /\ Exact => n = CalculateChunkSize
    /\ MinSize # NoSize => n >= MinSize
    /\ Exact /\ MaxSize # NoSize => n <= MaxSize

(* Every write returns: each turn of its loop takes at least one byte, also *)
(* when the chunk is exactly full.  With chunks of 0 bytes, which the user  *)
(* may ask for where the service has no least size, the loop never ends.    *)
Writing == call = "write"
WritesReturn == (Writing /\ CalculateChunkSize # 0) ~> ~Writing

(* "Close the writer and make sure all data have been committed": when      *)
(* close returns Ok, every byte that was taken is below.                    *)
CloseCommitsAll == writer = "closed" => committed = taken
=============================================================================
