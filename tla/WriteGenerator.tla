--------------------------- MODULE WriteGenerator ---------------------------
(***************************************************************************)
(* WriteGenerator of core/src/types/context/write.rs: it collects what the  *)
(* user writes into chunks for the oio::Writer below.  The blocking version *)
(* is the same code.                                                        *)
(*                                                                          *)
(* A byte is a number and a buffer a sequence of bytes.  The writer below   *)
(* answers a write with Ok, and has then taken the chunk, or with an error, *)
(* and has not (MultipartWriter: a failed write is not accepted).  Once it  *)
(* is closed or aborted it refuses every call (CompleteWriter).             *)
(*                                                                          *)
(* This module has no specification of its own.  Its actions constrain      *)
(* generatorVars; the modules that extend it say who calls them.            *)
(***************************************************************************)
EXTENDS Integers, Sequences, FiniteSetsExt

CONSTANTS
  NoSize,     \* a size that is None
  Chunk,      \* the option `chunk` of the user
  MinSize,    \* the capabilities write_multi_min_size and
  MaxSize     \* write_multi_max_size of the service

Size == Nat \cup {NoSize}

SizesAreValid ==
  /\ NoSize \notin Nat
  /\ Chunk \in Size                          \* OpWriter takes a chunk of 0 as it is
  /\ {MinSize, MaxSize} \subseteq Size \ {0}
  /\ (MinSize # NoSize /\ MaxSize # NoSize) => MinSize <= MaxSize

ASSUME SizeAssumption == SizesAreValid

VARIABLES
  buffer,      \* the bytes of the QueueBuf
  committed,   \* the bytes the writer below has taken
  sizes,       \* history: the sizes of the chunks that `write` gave it
  writer       \* the writer below: "open", "closed" or "aborted"

generatorVars == <<buffer, committed, sizes, writer>>

Exact == Chunk # NoSize

CalculateChunkSizeMutant ==    \* the lower bound of the service is forgotten
  IF Exact THEN IF MaxSize = NoSize THEN Chunk ELSE Min({Chunk, MaxSize})
  ELSE MinSize

CalculateChunkSize ==
  LET wanted == IF Exact THEN Chunk ELSE MinSize
      capped == IF MaxSize = NoSize THEN wanted ELSE Min({wanted, MaxSize})
  IN IF wanted = NoSize THEN NoSize
     ELSE IF MinSize = NoSize THEN capped ELSE Max({capped, MinSize})

Chunked == CalculateChunkSize # NoSize

GeneratorInit ==
  /\ buffer = <<>>
  /\ committed = <<>>
  /\ sizes = {}
  /\ writer = "open"

InnerWrite(bs) ==
  /\ writer = "open"
  /\ committed' = committed \o bs

-----------------------------------------------------------------------------
(* write(bs), which takes the first n bytes of bs. *)

FitsMutant(bs) == Chunked /\ Len(buffer) + Len(bs) < CalculateChunkSize - 1
Fits(bs) == Chunked /\ Len(buffer) + Len(bs) < CalculateChunkSize
Overflows(bs) == Chunked /\ ~Fits(bs)
ChunkFullMutant == Len(buffer) > CalculateChunkSize
ChunkFull == Len(buffer) >= CalculateChunkSize

PassThroughMutant(bs, n) ==      \* only the first byte is reported as taken
  /\ ~Chunked
  /\ InnerWrite(bs)
  /\ n = 1
  /\ sizes' = sizes \cup {Len(bs)}
  /\ UNCHANGED <<buffer, writer>>

PassThrough(bs, n) ==
  /\ ~Chunked
  /\ InnerWrite(bs)
  /\ n = Len(bs)
  /\ sizes' = sizes \cup {Len(bs)}
  /\ UNCHANGED <<buffer, writer>>

Keep(bs, n) ==
  /\ Fits(bs)
  /\ buffer' = buffer \o bs
  /\ n = Len(bs)
  /\ UNCHANGED <<committed, sizes, writer>>

WriteThroughMutant(bs, n) ==     \* the new bytes go before the kept ones
  /\ Overflows(bs) /\ ~Exact
  /\ InnerWrite(bs \o buffer)
  /\ buffer' = <<>>
  /\ n = Len(bs)
  /\ sizes' = sizes \cup {Len(buffer) + n}
  /\ UNCHANGED writer

WriteThrough(bs, n) ==
  /\ Overflows(bs) /\ ~Exact
  /\ InnerWrite(buffer \o bs)
  /\ buffer' = <<>>
  /\ n = Len(bs)
  /\ sizes' = sizes \cup {Len(buffer) + n}
  /\ UNCHANGED writer

(* Exact: a full chunk is written first, then as much of bs is kept as      *)
(* makes one chunk.  With chunks of 0 bytes that is nothing of bs, and an   *)
(* empty chunk is written each time.                                        *)
FillChunkMutant(bs, n) ==        \* all of bs is kept
  /\ Overflows(bs) /\ Exact
  /\ IF ChunkFull THEN InnerWrite(buffer) /\ sizes' = sizes \cup {Len(buffer)}
                  ELSE UNCHANGED <<committed, sizes>>
  /\ n = Len(bs)
  /\ buffer' = (IF ChunkFull THEN <<>> ELSE buffer) \o bs
  /\ UNCHANGED writer

FillChunk(bs, n) ==
  LET kept == IF ChunkFull THEN <<>> ELSE buffer
      room == CalculateChunkSize - Len(kept)
  IN /\ Overflows(bs) /\ Exact
     /\ IF ChunkFull THEN InnerWrite(buffer) /\ sizes' = sizes \cup {Len(buffer)}
                     ELSE UNCHANGED <<committed, sizes>>
     /\ n = Min({room, Len(bs)})
     /\ buffer' = kept \o SubSeq(bs, 1, n)
     /\ UNCHANGED writer

GeneratorWriteOk(bs, n) ==
  \/ PassThrough(bs, n)
  \/ Keep(bs, n)
  \/ WriteThrough(bs, n)
  \/ FillChunk(bs, n)

(* The write below fails, or the call is dropped while it waits for it.     *)
(* What was taken out of the buffer is gone.                                *)
GeneratorWriteErr(bs) ==
  /\ \/ ~Chunked /\ UNCHANGED buffer
     \/ /\ Overflows(bs)
        /\ ~Exact \/ ChunkFull
        /\ buffer' = <<>>
  /\ UNCHANGED <<committed, sizes, writer>>

-----------------------------------------------------------------------------
(* close() and abort() *)

GeneratorCloseOkMutant ==        \* the last bytes are not written
  /\ writer = "open"
  /\ writer' = "closed"
  /\ UNCHANGED <<buffer, committed, sizes>>

GeneratorCloseOk ==
  /\ InnerWrite(buffer)
  /\ buffer' = <<>>
  /\ writer' = "closed"
  /\ UNCHANGED sizes

GeneratorCloseErrMutant ==       \* the buffer is kept until close has succeeded
  /\ UNCHANGED committed \/ InnerWrite(buffer)
  /\ UNCHANGED <<buffer, sizes, writer>>

(* The write of the last bytes fails, or it succeeds and the close below    *)
(* fails.  In both cases the buffer has been taken.                         *)
GeneratorCloseErr ==
  /\ \/ buffer # <<>> /\ UNCHANGED committed
     \/ InnerWrite(buffer)
  /\ buffer' = <<>>
  /\ UNCHANGED <<sizes, writer>>

GeneratorAbort(ok) ==
  /\ buffer' = <<>>
  /\ writer' = IF ok THEN "aborted" ELSE writer
  /\ ok => writer = "open"
  /\ UNCHANGED <<committed, sizes>>

-----------------------------------------------------------------------------
(* The bytes that are below or about to be, in order.                       *)
Pipeline == committed \o buffer

Increasing(s) == \A i \in 1..Len(s) - 1 : s[i] < s[i + 1]

(* The bytes off + 1, ..., off + n.                                         *)
Bytes(off, n) == [i \in 1..n |-> off + i]
=============================================================================
