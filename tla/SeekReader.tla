----------------------------- MODULE SeekReader -----------------------------
(***************************************************************************)
(* StdReader (core/src/types/blocking_read/std_reader.rs) over              *)
(* BufferIterator, and FuturesAsyncReader                                   *)
(* (core/src/types/read/futures_async_reader.rs) over the StreamingReader   *)
(* of BufferStream: the same code but for the word await.  The reader is at *)
(* `pos` of the range Start .. End of a content of N bytes; what follows    *)
(* `buf` comes from a ReadGenerator that is replaced by a seek.             *)
(***************************************************************************)
EXTENDS ReadGenerator

CONSTANTS
  N, Start, End,
  MaxSeek,       \* bound: the distance of a seek
  ReadSizes,     \* the lengths of the slices the user reads into
  MaxFailures    \* bound: the failures of a behaviour

SeekAssumption ==
  /\ N \in Nat /\ Start \in 0..N /\ End \in Start..N /\ MaxFailures \in Nat
  /\ MaxSeek \in Nat /\ ReadSizes \subseteq Nat \ {0}

VARIABLES
  reader,     \* the open reader as the bytes it has left, or NoReader
  buf,        \* the bytes of the buffer
  pos,        \* the position in the range
  op,         \* the call in progress: 0, or the length to read
  got,        \* history: what the last read has returned
  at,         \* history: where that read began
  failures,   \* bound
  broken      \* history: a request has failed since the generator was made

seekVars == <<reader, buf, pos, op, got, at, failures, broken>>
vars == <<generatorVars, seekVars>>

NoReader == [off |-> 0, size |-> -1]

Init ==
  /\ offset = Start
  /\ size = End - Start
  /\ reader = NoReader
  /\ buf = <<>>
  /\ pos = 0
  /\ op = 0
  /\ got = <<>>
  /\ at = 0
  /\ failures = 0
  /\ broken = FALSE

CallRead(n) ==
  /\ op = 0
  /\ op' = n
  /\ at' = pos
  /\ got' = <<>>
  /\ UNCHANGED <<generatorVars, reader, buf, pos, failures, broken>>

(* copy_to_slice; fill_buf and consume do the same in two calls.            *)
TakeFromBuf ==
  /\ op # 0
  /\ buf # <<>>
  /\ LET n == Min({op, Len(buf)})
     IN /\ got' = SubSeq(buf, 1, n)
        /\ buf' = SubSeq(buf, n + 1, Len(buf))
        /\ pos' = pos + n
  /\ op' = 0
  /\ UNCHANGED <<generatorVars, reader, at, failures, broken>>

Filling == op # 0 /\ buf = <<>>

OpenReaderMutant ==            \* the reader that was opened is not kept
  /\ Filling
  /\ reader = NoReader
  /\ size # 0
  /\ UNCHANGED vars

OpenReader ==
  /\ Filling
  /\ reader = NoReader
  /\ \E r \in RangesUpTo(N) : NextRange(r) /\ reader' = r
  /\ UNCHANGED <<buf, pos, op, got, at, failures, broken>>

(* The request fails, but the generator has moved on.                       *)
OpenFails ==
  /\ Filling
  /\ reader = NoReader
  /\ failures < MaxFailures
  /\ failures' = failures + 1
  /\ \E r \in RangesUpTo(N) : NextRange(r)
  /\ op' = 0
  /\ broken' = TRUE
  /\ UNCHANGED <<reader, buf, pos, got, at>>

FillBuf ==
  /\ Filling
  /\ \E n \in 1..reader.size :
       /\ buf' = Bytes(reader.off, n)
       /\ reader' = [off |-> reader.off + n, size |-> reader.size - n]
  /\ UNCHANGED <<generatorVars, pos, op, got, at, failures, broken>>

(* The reader is kept, and the next call goes on with it.                   *)
FillFails ==
  /\ Filling
  /\ reader # NoReader
  /\ failures < MaxFailures
  /\ failures' = failures + 1
  /\ op' = 0
  /\ UNCHANGED <<generatorVars, reader, buf, pos, got, at, broken>>

ReaderEndsMutant ==            \* an empty buffer of a reader ends the read
  /\ Filling
  /\ reader.size = 0
  /\ reader' = NoReader
  /\ op' = 0
  /\ UNCHANGED <<generatorVars, buf, pos, got, at, failures, broken>>

ReaderEnds ==
  /\ Filling
  /\ reader.size = 0
  /\ reader' = NoReader
  /\ UNCHANGED <<generatorVars, buf, pos, op, got, at, failures, broken>>

ReadReturnsEnd ==
  /\ Filling
  /\ reader = NoReader
  /\ size = 0
  /\ op' = 0
  /\ UNCHANGED <<generatorVars, reader, buf, pos, got, at, failures, broken>>

(* A new generator, over the rest of the range.                             *)
RestartMutant(p) ==            \* the start of the range is forgotten
  /\ offset' = p
  /\ size' = End - p
  /\ reader' = NoReader
  /\ buf' = <<>>
  /\ broken' = FALSE

Restart(p) ==
  /\ offset' = Start + p
  /\ size' = End - Start - p
  /\ reader' = NoReader
  /\ buf' = <<>>
  /\ broken' = FALSE

SeekInBuf(p) == p \in pos..pos + Len(buf) - 1

SeekMutant(p) ==               \* a negative position is not refused
  /\ op = 0
  /\ Restart(p)
  /\ pos' = p
  /\ UNCHANGED <<op, got, at, failures>>

Seek(p) ==
  /\ op = 0
  /\ p >= 0
  /\ IF SeekInBuf(p)
       THEN buf' = SubSeq(buf, p - pos + 1, Len(buf)) /\ UNCHANGED <<generatorVars, reader, broken>>
       ELSE Restart(p)
  /\ pos' = p
  /\ UNCHANGED <<op, got, at, failures>>

SeekNegative(p) == op = 0 /\ p < 0 /\ UNCHANGED vars

(* SeekFrom::Start, SeekFrom::End and SeekFrom::Current                     *)
SeekFrom(p) == {p, End - Start + p, pos + p}

ReadRuns ==
  \/ TakeFromBuf \/ OpenReader \/ OpenFails \/ FillBuf \/ FillFails
  \/ ReaderEnds \/ ReadReturnsEnd

Next ==
  \/ \E n \in ReadSizes : CallRead(n)
  \/ ReadRuns
  \/ \E s \in -MaxSeek..MaxSeek : \E p \in SeekFrom(s) :
       p <= End - Start /\ (Seek(p) \/ SeekNegative(p))

Spec == Init /\ [][Next]_vars /\ WF_vars(ReadRuns)

-----------------------------------------------------------------------------
TypeOK ==
  /\ pos \in 0..End - Start
  /\ offset \in Start..End /\ size = End - offset
  /\ Len(buf) <= N

(* Between the calls of a reader and a generator that have not failed, the  *)
(* position, the buffer, the open reader and the generator follow one       *)
(* another without a gap, whatever reads and seeks came before.             *)
StagesMeet ==
  ~broken => LET next == Start + pos + Len(buf)
             IN /\ buf = Bytes(Start + pos, Len(buf))
                /\ reader # NoReader => reader.off = next
                /\ next + Max({0, reader.size}) = offset

(* A read returns the bytes at the position where it began, and none only   *)
(* at the end of the range or with an error: after a failed request also,   *)
(* once the user has sought away.                                           *)
ReadsWhereItIs ==
  (op # 0 /\ op' = 0 /\ ~broken' /\ failures' = failures) =>
    /\ got' = Bytes(Start + at, Len(got'))
    /\ got' = <<>> => pos = End - Start

(* A read is going on.  It returns.                                         *)
Reading == op # 0
=============================================================================
