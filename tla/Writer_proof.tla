---------------------------- MODULE Writer_proof ----------------------------
(***************************************************************************)
(* Writer over WriteGenerator, for every chunk size, every bound of the     *)
(* service and all lengths of buffers: what is taken is neither lost nor    *)
(* repeated nor reordered, and the chunks have the size they should have.   *)
(* The same for the writers that put a FlexBuf, and BufferSink, before it:  *)
(* FuturesAsyncWriter and StdWriter.                                        *)
(***************************************************************************)
EXTENDS Writer, SequenceTheorems, TLAPS

CONSTANT Cap                                          \* of the FlexBuf
VARIABLES flex, frozen, sink, sbuf, w, op, slice, panicked

(* The writers with a FlexBuf over the same generator.                      *)
Flex == INSTANCE FlexWriter

(* Increasing, for any two places and not only for neighbours.              *)
Sorted(s) == \A i, j \in 1..Len(s) : i < j => s[i] < s[j]

(* Of the bytes offered the last Len(bs) are still to be taken, and nothing *)
(* on its way down is behind them.                                          *)
Start == offered - Len(bs)

BytesInv ==
  /\ Len(bs) <= offered
  /\ \A i \in 1..Len(bs) : bs[i] = Start + i
  /\ Sorted(Pipeline)
  /\ \A i \in 1..Len(Pipeline) : Pipeline[i] <= Start

CallInv ==
  /\ call = "write" => writer = "open"
  /\ call = "none" => bs = <<>>
  /\ ~Chunked => buffer = <<>>

IInv ==
  /\ TypeOK
  /\ CallInv
  /\ BytesInv
  /\ NothingLostBeforeError
  /\ ChunksHaveTheSize

-----------------------------------------------------------------------------
(* The chunk size.                                                          *)

(* The minimum of two numbers.                                              *)
LEMMA MinOfTwo ==
  ASSUME NEW a \in Int, NEW b \in Int
  PROVE  Min({a, b}) \in {a, b} /\ Min({a, b}) <= a /\ Min({a, b}) <= b
<1>1. \E x \in {a, b} : \A y \in {a, b} : x =< y
  <2>1. CASE a <= b
    BY <2>1
  <2>2. CASE b <= a
    BY <2>2
  <2>3. QED
    BY <2>1, <2>2
<1>2. Min({a, b}) \in {a, b} /\ \A y \in {a, b} : Min({a, b}) =< y
  BY <1>1 DEF Min
<1>3. QED
  BY <1>2

(* The maximum of two numbers.                                              *)
LEMMA MaxOfTwo ==
  ASSUME NEW a \in Int, NEW b \in Int
  PROVE  Max({a, b}) \in {a, b} /\ Max({a, b}) >= a /\ Max({a, b}) >= b
<1>1. \E x \in {a, b} : \A y \in {a, b} : x >= y
  <2>1. CASE a >= b
    BY <2>1
  <2>2. CASE b >= a
    BY <2>2
  <2>3. QED
    BY <2>1, <2>2
<1>2. Max({a, b}) \in {a, b} /\ \A y \in {a, b} : Max({a, b}) >= y
  BY <1>1 DEF Max
<1>3. QED
  BY <1>2

(* CalculateChunkSize is at least what the service asks for and, for a      *)
(* chunk the user chose, at most what it allows.  Without one, the service  *)
(* asks for nothing.                                                        *)
LEMMA ChunkSizeFacts ==
  /\ Chunked => /\ CalculateChunkSize \in Nat
                /\ MinSize # NoSize => CalculateChunkSize >= MinSize
                /\ Exact /\ MaxSize # NoSize => CalculateChunkSize <= MaxSize
  /\ ~Chunked => ~Exact /\ MinSize = NoSize
<1> DEFINE wanted == IF Exact THEN Chunk ELSE MinSize
           capped == IF MaxSize = NoSize THEN wanted ELSE Min({wanted, MaxSize})
<1>1. /\ NoSize \notin Nat
      /\ Chunk \in Size /\ MinSize \in Size \ {0} /\ MaxSize \in Size \ {0}
      /\ (MinSize # NoSize /\ MaxSize # NoSize) => MinSize <= MaxSize
  BY SizeAssumption DEF SizesAreValid
<1>2. wanted \in Size
  BY <1>1
<1>3. CASE wanted = NoSize
  <2>1. CalculateChunkSize = NoSize
    BY <1>3 DEF CalculateChunkSize
  <2>2. QED
    BY <1>3, <2>1 DEF Chunked, Exact
<1>4. CASE wanted # NoSize
  <2>1. wanted \in Nat
    BY <1>2, <1>4 DEF Size
  <2>2. capped \in Nat /\ (MaxSize # NoSize => capped <= MaxSize)
    <3>1. CASE MaxSize = NoSize
      BY <2>1, <3>1
    <3>2. CASE MaxSize # NoSize
      <4>1. MaxSize \in Nat \ {0}
        BY <1>1, <3>2 DEF Size
      <4> HIDE DEF wanted
      <4>2. Min({wanted, MaxSize}) \in {wanted, MaxSize} /\ Min({wanted, MaxSize}) <= MaxSize
        BY <2>1, <4>1, MinOfTwo
      <4>3. QED
        BY <2>1, <3>2, <4>1, <4>2
    <3>3. QED
      BY <3>1, <3>2
  <2>3. CalculateChunkSize = IF MinSize = NoSize THEN capped ELSE Max({capped, MinSize})
    BY <1>4 DEF CalculateChunkSize
  <2> HIDE DEF capped, wanted
  <2>4. CASE MinSize = NoSize
    BY <1>1, <2>2, <2>3, <2>4 DEF Chunked
  <2>5. CASE MinSize # NoSize
    <3>1. MinSize \in Nat \ {0}
      BY <1>1, <2>5 DEF Size
    <3>2. CalculateChunkSize \in {capped, MinSize} /\ CalculateChunkSize >= MinSize
      BY <2>2, <2>3, <2>5, <3>1, MaxOfTwo
    <3>3. QED
      BY <1>1, <2>2, <2>5, <3>1, <3>2 DEF Chunked
  <2>6. QED
    BY <2>4, <2>5
<1>5. QED
  BY <1>3, <1>4

-----------------------------------------------------------------------------
(* Sorted bytes.                                                            *)

(* No bytes are in order.                                                   *)
LEMMA SortedEmpty == Sorted(<<>>)
  BY DEF Sorted

(* What is increasing everywhere is so between neighbours.                  *)
LEMMA SortedIsIncreasing ==
  ASSUME NEW s \in Seq(Nat), Sorted(s)
  PROVE  Increasing(s)
<1>1. Len(s) \in Nat
  BY LenProperties
<1>2. QED
  BY <1>1 DEF Sorted, Increasing

(* What is in front of sorted bytes is sorted.                              *)
LEMMA SortedFront ==
  ASSUME NEW s \in Seq(Nat), NEW t \in Seq(Nat), Sorted(s \o t),
         NEW b \in Int, \A i \in 1..Len(s \o t) : (s \o t)[i] <= b
  PROVE  Sorted(s) /\ \A i \in 1..Len(s) : s[i] <= b
<1>1. /\ Len(s) \in Nat /\ Len(t) \in Nat /\ Len(s \o t) = Len(s) + Len(t)
      /\ \A i \in 1..Len(s) : (s \o t)[i] = s[i]
  BY LenProperties, ConcatProperties
<1>2. \A i \in 1..Len(s) : i \in 1..Len(s \o t)
  BY <1>1
<1>3. \A i \in 1..Len(s) : s[i] <= b
  BY <1>1, <1>2
<1>4. Sorted(s)
  BY <1>1, <1>2 DEF Sorted
<1>5. QED
  BY <1>3, <1>4

(* The next bytes behind all others.                                        *)
LEMMA SortedGrows ==
  ASSUME NEW s \in Seq(Nat), NEW t \in Seq(Nat), Sorted(s),
         NEW b \in Int, \A i \in 1..Len(s) : s[i] <= b,
         \A i \in 1..Len(t) : t[i] = b + i
  PROVE  Sorted(s \o t) /\ \A i \in 1..Len(s \o t) : (s \o t)[i] <= b + Len(t)
<1>1. /\ Len(s) \in Nat /\ Len(t) \in Nat /\ Len(s \o t) = Len(s) + Len(t)
      /\ \A i \in 1..Len(s) + Len(t) : (s \o t)[i] = IF i <= Len(s) THEN s[i] ELSE t[i - Len(s)]
  BY LenProperties, ConcatProperties
<1>2. \A i \in 1..Len(s) : s[i] \in Nat
  BY ElementOfSeq
<1>3. \A i \in 1..Len(s) + Len(t) : i > Len(s) => (s \o t)[i] = b + (i - Len(s))
  BY <1>1
<1>4. Sorted(s \o t)
  <2>1. SUFFICES ASSUME NEW i \in 1..Len(s) + Len(t), NEW j \in 1..Len(s) + Len(t), i < j
                 PROVE  (s \o t)[i] < (s \o t)[j]
    BY <1>1 DEF Sorted
  <2>2. CASE j <= Len(s)
    BY <1>1, <2>1, <2>2 DEF Sorted
  <2>3. CASE i <= Len(s) /\ j > Len(s)
    BY <1>1, <1>2, <1>3, <2>1, <2>3
  <2>4. CASE i > Len(s)
    <3>1. (s \o t)[i] = b + (i - Len(s)) /\ (s \o t)[j] = b + (j - Len(s))
      BY <1>1, <1>3, <2>1, <2>4, SMTT(30)
    <3>2. QED
      BY <1>1, <2>1, <3>1
  <2>5. QED
    BY <1>1, <2>1, <2>2, <2>3, <2>4
<1>5. ASSUME NEW i \in 1..Len(s) + Len(t)
      PROVE  (s \o t)[i] <= b + Len(t)
  <2>1. CASE i <= Len(s)
    BY <1>1, <1>2, <2>1
  <2>2. CASE i > Len(s)
    <3>1. (s \o t)[i] = b + (i - Len(s))
      BY <1>3, <2>2
    <3>2. QED
      BY <1>1, <2>2, <3>1
  <2>3. QED
    BY <1>1, <2>1, <2>2
<1>6. QED
  BY <1>1, <1>4, <1>5

-----------------------------------------------------------------------------
(* What one call of the generator does: it moves the first n bytes of bs to *)
(* the end of the pipeline, and a chunk that goes down has the size.        *)

SizeIsRight(n) ==
  /\ Chunked /\ Exact => n = CalculateChunkSize
  /\ MinSize # NoSize => n >= MinSize
  /\ Exact /\ MaxSize # NoSize => n <= MaxSize

(* The generator holds at most one chunk, and none if it passes all on.     *)
GeneratorOK ==
  /\ buffer \in Seq(Nat) /\ committed \in Seq(Nat)
  /\ Chunked => Len(buffer) <= CalculateChunkSize
  /\ ~Chunked => buffer = <<>>

(* The first n bytes of a buffer and the rest of it.                        *)
LEMMA TakenPart ==
  ASSUME NEW b \in Seq(Nat), NEW n \in 0..Len(b)
  PROVE  /\ SubSeq(b, 1, n) \in Seq(Nat) /\ Len(SubSeq(b, 1, n)) = n
         /\ \A i \in 1..n : SubSeq(b, 1, n)[i] = b[i]
         /\ SubSeq(b, n + 1, Len(b)) \in Seq(Nat)
         /\ Len(SubSeq(b, n + 1, Len(b))) = Len(b) - n
         /\ \A i \in 1..Len(b) - n : SubSeq(b, n + 1, Len(b))[i] = b[n + i]
<1>1. b \in Seq(Nat) /\ Len(b) \in Nat /\ \A i \in 1..Len(b) : b[i] \in Nat
  BY LenProperties, ElementOfSeq
<1>2. \A i \in 1..n : b[i] \in Nat
  BY <1>1
<1>3. /\ SubSeq(b, 1, n) \in Seq(Nat)
      /\ Len(SubSeq(b, 1, n)) = IF 1 <= n THEN n - 1 + 1 ELSE 0
      /\ \A i \in 1..n - 1 + 1 : SubSeq(b, 1, n)[i] = b[1 + i - 1]
  BY <1>1, <1>2, SubSeqProperties
<1>4. \A i \in n + 1..Len(b) : b[i] \in Nat
  BY <1>1
<1>5. /\ SubSeq(b, n + 1, Len(b)) \in Seq(Nat)
      /\ Len(SubSeq(b, n + 1, Len(b))) = IF n + 1 <= Len(b) THEN Len(b) - (n + 1) + 1 ELSE 0
      /\ \A i \in 1..Len(b) - (n + 1) + 1 : SubSeq(b, n + 1, Len(b))[i] = b[(n + 1) + i - 1]
  BY <1>1, <1>4, SubSeqProperties
<1>6. QED
  BY <1>1, <1>3, <1>5

(* It does not matter whether bytes reach the service by way of the buffer. *)
LEMMA Regroup ==
  ASSUME NEW s \in Seq(Nat), NEW t \in Seq(Nat), NEW u \in Seq(Nat)
  PROVE  (s \o t) \o u = s \o (t \o u)
  BY ConcatAssociative, SMTT(30)

(* One call of the generator, whichever way it takes through write.         *)
LEMMA GeneratorWrites ==
  ASSUME GeneratorOK, NEW b \in Seq(Nat), NEW n \in 0..Len(b), GeneratorWriteOk(b, n)
  PROVE  /\ Pipeline' = Pipeline \o SubSeq(b, 1, n)
         /\ GeneratorOK'
         /\ UNCHANGED writer
         /\ \/ UNCHANGED sizes
            \/ \E k \in Nat : sizes' = sizes \cup {k} /\ SizeIsRight(k)
<1> DEFINE t == SubSeq(b, 1, n)
<1>1. /\ buffer \in Seq(Nat) /\ committed \in Seq(Nat) /\ b \in Seq(Nat) /\ t \in Seq(Nat)
      /\ Len(buffer) \in Nat /\ Len(b) \in Nat /\ Len(t) = n /\ n \in Nat
      /\ (n = Len(b) => t = b)
      /\ <<>> \in Seq(Nat) /\ Len(<<>>) = 0
  BY TakenPart, LenProperties, SubSeqFull, EmptySeq DEF GeneratorOK
<1> HIDE DEF t
<1>2. /\ buffer \o t \in Seq(Nat) /\ Len(buffer \o t) = Len(buffer) + n
      /\ committed \o buffer \in Seq(Nat)
      /\ committed \o t \in Seq(Nat)
  BY <1>1, ConcatProperties
<1>3. committed \o (buffer \o t) \in Seq(Nat)
  BY <1>1, <1>2, ConcatProperties
<1>4. (committed \o buffer) \o t = committed \o (buffer \o t)
  <2>1. committed \in Seq(Nat) /\ buffer \in Seq(Nat) /\ t \in Seq(Nat)
    BY <1>1
  <2>2. QED
    BY ONLY <2>1, Regroup
<1>5. /\ (committed \o (buffer \o t)) \o <<>> = committed \o (buffer \o t)
       /\ <<>> \o t = t /\ committed \o <<>> = committed /\ (committed \o t) \o <<>> = committed \o t
  BY <1>1, <1>2, <1>3, ConcatEmptySeq
<1>6. CASE PassThrough(b, n)
  <2>1. ~Chunked /\ committed' = committed \o t /\ sizes' = sizes \cup {n} /\ UNCHANGED <<buffer, writer>>
    BY <1>1, <1>6 DEF PassThrough, InnerWrite
  <2>2. buffer = <<>> /\ SizeIsRight(n)
    BY <2>1, ChunkSizeFacts DEF GeneratorOK, SizeIsRight
  <2>3. Pipeline' = Pipeline \o t
    BY <1>5, <2>1, <2>2 DEF Pipeline
  <2>4. QED
    BY <1>1, <1>2, <2>1, <2>2, <2>3 DEF GeneratorOK, t
<1>7. CASE Keep(b, n)
  <2>1. buffer' = buffer \o t /\ Fits(b) /\ n = Len(b) /\ UNCHANGED <<committed, sizes, writer>>
    BY <1>1, <1>7 DEF Keep
  <2>2. Chunked => Len(buffer') <= CalculateChunkSize
    BY <1>1, <1>2, <2>1, ChunkSizeFacts DEF Fits
  <2>3. QED
    BY <1>1, <1>2, <1>4, <1>5, <2>1, <2>2 DEF GeneratorOK, Fits, Pipeline, t
<1>8. CASE WriteThrough(b, n)
  <2>1. /\ buffer' = <<>> /\ committed' = committed \o (buffer \o t)
        /\ sizes' = sizes \cup {Len(buffer) + n} /\ UNCHANGED writer
        /\ Chunked /\ ~Exact /\ Len(buffer) + n >= CalculateChunkSize
    BY <1>1, <1>8, ChunkSizeFacts DEF WriteThrough, InnerWrite, Overflows, Fits
  <2>2. SizeIsRight(Len(buffer) + n) /\ Len(buffer) + n \in Nat
    BY <1>1, <2>1, ChunkSizeFacts, SizeAssumption DEF SizeIsRight, SizesAreValid, Size
  <2>3. Chunked => Len(buffer') <= CalculateChunkSize
    BY <1>1, <2>1, ChunkSizeFacts
  <2>4. QED
    BY <1>1, <1>2, <1>3, <1>4, <1>5, <2>1, <2>2, <2>3 DEF GeneratorOK, Pipeline, t
<1>9. CASE FillChunk(b, n)
  <2> DEFINE kept == IF ChunkFull THEN <<>> ELSE buffer
             room == CalculateChunkSize - Len(kept)
  <2>1. Chunked /\ Exact /\ CalculateChunkSize \in Nat /\ Len(buffer) <= CalculateChunkSize
    BY <1>9, ChunkSizeFacts DEF FillChunk, Overflows, GeneratorOK
  <2>2. kept \in Seq(Nat) /\ Len(kept) \in Nat /\ room \in Int
    BY <1>1, <2>1
  <2>3. n <= room /\ buffer' = kept \o t /\ UNCHANGED writer
    <3>1. n = Min({room, Len(b)}) /\ buffer' = kept \o t /\ UNCHANGED writer
      BY <1>9 DEF FillChunk, t
    <3> HIDE DEF room, kept
    <3>2. room \in Int /\ Len(b) \in Int
      BY <1>1, <2>2
    <3>3. Min({room, Len(b)}) <= room
      BY <3>2, MinOfTwo
    <3>4. QED
      BY <3>1, <3>3
  <2>4. buffer' \in Seq(Nat) /\ Len(buffer') = Len(kept) + n /\ Len(buffer') <= CalculateChunkSize
    <3>1. kept \o t \in Seq(Nat) /\ Len(kept \o t) = Len(kept) + Len(t)
      <4> HIDE DEF kept
      <4>1. QED
        BY <1>1, <2>2, ConcatProperties
    <3>2. QED
      BY <1>1, <2>1, <2>2, <2>3, <3>1
  <2>5. CASE ChunkFull
    <3>1. committed' = committed \o buffer /\ sizes' = sizes \cup {Len(buffer)} /\ kept = <<>>
      BY <1>9, <2>5 DEF FillChunk, InnerWrite
    <3>2. Len(buffer) = CalculateChunkSize
      BY <1>1, <2>1, <2>5 DEF ChunkFull
    <3>3. SizeIsRight(Len(buffer))
      BY <2>1, <3>2, ChunkSizeFacts DEF SizeIsRight
    <3>4. Pipeline' = Pipeline \o t
      BY <1>4, <1>5, <2>3, <3>1 DEF Pipeline
    <3>5. QED
      BY <1>1, <1>2, <2>1, <2>3, <2>4, <3>1, <3>3, <3>4 DEF GeneratorOK, t
  <2>6. CASE ~ChunkFull
    <3>1. UNCHANGED <<committed, sizes>> /\ kept = buffer
      BY <1>9, <2>6 DEF FillChunk
    <3>2. QED
      BY <1>1, <1>4, <2>1, <2>3, <2>4, <3>1 DEF GeneratorOK, Pipeline, t
  <2>7. QED
    BY <2>5, <2>6
<1>10. QED
  BY <1>6, <1>7, <1>8, <1>9 DEF GeneratorWriteOk

-----------------------------------------------------------------------------
(* The bytes of a new buffer.                                               *)
LEMMA BytesFacts ==
  ASSUME NEW o \in Nat, NEW n \in Nat
  PROVE  /\ Bytes(o, n) \in Seq(Nat) /\ Len(Bytes(o, n)) = n
         /\ \A i \in 1..n : Bytes(o, n)[i] = o + i
<1>1. Bytes(o, n) \in [1..n -> Nat]
  BY DEF Bytes
<1>2. Bytes(o, n) \in Seq(Nat)
  BY <1>1, SeqDef
<1>3. DOMAIN Bytes(o, n) = 1..n
  BY DEF Bytes
<1>4. Len(Bytes(o, n)) = n
  BY <1>2, <1>3, LenProperties
<1>5. QED
  BY <1>2, <1>4 DEF Bytes

(* A new writer has taken nothing.                                          *)
LEMMA InitInv == Init => IInv
<1> SUFFICES ASSUME Init PROVE IInv
  OBVIOUS
<1> USE DEF Init, GeneratorInit
<1>1. <<>> \in Seq(Nat) /\ Len(<<>>) = 0 /\ <<>> \o <<>> = <<>>
  BY EmptySeq, ConcatEmptySeq
<1>2. TypeOK
  <2>1. Chunked => Len(buffer) <= CalculateChunkSize
    BY <1>1, ChunkSizeFacts
  <2>2. offered \in 0..MaxBytes
    BY UserAssumption DEF UserIsValid
  <2>3. QED
    BY <1>1, <2>1, <2>2 DEF TypeOK
<1>3. CallInv /\ NothingLostBeforeError
  BY <1>1 DEF CallInv, NothingLostBeforeError, Pipeline
<1>4. BytesInv
  BY <1>1, SortedEmpty DEF BytesInv, Pipeline, Start
<1>5. ChunksHaveTheSize
  BY <1>1 DEF ChunksHaveTheSize
<1>6. QED
  BY <1>2, <1>3, <1>4, <1>5 DEF IInv

(* A call of write brings the next bytes.                                   *)
LEMMA CallWriteInv == ASSUME IInv, NEW n \in Lengths, CallWrite(n) PROVE IInv'
<1> USE DEF IInv
<1>1. /\ UNCHANGED <<buffer, committed, sizes, writer, taken, failed>>
      /\ call = "none" /\ writer = "open" /\ call' = "write"
      /\ bs' = Bytes(offered, n) /\ offered' = offered + n /\ offered + n <= MaxBytes
  BY DEF CallWrite, generatorVars
<1>2. /\ n \in Nat /\ offered \in Nat /\ offered' \in 0..MaxBytes
      /\ bs = <<>> /\ Len(bs) = 0 /\ Start = offered
  BY <1>1, UserAssumption, EmptySeq DEF UserIsValid, TypeOK, CallInv, Start
<1>3. /\ bs' \in Seq(Nat) /\ Len(bs') = n
      /\ \A i \in 1..n : bs'[i] = offered + i
  BY <1>1, <1>2, BytesFacts
<1>4. Start' = Start /\ Pipeline' = Pipeline
  BY <1>1, <1>2, <1>3 DEF Start, Pipeline
<1>5. BytesInv'
  BY <1>1, <1>2, <1>3, <1>4 DEF BytesInv
<1>6. TypeOK' /\ CallInv'
  BY <1>1, <1>2, <1>3 DEF TypeOK, CallInv
<1>7. NothingLostBeforeError' /\ ChunksHaveTheSize'
  BY <1>1, <1>4 DEF NothingLostBeforeError, ChunksHaveTheSize
<1>8. QED
  BY <1>5, <1>6, <1>7

(* A turn of the loop moves bytes down.                                     *)
LEMMA WriteStepInv == ASSUME IInv, WriteStep PROVE IInv'
<1> USE DEF IInv
<1>1. PICK n \in 0..Len(bs) :
        /\ GeneratorWriteOk(bs, n)
        /\ bs' = SubSeq(bs, n + 1, Len(bs))
        /\ taken' = taken \o SubSeq(bs, 1, n)
  BY DEF WriteStep
<1> DEFINE t == SubSeq(bs, 1, n)
<1>2. UNCHANGED <<call, offered, failed>> /\ call = "write" /\ writer = "open"
  BY DEF WriteStep, CallInv
<1>3. /\ Pipeline' = Pipeline \o t
      /\ GeneratorOK'
      /\ UNCHANGED writer
      /\ \/ UNCHANGED sizes
         \/ \E k \in Nat : sizes' = sizes \cup {k} /\ SizeIsRight(k)
  BY <1>1, GeneratorWrites DEF GeneratorOK, TypeOK, CallInv
<1>4. /\ t \in Seq(Nat) /\ Len(t) = n /\ n \in Nat /\ Len(bs) \in Nat
      /\ \A i \in 1..n : t[i] = bs[i]
      /\ bs' \in Seq(Nat) /\ Len(bs') = Len(bs) - n
      /\ \A i \in 1..Len(bs) - n : bs'[i] = bs[n + i]
  <2>1. bs \in Seq(Nat) /\ Len(bs) \in Nat
    BY LenProperties DEF TypeOK
  <2>2. /\ SubSeq(bs, 1, n) \in Seq(Nat) /\ Len(SubSeq(bs, 1, n)) = n
        /\ \A i \in 1..n : SubSeq(bs, 1, n)[i] = bs[i]
        /\ SubSeq(bs, n + 1, Len(bs)) \in Seq(Nat)
        /\ Len(SubSeq(bs, n + 1, Len(bs))) = Len(bs) - n
        /\ \A i \in 1..Len(bs) - n : SubSeq(bs, n + 1, Len(bs))[i] = bs[n + i]
    BY <2>1, TakenPart
  <2>3. n \in Nat /\ bs' = SubSeq(bs, n + 1, Len(bs))
    BY <1>1, <2>1
  <2>4. QED
    BY ONLY <2>1, <2>2, <2>3
<1> HIDE DEF t
<1>5. Pipeline \in Seq(Nat) /\ offered \in Nat /\ Start \in Int /\ Start' = Start + n
  BY <1>2, <1>4, ConcatProperties DEF TypeOK, Pipeline, Start
<1>6. BytesInv'
  <2>1. ASSUME NEW i \in 1..Len(t)
        PROVE  t[i] = Start + i
    <3>1. i \in 1..n /\ i \in 1..Len(bs)
      BY <1>4
    <3>2. QED
      BY <1>4, <3>1 DEF BytesInv
  <2>2. /\ Sorted(Pipeline \o t)
        /\ \A i \in 1..Len(Pipeline \o t) : (Pipeline \o t)[i] <= Start + Len(t)
    BY <1>4, <1>5, <2>1, SortedGrows DEF BytesInv
  <2>3. \A i \in 1..Len(bs') : bs'[i] = Start' + i
    BY <1>4, <1>5 DEF BytesInv
  <2>4. Len(bs') <= offered'
    BY <1>2, <1>4, <1>5 DEF BytesInv
  <2>5. QED
    BY <1>3, <1>4, <1>5, <2>2, <2>3, <2>4 DEF BytesInv
<1>7. taken' \in Seq(Nat) /\ taken' = taken \o t
  BY <1>1, <1>4, ConcatProperties DEF TypeOK, t
<1>8. sizes' \subseteq Nat /\ ChunksHaveTheSize'
  <2>1. CASE UNCHANGED sizes
    BY <2>1 DEF TypeOK, ChunksHaveTheSize
  <2>2. ASSUME NEW k \in Nat, sizes' = sizes \cup {k}, SizeIsRight(k)
        PROVE  sizes' \subseteq Nat /\ ChunksHaveTheSize'
    BY <2>2 DEF TypeOK, ChunksHaveTheSize, SizeIsRight, CalculateChunkSize, Chunked, Exact
  <2>3. QED
    BY <1>3, <2>1, <2>2
<1>9. TypeOK'
  BY <1>2, <1>3, <1>4, <1>7, <1>8 DEF TypeOK, GeneratorOK
<1>10. CallInv'
  BY <1>2, <1>3 DEF CallInv, GeneratorOK
<1>11. NothingLostBeforeError'
  BY <1>2, <1>3, <1>7 DEF NothingLostBeforeError
<1>12. QED
  BY <1>6, <1>8, <1>9, <1>10, <1>11

(* A call fails, or the writer is aborted: of what was on its way down the  *)
(* buffer may be gone, and nothing else.                                    *)
Fallen == /\ UNCHANGED <<sizes, offered, taken>>
          /\ call' = "none" /\ bs' = <<>>
          /\ \/ UNCHANGED <<buffer, committed>>
             \/ buffer' = <<>> /\ committed' \in {committed, committed \o buffer}

(* A failed call, or an abort, may drop the bytes that are kept.            *)
LEMMA FallenInv ==
  ASSUME IInv, Fallen, failed' \in BOOLEAN, writer' \in {"open", "aborted"},
         failed' \/ writer' = "aborted"
  PROVE  IInv'
<1> USE DEF IInv
<1>1. /\ <<>> \in Seq(Nat) /\ Len(<<>>) = 0
      /\ committed \in Seq(Nat) /\ buffer \in Seq(Nat) /\ Len(bs) \in Nat
      /\ committed \o buffer \in Seq(Nat) /\ offered \in Nat
  BY EmptySeq, ConcatProperties, LenProperties DEF TypeOK
<1>2. committed \o <<>> = committed /\ (committed \o buffer) \o <<>> = committed \o buffer
  BY <1>1, ConcatEmptySeq
<1>3. Pipeline' \in {committed, Pipeline}
  BY <1>2 DEF Fallen, Pipeline
<1>4. Start \in Int /\ Start <= Start' /\ Start' = offered
  BY <1>1 DEF Fallen, Start
<1>5. Sorted(Pipeline') /\ \A i \in 1..Len(Pipeline') : Pipeline'[i] <= Start
  BY <1>1, <1>3, <1>4, SortedFront DEF BytesInv, Pipeline
<1>6. \A i \in 1..Len(Pipeline') : Pipeline'[i] \in Nat
  BY <1>1, <1>3, ElementOfSeq DEF Pipeline
<1>7. BytesInv'
  <2>1. ASSUME NEW i \in 1..Len(Pipeline')
        PROVE  Pipeline'[i] <= Start'
    <3>1. Pipeline'[i] <= Start /\ Pipeline'[i] \in Nat
      BY <1>5, <1>6
    <3>2. QED
      BY <1>1, <1>4, <3>1
  <2>2. QED
    BY <1>1, <1>4, <1>5, <2>1 DEF BytesInv, Fallen
<1>8. TypeOK'
  <2>1. buffer' \in Seq(Nat) /\ committed' \in Seq(Nat) /\ bs' \in Seq(Nat)
    BY <1>1 DEF Fallen
  <2>2. Chunked => Len(buffer') <= CalculateChunkSize
    BY <1>1, ChunkSizeFacts DEF TypeOK, Fallen
  <2>3. QED
    BY <2>1, <2>2 DEF TypeOK, Fallen
<1>9. CallInv' /\ NothingLostBeforeError' /\ ChunksHaveTheSize'
  BY DEF CallInv, Fallen, NothingLostBeforeError, ChunksHaveTheSize
<1>10. QED
  BY <1>7, <1>8, <1>9

(* close writes what is kept.                                               *)
LEMMA CloseOkInv == ASSUME IInv, CloseOk PROVE IInv'
<1> USE DEF IInv
<1>1. /\ UNCHANGED <<sizes, call, bs, offered, taken, failed>>
      /\ call = "none" /\ writer = "open" /\ writer' = "closed"
      /\ committed' = committed \o buffer /\ buffer' = <<>>
  BY DEF CloseOk, GeneratorCloseOk, InnerWrite
<1>2. /\ committed' \in Seq(Nat) /\ committed' \o <<>> = committed'
      /\ <<>> \in Seq(Nat) /\ Len(<<>>) = 0
  BY <1>1, ConcatProperties, ConcatEmptySeq, EmptySeq DEF TypeOK
<1>3. Pipeline' = Pipeline /\ committed' = Pipeline /\ Start' = Start
  BY <1>1, <1>2 DEF Pipeline, Start
<1>4. TypeOK'
  BY <1>1, <1>2, ChunkSizeFacts DEF TypeOK
<1>5. BytesInv'
  BY <1>1, <1>3 DEF BytesInv
<1>6. CallInv' /\ NothingLostBeforeError' /\ ChunksHaveTheSize'
  BY <1>1, <1>3 DEF CallInv, NothingLostBeforeError, ChunksHaveTheSize
<1>7. QED
  BY <1>4, <1>5, <1>6

(* write returns, or nothing happens.                                       *)
LEMMA ReturnInv == ASSUME IInv, WriteReturns \/ UNCHANGED vars PROVE IInv'
<1> USE DEF IInv
<1>1. /\ UNCHANGED <<buffer, committed, sizes, writer, bs, offered, taken, failed>>
      /\ call' \in {call, "none"} /\ (call' # call => bs = <<>>)
  BY DEF WriteReturns, vars, generatorVars
<1>2. Pipeline' = Pipeline /\ Start' = Start
  BY <1>1 DEF Pipeline, Start
<1>3. TypeOK' /\ CallInv'
  BY <1>1 DEF TypeOK, CallInv
<1>4. BytesInv' /\ NothingLostBeforeError' /\ ChunksHaveTheSize'
  BY <1>1, <1>2 DEF BytesInv, NothingLostBeforeError, ChunksHaveTheSize
<1>5. QED
  BY <1>3, <1>4

(* Every step keeps the invariant.                                          *)
LEMMA StepInv == IInv /\ [Next]_vars => IInv'
<1> SUFFICES ASSUME IInv, [Next]_vars PROVE IInv'
  OBVIOUS
<1>1. CASE \E n \in Lengths : CallWrite(n)
  BY <1>1, CallWriteInv
<1>2. CASE WriteStep
  BY <1>2, WriteStepInv
<1>3. CASE WriteReturns \/ Ended \/ UNCHANGED vars
  BY <1>3, ReturnInv DEF Ended
<1>4. CASE CloseOk
  BY <1>4, CloseOkInv
<1>5. CASE WriteErr
  <2>1. Fallen /\ failed' = TRUE /\ writer' = "open"
    BY <1>5 DEF IInv, CallInv, WriteErr, GeneratorWriteErr, Fallen
  <2>2. QED
    BY <2>1, FallenInv
<1>6. CASE CloseErr
  <2>1. Fallen /\ failed' = TRUE /\ writer' = "open"
    BY <1>6 DEF IInv, CallInv, CloseErr, GeneratorCloseErr, InnerWrite, Fallen
  <2>2. QED
    BY <2>1, FallenInv
<1>7. CASE Abort
  <2>1. PICK ok \in BOOLEAN : GeneratorAbort(ok) /\ failed' = (failed \/ ~ok)
    BY <1>7 DEF Abort
  <2>2. Fallen /\ writer' = IF ok THEN "aborted" ELSE "open"
    BY <1>7, <2>1 DEF IInv, CallInv, Abort, GeneratorAbort, Fallen
  <2>3. failed' \in BOOLEAN /\ (failed' \/ writer' = "aborted")
    BY <2>1, <2>2 DEF IInv, TypeOK
  <2>4. QED
    BY <2>2, <2>3, FallenInv
<1>8. QED
  BY <1>1, <1>2, <1>3, <1>4, <1>5, <1>6, <1>7 DEF Next

-----------------------------------------------------------------------------
(* The inductive invariant: the pipeline, the bytes still to be taken and   *)
(* the ones never offered follow one another.                               *)
THEOREM Invariant == Spec => []IInv
  BY InitInv, StepInv, PTL DEF Spec

(* The variables have their types, and the generator never holds more than  *)
(* one chunk.                                                               *)
THEOREM TypeCorrect == Spec => []TypeOK
<1>1. IInv => TypeOK
  BY DEF IInv
<1>2. QED
  BY <1>1, Invariant, PTL

(* Until a call fails, what the generator took is below or in its buffer,   *)
(* and below once close has returned Ok.                                    *)
THEOREM NothingLost == Spec => []NothingLostBeforeError
<1>1. IInv => NothingLostBeforeError
  BY DEF IInv
<1>2. QED
  BY <1>1, Invariant, PTL

(* No byte overtakes another or is written twice, after failures too.       *)
THEOREM InOrder == Spec => []OrderKept
<1>1. IInv => OrderKept
  <2> SUFFICES ASSUME IInv PROVE OrderKept
    OBVIOUS
  <2>1. Pipeline \in Seq(Nat)
    BY ConcatProperties DEF IInv, TypeOK, Pipeline
  <2>2. QED
    BY <2>1, SortedIsIncreasing DEF IInv, BytesInv, OrderKept
<1>2. QED
  BY <1>1, Invariant, PTL

(* A byte is lost by a failed call only, and what is not lost stays in      *)
(* order.                                                                   *)
THEOREM KeptInOrder == Spec => []BytesKeptInOrder
<1>1. NothingLostBeforeError /\ OrderKept => BytesKeptInOrder
  BY DEF BytesKeptInOrder
<1>2. QED
  BY <1>1, NothingLost, InOrder, PTL

(* A chunk that write gives away is exactly the chunk the user asked for    *)
(* within the bounds of the service, and never below its least size.        *)
THEOREM RightSizes == Spec => []ChunksHaveTheSize
<1>1. IInv => ChunksHaveTheSize
  BY DEF IInv
<1>2. QED
  BY <1>1, Invariant, PTL

-----------------------------------------------------------------------------
(* FuturesAsyncWriter and StdWriter: a FlexBuf in front of the generator.   *)

(* FlexBuf: at most one of its two buffers has bytes, a flush or a close    *)
(* has frozen what was put, and the slice of a write has the next bytes.    *)
FlexOK ==
  /\ flex \in Seq(Nat) /\ frozen \in Seq(Nat) /\ slice \in Seq(Nat) /\ taken \in Seq(Nat)
  /\ Len(flex) < Cap /\ Len(frozen) <= Cap
  /\ frozen = <<>> \/ flex = <<>>
  /\ op \in {"none", "write", "flush", "close"}
  /\ op \in {"flush", "close"} => flex = <<>>
  /\ op = "write" => \A i \in 1..Len(slice) : slice[i] = Len(taken) + i

(* The bytes s on their way down are in order and none of them is still to  *)
(* be taken; if nothing may be lost they are all the bytes taken.           *)
Line(s, kept) ==
  /\ Sorted(s)
  /\ \A i \in 1..Len(s) : s[i] <= Len(taken)
  /\ kept => s = taken

FlexInv ==
  /\ GeneratorOK
  /\ FlexOK
  /\ Flex!TypeOK
  /\ sbuf \in Seq(Nat) /\ failed \in BOOLEAN
  /\ sink = "closing" => sbuf = <<>>
  /\ Line(Flex!AllStages, ~failed)

(* Before a failure or a drop, StdWriter over a generator that is not exact *)
(* loses nothing.                                                           *)
StdKept == ~Exact /\ ~failed /\ w # "dropped"

StdInv ==
  /\ GeneratorOK
  /\ FlexOK
  /\ w \in {"some", "none", "dropped"}
  /\ failed \in BOOLEAN
  /\ w # "some" => op = "none"
  /\ w = "none" => buffer = <<>> /\ frozen = <<>> /\ flex = <<>>
  /\ Line(Flex!StdStages, StdKept)

(* What is in the middle of sorted bytes may be dropped.                    *)
LEMMA SortedDrop ==
  ASSUME NEW s \in Seq(Nat), NEW t \in Seq(Nat), NEW u \in Seq(Nat), Sorted((s \o t) \o u),
         NEW b \in Int, \A i \in 1..Len((s \o t) \o u) : ((s \o t) \o u)[i] <= b
  PROVE  Sorted(s \o u) /\ \A i \in 1..Len(s \o u) : (s \o u)[i] <= b
<1> DEFINE all == (s \o t) \o u
           place(i) == IF i <= Len(s) THEN i ELSE i + Len(t)
<1>1. /\ Len(s) \in Nat /\ Len(t) \in Nat /\ Len(u) \in Nat
      /\ s \o t \in Seq(Nat) /\ Len(s \o t) = Len(s) + Len(t)
      /\ \A i \in 1..Len(s) : (s \o t)[i] = s[i]
      /\ Len(s \o u) = Len(s) + Len(u)
      /\ \A i \in 1..Len(s) + Len(u) : (s \o u)[i] = IF i <= Len(s) THEN s[i] ELSE u[i - Len(s)]
  BY LenProperties, ConcatProperties
<1>2. /\ Len(all) = Len(s) + Len(t) + Len(u)
      /\ \A i \in 1..Len(s) + Len(t) + Len(u) :
           all[i] = IF i <= Len(s) + Len(t) THEN (s \o t)[i] ELSE u[i - (Len(s) + Len(t))]
  BY <1>1, ConcatProperties
<1> HIDE DEF all
<1>3. \A i \in 1..Len(s) + Len(u) :
        place(i) \in 1..Len(all) /\ (s \o u)[i] = all[place(i)]
  <2> SUFFICES ASSUME NEW i \in 1..Len(s) + Len(u)
               PROVE  place(i) \in 1..Len(all) /\ (s \o u)[i] = all[place(i)]
    OBVIOUS
  <2>1. CASE i <= Len(s)
    BY <1>1, <1>2, <2>1
  <2>2. CASE i > Len(s)
    <3>1. /\ (s \o u)[i] = u[i - Len(s)]
          /\ all[i + Len(t)] = u[(i + Len(t)) - (Len(s) + Len(t))]
          /\ i + Len(t) \in 1..Len(all)
      BY <1>1, <1>2, <2>2
    <3>2. (i + Len(t)) - (Len(s) + Len(t)) = i - Len(s)
      BY <1>1
    <3>3. QED
      BY <2>2, <3>1, <3>2
  <2>3. QED
    BY <1>1, <2>1, <2>2
<1>4. \A i, j \in 1..Len(s) + Len(u) : i < j => place(i) < place(j)
  BY <1>1
<1> HIDE DEF place
<1>5. Sorted(s \o u)
  BY <1>1, <1>3, <1>4 DEF Sorted, all
<1>6. QED
  BY <1>1, <1>3, <1>5 DEF all

(* The first n bytes of a buffer and the rest of it are the buffer.         *)
LEMMA Rejoin ==
  ASSUME NEW b \in Seq(Nat), NEW n \in 0..Len(b)
  PROVE  SubSeq(b, 1, n) \o SubSeq(b, n + 1, Len(b)) = b
<1> DEFINE x == SubSeq(b, 1, n)
           y == SubSeq(b, n + 1, Len(b))
<1>1. /\ x \in Seq(Nat) /\ Len(x) = n /\ Len(b) \in Nat
      /\ \A i \in 1..n : x[i] = b[i]
      /\ y \in Seq(Nat) /\ Len(y) = Len(b) - n
      /\ \A i \in 1..Len(b) - n : y[i] = b[n + i]
  BY TakenPart, LenProperties
<1> HIDE DEF x, y
<1>2. /\ x \o y \in Seq(Nat) /\ Len(x \o y) = Len(b)
      /\ \A i \in 1..Len(b) : (x \o y)[i] = IF i <= n THEN x[i] ELSE y[i - n]
  BY <1>1, ConcatProperties, SMTT(30)
<1>3. \A i \in 1..Len(b) : (x \o y)[i] = b[i]
  BY <1>1, <1>2, SMTT(30)
<1>4. x \o y = b
  BY <1>2, <1>3, SeqEqual
<1>5. QED
  BY <1>4 DEF x, y

(* The generator below is the one above.                                    *)
LEMMA SameGenerator ==
  /\ Flex!CalculateChunkSize = CalculateChunkSize
  /\ Flex!Pipeline = Pipeline
  /\ Flex!GeneratorInit <=> GeneratorInit
  /\ \A b, n : Flex!GeneratorWriteOk(b, n) <=> GeneratorWriteOk(b, n)
  /\ \A b : Flex!GeneratorWriteErr(b) <=> GeneratorWriteErr(b)
  /\ Flex!GeneratorCloseOk <=> GeneratorCloseOk
  /\ Flex!GeneratorCloseErr <=> GeneratorCloseErr
  /\ \A s : Flex!Increasing(s) <=> Increasing(s)
  /\ \A o, n : Flex!Bytes(o, n) = Bytes(o, n)
<1>1. \A S : Flex!Min(S) = Min(S) /\ Flex!Max(S) = Max(S)
  BY Zenon DEF Flex!Min, Min, Flex!Max, Max
<1>2. Flex!Exact <=> Exact
  BY DEF Flex!Exact, Exact
<1>3. Flex!CalculateChunkSize = CalculateChunkSize
  BY <1>1, <1>2, Zenon DEF Flex!CalculateChunkSize, CalculateChunkSize
<1>4. (Flex!Chunked <=> Chunked) /\ (Flex!ChunkFull <=> ChunkFull)
  BY <1>3 DEF Flex!Chunked, Chunked, Flex!ChunkFull, ChunkFull
<1>5. \A b : (Flex!Fits(b) <=> Fits(b)) /\ (Flex!Overflows(b) <=> Overflows(b))
  BY <1>3, <1>4 DEF Flex!Fits, Fits, Flex!Overflows, Overflows
<1>6. \A b : Flex!InnerWrite(b) <=> InnerWrite(b)
  BY DEF Flex!InnerWrite, InnerWrite
<1>7. \A b, n : Flex!GeneratorWriteOk(b, n) <=> GeneratorWriteOk(b, n)
  <2> TAKE b, n
  <2>1. Flex!PassThrough(b, n) <=> PassThrough(b, n)
    BY <1>4, <1>6, Zenon DEF Flex!PassThrough, PassThrough
  <2>2. Flex!Keep(b, n) <=> Keep(b, n)
    BY <1>5, Zenon DEF Flex!Keep, Keep
  <2>3. Flex!WriteThrough(b, n) <=> WriteThrough(b, n)
    BY <1>2, <1>5, <1>6, Zenon DEF Flex!WriteThrough, WriteThrough
  <2>4. Flex!FillChunk(b, n) <=> FillChunk(b, n)
    BY <1>1, <1>2, <1>3, <1>4, <1>5, <1>6, Zenon DEF Flex!FillChunk, FillChunk
  <2>5. QED
    BY <2>1, <2>2, <2>3, <2>4 DEF Flex!GeneratorWriteOk, GeneratorWriteOk
<1>8. \A b : Flex!GeneratorWriteErr(b) <=> GeneratorWriteErr(b)
  BY <1>2, <1>4, <1>5, Zenon DEF Flex!GeneratorWriteErr, GeneratorWriteErr
<1>9. /\ Flex!GeneratorCloseOk <=> GeneratorCloseOk
      /\ Flex!GeneratorCloseErr <=> GeneratorCloseErr
  BY <1>6, Zenon DEF Flex!GeneratorCloseOk, GeneratorCloseOk, Flex!GeneratorCloseErr, GeneratorCloseErr
<1>10. QED
  BY <1>3, <1>7, <1>8, <1>9, Zenon DEF Flex!Pipeline, Pipeline, Flex!GeneratorInit, GeneratorInit,
     Flex!Increasing, Increasing, Flex!Bytes, Bytes

(* Bytes of the slice that are taken join the end of the line.              *)
LEMMA LineGrows ==
  ASSUME FlexOK, op = "write", NEW n \in 1..Len(slice), NEW s \in Seq(Nat), NEW kept \in BOOLEAN,
         Line(s, kept), taken' = taken \o SubSeq(slice, 1, n),
         NEW s1, s1 = s \o SubSeq(slice, 1, n), NEW kept1 \in BOOLEAN, kept1 => kept
  PROVE  /\ taken' \in Seq(Nat)
         /\ Sorted(s1)
         /\ \A i \in 1..Len(s1) : s1[i] <= Len(taken')
         /\ kept1 => s1 = taken'
<1> DEFINE t == SubSeq(slice, 1, n)
<1>1. /\ slice \in Seq(Nat) /\ Len(slice) \in Nat /\ taken \in Seq(Nat) /\ Len(taken) \in Nat
      /\ n \in 0..Len(slice) /\ n \in Nat
  BY LenProperties DEF FlexOK
<1>2. t \in Seq(Nat) /\ Len(t) = n /\ \A i \in 1..n : t[i] = slice[i]
  BY <1>1, TakenPart
<1> HIDE DEF t
<1>3. ASSUME NEW i \in 1..Len(t) PROVE t[i] = Len(taken) + i
  <2>1. i \in 1..n /\ i \in 1..Len(slice)
    BY <1>1, <1>2
  <2>2. QED
    BY <1>2, <2>1 DEF FlexOK
<1>4. taken' \in Seq(Nat) /\ Len(taken') = Len(taken) + Len(t)
  BY <1>1, <1>2, ConcatProperties DEF t
<1>5. Sorted(s \o t) /\ \A i \in 1..Len(s \o t) : (s \o t)[i] <= Len(taken) + Len(t)
  <2>1. Sorted(s) /\ Len(taken) \in Int /\ \A i \in 1..Len(s) : s[i] <= Len(taken)
    BY <1>1 DEF Line
  <2>2. QED
    BY <1>2, <1>3, <2>1, SortedGrows
<1>6. QED
  BY <1>4, <1>5 DEF Line, t

(* put: the bytes it takes are behind all others in the FlexBuf.            *)
LEMMA PutGrows ==
  ASSUME FlexOK, Cap \in Nat \ {0}, NEW n \in 1..Len(slice), Flex!Put(slice, n), NEW f \in Seq(Nat)
  PROVE  /\ (f \o frozen') \o flex' = ((f \o frozen) \o flex) \o SubSeq(slice, 1, n)
         /\ flex' \in Seq(Nat) /\ frozen' \in Seq(Nat)
         /\ Len(flex') < Cap /\ Len(frozen') <= Cap
         /\ frozen' = <<>> \/ flex' = <<>>
<1> DEFINE t == SubSeq(slice, 1, n)
           all == flex \o t
<1>1. /\ slice \in Seq(Nat) /\ Len(slice) \in Nat /\ flex \in Seq(Nat) /\ Len(flex) \in Nat
      /\ frozen \in Seq(Nat) /\ n \in 0..Len(slice) /\ n \in Nat
      /\ <<>> \in Seq(Nat) /\ Len(<<>>) = 0
  BY LenProperties, EmptySeq DEF FlexOK
<1>2. t \in Seq(Nat) /\ Len(t) = n
  BY <1>1, TakenPart
<1>3. /\ n = IF frozen # <<>> THEN 0 ELSE Flex!Min({Cap - Len(flex), Len(slice)})
      /\ IF Len(all) >= Cap THEN flex' = <<>> /\ frozen' = all
                            ELSE flex' = all /\ UNCHANGED frozen
  BY DEF Flex!Put
<1> HIDE DEF t
<1>4. frozen = <<>> /\ n = Flex!Min({Cap - Len(flex), Len(slice)})
  BY <1>1, <1>3
<1>5. n <= Cap - Len(flex)
  <2>1. Cap - Len(flex) \in Int /\ Len(slice) \in Int
    BY <1>1
  <2>2. Flex!Min({Cap - Len(flex), Len(slice)}) = Min({Cap - Len(flex), Len(slice)})
    BY Zenon DEF Flex!Min, Min
  <2>3. QED
    BY <1>4, <2>1, <2>2, MinOfTwo
<1>6. all \in Seq(Nat) /\ Len(all) = Len(flex) + n
  BY <1>1, <1>2, ConcatProperties
<1>7. /\ f \o <<>> = f /\ f \o all \in Seq(Nat) /\ (f \o all) \o <<>> = f \o all
      /\ f \o all = (f \o flex) \o t
  <2>1. f \o all = (f \o flex) \o t
    <3>1. f \in Seq(Nat) /\ flex \in Seq(Nat) /\ t \in Seq(Nat)
      BY <1>1, <1>2
    <3>2. QED
      BY ONLY <3>1, Regroup
  <2> HIDE DEF all
  <2>2. f \o all \in Seq(Nat)
    BY <1>6, ConcatProperties
  <2>3. QED
    BY <2>1, <2>2, ConcatEmptySeq
<1> HIDE DEF all
<1>8. CASE Len(all) >= Cap
  <2>1. flex' = <<>> /\ frozen' = all
    BY <1>3, <1>8
  <2>2. (f \o frozen') \o flex' = ((f \o frozen) \o flex) \o t
    BY <1>4, <1>7, <2>1
  <2>3. Len(flex') < Cap /\ Len(frozen') <= Cap
    BY <1>1, <1>5, <1>6, <2>1
  <2>4. QED
    BY <1>1, <1>6, <2>1, <2>2, <2>3 DEF t
<1>9. CASE ~(Len(all) >= Cap)
  <2>1. flex' = all /\ frozen' = frozen
    BY <1>3, <1>9
  <2>2. (f \o frozen') \o flex' = ((f \o frozen) \o flex) \o t
    BY <1>4, <1>7, <2>1
  <2>3. Len(flex') < Cap /\ Len(frozen') <= Cap
    BY <1>1, <1>4, <1>6, <1>9, <2>1
  <2>4. QED
    BY <1>1, <1>4, <1>6, <2>1, <2>2, <2>3 DEF t
<1>10. QED
  BY <1>8, <1>9

(* freeze moves what was put.                                               *)
LEMMA FreezeMoves ==
  ASSUME FlexOK, Cap \in Nat \ {0}, Flex!Freeze, NEW f \in Seq(Nat)
  PROVE  /\ (f \o frozen') \o flex' = (f \o frozen) \o flex
         /\ flex' = <<>> /\ frozen' \in Seq(Nat) /\ Len(frozen') <= Cap
<1>1. /\ <<>> \in Seq(Nat) /\ Len(flex) \in Nat
      /\ f \o flex \in Seq(Nat) /\ (f \o flex) \o <<>> = f \o flex /\ f \o <<>> = f
  BY LenProperties, EmptySeq, ConcatProperties, ConcatEmptySeq DEF FlexOK
<1>2. CASE flex = <<>>
  BY <1>2 DEF Flex!Freeze, Flex!flexVars, FlexOK
<1>3. CASE flex # <<>>
  <2>1. frozen = <<>> /\ flex' = <<>> /\ frozen' = flex
    BY <1>3 DEF Flex!Freeze, FlexOK
  <2>2. QED
    BY <1>1, <2>1 DEF FlexOK
<1>4. QED
  BY <1>2, <1>3

(* A failed call of the generator drops its buffer or nothing.              *)
LEMMA GeneratorFails ==
  ASSUME GeneratorOK, \/ \E b : GeneratorWriteErr(b)
                      \/ GeneratorCloseErr
  PROVE  /\ GeneratorOK' /\ UNCHANGED writer
         /\ \/ Pipeline' = Pipeline
            \/ Pipeline' = committed
<1>1. /\ committed \in Seq(Nat) /\ buffer \in Seq(Nat) /\ <<>> \in Seq(Nat) /\ Len(<<>>) = 0
      /\ committed \o buffer \in Seq(Nat) /\ committed \o <<>> = committed
  BY EmptySeq, ConcatProperties, ConcatEmptySeq DEF GeneratorOK
<1>2. (committed \o buffer) \o <<>> = committed \o buffer
  BY <1>1, ConcatEmptySeq
<1>3. /\ UNCHANGED writer
      /\ \/ UNCHANGED <<buffer, committed>>
         \/ buffer' = <<>> /\ committed' \in {committed, committed \o buffer}
  BY DEF GeneratorWriteErr, GeneratorCloseErr, InnerWrite
<1>4. CASE UNCHANGED <<buffer, committed>>
  BY <1>3, <1>4 DEF GeneratorOK, Pipeline
<1>5. CASE buffer' = <<>> /\ committed' \in {committed, committed \o buffer}
  <2>1. GeneratorOK'
    <3>1. committed' \in Seq(Nat) /\ buffer' \in Seq(Nat)
      BY <1>1, <1>5
    <3>2. Chunked => Len(buffer') <= CalculateChunkSize
      BY <1>1, <1>5, ChunkSizeFacts
    <3>3. QED
      BY <1>5, <3>1, <3>2 DEF GeneratorOK
  <2>2. QED
    BY <1>1, <1>2, <1>3, <1>5, <2>1 DEF Pipeline
<1>6. QED
  BY <1>3, <1>4, <1>5

(* close writes the buffer.                                                 *)
LEMMA GeneratorCloses ==
  ASSUME GeneratorOK, GeneratorCloseOk
  PROVE  /\ GeneratorOK' /\ Pipeline' = Pipeline /\ committed' = Pipeline /\ buffer' = <<>>
         /\ writer = "open" /\ writer' = "closed"
<1>1. /\ committed \in Seq(Nat) /\ buffer \in Seq(Nat) /\ <<>> \in Seq(Nat) /\ Len(<<>>) = 0
      /\ committed \o buffer \in Seq(Nat)
  BY EmptySeq, ConcatProperties DEF GeneratorOK
<1>2. (committed \o buffer) \o <<>> = committed \o buffer
  BY <1>1, ConcatEmptySeq
<1>3. /\ writer = "open" /\ writer' = "closed" /\ buffer' = <<>> /\ committed' = committed \o buffer
  BY DEF GeneratorCloseOk, InnerWrite
<1>4. QED
  BY <1>1, <1>2, <1>3, ChunkSizeFacts DEF GeneratorOK, Pipeline

(* A call that goes on or returns leaves the FlexBuf as it is.              *)
LEMMA FlexRests ==
  ASSUME FlexOK, UNCHANGED <<flex, frozen, slice, taken>>, op' \in {op, "none"}
  PROVE  FlexOK'
  BY DEF FlexOK

(* A call begins: write brings the next bytes, flush and close freeze.      *)
LEMMA FlexCalled ==
  ASSUME FlexOK, Cap \in Nat \ {0}, op = "none", NEW f \in Seq(Nat),
         NEW o \in {"write", "flush", "close"}, NEW n \in Nat, op' = o,
         slice' = Bytes(Len(taken), n), UNCHANGED taken,
         IF o = "write" THEN UNCHANGED <<flex, frozen>> ELSE Flex!Freeze
  PROVE  FlexOK' /\ (f \o frozen') \o flex' = (f \o frozen) \o flex
<1>1. Len(taken) \in Nat
  BY LenProperties DEF FlexOK
<1>2. /\ slice' \in Seq(Nat) /\ Len(slice') = n
      /\ \A i \in 1..n : slice'[i] = Len(taken) + i
  BY <1>1, BytesFacts
<1>3. CASE o = "write"
  BY <1>2, <1>3 DEF FlexOK
<1>4. CASE o # "write"
  <2>1. Flex!Freeze
    BY <1>4
  <2>2. /\ (f \o frozen') \o flex' = (f \o frozen) \o flex
        /\ flex' = <<>> /\ frozen' \in Seq(Nat) /\ Len(frozen') <= Cap
    BY <2>1, FreezeMoves
  <2>3. <<>> \in Seq(Nat) /\ Len(<<>>) = 0 /\ 0 < Cap
    BY EmptySeq
  <2>4. QED
    BY <1>2, <1>4, <2>2, <2>3 DEF FlexOK
<1>5. QED
  BY <1>3, <1>4

(* A write puts some bytes and returns.                                     *)
LEMMA FlexPuts ==
  ASSUME FlexOK, Cap \in Nat \ {0}, op = "write", op' = "none", UNCHANGED slice,
         NEW n \in 1..Len(slice), Flex!Put(slice, n),
         taken' = taken \o SubSeq(slice, 1, n), NEW f \in Seq(Nat)
  PROVE  FlexOK' /\ (f \o frozen') \o flex' = ((f \o frozen) \o flex) \o SubSeq(slice, 1, n)
<1>1. /\ (f \o frozen') \o flex' = ((f \o frozen) \o flex) \o SubSeq(slice, 1, n)
      /\ flex' \in Seq(Nat) /\ frozen' \in Seq(Nat)
      /\ Len(flex') < Cap /\ Len(frozen') <= Cap
      /\ frozen' = <<>> \/ flex' = <<>>
  BY PutGrows
<1>2. slice \in Seq(Nat) /\ Len(slice) \in Nat /\ taken \in Seq(Nat) /\ n \in 0..Len(slice)
  BY LenProperties DEF FlexOK
<1>3. SubSeq(slice, 1, n) \in Seq(Nat)
  BY <1>2, TakenPart
<1>4. taken' \in Seq(Nat)
  BY <1>2, <1>3, ConcatProperties
<1>5. QED
  BY <1>1, <1>2, <1>4 DEF FlexOK

-----------------------------------------------------------------------------
(* FuturesAsyncWriter.                                                      *)

(* The stages are sequences of bytes.                                       *)
LEMMA StagesType ==
  ASSUME FlexInv
  PROVE  /\ Pipeline \in Seq(Nat) /\ Pipeline \o sbuf \in Seq(Nat)
         /\ (Pipeline \o sbuf) \o frozen \in Seq(Nat)
         /\ Flex!AllStages = ((Pipeline \o sbuf) \o frozen) \o flex
         /\ Flex!AllStages \in Seq(Nat)
<1> USE DEF FlexInv, GeneratorOK, FlexOK
<1>1. Pipeline \in Seq(Nat)
  BY ConcatProperties DEF Pipeline
<1>2. Pipeline \o sbuf \in Seq(Nat)
  BY <1>1, ConcatProperties
<1>3. (Pipeline \o sbuf) \o frozen \in Seq(Nat)
  BY <1>2, ConcatProperties
<1>4. Flex!AllStages = ((Pipeline \o sbuf) \o frozen) \o flex
  BY DEF Flex!AllStages, Pipeline
<1>5. ((Pipeline \o sbuf) \o frozen) \o flex \in Seq(Nat)
  BY <1>3, ConcatProperties
<1>6. QED
  BY <1>1, <1>2, <1>3, <1>4, <1>5

(* The bytes stay, whichever stage they are in.                             *)
LEMMA LineStays ==
  ASSUME FlexInv, UNCHANGED taken, Flex!AllStages' = Flex!AllStages, failed' \in BOOLEAN,
         failed => failed'
  PROVE  Line(Flex!AllStages, ~failed)'
  BY DEF FlexInv, Line, Sorted

(* The buffer of the generator is dropped by a call that fails.             *)
LEMMA LineLoses ==
  ASSUME FlexInv, UNCHANGED <<taken, sbuf, frozen, flex>>, failed' = TRUE, Pipeline' = committed
  PROVE  Line(Flex!AllStages, ~failed)'
<1> DEFINE u == (sbuf \o frozen) \o flex
<1>1. /\ committed \in Seq(Nat) /\ buffer \in Seq(Nat) /\ sbuf \in Seq(Nat)
      /\ frozen \in Seq(Nat) /\ flex \in Seq(Nat) /\ Len(taken) \in Nat
  BY LenProperties DEF FlexInv, GeneratorOK, FlexOK
<1>2. sbuf \o frozen \in Seq(Nat) /\ committed \o buffer \in Seq(Nat)
  BY <1>1, ConcatProperties
<1>3. u \in Seq(Nat)
  BY <1>1, <1>2, ConcatProperties
<1>4. ASSUME NEW s \in Seq(Nat)
      PROVE  ((s \o sbuf) \o frozen) \o flex = s \o u
  <2>1. (s \o sbuf) \o frozen = s \o (sbuf \o frozen)
    BY <1>1, Regroup
  <2>2. (s \o (sbuf \o frozen)) \o flex = s \o ((sbuf \o frozen) \o flex)
    <3>1. s \in Seq(Nat) /\ sbuf \o frozen \in Seq(Nat) /\ flex \in Seq(Nat)
      BY <1>1, <1>2, <1>4
    <3>2. QED
      BY ONLY <3>1, Regroup
  <2>3. QED
    BY <2>1, <2>2
<1> HIDE DEF u
<1>5. Flex!AllStages = (committed \o buffer) \o u
  BY <1>2, <1>4, StagesType DEF Pipeline
<1>6. Flex!AllStages' = ((Pipeline' \o sbuf') \o frozen') \o flex'
  BY DEF Flex!AllStages, Pipeline
<1>7. Flex!AllStages' = committed \o u
  BY <1>1, <1>4, <1>6
<1>8. /\ Sorted(committed \o u)
      /\ \A i \in 1..Len(committed \o u) : (committed \o u)[i] <= Len(taken)
  <2>1. /\ Sorted((committed \o buffer) \o u) /\ Len(taken) \in Int
        /\ \A i \in 1..Len((committed \o buffer) \o u) : ((committed \o buffer) \o u)[i] <= Len(taken)
    BY <1>1, <1>5 DEF FlexInv, Line
  <2>2. QED
    BY <1>1, <1>3, <2>1, SortedDrop
<1>9. QED
  BY <1>7, <1>8 DEF Line, Sorted

(* A new writer has taken nothing.                                          *)
LEMMA FlexInitInv == ASSUME Cap \in Nat \ {0}, Flex!Init PROVE FlexInv
<1>1. <<>> \in Seq(Nat) /\ Len(<<>>) = 0 /\ <<>> \o <<>> = <<>> /\ 0 < Cap
  BY EmptySeq, ConcatEmptySeq
<1>2. /\ buffer = <<>> /\ committed = <<>> /\ writer = "open" /\ flex = <<>> /\ frozen = <<>>
      /\ sink = "idle" /\ sbuf = <<>> /\ op = "none" /\ slice = <<>> /\ taken = <<>> /\ failed = FALSE
  BY DEF Flex!Init, Flex!GeneratorInit, Flex!FlexInit
<1>3. Chunked => Len(buffer) <= CalculateChunkSize
  BY <1>1, <1>2, ChunkSizeFacts
<1>4. GeneratorOK /\ FlexOK
  BY <1>1, <1>2, <1>3 DEF GeneratorOK, FlexOK
<1>5. Flex!AllStages = <<>>
  BY <1>1, <1>2 DEF Flex!AllStages
<1>6. Line(Flex!AllStages, ~failed)
  BY <1>1, <1>2, <1>5, SortedEmpty DEF Line
<1>7. Flex!TypeOK
  BY <1>1, <1>2 DEF Flex!TypeOK
<1>8. QED
  BY <1>1, <1>2, <1>4, <1>6, <1>7 DEF FlexInv

(* A poll begins.                                                           *)
LEMMA PollInv ==
  ASSUME FlexInv, Cap \in Nat \ {0}, NEW o \in {"write", "flush", "close"}, NEW n \in Nat, Flex!Poll(o, n)
  PROVE  FlexInv'
<1>1. /\ UNCHANGED <<buffer, committed, sizes, writer, sink, sbuf, taken, failed>>
      /\ op = "none" /\ op' = o /\ slice' = Bytes(Len(taken), n)
      /\ IF o = "write" THEN UNCHANGED <<flex, frozen>> ELSE Flex!Freeze
  BY SameGenerator DEF Flex!Poll, Flex!generatorVars, Flex!sinkVars, Flex!flexVars
<1>2. FlexOK /\ Pipeline \o sbuf \in Seq(Nat)
  BY StagesType DEF FlexInv
<1>3. /\ FlexOK'
      /\ ((Pipeline \o sbuf) \o frozen') \o flex' = ((Pipeline \o sbuf) \o frozen) \o flex
  BY <1>1, <1>2, FlexCalled
<1>4. Flex!AllStages' = Flex!AllStages
  BY <1>1, <1>3 DEF Flex!AllStages, Pipeline
<1>5. Line(Flex!AllStages, ~failed)'
  BY <1>1, <1>4, LineStays DEF FlexInv
<1>6. GeneratorOK' /\ Flex!TypeOK'
  BY <1>1, <1>3 DEF FlexInv, GeneratorOK, FlexOK, Flex!TypeOK
<1>7. QED
  BY <1>1, <1>3, <1>5, <1>6 DEF FlexInv

(* poll_write takes bytes.                                                  *)
LEMMA WritePutsInv == ASSUME FlexInv, Cap \in Nat \ {0}, Flex!WritePuts PROVE FlexInv'
<1>1. PICK n \in 1..Len(slice) : Flex!Put(slice, n) /\ taken' = taken \o SubSeq(slice, 1, n)
  BY DEF Flex!WritePuts
<1>2. /\ UNCHANGED <<buffer, committed, sizes, writer, sink, sbuf, slice, failed>>
      /\ op = "write" /\ op' = "none"
  BY DEF Flex!WritePuts, Flex!Return, Flex!generatorVars, Flex!sinkVars
<1>3. FlexOK /\ Pipeline \o sbuf \in Seq(Nat) /\ Flex!AllStages \in Seq(Nat)
  BY StagesType DEF FlexInv
<1>4. /\ FlexOK'
      /\ ((Pipeline \o sbuf) \o frozen') \o flex'
           = (((Pipeline \o sbuf) \o frozen) \o flex) \o SubSeq(slice, 1, n)
  BY <1>1, <1>2, <1>3, FlexPuts
<1>5. Flex!AllStages' = Flex!AllStages \o SubSeq(slice, 1, n)
  BY <1>2, <1>4 DEF Flex!AllStages, Pipeline
<1>6. Line(Flex!AllStages, ~failed)'
  <2>1. (~failed) \in BOOLEAN /\ Line(Flex!AllStages, ~failed)
    BY DEF FlexInv
  <2>2. /\ Sorted(Flex!AllStages')
        /\ \A i \in 1..Len(Flex!AllStages') : Flex!AllStages'[i] <= Len(taken')
        /\ (~failed) => Flex!AllStages' = taken'
    BY <1>1, <1>2, <1>3, <1>5, <2>1, LineGrows
  <2>3. QED
    BY <1>2, <2>2 DEF Line, Sorted
<1>7. GeneratorOK' /\ Flex!TypeOK'
  BY <1>2, <1>4 DEF FlexInv, GeneratorOK, FlexOK, Flex!TypeOK
<1>8. QED
  BY <1>2, <1>4, <1>6, <1>7 DEF FlexInv

(* The frozen bytes go to the sink.                                         *)
LEMMA HandOverInv == ASSUME FlexInv, Cap \in Nat \ {0}, Flex!HandOver PROVE FlexInv'
<1>1. /\ UNCHANGED <<buffer, committed, sizes, writer, sink, op, slice, taken, failed, flex>>
      /\ frozen # <<>> /\ sbuf = <<>> /\ sbuf' = frozen /\ frozen' = <<>>
      /\ sink \in {"idle", "none"}
  BY DEF Flex!HandOver, Flex!NeedsSink, Flex!FlexClean, Flex!generatorVars
<1>2. /\ flex = <<>> /\ <<>> \in Seq(Nat) /\ Len(<<>>) = 0 /\ Pipeline \in Seq(Nat)
      /\ frozen \in Seq(Nat) /\ Pipeline \o frozen \in Seq(Nat)
  BY <1>1, StagesType, EmptySeq, ConcatProperties DEF FlexInv, FlexOK
<1>3. /\ Pipeline \o <<>> = Pipeline /\ (Pipeline \o frozen) \o <<>> = Pipeline \o frozen
  BY <1>2, ConcatEmptySeq
<1>4. Flex!AllStages' = Flex!AllStages
  BY <1>1, <1>2, <1>3 DEF Flex!AllStages, Pipeline
<1>5. Line(Flex!AllStages, ~failed)'
  BY <1>1, <1>4, LineStays DEF FlexInv
<1>6. GeneratorOK' /\ FlexOK'
  BY <1>1, <1>2 DEF FlexInv, GeneratorOK, FlexOK
<1>7. Flex!TypeOK'
  BY <1>1, <1>2 DEF FlexInv, FlexOK, Flex!TypeOK
<1>8. QED
  BY <1>1, <1>2, <1>5, <1>6, <1>7 DEF FlexInv

(* No byte moves: a poll waits, returns, is given up or is refused.         *)
LEMMA SinkRestsInv ==
  ASSUME FlexInv,
         \/ Flex!FlushReturns \/ Flex!SinkWrites \/ Flex!SinkIsClosing \/ Flex!SinkIsClosed
         \/ Flex!SinkCloses \/ Flex!StopPolling \/ Flex!Ended \/ UNCHANGED Flex!vars
  PROVE  FlexInv'
<1>1. /\ UNCHANGED <<buffer, committed, writer, flex, frozen, sbuf, slice, taken>>
      /\ op' \in {op, "none"} /\ (UNCHANGED failed \/ failed' = TRUE)
      /\ \/ UNCHANGED sink
         \/ sink = "idle" /\ sink' = "writing"
         \/ sink = "idle" /\ sink' = "closing" /\ sbuf = <<>>
  BY DEF Flex!FlushReturns, Flex!SinkWrites, Flex!SinkIsClosing, Flex!SinkIsClosed, Flex!SinkCloses,
     Flex!StopPolling, Flex!Ended, Flex!vars, Flex!Return, Flex!Fail, Flex!generatorVars,
     Flex!flexVars, Flex!sinkVars
<1>2. FlexOK'
  BY <1>1, FlexRests DEF FlexInv
<1>3. Flex!AllStages' = Flex!AllStages
  BY <1>1 DEF Flex!AllStages
<1>4. failed' \in BOOLEAN /\ (failed => failed')
  <2>1. failed \in BOOLEAN /\ (failed' = failed \/ failed' = TRUE)
    BY <1>1 DEF FlexInv
  <2>2. QED
    BY <2>1, Zenon
<1>5. Line(Flex!AllStages, ~failed)'
  BY <1>1, <1>3, <1>4, LineStays
<1>6. GeneratorOK'
  BY <1>1 DEF FlexInv, GeneratorOK
<1>7. Flex!TypeOK'
  BY <1>1 DEF FlexInv, Flex!TypeOK
<1>8. QED
  BY <1>1, <1>2, <1>4, <1>5, <1>6, <1>7 DEF FlexInv

(* The generator takes a part of what the sink has.                         *)
LEMMA SinkWroteInv == ASSUME FlexInv, Cap \in Nat \ {0}, Flex!SinkWrote PROVE FlexInv'
<1>1. PICK n \in 0..Len(sbuf) :
        GeneratorWriteOk(sbuf, n) /\ sbuf' = SubSeq(sbuf, n + 1, Len(sbuf))
  BY SameGenerator DEF Flex!SinkWrote
<1>2. UNCHANGED <<flex, frozen, op, slice, taken, failed>> /\ sink = "writing" /\ sink' = "idle"
  BY DEF Flex!SinkWrote, Flex!flexVars
<1>3. GeneratorOK /\ FlexOK /\ sbuf \in Seq(Nat) /\ Len(sbuf) \in Nat /\ Pipeline \in Seq(Nat)
  BY StagesType, LenProperties DEF FlexInv
<1>4. Pipeline' = Pipeline \o SubSeq(sbuf, 1, n) /\ GeneratorOK' /\ UNCHANGED writer
  BY <1>1, <1>3, GeneratorWrites
<1>5. /\ SubSeq(sbuf, 1, n) \in Seq(Nat) /\ SubSeq(sbuf, n + 1, Len(sbuf)) \in Seq(Nat)
      /\ Len(SubSeq(sbuf, n + 1, Len(sbuf))) = Len(sbuf) - n
  BY <1>3, TakenPart
<1>6. SubSeq(sbuf, 1, n) \o SubSeq(sbuf, n + 1, Len(sbuf)) = sbuf
  BY <1>3, Rejoin
<1>7. Pipeline' \o sbuf' = Pipeline \o sbuf
  <2>1. (Pipeline \o SubSeq(sbuf, 1, n)) \o SubSeq(sbuf, n + 1, Len(sbuf))
          = Pipeline \o (SubSeq(sbuf, 1, n) \o SubSeq(sbuf, n + 1, Len(sbuf)))
    BY <1>3, <1>5, Regroup
  <2>2. QED
    BY <1>1, <1>4, <1>6, <2>1
<1>8. Flex!AllStages' = ((Pipeline' \o sbuf') \o frozen') \o flex'
  BY DEF Flex!AllStages, Pipeline
<1>9. Flex!AllStages' = Flex!AllStages
  BY <1>2, <1>7, <1>8, StagesType
<1>10. Line(Flex!AllStages, ~failed)'
  BY <1>2, <1>9, LineStays DEF FlexInv
<1>11. FlexOK'
  BY <1>2, <1>3, FlexRests
<1>12. sbuf' \in Seq(Nat) /\ Len(sbuf') <= Len(sbuf) /\ Len(sbuf') \in Nat
  BY <1>1, <1>3, <1>5
<1>13. Flex!TypeOK'
  <2>1. Len(sbuf') <= Cap
    <3>1. Len(sbuf) <= Cap /\ Len(frozen) <= Cap
      BY DEF FlexInv, Flex!TypeOK
    <3>2. QED
      BY <1>1, <1>3, <1>5, <3>1
  <2>2. QED
    BY <1>2, <1>4, <2>1 DEF FlexInv, Flex!TypeOK
<1>14. QED
  BY <1>2, <1>4, <1>10, <1>11, <1>12, <1>13 DEF FlexInv

(* A write or the close below fails.                                        *)
LEMMA SinkErrInv == ASSUME FlexInv, Flex!SinkWriteErr \/ Flex!SinkCloseErr PROVE FlexInv'
<1>1. /\ UNCHANGED <<flex, frozen, sbuf, slice, taken>> /\ sink' = "idle" /\ sink \in {"writing", "closing"}
      /\ op' = "none" /\ failed' = TRUE
      /\ GeneratorWriteErr(sbuf) \/ GeneratorCloseErr
  BY SameGenerator DEF Flex!SinkWriteErr, Flex!SinkCloseErr, Flex!Fail, Flex!flexVars
<1>2. GeneratorOK' /\ UNCHANGED writer /\ (Pipeline' = Pipeline \/ Pipeline' = committed)
  BY <1>1, GeneratorFails DEF FlexInv
<1>3. Line(Flex!AllStages, ~failed)'
  <2>1. CASE Pipeline' = Pipeline
    <3>1. Flex!AllStages' = Flex!AllStages
      BY <1>1, <2>1 DEF Flex!AllStages, Pipeline
    <3>2. QED
      BY <1>1, <3>1, LineStays
  <2>2. CASE Pipeline' = committed
    BY <1>1, <2>2, LineLoses
  <2>3. QED
    BY <1>2, <2>1, <2>2
<1>4. FlexOK'
  BY <1>1, FlexRests DEF FlexInv
<1>5. Flex!TypeOK'
  BY <1>1, <1>2 DEF FlexInv, Flex!TypeOK
<1>6. QED
  BY <1>1, <1>2, <1>3, <1>4, <1>5 DEF FlexInv

(* The close below succeeds, and everything has been written.               *)
LEMMA SinkClosedInv ==
  ASSUME FlexInv, Flex!SinkClosed
  PROVE  FlexInv' /\ committed' = Flex!AllStages
<1>1. /\ UNCHANGED <<flex, frozen, sbuf, slice, taken, failed>> /\ sink' = "none" /\ sink = "closing"
      /\ op' = "none" /\ op = "close" /\ frozen = <<>> /\ GeneratorCloseOk
  BY SameGenerator DEF Flex!SinkClosed, Flex!Closing, Flex!Return, Flex!flexVars
<1>2. /\ GeneratorOK' /\ Pipeline' = Pipeline /\ committed' = Pipeline
      /\ writer = "open" /\ writer' = "closed"
  BY <1>1, GeneratorCloses DEF FlexInv
<1>3. flex = <<>> /\ sbuf = <<>> /\ Pipeline \in Seq(Nat)
  BY <1>1, StagesType DEF FlexInv, FlexOK
<1>4. Pipeline \o <<>> = Pipeline
  BY <1>3, ConcatEmptySeq
<1>5. Flex!AllStages = Pipeline
  BY <1>1, <1>3, <1>4, StagesType
<1>6. Flex!AllStages' = Flex!AllStages
  BY <1>1, <1>2 DEF Flex!AllStages, Pipeline
<1>7. Line(Flex!AllStages, ~failed)'
  BY <1>1, <1>6, LineStays DEF FlexInv
<1>8. FlexOK'
  BY <1>1, FlexRests DEF FlexInv
<1>9. Flex!TypeOK'
  BY <1>1, <1>2 DEF FlexInv, Flex!TypeOK
<1>10. QED
  BY <1>1, <1>2, <1>5, <1>7, <1>8, <1>9 DEF FlexInv

(* Every step of FuturesAsyncWriter keeps the invariant.                    *)
LEMMA FlexStepInv == ASSUME Cap \in Nat \ {0}, FlexInv, [Flex!Next]_(Flex!vars) PROVE FlexInv'
<1>1. CASE \/ \E n \in Lengths \ {0} : Flex!Poll("write", n)
           \/ Flex!Poll("flush", 0)
           \/ Flex!Poll("close", 0)
  <2>1. Lengths \subseteq Nat /\ 0 \in Nat
    BY UserAssumption DEF UserIsValid
  <2>2. QED
    BY <1>1, <2>1, PollInv
<1>2. CASE Flex!WritePuts
  BY <1>2, WritePutsInv
<1>3. CASE Flex!HandOver
  BY <1>3, HandOverInv
<1>4. CASE \/ Flex!FlushReturns \/ Flex!SinkWrites \/ Flex!SinkIsClosing \/ Flex!SinkIsClosed
           \/ Flex!SinkCloses \/ Flex!StopPolling \/ Flex!Ended \/ UNCHANGED Flex!vars
  BY <1>4, SinkRestsInv
<1>5. CASE Flex!SinkWrote
  BY <1>5, SinkWroteInv
<1>6. CASE Flex!SinkWriteErr \/ Flex!SinkCloseErr
  BY <1>6, SinkErrInv
<1>7. CASE Flex!SinkClosed
  BY <1>7, SinkClosedInv
<1>8. QED
  BY <1>1, <1>2, <1>3, <1>4, <1>5, <1>6, <1>7 DEF Flex!Next, Flex!PollRuns

(* Whichever polls are given up half way, the four buffers and what is      *)
(* below hold the acknowledged bytes.                                       *)
THEOREM FlexInvariant ==
  ASSUME Cap \in Nat \ {0}
  PROVE  Flex!Spec => []FlexInv
<1>1. Flex!Init => FlexInv
  BY FlexInitInv
<1>2. FlexInv /\ [Flex!Next]_(Flex!vars) => FlexInv'
  BY FlexStepInv
<1>3. QED
  BY <1>1, <1>2, PTL DEF Flex!Spec

(* FuturesAsyncWriter: until a call fails, the bytes that poll_write        *)
(* acknowledged are in the buffers and below, in order.                     *)
THEOREM FlexKeeps ==
  ASSUME Cap \in Nat \ {0}
  PROVE  Flex!Spec => [](Flex!TypeOK /\ Flex!AcknowledgedIsKept)
<1>1. FlexInv => Flex!TypeOK /\ Flex!AcknowledgedIsKept
  BY DEF FlexInv, Line, Flex!AcknowledgedIsKept
<1>2. QED
  BY <1>1, FlexInvariant, PTL

(* After failures too, no byte is sent twice and none overtakes another.    *)
THEOREM FlexInOrder ==
  ASSUME Cap \in Nat \ {0}
  PROVE  Flex!Spec => []Flex!StagesInOrder
<1>1. FlexInv => Flex!StagesInOrder
  <2> SUFFICES ASSUME FlexInv PROVE Flex!StagesInOrder
    OBVIOUS
  <2>1. Sorted(Flex!AllStages) /\ Flex!AllStages \in Seq(Nat)
    BY StagesType DEF FlexInv, Line
  <2>2. Increasing(Flex!AllStages)
    BY <2>1, SortedIsIncreasing
  <2>3. QED
    BY <2>2, SameGenerator DEF Flex!StagesInOrder
<1>2. QED
  BY <1>1, FlexInvariant, PTL

(* poll_close that returns Ok, with no failure before it, has written every *)
(* acknowledged byte.                                                       *)
THEOREM FlexCloses ==
  ASSUME Cap \in Nat \ {0}
  PROVE  Flex!Spec => [][Flex!CloseLeavesNothing]_(Flex!vars)
<1>1. FlexInv /\ [Flex!Next]_(Flex!vars) => [Flex!CloseLeavesNothing]_(Flex!vars)
  <2> SUFFICES ASSUME FlexInv, Flex!Next, sink # "none", sink' = "none", ~failed
               PROVE  committed' = taken
    BY DEF Flex!CloseLeavesNothing
  <2>1. Flex!SinkClosed
    BY DEF Flex!Next, Flex!PollRuns, Flex!Poll, Flex!WritePuts, Flex!HandOver, Flex!FlushReturns,
       Flex!SinkWrites, Flex!SinkWrote, Flex!SinkWriteErr, Flex!SinkIsClosing, Flex!SinkIsClosed,
       Flex!SinkCloses, Flex!SinkCloseErr, Flex!StopPolling, Flex!Ended, Flex!sinkVars, Flex!vars
  <2>2. committed' = Flex!AllStages
    BY <2>1, SinkClosedInv
  <2>3. QED
    BY <2>2 DEF FlexInv, Line
<1>2. QED
  BY <1>1, FlexInvariant, PTL DEF Flex!Spec

-----------------------------------------------------------------------------
(* StdWriter.                                                               *)

(* The stages are sequences of bytes.                                       *)
LEMMA StdStagesType ==
  ASSUME GeneratorOK, FlexOK
  PROVE  /\ Pipeline \in Seq(Nat) /\ Pipeline \o frozen \in Seq(Nat)
         /\ Flex!StdStages = (Pipeline \o frozen) \o flex
         /\ Flex!StdStages \in Seq(Nat)
<1>1. Pipeline \in Seq(Nat)
  BY ConcatProperties DEF Pipeline, GeneratorOK
<1>2. Pipeline \o frozen \in Seq(Nat)
  BY <1>1, ConcatProperties DEF FlexOK
<1>3. Flex!StdStages = (Pipeline \o frozen) \o flex
  BY DEF Flex!StdStages, Pipeline
<1>4. (Pipeline \o frozen) \o flex \in Seq(Nat)
  BY <1>2, ConcatProperties DEF FlexOK
<1>5. QED
  BY <1>1, <1>2, <1>3, <1>4

(* The bytes stay, whichever stage they are in.                             *)
LEMMA StdLineStays ==
  ASSUME Line(Flex!StdStages, StdKept), UNCHANGED taken, Flex!StdStages' = Flex!StdStages,
         StdKept' => StdKept
  PROVE  Line(Flex!StdStages, StdKept)'
  BY DEF Line, Sorted

(* The buffer of the generator is dropped by a call that fails.             *)
LEMMA StdLineLoses ==
  ASSUME GeneratorOK, FlexOK, Line(Flex!StdStages, StdKept), UNCHANGED <<taken, frozen, flex>>,
         ~StdKept', Pipeline' = committed
  PROVE  Line(Flex!StdStages, StdKept)'
<1> DEFINE u == frozen \o flex
<1>1. /\ committed \in Seq(Nat) /\ buffer \in Seq(Nat)
      /\ frozen \in Seq(Nat) /\ flex \in Seq(Nat) /\ Len(taken) \in Nat
  BY LenProperties DEF GeneratorOK, FlexOK
<1>2. u \in Seq(Nat) /\ committed \o buffer \in Seq(Nat)
  BY <1>1, ConcatProperties
<1>3. ASSUME NEW s \in Seq(Nat)
      PROVE  (s \o frozen) \o flex = s \o u
  BY <1>1, Regroup
<1> HIDE DEF u
<1>4. Flex!StdStages = (committed \o buffer) \o u
  BY <1>2, <1>3, StdStagesType DEF Pipeline
<1>5. Flex!StdStages' = (Pipeline' \o frozen') \o flex'
  BY DEF Flex!StdStages, Pipeline
<1>6. Flex!StdStages' = committed \o u
  BY <1>1, <1>3, <1>5
<1>7. /\ Sorted(committed \o u)
      /\ \A i \in 1..Len(committed \o u) : (committed \o u)[i] <= Len(taken)
  <2>1. /\ Sorted((committed \o buffer) \o u) /\ Len(taken) \in Int
        /\ \A i \in 1..Len((committed \o buffer) \o u) : ((committed \o buffer) \o u)[i] <= Len(taken)
    BY <1>1, <1>4 DEF Line
  <2>2. QED
    BY <1>1, <1>2, <2>1, SortedDrop
<1>8. QED
  BY <1>6, <1>7 DEF Line, Sorted

(* A new writer has taken nothing.                                          *)
LEMMA StdInitInv == ASSUME Cap \in Nat \ {0}, Flex!StdInit PROVE StdInv
<1>1. <<>> \in Seq(Nat) /\ Len(<<>>) = 0 /\ <<>> \o <<>> = <<>> /\ 0 < Cap
  BY EmptySeq, ConcatEmptySeq
<1>2. /\ buffer = <<>> /\ committed = <<>> /\ writer = "open" /\ flex = <<>> /\ frozen = <<>>
      /\ w = "some" /\ op = "none" /\ slice = <<>> /\ taken = <<>> /\ failed = FALSE
  BY DEF Flex!StdInit, Flex!GeneratorInit, Flex!FlexInit
<1>3. Chunked => Len(buffer) <= CalculateChunkSize
  BY <1>1, <1>2, ChunkSizeFacts
<1>4. GeneratorOK /\ FlexOK
  BY <1>1, <1>2, <1>3 DEF GeneratorOK, FlexOK
<1>5. Flex!StdStages = <<>>
  BY <1>1, <1>2 DEF Flex!StdStages
<1>6. Line(Flex!StdStages, StdKept)
  BY <1>1, <1>2, <1>5, SortedEmpty DEF Line
<1>7. QED
  BY <1>2, <1>4, <1>6 DEF StdInv

(* A call begins.                                                           *)
LEMMA StdCallInv ==
  ASSUME StdInv, Cap \in Nat \ {0}, NEW o \in {"write", "flush", "close"}, NEW n \in Nat, Flex!StdCall(o, n)
  PROVE  StdInv'
<1>1. /\ UNCHANGED <<buffer, committed, sizes, writer, w, taken, failed>>
      /\ op = "none" /\ op' = o /\ slice' = Bytes(Len(taken), n) /\ w = "some"
      /\ IF o = "write" THEN UNCHANGED <<flex, frozen>> ELSE Flex!Freeze
  BY SameGenerator DEF Flex!StdCall, Flex!generatorVars, Flex!flexVars
<1>2. GeneratorOK /\ FlexOK /\ Pipeline \in Seq(Nat) /\ Line(Flex!StdStages, StdKept) /\ failed \in BOOLEAN
  BY StdStagesType DEF StdInv
<1>3. FlexOK' /\ (Pipeline \o frozen') \o flex' = (Pipeline \o frozen) \o flex
  BY <1>1, <1>2, FlexCalled
<1>4. Flex!StdStages' = Flex!StdStages
  BY <1>1, <1>3 DEF Flex!StdStages, Pipeline
<1>5. Line(Flex!StdStages, StdKept)'
  BY <1>1, <1>2, <1>4, StdLineStays DEF StdKept
<1>6. GeneratorOK'
  BY <1>1, <1>2 DEF GeneratorOK
<1>7. QED
  BY <1>1, <1>2, <1>3, <1>5, <1>6 DEF StdInv

(* write takes bytes.                                                       *)
LEMMA StdWritePutsInv == ASSUME StdInv, Cap \in Nat \ {0}, Flex!StdWritePuts PROVE StdInv'
<1>1. PICK n \in 1..Len(slice) : Flex!Put(slice, n) /\ taken' = taken \o SubSeq(slice, 1, n)
  BY DEF Flex!StdWritePuts
<1>2. /\ UNCHANGED <<buffer, committed, sizes, writer, w, slice, failed>>
      /\ op = "write" /\ op' = "none"
  BY DEF Flex!StdWritePuts, Flex!generatorVars
<1>3. /\ GeneratorOK /\ FlexOK /\ Pipeline \in Seq(Nat) /\ Flex!StdStages \in Seq(Nat)
      /\ Line(Flex!StdStages, StdKept) /\ failed \in BOOLEAN /\ w = "some"
  BY <1>2, StdStagesType DEF StdInv
<1>4. /\ FlexOK'
      /\ (Pipeline \o frozen') \o flex' = ((Pipeline \o frozen) \o flex) \o SubSeq(slice, 1, n)
  BY <1>1, <1>2, <1>3, FlexPuts
<1>5. Flex!StdStages' = Flex!StdStages \o SubSeq(slice, 1, n)
  BY <1>2, <1>4 DEF Flex!StdStages, Pipeline
<1>6. Line(Flex!StdStages, StdKept)'
  <2>1. StdKept \in BOOLEAN
    BY DEF StdKept
  <2>2. /\ Sorted(Flex!StdStages')
        /\ \A i \in 1..Len(Flex!StdStages') : Flex!StdStages'[i] <= Len(taken')
        /\ StdKept => Flex!StdStages' = taken'
    BY <1>1, <1>2, <1>3, <1>5, <2>1, LineGrows
  <2>3. StdKept' = StdKept
    BY <1>2 DEF StdKept
  <2>4. QED
    BY <2>2, <2>3 DEF Line, Sorted
<1>7. GeneratorOK'
  BY <1>2, <1>3 DEF GeneratorOK
<1>8. QED
  BY <1>2, <1>3, <1>4, <1>6, <1>7 DEF StdInv

(* write makes room: the generator takes a part of the frozen bytes.        *)
LEMMA WriteMakesRoomInv == ASSUME StdInv, Cap \in Nat \ {0}, Flex!WriteMakesRoom PROVE StdInv'
<1>1. PICK n \in 0..Len(frozen) :
        GeneratorWriteOk(frozen, n) /\ frozen' = SubSeq(frozen, n + 1, Len(frozen)) /\ UNCHANGED flex
  BY SameGenerator DEF Flex!WriteMakesRoom, Flex!FlexAdvance
<1>2. UNCHANGED <<w, op, slice, taken, failed>> /\ op = "write" /\ frozen # <<>>
  BY DEF Flex!WriteMakesRoom
<1>3. /\ GeneratorOK /\ FlexOK /\ frozen \in Seq(Nat) /\ Len(frozen) \in Nat /\ Pipeline \in Seq(Nat)
      /\ Line(Flex!StdStages, StdKept) /\ failed \in BOOLEAN /\ w = "some" /\ flex = <<>>
  BY <1>2, StdStagesType, LenProperties DEF FlexOK, StdInv
<1>4. Pipeline' = Pipeline \o SubSeq(frozen, 1, n) /\ GeneratorOK'
  BY <1>1, <1>3, GeneratorWrites
<1>5. /\ SubSeq(frozen, 1, n) \in Seq(Nat) /\ SubSeq(frozen, n + 1, Len(frozen)) \in Seq(Nat)
      /\ Len(SubSeq(frozen, n + 1, Len(frozen))) = Len(frozen) - n
  BY <1>3, TakenPart
<1>6. Pipeline' \o frozen' = Pipeline \o frozen
  <2>1. SubSeq(frozen, 1, n) \o SubSeq(frozen, n + 1, Len(frozen)) = frozen
    BY <1>3, Rejoin
  <2>2. (Pipeline \o SubSeq(frozen, 1, n)) \o SubSeq(frozen, n + 1, Len(frozen))
          = Pipeline \o (SubSeq(frozen, 1, n) \o SubSeq(frozen, n + 1, Len(frozen)))
    BY <1>3, <1>5, Regroup
  <2>3. QED
    BY <1>1, <1>4, <2>1, <2>2
<1>7. Flex!StdStages' = (Pipeline' \o frozen') \o flex'
  BY DEF Flex!StdStages, Pipeline
<1>8. Flex!StdStages' = Flex!StdStages
  BY <1>1, <1>3, <1>6, <1>7, StdStagesType
<1>9. Line(Flex!StdStages, StdKept)'
  BY <1>2, <1>3, <1>8, StdLineStays DEF StdKept
<1>10. FlexOK'
  <2>1. Len(frozen') <= Cap
    BY <1>1, <1>3, <1>5 DEF FlexOK
  <2>2. QED
    BY <1>1, <1>2, <1>3, <1>5, <2>1 DEF FlexOK
<1>11. QED
  BY <1>2, <1>3, <1>4, <1>9, <1>10 DEF StdInv

(* A generator that is not exact takes every buffer whole.                  *)
LEMMA TakesAll ==
  ASSUME ~Exact, NEW b, NEW n, GeneratorWriteOk(b, n)
  PROVE  n = Len(b)
  BY DEF GeneratorWriteOk, PassThrough, Keep, WriteThrough, FillChunk

(* flush: what the generator does not take of the frozen bytes is dropped.  *)
LEMMA FlushWritesInv == ASSUME StdInv, Cap \in Nat \ {0}, Flex!FlushWrites PROVE StdInv'
<1>1. PICK n \in 0..Len(frozen) : GeneratorWriteOk(frozen, n)
  BY SameGenerator DEF Flex!FlushWrites
<1>2. /\ UNCHANGED <<w, op, slice, taken, failed, flex>> /\ op \in {"flush", "close"}
      /\ frozen' = <<>>
  BY DEF Flex!FlushWrites, Flex!FlexClean
<1>3. /\ GeneratorOK /\ FlexOK /\ frozen \in Seq(Nat) /\ Len(frozen) \in Nat /\ Pipeline \in Seq(Nat)
      /\ Line(Flex!StdStages, StdKept) /\ failed \in BOOLEAN /\ w = "some" /\ flex = <<>>
      /\ <<>> \in Seq(Nat) /\ Len(<<>>) = 0 /\ Len(taken) \in Nat
  BY <1>2, StdStagesType, LenProperties, EmptySeq DEF FlexOK, StdInv
<1> DEFINE t == SubSeq(frozen, 1, n)
           r == SubSeq(frozen, n + 1, Len(frozen))
<1>4. Pipeline' = Pipeline \o t /\ GeneratorOK'
  BY <1>1, <1>3, GeneratorWrites
<1>5. t \in Seq(Nat) /\ r \in Seq(Nat)
  BY <1>3, TakenPart
<1>6. t \o r = frozen /\ (n = Len(frozen) => t = frozen)
  BY <1>3, Rejoin, SubSeqFull
<1> HIDE DEF t, r
<1>7. Pipeline \o t \in Seq(Nat) /\ Pipeline \o frozen \in Seq(Nat)
  BY <1>3, <1>5, ConcatProperties
<1>8. /\ (Pipeline \o t) \o <<>> = Pipeline \o t
      /\ (Pipeline \o frozen) \o <<>> = Pipeline \o frozen
  BY <1>7, ConcatEmptySeq
<1>9. Flex!StdStages = Pipeline \o frozen
  BY <1>3, <1>8, StdStagesType
<1>10. Flex!StdStages = (Pipeline \o t) \o r
  <2>1. Pipeline \in Seq(Nat)
    BY <1>3
  <2>2. (Pipeline \o t) \o r = Pipeline \o (t \o r)
    BY <1>5, <2>1, Regroup
  <2>3. QED
    BY <1>6, <1>9, <2>2
<1>11. Flex!StdStages' = (Pipeline' \o frozen') \o flex'
  BY DEF Flex!StdStages, Pipeline
<1>12. Flex!StdStages' = Pipeline \o t
  BY <1>2, <1>3, <1>4, <1>8, <1>11
<1>13. /\ Sorted(Pipeline \o t)
       /\ \A i \in 1..Len(Pipeline \o t) : (Pipeline \o t)[i] <= Len(taken)
  <2>1. /\ Sorted((Pipeline \o t) \o r) /\ Len(taken) \in Int
        /\ \A i \in 1..Len((Pipeline \o t) \o r) : ((Pipeline \o t) \o r)[i] <= Len(taken)
    BY <1>3, <1>10 DEF Line
  <2>2. QED
    BY <1>5, <1>7, <2>1, SortedFront
<1>14. StdKept => Pipeline \o t = taken
  <2>1. ASSUME StdKept PROVE t = frozen
    BY <1>1, <1>6, <2>1, TakesAll DEF StdKept
  <2>2. QED
    BY <1>3, <1>9, <2>1 DEF Line
<1>15. Line(Flex!StdStages, StdKept)'
  <2>1. StdKept' = StdKept
    BY <1>2 DEF StdKept
  <2>2. QED
    BY <1>2, <1>12, <1>13, <1>14, <2>1 DEF Line, Sorted
<1>16. FlexOK'
  BY <1>2, <1>3 DEF FlexOK
<1>17. QED
  BY <1>2, <1>3, <1>4, <1>15, <1>16 DEF StdInv

(* No byte moves: a call returns or panics.                                 *)
LEMMA StdRestsInv ==
  ASSUME StdInv,
         Flex!WritePanics \/ Flex!StdFlushReturns \/ Flex!StdEnded \/ UNCHANGED Flex!stdVars
  PROVE  StdInv'
<1>1. /\ UNCHANGED <<buffer, committed, flex, frozen, slice, taken, w, failed>>
      /\ op' \in {op, "none"}
  BY DEF Flex!WritePanics, Flex!StdFlushReturns, Flex!StdEnded, Flex!stdVars, Flex!generatorVars,
     Flex!flexVars
<1>2. FlexOK'
  BY <1>1, FlexRests DEF StdInv
<1>3. Flex!StdStages' = Flex!StdStages
  BY <1>1 DEF Flex!StdStages
<1>4. StdKept' = StdKept
  BY <1>1 DEF StdKept
<1>5. Line(Flex!StdStages, StdKept)'
  BY <1>1, <1>3, <1>4, StdLineStays DEF StdInv
<1>6. GeneratorOK'
  BY <1>1 DEF StdInv, GeneratorOK
<1>7. QED
  BY <1>1, <1>2, <1>5, <1>6 DEF StdInv

(* A write or the close below fails, in a call or in drop.                  *)
LEMMA StdErrInv ==
  ASSUME StdInv, GeneratorWriteErr(frozen) \/ GeneratorCloseErr, w = "some",
         UNCHANGED <<flex, frozen, slice, taken>>, op' = "none", failed' = TRUE,
         w' \in {"some", "dropped"}
  PROVE  StdInv'
<1>1. GeneratorOK' /\ (Pipeline' = Pipeline \/ Pipeline' = committed)
  BY GeneratorFails DEF StdInv
<1>2. ~StdKept'
  BY DEF StdKept
<1>3. Line(Flex!StdStages, StdKept)'
  <2>1. CASE Pipeline' = Pipeline
    <3>1. Flex!StdStages' = Flex!StdStages
      BY <2>1 DEF Flex!StdStages, Pipeline
    <3>2. QED
      BY <1>2, <3>1, StdLineStays DEF StdInv
  <2>2. CASE Pipeline' = committed
    BY <1>2, <2>2, StdLineLoses DEF StdInv
  <2>3. QED
    BY <1>1, <2>1, <2>2
<1>4. FlexOK'
  BY FlexRests DEF StdInv
<1>5. QED
  BY <1>1, <1>3, <1>4 DEF StdInv

(* The close below succeeds, in close or in drop.                           *)
LEMMA StdClosedInv ==
  ASSUME StdInv, GeneratorCloseOk, UNCHANGED <<flex, frozen, slice, taken, failed>>,
         op' = "none", w = "some", \/ w' = "none" /\ frozen = <<>> /\ flex = <<>>
                                   \/ w' = "dropped"
  PROVE  StdInv'
<1>1. GeneratorOK' /\ Pipeline' = Pipeline /\ buffer' = <<>>
  BY GeneratorCloses DEF StdInv
<1>2. Flex!StdStages' = Flex!StdStages
  BY <1>1 DEF Flex!StdStages, Pipeline
<1>3. StdKept' => StdKept
  BY DEF StdKept
<1>4. Line(Flex!StdStages, StdKept)'
  BY <1>2, <1>3, StdLineStays DEF StdInv
<1>5. FlexOK'
  BY FlexRests DEF StdInv
<1>6. QED
  BY <1>1, <1>4, <1>5 DEF StdInv

(* Every step of StdWriter keeps the invariant.                             *)
LEMMA StdStepInv == ASSUME Cap \in Nat \ {0}, StdInv, [Flex!StdNext]_(Flex!stdVars) PROVE StdInv'
<1>1. CASE \/ \E n \in Lengths : Flex!StdCall("write", n)
           \/ Flex!StdCall("flush", 0)
           \/ Flex!StdCall("close", 0)
  <2>1. Lengths \subseteq Nat /\ 0 \in Nat
    BY UserAssumption DEF UserIsValid
  <2>2. QED
    BY <1>1, <2>1, StdCallInv
<1>2. CASE Flex!StdWritePuts
  BY <1>2, StdWritePutsInv
<1>3. CASE Flex!WriteMakesRoom
  BY <1>3, WriteMakesRoomInv
<1>4. CASE Flex!FlushWrites
  BY <1>4, FlushWritesInv
<1>5. CASE Flex!WritePanics \/ Flex!StdFlushReturns \/ Flex!StdEnded \/ UNCHANGED Flex!stdVars
  BY <1>5, StdRestsInv
<1>6. CASE Flex!WriteErr
  <2>1. /\ GeneratorWriteErr(frozen) /\ op # "none" /\ op' = "none" /\ failed' = TRUE
        /\ UNCHANGED <<flex, frozen, w, slice, taken>>
    BY <1>6, SameGenerator DEF Flex!WriteErr, Flex!flexVars
  <2>2. w = "some"
    BY <2>1 DEF StdInv
  <2>3. QED
    BY <2>1, <2>2, StdErrInv
<1>7. CASE Flex!CloseErr
  <2>1. /\ GeneratorCloseErr /\ op # "none" /\ op' = "none" /\ failed' = TRUE
        /\ UNCHANGED <<flex, frozen, w, slice, taken>>
    BY <1>7, SameGenerator DEF Flex!CloseErr, Flex!flexVars
  <2>2. w = "some"
    BY <2>1 DEF StdInv
  <2>3. QED
    BY <2>1, <2>2, StdErrInv
<1>8. CASE Flex!CloseOk
  <2>1. /\ GeneratorCloseOk /\ op = "close" /\ op' = "none" /\ frozen = <<>> /\ w' = "none"
        /\ UNCHANGED <<flex, frozen, slice, taken, failed>>
    BY <1>8, SameGenerator DEF Flex!CloseOk, Flex!flexVars
  <2>2. w = "some" /\ flex = <<>>
    BY <2>1 DEF StdInv, FlexOK
  <2>3. QED
    BY <2>1, <2>2, StdClosedInv
<1>9. CASE Flex!DropWriter
  <2>1. /\ op = "none" /\ op' = op /\ w = "some" /\ w' = "dropped"
        /\ UNCHANGED <<flex, frozen, slice, taken>>
        /\ \/ GeneratorCloseOk /\ UNCHANGED failed
           \/ GeneratorCloseErr /\ failed' = TRUE
    BY <1>9, SameGenerator DEF Flex!DropWriter, Flex!flexVars
  <2>2. CASE GeneratorCloseOk /\ UNCHANGED failed
    BY <2>1, <2>2, StdClosedInv
  <2>3. CASE GeneratorCloseErr /\ failed' = TRUE
    BY <2>1, <2>3, StdErrInv
  <2>4. QED
    BY <2>1, <2>2, <2>3
<1>10. QED
  BY <1>1, <1>2, <1>3, <1>4, <1>5, <1>6, <1>7, <1>8, <1>9 DEF Flex!StdNext, Flex!StdRuns

(* The generator and the FlexBuf hold the acknowledged bytes in order, and  *)
(* a closed writer holds none.                                              *)
THEOREM StdInvariant ==
  ASSUME Cap \in Nat \ {0}
  PROVE  Flex!StdSpec => []StdInv
<1>1. Flex!StdInit => StdInv
  BY StdInitInv
<1>2. StdInv /\ [Flex!StdNext]_(Flex!stdVars) => StdInv'
  BY StdStepInv
<1>3. QED
  BY <1>1, <1>2, PTL DEF Flex!StdSpec

(* StdWriter: whatever fails, and although flush ignores how much the       *)
(* generator took, no byte is written twice and none overtakes another.     *)
THEOREM StdInOrder ==
  ASSUME Cap \in Nat \ {0}
  PROVE  Flex!StdSpec => [](Flex!StdTypeOK /\ Flex!StdStagesInOrder)
<1>1. StdInv => Flex!StdTypeOK /\ Flex!StdStagesInOrder
  <2> SUFFICES ASSUME StdInv PROVE Flex!StdTypeOK /\ Flex!StdStagesInOrder
    OBVIOUS
  <2>1. Sorted(Flex!StdStages) /\ Flex!StdStages \in Seq(Nat)
    BY StdStagesType DEF StdInv, Line
  <2>2. Increasing(Flex!StdStages)
    BY <2>1, SortedIsIncreasing
  <2>3. Flex!StdStagesInOrder
    BY <2>2, SameGenerator DEF Flex!StdStagesInOrder
  <2>4. Flex!StdTypeOK
    BY DEF StdInv, FlexOK, Flex!StdTypeOK
  <2>5. QED
    BY <2>3, <2>4
<1>2. QED
  BY <1>1, StdInvariant, PTL

(* StdWriter without a chunk of the user's: what write acknowledged is kept *)
(* until a call fails, and close has then stored all of it.  The hypothesis *)
(* is needed: with exact chunks flush drops what the generator left.        *)
THEOREM StdKeeps ==
  ASSUME Cap \in Nat \ {0}, ~Exact
  PROVE  Flex!StdSpec => [](Flex!StdAcknowledgedIsKept /\ Flex!CloseStoresAll)
<1>1. StdInv => Flex!StdAcknowledgedIsKept /\ Flex!CloseStoresAll
  <2> SUFFICES ASSUME StdInv PROVE Flex!StdAcknowledgedIsKept /\ Flex!CloseStoresAll
    OBVIOUS
  <2>1. (~failed /\ w # "dropped") => Flex!StdStages = taken
    BY DEF StdInv, Line, StdKept
  <2>2. w = "none" => Flex!StdStages = committed
    <3>1. committed \in Seq(Nat) /\ committed \o <<>> = committed
      BY ConcatEmptySeq DEF StdInv, GeneratorOK
    <3>2. QED
      BY <3>1 DEF StdInv, Flex!StdStages
  <2>3. QED
    BY <2>1, <2>2 DEF Flex!StdAcknowledgedIsKept, Flex!CloseStoresAll
<1>2. QED
  BY <1>1, StdInvariant, PTL
=============================================================================
