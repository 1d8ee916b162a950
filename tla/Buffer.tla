------------------------------- MODULE Buffer -------------------------------
(***************************************************************************)
(* Buffer, a sequence of bytes in parts that are shared and never changed: *)
(* what is left of it is a part (idx), an offset in that part and a size.  *)
(* The calls of Buf, Iterator and of Buffer itself move these three, or    *)
(* read through them; `bytes` is the sequence a Buffer stands for.         *)
(***************************************************************************)
EXTENDS Naturals, Sequences, SequencesExt, FiniteSetsExt

CONSTANTS
    MaxBytes,    \* bound on the bytes of the buffer
    MaxParts,    \* bound on its parts
    EmptyParts   \* parts may be empty

BufferAssumption == MaxBytes \in Nat /\ MaxParts \in Nat /\ EmptyParts \in BOOLEAN

VARIABLES
    parts, size, idx, offset,  \* Inner::NonContiguous; idx counts from 0
    bytes,                     \* the bytes that are left
    copied, copying            \* the target of put, and whether it runs

vars == <<parts, size, idx, offset, bytes, copied, copying>>

Part == parts[idx + 1]
len == size
Take(s, n) == SubSeq(s, 1, n)
Drop(s, n) == SubSeq(s, n + 1, Len(s))
-----------------------------------------------------------------------------
(* Reading. *)

Front1(p, o, n) == SubSeq(p, o + 1, o + Min({Len(p) - o, n}))
chunkMutant == IF size = 0 THEN <<>> ELSE Drop(Part, offset)
chunk == IF size = 0 THEN <<>> ELSE Front1(Part, offset, size)
current == Front1(Part, offset, size)

\* The fold of count over the parts from idx on.
countMutant ==
    FoldLeft(LAMBDA a, p : IF a.size = 0 THEN a
                           ELSE [n |-> a.n + 1, size |-> IF Len(p) > a.size THEN 0 ELSE a.size - Len(p)],
             [n |-> 0, size |-> size], Drop(parts, idx)).n
count ==
    FoldLeft(LAMBDA a, p : IF a.size = 0 THEN a
                           ELSE [n |-> a.n + 1, size |-> IF Len(p) > a.size THEN 0 ELSE a.size - Len(p)],
             [n |-> 0, size |-> size + offset], Drop(parts, idx)).n

\* to_bytes of a single part.
to_bytes == SubSeq(parts[1], offset + 1, offset + size)

\* to_io_slice, and chunks_vectored with enough room: the parts from idx on.
to_io_slice ==
    [i \in 1..(Len(parts) - idx) |-> IF i = 1 THEN Drop(Part, offset) ELSE parts[idx + i]]
-----------------------------------------------------------------------------
(* Moving. *)

\* The loop of advance, from part i and offset o on.
advanceLoop(i, o, cnt) ==
    LET loop[j \in 0..Len(parts), p \in 0..MaxBytes, n \in 0..MaxBytes] ==
          IF n = 0 THEN [idx |-> j, offset |-> p]
          ELSE IF n < Len(parts[j + 1]) - p THEN [idx |-> j, offset |-> p + n]
          ELSE loop[j + 1, 0, n - (Len(parts[j + 1]) - p)]
    IN loop[i, o, cnt]
Advance(cnt) ==
    LET to == advanceLoop(idx, offset, cnt)
    IN idx' = to.idx /\ offset' = to.offset /\ size' = size - cnt

advance(cnt) ==
    /\ ~copying /\ cnt <= size
    /\ Advance(cnt)
    /\ bytes' = Drop(bytes, cnt)
    /\ UNCHANGED <<parts, copied, copying>>

truncate(n) ==
    /\ ~copying
    /\ size' = Min({size, n})
    /\ bytes' = Take(bytes, Min({Len(bytes), n}))
    /\ UNCHANGED <<parts, idx, offset, copied, copying>>

\* slice of a range that is not empty: truncate, then advance.
sliceMutant(begin, end) ==
    /\ ~copying /\ begin < end /\ end <= len
    /\ LET to == advanceLoop(idx, offset, begin)
       IN idx' = to.idx /\ offset' = to.offset /\ size' = Min({size - begin, end})
    /\ bytes' = SubSeq(bytes, begin + 1, end)
    /\ UNCHANGED <<parts, copied, copying>>
slice(begin, end) ==
    /\ ~copying /\ begin < end /\ end <= len
    /\ LET to == advanceLoop(idx, offset, begin)
       IN idx' = to.idx /\ offset' = to.offset /\ size' = Min({size, end}) - begin
    /\ bytes' = SubSeq(bytes, begin + 1, end)
    /\ UNCHANGED <<parts, copied, copying>>

\* Iterator::next, and Stream::poll_next.
next ==
    LET n == Min({Len(Part) - offset, size})
    IN /\ ~copying /\ size > 0
       /\ size' = size - n
       /\ IF offset + n = Len(Part) THEN idx' = idx + 1 /\ offset' = 0
          ELSE idx' = idx /\ offset' = offset + n
       /\ bytes' = Drop(bytes, n)
       /\ UNCHANGED <<parts, copied, copying>>

\* to_vec, and to_bytes of several parts: BufMut::put copies chunk after chunk
\* while there is something left.
to_vec == ~copying /\ copying' = TRUE /\ copied' = <<>> /\ UNCHANGED <<parts, size, idx, offset, bytes>>
putMutant ==
    /\ copying /\ size > 0
    /\ copied' = copied \o Drop(Part, offset)
    /\ idx' = idx + 1 /\ offset' = 0 /\ size' = size - Min({size, Len(Part) - offset})
    /\ UNCHANGED <<parts, bytes, copying>>
putStuckMutant == copying /\ size > 0 /\ copied' = chunk /\ UNCHANGED <<parts, size, idx, offset, bytes, copying>>
put ==
    /\ copying /\ size > 0
    /\ copied' = copied \o chunk
    /\ Advance(Len(chunk))
    /\ UNCHANGED <<parts, bytes, copying>>
-----------------------------------------------------------------------------
\* The bytes 1..n, cut into parts anywhere.
Splits(n, k) == {c \in [0..k -> 0..n] : c[0] = 0 /\ c[k] = n /\ \A i \in 1..k : c[i - 1] <= c[i]}
Init ==
    /\ \E n \in 0..MaxBytes, k \in 1..MaxParts : \E c \in Splits(n, k) :
         /\ EmptyParts \/ \A i \in 1..k : c[i - 1] < c[i]
         /\ parts = [i \in 1..k |-> [j \in 1..(c[i] - c[i - 1]) |-> c[i - 1] + j]]
         /\ bytes = [j \in 1..n |-> j]
         /\ size = n
    /\ idx = 0
    /\ offset = 0
    /\ copied = <<>>
    /\ copying = FALSE

Done == size = 0 /\ UNCHANGED vars
Next ==
    \/ \E n \in 0..MaxBytes : advance(n)
    \/ \E n \in 0..MaxBytes : truncate(n)
    \/ \E b \in 0..MaxBytes, e \in 0..MaxBytes : slice(b, e)
    \/ next
    \/ to_vec
    \/ put
    \/ Done

\* A copy runs to its end.
Spec == Init /\ [][Next]_vars /\ WF_vars(put)
-----------------------------------------------------------------------------
\* What a Buffer stands for: the parts from idx on, without what was consumed and
\* cut off.
Content == Take(Drop(FlattenSeq(Drop(parts, idx)), offset), size)

\* Whatever was advanced, cut, sliced, iterated: idx, offset and size denote the
\* bytes that are left, and the offset stays inside of its part.
StandsForBytes ==
    ~copying => /\ Content = bytes
                /\ size > 0 => offset < Len(Part) \/ (offset = 0 /\ EmptyParts)

\* chunk and current are the front of what is left, and chunk is not empty as long
\* as something is left: what Buf asks of chunk.
ChunkIsFront ==
    ~copying /\ size > 0 => /\ IsPrefix(chunk, bytes) /\ chunk # <<>>
                            /\ current = chunk

\* count is the number of Bytes that the iterator will give.
CountIsIteration ==
    ~copying /\ size > 0 =>
        count = Min({k \in 1..(Len(parts) - idx) :
                       Len(FlattenSeq(SubSeq(parts, idx + 1, idx + k))) >= size + offset})

\* A copy is what is left, whole.
CopyIsWhole == /\ copying /\ size = 0 => copied = bytes
               /\ ~copying /\ Len(parts) = 1 => to_bytes = bytes
\* A copy is going on.  "Combine all bytes together": it comes to an end.
Copying == copying /\ size > 0

\* The slices of a vectored write are the bytes that are left.
VectoredIsContent == ~copying /\ size > 0 => FlattenSeq(to_io_slice) = bytes
=============================================================================
