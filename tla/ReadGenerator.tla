--------------------------- MODULE ReadGenerator ----------------------------
(***************************************************************************)
(* ReadGenerator of core/src/types/context/read.rs: it cuts the range that  *)
(* is asked for into the ranges of the requests.  The content is 1, 2, ...  *)
(* This module has no specification of its own.                             *)
(***************************************************************************)
EXTENDS Integers, Sequences, FiniteSetsExt

CONSTANTS
  NoSize,     \* a size that is None
  Chunk       \* the option `chunk`

ChunkAssumption == NoSize \notin Int /\ Chunk \in (Nat \ {0}) \cup {NoSize}

VARIABLES
  offset,     \* of the next request
  size        \* what is left to be requested, or NoSize

generatorVars == <<offset, size>>

(* next_range, which moves on before the request is made.                   *)
NextRangeMutant(r) ==             \* the size is not cut to what is left
  /\ size # 0
  /\ r = [off |-> offset, size |-> IF Chunk = NoSize THEN size ELSE Chunk]
  /\ offset' = offset + Min({size, r.size})
  /\ size' = size - Min({size, r.size})

NextRange(r) ==
  /\ size # 0
  /\ r = [off |-> offset,
          size |-> IF size = NoSize \/ Chunk = NoSize THEN size ELSE Min({size, Chunk})]
  /\ IF size = NoSize THEN size' = 0 /\ UNCHANGED offset
     ELSE offset' = offset + r.size /\ size' = size - r.size

(* The ranges that a generator can make of at most n bytes.                 *)
RangesUpTo(n) == [off : 0..n, size : (1..n) \cup {NoSize}]

Bytes(off, n) == [i \in 1..n |-> off + i]
Increasing(s) == \A i \in 1..Len(s) - 1 : s[i] < s[i + 1]
=============================================================================
