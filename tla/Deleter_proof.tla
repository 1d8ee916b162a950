---------------------------- MODULE Deleter_proof ----------------------------
(***************************************************************************)
(* The count Deleter keeps and the buffer BatchDeleter keeps, for every set *)
(* of paths and every delete_max_size: unless a batch may hold a version,   *)
(* the count never wraps round, a batch never exceeds the limit, and a      *)
(* close that returns Ok has deleted every path; with versions too, no      *)
(* requested path is lost (but see Aliased).  Then the same for the sink    *)
(* made from a deleter: whatever the order of its calls, nothing fed is     *)
(* lost.                                                                    *)
(***************************************************************************)
EXTENDS DeleteSink, FiniteSetTheorems, TLAPS

(* Only a path whose delete returned Ok is ever in the buffer.              *)
BufferInv == buffer \subseteq requested

(* A service without delete_with_version never promised to delete one.      *)
RefusedInv == service = "gcs" => \A p \in requested : Bare(p) = p

IInv ==
  /\ TypeOK
  /\ WithinLimit
  /\ NothingForgotten
  /\ BufferInv
  /\ RefusedInv

-----------------------------------------------------------------------------
(* There are finitely many paths, and a path without its version is one.    *)
LEMMA PathFacts ==
  /\ IsFiniteSet(Path)
  /\ \A p \in Path : Bare(p) \in Path /\ Bare(Bare(p)) = Bare(p)
<1>1. IsFiniteSet(Versioned)
  BY PathAssumption, FS_Subset
<1>2. IsFiniteSet(Key \X {None}) /\ IsFiniteSet(Versioned \X Version)
  BY <1>1, PathAssumption, FS_Product, FS_Singleton
<1>3. IsFiniteSet(Path)
  BY <1>2, FS_Union DEF Path
<1>4. \A p \in Path : Bare(p) \in Path /\ Bare(Bare(p)) = Bare(p)
  BY PathAssumption DEF Path, Bare
<1>5. QED
  BY <1>3, <1>4

(* The buffer is finite, so that its cardinality is a number.               *)
LEMMA BufferFinite ==
  ASSUME NEW B \in SUBSET Path
  PROVE  /\ IsFiniteSet(B)
         /\ Cardinality(B) \in Nat
         /\ Cardinality(B) = 0 <=> B = {}
<1>1. IsFiniteSet(B)
  BY PathFacts, FS_Subset
<1>2. QED
  BY <1>1, FS_CardinalityType, FS_EmptySet

(* What the removal of the deleted paths S leaves in the buffer.            *)
LEMMA RemoveFacts ==
  ASSUME NEW B \in SUBSET Path, NEW S \in SUBSET B
  PROVE  /\ Cardinality(S) \in Nat
         /\ Cardinality(S) <= Cardinality(B)
         /\ Cardinality(B \ S) = Cardinality(B) - Cardinality(S)
         /\ S # {} => Cardinality(S) > 0
         /\ B \ S \in SUBSET Path
<1>1. /\ IsFiniteSet(B) /\ Cardinality(B) \in Nat
      /\ IsFiniteSet(S) /\ Cardinality(S) \in Nat /\ (Cardinality(S) = 0 <=> S = {})
  BY BufferFinite
<1>2. Cardinality(S) <= Cardinality(B)
  BY <1>1, FS_Subset
<1>3. Cardinality(B \ S) = Cardinality(B) - Cardinality(B \cap S)
  BY <1>1, FS_Difference
<1>4. B \cap S = S /\ B \ S \in SUBSET Path
  OBVIOUS
<1>5. Cardinality(B \ S) = Cardinality(B) - Cardinality(S)
  BY <1>3, <1>4
<1>6. S # {} => Cardinality(S) > 0
  BY <1>1
<1>7. QED
  BY <1>1, <1>2, <1>4, <1>5, <1>6

(* What queueing a path does to the buffer: it grows by one at most, and is *)
(* not empty.                                                               *)
LEMMA InsertFacts ==
  ASSUME NEW B \in SUBSET Path, NEW p \in Path
  PROVE  /\ Cardinality(B \cup {p}) \in Nat
         /\ Cardinality(B \cup {p}) <= Cardinality(B) + 1
         /\ Cardinality(B \cup {p}) > 0
<1>1. IsFiniteSet(B) /\ Cardinality(B) \in Nat
  BY BufferFinite
<1>2. /\ Cardinality(B \cup {p}) \in Nat
      /\ Cardinality(B \cup {p}) = 0 <=> B \cup {p} = {}
  BY BufferFinite
<1>3. Cardinality(B \cup {p}) = IF p \in B THEN Cardinality(B) ELSE Cardinality(B) + 1
  BY <1>1, FS_AddElement
<1>4. B \cup {p} # {}
  OBVIOUS
<1>5. QED
  BY <1>1, <1>2, <1>3, <1>4

(* The limit is positive, and a deleter is full just below or at it.        *)
LEMMA LimitFacts ==
  /\ Limit \in Nat /\ Limit > 0 /\ Limit < Word
  /\ MaxSize <= Limit
  /\ MaxSize > 0 => MaxSize = Limit
  BY MaxSizeAssumption, WordAssumption DEF Limit

-----------------------------------------------------------------------------
(* Where the deleter is exact, what flush reports, what it deletes and what *)
(* it counts are the same paths.                                            *)
LEMMA ExactFacts ==
  ASSUME IInv, Exact, NEW S \in SUBSET buffer
  PROVE  /\ Reported(S) = S
         /\ Deleted(S) = S
         /\ Counted(S) = Cardinality(S)
<1> USE DEF IInv
<1>1. buffer \in SUBSET Path /\ cur_size \in Nat /\ Cardinality(buffer) \in Nat
  BY BufferFinite, WordAssumption DEF TypeOK
<1>2. Reported(S) = S
  <2>1. CASE \A p \in requested : Bare(p) = p
    <3>1. \A p \in S : Bare(p) = p
      BY <2>1 DEF BufferInv
    <3>2. {Bare(p) : p \in S} = S
      BY <3>1
    <3>3. QED
      BY <3>2 DEF Reported
  <2>2. CASE Limit = 1
    <3>1. Cardinality(buffer) = 0 \/ Cardinality(buffer) = 1
      BY <1>1, <2>2 DEF WithinLimit
    <3>2. CASE Cardinality(buffer) = 0
      <4>1. S = {}
        BY <1>1, <3>2, BufferFinite
      <4>2. {Bare(p) : p \in S} = S
        BY <4>1
      <4>3. QED
        BY <4>2 DEF Reported
    <3>3. QED
      BY <3>1, <3>2 DEF Reported
  <2>3. QED
    BY <2>1, <2>2 DEF Exact
<1>3. QED
  BY <1>2 DEF Deleted, Counted

(* A deleter that is exact after a step was exact before it.                *)
LEMMA ExactBefore ==
  ASSUME requested \subseteq requested', Exact'
  PROVE  Exact
  BY DEF Exact, Limit

(* What flush takes out of the buffer are paths, and is deleted or Aliased. *)
LEMMA ReportedFacts ==
  ASSUME IInv, NEW S \in SUBSET buffer, NEW p \in requested,
         p \in Reported(S), p \notin Deleted(S)
  PROVE  Aliased(p)
<1> USE DEF IInv
<1>1. service # "oss" /\ Deleted(S) = S
  BY DEF Deleted
<1>2. ~Exact
  BY ExactFacts
<1>3. PICK q \in S : p = Bare(q)
  BY <1>1 DEF Reported
<1>4. q \in requested /\ q # p
  BY <1>1, <1>3 DEF BufferInv
<1>5. service = "s3"
  BY <1>1, <1>3, <1>4 DEF RefusedInv, TypeOK
<1>6. QED
  BY <1>2, <1>3, <1>4, <1>5 DEF Aliased

(* A path that is Aliased stays so.                                         *)
LEMMA AliasedStays ==
  ASSUME NEW p, Aliased(p), UNCHANGED service, requested \subseteq requested'
  PROVE  Aliased(p)'
<1>1. ~Exact'
  BY ExactBefore DEF Aliased
<1>2. QED
  BY <1>1 DEF Aliased

(* A flush that takes S as deleted forgets no path and invents none.        *)
LEMMA FlushKeeps ==
  ASSUME IInv, NEW S \in SUBSET buffer, UNCHANGED <<service, requested>>,
         objects' = objects \ Deleted(S),
         buffer' = buffer \/ buffer' = buffer \ Reported(S)
  PROVE  NothingForgotten' /\ BufferInv' /\ RefusedInv'
<1> USE DEF IInv
<1>1. BufferInv' /\ RefusedInv'
  BY DEF BufferInv, RefusedInv, Bare
<1>2. SUFFICES ASSUME NEW p \in requested, p \notin buffer', p \in objects'
               PROVE  Aliased(p)'
  BY <1>1 DEF NothingForgotten
<1>3. p \in buffer \/ Aliased(p)
  BY <1>2 DEF NothingForgotten
<1>4. CASE p \in buffer
  <2>1. p \in Reported(S) /\ p \notin Deleted(S)
    BY <1>2, <1>4
  <2>2. Aliased(p)
    BY <2>1, ReportedFacts
  <2>3. QED
    BY <2>2, AliasedStays
<1>5. QED
  BY <1>3, <1>4, AliasedStays

(* The count stays a usize whatever a flush reports.                        *)
LEMMA MinusFacts ==
  ASSUME IInv, NEW S \in SUBSET buffer
  PROVE  /\ Minus(Counted(S)) \in 0 .. (Word - 1)
         /\ Plus1(Minus(Counted(S))) \in 0 .. (Word - 1)
         /\ Plus1(cur_size) \in 0 .. (Word - 1)
<1> USE DEF IInv
<1>1. Deleted(S) \in SUBSET Path
  BY PathFacts DEF Deleted, Reported, TypeOK
<1>2. Counted(S) \in Nat /\ Counted(S) <= Cardinality(Path) /\ Cardinality(Path) \in Nat
  BY <1>1, PathFacts, FS_Subset, FS_CardinalityType DEF Counted
<1>3. cur_size \in Nat /\ cur_size < Word /\ Word \in Nat /\ Cardinality(Path) < Word
  BY WordAssumption DEF TypeOK
<1>4. Minus(Counted(S)) \in Nat /\ Minus(Counted(S)) < Word
  BY <1>2, <1>3 DEF Minus
<1>5. QED
  BY <1>3, <1>4 DEF Plus1

-----------------------------------------------------------------------------
(* A flush that fails loses no path and keeps the count ahead of the        *)
(* buffer.                                                                  *)
LEMMA FlushErrInv ==
  ASSUME IInv, FlushErr, UNCHANGED <<service, cur_size, path, requested>>,
         pc' \in {"idle", "delete", "flush", "close"}, ret' \in {"ok", "err"}
  PROVE  IInv'
<1> USE DEF IInv
<1>1. PICK S \in SUBSET buffer : /\ objects' = objects \ Deleted(S)
                                 /\ \/ buffer' = buffer
                                    \/ ~Whole(S) /\ buffer' = buffer \ Reported(S)
  BY DEF FlushErr, FlushFails, FlushFailsInPart
<1>2. NothingForgotten' /\ BufferInv' /\ RefusedInv'
  BY <1>1, FlushKeeps
<1>3. TypeOK'
  BY <1>1 DEF TypeOK
<1>4. WithinLimit'
  <2>1. SUFFICES ASSUME Exact' PROVE WithinLimit'
    BY DEF WithinLimit
  <2>2. Exact
    BY <2>1, ExactBefore
  <2>3. buffer \in SUBSET Path /\ cur_size \in Nat /\ Cardinality(buffer) \in Nat
    BY BufferFinite, WordAssumption DEF TypeOK
  <2>4. CASE buffer' = buffer
    BY <2>2, <2>4 DEF WithinLimit, Limit
  <2>5. CASE ~Whole(S) /\ buffer' = buffer \ Reported(S)
    <3>1. Reported(S) = S /\ Deleted(S) = S /\ Deleted(buffer) = buffer
      BY <2>2, ExactFacts
    <3>2. buffer' # {} /\ buffer' \in SUBSET Path /\ buffer' = buffer \ S
      BY <1>1, <2>3, <2>5, <3>1 DEF Whole
    <3>3. /\ Cardinality(S) \in Nat
          /\ Cardinality(buffer') = Cardinality(buffer) - Cardinality(S)
      BY <1>1, <2>3, <3>2, RemoveFacts
    <3>4. Cardinality(buffer') \in Nat /\ Cardinality(buffer') # 0
      BY <3>2, BufferFinite
    <3>5. QED
      BY <2>2, <2>3, <3>3, <3>4, LimitFacts DEF WithinLimit, Limit
  <2>6. QED
    BY <1>1, <2>4, <2>5
<1>5. QED
  BY <1>2, <1>3, <1>4

(* A flush that succeeds lowers the count by as many paths as it removes.   *)
LEMMA FlushedInv ==
  ASSUME IInv, Flushed, UNCHANGED <<service, path, requested>>,
         pc' \in {"idle", "delete", "flush", "close"}, ret' \in {"ok", "err"}
  PROVE  IInv'
<1> USE DEF IInv
<1>1. PICK S \in SUBSET buffer : /\ objects' = objects \ Deleted(S)
                                 /\ buffer' = buffer \ Reported(S)
                                 /\ cur_size' = Minus(Counted(S))
  BY DEF Flushed, FlushOk
<1>2. NothingForgotten' /\ BufferInv' /\ RefusedInv'
  BY <1>1, FlushKeeps
<1>3. TypeOK'
  BY <1>1, MinusFacts DEF TypeOK
<1>4. WithinLimit'
  <2>1. SUFFICES ASSUME Exact' PROVE WithinLimit'
    BY DEF WithinLimit
  <2>2. Exact
    BY <2>1, ExactBefore
  <2>3. buffer \in SUBSET Path /\ cur_size \in Nat /\ Cardinality(buffer) \in Nat
    BY BufferFinite, WordAssumption DEF TypeOK
  <2>4. Reported(S) = S /\ Counted(S) = Cardinality(S)
    BY <2>2, ExactFacts
  <2>5. /\ Cardinality(S) \in Nat
        /\ Cardinality(S) <= Cardinality(buffer)
        /\ Cardinality(buffer') = Cardinality(buffer) - Cardinality(S)
    BY <1>1, <2>3, <2>4, RemoveFacts
  <2>6. cur_size' = cur_size - Cardinality(S)
    BY <1>1, <2>2, <2>3, <2>4, <2>5, LimitFacts DEF WithinLimit, Minus
  <2>7. QED
    BY <2>2, <2>3, <2>5, <2>6, LimitFacts DEF WithinLimit, Limit
<1>5. QED
  BY <1>2, <1>3, <1>4

(* A path that is queued is promised, in the buffer, and not refused.       *)
LEMMA QueuedKeeps ==
  ASSUME IInv, NothingForgotten', ~Refused(path), UNCHANGED <<service, path>>,
         NEW B \in SUBSET requested, buffer' = B \cup {path},
         requested' = requested \cup {path}
  PROVE  BufferInv' /\ RefusedInv'
  BY DEF IInv, BufferInv, RefusedInv, Refused, Bare

(* A path is queued below the limit.                                        *)
LEMMA DeleteQueuesInv ==
  ASSUME IInv, DeleteQueues
  PROVE  IInv'
<1> USE DEF IInv, DeleteQueues
<1>1. buffer \in SUBSET Path /\ path \in Path /\ cur_size \in Nat /\ {} \in SUBSET buffer
  BY WordAssumption DEF TypeOK
<1>2. NothingForgotten'
  BY AliasedStays DEF NothingForgotten
<1>3. BufferInv' /\ RefusedInv'
  BY <1>2, QueuedKeeps DEF BufferInv
<1>4. TypeOK'
  BY <1>1, MinusFacts DEF TypeOK
<1>5. WithinLimit'
  <2>1. SUFFICES ASSUME Exact' PROVE WithinLimit'
    BY DEF WithinLimit
  <2>2. Exact
    BY <2>1, ExactBefore
  <2>3. /\ Cardinality(buffer) \in Nat
        /\ Cardinality(buffer') \in Nat
        /\ Cardinality(buffer') <= Cardinality(buffer) + 1
        /\ Cardinality(buffer') > 0
    BY <1>1, BufferFinite, InsertFacts
  <2>4. cur_size + 1 <= Limit
    BY <1>1, LimitFacts, MaxSizeAssumption DEF Full
  <2>5. cur_size + 1 < Word => cur_size' = cur_size + 1
    BY <1>1 DEF Plus1
  <2>6. cur_size + 1 < Word
    BY <1>1, <2>4, LimitFacts, WordAssumption
  <2>7. cur_size' = cur_size + 1
    BY <2>5, <2>6
  <2>8. Cardinality(buffer) <= cur_size /\ cur_size - Cardinality(buffer) < Limit
    BY <2>2 DEF WithinLimit
  <2>9. /\ Cardinality(buffer') <= cur_size' /\ cur_size' <= Limit
        /\ cur_size' - Cardinality(buffer') < Limit
    <3> HIDE DEF DeleteQueues, IInv
    <3>1. QED
      BY <1>1, <2>3, <2>4, <2>7, <2>8, LimitFacts
  <2>10. QED
    BY <2>9 DEF WithinLimit, Limit
<1>6. QED
  BY <1>2, <1>3, <1>4, <1>5

(* A full deleter has something to flush: the flush makes room.             *)
LEMMA DeleteFlushesInv ==
  ASSUME IInv, DeleteFlushes
  PROVE  IInv'
<1> USE DEF IInv, DeleteFlushes
<1>1. PICK S \in SUBSET buffer : /\ FlushOk(S)
                                 /\ buffer' = (buffer \ Reported(S)) \cup {path}
                                 /\ cur_size' = Plus1(Minus(Counted(S)))
  OBVIOUS
<1>2. buffer \in SUBSET Path /\ path \in Path /\ cur_size \in Nat
  BY WordAssumption DEF TypeOK
<1>3. NothingForgotten'
  <2>1. SUFFICES ASSUME NEW p \in requested', p \notin buffer', p \in objects'
                 PROVE  Aliased(p)'
    BY DEF NothingForgotten
  <2>2. p \in requested
    BY <1>1, <2>1
  <2>3. Aliased(p)
    BY <1>1, <2>1, <2>2, ReportedFacts DEF NothingForgotten, FlushOk
  <2>4. QED
    BY <2>3, AliasedStays
<1>4. BufferInv' /\ RefusedInv'
  BY <1>1, <1>3, QueuedKeeps DEF BufferInv
<1>5. TypeOK'
  BY <1>1, <1>2, MinusFacts DEF TypeOK, FlushOk
<1>6. WithinLimit'
  <2>1. SUFFICES ASSUME Exact' PROVE WithinLimit'
    BY DEF WithinLimit
  <2>2. Exact
    BY <2>1, ExactBefore
  <2>3. Reported(S) = S /\ Counted(S) = Cardinality(S)
    BY <2>2, ExactFacts
  <2>4. Cardinality(buffer) \in Nat /\ (Cardinality(buffer) = 0 <=> buffer = {})
    BY <1>2, BufferFinite
  <2>5. /\ Cardinality(S) \in Nat
        /\ Cardinality(S) <= Cardinality(buffer)
        /\ Cardinality(buffer \ S) = Cardinality(buffer) - Cardinality(S)
        /\ S # {} => Cardinality(S) > 0
        /\ buffer \ S \in SUBSET Path
    BY <1>2, RemoveFacts
  <2>6. /\ Cardinality(buffer') \in Nat
        /\ Cardinality(buffer') <= Cardinality(buffer \ S) + 1
        /\ Cardinality(buffer') > 0
    BY <1>1, <1>2, <2>3, <2>5, InsertFacts
  <2>7. cur_size - Cardinality(S) + 1 <= Limit
    <3>1. CASE buffer = {}
      <4>1. cur_size < Limit
        BY <1>2, <2>2, <2>4, <3>1 DEF WithinLimit
      <4>2. QED
        BY <1>2, <2>5, <4>1, LimitFacts
    <3>2. CASE buffer # {}
      <4>1. Cardinality(S) > 0
        BY <1>1, <2>5, <3>2 DEF FlushOk
      <4>2. QED
        BY <1>2, <2>2, <2>5, <4>1, LimitFacts DEF WithinLimit
    <3>3. QED
      BY <3>1, <3>2
  <2>8. Minus(Counted(S)) = cur_size - Cardinality(S)
    BY <1>2, <2>2, <2>3, <2>4, <2>5, LimitFacts DEF WithinLimit, Minus
  <2>9. cur_size' = cur_size - Cardinality(S) + 1
    <3>1. cur_size - Cardinality(S) + 1 < Word
      BY <1>2, <2>5, <2>7, LimitFacts, WordAssumption
    <3>2. QED
      BY <1>1, <2>8, <3>1 DEF Plus1
  <2>10. QED
    BY <1>2, <2>2, <2>4, <2>5, <2>6, <2>7, <2>9, LimitFacts DEF WithinLimit, Limit
<1>7. QED
  BY <1>3, <1>4, <1>5, <1>6

(* Nothing is queued, counted or promised when the deleter is made.         *)
LEMMA InitInv ==
  ASSUME Init
  PROVE  IInv
<1>1. Cardinality(buffer) = 0
  BY FS_EmptySet DEF Init
<1>2. WithinLimit
  BY <1>1, LimitFacts DEF Init, WithinLimit
<1>3. TypeOK
  BY WordAssumption DEF Init, TypeOK
<1>4. QED
  BY <1>2, <1>3 DEF Init, IInv, NothingForgotten, BufferInv, RefusedInv

(* Every step preserves the invariant.                                      *)
LEMMA StepInv ==
  ASSUME IInv, [Next]_vars
  PROVE  IInv'
<1>1. CASE UNCHANGED <<service, buffer, cur_size, objects, requested>>
           /\ path' \in Path /\ ret' \in {"ok", "err"}
           /\ pc' \in {"idle", "delete", "flush", "close"}
  BY <1>1 DEF IInv, TypeOK, WithinLimit, NothingForgotten, BufferInv, RefusedInv, Exact, Limit,
     Aliased, Bare
<1>2. CASE \/ \E p \in Path : CallDelete(p)
           \/ CallFlush \/ CallClose
           \/ UNCHANGED vars
  BY <1>1, <1>2 DEF CallDelete, CallFlush, CallClose, vars, IInv, TypeOK
<1>3. CASE DeleteQueues
  BY <1>3, DeleteQueuesInv
<1>4. CASE DeleteFlushes
  BY <1>4, DeleteFlushesInv
<1>5. CASE DeleteErr \/ FlushOrCloseErr
  BY <1>5, FlushErrInv DEF DeleteErr, FlushOrCloseErr
<1>6. CASE FlushReturns
  BY <1>6, FlushedInv DEF FlushReturns
<1>7. CASE CloseFlushes
  BY <1>7, FlushedInv DEF CloseFlushes, IInv, TypeOK
<1>8. CASE DeleteRefused
  <2>1. CASE Full
    BY <1>8, <2>1, FlushedInv DEF DeleteRefused
  <2>2. CASE ~Full
    BY <1>1, <1>8, <2>2 DEF DeleteRefused, IInv, TypeOK
  <2>3. QED
    BY <2>1, <2>2
<1>9. QED
  BY <1>2, <1>3, <1>4, <1>5, <1>6, <1>7, <1>8 DEF Next, DeleterRuns

-----------------------------------------------------------------------------
(* The inductive invariant holds in every reachable state.                  *)
THEOREM Invariant == Spec => []IInv
<1>1. Init => IInv
  BY InitInv
<1>2. IInv /\ [Next]_vars => IInv'
  BY StepInv
<1>3. QED
  BY <1>1, <1>2, PTL DEF Spec

(* Every variable has its type.                                             *)
THEOREM TypeCorrect == Spec => []TypeOK
<1>1. IInv => TypeOK
  BY DEF IInv
<1>2. QED
  BY <1>1, Invariant, PTL

(* No flush reports more than was counted, unless a batch may hold a        *)
(* version: the subtraction from cur_size, a usize, never wraps round.      *)
THEOREM CountNeverWraps == Spec => []NeverUnderflows
<1>1. IInv => NeverUnderflows
  <2>1. SUFFICES ASSUME IInv, Exact, NEW S \in SUBSET buffer
                 PROVE  Counted(S) <= cur_size
    BY DEF NeverUnderflows
  <2>2. buffer \in SUBSET Path /\ cur_size \in Nat /\ Cardinality(buffer) \in Nat
    BY <2>1, BufferFinite, WordAssumption DEF IInv, TypeOK
  <2>3. Cardinality(S) \in Nat /\ Cardinality(S) <= Cardinality(buffer)
    BY <2>1, <2>2, RemoveFacts
  <2>4. Counted(S) = Cardinality(S)
    BY <2>1, ExactFacts
  <2>5. QED
    BY <2>1, <2>2, <2>3, <2>4 DEF IInv, WithinLimit
<1>2. QED
  BY <1>1, Invariant, PTL

(* A batch never exceeds what the service accepts in one request, unless it *)
(* may hold a version.                                                      *)
THEOREM LimitKept == Spec => []WithinLimit
<1>1. IInv => WithinLimit
  BY DEF IInv
<1>2. QED
  BY <1>1, Invariant, PTL

(* A path whose delete returned Ok stays queued until it is gone, versions  *)
(* included; on s3 the key of a deleted version is excepted.                *)
THEOREM RequestsKept == Spec => []NothingForgotten
<1>1. IInv => NothingForgotten
  BY DEF IInv
<1>2. QED
  BY <1>1, Invariant, PTL

(* A path disappears only if its delete has returned Ok, unless it is the   *)
(* key of a version in a batch of oss.                                      *)
THEOREM OnlyRequested == Spec => OnlyRequestedDeleted
<1>1. IInv /\ [Next]_vars =>
        [Exact \/ service # "oss" => objects \ objects' \subseteq requested]_vars
  <2>1. SUFFICES ASSUME IInv, Next, Exact \/ service # "oss"
                 PROVE  objects \ objects' \subseteq requested
    OBVIOUS
  <2>2. CASE UNCHANGED objects
    BY <2>2
  <2>3. CASE \E S \in SUBSET buffer : objects' = objects \ Deleted(S)
    <3>1. PICK S \in SUBSET buffer : objects' = objects \ Deleted(S)
      BY <2>3
    <3>2. Deleted(S) = S
      BY <2>1, ExactFacts DEF Deleted
    <3>3. QED
      BY <2>1, <3>1, <3>2 DEF IInv, BufferInv
  <2>4. QED
    BY <2>1, <2>2, <2>3 DEF Next, DeleterRuns, CallDelete, CallFlush, CallClose,
       DeleteQueues, DeleteFlushes, DeleteErr, DeleteRefused, FlushReturns, CloseFlushes,
       Flushed, FlushOrCloseErr, FlushErr, FlushFails, FlushFailsInPart, FlushOk
<1>2. QED
  BY <1>1, Invariant, PTL DEF Spec, OnlyRequestedDeleted

(* close returns Ok only when every requested path is deleted: the count is *)
(* 0, so is the buffer it is ahead of, and nothing was forgotten.  A batch  *)
(* that may hold a version is excepted.                                     *)
THEOREM CloseIsComplete == Spec => CloseDeletesAll
<1>1. IInv /\ IInv' /\ [Next]_vars =>
        [(Exact /\ pc = "close" /\ pc' = "idle" /\ ret' = "ok")
           => requested \cap objects' = {}]_vars
  <2>1. SUFFICES ASSUME IInv, IInv', Next, Exact, pc = "close", pc' = "idle", ret' = "ok"
                 PROVE  requested \cap objects' = {}
    OBVIOUS
  <2>2. cur_size' = 0 /\ UNCHANGED requested
    BY <2>1 DEF Next, DeleterRuns, CallDelete, CallFlush, CallClose, DeleteQueues,
       DeleteFlushes, DeleteErr, DeleteRefused, FlushReturns, CloseFlushes, FlushOrCloseErr
  <2>3. Cardinality(buffer') \in Nat /\ (Cardinality(buffer') = 0 <=> buffer' = {})
    BY <2>1, BufferFinite DEF IInv, TypeOK
  <2>4. Exact'
    BY <2>1, <2>2 DEF Exact, Limit, Bare
  <2>5. buffer' = {}
    BY <2>1, <2>2, <2>3, <2>4 DEF IInv, WithinLimit
  <2>6. QED
    BY <2>1, <2>2, <2>4, <2>5 DEF IInv, NothingForgotten, Aliased
<1>2. QED
  BY <1>1, Invariant, PTL DEF Spec, CloseDeletesAll

-----------------------------------------------------------------------------
(* FuturesDeleteSink.  Its state is the call the deleter is in, and what    *)
(* it accepted and has not reported as failed is what the deleter promised, *)
(* or the argument of the delete whose future it holds.                     *)
SinkInv ==
  /\ IInv
  /\ sink = pc \/ (NoSink /\ op = "none" /\ fed = {})
  /\ \A p \in fed : p \in requested \/ (sink = "delete" /\ path = p)

(* A new sink holds no future.                                              *)
LEMMA SinkInitInv ==
  ASSUME SinkInit
  PROVE  SinkInv
  BY InitInv DEF SinkInit, SinkInv, NoSink, Init

(* The steps of the deleter, with or without a sink, are its own.           *)
LEMMA UserStepIsNext ==
  ASSUME SinkInv, [UserNext]_allVars
  PROVE  [Next]_vars
<1>1. CASE ~NoSink /\ SinkNext
  BY <1>1 DEF SinkInv, SinkNext, SinkCall, PollFuture, StartSend, FlushIdle, CloseIdle,
     SinkCallDropped, Next
<1>2. QED
  BY <1>1 DEF UserNext, allVars

(* What polling the deleter does to pc, path and what was promised.         *)
LEMMA DeleterRunsFacts ==
  ASSUME DeleterRuns
  PROVE  /\ UNCHANGED path
         /\ pc' # "idle" => pc' = pc /\ pc # "delete" /\ UNCHANGED requested
         /\ requested \subseteq requested'
         /\ pc = "delete" /\ ret' # "err" => path \in requested'
         /\ pc # "delete" => UNCHANGED requested
<1> USE DEF DeleterRuns
<1>1. CASE DeleteQueues \/ DeleteFlushes
  BY <1>1 DEF DeleteQueues, DeleteFlushes
<1>2. CASE DeleteErr \/ DeleteRefused \/ FlushReturns \/ FlushOrCloseErr
  BY <1>2 DEF DeleteErr, DeleteRefused, FlushReturns, FlushOrCloseErr
<1>3. CASE CloseFlushes
  BY <1>3 DEF CloseFlushes
<1>4. QED
  BY <1>1, <1>2, <1>3

(* Every call of the sink, every poll and every dropped call preserves it.  *)
LEMMA UserStepInv ==
  ASSUME SinkInv, [UserNext]_allVars
  PROVE  SinkInv'
<1>1. IInv'
  BY UserStepIsNext, StepInv DEF SinkInv
<1> USE DEF NoSink
<1>2. CASE PollFuture
  <2>1. DeleterRuns
    BY <1>2 DEF PollFuture
  <2>2. CASE pc' = "idle"
    <3>1. sink' = "idle"
          /\ fed' = IF sink = "delete" /\ ret' = "err"
                      THEN (fed \ {path}) \cup requested ELSE fed
      BY <1>2, <2>2 DEF PollFuture
    <3>2. \A p \in fed' : p \in requested'
      BY <2>1, <3>1, DeleterRunsFacts DEF SinkInv
    <3>3. QED
      BY <1>1, <2>1, <2>2, <3>1, <3>2 DEF SinkInv
  <2>3. CASE pc' # "idle"
    BY <1>1, <1>2, <2>1, <2>3, DeleterRunsFacts DEF SinkInv, PollFuture
  <2>4. QED
    BY <2>2, <2>3
<1>3. CASE \E p \in Path : StartSend(p)
  BY <1>1, <1>3 DEF StartSend, CallDelete, SinkInv
<1>4. CASE FlushIdle \/ CloseIdle
  BY <1>1, <1>4 DEF FlushIdle, CloseIdle, CallFlush, CallClose, SinkInv
<1>5. CASE \/ /\ ~NoSink
              /\ SinkCall("feed") \/ SinkCall("flush") \/ SinkCall("close")
           \/ SinkCallDropped \/ UNCHANGED allVars
  BY <1>1, <1>5 DEF SinkCall, SinkCallDropped, allVars, sinkVars, vars, SinkInv
<1>6. CASE NoSink /\ Next /\ UNCHANGED sinkVars
  <2>1. "none" \notin {"idle", "delete", "flush", "close"}
    OBVIOUS
  <2>2. QED
    BY <1>1, <1>6, <2>1 DEF SinkInv, sinkVars, IInv, TypeOK
<1>7. QED
  BY <1>2, <1>3, <1>4, <1>5, <1>6 DEF UserNext, SinkNext

(* The invariant of the sink holds in every reachable state.                *)
LEMMA SinkInvariant == UserSpec => []SinkInv
<1>1. SinkInit => SinkInv
  BY SinkInitInv
<1>2. SinkInv /\ [UserNext]_allVars => SinkInv'
  BY UserStepInv
<1>3. QED
  BY <1>1, <1>2, PTL DEF UserSpec

(* The deleter behind a sink behaves like a deleter its user calls: all     *)
(* that is proved of Spec holds of it.                                      *)
THEOREM SinkUsesTheDeleter == UserSpec => Spec
<1>1. SinkInit => Init
  BY DEF SinkInit
<1>2. SinkInv /\ [UserNext]_allVars => [Next]_vars
  BY UserStepIsNext
<1>3. QED
  BY <1>1, <1>2, SinkInvariant, PTL DEF UserSpec, Spec

(* No order of feed, flush, close and dropped calls loses a path that       *)
(* start_send accepted.                                                     *)
THEOREM FedKept == UserSpec => []FedIsNotForgotten
<1>1. SinkInv => FedIsNotForgotten
  BY DEF SinkInv, IInv, NothingForgotten, FedIsNotForgotten
<1>2. QED
  BY <1>1, SinkInvariant, PTL

(* A close that has run the future of Deleter::close and answers Ok has     *)
(* deleted every path that was fed, unless a batch may hold a version.      *)
THEOREM SecondCloseIsComplete == UserSpec => SecondCloseDeletesAll
<1>1. SinkInv /\ SinkInv' /\ [UserNext]_allVars =>
        [(Exact /\ op = "close" /\ sink = "close" /\ op' = "none" /\ answer' = "ok")
            => fed \cap objects' = {}]_allVars
  <2>1. SUFFICES ASSUME SinkInv, SinkInv', UserNext, Exact, op = "close", sink = "close",
                        op' = "none", answer' = "ok"
                 PROVE  fed \cap objects' = {}
    OBVIOUS
  <2>2. PollFuture
    BY <2>1 DEF UserNext, NoSink, SinkNext, SinkCall, StartSend, FlushIdle, CloseIdle,
       SinkCallDropped
  <2>3. pc' = "idle" /\ ret' = "ok" /\ CloseFlushes
    BY <2>1, <2>2 DEF PollFuture, SinkInv, NoSink, DeleterRuns, DeleteQueues, DeleteFlushes,
       DeleteErr, DeleteRefused, FlushReturns, FlushOrCloseErr, CloseFlushes
  <2>4. cur_size' = 0 /\ UNCHANGED requested
    BY <2>3, <2>1 DEF CloseFlushes
  <2>a. Exact'
    BY <2>1, <2>4 DEF Exact, Limit, Bare
  <2>5. Cardinality(buffer') \in Nat /\ (Cardinality(buffer') = 0 <=> buffer' = {})
    BY <2>1, BufferFinite DEF SinkInv, IInv, TypeOK
  <2>6. buffer' = {}
    BY <2>1, <2>4, <2>a, <2>5 DEF SinkInv, IInv, WithinLimit
  <2>7. fed \subseteq requested
    BY <2>1 DEF SinkInv
  <2>8. QED
    BY <2>1, <2>4, <2>a, <2>6, <2>7 DEF SinkInv, IInv, NothingForgotten, Aliased
<1>2. QED
  BY <1>1, SinkInvariant, PTL DEF UserSpec, SecondCloseDeletesAll
=============================================================================
