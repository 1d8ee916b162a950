------------------------------ MODULE Deleter ------------------------------
(***************************************************************************)
(* Deleter of core/src/types/delete/deleter.rs over BatchDeleter of         *)
(* core/src/raw/oio/delete/batch_delete.rs.  Deleter counts the calls of    *)
(* delete in cur_size and flushes when max_size is reached; BatchDeleter    *)
(* keeps the queued paths in a HashSet and reports how many a flush         *)
(* deleted.  The two must agree on the count for close to end.              *)
(*                                                                          *)
(* A path is a key with the version to delete, or None.  delete_batch of    *)
(* every service reports what it deleted without the version, and removing  *)
(* that from the buffer misses an entry that has one.  Exact tells apart    *)
(* the deleters that are spared this.                                       *)
(*                                                                          *)
(* OneShotDeleter, which holds one path in an Option, is the case           *)
(* MaxSize = 1: WithinLimit says that Deleter never gives it a second one.  *)
(* BlockingDeleter and BlockingOneShotDelete are the same code without the  *)
(* awaits.  The count is that of a release build, where it wraps round; a   *)
(* debug build panics instead.                                              *)
(*                                                                          *)
(* The definitions named ...Mutant are wrong on purpose: plausible mistakes *)
(* in the code, each of which a property must notice.                       *)
(***************************************************************************)
EXTENDS Integers, FiniteSets

CONSTANTS
  Key,        \* the paths
  Versioned,  \* those of which a version may be deleted
  Version,
  None,       \* no version: OpDelete::new()
  MaxSize,    \* capability delete_max_size, 1 if the service gives none
  Word        \* 2^64: cur_size is a usize

(* What delete is called with, and what the service keeps.                  *)
Path == (Key \X {None}) \cup (Versioned \X Version)

(* What a service reports of a path: no version.                            *)
Bare(p) == <<p[1], None>>

ASSUME PathAssumption ==
  /\ IsFiniteSet(Key) /\ IsFiniteSet(Version)
  /\ Versioned \subseteq Key
  /\ None \notin Version
ASSUME MaxSizeAssumption == MaxSize \in Nat
ASSUME WordAssumption ==
  /\ Word \in Nat
  /\ 1 < Word /\ MaxSize < Word /\ Cardinality(Path) < Word

VARIABLES
  service,    \* "s3", "oss", or one without delete_with_version: "gcs"
  buffer,     \* BatchDeleter: the queued paths
  cur_size,   \* Deleter: calls of delete not yet answered by a flush
  pc,         \* the call in progress: "idle", "delete", "flush" or "close"
  path,       \* the argument of delete
  ret,        \* the answer of the last call
  objects,    \* the paths that exist in the service
  requested   \* history: the paths whose delete returned Ok

vars == <<service, buffer, cur_size, pc, path, ret, objects, requested>>

Init ==
  /\ service \in {"s3", "oss", "gcs"}
  /\ buffer = {}
  /\ cur_size = 0
  /\ pc = "idle"
  /\ path \in Path
  /\ ret = "ok"
  /\ objects \in SUBSET Path
  /\ requested = {}

-----------------------------------------------------------------------------
(* BatchDeleter *)

(* What flush takes out of the buffer if S was deleted: the one path, which *)
(* delete_once deletes and clear removes, or what delete_batch reports.     *)
Reported(S) == IF Cardinality(buffer) = 1 THEN S ELSE {Bare(p) : p \in S}

(* What is deleted if the service answers so for S: a batch of oss names    *)
(* the keys alone.                                                          *)
Deleted(S) == IF service = "oss" THEN Reported(S) ELSE S

(* The number flush reports.  oss answers once for a key.                   *)
Counted(S) == Cardinality(Deleted(S))

(* Nothing of the batch failed.                                             *)
Whole(S) == Deleted(S) = Deleted(buffer)

(* flush deletes S and returns Ok(Counted(S)): nothing if the buffer is     *)
(* empty, the one path by delete_once, or what delete_batch reports as      *)
(* succeeded, which must not be empty; all the others failed temporarily    *)
(* and stay in the buffer.  No failure of oss is temporary.                 *)
FlushOk(S) ==
  /\ S \subseteq buffer
  /\ S = {} <=> buffer = {}
  /\ service = "oss" => Whole(S)
  /\ objects' = objects \ Deleted(S)

FlushFailsMutant ==     \* the buffer is emptied before the request
  /\ buffer # {}
  /\ \E S \in SUBSET buffer : objects' = objects \ Deleted(S)
  /\ buffer' = {}

(* flush fails as a whole, or is dropped while it waits.  Any of the paths  *)
(* may be gone all the same, but none leaves the buffer.                    *)
FlushFails ==
  /\ buffer # {}
  /\ \E S \in SUBSET buffer : objects' = objects \ Deleted(S)
  /\ UNCHANGED buffer

(* delete_batch deletes S, but the failure of another path is not           *)
(* temporary: flush removes what is reported from the buffer and returns    *)
(* that error.                                                              *)
FlushFailsInPart ==
  \E S \in SUBSET buffer :
    /\ S # {}
    /\ ~Whole(S)
    /\ buffer' = buffer \ Reported(S)
    /\ objects' = objects \ Deleted(S)

FlushErr == FlushFails \/ FlushFailsInPart

-----------------------------------------------------------------------------
(* delete(path) *)

(* cur_size -= n and cur_size += 1.                                         *)
Minus(n) == IF n <= cur_size THEN cur_size - n ELSE cur_size - n + Word
Plus1(n) == IF n + 1 < Word THEN n + 1 ELSE 0

(* CorrectnessCheckLayer refuses a version that the service cannot delete.  *)
Refused(p) == service = "gcs" /\ p # Bare(p)

CallDelete(p) ==
  /\ pc = "idle"
  /\ pc' = "delete"
  /\ path' = p
  /\ UNCHANGED <<service, buffer, cur_size, ret, objects, requested>>

FullMutant == cur_size > MaxSize
Full == cur_size >= MaxSize

DeleteQueues ==
  /\ pc = "delete"
  /\ ~Full
  /\ ~Refused(path)
  /\ buffer' = buffer \cup {path}
  /\ cur_size' = Plus1(cur_size)
  /\ requested' = requested \cup {path}
  /\ pc' = "idle"
  /\ ret' = "ok"
  /\ UNCHANGED <<service, path, objects>>

DeleteFlushes ==
  /\ pc = "delete"
  /\ Full
  /\ ~Refused(path)
  /\ \E S \in SUBSET buffer :
       /\ FlushOk(S)
       /\ buffer' = (buffer \ Reported(S)) \cup {path}
       /\ cur_size' = Plus1(Minus(Counted(S)))
  /\ requested' = requested \cup {path}
  /\ pc' = "idle"
  /\ ret' = "ok"
  /\ UNCHANGED <<service, path>>

DeleteErr ==
  /\ pc = "delete"
  /\ Full
  /\ FlushErr
  /\ pc' = "idle"
  /\ ret' = "err"
  /\ UNCHANGED <<service, cur_size, path, requested>>

-----------------------------------------------------------------------------
(* flush() and close(), which flushes until cur_size is 0. *)

CallFlush ==
  /\ pc = "idle"
  /\ pc' = "flush"
  /\ UNCHANGED <<service, buffer, cur_size, path, ret, objects, requested>>

CallClose ==
  /\ pc = "idle"
  /\ pc' = "close"
  /\ UNCHANGED <<service, buffer, cur_size, path, ret, objects, requested>>

FlushedMutant ==        \* cur_size is not decreased
  \E S \in SUBSET buffer :
    /\ FlushOk(S)
    /\ buffer' = buffer \ Reported(S)
    /\ UNCHANGED cur_size

Flushed ==
  \E S \in SUBSET buffer :
    /\ FlushOk(S)
    /\ buffer' = buffer \ Reported(S)
    /\ cur_size' = Minus(Counted(S))

(* delete(path) of a version that is refused: only after the flush, if the  *)
(* deleter is full.                                                         *)
DeleteRefused ==
  /\ pc = "delete"
  /\ Refused(path)
  /\ IF Full THEN Flushed ELSE UNCHANGED <<buffer, cur_size, objects>>
  /\ pc' = "idle"
  /\ ret' = "err"
  /\ UNCHANGED <<service, path, requested>>

FlushReturns ==
  /\ pc = "flush"
  /\ Flushed
  /\ pc' = "idle"
  /\ ret' = "ok"
  /\ UNCHANGED <<service, path, requested>>

CloseFlushesMutant ==   \* one flush is taken to be enough
  /\ pc = "close"
  /\ Flushed
  /\ pc' = "idle"
  /\ ret' = "ok"
  /\ UNCHANGED <<service, path, requested>>

CloseFlushes ==
  /\ pc = "close"
  /\ Flushed
  /\ IF cur_size' = 0 THEN pc' = "idle" /\ ret' = "ok" ELSE UNCHANGED <<pc, ret>>
  /\ UNCHANGED <<service, path, requested>>

FlushOrCloseErr ==
  /\ pc \in {"flush", "close"}
  /\ FlushErr
  /\ pc' = "idle"
  /\ ret' = "err"
  /\ UNCHANGED <<service, cur_size, path, requested>>

DeleterRuns ==
  \/ DeleteQueues
  \/ DeleteFlushes
  \/ DeleteErr
  \/ DeleteRefused
  \/ FlushReturns
  \/ CloseFlushes
  \/ FlushOrCloseErr

Next ==
  \/ \E p \in Path : CallDelete(p)
  \/ CallFlush
  \/ CallClose
  \/ DeleterRuns

(* The user polls the call it has made, and the service answers.            *)
Spec == Init /\ [][Next]_vars
FairSpec == Spec /\ WF_vars(DeleterRuns)

-----------------------------------------------------------------------------
(* The largest number of paths that may be queued: a max_size of 0, which   *)
(* the configuration of a service allows, works like 1.                     *)
Limit == IF MaxSize = 0 THEN 1 ELSE MaxSize

(* What flush reports is what leaves the buffer: no version was requested,  *)
(* or the limit keeps every flush to delete_once.                           *)
Exact == Limit = 1 \/ \A p \in requested : Bare(p) = p

(* Every variable has its type.                                             *)
TypeOK ==
  /\ service \in {"s3", "oss", "gcs"}
  /\ buffer \subseteq Path
  /\ cur_size \in 0 .. (Word - 1)
  /\ pc \in {"idle", "delete", "flush", "close"}
  /\ path \in Path
  /\ ret \in {"ok", "err"}
  /\ objects \subseteq Path
  /\ requested \subseteq Path

(* However many flushes failed in whole or in part, a batch never exceeds   *)
(* what the service accepts in one request, and a OneShotDeleter is never   *)
(* given a second path.  The count runs ahead of the buffer by less than    *)
(* the limit, so that a full deleter always has something to flush.  A      *)
(* batch with a version in it breaks this on s3 and oss.                    *)
WithinLimit ==
  Exact => /\ Cardinality(buffer) <= cur_size
           /\ cur_size <= Limit
           /\ cur_size - Cardinality(buffer) < Limit

(* No flush that is about to be made can report more than was counted: the  *)
(* subtraction of Deleter::delete and Deleter::flush does not wrap round.   *)
NeverUnderflows ==
  Exact => \A S \in SUBSET buffer : Counted(S) <= cur_size

(* s3 has deleted a version of the key of p, and what it reports is p.      *)
Aliased(p) ==
  /\ service = "s3"
  /\ ~Exact
  /\ \E q \in requested : q # p /\ Bare(q) = p

(* A path whose delete returned Ok stays in the buffer until it is gone     *)
(* from the service, through every failure, retry and dropped call.  Only   *)
(* on s3 the success of a version takes the key itself out of the buffer.   *)
NothingForgotten ==
  \A p \in requested : p \in buffer \/ p \notin objects \/ Aliased(p)

(* A path disappears only if its delete has returned Ok: delete does not    *)
(* queue a path when it fails.  A batch of oss deletes the key for a        *)
(* version.                                                                 *)
OnlyRequestedDeleted ==
  [][Exact \/ service # "oss" => objects \ objects' \subseteq requested]_vars

(* close returns Ok only when every requested path is deleted, unless a     *)
(* batch may hold a version.                                                *)
CloseDeletesAll ==
  [][(Exact /\ pc = "close" /\ pc' = "idle" /\ ret' = "ok")
        => requested \cap objects' = {}]_vars

(* "Close the deleter, this will flush the deleter and wait until all paths *)
(* are deleted": the wait ends once the service has answered.               *)
CloseReturns == (pc = "close") ~> (pc = "idle")
=============================================================================
