--------------------------- MODULE PositionWriter ---------------------------
(***************************************************************************)
(* PositionWriter of core/src/raw/oio/write/position_write.rs on            *)
(* ConcurrentTasks, under CompleteWriter, over the PositionWrite of         *)
(* FsWriter (services/fs/writer.rs), with the machine crashing at any time. *)
(*                                                                          *)
(* write_all_at runs in spawn_blocking, which cannot be cancelled: a write  *)
(* whose task timed out, was dropped or cleared still happens, at any later *)
(* time, after the rename too.  A buffer fills one cell of the file.        *)
(***************************************************************************)
EXTENDS ConcurrentTasks

CONSTANTS
  Data,             \* buffers
  NoData,           \* the cache is None; a cell never written
  Atomic,           \* atomic_write_dir is set: the file has a tmp_path
  WriteAfterClose,  \* the user goes on writing after a close that failed
  MaxWrites         \* bound: acknowledged writes

PositionConstants ==
  NoData \notin Data /\ {Atomic, WriteAfterClose} \subseteq BOOLEAN /\ MaxWrites \in Nat

ASSUME PositionAssumption == PositionConstants

VARIABLES
  next_offset, cache,     \* PositionWriter
  inner,                  \* CompleteWriter: "open", or why inner is None
  pc, bs,                 \* where the call is suspended, and its buffer
  accepted, discarded,    \* history: acknowledged buffers; abort was called
  closing,                \* history: close was called
  sent,                   \* the writes given to spawn_blocking
  file,                   \* the cells of the file
  synced,                 \* the cells on disk for sure
  path                    \* which file a reader of the path finds: "old" or "new"

writerVars == <<next_offset, cache, inner, bs>>
historyVars == <<accepted, discarded, closing>>
fsVars == <<sent, file, synced, path>>
vars == <<taskVars, writerVars, pc, historyVars, fsVars>>

Cells == 0..MaxWrites - 1
Write == [offset : Cells, data : Data]
EmptyFile == [o \in Cells |-> NoData]

Init ==
  /\ TasksInit
  /\ input \in [offset : {0}, data : Data]
  /\ next_offset = 0 /\ cache = NoData
  /\ inner = "open" /\ pc = "idle" /\ bs \in Data
  /\ accepted = <<>> /\ discarded = FALSE /\ closing = FALSE
  /\ sent = {} /\ file = EmptyFile /\ synced = EmptyFile
  /\ path = IF Atomic THEN "old" ELSE "new"

-----------------------------------------------------------------------------
(* The file system *)

WriteAt(r) == file' = [file EXCEPT ![r.offset] = r.data]

(* A write that nobody waits for any more.                                  *)
LateWrite ==
  /\ pc # "crashed"
  /\ \E r \in sent : WriteAt(r)
  /\ UNCHANGED <<taskVars, writerVars, pc, historyVars, sent, synced, path>>

PositionTaskOk(k) ==
  /\ TaskDone(k, "ok")
  /\ WriteAt(tasks[k].input)
  /\ UNCHANGED <<writerVars, pc, historyVars, sent, synced, path>>

PositionTaskErr(k) ==
  /\ \E o \in Errors : TaskDone(k, o)
  /\ UNCHANGED <<writerVars, pc, historyVars, fsVars>>

(* What is not synced may be lost, and so may the rename.                   *)
Crash ==
  /\ pc # "crashed"
  /\ \E S \in SUBSET Cells :
       file' = [o \in Cells |-> IF o \in S THEN file[o] ELSE synced[o]]
  /\ path' \in {path, IF Atomic THEN "old" ELSE "new"}
  /\ pc' = "crashed"
  /\ tasks' = <<>> /\ exec' = "none"
  /\ UNCHANGED <<results, errored, input, writerVars, historyVars, sent, synced>>

-----------------------------------------------------------------------------
(* write(bs) *)

Callable == pc = "idle" /\ inner = "open"
WriteCall ==
  /\ Callable
  /\ Len(accepted) < MaxWrites
  /\ WriteAfterClose \/ ~closing

WriteCached(d) ==
  /\ WriteCall
  /\ cache = NoData
  /\ cache' = d
  /\ bs' = d
  /\ accepted' = Append(accepted, d)
  /\ UNCHANGED <<taskVars, next_offset, inner, pc, discarded, closing, fsVars>>

PendingWrite == [offset |-> next_offset, data |-> cache]

WriteNext(d) ==
  /\ WriteCall
  /\ cache # NoData
  /\ StartExecute(PendingWrite)
  /\ bs' = d
  /\ pc' = "execute"
  /\ UNCHANGED <<next_offset, cache, inner, historyVars, fsVars>>

ExecuteStep ==
  /\ pc = "execute"
  /\ ExecuteContinues
  /\ sent' = IF exec' = "inline" THEN sent \cup {input} ELSE sent
  /\ UNCHANGED <<writerVars, pc, historyVars, file, synced, path>>

ExecuteErr ==
  /\ pc = "execute"
  /\ ExecuteReturnsErr \/ DropExecute
  /\ pc' = "idle"
  /\ UNCHANGED <<writerVars, historyVars, fsVars>>

WriteOkMutant ==        \* next_offset is not moved
  /\ pc = "execute"
  /\ ExecuteReturnsOk
  /\ sent' = IF exec = "poll" THEN sent \cup {input} ELSE sent
  /\ IF exec = "inline" THEN WriteAt(input) ELSE UNCHANGED file
  /\ cache' = bs
  /\ accepted' = Append(accepted, bs)
  /\ pc' = "idle"
  /\ UNCHANGED <<next_offset, inner, bs, discarded, closing, synced, path>>

WriteOk ==
  /\ pc = "execute"
  /\ ExecuteReturnsOk
  /\ sent' = IF exec = "poll" THEN sent \cup {input} ELSE sent
  /\ IF exec = "inline" THEN WriteAt(input) ELSE UNCHANGED file
  /\ next_offset' = next_offset + 1
  /\ cache' = bs
  /\ accepted' = Append(accepted, bs)
  /\ pc' = "idle"
  /\ UNCHANGED <<inner, bs, discarded, closing, synced, path>>

-----------------------------------------------------------------------------
(* close(): wait for the tasks, write the cache, then FsWriter::close.      *)

CloseBegins ==
  /\ Callable
  /\ closing' = TRUE
  /\ pc' = "drain"
  /\ UNCHANGED <<taskVars, writerVars, accepted, discarded, fsVars>>

DrainOne ==
  /\ pc = "drain"
  /\ \E r \in sent : NextReturns(r)
  /\ UNCHANGED <<writerVars, pc, historyVars, fsVars>>

DrainErr ==
  /\ pc = "drain"
  /\ NextReturnsErr \/ (NextAwaits /\ UNCHANGED taskVars)
  /\ pc' = "idle"
  /\ UNCHANGED <<writerVars, historyVars, fsVars>>

(* The last buffer is written by close itself, at next_offset, which stays. *)
DrainEnds ==
  /\ pc = "drain"
  /\ NextReturnsNone
  /\ pc' = IF cache = NoData THEN "sync" ELSE "last"
  /\ sent' = IF cache = NoData THEN sent ELSE sent \cup {PendingWrite}
  /\ UNCHANGED <<writerVars, historyVars, file, synced, path>>

LastOk ==
  /\ pc = "last"
  /\ WriteAt(PendingWrite)
  /\ cache' = NoData
  /\ pc' = "sync"
  /\ UNCHANGED <<taskVars, next_offset, inner, bs, historyVars, sent, synced, path>>

(* write_all_at, sync_all or rename fails, or the future is dropped.        *)
CloseErr ==
  /\ pc \in {"last", "sync", "rename"}
  /\ pc' = "idle"
  /\ UNCHANGED <<taskVars, writerVars, historyVars, fsVars>>

SyncOkMutant ==         \* flush alone
  /\ pc = "sync"
  /\ pc' = IF Atomic THEN "rename" ELSE "idle"
  /\ inner' = IF Atomic THEN inner ELSE "closed"
  /\ UNCHANGED <<taskVars, next_offset, cache, bs, historyVars, sent, file, synced, path>>

SyncOk ==
  /\ pc = "sync"
  /\ synced' = file
  /\ pc' = IF Atomic THEN "rename" ELSE "idle"
  /\ inner' = IF Atomic THEN inner ELSE "closed"
  /\ UNCHANGED <<taskVars, next_offset, cache, bs, historyVars, sent, file, path>>

RenameOk ==
  /\ pc = "rename"
  /\ path' = "new"
  /\ inner' = "closed"
  /\ pc' = "idle"
  /\ UNCHANGED <<taskVars, next_offset, cache, bs, historyVars, sent, file, synced>>

-----------------------------------------------------------------------------
(* abort() removes the temporary file, or fails: Unsupported without one.   *)
Abort ==
  /\ Callable
  /\ Clear
  /\ cache' = NoData
  /\ discarded' = TRUE
  /\ inner' \in IF Atomic THEN {"open", "aborted"} ELSE {"open"}
  /\ UNCHANGED <<exec, input, next_offset, bs, pc, accepted, closing, fsVars>>

Ended ==
  /\ pc = "crashed" \/ (pc = "idle" /\ inner # "open")
  /\ UNCHANGED vars

-----------------------------------------------------------------------------
Call ==
  \/ \E d \in Data : WriteCached(d) \/ WriteNext(d)
  \/ CloseBegins
  \/ Abort

CallRuns ==
  \/ ExecuteStep \/ ExecuteErr \/ WriteOk
  \/ DrainOne \/ DrainErr \/ DrainEnds \/ LastOk
  \/ SyncOk \/ RenameOk \/ CloseErr

Next ==
  \/ Call
  \/ CallRuns
  \/ \E k \in 1..Concurrent : PositionTaskOk(k) \/ PositionTaskErr(k)
  \/ LateWrite
  \/ Crash
  \/ Ended

Spec == Init /\ [][Next]_vars

-----------------------------------------------------------------------------
(* Every variable has its type; no write is at an offset behind what was    *)
(* acknowledged, whatever was aborted, dropped or failed before.            *)
TypeOK ==
  /\ tasks \in Seq(Tasks(Write)) /\ Len(tasks) <= Concurrent
  /\ results \in Seq(Write) /\ errored \in BOOLEAN
  /\ exec \in {"none", "poll", "await", "inline"}
  /\ next_offset \in Nat /\ cache \in Data \cup {NoData}
  /\ inner \in {"open", "closed", "aborted"}
  /\ pc \in {"idle", "execute", "drain", "last", "sync", "rename", "crashed"}
  /\ bs \in Data
  /\ accepted \in Seq(Data) /\ Len(accepted) <= MaxWrites
  /\ next_offset + (IF cache = NoData THEN 0 ELSE 1) <= Len(accepted)
  /\ discarded \in BOOLEAN /\ closing \in BOOLEAN
  /\ sent \subseteq Write
  /\ file \in [Cells -> Data \cup {NoData}]
  /\ synced \in [Cells -> Data \cup {NoData}]
  /\ path \in {"old", "new"}

Complete == [o \in Cells |-> IF o < Len(accepted) THEN accepted[o + 1] ELSE NoData]

(* With atomic_write_dir, whoever opens the path, after a crash too, finds  *)
(* the old file or all that was acknowledged, never some of it: the rename  *)
(* comes after the sync, and a write that comes late writes what is there.  *)
OldOrComplete ==
  (Atomic /\ ~discarded) => path = "old" \/ file = Complete

(* After a close that returned Ok the file is complete and stays complete,  *)
(* and it is on disk: a crash does not take cells of it away.               *)
ClosedIsDurable ==
  (inner = "closed" /\ ~discarded) => file = Complete

(* The test of position_write asserts: "input should not have overlap".     *)
NoOverlap ==
  \A r, s \in sent : r.offset = s.offset => r.data = s.data
=============================================================================
