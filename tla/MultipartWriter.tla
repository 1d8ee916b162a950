-------------------------- MODULE MultipartWriter --------------------------
(***************************************************************************)
(* MultipartWriter of core/src/raw/oio/write/multipart_write.rs, on top of  *)
(* ConcurrentTasks, under CompleteWriter of core/src/layers/complete.rs, on *)
(* a service that offers multipart uploads.                                 *)
(*                                                                          *)
(* The user makes one call at a time (&mut self) and may repeat a call that *)
(* failed, go on with another one, or drop a call while it waits.  Every    *)
(* request to the service may fail before or after it took effect.  A       *)
(* write_part request that was issued may reach the service late, or again, *)
(* after its task was retried, cancelled or timed out.                      *)
(*                                                                          *)
(* A buffer is a value of Data.  A part is [part, data]: as an input, the   *)
(* fields of WriteInput that vary; as an output, a MultipartPart, whose     *)
(* etag stands for the data.                                                *)
(*                                                                          *)
(* The definitions named ...Mutant are wrong on purpose: plausible mistakes *)
(* in the code, each of which a property must notice.                       *)
(***************************************************************************)
EXTENDS ConcurrentTasks

CONSTANTS
  Data,         \* buffers
  NoData,       \* the cache is None
  NoObject,     \* nothing at the path
  MaxWrites,    \* bound: acknowledged writes in a behaviour
  MaxUploads    \* bound: uploads the service opens in a behaviour

ASSUME DataAssumption == NoData \notin Data
ASSUME NoObjectAssumption == NoObject \notin Seq(Data)
ASSUME BoundsAssumption == MaxWrites \in Nat /\ MaxUploads \in Nat

VARIABLES
  upload_id,         \* the upload the writer knows of, 0 for None
  parts,             \* finished parts, collected by close
  cache,             \* the last acknowledged buffer, not yet given to a task
  next_part_number,
  inner,             \* CompleteWriter: "open", or why inner is None
  pc,                \* where the user's call is suspended, "idle" between calls
  bs,                \* the buffer of the current write
  accepted,          \* history: the acknowledged buffers
  discarded,         \* history: an abort has dropped the tasks
  uploads,           \* service: the state of each upload it opened
  stored,            \* service: the parts it holds for upload_id
  sent,              \* the write_part requests issued so far
  object             \* service: what a reader of the path sees

writerVars == <<upload_id, parts, cache, next_part_number, inner, pc, bs>>
historyVars == <<accepted, discarded>>
serviceVars == <<uploads, stored, sent, object>>
vars == <<taskVars, writerVars, historyVars, serviceVars>>

Part == [part : Nat, data : Data]

Init ==
  /\ TasksInit
  /\ input \in [part : {0}, data : Data]
  /\ upload_id = 0
  /\ parts = <<>>
  /\ cache = NoData
  /\ next_part_number = 0
  /\ inner = "open"
  /\ pc = "idle"
  /\ bs \in Data
  /\ accepted = <<>>
  /\ discarded = FALSE
  /\ uploads = <<>>
  /\ stored = {}
  /\ sent = {}
  /\ object = NoObject

-----------------------------------------------------------------------------
(* The service, as the writer uses it. *)

UploadOpen == upload_id > 0 /\ uploads[upload_id] = "open"

(* write_part replaces an earlier part of the same number.                  *)
StorePart(r) ==
  stored' = {s \in stored : s.part # r.part} \cup {r}

(* complete_part accepts a list of parts it holds, with these etags.        *)
Completable == UploadOpen /\ \A k \in 1..Len(parts) : parts[k] \in stored

CompleteUpload ==
  /\ Completable
  /\ object' = [k \in 1..Len(parts) |-> parts[k].data]
  /\ uploads' = [uploads EXCEPT ![upload_id] = "completed"]

AbortUpload ==
  /\ UploadOpen
  /\ uploads' = [uploads EXCEPT ![upload_id] = "aborted"]

(* A request that was issued, and whose answer nobody may be waiting for    *)
(* any more, arrives.                                                       *)
PartArrives ==
  /\ UploadOpen
  /\ \E r \in sent : StorePart(r)
  /\ UNCHANGED <<taskVars, writerVars, historyVars, uploads, sent, object>>

-----------------------------------------------------------------------------
(* The background task of a part: it ends well once the service has stored  *)
(* the part, and badly when the request fails or times out, in which case   *)
(* the part may have been stored (PartArrives) or not.                      *)

PartTaskOk(k) ==
  /\ UploadOpen
  /\ TaskDone(k, "ok")
  /\ StorePart(tasks[k].input)
  /\ UNCHANGED <<writerVars, historyVars, uploads, sent, object>>

PartTaskErr(k) ==
  /\ \E o \in Errors : TaskDone(k, o)
  /\ UNCHANGED <<writerVars, historyVars, serviceVars>>

-----------------------------------------------------------------------------
(* Steps of `execute` that `write` and `close` share. *)

PendingPart == [part |-> next_part_number, data |-> cache]

(* What the service sees of a step of execute that starts a task or, when   *)
(* the task has run inline, ends it.                                        *)
ExecuteService ==
  /\ sent' = IF exec = "poll" THEN sent \cup {input} ELSE sent
  /\ IF exec = "inline" THEN UploadOpen /\ StorePart(input) ELSE UNCHANGED stored
  /\ UNCHANGED <<uploads, object>>

Executing == pc \in {"write_execute", "close_execute"}

ExecuteStep ==
  /\ Executing
  /\ ExecuteContinues
  /\ sent' = IF exec' = "inline" THEN sent \cup {input} ELSE sent
  /\ UNCHANGED <<writerVars, historyVars, uploads, stored, object>>

ExecuteErrMutant ==     \* the new buffer takes the place of the pending one
  /\ Executing
  /\ ExecuteReturnsErr
  /\ cache' = bs
  /\ pc' = "idle"
  /\ UNCHANGED <<upload_id, parts, next_part_number, inner, bs>>
  /\ UNCHANGED <<historyVars, serviceVars>>

ExecuteErr ==
  /\ Executing
  /\ ExecuteReturnsErr
  /\ pc' = "idle"
  /\ UNCHANGED <<upload_id, parts, cache, next_part_number, inner, bs>>
  /\ UNCHANGED <<historyVars, serviceVars>>

ExecuteDropped ==
  /\ Executing
  /\ DropExecute
  /\ pc' = "idle"
  /\ UNCHANGED <<upload_id, parts, cache, next_part_number, inner, bs>>
  /\ UNCHANGED <<historyVars, serviceVars>>

-----------------------------------------------------------------------------
(* write(bs) *)

Callable == pc = "idle" /\ inner = "open"

WriteCall(d) ==
  /\ Callable
  /\ Len(accepted) < MaxWrites
  /\ bs' = d

(* The first write only fills the cache.                                    *)
WriteFirst(d) ==
  /\ WriteCall(d)
  /\ upload_id = 0
  /\ cache = NoData
  /\ cache' = d
  /\ accepted' = Append(accepted, d)
  /\ UNCHANGED <<taskVars, upload_id, parts, next_part_number, inner, pc>>
  /\ UNCHANGED <<discarded, serviceVars>>

WriteInitiates(d) ==
  /\ WriteCall(d)
  /\ upload_id = 0
  /\ cache # NoData
  /\ pc' = "initiate"
  /\ UNCHANGED <<taskVars, upload_id, parts, cache, next_part_number, inner>>
  /\ UNCHANGED <<historyVars, serviceVars>>

WriteContinues(d) ==
  /\ WriteCall(d)
  /\ upload_id > 0
  /\ cache # NoData
  /\ StartExecute(PendingPart)
  /\ pc' = "write_execute"
  /\ UNCHANGED <<upload_id, parts, cache, next_part_number, inner>>
  /\ UNCHANGED <<historyVars, serviceVars>>

(* cache.clone().expect("pending write must exist")                         *)
WritePanics(d) ==
  /\ WriteCall(d)
  /\ upload_id > 0
  /\ cache = NoData
  /\ pc' = "panicked"
  /\ UNCHANGED <<taskVars, upload_id, parts, cache, next_part_number, inner>>
  /\ UNCHANGED <<historyVars, serviceVars>>

OpenUpload ==
  /\ Len(uploads) < MaxUploads
  /\ uploads' = Append(uploads, "open")

InitiateOk ==
  /\ pc = "initiate"
  /\ OpenUpload
  /\ upload_id' = Len(uploads')
  /\ StartExecute(PendingPart)
  /\ pc' = "write_execute"
  /\ UNCHANGED <<parts, cache, next_part_number, inner, bs>>
  /\ UNCHANGED <<historyVars, stored, sent, object>>

(* The request fails or its future is dropped, with or without effect.      *)
InitiateErr ==
  /\ pc = "initiate"
  /\ OpenUpload \/ UNCHANGED uploads
  /\ pc' = "idle"
  /\ UNCHANGED <<taskVars, upload_id, parts, cache, next_part_number, inner, bs>>
  /\ UNCHANGED <<historyVars, stored, sent, object>>

WriteOk ==
  /\ pc = "write_execute"
  /\ ExecuteReturnsOk
  /\ ExecuteService
  /\ cache' = bs
  /\ next_part_number' = next_part_number + 1
  /\ accepted' = Append(accepted, bs)
  /\ pc' = "idle"
  /\ UNCHANGED <<upload_id, parts, inner, bs, discarded>>

-----------------------------------------------------------------------------
(* close() *)

(* No upload: the whole content is in the cache, or there is none.          *)
CloseAtOnce ==
  /\ Callable
  /\ upload_id = 0
  /\ pc' = "write_once"
  /\ UNCHANGED <<taskVars, upload_id, parts, cache, next_part_number, inner, bs>>
  /\ UNCHANGED <<historyVars, serviceVars>>

WriteOnce == object' = IF cache = NoData THEN <<>> ELSE <<cache>>

OnceOk ==
  /\ pc = "write_once"
  /\ WriteOnce
  /\ cache' = NoData
  /\ inner' = "closed"
  /\ pc' = "idle"
  /\ UNCHANGED <<taskVars, upload_id, parts, next_part_number, bs>>
  /\ UNCHANGED <<historyVars, uploads, stored, sent>>

OnceErrMutant ==        \* the cache is given away before the request succeeds
  /\ pc = "write_once"
  /\ WriteOnce \/ UNCHANGED object
  /\ cache' = NoData
  /\ pc' = "idle"
  /\ UNCHANGED <<taskVars, upload_id, parts, next_part_number, inner, bs>>
  /\ UNCHANGED <<historyVars, uploads, stored, sent>>

OnceErr ==
  /\ pc = "write_once"
  /\ WriteOnce \/ UNCHANGED object
  /\ pc' = "idle"
  /\ UNCHANGED <<taskVars, upload_id, parts, cache, next_part_number, inner, bs>>
  /\ UNCHANGED <<historyVars, uploads, stored, sent>>

CloseLastPart ==
  /\ Callable
  /\ upload_id > 0
  /\ cache # NoData
  /\ StartExecute(PendingPart)
  /\ pc' = "close_execute"
  /\ UNCHANGED <<upload_id, parts, cache, next_part_number, inner, bs>>
  /\ UNCHANGED <<historyVars, serviceVars>>

CloseLastPartOk ==
  /\ pc = "close_execute"
  /\ ExecuteReturnsOk
  /\ ExecuteService
  /\ cache' = NoData
  /\ next_part_number' = next_part_number + 1
  /\ pc' = "drain"
  /\ UNCHANGED <<upload_id, parts, inner, bs, historyVars>>

CloseAgainMutant ==     \* close forgets the pending buffer
  /\ Callable
  /\ upload_id > 0
  /\ pc' = "drain"
  /\ UNCHANGED <<taskVars, upload_id, parts, cache, next_part_number, inner, bs>>
  /\ UNCHANGED <<historyVars, serviceVars>>

(* A close that is repeated finds the cache empty.                          *)
CloseAgain ==
  /\ Callable
  /\ upload_id > 0
  /\ cache = NoData
  /\ pc' = "drain"
  /\ UNCHANGED <<taskVars, upload_id, parts, cache, next_part_number, inner, bs>>
  /\ UNCHANGED <<historyVars, serviceVars>>

DrainOne ==
  /\ pc = "drain"
  /\ \E r \in sent : NextReturns(r) /\ parts' = Append(parts, r)
  /\ UNCHANGED <<upload_id, cache, next_part_number, inner, pc, bs>>
  /\ UNCHANGED <<historyVars, serviceVars>>

DrainErrMutant ==       \* an error ends the loop like None does
  /\ pc = "drain"
  /\ NextReturnsErr
  /\ pc' = "complete"
  /\ UNCHANGED <<upload_id, parts, cache, next_part_number, inner, bs>>
  /\ UNCHANGED <<historyVars, serviceVars>>

DrainErr ==
  /\ pc = "drain"
  /\ NextReturnsErr
  /\ pc' = "idle"
  /\ UNCHANGED <<upload_id, parts, cache, next_part_number, inner, bs>>
  /\ UNCHANGED <<historyVars, serviceVars>>

DrainDropped ==
  /\ pc = "drain"
  /\ NextAwaits
  /\ pc' = "idle"
  /\ UNCHANGED <<taskVars, upload_id, parts, cache, next_part_number, inner, bs>>
  /\ UNCHANGED <<historyVars, serviceVars>>

(* All results are collected: complete the upload, or fail with "multipart  *)
(* part numbers mismatch, please report bug to opendal".                    *)
DrainEnds ==
  /\ pc = "drain"
  /\ NextReturnsNone
  /\ pc' = IF Len(parts) = next_part_number THEN "complete" ELSE "idle"
  /\ UNCHANGED <<upload_id, parts, cache, next_part_number, inner, bs>>
  /\ UNCHANGED <<historyVars, serviceVars>>

CompleteOk ==
  /\ pc = "complete"
  /\ CompleteUpload
  /\ inner' = "closed"
  /\ pc' = "idle"
  /\ UNCHANGED <<taskVars, upload_id, parts, cache, next_part_number, bs>>
  /\ UNCHANGED <<historyVars, stored, sent>>

CompleteErr ==
  /\ pc = "complete"
  /\ CompleteUpload \/ UNCHANGED <<object, uploads>>
  /\ pc' = "idle"
  /\ UNCHANGED <<taskVars, upload_id, parts, cache, next_part_number, inner, bs>>
  /\ UNCHANGED <<historyVars, stored, sent>>

-----------------------------------------------------------------------------
(* abort() *)

AbortAtOnce ==
  /\ Callable
  /\ upload_id = 0
  /\ inner' = "aborted"
  /\ UNCHANGED <<taskVars, upload_id, parts, cache, next_part_number, pc, bs>>
  /\ UNCHANGED <<historyVars, serviceVars>>

AbortBeginsMutant ==    \* the tasks are left running
  /\ Callable
  /\ upload_id > 0
  /\ cache' = NoData
  /\ discarded' = TRUE
  /\ pc' = "abort_part"
  /\ UNCHANGED <<taskVars, upload_id, parts, next_part_number, inner, bs>>
  /\ UNCHANGED <<accepted, serviceVars>>

AbortBegins ==
  /\ Callable
  /\ upload_id > 0
  /\ Clear
  /\ cache' = NoData
  /\ discarded' = TRUE
  /\ pc' = "abort_part"
  /\ UNCHANGED <<exec, input, upload_id, parts, next_part_number, inner, bs>>
  /\ UNCHANGED <<accepted, serviceVars>>

AbortOk ==
  /\ pc = "abort_part"
  /\ AbortUpload
  /\ inner' = "aborted"
  /\ pc' = "idle"
  /\ UNCHANGED <<taskVars, upload_id, parts, cache, next_part_number, bs>>
  /\ UNCHANGED <<historyVars, stored, sent, object>>

AbortErr ==
  /\ pc = "abort_part"
  /\ AbortUpload \/ UNCHANGED uploads
  /\ pc' = "idle"
  /\ UNCHANGED <<taskVars, upload_id, parts, cache, next_part_number, inner, bs>>
  /\ UNCHANGED <<historyVars, stored, sent, object>>

(* CompleteWriter refuses every further call; a panic leaves no writer.     *)
Ended ==
  /\ (pc = "idle" /\ inner # "open") \/ pc = "panicked"
  /\ UNCHANGED vars

-----------------------------------------------------------------------------
(* The user's next call.                                                    *)
Call ==
  \/ \E d \in Data : \/ WriteFirst(d)
                     \/ WriteInitiates(d)
                     \/ WriteContinues(d)
                     \/ WritePanics(d)
  \/ CloseAtOnce
  \/ CloseLastPart
  \/ CloseAgain
  \/ AbortAtOnce
  \/ AbortBegins

(* The code that runs once the user polls the call, or the service answers. *)
CallRuns ==
  \/ ExecuteStep \/ ExecuteErr
  \/ InitiateOk \/ InitiateErr
  \/ WriteOk
  \/ OnceOk \/ OnceErr
  \/ CloseLastPartOk
  \/ DrainOne \/ DrainErr \/ DrainEnds
  \/ CompleteOk \/ CompleteErr
  \/ AbortOk \/ AbortErr

CallDropped == ExecuteDropped \/ DrainDropped

PartTaskEnds(k) == PartTaskOk(k) \/ PartTaskErr(k)

Next ==
  \/ Call
  \/ CallRuns
  \/ CallDropped
  \/ \E k \in 1..Concurrent : PartTaskEnds(k)
  \/ PartArrives
  \/ Ended

(* The user polls the call it has made, the service or a timeout answers    *)
(* every request, and the executor runs every task.  Nothing makes the user *)
(* call, and nothing makes a request succeed.                               *)
Fairness ==
  /\ WF_vars(CallRuns)
  /\ \A k \in 1..Concurrent : WF_vars(PartTaskEnds(k))

Spec == Init /\ [][Next]_vars
FairSpec == Spec /\ Fairness

-----------------------------------------------------------------------------
(* Every variable has its type; no more parts are in flight than the        *)
(* concurrency the writer was made with.                                    *)
TypeOK ==
  /\ tasks \in Seq(Tasks(Part))
  /\ Len(tasks) <= Concurrent
  /\ results \in Seq(Part)
  /\ errored \in BOOLEAN
  /\ exec \in {"none", "poll", "await", "inline"}
  /\ input \in Part
  /\ upload_id \in Nat
  /\ parts \in Seq(Part)
  /\ cache \in Data \cup {NoData}
  /\ next_part_number \in Nat
  /\ inner \in {"open", "closed", "aborted"}
  /\ pc \in {"idle", "initiate", "write_execute", "write_once",
             "close_execute", "drain", "complete", "abort_part", "panicked"}
  /\ bs \in Data
  /\ accepted \in Seq(Data)
  /\ discarded \in BOOLEAN
  /\ uploads \in Seq({"open", "completed", "aborted"})
  /\ upload_id <= Len(uploads)
  /\ stored \subseteq Part
  /\ sent \subseteq Part
  /\ object \in Seq(Data) \cup {NoObject}

(* A close that returned Ok, however often write and close failed, were     *)
(* dropped half way and were called again before, has left an object that   *)
(* holds every acknowledged buffer, once and in order.                      *)
ClosedObjectIsComplete ==
  (inner = "closed" /\ ~discarded) => object = accepted

(* Retries are harmless: whenever a part is sent, the first time or again,  *)
(* it carries the buffer acknowledged at that place, so that a late or      *)
(* repeated request cannot replace a part by something else.                *)
SentPartsAgree ==
  \A r \in sent : r.part < Len(accepted) /\ r.data = accepted[r.part + 1]

(* The error "multipart part numbers mismatch, please report bug to         *)
(* opendal" is out of reach until an abort has failed: when close has       *)
(* collected all results there is one part for every part number given out. *)
NoPartMismatch ==
  (pc = "drain" /\ ~discarded /\ ~errored /\ results = <<>> /\ tasks = <<>>)
    => Len(parts) = next_part_number

(* A writer that was closed or aborted with success leaves no task of its   *)
(* own running in the background, nor an upload of its own open.            *)
NothingOutlivesWriter ==
  inner # "open" => tasks = <<>> /\ exec = "none" /\ ~UploadOpen

(* The object at the path changes only to exactly what has been             *)
(* acknowledged: a reader never sees a part of it.                          *)
ObjectIsNeverPartial ==
  [][(object' # object /\ ~discarded) => object' = accepted]_vars

(* `write` relies on a pending buffer once the upload has begun:            *)
(* expect("pending write must exist").                                      *)
PendingWriteExists == pc # "panicked"

(* Every call of write, close and abort returns.                            *)
EveryCallReturns == (pc # "idle") ~> (pc \in {"idle", "panicked"})

Object == INSTANCE AtomicObject WITH written <- accepted, state <- inner

(* The writer implements an object that is written atomically.              *)
ImplementsAtomicObject == Object!Spec
=============================================================================
