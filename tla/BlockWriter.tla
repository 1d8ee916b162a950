---------------------------- MODULE BlockWriter ----------------------------
(***************************************************************************)
(* BlockWriter of core/src/raw/oio/write/block_write.rs, on ConcurrentTasks *)
(* and under CompleteWriter, over the two services that implement           *)
(* BlockWrite.  azblob commits a list of blocks with one request; webhdfs   *)
(* keeps a block as a file in atomic_write_dir and commits with three       *)
(* requests: CONCAT onto the first file, DELETE of the path, RENAME.        *)
(*                                                                          *)
(* A request may fail without effect; MaxLost of them may also take effect  *)
(* unknown to the writer: the answer is lost or, if Late, a write_block     *)
(* arrives after its task has timed out or was cancelled.                   *)
(*                                                                          *)
(* A block is [id, data]; every call of execute makes a new id (a Uuid).    *)
(***************************************************************************)
EXTENDS ConcurrentTasks

CONSTANTS
  Data,         \* buffers
  NoData,       \* the cache is None
  NoObject,     \* nothing at the path
  Webhdfs,      \* the service is webhdfs, else azblob
  MaxWrites,    \* bound: acknowledged writes
  MaxBlocks,    \* bound: block ids made
  Late,         \* a write_block may arrive late
  MaxLost       \* bound: requests that take effect unknown to the writer

NoDataAssumption == NoData \notin Data
BlockBoundsAssumption ==
  {Webhdfs, Late} \subseteq BOOLEAN /\ {MaxWrites, MaxBlocks, MaxLost} \subseteq Nat

VARIABLES
  started, block_ids, cache,   \* BlockWriter; its ids are 1..made
  inner,                       \* CompleteWriter: "open", or why inner is None
  pc, bs,                      \* where the call is suspended, and its buffer
  made,                        \* how many ids were made
  accepted, discarded,         \* history: acknowledged buffers; abort was called
  sent,                        \* the write_block requests issued
  lost,                        \* how many took effect unknown to the writer
  files,                       \* service: blocks, each [name, data], data a sequence
  object                       \* service: what a reader of the path sees

writerVars == <<started, block_ids, cache, inner, bs, made>>
historyVars == <<accepted, discarded>>
serviceVars == <<sent, lost, files, object>>
vars == <<taskVars, writerVars, pc, historyVars, serviceVars>>

Block == [id : Nat, data : Data]

Init ==
  /\ TasksInit
  /\ input \in [id : {0}, data : Data]
  /\ started = FALSE /\ block_ids = <<>> /\ cache = NoData
  /\ inner = "open" /\ pc = "idle" /\ bs \in Data /\ made = 0
  /\ accepted = <<>> /\ discarded = FALSE
  /\ sent = {} /\ lost = 0 /\ files = {} /\ object = NoObject

-----------------------------------------------------------------------------
(* The service *)

BlockName(i) == <<"atomic_write_dir", i>>     \* webhdfs write_block, complete_block
AbortName(i) == <<"root", i>>                 \* webhdfs abort_block

(* CREATE with overwrite=true, or Put Block.                                *)
StoreBlock(r) ==
  files' = {f \in files : f.name # BlockName(r.id)}
             \cup {[name |-> BlockName(r.id), data |-> <<r.data>>]}

Holds(n) == \E f \in files : f.name = n
Content(n) == (CHOOSE f \in files : f.name = n).data

(* The contents of the listed files, one after the other.                   *)
Joined[k \in 0..Len(block_ids)] ==
  IF k = 0 THEN <<>> ELSE Joined[k - 1] \o Content(BlockName(block_ids[k]))

AllHeld == \A k \in 1..Len(block_ids) : Holds(BlockName(block_ids[k]))

Unnoticed == lost < MaxLost /\ lost' = lost + 1

BlockArrives ==
  /\ Late
  /\ Unnoticed
  /\ \E r \in sent : StoreBlock(r)
  /\ UNCHANGED <<taskVars, writerVars, pc, historyVars, sent, object>>

BlockTaskOk(k) ==
  /\ TaskDone(k, "ok")
  /\ StoreBlock(tasks[k].input)
  /\ UNCHANGED <<writerVars, pc, historyVars, sent, lost, object>>

BlockTaskErr(k) ==
  /\ \E o \in Errors : TaskDone(k, o)
  /\ UNCHANGED <<writerVars, pc, historyVars, serviceVars>>

-----------------------------------------------------------------------------
(* execute, as write and close use it *)

(* Every call of execute makes a new id.                                    *)
ExecuteCache ==
  /\ made < MaxBlocks
  /\ made' = made + 1
  /\ StartExecute([id |-> made', data |-> cache])

Executing == pc \in {"write_execute", "close_execute"}

ExecuteStep ==
  /\ Executing
  /\ ExecuteContinues
  /\ sent' = IF exec' = "inline" THEN sent \cup {input} ELSE sent
  /\ UNCHANGED <<writerVars, pc, historyVars, lost, files, object>>

ExecuteService ==
  /\ sent' = IF exec = "poll" THEN sent \cup {input} ELSE sent
  /\ IF exec = "inline" THEN StoreBlock(input) ELSE UNCHANGED files
  /\ UNCHANGED <<lost, object>>

ExecuteErr ==
  /\ Executing
  /\ ExecuteReturnsErr \/ DropExecute
  /\ pc' = "idle"
  /\ UNCHANGED <<writerVars, historyVars, serviceVars>>

-----------------------------------------------------------------------------
(* write(bs) *)

Callable == pc = "idle" /\ inner = "open"

WriteFirst(d) ==
  /\ Callable /\ Len(accepted) < MaxWrites
  /\ ~started /\ cache = NoData
  /\ cache' = d
  /\ bs' = d
  /\ accepted' = Append(accepted, d)
  /\ UNCHANGED <<taskVars, started, block_ids, inner, made, pc, discarded, serviceVars>>

(* started is set before the cached buffer is given to a task.              *)
WriteNext(d) ==
  /\ Callable /\ Len(accepted) < MaxWrites
  /\ cache # NoData
  /\ started' = TRUE
  /\ ExecuteCache
  /\ bs' = d
  /\ pc' = "write_execute"
  /\ UNCHANGED <<block_ids, cache, inner, historyVars, serviceVars>>

(* cache.clone().expect("pending write must exist")                         *)
WritePanics ==
  /\ Callable
  /\ started /\ cache = NoData
  /\ pc' = "panicked"
  /\ UNCHANGED <<taskVars, writerVars, historyVars, serviceVars>>

WriteOk ==
  /\ pc = "write_execute"
  /\ ExecuteReturnsOk
  /\ ExecuteService
  /\ cache' = bs
  /\ accepted' = Append(accepted, bs)
  /\ pc' = "idle"
  /\ UNCHANGED <<started, block_ids, inner, bs, made, discarded>>

-----------------------------------------------------------------------------
(* close() *)

CloseBegins ==
  /\ Callable
  /\ IF started /\ cache # NoData
       THEN /\ ExecuteCache
            /\ pc' = "close_execute"
       ELSE /\ pc' = IF started THEN "drain" ELSE "write_once"
            /\ UNCHANGED <<taskVars, made>>
  /\ UNCHANGED <<started, block_ids, cache, inner, bs, historyVars, serviceVars>>

WriteOnce == object' = IF cache = NoData THEN <<>> ELSE <<cache>>

OnceOk ==
  /\ pc = "write_once"
  /\ WriteOnce
  /\ cache' = NoData
  /\ inner' = "closed"
  /\ pc' = "idle"
  /\ UNCHANGED <<taskVars, started, block_ids, bs, made, historyVars, sent, lost, files>>

OnceErr ==
  /\ pc = "write_once"
  /\ (WriteOnce /\ Unnoticed) \/ UNCHANGED <<object, lost>>
  /\ pc' = "idle"
  /\ UNCHANGED <<taskVars, writerVars, historyVars, sent, files>>

CloseExecuteOk ==
  /\ pc = "close_execute"
  /\ ExecuteReturnsOk
  /\ ExecuteService
  /\ cache' = NoData
  /\ pc' = "drain"
  /\ UNCHANGED <<started, block_ids, inner, bs, made, historyVars>>

DrainOne ==
  /\ pc = "drain"
  /\ \E r \in sent : NextReturns(r) /\ block_ids' = Append(block_ids, r.id)
  /\ UNCHANGED <<started, cache, inner, bs, made, pc, historyVars, serviceVars>>

DrainErrMutant ==       \* an error ends the loop like None does
  /\ pc = "drain"
  /\ NextReturnsErr
  /\ pc' = "complete"
  /\ UNCHANGED <<writerVars, historyVars, serviceVars>>

(* next fails, or its future is dropped while it waits.                     *)
DrainErr ==
  /\ pc = "drain"
  /\ NextReturnsErr \/ (NextAwaits /\ UNCHANGED taskVars)
  /\ pc' = "idle"
  /\ UNCHANGED <<writerVars, historyVars, serviceVars>>

DrainEndsMutant ==      \* two blocks are not concatenated
  /\ pc = "drain"
  /\ NextReturnsNone
  /\ pc' = CASE ~Webhdfs -> "complete"
             [] Webhdfs /\ block_ids = <<>> -> "panicked"
             [] Webhdfs /\ Len(block_ids) \in {1, 2} -> "delete"
             [] OTHER -> "concat"
  /\ UNCHANGED <<writerVars, historyVars, serviceVars>>

(* complete_block: webhdfs concatenates only two blocks and more, and takes *)
(* block_ids[0] first, which panics if there is none.                       *)
DrainEnds ==
  /\ pc = "drain"
  /\ NextReturnsNone
  /\ pc' = CASE ~Webhdfs -> "complete"
             [] Webhdfs /\ block_ids = <<>> -> "panicked"
             [] Webhdfs /\ Len(block_ids) = 1 -> "delete"
             [] OTHER -> "concat"
  /\ UNCHANGED <<writerVars, historyVars, serviceVars>>

(* azblob: Put Block List makes the listed blocks the object.               *)
PutBlockList ==
  /\ AllHeld
  /\ object' = Joined[Len(block_ids)]
  /\ UNCHANGED files

Concat ==
  /\ AllHeld
  /\ files' = {f \in files : \A k \in 1..Len(block_ids) : f.name # BlockName(block_ids[k])}
                \cup {[name |-> BlockName(block_ids[1]), data |-> Joined[Len(block_ids)]]}
  /\ UNCHANGED object

DeletePath == object' = NoObject /\ UNCHANGED files

(* A RENAME that moves nothing, because there is no such file, answers      *)
(* 200 OK with {"boolean": false}; only the status is looked at.            *)
RenameToPath ==
  LET n == BlockName(block_ids[1])
  IN  IF Holds(n)
        THEN object' = Content(n) /\ files' = {f \in files : f.name # n}
        ELSE UNCHANGED <<object, files>>

(* One request of complete_block.                                           *)
CompleteRequest ==
  \/ pc = "complete" /\ PutBlockList
  \/ pc = "concat" /\ Concat
  \/ pc = "delete" /\ DeletePath
  \/ pc = "rename" /\ RenameToPath

CompleteStep ==
  /\ CompleteRequest
  /\ pc' = CASE pc = "concat" -> "delete" [] pc = "delete" -> "rename" [] OTHER -> "idle"
  /\ inner' = IF pc' = "idle" THEN "closed" ELSE inner
  /\ UNCHANGED <<taskVars, started, block_ids, cache, bs, made, historyVars, sent, lost>>

CompleteErr ==
  /\ pc \in {"complete", "concat", "delete", "rename"}
  /\ (CompleteRequest /\ Unnoticed) \/ UNCHANGED <<object, files, lost>>
  /\ pc' = "idle"
  /\ UNCHANGED <<taskVars, writerVars, historyVars, sent>>

-----------------------------------------------------------------------------
(* abort() *)

AbortBegins ==
  /\ Callable
  /\ IF started
       THEN /\ Clear
            /\ cache' = NoData
            /\ discarded' = TRUE
            /\ pc' = "abort_block"
            /\ UNCHANGED inner
       ELSE /\ inner' = "aborted"
            /\ UNCHANGED <<tasks, results, errored, cache, discarded, pc>>
  /\ UNCHANGED <<exec, input, started, block_ids, bs, made, accepted, serviceVars>>

(* webhdfs deletes the files of block_ids by a name without the directory;  *)
(* azblob leaves it to the service's collection of uncommitted blocks.      *)
AbortOk ==
  /\ pc = "abort_block"
  /\ files' = IF Webhdfs
                THEN {f \in files : \A k \in 1..Len(block_ids) : f.name # AbortName(block_ids[k])}
                ELSE files
  /\ inner' = "aborted"
  /\ pc' = "idle"
  /\ UNCHANGED <<taskVars, started, block_ids, cache, bs, made, historyVars, sent, lost, object>>

AbortErr ==
  /\ Webhdfs
  /\ pc = "abort_block"
  /\ pc' = "idle"
  /\ UNCHANGED <<taskVars, writerVars, historyVars, serviceVars>>

Ended ==
  /\ pc = "panicked" \/ (pc = "idle" /\ (inner # "open" \/ made = MaxBlocks))
  /\ UNCHANGED vars

-----------------------------------------------------------------------------
Call ==
  \/ \E d \in Data : WriteFirst(d) \/ WriteNext(d)
  \/ WritePanics
  \/ CloseBegins
  \/ AbortBegins

CallRuns ==
  \/ ExecuteStep \/ ExecuteErr \/ WriteOk
  \/ OnceOk \/ OnceErr
  \/ CloseExecuteOk \/ DrainOne \/ DrainErr \/ DrainEnds
  \/ CompleteStep \/ CompleteErr
  \/ AbortOk \/ AbortErr

BlockTaskEnds(k) == BlockTaskOk(k) \/ BlockTaskErr(k)

Next ==
  \/ Call
  \/ CallRuns
  \/ \E k \in 1..Concurrent : BlockTaskEnds(k)
  \/ BlockArrives
  \/ Ended

Spec == Init /\ [][Next]_vars

-----------------------------------------------------------------------------
(* Every variable has its type.                                             *)
TypeOK ==
  /\ tasks \in Seq(Tasks(Block)) /\ Len(tasks) <= Concurrent
  /\ results \in Seq(Block)
  /\ cache \in Data \cup {NoData}
  /\ block_ids \in Seq(1..made)
  /\ sent \subseteq Block
  /\ lost \in 0..MaxLost
  /\ pc \in {"idle", "write_execute", "write_once", "close_execute", "drain", "complete",
             "concat", "delete", "rename", "abort_block", "panicked"}

(* A close that returned Ok has left an object that holds every             *)
(* acknowledged buffer once and in order: a new id for every repeated       *)
(* execute leaves blocks behind that no list names, and never one too many  *)
(* in the list.                                                             *)
ClosedObjectIsComplete ==
  (inner = "closed" /\ ~discarded) => object = accepted

(* A reader of the path sees nothing, or all that has been acknowledged,    *)
(* never some of the blocks; and sees all of it when close returns Ok.      *)
CommitsAtOnce ==
  ~discarded => /\ object' \in {object, NoObject, accepted}
                /\ inner' = "closed" => object' = accepted

(* "abort_block will cancel the block upload and purge all data."           *)
AbortPurgesAll == inner = "aborted" => files = {}
=============================================================================
