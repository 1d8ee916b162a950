------------------------------ MODULE FsWriter ------------------------------
(***************************************************************************)
(* FsWriter of core/src/services/fs/writer.rs as a sequential writer, and   *)
(* how write and blocking_write of fs/backend.rs open it: the blocking      *)
(* writer, and the asynchronous one for append.  Several writers of one     *)
(* path run at once.  A call may fail at every system call and be repeated. *)
(*                                                                          *)
(* A file is an inode with a content; the path and the temporary paths name *)
(* inodes.  Each writer creates at most one inode, named after it.  A       *)
(* buffer has two chunks, and a unit of content is a chunk of a call.       *)
(***************************************************************************)
EXTENDS Naturals, Sequences

CONSTANTS
  Writers,
  NoFile,       \* nothing at the path
  Old,          \* the inode that may be there before
  Atomic,       \* atomic_write_dir is set
  Append_,      \* op.append()
  Blocking,     \* FsWriter<std::fs::File>, else <tokio::fs::File>
  Deferred,     \* a write fails in the background, after it returned
  MaxCalls      \* bound: calls of write of each writer

FsAssumption ==
  /\ {Atomic, Append_, Blocking, Deferred} \subseteq BOOLEAN
  /\ MaxCalls \in Nat
  /\ Old \notin Writers /\ NoFile \notin Writers \cup {Old}

VARIABLES
  target,       \* the inode at the path
  content,      \* of each inode
  f,            \* per writer: the inode of the open file, NoFile if taken
  tmp_path,     \* per writer: there is one
  failed,       \* per writer: tokio's file has an error it has not reported
  pc,
  rest,         \* per writer: what the current write still has to write
  calls,        \* per writer: the number of write calls
  acked         \* per writer: the calls that returned Ok

vars == <<target, content, f, tmp_path, failed, pc, rest, calls, acked>>

Init ==
  /\ target \in {NoFile, Old}
  /\ content = [i \in Writers \cup {Old} |-> <<>>]
  /\ f = [w \in Writers |-> NoFile]
  /\ tmp_path = [w \in Writers |-> FALSE]
  /\ failed = [w \in Writers |-> FALSE]
  /\ pc = [w \in Writers |-> "start"]
  /\ rest = [w \in Writers |-> <<>>]
  /\ calls = [w \in Writers |-> 0]
  /\ acked = [w \in Writers |-> {}]

Goto(w, l) == pc' = [pc EXCEPT ![w] = l]

-----------------------------------------------------------------------------
(* Accessor::write, blocking_write *)

ChoosePathMutant(w) ==  \* the target is written in place
  /\ pc[w] = "start"
  /\ tmp_path' = [tmp_path EXCEPT ![w] = Atomic /\ Append_]
  /\ Goto(w, "open")
  /\ UNCHANGED <<target, content, f, rest, calls, acked, failed>>

(* An append to a file that exists goes to it, any other write of an atomic *)
(* backend to a temporary file.                                             *)
ChoosePath(w) ==
  /\ pc[w] = "start"
  /\ tmp_path' = [tmp_path EXCEPT ![w] = Atomic /\ ~(Append_ /\ target # NoFile)]
  /\ Goto(w, "open")
  /\ UNCHANGED <<target, content, f, rest, calls, acked, failed>>

(* create(true), with append(true) or truncate(true).                       *)
Open(w) ==
  /\ pc[w] = "open"
  /\ LET i == IF tmp_path[w] \/ target = NoFile THEN w ELSE target
     IN  /\ f' = [f EXCEPT ![w] = i]
         /\ content' = IF Append_ THEN content ELSE [content EXCEPT ![i] = <<>>]
         /\ target' = IF tmp_path[w] THEN target ELSE i
  /\ Goto(w, "idle")
  /\ UNCHANGED <<tmp_path, rest, calls, acked, failed>>

OpenWriter(w) == ChoosePath(w) \/ Open(w)

-----------------------------------------------------------------------------
(* write(bs); the blocking writer panics on a file that close has taken, so *)
(* it is not called then.                                                   *)

WriteBegins(w) ==
  /\ pc[w] = "idle"
  /\ f[w] # NoFile
  /\ calls[w] < MaxCalls
  /\ calls' = [calls EXCEPT ![w] = @ + 1]
  /\ rest' = [rest EXCEPT ![w] =
                [k \in 1..2 |-> [by |-> w, call |-> calls[w] + 1, chunk |-> k]]]
  /\ Goto(w, "write")
  /\ UNCHANGED <<target, content, f, tmp_path, acked, failed>>

AdvanceMutant(w) ==     \* bs.advance(n) is missing
  /\ pc[w] = "write"
  /\ rest[w] # <<>>
  /\ content' = [content EXCEPT ![f[w]] = Append(@, Head(rest[w]))]
  /\ UNCHANGED <<target, f, tmp_path, pc, rest, calls, acked, failed>>

WriteChunkMutant(w) ==  \* a short write is taken for a whole one
  /\ pc[w] = "write"
  /\ rest[w] # <<>>
  /\ content' = [content EXCEPT ![f[w]] = Append(@, Head(rest[w]))]
  /\ rest' = [rest EXCEPT ![w] = <<>>]
  /\ UNCHANGED <<target, f, tmp_path, pc, calls, acked, failed>>

WriteChunk(w) ==
  /\ pc[w] = "write"
  /\ rest[w] # <<>> /\ ~failed[w]
  /\ content' = [content EXCEPT ![f[w]] = Append(@, Head(rest[w]))]
  /\ rest' = [rest EXCEPT ![w] = Tail(@)]
  /\ UNCHANGED <<target, f, tmp_path, pc, calls, acked, failed>>

(* tokio::fs::File answers a write once it has copied the bytes, and tells  *)
(* that the file system refused them in the next call, once.                *)
ChunkFails(w) ==
  /\ Deferred
  /\ pc[w] = "write"
  /\ rest[w] # <<>> /\ ~failed[w]
  /\ failed' = [failed EXCEPT ![w] = TRUE]
  /\ rest' = [rest EXCEPT ![w] = Tail(@)]
  /\ UNCHANGED <<target, content, f, tmp_path, pc, calls, acked>>

WriteOk(w) ==
  /\ pc[w] = "write"
  /\ rest[w] = <<>>
  /\ acked' = [acked EXCEPT ![w] = @ \cup {calls[w]}]
  /\ Goto(w, "idle")
  /\ UNCHANGED <<target, content, f, tmp_path, rest, calls, failed>>

WriteErr(w) ==
  /\ pc[w] = "write"
  /\ rest[w] # <<>>
  /\ rest' = [rest EXCEPT ![w] = <<>>]
  /\ failed' = [failed EXCEPT ![w] = FALSE]
  /\ Goto(w, "idle")
  /\ UNCHANGED <<target, content, f, tmp_path, calls, acked>>

-----------------------------------------------------------------------------
(* close(): flush and sync_all, then rename.  The blocking writer takes the *)
(* file first, and has nothing to do if it was taken.                       *)

CloseBegins(w) ==
  /\ pc[w] = "idle"
  /\ IF Blocking /\ f[w] = NoFile THEN Goto(w, "closed") ELSE Goto(w, "sync")
  /\ UNCHANGED <<target, content, f, tmp_path, rest, calls, acked, failed>>

Taken(w) == IF Blocking THEN [f EXCEPT ![w] = NoFile] ELSE f

SyncOk(w) ==
  /\ pc[w] = "sync"
  /\ ~failed[w]
  /\ Goto(w, IF tmp_path[w] THEN "rename" ELSE "closed")
  /\ UNCHANGED <<target, content, f, tmp_path, rest, calls, acked, failed>>

RenameOk(w) ==
  /\ pc[w] = "rename"
  /\ target' = f[w]
  /\ Goto(w, "closed")
  /\ UNCHANGED <<content, f, tmp_path, rest, calls, acked, failed>>

(* flush, sync_all or rename fails: `f.take()` has been done.               *)
CloseErr(w) ==
  /\ pc[w] \in {"sync", "rename"}
  /\ f' = Taken(w)
  /\ failed' = [failed EXCEPT ![w] = FALSE]
  /\ Goto(w, "idle")
  /\ UNCHANGED <<target, content, tmp_path, rest, calls, acked>>

(* abort(): removes the temporary file, or fails for want of one.  There is *)
(* no blocking abort.                                                       *)
Abort(w) ==
  /\ ~Blocking
  /\ pc[w] = "idle"
  /\ tmp_path[w]
  /\ Goto(w, "aborted")
  /\ UNCHANGED <<target, content, f, tmp_path, rest, calls, acked, failed>>

Ended ==
  /\ \A w \in Writers : pc[w] \in {"closed", "aborted"}
  /\ UNCHANGED vars

Next ==
  \/ \E w \in Writers : \/ OpenWriter(w)
                        \/ WriteBegins(w) \/ WriteChunk(w) \/ ChunkFails(w)
                        \/ WriteOk(w) \/ WriteErr(w)
                        \/ CloseBegins(w) \/ SyncOk(w) \/ RenameOk(w) \/ CloseErr(w)
                        \/ Abort(w)
  \/ Ended

Spec == Init /\ [][Next]_vars

-----------------------------------------------------------------------------
(* What a reader of the path sees of the calls C of w.                      *)
Seen(w, C) ==
  IF target = NoFile THEN <<>>
  ELSE SelectSeq(content[target], LAMBDA u : u.by = w /\ u.call \in C)

(* The chunks of the calls 1..n that are in C, in order.                    *)
Chunks(w, C) ==
  SelectSeq([k \in 1..2 * MaxCalls |->
               [by |-> w, call |-> (k + 1) \div 2, chunk |-> 2 - (k % 2)]],
            LAMBDA u : u.call \in C)

(* Once close has returned Ok, a reader of the path finds every             *)
(* acknowledged write of this writer, whole and in order, whatever the      *)
(* other writers of the path do.                                            *)
ClosedIsInPlace ==
  \A w \in Writers : pc[w] = "closed" => Seen(w, acked[w]) = Chunks(w, acked[w])

(* Whatever fails and is repeated, no chunk is in a file twice or before    *)
(* one that was written earlier by the same writer.                         *)
WritesInOrder ==
  \A i \in DOMAIN content : \A j, k \in 1..Len(content[i]) :
    LET u == content[i][j]
        v == content[i][k]
    IN  (j < k /\ u.by = v.by) => 2 * u.call + u.chunk < 2 * v.call + v.chunk

(* With atomic_write_dir a reader of the path never sees a file grow: it is *)
(* replaced as a whole.                                                     *)
TargetNeverGrows ==
  (target # NoFile /\ target' = target) => content'[target] = content[target]

(* "`Err(err)` means error happens and no bytes has been written."          *)
ErrWritesNothing ==
  \A w \in Writers : pc[w] = "idle" =>
    \A k \in 1..Len(content[w]) : content[w][k].call \in acked[content[w][k].by]
=============================================================================
