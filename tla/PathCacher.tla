----------------------------- MODULE PathCacher -----------------------------
(***************************************************************************)
(* PathCacher, the cache from paths to file ids under one lock, and the    *)
(* operations of gdrive on it.  Google Drive knows ids; two entries of one *)
(* folder may have the same name, so that it is up to the cache and its    *)
(* lock that a path stays one file.  Calls of several users interleave at  *)
(* every request and wherever one waits for the lock.                      *)
(*                                                                         *)
(* A path is the sequence of its components; <<>> is the root "/".         *)
(***************************************************************************)
EXTENDS Integers, FiniteSets, Sequences, SequencesExt

CONSTANTS
    Callers,   \* users of the operator
    Files,     \* paths of files
    Dirs,      \* paths of directories, with the parents of all Files and Dirs
    Contents,  \* what is written
    Locked,    \* with_lock() was called
    Disjoint,  \* users work on different files
    Trees,     \* a directory may be deleted with directories in it
    ListAlone, \* nobody else is at work while a directory is listed
    Lossy,     \* a request that fails may have taken effect
    MaxOps,    \* bound on the operations that are begun
    MaxFails   \* bound on the requests that fail

PathCacherAssumption ==
    /\ {Locked, Disjoint, Trees, ListAlone, Lossy} \subseteq BOOLEAN
    /\ MaxOps \in Nat /\ MaxFails \in Nat
    /\ \A p \in (Files \cup Dirs) \ {<<>>} : Front(p) \in Dirs

VARIABLES
    drive,   \* id -> name, parent, content, trashed
    cache,   \* path -> id, for the paths that are cached
    holder,  \* the callers that hold the lock
    call,    \* caller -> the operation it is in, and where
    said,    \* file -> content, as the answers of the operations have it
    panic,   \* the assertion that failed
    begun, fails

vars == <<drive, cache, holder, call, said, panic, begun, fails>>

root == 0
None == -1
Idle == [op |-> "idle"]
get_parent(p) == Front(p)
get_basename(p) == Last(p)
Cached(p) == p \in DOMAIN cache
-----------------------------------------------------------------------------
(* Google Drive. *)

\* Trashing a folder trashes what is in it.
Below(S) == S \cup {i \in DOMAIN drive : drive[i].parent \in S}
gdrive_trash(id) ==
    [i \in DOMAIN drive |-> [drive[i] EXCEPT !.trashed = @ \/ i \in Below(Below(Below({id})))]]
NewFile(parent, name, content) ==
    Append([i \in 1..Len(drive) |-> drive[i]],
           [name |-> name, parent |-> parent, content |-> content,
            trashed |-> parent # root /\ drive[parent].trashed])
\* The answers to a search by name in a folder.
Children(parent) == {i \in DOMAIN drive : drive[i].parent = parent /\ ~drive[i].trashed}
query(parent, name) == {i \in Children(parent) : drive[i].name = name}

\* The live entries at a path.
At(p) == FoldLeft(LAMBDA S, name : UNION {query(i, name) : i \in S}, {root}, p)
-----------------------------------------------------------------------------
(* The operations.  Each is given the operation k and the result r of what *)
(* it waited for, and says what it waits for next.                         *)

Wait(k, at, what) == [k EXCEPT !.at = at, !.wait = what]
Get(k, at, p) == Wait(k, at, [do |-> "get", path |-> p])
EnsureDir(k, at, p) == Wait(k, at, [do |-> "ensure_dir", path |-> p])
Insert(k, at, p, id) == Wait(k, at, [do |-> "insert", path |-> p, id |-> id])
Forget(k, at, p) == Wait(k, at, [do |-> "remove", path |-> p])
Send(k, at, id) == Wait(k, at, [do |-> "send", path |-> k.to, id |-> id])
Ok(k) == [k EXCEPT !.at = "ok"]
Err(k) == [k EXCEPT !.at = "err"]

create_dir(k, r) == IF k.at = "begin" THEN EnsureDir(k, "dir", k.to) ELSE Ok(k)

\* GdriveBackend::write and GdriveWriter::write_once.
writeMutant(k, r) ==
    CASE k.at = "begin"  -> Get(k, "target", k.to)
      [] k.at = "target" -> EnsureDir(k, "parent", get_parent(k.to))
      [] k.at = "parent" -> Send(k, "upload", r)
      [] k.at = "upload" -> Insert(k, "insert", k.to, r)
      [] k.at = "insert" -> Ok(k)
write(k, r) ==
    CASE k.at = "begin"  -> Get(k, "target", k.to)
      [] k.at = "target" /\ r # None -> Send(k, "overwrite", r)
      [] k.at = "target" /\ r = None -> EnsureDir(k, "parent", get_parent(k.to))
      [] k.at = "parent" -> Send(k, "upload", r)
      [] k.at = "upload" -> Insert(k, "insert", k.to, r)
      [] k.at \in {"overwrite", "insert"} -> Ok(k)

delete_onceMutant(k, r) ==
    CASE k.at = "begin"  -> Get(k, "target", k.to)
      [] k.at = "target" /\ r = None -> Ok(k)
      [] k.at = "target" /\ r # None -> Send(k, "trash", r)
      [] k.at = "trash" -> Ok(k)
delete_once(k, r) ==
    CASE k.at = "begin"  -> Get(k, "target", k.to)
      [] k.at = "target" /\ r = None -> Ok(k)
      [] k.at = "target" /\ r # None -> Send(k, "trash", r)
      [] k.at = "trash"  -> Forget(k, "remove", k.to)
      [] k.at = "remove" -> Ok(k)

copy(k, r) ==
    CASE k.at = "begin"  -> Get(k, "source", k.from)
      [] k.at = "source" /\ r = None -> Err(k)
      [] k.at = "source" /\ r # None -> EnsureDir([k EXCEPT !.file = r], "parent", get_parent(k.to))
      [] k.at = "parent" -> Get([k EXCEPT !.dir = r], "target", k.to)
      [] k.at = "target" /\ r # None -> Send(k, "trash", r)
      [] k.at = "trash"  -> Forget(k, "remove", k.to)
      [] k.at = "remove" \/ (k.at = "target" /\ r = None) -> Send(k, "copy", k.dir)
      [] k.at = "copy"   -> Ok(k)

\* rename, with gdrive_patch_metadata_request.
rename(k, r) ==
    CASE k.at = "begin"  -> Get(k, "target", k.to)
      [] k.at = "target" /\ r # None -> Send(k, "trash", r)
      [] k.at = "trash"  -> Forget(k, "remove", k.to)
      [] k.at = "remove" \/ (k.at = "target" /\ r = None) -> Get(k, "source", k.from)
      [] k.at = "source" /\ r = None -> Err(k)
      [] k.at = "source" /\ r # None -> Get([k EXCEPT !.file = r], "old_parent", get_parent(k.from))
      [] k.at = "old_parent" -> EnsureDir(k, "parent", get_parent(k.to))
      [] k.at = "parent" -> Send(k, "patch", r)
      [] k.at = "patch"  -> Forget(k, "remove_from", k.from)
      [] k.at = "remove_from" -> Insert(k, "insert", k.to, k.file)
      [] k.at = "insert" -> Ok(k)

\* next_page, for a listing of one page: every child that is not cached and that
\* a search does not find is inserted.
NextChild(k) == IF k.left = <<>> THEN Ok(k)
                ELSE Get(k, "child", Append(k.to, Head(k.left).name))
next_page(k, r) ==
    CASE k.at = "begin" -> Get(k, "target", k.to)
      [] k.at = "target" /\ r = None -> Ok(k)
      [] k.at = "target" /\ r # None -> Send(k, "list", r)
      [] k.at = "child" /\ r = None ->
           Insert([k EXCEPT !.left = Tail(@)], "insert", k.wait.path, Head(k.left).id)
      [] k.at = "child" /\ r # None -> NextChild([k EXCEPT !.left = Tail(@)])
      [] k.at \in {"list", "insert"} -> NextChild(k)

Resume(k, r) ==
    CASE k.op = "create_dir" -> create_dir(k, r)
      [] k.op = "write"  -> write(k, r)
      [] k.op = "delete" -> delete_once(k, r)
      [] k.op = "copy"   -> copy(k, r)
      [] k.op = "rename" -> rename(k, r)
      [] k.op = "list"   -> next_page(k, r)

\* What the user is told: Ok settles the files of the operation, an error leaves
\* them unknown.
Told(k) ==
    CASE k.at = "err" -> [p \in Files |-> IF p \in {k.from, k.to} THEN "unknown" ELSE said[p]]
      [] k.at = "ok" /\ k.op = "write"  -> [said EXCEPT ![k.to] = k.content]
      [] k.at = "ok" /\ k.op = "delete" /\ k.to \in Files -> [said EXCEPT ![k.to] = "none"]
      [] k.at = "ok" /\ k.op = "copy"   -> [said EXCEPT ![k.to] = said[k.from]]
      [] k.at = "ok" /\ k.op = "rename" -> [said EXCEPT ![k.to] = said[k.from], ![k.from] = "none"]
      [] OTHER -> said
Continue(c, k) ==
    IF k.at \in {"ok", "err"}
    THEN call' = [call EXCEPT ![c] = Idle] /\ said' = Told(k)
    ELSE call' = [call EXCEPT ![c] = k] /\ UNCHANGED said
Returns(c, r) == Continue(c, Resume(call[c], r))
-----------------------------------------------------------------------------
(* PathCacher. *)

lockMutant(c) == TRUE
lock(c) == Locked => holder = {}

Waits(c, what) == call[c].op # "idle" /\ call[c].wait.do = what
Holds(c) == c \in holder
Searching(c) == Holds(c) /\ call[c].op # "idle" /\ call[c].wait.do \in {"query", "create"}

\* What is left to search of a path below the id of its longest cached ancestor.
Search(c, kind, id, todo) ==
    call' = [call EXCEPT ![c].wait = [do |-> "query", kind |-> kind, path |-> call[c].wait.path,
                                      id |-> id, todo |-> todo]]
Prefix(p, n) == SubSeq(p, 1, n)

insert(c) ==
    LET path == call[c].wait.path  id == call[c].wait.id
    IN /\ Waits(c, "insert") /\ lock(c)
       /\ panic' = IF Cached(path) /\ cache[path] # id THEN "insert" ELSE panic
       /\ cache' = IF Cached(path) THEN cache
                   ELSE [p \in DOMAIN cache \cup {path} |-> IF p = path THEN id ELSE cache[p]]
       /\ Returns(c, None)
       /\ UNCHANGED <<drive, holder, begun, fails>>

remove(c) ==
    /\ Waits(c, "remove") /\ lock(c)
    /\ cache' = [p \in DOMAIN cache \ {call[c].wait.path} |-> cache[p]]
    /\ Returns(c, None)
    /\ UNCHANGED <<drive, holder, panic, begun, fails>>

\* get until it returns from the cache or sends its first query.
get(c) ==
    LET path == call[c].wait.path
        hits == {n \in 0..Len(path) : Cached(Prefix(path, n))}
        n == IF hits = {} THEN 0 ELSE CHOOSE h \in hits : \A g \in hits : g <= h
    IN /\ Waits(c, "get") /\ lock(c)
       /\ cache' = IF hits # {} THEN cache
                   ELSE [p \in DOMAIN cache \cup {<<>>} |-> IF p = <<>> THEN root ELSE cache[p]]
       /\ IF n = Len(path)
          THEN Returns(c, cache'[path]) /\ UNCHANGED holder
          ELSE /\ Search(c, "get", cache'[Prefix(path, n)], [i \in 1..(Len(path) - n) |-> Prefix(path, n + i)])
               /\ holder' = holder \cup {c}
               /\ UNCHANGED said
       /\ UNCHANGED <<drive, panic, begun, fails>>

\* The loop of ensure_dir from a parent on: the cached directories are stepped over.
Walk(c, id, todo) ==
    LET skipped == {n \in 0..Len(todo) : \A i \in 1..n : todo[i] \in DOMAIN cache'}
        n == CHOOSE h \in skipped : \A g \in skipped : g <= h
        at == IF n = 0 THEN id ELSE cache'[todo[n]]
    IN IF n = Len(todo)
       THEN holder' = holder \ {c} /\ Returns(c, at)
       ELSE /\ Search(c, "ensure_dir", at, SubSeq(todo, n + 1, Len(todo)))
            /\ holder' = holder \cup {c}
            /\ UNCHANGED said
ensure_dir(c) ==
    LET path == call[c].wait.path
    IN /\ Waits(c, "ensure_dir") /\ lock(c)
       /\ cache' = cache
       /\ Walk(c, root, [i \in 1..Len(path) |-> Prefix(path, i)])
       /\ UNCHANGED <<drive, panic, begun, fails>>

CacheAndGoOnMutant(c, id) ==
    LET w == call[c].wait  p == Head(w.todo)
    IN /\ cache' = [q \in DOMAIN cache \cup {p} |-> IF q = p THEN id ELSE cache[q]]
       /\ IF w.kind = "ensure_dir" THEN Walk(c, id, Tail(w.todo))
          ELSE UNCHANGED <<call, holder, said>>
CacheAndGoOn(c, id) ==
    LET w == call[c].wait  p == Head(w.todo)
    IN /\ cache' = [q \in DOMAIN cache \cup {p} |-> IF q = p THEN id ELSE cache[q]]
       /\ IF w.kind = "ensure_dir" THEN Walk(c, id, Tail(w.todo))
          ELSE IF Tail(w.todo) = <<>> THEN holder' = holder \ {c} /\ Returns(c, id)
          ELSE Search(c, "get", id, Tail(w.todo)) /\ UNCHANGED <<holder, said>>

\* A query is answered: query_down, and the body of the loop of ensure_dir.
query_down(c) ==
    LET w == call[c].wait  found == query(w.id, get_basename(Head(w.todo)))
    IN /\ Searching(c) /\ w.do = "query"
       /\ \/ \E id \in found : CacheAndGoOn(c, id) /\ UNCHANGED panic
          \/ /\ found = {} /\ w.kind = "get"
             /\ holder' = holder \ {c}
             /\ IF call[c].at = "old_parent"
                THEN panic' = "parent" /\ Continue(c, Err(call[c]))
                ELSE UNCHANGED panic /\ Returns(c, None)
             /\ UNCHANGED cache
          \/ /\ found = {} /\ w.kind = "ensure_dir"
             /\ call' = [call EXCEPT ![c].wait.do = "create"]
             /\ UNCHANGED <<cache, holder, said, panic>>
       /\ UNCHANGED <<drive, begun, fails>>

CreateDir(c) == LET w == call[c].wait IN NewFile(w.id, get_basename(Head(w.todo)), "dir")
query_create_dir(c) ==
    /\ Searching(c) /\ call[c].wait.do = "create"
    /\ drive' = CreateDir(c)
    /\ CacheAndGoOn(c, Len(drive'))
    /\ UNCHANGED <<panic, begun, fails>>

\* The request of an operation: its effect on the drive.
Effect(k) ==
    LET id == k.wait.id
    IN CASE k.at = "overwrite" -> [drive EXCEPT ![id].content = k.content]
         [] k.at = "upload" -> NewFile(id, get_basename(k.to), k.content)
         [] k.at = "trash"  -> gdrive_trash(id)
         [] k.at = "copy"   -> NewFile(id, get_basename(k.to), drive[k.file].content)
         [] k.at = "patch"  -> [drive EXCEPT ![k.file].parent = id, ![k.file].name = get_basename(k.to)]
         [] k.at = "list"   -> drive
Answer(c) ==
    LET k == call[c]
    IN /\ Waits(c, "send")
       /\ drive' = Effect(k)
       /\ IF k.at = "list"
          THEN \E left \in SetToSeqs({[id |-> i, name |-> drive[i].name] : i \in Children(k.wait.id)}) :
                 Continue(c, next_page([k EXCEPT !.left = left], None))
          ELSE Returns(c, Len(drive'))
       /\ UNCHANGED <<cache, holder, panic, begun, fails>>

\* A request fails, a get for a child of a listing without consequence.
Fail(c) ==
    LET k == call[c]
        create == k.wait.do = "create"
    IN /\ fails < MaxFails
       /\ Waits(c, "send") \/ Searching(c)
       /\ fails' = fails + 1
       /\ drive' \in {drive} \cup (IF ~Lossy \/ k.wait.do = "query" THEN {}
                                   ELSE IF create THEN {CreateDir(c)} ELSE {Effect(k)})
       /\ holder' = holder \ {c}
       /\ Continue(c, IF k.op = "list" /\ k.at = "child" THEN NextChild([k EXCEPT !.left = Tail(@)])
                      ELSE Err(k))
       /\ UNCHANGED <<cache, panic, begun>>
-----------------------------------------------------------------------------
Alone(k) == \/ k.op = "delete" /\ k.to \in Dirs
            \/ k.op = "list" /\ ListAlone
Touches(k) == IF k.op = "idle" THEN {} ELSE {k.from, k.to}

\* A user begins an operation on the file or the directory `to`.  With Disjoint, no
\* other user is at the same files, and a directory is deleted when it is empty
\* and nobody is at work.
Begin(c, op, from, to, content) ==
    LET k == [op |-> op, from |-> from, to |-> to, at |-> "begin", content |-> content,
              wait |-> [do |-> "nothing"], file |-> None, dir |-> None, left |-> <<>>]
        others == UNION {Touches(call[d]) : d \in Callers \ {c}}
    IN /\ begun < MaxOps
       /\ call[c].op = "idle"
       /\ Disjoint =>
            /\ {from, to} \cap others \cap Files = {}
            /\ \A d \in Callers : ~Alone(call[d])
            /\ Alone(k) => \A d \in Callers : call[d].op = "idle"
            /\ op = "delete" /\ to \in Dirs =>
                 /\ \A p \in Files : IsPrefix(to, p) => said[p] = "none"
                 /\ ~Trees => \A p \in Dirs \ {to} : IsPrefix(to, p) => At(p) = {}
       /\ call' = [call EXCEPT ![c] = Resume(k, None)]
       /\ begun' = begun + 1
       /\ UNCHANGED <<drive, cache, holder, said, panic, fails>>

Init ==
    /\ drive = <<>>
    /\ cache = [p \in {} |-> root]
    /\ holder = {}
    /\ call = [c \in Callers |-> Idle]
    /\ said = [p \in Files |-> "none"]
    /\ panic = "none"
    /\ begun = 0
    /\ fails = 0

Ended ==
    /\ begun = MaxOps
    /\ \A c \in Callers : call[c].op = "idle"
    /\ UNCHANGED vars

Step(c) ==
    \/ insert(c) \/ remove(c) \/ get(c) \/ ensure_dir(c)
    \/ query_down(c) \/ query_create_dir(c) \/ Answer(c) \/ Fail(c)

Next ==
    \/ \E c \in Callers :
         \/ \E p \in Dirs \ {<<>>} : Begin(c, "create_dir", p, p, "dir")
         \/ \E p \in Files, v \in Contents : Begin(c, "write", p, p, v)
         \/ \E p \in (Files \cup Dirs) \ {<<>>} : Begin(c, "delete", p, p, "none")
         \/ \E p \in Files : \E q \in Files \ {p} : Begin(c, "copy", p, q, "none")
         \/ \E p \in Files : \E q \in Files \ {p} : Begin(c, "rename", p, q, "none")
         \/ \E p \in Dirs : Begin(c, "list", p, p, "none")
         \/ Step(c)
    \/ Ended

\* A call is polled until it returns.
Spec == Init /\ [][Next]_vars /\ \A c \in Callers : WF_vars(Step(c))
-----------------------------------------------------------------------------
Quiet(p) == \A c \in Callers : p \notin Touches(call[c])

\* "Some services like gdrive allows the same name to exist in the same
\* directory.  We need to introduce a global lock": whatever the users do, and
\* although a folder may have been created by a request that failed, a directory
\* is at most one folder.
OneDirPerPath == \A p \in Dirs : Cardinality(At(p)) <= 1

\* The cache never sends an operation to the wrong file: when no operation is at
\* a file, the drive has under its path what the last answer said, in one file.
DriveIsAsTold ==
    \A p \in Files : Quiet(p) /\ said[p] # "unknown" =>
        IF said[p] = "none" THEN At(p) = {}
        ELSE \E i \in DOMAIN drive : At(p) = {i} /\ drive[i].content = said[p]

\* The assertions of the code: insert finds no other id under its path ("This
\* should never happen"), and the parent of a file that is renamed exists.
AssertionsHold == panic = "none"

\* An operation is going on.  Nobody waits for ever for the lock, and no operation
\* keeps it: every operation returns.
Working(c) == call[c].op # "idle"
=============================================================================
