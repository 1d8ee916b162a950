------------------------------ MODULE KvLister ------------------------------
(***************************************************************************)
(* list and remove_all over a kv service: the scan of the adapter, KvLister *)
(* and HierarchyLister of core/src/raw, create_dir as CompleteLayer does it *)
(* for a service without directories, while the keys change.                *)
(*                                                                          *)
(* A path is a sequence of characters, "/" among them; the root is <<>>.    *)
(* "_" is a character that SQL's LIKE takes for any one.                    *)
(***************************************************************************)
EXTENDS Naturals, Sequences, SequencesExt, FiniteSets

CONSTANTS
  Services,    \* the adapters that are checked
  Files, Dirs, \* the keys: paths of files and of directories
  Paths,       \* the paths that are listed and removed
  PageSize,    \* bound: keys in the answer of a store that returns a page
  MaxKeys,     \* bound: keys at first
  MaxOps       \* bound: changes of the keys

(* How the scan of an adapter selects keys.                                  *)
MemoryScan       == "prefix"
DashmapScan      == "prefix"
MokaScan         == "prefix"
MiniMokaScan     == "prefix"
SledScan         == "prefix"
RocksdbScan      == "prefix"
EtcdScan         == "prefix"
NebulaGraphScan  == "prefix"
SqliteScan       == "like"
CloudflareKvScan == "page"

AdapterScan ==
  [memory |-> MemoryScan, dashmap |-> DashmapScan, moka |-> MokaScan,
   mini_moka |-> MiniMokaScan, sled |-> SledScan, rocksdb |-> RocksdbScan,
   etcd |-> EtcdScan, nebula_graph |-> NebulaGraphScan, sqlite |-> SqliteScan,
   cloudflare_kv |-> CloudflareKvScan]

KvListAssumption ==
  /\ Services \subseteq DOMAIN AdapterScan
  /\ {PageSize, MaxKeys, MaxOps} \subseteq Nat

VARIABLES
  scan,        \* how the store selects keys
  keys,
  path, recursive, visited,   \* HierarchyLister
  left,        \* what the scan has yet to return
  removing,    \* remove_all of path, not a list of it
  status,      \* "idle", "stat", "list", "end"
  ops,
  found,       \* history: the keys when the scan was made
  written,     \* history: the keys written since then
  out          \* history: what the lister returned

lister == <<path, recursive, visited, left, removing, status, found, out>>
vars == <<scan, keys, lister, ops, written>>

StartsWith(k, p) == IsPrefix(p, k)

Like(k, p) ==
  Len(k) >= Len(p) /\ \A i \in DOMAIN p : p[i] \in {"_", k[i]}

Scan(p) ==
  CASE scan = "prefix" -> {{k \in keys : StartsWith(k, p)}}
    [] scan = "like"   -> {{k \in keys : Like(k, p)}}
    [] scan = "page"   ->
         LET all == {k \in keys : StartsWith(k, p)} IN
         IF Cardinality(all) <= PageSize THEN {all}
         ELSE {ks \in SUBSET all : Cardinality(ks) = PageSize}

Init ==
  /\ scan \in {AdapterScan[s] : s \in Services}
  /\ keys \in SUBSET (Files \cup Dirs) /\ Cardinality(keys) <= MaxKeys
  /\ path = <<>> /\ recursive = FALSE /\ visited = {}
  /\ left = {} /\ removing = FALSE /\ status = "idle"
  /\ ops = 0 /\ found = {} /\ written = {} /\ out = <<>>

(* A list has made its scan: changes matter to a remove_all.                *)
Changes(ks) ==
  /\ removing /\ status \in {"stat", "list"}
  /\ ops < MaxOps
  /\ ops' = ops + 1
  /\ keys' = ks
  /\ UNCHANGED <<scan, lister>>

Write(k) == Changes(keys \cup {k}) /\ written' = written \cup {k}

(* A directory is an empty value at a path that ends with "/".              *)
CreateDir(d) == Changes(keys \cup {d}) /\ written' = written \cup {d}

Delete(k) == k \in keys /\ Changes(keys \ {k}) /\ UNCHANGED written

ScanKeys(ks) ==
  /\ visited' = {} /\ left' = ks /\ found' = keys /\ out' = <<>>
  /\ status' = "list"
  /\ UNCHANGED <<scan, ops>>

List(p, r) ==
  /\ status = "idle"
  /\ path' = p /\ recursive' = r /\ removing' = FALSE
  /\ \E ks \in Scan(p) : ScanKeys(ks)
  /\ UNCHANGED <<keys, written>>

RemoveAllMutant(p) ==        \* the directory above is deleted
  /\ status = "idle"
  /\ path' = p /\ recursive' = TRUE /\ removing' = TRUE
  /\ status' = "stat"
  /\ keys' = {k \in keys : ~StartsWith(p, k)}
  /\ written' = {}
  /\ UNCHANGED <<scan, visited, left, ops, found, out>>

(* stat, and the delete of what is a file.                                  *)
RemoveAll(p) ==
  /\ status = "idle"
  /\ path' = p /\ recursive' = TRUE /\ removing' = TRUE
  /\ status' = "stat"
  /\ keys' = IF p \in Files THEN keys \ {p} ELSE keys
  /\ written' = {}
  /\ UNCHANGED <<scan, visited, left, ops, found, out>>

RemoveList ==
  /\ status = "stat"
  /\ \E ks \in Scan(path) : ScanKeys(ks)
  /\ UNCHANGED <<keys, path, recursive, removing, written>>

(* The part of a path down to the first "/" below p.                        *)
FirstLevel(e, p) ==
  LET slashes == {i \in DOMAIN e : i > Len(p) /\ e[i] = "/"} IN
  IF slashes = {} THEN e
  ELSE SubSeq(e, 1, CHOOSE i \in slashes : \A j \in slashes : i <= j)

(* What keep_entry makes of an entry, <<>> when it is dropped, and what it  *)
(* has visited then.                                                        *)
KeepEntryMutant(e) ==        \* only an entry that is shortened is remembered
  LET first == FirstLevel(e, path) IN
  IF ~StartsWith(e, path) \/ e \in visited \/ (first # e /\ first \in visited)
    THEN [keep |-> <<>>, visited |-> visited]
    ELSE [keep |-> first, visited |-> IF first # e THEN visited \cup {first} ELSE visited]

KeepEntry(e) ==
  LET first == FirstLevel(e, path)
      isDir == Len(first) > Len(path) /\ Last(first) = "/"
  IN  IF ~StartsWith(e, path) \/ e \in visited \/ (first # e /\ first \in visited)
        THEN [keep |-> <<>>, visited |-> visited]
        ELSE [keep |-> first, visited |-> IF isDir THEN visited \cup {first} ELSE visited]

(* KvLister calls the key of the root "/".                                  *)
EntryOf(k) == IF k = <<>> THEN <<"/">> ELSE k

NextEntryMutant(k) ==        \* directories are not deleted
  /\ status = "list"
  /\ k \in left
  /\ left' = left \ {k}
  /\ LET e == EntryOf(k)
         keep == IF recursive THEN [keep |-> e, visited |-> visited] ELSE KeepEntry(e)
     IN  /\ visited' = keep.visited
         /\ out' = IF keep.keep = <<>> THEN out ELSE Append(out, keep.keep)
  /\ keys' = IF removing /\ k \in Files THEN keys \ {k} ELSE keys
  /\ UNCHANGED <<scan, path, recursive, removing, status, ops, found, written>>

NextEntry(k) ==
  /\ status = "list"
  /\ k \in left
  /\ left' = left \ {k}
  /\ LET e == EntryOf(k)
         keep == IF recursive THEN [keep |-> e, visited |-> visited] ELSE KeepEntry(e)
     IN  /\ visited' = keep.visited
         /\ out' = IF keep.keep = <<>> THEN out ELSE Append(out, keep.keep)
  /\ keys' = IF removing THEN keys \ {k} ELSE keys
  /\ UNCHANGED <<scan, path, recursive, removing, status, ops, found, written>>

EndList ==
  /\ status = "list"
  /\ left = {}
  /\ status' = "end"
  /\ UNCHANGED <<scan, keys, path, recursive, visited, left, removing, ops, found, written, out>>

Next ==
  \/ \E k \in Files : Write(k)
  \/ \E d \in Dirs : CreateDir(d)
  \/ \E k \in Files \cup Dirs : Delete(k) \/ NextEntry(k)
  \/ \E p \in Paths : (\E r \in BOOLEAN : List(p, r)) \/ RemoveAll(p)
  \/ RemoveList
  \/ EndList

Spec == Init /\ [][Next]_vars

-----------------------------------------------------------------------------
(* "Scan a key prefix to get all keys that start with this key", and        *)
(* "convert a flat list to hierarchy": a list returns, each once, what      *)
(* starts with the path, down to the first "/" below it unless it is        *)
(* recursive.                                                               *)
ListsLevel ==
  LET below == {EntryOf(k) : k \in {x \in found : StartsWith(x, path)}} IN
  status = "end" =>
    /\ IsInjective(out)
    /\ Range(out) = IF recursive THEN below ELSE {FirstLevel(e, path) : e \in below}

(* remove_all leaves nothing that starts with the path, but what was        *)
(* written after it began.                                                  *)
RemovesAll ==
  status = "end" /\ removing =>
    \A k \in keys : StartsWith(k, path) => k \in written

(* What a step of remove_all deletes starts with its path.                  *)
RemovesBelow ==
  \A k \in keys \ keys' : removing' /\ ops' = ops => StartsWith(k, path')

(* "Remove the path and all nested dirs and files": not what only begins    *)
(* with the same characters.                                                *)
Nested(k, p) ==
  \/ k = p
  \/ StartsWith(k, IF p = <<>> \/ Last(p) = "/" THEN p ELSE Append(p, "/"))

RemovesNested ==
  [][\A k \in keys \ keys' : removing' /\ ops' = ops => Nested(k, path')]_vars
=============================================================================
