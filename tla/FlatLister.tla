----------------------------- MODULE FlatLister -----------------------------
(***************************************************************************)
(* The list of CompleteLayer for a service that cannot list recursively:    *)
(* FlatLister of core/src/raw/oio/list/flat_list.rs walks the directories,  *)
(* and PrefixLister filters what has the path as a prefix when the path is  *)
(* not that of a directory.  RetryLayer may repeat a call that failed.      *)
(*                                                                          *)
(* The tree is a function from the nodes 1..n to their parents; 0 is the    *)
(* directory that is listed.  A prefix is the set of the children of 0      *)
(* whose name begins with it.                                               *)
(***************************************************************************)
EXTENDS Naturals, Sequences, SequencesExt

CONSTANTS
  MaxNodes,      \* bound: nodes of the tree
  MaxFailures    \* bound: calls that fail

FlatAssumption == {MaxNodes, MaxFailures} \subseteq Nat

Root == 0
None == MaxNodes + 1

VARIABLES
  parent, dirs,    \* the tree
  prefix,
  recursive,
  next_dir,        \* FlatLister
  active_lister,   \* FlatLister: a stack of [de, left], left: what the lister has yet to return
  failures,
  status,          \* "listing", "end", "error"
  out              \* history: what the user got

tree == <<parent, dirs, prefix, recursive>>
vars == <<tree, next_dir, active_lister, failures, status, out>>

Nodes == {Root} \cup DOMAIN parent
Children(d) == {n \in DOMAIN parent : parent[n] = d}

(* The nodes above a node, itself included.                                 *)
Path(n) ==
  LET up[k \in 0..MaxNodes] == IF k = Root THEN {Root} ELSE {k} \cup up[parent[k]]
  IN  up[n]

StartsWith(n) == prefix \cap Path(n) # {}

(* Some services return the directory among its entries.                    *)
Init ==
  /\ \E n \in 0..MaxNodes :
       /\ parent \in {f \in [1..n -> 0..n] : \A k \in 1..n : f[k] < k}
       /\ \E ds \in SUBSET (1..n) : dirs = {Root} \cup ds
  /\ \A n \in DOMAIN parent : parent[n] \in dirs
  /\ prefix \in {{Root}} \cup SUBSET Children(Root)
  /\ recursive \in BOOLEAN
  /\ next_dir = Root
  /\ active_lister = <<>>
  /\ failures = 0
  /\ status = "listing"
  /\ out = <<>>

(* What PrefixLister does with an entry of the lister inside.               *)
Return(n) == out' = IF StartsWith(n) THEN Append(out, n) ELSE out

OpenDir ==
  /\ status = "listing"
  /\ next_dir # None
  /\ \E left \in {Children(next_dir), Children(next_dir) \cup {next_dir}} :
       active_lister' = Append(active_lister, [de |-> next_dir, left |-> left])
  /\ next_dir' = None
  /\ UNCHANGED <<tree, failures, status, out>>

Fails ==
  /\ failures < MaxFailures
  /\ failures' = failures + 1
  /\ status' \in {"listing", "error"}   \* repeated by RetryLayer, or given up

(* next_dir is taken before the call that fails.                            *)
OpenDirErr ==
  /\ status = "listing"
  /\ next_dir # None
  /\ recursive
  /\ Fails
  /\ next_dir' = None
  /\ UNCHANGED <<tree, active_lister, out>>

Advances == status = "listing" /\ next_dir = None /\ active_lister # <<>>

ReplaceLast(l) == active_lister' = Append(Front(active_lister), l)

NextEntry(n) ==
  /\ Advances
  /\ n \in Last(active_lister).left
  /\ ReplaceLast([Last(active_lister) EXCEPT !.left = @ \ {n}])
  /\ IF recursive /\ n \in dirs
       THEN /\ next_dir' = IF n = Last(active_lister).de THEN None ELSE n
            /\ UNCHANGED out
       ELSE UNCHANGED next_dir /\ Return(n)
  /\ UNCHANGED <<tree, failures, status>>

NextEntryErr ==
  /\ Advances
  /\ Fails
  /\ UNCHANGED <<tree, next_dir, active_lister, out>>

(* A lister at its end: the entry of its directory, then the one below.     *)
ReturnDirMutant ==           \* the directory is returned when it is opened
  /\ status = "listing" /\ recursive
  /\ next_dir # None /\ next_dir \notin Range(out)
  /\ Return(next_dir)
  /\ UNCHANGED <<tree, next_dir, active_lister, failures, status>>

ReturnDir ==
  /\ Advances
  /\ recursive
  /\ Last(active_lister).left = {}
  /\ Last(active_lister).de # None
  /\ Return(Last(active_lister).de)
  /\ ReplaceLast([Last(active_lister) EXCEPT !.de = None])
  /\ UNCHANGED <<tree, next_dir, failures, status>>

PopListerMutant ==           \* a lister is popped with the entry it has returned last
  /\ Advances
  /\ Last(active_lister).left = {}
  /\ active_lister' = Front(active_lister)
  /\ UNCHANGED <<tree, next_dir, failures, status, out>>

PopListerMutant2 ==          \* a lister at its end is asked again
  /\ Advances
  /\ Last(active_lister).left = {}
  /\ recursive => Last(active_lister).de = None
  /\ UNCHANGED vars

PopLister ==
  /\ Advances
  /\ Last(active_lister).left = {}
  /\ recursive => Last(active_lister).de = None
  /\ active_lister' = Front(active_lister)
  /\ UNCHANGED <<tree, next_dir, failures, status, out>>

EndList ==
  /\ status = "listing"
  /\ next_dir = None /\ active_lister = <<>>
  /\ status' = "end"
  /\ UNCHANGED <<tree, next_dir, active_lister, failures, out>>

Next ==
  \/ OpenDir \/ OpenDirErr
  \/ \E n \in Nodes : NextEntry(n)
  \/ NextEntryErr
  \/ ReturnDir \/ PopLister \/ EndList

Spec == Init /\ [][Next]_vars /\ WF_vars(Next)

-----------------------------------------------------------------------------
(* "We only make sure the nested dirs will show up before parent dirs": no  *)
(* node follows the directory it is in, and none comes twice.               *)
NestedFirst ==
  /\ IsInjective(out)
  /\ recursive => \A i, j \in DOMAIN out : i < j => out[i] \notin Path(out[j])

(* "`Ok(None)` means all pages have been returned": everything below the    *)
(* directory that has the prefix, and nothing else, was returned.           *)
ListsAll ==
  status = "end" =>
    {n \in DOMAIN parent : StartsWith(n) /\ (recursive \/ parent[n] = Root)}
      = Range(out) \ {Root}

(* The walk goes on.  It ends.                                              *)
Listing == status = "listing"
=============================================================================
