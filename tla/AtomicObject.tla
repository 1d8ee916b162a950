---------------------------- MODULE AtomicObject ----------------------------
(***************************************************************************)
(* What a multipart writer promises its user: the object appears all at     *)
(* once, with every write that was acknowledged, in order, and nothing      *)
(* else.  A close that fails may or may not have committed the object; a    *)
(* close that succeeds has.  Once the user has tried to abort a writer      *)
(* whose upload had begun, nothing is promised about what it was given.     *)
(***************************************************************************)
EXTENDS Sequences

CONSTANTS Data, NoObject

VARIABLES
  written,    \* the acknowledged writes
  object,     \* what a reader of the path sees
  state,      \* "open", "closed" or "aborted"
  discarded   \* an abort has begun

vars == <<written, object, state, discarded>>

Init ==
  /\ written = <<>>
  /\ object = NoObject
  /\ state = "open"
  /\ discarded = FALSE

Write(d) ==
  /\ state = "open"
  /\ ~discarded
  /\ written' = Append(written, d)
  /\ UNCHANGED <<object, state, discarded>>

Commit ==
  /\ state = "open"
  /\ object' = written
  /\ UNCHANGED <<written, state, discarded>>

Close ==
  /\ state = "open"
  /\ object' = written
  /\ state' = "closed"
  /\ UNCHANGED <<written, discarded>>

Discard ==
  /\ state = "open"
  /\ discarded' = TRUE
  /\ UNCHANGED <<written, object, state>>

(* A writer whose abort failed half way may still be closed or aborted.     *)
AfterDiscard ==
  /\ state = "open"
  /\ discarded
  /\ state' \in {"open", "closed", "aborted"}
  /\ object' \in {object, written, <<>>}
  /\ UNCHANGED <<written, discarded>>

Abort ==
  /\ state = "open"
  /\ state' = "aborted"
  /\ UNCHANGED <<written, object, discarded>>

Next ==
  \/ \E d \in Data : Write(d)
  \/ Commit
  \/ Close
  \/ Discard
  \/ AfterDiscard
  \/ Abort

Spec == Init /\ [][Next]_vars
=============================================================================
