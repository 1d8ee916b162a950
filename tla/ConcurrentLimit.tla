--------------------------- MODULE ConcurrentLimit ---------------------------
(***************************************************************************)
(* ConcurrentLimitLayer of core/src/layers/concurrent_limit.rs and the ways *)
(* the operator uses it.  create_dir and stat hold a permit of the          *)
(* semaphore while they run.  read, write, list and delete leave theirs in  *)
(* the reader, writer, lister or deleter they return, until it is dropped.  *)
(*                                                                          *)
(* A user runs one operation.  Plan says how many permits it takes in turn  *)
(* and how many it holds before it lets go of the first.                    *)
(***************************************************************************)
EXTENDS Integers, Sequences, SequencesExt, FiniteSetsExt

CONSTANTS
  Users,
  Kind,          \* what a user does: a function from Users
  Permits,
  Concurrent,    \* of a chunked read
  Chunks         \* the number of chunks of a chunked read

LimitAssumption ==
  /\ {Permits, Concurrent, Chunks} \subseteq Nat \ {0}
  /\ DOMAIN Kind = Users

VARIABLES
  free,      \* the permits of the semaphore
  queue,     \* who waits for one: tokio's semaphore is fair
  pc,        \* per user: "idle", "wait", "inner", "done"
  shorts,    \* per user: calls of stat and delete to make
  opens,     \* per user: readers, writers, listers and deleters to open
  held,      \* per user: those it has
  panicked

vars == <<free, queue, pc, shorts, opens, held, panicked>>

Plan(u) ==
  CASE Kind[u] = "stat" -> [shorts |-> 1, opens |-> 0, hold |-> 0]
    [] Kind[u] = "stream" -> [shorts |-> 0, opens |-> 1, hold |-> 1]
    [] Kind[u] = "chunked" -> [shorts |-> 1, opens |-> Chunks, hold |-> Concurrent]
    [] Kind[u] = "remove_all" -> [shorts |-> 2, opens |-> 2, hold |-> 2]
    [] Kind[u] = "blocking" -> [shorts |-> 0, opens |-> 1, hold |-> 1]

Init ==
  /\ free = Permits
  /\ queue = <<>>
  /\ pc = [u \in Users |-> "idle"]
  /\ shorts = [u \in Users |-> Plan(u).shorts]
  /\ opens = [u \in Users |-> Plan(u).opens]
  /\ held = [u \in Users |-> 0]
  /\ panicked = FALSE

Goto(u, l) == pc' = [pc EXCEPT ![u] = l]

-----------------------------------------------------------------------------
(* The chunked reader opens the next reader as long as it has room for a    *)
(* task; remove_all has its lister when it opens the deleter.               *)
WantsToOpenMutant(u) == shorts[u] = 0 /\ opens[u] > 0 /\ held[u] <= Plan(u).hold
WantsToOpen(u) == shorts[u] = 0 /\ opens[u] > 0 /\ held[u] < Plan(u).hold

Acquire(u) ==
  /\ pc[u] = "idle"
  /\ Kind[u] # "blocking"
  /\ shorts[u] > 0 \/ WantsToOpen(u)
  /\ queue' = Append(queue, u)
  /\ Goto(u, "wait")
  /\ UNCHANGED <<free, shorts, opens, held, panicked>>

Grant ==
  /\ queue # <<>>
  /\ free > 0
  /\ free' = free - 1
  /\ queue' = Tail(queue)
  /\ Goto(Head(queue), "inner")
  /\ UNCHANGED <<shorts, opens, held, panicked>>

(* try_acquire: it is an error when there is no permit, and expect panics.  *)
BlockingAcquire(u) ==
  /\ pc[u] = "idle"
  /\ Kind[u] = "blocking"
  /\ WantsToOpen(u)
  /\ \/ /\ free > 0
        /\ queue = <<>>
        /\ free' = free - 1
        /\ Goto(u, "inner")
        /\ UNCHANGED panicked
     \/ /\ free = 0
        /\ panicked' = TRUE
        /\ Goto(u, "done")
        /\ UNCHANGED free
  /\ UNCHANGED <<queue, shorts, opens, held>>

StatOk(u) ==
  /\ pc[u] = "inner"
  /\ shorts[u] > 0
  /\ shorts' = [shorts EXCEPT ![u] = @ - 1]
  /\ free' = free + 1
  /\ Goto(u, "idle")
  /\ UNCHANGED <<queue, opens, held, panicked>>

OpenOkMutant(u) ==       \* the wrapper does not keep the permit
  /\ pc[u] = "inner"
  /\ shorts[u] = 0
  /\ opens' = [opens EXCEPT ![u] = @ - 1]
  /\ held' = [held EXCEPT ![u] = @ + 1]
  /\ free' = free + 1
  /\ Goto(u, "idle")
  /\ UNCHANGED <<queue, shorts, panicked>>

OpenOk(u) ==
  /\ pc[u] = "inner"
  /\ shorts[u] = 0
  /\ opens' = [opens EXCEPT ![u] = @ - 1]
  /\ held' = [held EXCEPT ![u] = @ + 1]
  /\ Goto(u, "idle")
  /\ UNCHANGED <<free, queue, shorts, panicked>>

(* The permits that go back when the user ends or is dropped at an await.   *)
Ends(u) ==
  /\ free' = free + held[u] + (IF pc[u] = "inner" THEN 1 ELSE 0)
  /\ held' = [held EXCEPT ![u] = 0]
  /\ queue' = SelectSeq(queue, LAMBDA v : v # u)
  /\ Goto(u, "done")
  /\ UNCHANGED <<shorts, opens, panicked>>

(* The inner call fails, and with it the operation of the user.             *)
InnerErr(u) == pc[u] = "inner" /\ Ends(u)

(* The user drops the future it waits for.                                  *)
Cancelled(u) == pc[u] \in {"wait", "inner"} /\ Kind[u] # "blocking" /\ Ends(u)

(* The first task is done and its reader is dropped to make room.           *)
DropFirst(u) ==
  /\ pc[u] = "idle"
  /\ held[u] > 0
  /\ shorts[u] = 0 /\ ~WantsToOpen(u)
  /\ held' = [held EXCEPT ![u] = @ - 1]
  /\ free' = free + 1
  /\ UNCHANGED <<queue, pc, shorts, opens, panicked>>

Finish(u) ==
  /\ pc[u] = "idle"
  /\ shorts[u] = 0 /\ opens[u] = 0 /\ held[u] = 0
  /\ Ends(u)

Runs(u) ==
  \/ Acquire(u) \/ BlockingAcquire(u)
  \/ StatOk(u) \/ OpenOk(u) \/ InnerErr(u)
  \/ DropFirst(u) \/ Finish(u)

Next == Grant \/ \E u \in Users : Runs(u) \/ Cancelled(u)

Fairness == WF_vars(Grant) /\ \A u \in Users : WF_vars(Runs(u))

Spec == Init /\ [][Next]_vars /\ Fairness

-----------------------------------------------------------------------------
(* Every permit is in the semaphore, with a running call or in an object    *)
(* that was opened, whoever failed or was dropped: no permit is lost, and   *)
(* there are never more than Permits connections.                           *)
EveryPermitIsSomewhere ==
  free + FoldSet(LAMBDA u, n : n + held[u], 0, Users)
       + Cardinality({u \in Users : pc[u] = "inner"}) = Permits

(* A user is at work.  Nobody waits forever: in particular not on what it   *)
(* holds itself.                                                            *)
Working(u) == pc[u] # "done"

(* `expect("semaphore must be valid")` does not fail.                       *)
NeverPanics == ~panicked
=============================================================================
