---------------------------- MODULE OrderedQueue ----------------------------
(***************************************************************************)
(* What ConcurrentTasks promises its owner, with no tasks in sight: a queue *)
(* that hands out exactly the inputs it accepted, once each and in order,   *)
(* and that may break down, losing what it holds, but then never hands out  *)
(* or accepts anything again.                                               *)
(***************************************************************************)
EXTENDS Sequences

CONSTANT Input

VARIABLES
  pending,    \* accepted and not yet handed out
  delivered,  \* handed out
  broken

vars == <<pending, delivered, broken>>

Init ==
  /\ pending = <<>>
  /\ delivered = <<>>
  /\ broken = FALSE

Accept(i) ==
  /\ ~broken
  /\ pending' = Append(pending, i)
  /\ UNCHANGED <<delivered, broken>>

Deliver ==
  /\ ~broken
  /\ pending # <<>>
  /\ delivered' = Append(delivered, Head(pending))
  /\ pending' = Tail(pending)
  /\ UNCHANGED broken

(* The owner gives up everything that is pending.                           *)
Discard ==
  /\ pending' = <<>>
  /\ UNCHANGED <<delivered, broken>>

Break ==
  /\ pending' = <<>>
  /\ broken' = TRUE
  /\ UNCHANGED delivered

Next ==
  \/ \E i \in Input : Accept(i)
  \/ Deliver
  \/ Discard
  \/ Break

Spec == Init /\ [][Next]_vars
=============================================================================
