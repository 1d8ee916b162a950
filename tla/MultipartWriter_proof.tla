----------------------- MODULE MultipartWriter_proof -----------------------
(***************************************************************************)
(* A multipart upload that was closed with success holds every acknowledged *)
(* buffer, once and in order: for every concurrency, every sequence of      *)
(* buffers, and every failure, retry, late request and dropped call.        *)
(***************************************************************************)
EXTENDS MultipartWriter, SequenceTheorems, TLAPS

(* The control state: which call is where, and what is known there.         *)
ControlInv ==
  /\ (exec # "none") <=> Executing
  /\ exec = "inline" => ~IsConcurrent /\ input \in sent
  /\ ~IsConcurrent => tasks = <<>>
  /\ errored => tasks = <<>> /\ results = <<>> /\ exec \in {"none", "poll"}
  /\ Executing => /\ input = PendingPart
                  /\ cache # NoData
                  /\ upload_id > 0
  /\ pc = "initiate" => upload_id = 0 /\ cache # NoData
  /\ pc = "write_once" => upload_id = 0
  /\ pc \in {"drain", "complete", "abort_part"} => cache = NoData /\ upload_id > 0
  /\ pc \in {"complete", "abort_part"} => tasks = <<>> /\ results = <<>>

(* Before the upload there is no trace of it; after an abort has begun, or  *)
(* once close collects parts, nothing is pending.                           *)
PhaseInv ==
  /\ upload_id = 0 => /\ parts = <<>> /\ results = <<>> /\ tasks = <<>>
                      /\ next_part_number = 0 /\ sent = {}
                      /\ ~discarded /\ ~errored
  /\ discarded => cache = NoData /\ tasks = <<>> /\ results = <<>>
  /\ parts # <<>> => cache = NoData
  /\ inner # "open" => /\ pc = "idle" /\ tasks = <<>>
                       /\ upload_id > 0 => uploads[upload_id] # "open"

(* Every part number given out belongs to one part, and the parts stand in  *)
(* the order of their numbers: first those close has collected, then the    *)
(* results, then the tasks.                                                 *)
NumberInv ==
  /\ \A k \in 1..Len(parts) : parts[k].part + 1 = k /\ parts[k] \in sent
  /\ \A k \in 1..Len(results) :
       results[k].part + 1 = Len(parts) + k /\ results[k] \in sent
  /\ \A k \in 1..Len(tasks) :
       /\ tasks[k].input.part + 1 = Len(parts) + Len(results) + k
       /\ tasks[k].input \in sent
  /\ ~errored /\ ~discarded =>
       next_part_number = Len(parts) + Len(results) + Len(tasks)

(* What was acknowledged is what the part numbers given out stand for,      *)
(* followed by the pending buffer.                                          *)
AcceptedInv ==
  /\ SentPartsAgree
  /\ next_part_number <= Len(accepted)
  /\ inner = "open" /\ cache # NoData =>
       /\ Len(accepted) = next_part_number + 1
       /\ cache = accepted[next_part_number + 1]
  /\ inner = "open" /\ cache = NoData /\ ~discarded => Len(accepted) = next_part_number
  /\ discarded /\ parts # <<>> => Len(accepted) = next_part_number
  /\ pc = "complete" => Len(parts) = next_part_number

IInv ==
  /\ TypeOK
  /\ ControlInv
  /\ PhaseInv
  /\ NumberInv
  /\ AcceptedInv
  /\ ClosedObjectIsComplete

-----------------------------------------------------------------------------
(* What the requests to the service do. *)

(* initiate_part that takes effect adds one open upload.                    *)
LEMMA OpenUploadFacts ==
  ASSUME TypeOK, OpenUpload
  PROVE  /\ uploads' \in Seq({"open", "completed", "aborted"})
         /\ Len(uploads') = Len(uploads) + 1
         /\ Len(uploads') \in Nat
  BY AppendProperties DEF TypeOK, OpenUpload

(* complete_part and abort_part change the state of the one upload they name. *)
LEMMA StatusFacts ==
  ASSUME TypeOK, UploadOpen, NEW s \in {"completed", "aborted"},
         uploads' = [uploads EXCEPT ![upload_id] = s]
  PROVE  /\ uploads' \in Seq({"open", "completed", "aborted"})
         /\ Len(uploads') = Len(uploads)
         /\ uploads'[upload_id] = s
<1>1. upload_id \in 1..Len(uploads)
  BY DEF TypeOK, UploadOpen
<1>2. QED
  BY <1>1, ExceptSeq DEF TypeOK

(* write_once puts what was acknowledged at the path.                       *)
LEMMA WriteOnceFacts ==
  ASSUME IInv, pc = "write_once", WriteOnce
  PROVE  object' \in Seq(Data) /\ object' = accepted
<1>1. upload_id = 0 /\ next_part_number = 0 /\ inner = "open" /\ ~discarded
  BY DEF IInv, ControlInv, PhaseInv
<1>2. accepted \in Seq(Data)
  BY DEF IInv, TypeOK
<1>3. CASE cache = NoData
  <2>1. Len(accepted) = 0
    BY <1>1, <1>3 DEF IInv, AcceptedInv
  <2>2. accepted = <<>>
    BY <1>2, <2>1
  <2>3. QED
    BY <1>2, <1>3, <2>2 DEF WriteOnce
<1>4. CASE cache # NoData
  <2>1. Len(accepted) = 1 /\ cache = accepted[1]
    BY <1>1, <1>4 DEF IInv, AcceptedInv
  <2>2. accepted = <<cache>>
    BY <1>2, <2>1
  <2>3. QED
    BY <1>2, <1>4, <2>2 DEF WriteOnce
<1>5. QED
  BY <1>3, <1>4

(* complete_part puts what was acknowledged at the path; after a failed     *)
(* abort, possibly nothing.                                                 *)
LEMMA CompleteFacts ==
  ASSUME IInv, pc = "complete", CompleteUpload
  PROVE  /\ uploads' \in Seq({"open", "completed", "aborted"})
         /\ Len(uploads') = Len(uploads)
         /\ uploads'[upload_id] # "open"
         /\ object' \in Seq(Data)
         /\ object' \in {accepted, <<>>}
         /\ ~discarded => object' = accepted
<1>1. /\ uploads' \in Seq({"open", "completed", "aborted"})
      /\ Len(uploads') = Len(uploads)
      /\ uploads'[upload_id] # "open"
  BY StatusFacts DEF IInv, CompleteUpload, Completable
<1>2. Len(parts) = next_part_number /\ cache = NoData /\ inner = "open"
  BY DEF IInv, AcceptedInv, ControlInv, PhaseInv
<1>3. parts \in Seq(Part) /\ accepted \in Seq(Data) /\ Len(parts) \in Nat
  BY DEF IInv, TypeOK
<1>4. ASSUME NEW k \in 1..Len(parts)
      PROVE  parts[k].data = accepted[k] /\ parts[k].data \in Data
  <2>1. parts[k].part + 1 = k /\ parts[k] \in sent /\ parts[k] \in Part
    BY <1>3, <1>4 DEF IInv, NumberInv
  <2>2. parts[k].data = accepted[parts[k].part + 1]
    BY <2>1 DEF IInv, AcceptedInv, SentPartsAgree
  <2>3. QED
    BY <2>1, <2>2 DEF Part
<1>5. object' = [k \in 1..Len(parts) |-> parts[k].data]
  BY DEF CompleteUpload
<1>6. object' \in Seq(Data) /\ Len(object') = Len(parts)
  BY <1>3, <1>4, <1>5
<1>7. CASE Len(accepted) = next_part_number
  <2>1. object' = accepted
    BY <1>2, <1>3, <1>4, <1>5, <1>6, <1>7
  <2>2. QED
    BY <1>1, <1>6, <2>1
<1>8. CASE discarded /\ parts = <<>>
  <2>1. object' = <<>>
    BY <1>6, <1>8
  <2>2. QED
    BY <1>1, <1>6, <1>8, <2>1
<1>9. QED
  BY <1>2, <1>7, <1>8 DEF IInv, AcceptedInv

-----------------------------------------------------------------------------
(* Every step preserves the invariant.  First the steps that leave the      *)
(* queue of parts alone.                                                    *)

(* A write that finds the cache full and no upload starts initiate_part.    *)
LEMMA WriteInitiatesInv ==
  ASSUME IInv, NEW d \in Data, WriteInitiates(d)
  PROVE  IInv'
<1> USE DEF IInv, WriteInitiates, WriteCall, Callable
<1>1. TypeOK'
  BY DEF TypeOK, taskVars, historyVars, serviceVars
<1>2. ControlInv'
  BY DEF ControlInv, Executing, PendingPart, IsConcurrent, taskVars, serviceVars
<1>3. PhaseInv'
  BY DEF PhaseInv, TypeOK, ControlInv, Executing, taskVars, historyVars, serviceVars
<1>4. NumberInv'
  BY DEF NumberInv, taskVars, historyVars, serviceVars
<1>5. AcceptedInv'
  BY DEF AcceptedInv, SentPartsAgree, historyVars, serviceVars
<1>6. ClosedObjectIsComplete'
  BY DEF ClosedObjectIsComplete, PhaseInv, historyVars, serviceVars
<1>7. QED
  BY <1>1, <1>2, <1>3, <1>4, <1>5, <1>6

(* A write that finds the cache full hands the pending part to execute.     *)
LEMMA WriteContinuesInv ==
  ASSUME IInv, NEW d \in Data, WriteContinues(d)
  PROVE  IInv'
<1> USE DEF IInv, WriteContinues, WriteCall, Callable, StartExecute
<1>1. TypeOK'
  BY DEF TypeOK, Part, PendingPart, historyVars, serviceVars
<1>2. ControlInv'
  BY DEF ControlInv, Executing, PendingPart, IsConcurrent, taskVars, serviceVars
<1>3. PhaseInv'
  BY DEF PhaseInv, TypeOK, ControlInv, Executing, taskVars, historyVars, serviceVars
<1>4. NumberInv'
  BY DEF NumberInv, taskVars, historyVars, serviceVars
<1>5. AcceptedInv'
  BY DEF AcceptedInv, SentPartsAgree, historyVars, serviceVars
<1>6. ClosedObjectIsComplete'
  BY DEF ClosedObjectIsComplete, PhaseInv, historyVars, serviceVars
<1>7. QED
  BY <1>1, <1>2, <1>3, <1>4, <1>5, <1>6

(* The panic of a write after a failed abort changes nothing else.          *)
LEMMA WritePanicsInv ==
  ASSUME IInv, NEW d \in Data, WritePanics(d)
  PROVE  IInv'
<1> USE DEF IInv, WritePanics, WriteCall, Callable
<1>1. TypeOK'
  BY DEF TypeOK, taskVars, historyVars, serviceVars
<1>2. ControlInv'
  BY DEF ControlInv, Executing, PendingPart, IsConcurrent, taskVars, serviceVars
<1>3. PhaseInv'
  BY DEF PhaseInv, TypeOK, ControlInv, Executing, taskVars, historyVars, serviceVars
<1>4. NumberInv'
  BY DEF NumberInv, taskVars, historyVars, serviceVars
<1>5. AcceptedInv'
  BY DEF AcceptedInv, SentPartsAgree, historyVars, serviceVars
<1>6. ClosedObjectIsComplete'
  BY DEF ClosedObjectIsComplete, PhaseInv, historyVars, serviceVars
<1>7. QED
  BY <1>1, <1>2, <1>3, <1>4, <1>5, <1>6

(* The first write is acknowledged and kept in the cache.                   *)
LEMMA WriteFirstInv ==
  ASSUME IInv, NEW d \in Data, WriteFirst(d)
  PROVE  IInv'
<1> USE DEF IInv, WriteFirst, WriteCall, Callable
<1>1. /\ accepted' \in Seq(Data)
      /\ Len(accepted') = Len(accepted) + 1
      /\ accepted'[Len(accepted) + 1] = d
  BY AppendProperties DEF TypeOK
<1>2. TypeOK'
  BY <1>1 DEF TypeOK, taskVars, historyVars, serviceVars
<1>3. ControlInv'
  BY DEF ControlInv, Executing, PendingPart, IsConcurrent, taskVars, serviceVars
<1>4. PhaseInv'
  BY DEF PhaseInv, TypeOK, ControlInv, Executing, taskVars, historyVars, serviceVars
<1>5. NumberInv'
  BY DEF NumberInv, taskVars, historyVars, serviceVars
<1>6. AcceptedInv'
  BY <1>1, DataAssumption DEF AcceptedInv, SentPartsAgree, PhaseInv, ControlInv, TypeOK, serviceVars
<1>7. ClosedObjectIsComplete'
  BY DEF ClosedObjectIsComplete, PhaseInv, historyVars, serviceVars
<1>8. QED
  BY <1>2, <1>3, <1>4, <1>5, <1>6, <1>7

(* initiate_part gives the writer an open upload; no part has been sent.    *)
LEMMA InitiateOkInv ==
  ASSUME IInv, InitiateOk
  PROVE  IInv'
<1> USE DEF IInv, InitiateOk, StartExecute
<1>1. /\ uploads' \in Seq({"open", "completed", "aborted"})
      /\ Len(uploads') = Len(uploads) + 1
      /\ Len(uploads') \in Nat
  BY OpenUploadFacts
<1>2. TypeOK'
  BY <1>1 DEF TypeOK, Part, PendingPart, ControlInv, historyVars
<1>3. ControlInv'
  BY <1>1 DEF ControlInv, Executing, PendingPart, IsConcurrent, TypeOK
<1>4. PhaseInv'
  BY <1>1 DEF PhaseInv, TypeOK, ControlInv, historyVars
<1>5. NumberInv'
  BY DEF NumberInv, taskVars, historyVars, serviceVars
<1>6. AcceptedInv'
  BY DEF AcceptedInv, SentPartsAgree, historyVars, serviceVars
<1>7. ClosedObjectIsComplete'
  BY DEF ClosedObjectIsComplete, PhaseInv, historyVars, serviceVars
<1>8. QED
  BY <1>2, <1>3, <1>4, <1>5, <1>6, <1>7

(* An initiate_part that fails leaves at most an upload nobody knows.       *)
LEMMA InitiateErrInv ==
  ASSUME IInv, InitiateErr
  PROVE  IInv'
<1> USE DEF IInv, InitiateErr
<1>1. /\ uploads' \in Seq({"open", "completed", "aborted"})
      /\ Len(uploads') >= Len(uploads)
      /\ Len(uploads') \in Nat
  BY OpenUploadFacts DEF TypeOK
<1>2. TypeOK'
  BY <1>1 DEF TypeOK, taskVars, historyVars
<1>3. ControlInv'
  BY DEF ControlInv, Executing, PendingPart, IsConcurrent, taskVars, serviceVars
<1>4. PhaseInv'
  BY DEF PhaseInv, TypeOK, ControlInv, Executing, taskVars, historyVars, serviceVars
<1>5. NumberInv'
  BY DEF NumberInv, taskVars, historyVars, serviceVars
<1>6. AcceptedInv'
  BY DEF AcceptedInv, SentPartsAgree, historyVars, serviceVars
<1>7. ClosedObjectIsComplete'
  BY DEF ClosedObjectIsComplete, PhaseInv, historyVars, serviceVars
<1>8. QED
  BY <1>2, <1>3, <1>4, <1>5, <1>6, <1>7

(* A close without an upload starts write_once.                             *)
LEMMA CloseAtOnceInv ==
  ASSUME IInv, CloseAtOnce
  PROVE  IInv'
<1> USE DEF IInv, CloseAtOnce, Callable
<1>1. TypeOK'
  BY DEF TypeOK, taskVars, historyVars, serviceVars
<1>2. ControlInv'
  BY DEF ControlInv, Executing, PendingPart, IsConcurrent, taskVars, serviceVars
<1>3. PhaseInv'
  BY DEF PhaseInv, TypeOK, ControlInv, Executing, taskVars, historyVars, serviceVars
<1>4. NumberInv'
  BY DEF NumberInv, taskVars, historyVars, serviceVars
<1>5. AcceptedInv'
  BY DEF AcceptedInv, SentPartsAgree, historyVars, serviceVars
<1>6. ClosedObjectIsComplete'
  BY DEF ClosedObjectIsComplete, PhaseInv, historyVars, serviceVars
<1>7. QED
  BY <1>1, <1>2, <1>3, <1>4, <1>5, <1>6

(* A write_once that succeeds closes the writer with the whole content.     *)
LEMMA OnceOkInv ==
  ASSUME IInv, OnceOk
  PROVE  IInv'
<1> USE DEF IInv, OnceOk
<1>1. object' \in Seq(Data) \cup {NoObject}
  BY WriteOnceFacts DEF TypeOK
<1>2. TypeOK'
  BY <1>1 DEF TypeOK, taskVars, historyVars
<1>3. ControlInv'
  BY DEF ControlInv, Executing, PendingPart, IsConcurrent, taskVars, serviceVars
<1>4. PhaseInv'
  BY DEF PhaseInv, TypeOK, ControlInv, Executing, taskVars, historyVars, serviceVars
<1>5. NumberInv'
  BY DEF NumberInv, taskVars, historyVars, serviceVars
<1>6. AcceptedInv'
  BY DEF AcceptedInv, SentPartsAgree, historyVars, serviceVars
<1>7. ClosedObjectIsComplete'
  BY WriteOnceFacts DEF ClosedObjectIsComplete, historyVars
<1>8. QED
  BY <1>2, <1>3, <1>4, <1>5, <1>6, <1>7

(* A write_once that fails keeps the cache, for the close that follows.     *)
LEMMA OnceErrInv ==
  ASSUME IInv, OnceErr
  PROVE  IInv'
<1> USE DEF IInv, OnceErr
<1>1. object' \in Seq(Data) \cup {NoObject}
  BY WriteOnceFacts DEF TypeOK
<1>2. TypeOK'
  BY <1>1 DEF TypeOK, taskVars, historyVars
<1>3. ControlInv'
  BY DEF ControlInv, Executing, PendingPart, IsConcurrent, taskVars, serviceVars
<1>4. PhaseInv'
  BY DEF PhaseInv, TypeOK, ControlInv, Executing, taskVars, historyVars, serviceVars
<1>5. NumberInv'
  BY DEF NumberInv, taskVars, historyVars, serviceVars
<1>6. AcceptedInv'
  BY DEF AcceptedInv, SentPartsAgree, historyVars, serviceVars
<1>7. ClosedObjectIsComplete'
  BY DEF ClosedObjectIsComplete, PhaseInv, historyVars, serviceVars
<1>8. QED
  BY <1>2, <1>3, <1>4, <1>5, <1>6, <1>7

(* A close hands the pending part to execute.                               *)
LEMMA CloseLastPartInv ==
  ASSUME IInv, CloseLastPart
  PROVE  IInv'
<1> USE DEF IInv, CloseLastPart, Callable, StartExecute
<1>1. TypeOK'
  BY DEF TypeOK, Part, PendingPart, historyVars, serviceVars
<1>2. ControlInv'
  BY DEF ControlInv, Executing, PendingPart, IsConcurrent, taskVars, serviceVars
<1>3. PhaseInv'
  BY DEF PhaseInv, TypeOK, ControlInv, Executing, taskVars, historyVars, serviceVars
<1>4. NumberInv'
  BY DEF NumberInv, taskVars, historyVars, serviceVars
<1>5. AcceptedInv'
  BY DEF AcceptedInv, SentPartsAgree, historyVars, serviceVars
<1>6. ClosedObjectIsComplete'
  BY DEF ClosedObjectIsComplete, PhaseInv, historyVars, serviceVars
<1>7. QED
  BY <1>1, <1>2, <1>3, <1>4, <1>5, <1>6

(* A close that is repeated goes on to collect the results.                 *)
LEMMA CloseAgainInv ==
  ASSUME IInv, CloseAgain
  PROVE  IInv'
<1> USE DEF IInv, CloseAgain, Callable
<1>1. TypeOK'
  BY DEF TypeOK, taskVars, historyVars, serviceVars
<1>2. ControlInv'
  BY DEF ControlInv, Executing, PendingPart, IsConcurrent, taskVars, serviceVars
<1>3. PhaseInv'
  BY DEF PhaseInv, TypeOK, ControlInv, Executing, taskVars, historyVars, serviceVars
<1>4. NumberInv'
  BY DEF NumberInv, taskVars, historyVars, serviceVars
<1>5. AcceptedInv'
  BY DEF AcceptedInv, SentPartsAgree, historyVars, serviceVars
<1>6. ClosedObjectIsComplete'
  BY DEF ClosedObjectIsComplete, PhaseInv, historyVars, serviceVars
<1>7. QED
  BY <1>1, <1>2, <1>3, <1>4, <1>5, <1>6

(* A close that is dropped while it collects keeps what it has collected.   *)
LEMMA DrainDroppedInv ==
  ASSUME IInv, DrainDropped
  PROVE  IInv'
<1> USE DEF IInv, DrainDropped, NextAwaits
<1>1. TypeOK'
  BY DEF TypeOK, taskVars, historyVars, serviceVars
<1>2. ControlInv'
  BY DEF ControlInv, Executing, PendingPart, IsConcurrent, taskVars, serviceVars
<1>3. PhaseInv'
  BY DEF PhaseInv, TypeOK, ControlInv, Executing, taskVars, historyVars, serviceVars
<1>4. NumberInv'
  BY DEF NumberInv, taskVars, historyVars, serviceVars
<1>5. AcceptedInv'
  BY DEF AcceptedInv, SentPartsAgree, historyVars, serviceVars
<1>6. ClosedObjectIsComplete'
  BY DEF ClosedObjectIsComplete, PhaseInv, historyVars, serviceVars
<1>7. QED
  BY <1>1, <1>2, <1>3, <1>4, <1>5, <1>6

(* A close that has collected everything may go on to complete_part.        *)
LEMMA DrainEndsInv ==
  ASSUME IInv, DrainEnds
  PROVE  IInv'
<1> USE DEF IInv, DrainEnds, NextReturnsNone
<1>1. TypeOK'
  BY DEF TypeOK, taskVars, historyVars, serviceVars
<1>2. ControlInv'
  BY DEF ControlInv, Executing, PendingPart, IsConcurrent, taskVars, serviceVars
<1>3. PhaseInv'
  BY DEF PhaseInv, TypeOK, ControlInv, Executing, taskVars, historyVars, serviceVars
<1>4. NumberInv'
  BY DEF NumberInv, taskVars, historyVars, serviceVars
<1>5. AcceptedInv'
  BY DEF AcceptedInv, SentPartsAgree, historyVars, serviceVars
<1>6. ClosedObjectIsComplete'
  BY DEF ClosedObjectIsComplete, PhaseInv, historyVars, serviceVars
<1>7. QED
  BY <1>1, <1>2, <1>3, <1>4, <1>5, <1>6

(* A complete_part that succeeds closes the writer with the whole content.  *)
LEMMA CompleteOkInv ==
  ASSUME IInv, CompleteOk
  PROVE  IInv'
<1> USE DEF IInv, CompleteOk
<1>1. /\ uploads' \in Seq({"open", "completed", "aborted"})
      /\ Len(uploads') = Len(uploads)
      /\ object' \in Seq(Data) \cup {NoObject}
  BY CompleteFacts DEF TypeOK
<1>2. TypeOK'
  BY <1>1 DEF TypeOK, taskVars, historyVars
<1>3. ControlInv'
  BY DEF ControlInv, Executing, PendingPart, IsConcurrent, taskVars, serviceVars
<1>4. PhaseInv'
  BY CompleteFacts DEF PhaseInv, ControlInv, NumberInv, taskVars, historyVars
<1>5. NumberInv'
  BY DEF NumberInv, taskVars, historyVars, serviceVars
<1>6. AcceptedInv'
  BY DEF AcceptedInv, SentPartsAgree, historyVars, serviceVars
<1>7. ClosedObjectIsComplete'
  BY CompleteFacts DEF ClosedObjectIsComplete, historyVars
<1>8. QED
  BY <1>2, <1>3, <1>4, <1>5, <1>6, <1>7

(* A complete_part that fails leaves the writer open.                       *)
LEMMA CompleteErrInv ==
  ASSUME IInv, CompleteErr
  PROVE  IInv'
<1> USE DEF IInv, CompleteErr
<1>1. /\ uploads' \in Seq({"open", "completed", "aborted"})
      /\ Len(uploads') = Len(uploads)
      /\ object' \in Seq(Data) \cup {NoObject}
  BY CompleteFacts DEF TypeOK
<1>2. TypeOK'
  BY <1>1 DEF TypeOK, taskVars, historyVars
<1>3. ControlInv'
  BY DEF ControlInv, Executing, PendingPart, IsConcurrent, taskVars, serviceVars
<1>4. PhaseInv'
  BY DEF PhaseInv, TypeOK, ControlInv, Executing, taskVars, historyVars, serviceVars
<1>5. NumberInv'
  BY DEF NumberInv, taskVars, historyVars, serviceVars
<1>6. AcceptedInv'
  BY DEF AcceptedInv, SentPartsAgree, historyVars, serviceVars
<1>7. ClosedObjectIsComplete'
  BY DEF ClosedObjectIsComplete, PhaseInv, historyVars, serviceVars
<1>8. QED
  BY <1>2, <1>3, <1>4, <1>5, <1>6, <1>7

(* An abort without an upload ends the writer.                              *)
LEMMA AbortAtOnceInv ==
  ASSUME IInv, AbortAtOnce
  PROVE  IInv'
<1> USE DEF IInv, AbortAtOnce, Callable
<1>1. TypeOK'
  BY DEF TypeOK, taskVars, historyVars, serviceVars
<1>2. ControlInv'
  BY DEF ControlInv, Executing, PendingPart, IsConcurrent, taskVars, serviceVars
<1>3. PhaseInv'
  BY DEF PhaseInv, TypeOK, ControlInv, Executing, taskVars, historyVars, serviceVars
<1>4. NumberInv'
  BY DEF NumberInv, taskVars, historyVars, serviceVars
<1>5. AcceptedInv'
  BY DEF AcceptedInv, SentPartsAgree, historyVars, serviceVars
<1>6. ClosedObjectIsComplete'
  BY DEF ClosedObjectIsComplete, PhaseInv, historyVars, serviceVars
<1>7. QED
  BY <1>1, <1>2, <1>3, <1>4, <1>5, <1>6

(* An abort_part that succeeds ends the writer and its upload.              *)
LEMMA AbortOkInv ==
  ASSUME IInv, AbortOk
  PROVE  IInv'
<1> USE DEF IInv, AbortOk
<1>1. /\ uploads' \in Seq({"open", "completed", "aborted"})
      /\ Len(uploads') = Len(uploads)
  BY StatusFacts DEF TypeOK, AbortUpload
<1>2. TypeOK'
  BY <1>1 DEF TypeOK, taskVars, historyVars
<1>3. ControlInv'
  BY DEF ControlInv, Executing, PendingPart, IsConcurrent, taskVars, serviceVars
<1>4. PhaseInv'
  BY StatusFacts DEF PhaseInv, ControlInv, AbortUpload, taskVars, historyVars
<1>5. NumberInv'
  BY DEF NumberInv, taskVars, historyVars, serviceVars
<1>6. AcceptedInv'
  BY DEF AcceptedInv, SentPartsAgree, historyVars, serviceVars
<1>7. ClosedObjectIsComplete'
  BY DEF ClosedObjectIsComplete, PhaseInv, historyVars, serviceVars
<1>8. QED
  BY <1>2, <1>3, <1>4, <1>5, <1>6, <1>7

(* An abort_part that fails leaves the writer open, with nothing pending.   *)
LEMMA AbortErrInv ==
  ASSUME IInv, AbortErr
  PROVE  IInv'
<1> USE DEF IInv, AbortErr
<1>1. /\ uploads' \in Seq({"open", "completed", "aborted"})
      /\ Len(uploads') = Len(uploads)
  BY StatusFacts DEF TypeOK, AbortUpload
<1>2. TypeOK'
  BY <1>1 DEF TypeOK, taskVars, historyVars
<1>3. ControlInv'
  BY DEF ControlInv, Executing, PendingPart, IsConcurrent, taskVars, serviceVars
<1>4. PhaseInv'
  BY DEF PhaseInv, TypeOK, ControlInv, Executing, taskVars, historyVars, serviceVars
<1>5. NumberInv'
  BY DEF NumberInv, taskVars, historyVars, serviceVars
<1>6. AcceptedInv'
  BY DEF AcceptedInv, SentPartsAgree, historyVars, serviceVars
<1>7. ClosedObjectIsComplete'
  BY DEF ClosedObjectIsComplete, PhaseInv, historyVars, serviceVars
<1>8. QED
  BY <1>2, <1>3, <1>4, <1>5, <1>6, <1>7

(* A dropped execute leaves the part pending.                               *)
LEMMA ExecuteDroppedInv ==
  ASSUME IInv, ExecuteDropped
  PROVE  IInv'
<1> USE DEF IInv, ExecuteDropped, DropExecute
<1>1. TypeOK'
  BY DEF TypeOK, taskVars, historyVars, serviceVars
<1>2. ControlInv'
  BY DEF ControlInv, Executing, PendingPart, IsConcurrent, taskVars, serviceVars
<1>3. PhaseInv'
  BY DEF PhaseInv, TypeOK, ControlInv, Executing, taskVars, historyVars, serviceVars
<1>4. NumberInv'
  BY DEF NumberInv, taskVars, historyVars, serviceVars
<1>5. AcceptedInv'
  BY DEF AcceptedInv, SentPartsAgree, historyVars, serviceVars
<1>6. ClosedObjectIsComplete'
  BY DEF ClosedObjectIsComplete, PhaseInv, historyVars, serviceVars
<1>7. QED
  BY <1>1, <1>2, <1>3, <1>4, <1>5, <1>6

(* A late or repeated request stores a part that was sent.                  *)
LEMMA PartArrivesInv ==
  ASSUME IInv, PartArrives
  PROVE  IInv'
<1> USE DEF IInv, PartArrives, StorePart, writerVars
<1>1. TypeOK'
  BY DEF TypeOK, taskVars, historyVars, serviceVars
<1>2. ControlInv'
  BY DEF ControlInv, Executing, PendingPart, IsConcurrent, taskVars, serviceVars
<1>3. PhaseInv'
  BY DEF PhaseInv, TypeOK, ControlInv, Executing, taskVars, historyVars, serviceVars
<1>4. NumberInv'
  BY DEF NumberInv, taskVars, historyVars, serviceVars
<1>5. AcceptedInv'
  BY DEF AcceptedInv, SentPartsAgree, historyVars, serviceVars
<1>6. ClosedObjectIsComplete'
  BY DEF ClosedObjectIsComplete, PhaseInv, historyVars, serviceVars
<1>7. QED
  BY <1>1, <1>2, <1>3, <1>4, <1>5, <1>6

-----------------------------------------------------------------------------
(* The steps that change the queue of parts: what each does to the parts    *)
(* and their numbers.                                                       *)

(* The front of the queue is a task of a part.                              *)
LEMMA FrontPart ==
  ASSUME TypeOK, tasks # <<>>
  PROVE  /\ Head(tasks) \in Tasks(Part)
         /\ Head(tasks).input \in Part
         /\ Head(tasks).input = tasks[1].input
<1>1. Head(tasks) = tasks[1] /\ Head(tasks) \in Tasks(Part)
  BY HeadTailProperties DEF TypeOK
<1>2. QED
  BY <1>1 DEF Tasks

(* A new task is a task of the part it is given.                            *)
LEMMA SpawnPart ==
  ASSUME NEW r \in Part
  PROVE  Spawn(r) \in Tasks(Part) /\ Spawn(r).input = r
  BY DEF Spawn, Tasks

(* Types and numbers of the queue alone, for steps that change no more.     *)
QueueType ==
  /\ tasks \in Seq(Tasks(Part))
  /\ Len(tasks) <= Concurrent
  /\ results \in Seq(Part)

(* A task that finishes, or is retried, keeps its place and its part.       *)
LEMMA SameParts ==
  ASSUME IInv,
         NEW k \in 1..Len(tasks), NEW s \in {"running"} \cup Outcomes,
         tasks' = [tasks EXCEPT ![k] = [input |-> tasks[k].input, state |-> s]],
         UNCHANGED <<results, parts, sent, errored, discarded, next_part_number>>
  PROVE  /\ QueueType' /\ NumberInv'
         /\ tasks # <<>> /\ IsConcurrent /\ ~errored /\ ~discarded
<1> DEFINE e == [input |-> tasks[k].input, state |-> s]
<1>1. tasks[k] \in Tasks(Part)
  BY DEF IInv, TypeOK
<1>2. e \in Tasks(Part) /\ e.input = tasks[k].input
  BY <1>1 DEF Tasks
<1> HIDE DEF e
<1>3. /\ tasks' \in Seq(Tasks(Part))
      /\ Len(tasks') = Len(tasks)
      /\ \A j \in 1..Len(tasks) : tasks'[j] = IF j = k THEN e ELSE tasks[j]
  BY <1>2, ExceptSeq DEF IInv, TypeOK, e
<1>4. \A j \in 1..Len(tasks) : tasks'[j].input = tasks[j].input
  BY <1>2, <1>3
<1>5. NumberInv'
  BY <1>3, <1>4 DEF IInv, NumberInv
<1>6. QueueType'
  BY <1>3 DEF IInv, TypeOK, QueueType
<1>7. tasks # <<>>
  OBVIOUS
<1>8. QED
  BY <1>5, <1>6, <1>7 DEF IInv, ControlInv, PhaseInv

(* A retry of the front task keeps its place and its part.                  *)
LEMMA RetryFrontParts ==
  ASSUME IInv, RetryFront, UNCHANGED <<parts, sent, discarded, next_part_number>>
  PROVE  /\ QueueType' /\ NumberInv'
         /\ tasks # <<>> /\ IsConcurrent /\ ~errored /\ ~discarded
         /\ UNCHANGED <<results, errored>>
<1>1. 1 \in 1..Len(tasks)
  BY DEF RetryFront, FrontIs, IInv, TypeOK
<1>2. tasks' = [tasks EXCEPT ![1] = [input |-> tasks[1].input, state |-> "running"]]
  BY <1>1 DEF RetryFront, Spawn
<1>3. QED
  BY <1>1, <1>2, SameParts DEF RetryFront

(* Nothing is left in the queue after an unrecoverable error or an abort.   *)
LEMMA EmptyParts ==
  ASSUME IInv, tasks' = <<>>, results' = <<>>, UNCHANGED <<parts, sent>>,
         errored' \/ discarded'
  PROVE  QueueType' /\ NumberInv'
<1>1. Len(tasks') = 0 /\ Len(results') = 0
  OBVIOUS
<1>2. QueueType'
  BY <1>1, ConcurrentAssumption DEF QueueType
<1>3. NumberInv'
  BY <1>1 DEF IInv, NumberInv
<1>4. QED
  BY <1>2, <1>3

(* The awaited front task moves to the results.                             *)
LEMMA MoveFrontPart ==
  ASSUME IInv, tasks # <<>>,
         tasks' = Tail(tasks), results' = Append(results, Head(tasks).input),
         UNCHANGED <<parts, sent, errored, discarded, next_part_number>>
  PROVE  QueueType' /\ NumberInv'
<1>1. /\ tasks' \in Seq(Tasks(Part))
      /\ Len(tasks) \in Nat /\ Len(tasks) > 0
      /\ Len(tasks') = Len(tasks) - 1
      /\ \A k \in 1..Len(tasks) - 1 : tasks'[k] = tasks[k + 1]
  BY HeadTailProperties DEF IInv, TypeOK
<1>2. /\ results' \in Seq(Part)
      /\ Len(results') = Len(results) + 1
      /\ Len(results) \in Nat
      /\ \A k \in 1..Len(results) : results'[k] = results[k]
      /\ results'[Len(results) + 1] = tasks[1].input
  BY FrontPart, AppendProperties DEF IInv, TypeOK
<1>3. Len(parts) \in Nat
  BY DEF IInv, TypeOK
<1>4. ASSUME NEW k \in 1..Len(results')
      PROVE  results'[k].part + 1 = Len(parts) + k /\ results'[k] \in sent
  <2>1. CASE k \in 1..Len(results)
    BY <1>2, <2>1 DEF IInv, NumberInv
  <2>2. CASE k = Len(results) + 1
    <3>1. /\ tasks[1].input.part + 1 = Len(parts) + Len(results) + 1
          /\ tasks[1].input \in sent
      BY <1>1 DEF IInv, NumberInv
    <3>2. QED
      BY <1>2, <1>3, <2>2, <3>1
  <2>3. QED
    BY <1>2, <2>1, <2>2
<1>5. ASSUME NEW k \in 1..Len(tasks')
      PROVE  /\ tasks'[k].input.part + 1 = Len(parts) + Len(results') + k
             /\ tasks'[k].input \in sent
  <2>1. k + 1 \in 1..Len(tasks) /\ tasks'[k] = tasks[k + 1]
    BY <1>1
  <2>2. /\ tasks[k + 1].input.part + 1 = Len(parts) + Len(results) + (k + 1)
        /\ tasks[k + 1].input \in sent
    BY <2>1 DEF IInv, NumberInv
  <2>3. QED
    BY <1>2, <1>3, <2>1, <2>2
<1>6. ~errored /\ ~discarded =>
        next_part_number = Len(parts) + Len(results') + Len(tasks')
  BY <1>1, <1>2, <1>3 DEF IInv, NumberInv
<1>7. NumberInv'
  BY <1>4, <1>5, <1>6 DEF IInv, NumberInv
<1>8. QED
  BY <1>1, <1>2, <1>7, ConcurrentAssumption DEF IInv, TypeOK, QueueType

(* A new part joins the end of the queue.                                   *)
LEMMA PushPart ==
  ASSUME IInv, ~errored, ~discarded, input = PendingPart, input \in Part,
         NEW q, NEW rs,
         q \in Seq(Tasks(Part)), Len(q) < Concurrent, rs \in Seq(Part),
         \A k \in 1..Len(rs) : rs[k].part + 1 = Len(parts) + k /\ rs[k] \in sent,
         \A k \in 1..Len(q) : /\ q[k].input.part + 1 = Len(parts) + Len(rs) + k
                              /\ q[k].input \in sent,
         next_part_number = Len(parts) + Len(rs) + Len(q),
         tasks' = Append(q, Spawn(input)), results' = rs,
         UNCHANGED <<parts, discarded, errored>>,
         next_part_number' = next_part_number + 1,
         sent' = sent \cup {input}
  PROVE  QueueType' /\ NumberInv'
<1>1. /\ tasks' \in Seq(Tasks(Part))
      /\ Len(q) \in Nat
      /\ Len(tasks') = Len(q) + 1
      /\ \A k \in 1..Len(q) : tasks'[k] = q[k]
      /\ tasks'[Len(q) + 1].input = input
  BY SpawnPart, AppendProperties
<1>2. Len(parts) \in Nat /\ Len(rs) \in Nat /\ input.part = next_part_number
  BY DEF IInv, TypeOK, PendingPart
<1>3. ASSUME NEW k \in 1..Len(tasks')
      PROVE  /\ tasks'[k].input.part + 1 = Len(parts) + Len(rs) + k
             /\ tasks'[k].input \in sent'
  <2>1. CASE k \in 1..Len(q)
    BY <1>1, <2>1
  <2>2. CASE k = Len(q) + 1
    BY <1>1, <1>2, <2>2
  <2>3. QED
    BY <1>1, <2>1, <2>2
<1>4. next_part_number' = Len(parts) + Len(rs) + Len(tasks')
  BY <1>1, <1>2
<1>5. \A k \in 1..Len(parts) : parts[k].part + 1 = k /\ parts[k] \in sent'
  BY DEF IInv, NumberInv
<1>6. NumberInv'
  BY <1>3, <1>4, <1>5 DEF NumberInv
<1>7. QED
  BY <1>1, <1>6, ConcurrentAssumption DEF QueueType

(* execute returns Ok, in write or in close: the pending part is in the     *)
(* queue or, when it ran inline, among the results.                         *)
LEMMA ExecuteOkParts ==
  ASSUME IInv, Executing, ExecuteReturnsOk, ExecuteService,
         UNCHANGED <<parts, discarded>>,
         next_part_number' = next_part_number + 1
  PROVE  /\ QueueType' /\ NumberInv'
         /\ sent' \subseteq Part /\ stored' \subseteq Part
         /\ \A r \in sent' : r.part < Len(accepted) /\ r.data = accepted[r.part + 1]
         /\ ~errored /\ ~discarded
         /\ ~IsConcurrent => tasks' = <<>>
         /\ exec' = "none" /\ UNCHANGED <<errored, input, uploads, object>>
<1>1. /\ input = PendingPart /\ input \in Part /\ cache # NoData /\ upload_id > 0
      /\ inner = "open" /\ ~discarded
  BY DEF IInv, ControlInv, PhaseInv, TypeOK, Executing
<1>2. input.part < Len(accepted) /\ input.data = accepted[input.part + 1]
  BY <1>1 DEF IInv, AcceptedInv, TypeOK, PendingPart
<1>3. /\ sent' \subseteq Part
      /\ \A r \in sent' : r.part < Len(accepted) /\ r.data = accepted[r.part + 1]
  BY <1>1, <1>2 DEF IInv, TypeOK, AcceptedInv, SentPartsAgree, ExecuteService
<1>4. stored' \subseteq Part
  BY <1>1 DEF IInv, TypeOK, ExecuteService, StorePart
<1>5. exec' = "none" /\ UNCHANGED <<errored, input, uploads, object>>
  BY DEF ExecuteReturnsOk, InlineOk, PushTask, ExecuteService
<1>6. ~errored
  BY DEF IInv, ControlInv, ExecuteReturnsOk, InlineOk, PushTask, Polling
<1>7. Len(parts) \in Nat /\ Len(results) \in Nat /\ Len(tasks) \in Nat
  BY DEF IInv, TypeOK
<1>8. CASE InlineOk
  <2>1. tasks = <<>> /\ tasks' = <<>> /\ Len(tasks) = 0 /\ input \in sent /\ sent' = sent
    BY <1>8 DEF IInv, ControlInv, InlineOk, ExecuteService
  <2>2. /\ results' \in Seq(Part)
        /\ Len(results') = Len(results) + 1
        /\ \A k \in 1..Len(results) : results'[k] = results[k]
        /\ results'[Len(results) + 1] = input
    BY <1>1, <1>8, AppendProperties DEF IInv, TypeOK, InlineOk
  <2>3. next_part_number = Len(parts) + Len(results) /\ input.part = next_part_number
    BY <1>1, <1>6, <1>7, <2>1 DEF IInv, NumberInv, PendingPart
  <2>4. ASSUME NEW k \in 1..Len(results')
        PROVE  results'[k].part + 1 = Len(parts) + k /\ results'[k] \in sent
    <3>1. CASE k \in 1..Len(results)
      BY <2>2, <3>1 DEF IInv, NumberInv
    <3>2. CASE k = Len(results) + 1
      BY <1>7, <2>1, <2>2, <2>3, <3>2
    <3>3. QED
      BY <1>7, <2>2, <3>1, <3>2
  <2>5. next_part_number' = Len(parts) + Len(results') + Len(tasks')
    BY <1>7, <2>1, <2>2, <2>3
  <2>6. NumberInv'
    BY <2>1, <2>4, <2>5 DEF IInv, NumberInv
  <2>7. QueueType'
    BY <2>1, <2>2 DEF IInv, TypeOK, QueueType
  <2>8. QED
    BY <1>1, <1>3, <1>4, <1>5, <1>6, <2>1, <2>6, <2>7
<1>9. CASE PushTask
  <2>1. IsConcurrent /\ sent' = sent \cup {input} /\ UNCHANGED errored
    BY <1>9 DEF PushTask, Polling, ExecuteService
  <2>2. CASE FrontIs("ok") /\ tasks' = Append(Tail(tasks), Spawn(input))
                           /\ results' = Append(results, Head(tasks).input)
    <3> DEFINE q == Tail(tasks)
               rs == Append(results, Head(tasks).input)
    <3>1. tasks # <<>>
      BY <2>2 DEF FrontIs
    <3>2. /\ q \in Seq(Tasks(Part)) /\ Len(q) = Len(tasks) - 1 /\ Len(tasks) > 0
          /\ \A k \in 1..Len(tasks) - 1 : q[k] = tasks[k + 1]
      BY <3>1, HeadTailProperties DEF IInv, TypeOK
    <3>3. /\ rs \in Seq(Part) /\ Len(rs) = Len(results) + 1
          /\ \A k \in 1..Len(results) : rs[k] = results[k]
          /\ rs[Len(results) + 1] = tasks[1].input
      BY <3>1, FrontPart, AppendProperties DEF IInv, TypeOK
    <3>4. tasks' = Append(q, Spawn(input)) /\ results' = rs
      BY <2>2
    <3> HIDE DEF q, rs
    <3>5. ASSUME NEW k \in 1..Len(rs)
          PROVE  rs[k].part + 1 = Len(parts) + k /\ rs[k] \in sent
      <4>1. CASE k \in 1..Len(results)
        BY <3>3, <4>1 DEF IInv, NumberInv
      <4>2. CASE k = Len(results) + 1
        <5>1. 1 \in 1..Len(tasks)
          BY <1>7, <3>2
        <5>2. /\ tasks[1].input.part + 1 = Len(parts) + Len(results) + 1
              /\ tasks[1].input \in sent
          BY <5>1 DEF IInv, NumberInv
        <5>3. QED
          BY <1>7, <3>3, <4>2, <5>2
      <4>3. QED
        BY <1>7, <3>3, <4>1, <4>2
    <3>6. ASSUME NEW k \in 1..Len(q)
          PROVE  /\ q[k].input.part + 1 = Len(parts) + Len(rs) + k
                 /\ q[k].input \in sent
      <4>1. k + 1 \in 1..Len(tasks) /\ q[k] = tasks[k + 1]
        BY <1>7, <3>2
      <4>2. /\ tasks[k + 1].input.part + 1 = Len(parts) + Len(results) + (k + 1)
            /\ tasks[k + 1].input \in sent
        BY <4>1 DEF IInv, NumberInv
      <4>3. QED
        BY <1>7, <3>3, <4>1, <4>2
    <3>7. next_part_number = Len(parts) + Len(rs) + Len(q)
      BY <1>1, <1>6, <1>7, <3>2, <3>3 DEF IInv, NumberInv
    <3>8. Len(q) < Concurrent
      BY <1>7, <3>2, ConcurrentAssumption DEF IInv, TypeOK
    <3>9. QueueType' /\ NumberInv'
      BY <1>1, <1>6, <2>1, <3>2, <3>3, <3>4, <3>5, <3>6, <3>7, <3>8, PushPart
    <3>10. QED
      BY <1>1, <1>3, <1>4, <1>5, <1>6, <2>1, <3>9
  <2>3. CASE HasRemaining /\ tasks' = Append(tasks, Spawn(input)) /\ UNCHANGED results
    <3>1. QueueType' /\ NumberInv'
      BY <1>1, <1>6, <1>7, <2>1, <2>3, PushPart DEF IInv, TypeOK, NumberInv, HasRemaining
    <3>2. QED
      BY <1>1, <1>3, <1>4, <1>5, <1>6, <2>1, <3>1
  <2>4. QED
    BY <1>9, <2>2, <2>3 DEF PushTask
<1>10. QED
  BY <1>8, <1>9 DEF ExecuteReturnsOk

-----------------------------------------------------------------------------
(* The steps that change the queue preserve the invariant. *)

(* The steps inside execute keep the parts in order.                        *)
LEMMA ExecuteStepInv ==
  ASSUME IInv, ExecuteStep
  PROVE  IInv'
<1> USE DEF IInv, ExecuteStep
<1>1. /\ input = PendingPart /\ input \in Part /\ cache # NoData /\ inner = "open"
      /\ ~discarded /\ UNCHANGED input
  BY DEF ControlInv, PhaseInv, TypeOK, ExecuteContinues, RunInline, WaitForFront,
         AwaitedOk, Executing
<1>2. QueueType' /\ NumberInv' /\ UNCHANGED errored
  <2>1. CASE RunInline
    BY <2>1 DEF RunInline, QueueType, TypeOK, NumberInv, writerVars, historyVars
  <2>2. CASE WaitForFront
    BY <2>2 DEF WaitForFront, QueueType, TypeOK, NumberInv, writerVars, historyVars
  <2>3. CASE AwaitedOk
    <3>1. tasks # <<>> /\ exec' # "inline"
      BY <2>3 DEF AwaitedOk, FrontIs
    <3>2. QED
      BY <2>3, <3>1, MoveFrontPart DEF AwaitedOk, writerVars, historyVars
  <2>4. QED
    BY <2>1, <2>2, <2>3 DEF ExecuteContinues
<1>3. /\ exec' \in {"poll", "await", "inline"}
      /\ exec' = "inline" => ~IsConcurrent /\ input \in sent'
      /\ ~IsConcurrent => tasks' = <<>>
      /\ ~errored
  BY DEF ExecuteContinues, RunInline, WaitForFront, AwaitedOk, ControlInv, Polling, FrontIs
<1>4. TypeOK'
  BY <1>1, <1>2, <1>3 DEF TypeOK, QueueType, writerVars, historyVars
<1>5. ControlInv'
  BY <1>1, <1>2, <1>3 DEF ControlInv, Executing, PendingPart, IsConcurrent, writerVars
<1>6. PhaseInv'
  BY <1>1, <1>2 DEF PhaseInv, ControlInv, writerVars, historyVars
<1>7. AcceptedInv'
  <2>1. input.part < Len(accepted) /\ input.data = accepted[input.part + 1]
    BY <1>1 DEF AcceptedInv, TypeOK, PendingPart
  <2>2. QED
    BY <2>1 DEF AcceptedInv, SentPartsAgree, writerVars, historyVars
<1>8. ClosedObjectIsComplete'
  BY <1>1 DEF ClosedObjectIsComplete, writerVars
<1>9. QED
  BY <1>2, <1>4, <1>5, <1>6, <1>7, <1>8

(* An execute that fails leaves the part pending and its number not given out. *)
LEMMA ExecuteErrInv ==
  ASSUME IInv, ExecuteErr
  PROVE  IInv'
<1> USE DEF IInv, ExecuteErr
<1>1. /\ cache # NoData /\ upload_id > 0 /\ inner = "open" /\ ~discarded
      /\ exec' = "none" /\ UNCHANGED <<input, discarded, accepted>>
  BY DEF ControlInv, PhaseInv, ExecuteReturnsErr, ExecuteRefused, InlineErr, FrontFailed,
         Executing, historyVars
<1>2. QueueType' /\ NumberInv'
  <2>1. CASE ExecuteRefused \/ InlineErr
    BY <2>1 DEF ExecuteRefused, InlineErr, QueueType, TypeOK, NumberInv, historyVars, serviceVars
  <2>2. CASE RetryFront
    BY <1>1, <2>2, RetryFrontParts DEF serviceVars
  <2>3. CASE FailAll
    BY <2>3, EmptyParts DEF FailAll, serviceVars
  <2>4. QED
    BY <2>1, <2>2, <2>3 DEF ExecuteReturnsErr, FrontFailed
<1>3. /\ errored' \in BOOLEAN
      /\ errored' => tasks' = <<>> /\ results' = <<>>
      /\ ~IsConcurrent => tasks' = <<>>
  <2>1. CASE ExecuteRefused \/ InlineErr
    BY <2>1 DEF ExecuteRefused, InlineErr, ControlInv, TypeOK
  <2>2. CASE RetryFront
    BY <1>1, <2>2, RetryFrontParts DEF serviceVars, TypeOK
  <2>3. CASE FailAll
    BY <2>3 DEF FailAll
  <2>4. QED
    BY <2>1, <2>2, <2>3 DEF ExecuteReturnsErr, FrontFailed
<1>4. TypeOK'
  BY <1>1, <1>2, <1>3 DEF TypeOK, QueueType, historyVars, serviceVars
<1>5. ControlInv'
  BY <1>1, <1>3 DEF ControlInv, Executing, IsConcurrent
<1>6. PhaseInv'
  BY <1>1 DEF PhaseInv, TypeOK, historyVars, serviceVars
<1>7. AcceptedInv'
  BY <1>1 DEF AcceptedInv, SentPartsAgree, serviceVars
<1>8. ClosedObjectIsComplete'
  BY <1>1 DEF ClosedObjectIsComplete
<1>9. QED
  BY <1>2, <1>4, <1>5, <1>6, <1>7, <1>8

(* A write that returns Ok gives the pending part its number and keeps the new buffer. *)
LEMMA WriteOkInv ==
  ASSUME IInv, WriteOk
  PROVE  IInv'
<1> USE DEF IInv, WriteOk
<1>1. /\ QueueType' /\ NumberInv'
      /\ sent' \subseteq Part /\ stored' \subseteq Part
      /\ \A r \in sent' : r.part < Len(accepted) /\ r.data = accepted[r.part + 1]
      /\ ~errored /\ ~discarded
      /\ ~IsConcurrent => tasks' = <<>>
      /\ exec' = "none" /\ UNCHANGED <<errored, input, uploads, object>>
  BY ExecuteOkParts DEF Executing
<1>2. /\ cache # NoData /\ upload_id > 0 /\ inner = "open" /\ bs # NoData /\ parts = <<>>
      /\ Len(accepted) = next_part_number + 1
  BY DataAssumption DEF ControlInv, PhaseInv, AcceptedInv, Executing, TypeOK
<1>3. /\ accepted' \in Seq(Data)
      /\ Len(accepted) \in Nat
      /\ Len(accepted') = Len(accepted) + 1
      /\ \A k \in 1..Len(accepted) : accepted'[k] = accepted[k]
      /\ accepted'[Len(accepted) + 1] = bs
  BY AppendProperties DEF TypeOK
<1>4. TypeOK'
  BY <1>1, <1>3 DEF TypeOK, QueueType
<1>5. ControlInv'
  BY <1>1 DEF ControlInv, Executing, IsConcurrent
<1>6. PhaseInv'
  BY <1>1, <1>2 DEF PhaseInv, TypeOK
<1>7. AcceptedInv'
  <2>1. SentPartsAgree'
    <3>1. ASSUME NEW r \in sent'
          PROVE  r.part + 1 \in 1..Len(accepted) /\ r.data = accepted[r.part + 1]
      BY <1>1, <1>3, <3>1 DEF Part
    <3>2. QED
      BY <1>1, <1>3, <3>1 DEF SentPartsAgree, Part
  <2>2. Len(accepted') = next_part_number' + 1 /\ cache' = accepted'[next_part_number' + 1]
    BY <1>2, <1>3
  <2>3. QED
    BY <1>1, <1>2, <1>3, <2>1, <2>2 DEF AcceptedInv, TypeOK
<1>8. ClosedObjectIsComplete'
  BY <1>2 DEF ClosedObjectIsComplete
<1>9. QED
  BY <1>1, <1>4, <1>5, <1>6, <1>7, <1>8

(* The last part takes its number; nothing is pending any more.             *)
LEMMA CloseLastPartOkInv ==
  ASSUME IInv, CloseLastPartOk
  PROVE  IInv'
<1> USE DEF IInv, CloseLastPartOk
<1>1. /\ QueueType' /\ NumberInv'
      /\ sent' \subseteq Part /\ stored' \subseteq Part
      /\ \A r \in sent' : r.part < Len(accepted) /\ r.data = accepted[r.part + 1]
      /\ ~errored /\ ~discarded
      /\ ~IsConcurrent => tasks' = <<>>
      /\ exec' = "none" /\ UNCHANGED <<errored, input, uploads, object>>
  BY ExecuteOkParts DEF Executing, historyVars
<1>2. /\ upload_id > 0 /\ inner = "open" /\ Len(accepted) = next_part_number + 1
  BY DEF ControlInv, PhaseInv, AcceptedInv, Executing
<1>3. TypeOK'
  BY <1>1 DEF TypeOK, QueueType, historyVars
<1>4. ControlInv'
  BY <1>1, <1>2 DEF ControlInv, Executing, IsConcurrent
<1>5. PhaseInv'
  BY <1>1, <1>2 DEF PhaseInv, TypeOK, historyVars
<1>6. AcceptedInv'
  BY <1>1, <1>2 DEF AcceptedInv, SentPartsAgree, TypeOK, historyVars
<1>7. ClosedObjectIsComplete'
  BY <1>2 DEF ClosedObjectIsComplete
<1>8. QED
  BY <1>1, <1>3, <1>4, <1>5, <1>6, <1>7

(* close collects the parts in the order of their numbers.                  *)
LEMMA DrainOneInv ==
  ASSUME IInv, DrainOne
  PROVE  IInv'
<1> USE DEF IInv, DrainOne
<1>1. PICK r \in sent : NextReturns(r) /\ parts' = Append(parts, r)
  OBVIOUS
<1>2. /\ parts' \in Seq(Part)
      /\ Len(parts) \in Nat
      /\ Len(parts') = Len(parts) + 1
      /\ \A k \in 1..Len(parts) : parts'[k] = parts[k]
      /\ parts'[Len(parts) + 1] = r
  BY <1>1, AppendProperties DEF TypeOK
<1>3. /\ ~errored /\ exec = "none" /\ cache = NoData /\ upload_id > 0
      /\ UNCHANGED <<errored, exec, input>>
  BY <1>1 DEF NextReturns, ControlInv, Executing
<1>4. ~discarded /\ inner = "open"
  BY <1>1 DEF NextReturns, PhaseInv, FrontIs
<1>5. Len(results) \in Nat /\ Len(tasks) \in Nat
  BY DEF TypeOK
<1>6. /\ QueueType'
      /\ r.part + 1 = Len(parts) + 1
      /\ \A k \in 1..Len(results') :
           results'[k].part + 1 = Len(parts') + k /\ results'[k] \in sent
      /\ \A k \in 1..Len(tasks') :
           /\ tasks'[k].input.part + 1 = Len(parts') + Len(results') + k
           /\ tasks'[k].input \in sent
      /\ Len(results') + Len(tasks') + 1 = Len(results) + Len(tasks)
      /\ ~IsConcurrent => tasks' = <<>>
  <2>1. CASE results # <<>> /\ r = Head(results) /\ results' = Tail(results) /\ UNCHANGED tasks
    <3>1. /\ results' \in Seq(Part)
          /\ Len(results) > 0
          /\ Len(results') = Len(results) - 1
          /\ \A k \in 1..Len(results) - 1 : results'[k] = results[k + 1]
          /\ r = results[1]
      BY <2>1, HeadTailProperties DEF TypeOK
    <3>2. 1 \in 1..Len(results)
      BY <1>5, <3>1
    <3>3. r.part + 1 = Len(parts) + 1
      BY <3>1, <3>2 DEF NumberInv
    <3>4. ASSUME NEW k \in 1..Len(results')
          PROVE  results'[k].part + 1 = Len(parts') + k /\ results'[k] \in sent
      <4>1. k + 1 \in 1..Len(results) /\ results'[k] = results[k + 1]
        BY <1>5, <3>1
      <4>2. results[k + 1].part + 1 = Len(parts) + (k + 1) /\ results[k + 1] \in sent
        BY <4>1 DEF NumberInv
      <4>3. QED
        BY <1>2, <4>1, <4>2
    <3>5. ASSUME NEW k \in 1..Len(tasks')
          PROVE  /\ tasks'[k].input.part + 1 = Len(parts') + Len(results') + k
                 /\ tasks'[k].input \in sent
      <4>1. /\ tasks[k].input.part + 1 = Len(parts) + Len(results) + k
            /\ tasks[k].input \in sent
        BY <2>1 DEF NumberInv
      <4>2. QED
        BY <1>2, <1>5, <2>1, <3>1, <4>1
    <3>6. QueueType' /\ (~IsConcurrent => tasks' = <<>>)
      BY <2>1, <3>1 DEF QueueType, TypeOK, ControlInv
    <3>7. QED
      BY <1>5, <2>1, <3>1, <3>3, <3>4, <3>5, <3>6
  <2>2. CASE /\ results = <<>> /\ FrontIs("ok") /\ r = Head(tasks).input
             /\ tasks' = Tail(tasks) /\ UNCHANGED results
    <3>1. tasks # <<>> /\ Len(results) = 0
      BY <2>2 DEF FrontIs
    <3>2. /\ tasks' \in Seq(Tasks(Part))
          /\ Len(tasks) > 0
          /\ Len(tasks') = Len(tasks) - 1
          /\ \A k \in 1..Len(tasks) - 1 : tasks'[k] = tasks[k + 1]
      BY <2>2, <3>1, HeadTailProperties DEF TypeOK
    <3>3. r = tasks[1].input /\ 1 \in 1..Len(tasks)
      BY <1>5, <2>2, <3>1, <3>2, FrontPart
    <3>4. r.part + 1 = Len(parts) + 1
      BY <1>2, <3>1, <3>3 DEF NumberInv
    <3>5. ASSUME NEW k \in 1..Len(tasks')
          PROVE  /\ tasks'[k].input.part + 1 = Len(parts') + Len(results') + k
                 /\ tasks'[k].input \in sent
      <4>1. k + 1 \in 1..Len(tasks) /\ tasks'[k] = tasks[k + 1]
        BY <1>5, <3>2
      <4>2. /\ tasks[k + 1].input.part + 1 = Len(parts) + Len(results) + (k + 1)
            /\ tasks[k + 1].input \in sent
        BY <4>1 DEF NumberInv
      <4>3. QED
        BY <1>2, <1>5, <2>2, <4>1, <4>2
    <3>6. QueueType' /\ (~IsConcurrent => tasks' = <<>>)
      BY <1>5, <2>2, <3>1, <3>2, ConcurrentAssumption DEF QueueType, TypeOK, ControlInv
    <3>7. QED
      BY <1>5, <2>2, <3>1, <3>2, <3>4, <3>5, <3>6
  <2>3. QED
    BY <1>1, <2>1, <2>2 DEF NextReturns
<1>7. next_part_number = Len(parts') + Len(results') + Len(tasks')
  <2>1. next_part_number = Len(parts) + Len(results) + Len(tasks)
    BY <1>1, <1>4 DEF NumberInv, NextReturns
  <2>2. Len(parts) \in Nat /\ Len(parts') = Len(parts) + 1
    BY <1>2 DEF TypeOK
  <2>3. Len(results') \in Nat /\ Len(tasks') \in Nat
    BY <1>6 DEF QueueType
  <2>4. Len(results') + Len(tasks') + 1 = Len(results) + Len(tasks)
    BY <1>6
  <2>5. QED
    BY <1>5, <2>1, <2>2, <2>3, <2>4
<1>8. ASSUME NEW k \in 1..Len(parts')
      PROVE  parts'[k].part + 1 = k /\ parts'[k] \in sent
  <2>1. CASE k \in 1..Len(parts)
    BY <1>2, <2>1 DEF NumberInv
  <2>2. CASE k = Len(parts) + 1
    BY <1>1, <1>2, <1>6, <2>2
  <2>3. QED
    BY <1>2, <2>1, <2>2
<1>9. NumberInv'
  BY <1>6, <1>7, <1>8 DEF NumberInv, serviceVars
<1>10. TypeOK'
  BY <1>2, <1>3, <1>6 DEF TypeOK, QueueType, historyVars, serviceVars
<1>11. ControlInv'
  BY <1>3, <1>6 DEF ControlInv, Executing, IsConcurrent
<1>12. PhaseInv'
  BY <1>3, <1>4 DEF PhaseInv, historyVars
<1>13. AcceptedInv'
  BY <1>3, <1>4 DEF AcceptedInv, SentPartsAgree, historyVars, serviceVars
<1>14. ClosedObjectIsComplete'
  BY <1>4 DEF ClosedObjectIsComplete
<1>15. QED
  BY <1>9, <1>10, <1>11, <1>12, <1>13, <1>14

(* A close that fails while it collects keeps what it has collected.        *)
LEMMA DrainErrInv ==
  ASSUME IInv, DrainErr
  PROVE  IInv'
<1> USE DEF IInv, DrainErr
<1>1. /\ exec = "none" /\ cache = NoData /\ upload_id > 0 /\ inner = "open"
      /\ UNCHANGED <<exec, input, discarded, accepted, uploads, stored, sent, object>>
  BY DEF ControlInv, PhaseInv, NextReturnsErr, Executing, historyVars, serviceVars
<1>2. /\ QueueType' /\ NumberInv' /\ errored' \in BOOLEAN
      /\ errored' => tasks' = <<>> /\ results' = <<>>
      /\ ~IsConcurrent => tasks' = <<>>
      /\ discarded => tasks' = <<>> /\ results' = <<>>
  <2>1. CASE errored /\ UNCHANGED <<tasks, results, errored>>
    BY <1>1, <2>1 DEF QueueType, TypeOK, NumberInv, ControlInv
  <2>2. CASE RetryFront
    BY <1>1, <2>2, RetryFrontParts DEF TypeOK
  <2>3. CASE FailAll
    BY <1>1, <2>3, EmptyParts DEF FailAll
  <2>4. QED
    BY <2>1, <2>2, <2>3 DEF NextReturnsErr
<1>3. TypeOK'
  BY <1>1, <1>2 DEF TypeOK, QueueType
<1>4. ControlInv'
  BY <1>1, <1>2 DEF ControlInv, Executing, IsConcurrent
<1>5. PhaseInv'
  BY <1>1, <1>2 DEF PhaseInv
<1>6. AcceptedInv'
  BY <1>1 DEF AcceptedInv, SentPartsAgree
<1>7. ClosedObjectIsComplete'
  BY <1>1 DEF ClosedObjectIsComplete
<1>8. QED
  BY <1>2, <1>3, <1>4, <1>5, <1>6, <1>7

(* An abort drops the tasks, the results and the pending buffer.            *)
LEMMA AbortBeginsInv ==
  ASSUME IInv, AbortBegins
  PROVE  IInv'
<1> USE DEF IInv, AbortBegins, Callable, Clear
<1>1. QueueType' /\ NumberInv'
  BY EmptyParts DEF serviceVars
<1>2. TypeOK'
  BY <1>1 DEF TypeOK, QueueType, serviceVars
<1>3. ControlInv'
  BY DEF ControlInv, Executing
<1>4. PhaseInv'
  BY DEF PhaseInv, TypeOK
<1>5. AcceptedInv'
  BY DEF AcceptedInv, SentPartsAgree, PhaseInv, serviceVars
<1>6. ClosedObjectIsComplete'
  BY DEF ClosedObjectIsComplete
<1>7. QED
  BY <1>1, <1>2, <1>3, <1>4, <1>5, <1>6

(* A background task that ends changes its own state and what is stored.    *)
LEMMA PartTaskInv ==
  ASSUME IInv, NEW k, PartTaskEnds(k)
  PROVE  IInv'
<1> USE DEF IInv
<1>1. PICK o \in Outcomes : TaskDone(k, o)
  BY DEF PartTaskEnds, PartTaskOk, PartTaskErr, Outcomes
<1>2. /\ UNCHANGED <<writerVars, historyVars, uploads, sent, object>>
      /\ UNCHANGED <<results, errored, exec, input>>
      /\ \/ UNCHANGED stored
         \/ k \in 1..Len(tasks) /\ StorePart(tasks[k].input)
  BY DEF PartTaskEnds, PartTaskOk, PartTaskErr, TaskDone, serviceVars, TypeOK
<1>3. k \in 1..Len(tasks) /\ tasks[k] \in Tasks(Part)
  BY <1>1 DEF TaskDone, TypeOK
<1>4. tasks' = [tasks EXCEPT ![k] = [input |-> tasks[k].input, state |-> o]]
  <2>1. tasks' = [tasks EXCEPT ![k] = [tasks[k] EXCEPT !.state = o]]
    BY <1>1 DEF TaskDone
  <2>2. [tasks[k] EXCEPT !.state = o] = [input |-> tasks[k].input, state |-> o]
    BY <1>3 DEF Tasks
  <2>3. QED
    BY <2>1, <2>2
<1>5. /\ QueueType' /\ NumberInv'
      /\ tasks # <<>> /\ IsConcurrent /\ ~errored /\ ~discarded
  BY <1>2, <1>3, <1>4, SameParts DEF writerVars, historyVars, Outcomes
<1>6. stored' \subseteq Part
  BY <1>2, <1>3 DEF TypeOK, StorePart, Tasks
<1>7. TypeOK'
  BY <1>2, <1>5, <1>6 DEF TypeOK, QueueType, writerVars, historyVars
<1>8. ControlInv'
  BY <1>2, <1>5 DEF ControlInv, Executing, PendingPart, IsConcurrent, writerVars
<1>9. PhaseInv'
  BY <1>2, <1>5 DEF PhaseInv, writerVars, historyVars
<1>10. AcceptedInv'
  BY <1>2 DEF AcceptedInv, SentPartsAgree, writerVars, historyVars
<1>11. ClosedObjectIsComplete'
  BY <1>2 DEF ClosedObjectIsComplete, writerVars, historyVars
<1>12. QED
  BY <1>5, <1>7, <1>8, <1>9, <1>10, <1>11

-----------------------------------------------------------------------------
(* A new writer satisfies the invariant.                                    *)
LEMMA InitInv ==
  ASSUME Init
  PROVE  IInv
<1> USE DEF Init, TasksInit
<1>1. TypeOK
  <2>1. input \in Part
    BY DEF Part
  <2>2. Len(tasks) <= Concurrent /\ upload_id <= Len(uploads)
    BY ConcurrentAssumption
  <2>3. /\ tasks \in Seq(Tasks(Part)) /\ results \in Seq(Part) /\ parts \in Seq(Part)
        /\ accepted \in Seq(Data) /\ uploads \in Seq({"open", "completed", "aborted"})
    OBVIOUS
  <2>4. QED
    BY <2>1, <2>2, <2>3 DEF TypeOK
<1>2. ControlInv
  BY DEF ControlInv, Executing
<1>3. PhaseInv
  BY DEF PhaseInv
<1>4. NumberInv
  BY DEF NumberInv
<1>5. AcceptedInv
  BY DEF AcceptedInv, SentPartsAgree
<1>6. ClosedObjectIsComplete
  BY DEF ClosedObjectIsComplete
<1>7. QED
  BY <1>1, <1>2, <1>3, <1>4, <1>5, <1>6 DEF IInv

(* A stuttering step preserves the invariant.                               *)
LEMMA StutterInv ==
  ASSUME IInv, UNCHANGED vars
  PROVE  IInv'
<1> USE DEF IInv, vars, taskVars, writerVars, historyVars, serviceVars
<1>1. TypeOK'
  BY DEF TypeOK
<1>2. ControlInv'
  BY DEF ControlInv, Executing, PendingPart, IsConcurrent
<1>3. PhaseInv'
  BY DEF PhaseInv
<1>4. NumberInv'
  BY DEF NumberInv
<1>5. AcceptedInv'
  BY DEF AcceptedInv, SentPartsAgree
<1>6. ClosedObjectIsComplete'
  BY DEF ClosedObjectIsComplete
<1>7. QED
  BY <1>1, <1>2, <1>3, <1>4, <1>5, <1>6

(* Every step preserves the invariant.                                      *)
LEMMA StepInv ==
  ASSUME IInv, [Next]_vars
  PROVE  IInv'
<1>1. CASE Call
  BY <1>1, WriteFirstInv, WriteInitiatesInv, WriteContinuesInv, WritePanicsInv,
     CloseAtOnceInv, CloseLastPartInv, CloseAgainInv, AbortAtOnceInv, AbortBeginsInv
     DEF Call
<1>2. CASE CallRuns
  BY <1>2, ExecuteStepInv, ExecuteErrInv, InitiateOkInv, InitiateErrInv, WriteOkInv,
     OnceOkInv, OnceErrInv, CloseLastPartOkInv, DrainOneInv, DrainErrInv, DrainEndsInv,
     CompleteOkInv, CompleteErrInv, AbortOkInv, AbortErrInv
     DEF CallRuns
<1>3. CASE CallDropped
  BY <1>3, ExecuteDroppedInv, DrainDroppedInv DEF CallDropped
<1>4. CASE \E k \in 1..Concurrent : PartTaskEnds(k)
  BY <1>4, PartTaskInv
<1>5. CASE PartArrives
  BY <1>5, PartArrivesInv
<1>6. CASE UNCHANGED vars
  BY <1>6, StutterInv
<1>7. QED
  BY <1>1, <1>2, <1>3, <1>4, <1>5, <1>6 DEF Next, Ended

(* The inductive invariant holds in every reachable state.                  *)
THEOREM Invariant == Spec => []IInv
<1>1. Init => IInv
  BY InitInv
<1>2. IInv /\ [Next]_vars => IInv'
  BY StepInv
<1>3. QED
  BY <1>1, <1>2, PTL DEF Spec

(* Every variable has its type; no more parts are in flight than the        *)
(* concurrency allows.                                                      *)
THEOREM TypeCorrect == Spec => []TypeOK
<1>1. IInv => TypeOK
  BY DEF IInv
<1>2. QED
  BY <1>1, Invariant, PTL

(* A close that returned Ok has left an object that holds every             *)
(* acknowledged buffer, once and in order.                                  *)
THEOREM ClosedIsComplete == Spec => []ClosedObjectIsComplete
<1>1. IInv => ClosedObjectIsComplete
  BY DEF IInv
<1>2. QED
  BY <1>1, Invariant, PTL

(* A part that is sent, once or again, early or late, carries the buffer    *)
(* acknowledged at its place.                                               *)
THEOREM RetriesAgree == Spec => []SentPartsAgree
<1>1. IInv => SentPartsAgree
  BY DEF IInv, AcceptedInv
<1>2. QED
  BY <1>1, Invariant, PTL

(* The error "multipart part numbers mismatch" cannot occur before an abort *)
(* has failed.                                                              *)
THEOREM NumbersMatch == Spec => []NoPartMismatch
<1>1. IInv => NoPartMismatch
  <2>1. SUFFICES ASSUME IInv, ~discarded, ~errored, results = <<>>, tasks = <<>>
                 PROVE  Len(parts) = next_part_number
    BY DEF NoPartMismatch
  <2>2. next_part_number = Len(parts) + Len(results) + Len(tasks)
    BY <2>1 DEF IInv, NumberInv
  <2>3. Len(results) = 0 /\ Len(tasks) = 0 /\ Len(parts) \in Nat
    BY <2>1 DEF IInv, TypeOK
  <2>4. QED
    BY <2>2, <2>3
<1>2. QED
  BY <1>1, Invariant, PTL

(* A writer that was closed or aborted with success leaves neither a task   *)
(* nor an open upload behind.                                               *)
THEOREM NothingOutlives == Spec => []NothingOutlivesWriter
<1>1. IInv => NothingOutlivesWriter
  BY DEF IInv, NothingOutlivesWriter, PhaseInv, ControlInv, Executing, UploadOpen
<1>2. QED
  BY <1>1, Invariant, PTL

-----------------------------------------------------------------------------
(* Which steps change what a reader of the path sees. *)

(* Only write_once and complete_part change the object.                     *)
LEMMA ObjectSteps ==
  ASSUME IInv, [Next]_vars
  PROVE  \/ UNCHANGED object
         \/ (OnceOk \/ OnceErr) /\ WriteOnce
         \/ (CompleteOk \/ CompleteErr) /\ CompleteUpload
<1>1. CASE Call
  BY <1>1 DEF Call, WriteFirst, WriteInitiates, WriteContinues, WritePanics, CloseAtOnce,
     CloseLastPart, CloseAgain, AbortAtOnce, AbortBegins, serviceVars
<1>2. CASE CallRuns
  <2>1. CASE OnceOk \/ OnceErr
    BY <2>1 DEF OnceOk, OnceErr
  <2>2. CASE CompleteOk \/ CompleteErr
    BY <2>2 DEF CompleteOk, CompleteErr
  <2>3. CASE ExecuteStep \/ ExecuteErr \/ InitiateOk \/ InitiateErr \/ WriteOk
    BY <2>3 DEF ExecuteStep, ExecuteErr, InitiateOk, InitiateErr, WriteOk, ExecuteService,
       serviceVars
  <2>4. CASE \/ CloseLastPartOk \/ DrainOne \/ DrainErr \/ DrainEnds
             \/ AbortOk \/ AbortErr
    BY <2>4 DEF CloseLastPartOk, DrainOne, DrainErr, DrainEnds, AbortOk, AbortErr,
       ExecuteService, serviceVars
  <2>5. QED
    BY <1>2, <2>1, <2>2, <2>3, <2>4 DEF CallRuns
<1>3. CASE CallDropped
  BY <1>3 DEF CallDropped, ExecuteDropped, DrainDropped, serviceVars
<1>4. CASE \E k \in 1..Concurrent : PartTaskEnds(k)
  BY <1>4 DEF PartTaskEnds, PartTaskOk, PartTaskErr, serviceVars
<1>5. CASE PartArrives
  BY <1>5 DEF PartArrives
<1>6. CASE UNCHANGED vars
  BY <1>6 DEF vars, serviceVars
<1>7. QED
  BY <1>1, <1>2, <1>3, <1>4, <1>5, <1>6 DEF Next, Ended

(* The object at the path changes only to exactly what has been             *)
(* acknowledged.                                                            *)
THEOREM NeverPartial == Spec => ObjectIsNeverPartial
<1>1. IInv /\ [Next]_vars =>
        [(object' # object /\ ~discarded) => object' = accepted]_vars
  <2>1. SUFFICES ASSUME IInv, [Next]_vars, object' # object, ~discarded
                 PROVE  object' = accepted
    OBVIOUS
  <2>2. CASE (OnceOk \/ OnceErr) /\ WriteOnce
    BY <2>1, <2>2, WriteOnceFacts DEF OnceOk, OnceErr
  <2>3. CASE (CompleteOk \/ CompleteErr) /\ CompleteUpload
    BY <2>1, <2>3, CompleteFacts DEF CompleteOk, CompleteErr
  <2>4. QED
    BY <2>1, <2>2, <2>3, ObjectSteps
<1>2. QED
  BY <1>1, Invariant, PTL DEF Spec, ObjectIsNeverPartial

-----------------------------------------------------------------------------
(* The refinement of AtomicObject.  A step that leaves its four variables   *)
(* alone is a stuttering step; the others are given one by one.             *)

(* The first write is a Write.                                              *)
LEMMA WriteFirstImplements ==
  ASSUME IInv, NEW d \in Data, WriteFirst(d)
  PROVE  Object!Next
<1>1. inner = "open" /\ ~discarded
  BY DEF WriteFirst, WriteCall, Callable, IInv, PhaseInv
<1>2. Object!Write(d)
  BY <1>1 DEF WriteFirst, serviceVars, Object!Write
<1>3. QED
  BY <1>2 DEF Object!Next

(* A write that returns Ok is a Write.                                      *)
LEMMA WriteOkImplements ==
  ASSUME IInv, WriteOk
  PROVE  Object!Next
<1>1. inner = "open" /\ ~discarded /\ bs \in Data
  BY DEF WriteOk, IInv, TypeOK, PhaseInv, ControlInv, Executing
<1>2. Object!Write(bs)
  BY <1>1 DEF WriteOk, ExecuteService, Object!Write
<1>3. QED
  BY <1>1, <1>2 DEF Object!Next

(* write_once is a Close, a Commit or nothing.                              *)
LEMMA OnceImplements ==
  ASSUME IInv, OnceOk \/ OnceErr
  PROVE  [Object!Next]_(Object!vars)
<1>1. inner = "open"
  BY DEF OnceOk, OnceErr, IInv, PhaseInv
<1>2. CASE OnceOk
  BY <1>1, <1>2, WriteOnceFacts DEF OnceOk, historyVars, Object!Next, Object!Close
<1>3. CASE OnceErr /\ WriteOnce
  BY <1>1, <1>3, WriteOnceFacts DEF OnceErr, historyVars, Object!Next, Object!Commit
<1>4. CASE OnceErr /\ UNCHANGED object
  BY <1>4 DEF OnceErr, historyVars, Object!vars
<1>5. QED
  BY <1>2, <1>3, <1>4 DEF OnceErr

(* complete_part is a Close, a Commit, nothing, or what follows a Discard.  *)
LEMMA CompleteImplements ==
  ASSUME IInv, CompleteOk \/ CompleteErr
  PROVE  [Object!Next]_(Object!vars)
<1>1. inner = "open" /\ discarded \in BOOLEAN
  BY DEF CompleteOk, CompleteErr, IInv, TypeOK, PhaseInv
<1>2. CASE CompleteErr /\ UNCHANGED object
  BY <1>2 DEF CompleteErr, historyVars, Object!vars
<1>3. CASE CompleteUpload
  <2>1. /\ object' \in {accepted, <<>>}
        /\ ~discarded => object' = accepted
    BY <1>3, CompleteFacts DEF CompleteOk, CompleteErr
  <2>2. UNCHANGED <<accepted, discarded>> /\ inner' \in {"open", "closed"}
    BY <1>1 DEF CompleteOk, CompleteErr, historyVars
  <2>3. CASE discarded
    BY <1>1, <2>1, <2>2, <2>3 DEF Object!Next, Object!AfterDiscard
  <2>4. CASE ~discarded /\ inner' = "closed"
    BY <1>1, <2>1, <2>2, <2>4 DEF Object!Next, Object!Close
  <2>5. CASE ~discarded /\ inner' = "open"
    BY <1>1, <2>1, <2>2, <2>5 DEF Object!Next, Object!Commit
  <2>6. QED
    BY <1>1, <2>2, <2>3, <2>4, <2>5
<1>4. QED
  BY <1>2, <1>3 DEF CompleteOk, CompleteErr

(* abort is a Discard and then an Abort, or an Abort at once.               *)
LEMMA AbortImplements ==
  ASSUME IInv, AbortAtOnce \/ AbortBegins \/ AbortOk
  PROVE  Object!Next
<1>1. inner = "open"
  BY DEF AbortAtOnce, AbortBegins, AbortOk, Callable, IInv, PhaseInv
<1>2. CASE AbortAtOnce \/ AbortOk
  BY <1>1, <1>2 DEF AbortAtOnce, AbortOk, historyVars, serviceVars, Object!Next, Object!Abort
<1>3. CASE AbortBegins
  BY <1>1, <1>3 DEF AbortBegins, serviceVars, Object!Next, Object!Discard
<1>4. QED
  BY <1>2, <1>3

(* Every step is a step of AtomicObject or leaves its variables alone.      *)
LEMMA StepImplements ==
  ASSUME IInv, [Next]_vars
  PROVE  [Object!Next]_(Object!vars)
<1>1. CASE Call
  <2>1. CASE \E d \in Data : WriteFirst(d)
    BY <2>1, WriteFirstImplements
  <2>2. CASE AbortAtOnce \/ AbortBegins
    BY <2>2, AbortImplements
  <2>3. CASE \/ \E d \in Data : WriteInitiates(d) \/ WriteContinues(d) \/ WritePanics(d)
             \/ CloseAtOnce \/ CloseLastPart \/ CloseAgain
    BY <2>3 DEF WriteInitiates, WriteContinues, WritePanics, CloseAtOnce,
       CloseLastPart, CloseAgain, historyVars, serviceVars, Object!vars
  <2>4. QED
    BY <1>1, <2>1, <2>2, <2>3 DEF Call
<1>2. CASE CallRuns
  <2>1. CASE WriteOk
    BY <2>1, WriteOkImplements
  <2>2. CASE OnceOk \/ OnceErr
    BY <2>2, OnceImplements
  <2>3. CASE CompleteOk \/ CompleteErr
    BY <2>3, CompleteImplements
  <2>4. CASE AbortOk
    BY <2>4, AbortImplements
  <2>5. CASE ExecuteStep \/ ExecuteErr \/ InitiateOk \/ InitiateErr
    BY <2>5 DEF ExecuteStep, ExecuteErr, InitiateOk, InitiateErr,
       writerVars, historyVars, serviceVars, Object!vars
  <2>6. CASE CloseLastPartOk \/ DrainOne \/ DrainErr \/ DrainEnds \/ AbortErr
    BY <2>6 DEF CloseLastPartOk, DrainOne, DrainErr, DrainEnds, AbortErr,
       ExecuteService, historyVars, serviceVars, Object!vars
  <2>7. QED
    BY <1>2, <2>1, <2>2, <2>3, <2>4, <2>5, <2>6 DEF CallRuns
<1>3. CASE CallDropped
  BY <1>3 DEF CallDropped, ExecuteDropped, DrainDropped, historyVars, serviceVars, Object!vars
<1>4. CASE \E k \in 1..Concurrent : PartTaskEnds(k)
  BY <1>4 DEF PartTaskEnds, PartTaskOk, PartTaskErr, writerVars, historyVars, serviceVars,
     Object!vars
<1>5. CASE PartArrives
  BY <1>5 DEF PartArrives, writerVars, historyVars, Object!vars
<1>6. CASE UNCHANGED vars
  BY <1>6 DEF vars, writerVars, historyVars, serviceVars, Object!vars
<1>7. QED
  BY <1>1, <1>2, <1>3, <1>4, <1>5, <1>6 DEF Next, Ended

(* The writer implements an object that is written atomically.              *)
THEOREM Refinement == Spec => ImplementsAtomicObject
<1>1. Init => Object!Init
  BY DEF Init, Object!Init
<1>2. IInv /\ [Next]_vars => [Object!Next]_(Object!vars)
  BY StepImplements
<1>3. QED
  BY <1>1, <1>2, Invariant, PTL DEF Spec, ImplementsAtomicObject, Object!Spec
=============================================================================
