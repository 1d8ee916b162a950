------------------------- MODULE AppendWriter_proof -------------------------
(***************************************************************************)
(* Appending to one object, for every number of writers, buffers and lost   *)
(* answers, over the six services.  A service that is told the offset and   *)
(* compares it keeps every buffer at most once and in order, under any      *)
(* number of writers; what was acknowledged stays if the service never      *)
(* empties the object, or if the writer is alone.                           *)
(*                                                                          *)
(* Setting one key of a kv service, likewise: a close stores all that its   *)
(* writer has acknowledged, and a reader gets bytes that were there.        *)
(* The key is a register where each operation is one request; a task that   *)
(* waits on a connection to memcached has an answer to come, its own if no  *)
(* task is dropped.                                                         *)
(***************************************************************************)
EXTENDS AppendWriter, SequenceTheorems, TLAPS

(* Which requests a writer waits for, and what it knows by then.            *)
PcInv ==
  \A w \in Writers :
    /\ pc[w] = "status" => ~Compares
    /\ pc[w] \in {"offset", "init"} => offset[w] = Missing
    /\ pc[w] \in {"create", "status", "append"} => offset[w] \in Nat
    /\ pc[w] = "create" => offset[w] = 0 \/ ~Compares
    /\ pc[w] \in {"init", "create"} => ~NeverEmpties

(* A buffer of w in the object was given to a write before the current one, *)
(* or it is the current one: then its answer was lost, and the offset of w  *)
(* is behind the length until the object is emptied.                        *)
Stale(w) == offset[w] # Missing /\ offset[w] < Length

HeldInv ==
  \A w \in Writers, k \in 1..Length :
    object[k][1] = w =>
      \/ object[k][2] < buffer[w]
      \/ object[k][2] = buffer[w] /\ Stale(w)

(* No buffer of a writer is acknowledged before its offset has moved, nor   *)
(* one that is about to create the object.                                  *)
AckInv ==
  \A w \in Writers :
    offset[w] \in {Missing, 0} \/ pc[w] = "create" => \A e \in acked : e[1] # w

OrderInv == Compares => HeldInv /\ EachOnceInOrder
KeptInv == NeverEmpties \/ Alone => AckedIsThere /\ AckInv

IInv == TypeOK /\ PcInv /\ OrderInv /\ KeptInv

-----------------------------------------------------------------------------
(* The content as a sequence, and what is acknowledged by index.            *)
ContentIsSeq ==
  /\ Content \in Seq(Writers \X Nat)
  /\ Length = Len(Content) /\ Length \in Nat
  /\ \A k \in 1..Length : object[k] = Content[k] /\ Content[k] \in Writers \X Nat
  /\ AckedIsThere <=> \A e \in acked : \E k \in 1..Length : object[k] = e

(* The content is a sequence, with or without an object.                    *)
LEMMA ContentFacts == TypeOK => ContentIsSeq
<1> SUFFICES ASSUME TypeOK PROVE ContentIsSeq
  OBVIOUS
<1>1. /\ Content \in Seq(Writers \X Nat)
      /\ Length = Len(Content)
      /\ \A k \in 1..Length : object[k] = Content[k]
  <2>1. CASE object = Missing
    BY <2>1, EmptySeq DEF Content, Length
  <2>2. CASE object # Missing
    BY <2>2 DEF Content, Length, TypeOK
  <2>3. QED
    BY <2>1, <2>2
<1>2. /\ Length \in Nat
      /\ DOMAIN Content = 1..Length
      /\ \A k \in 1..Length : Content[k] \in Writers \X Nat
  BY <1>1, LenProperties, ElementOfSeq
<1>3. Range(Content) = {Content[k] : k \in 1..Length}
  BY <1>2 DEF Range
<1>4. AckedIsThere <=> \A e \in acked : \E k \in 1..Length : object[k] = e
  BY <1>1, <1>3 DEF AckedIsThere
<1>5. QED
  BY <1>1, <1>2, <1>4 DEF ContentIsSeq

(* The same after a step.                                                   *)
LEMMA ContentFactsNext == TypeOK' => ContentIsSeq'
  BY ContentFacts, PTL

(* A buffer is appended.                                                    *)
LEMMA AppendEffect ==
  ASSUME TypeOK, NEW w \in Writers, AppendBuffer(w)
  PROVE  /\ object' \in Seq(Writers \X Nat) /\ object' # Missing
         /\ Length \in Nat /\ Length' = Length + 1
         /\ \A k \in 1..Length : object'[k] = object[k]
         /\ object'[Length + 1] = <<w, buffer[w]>>
<1>1. /\ Content \in Seq(Writers \X Nat)
      /\ Length = Len(Content) /\ Length \in Nat
      /\ \A k \in 1..Length : object[k] = Content[k]
  BY ContentFacts DEF ContentIsSeq
<1>2. <<w, buffer[w]>> \in Writers \X Nat
  BY DEF TypeOK
<1>3. /\ object' \in Seq(Writers \X Nat)
      /\ Len(object') = Len(Content) + 1
      /\ \A k \in 1..Len(Content) : object'[k] = Content[k]
      /\ object'[Len(Content) + 1] = <<w, buffer[w]>>
  BY <1>1, <1>2, AppendProperties DEF AppendBuffer
<1>4. object' # Missing
  BY <1>3, AppendAssumption DEF AppendConstants
<1>5. QED
  BY <1>1, <1>3, <1>4 DEF Length

(* The object is emptied.                                                   *)
LEMMA EmptyEffect ==
  ASSUME object' = <<>>
  PROVE  /\ object' \in Seq(Writers \X Nat) /\ object' # Missing
         /\ Length' = 0
<1>1. object' \in Seq(Writers \X Nat) /\ Len(object') = 0
  BY EmptySeq
<1>2. QED
  BY <1>1, AppendAssumption DEF AppendConstants, Length

(* Every service appends a buffer; one that compares, at the length only.   *)
LEMMA AppendsAtLength ==
  ASSUME TypeOK, NEW w \in Writers, AppendRequest(w)
  PROVE  AppendBuffer(w) /\ (Compares => AtLength(w))
<1>1. service \in {"oss", "cos", "obs", "azblob", "azdls", "webhdfs"}
  BY AppendAssumption DEF AppendConstants, TypeOK
<1>2. QED
  BY <1>1 DEF AppendRequest, OssAppend, CosAppend, ObsAppend, AzblobAppend, AzdlsAppend,
     WebhdfsAppend, AtLength, Compares

(* The first request of an append.                                          *)
LEMMA FirstRequestFacts ==
  ASSUME TypeOK, NEW o \in Nat
  PROVE  /\ FirstRequest(o) \in {"create", "status", "append"}
         /\ FirstRequest(o) = "create" => o = 0 /\ ~NeverEmpties
         /\ FirstRequest(o) = "status" <=> ~Compares
<1>1. service \in {"oss", "cos", "obs", "azblob", "azdls", "webhdfs"}
  BY AppendAssumption DEF AppendConstants, TypeOK
<1>2. QED
  BY <1>1 DEF FirstRequest, AzdlsFirst, WebhdfsFirst, NeverEmpties, Compares

-----------------------------------------------------------------------------
(* Steps that leave the object and the buffers alone: a writer learns its   *)
(* offset, sends its first request or gives up a request without effect.    *)
LEMMA QuietInv ==
  ASSUME IInv, NEW w \in Writers,
         UNCHANGED <<service, acked, lost, object>>,
         buffer' \in {buffer, [buffer EXCEPT ![w] = @ + 1]},
         NEW l \in {"idle", "offset", "init", "create", "status", "append"},
         Goto(w, l),
         NEW o \in Nat \cup {Missing}, offset' = [offset EXCEPT ![w] = o],
         o = offset[w] \/ offset[w] = Missing,
         l = "status" => ~Compares,
         l \in {"offset", "init"} => o = Missing,
         l \in {"create", "status", "append"} => o \in Nat,
         l = "create" => IF Compares THEN o = 0 ELSE object = Missing,
         l \in {"init", "create"} => ~NeverEmpties
  PROVE  IInv'
<1> USE DEF IInv
<1>1. Length' = Length /\ Length \in Nat
  BY ContentFacts DEF Length, ContentIsSeq
<1>2. /\ offset'[w] = o /\ pc'[w] = l
      /\ \A u \in Writers : u # w => offset'[u] = offset[u] /\ pc'[u] = pc[u]
  BY DEF TypeOK, Goto
<1>3. \A u \in Writers : buffer'[u] \in Nat /\ (buffer'[u] = buffer[u] \/ buffer'[u] = buffer[u] + 1)
  BY DEF TypeOK
<1>4. TypeOK'
  <2>1. [buffer EXCEPT ![w] = buffer[w] + 1] \in [Writers -> Nat]
    BY DEF TypeOK
  <2>2. buffer' \in [Writers -> Nat]
    BY <2>1 DEF TypeOK
  <2>3. QED
    BY <2>2 DEF TypeOK, Goto
<1>5. (Compares' <=> Compares) /\ (NeverEmpties' <=> NeverEmpties) /\ (Alone' <=> Alone)
  BY DEF Compares, NeverEmpties, Alone
<1>6. PcInv'
  BY <1>2, <1>5 DEF PcInv
<1>7. ASSUME Compares PROVE HeldInv' /\ EachOnceInOrder'
  <2>1. HeldInv'
    <3>1. SUFFICES ASSUME NEW u \in Writers, NEW k \in 1..Length, object[k][1] = u
                   PROVE  \/ object[k][2] < buffer'[u]
                          \/ object[k][2] = buffer'[u] /\ Stale(u)'
      BY <1>1 DEF HeldInv
    <3>2. object[k][2] \in Nat /\ buffer[u] \in Nat
      BY ContentFacts DEF ContentIsSeq, TypeOK
    <3>3. \/ object[k][2] < buffer[u]
          \/ object[k][2] = buffer[u] /\ Stale(u)
      BY <1>7, <3>1 DEF OrderInv, HeldInv
    <3>4. Stale(u) => Stale(u)'
      BY <1>1, <1>2 DEF Stale
    <3>5. QED
      BY <1>3, <3>2, <3>3, <3>4
  <2>2. EachOnceInOrder'
    BY <1>1, <1>7 DEF OrderInv, EachOnceInOrder
  <2>3. QED
    BY <2>1, <2>2
<1>8. ASSUME NeverEmpties \/ Alone PROVE AckedIsThere' /\ AckInv'
  <2>1. AckedIsThere /\ AckInv
    BY <1>8 DEF KeptInv
  <2>2. object = Missing => acked = {}
    <3>1. object = Missing => Length = 0
      BY DEF Length
    <3>2. QED
      BY <2>1, <3>1, ContentFacts DEF ContentIsSeq
  <2>3. AckedIsThere'
    BY <2>1 DEF AckedIsThere, Content
  <2>4. AckInv'
    BY <1>2, <2>1, <2>2 DEF AckInv
  <2>5. QED
    BY <2>3, <2>4
<1>9. QED
  BY <1>4, <1>5, <1>6, <1>7, <1>8 DEF OrderInv, KeptInv

(* A buffer is appended: its write returns Ok, or its answer is lost and    *)
(* the offset stays behind the end.                                         *)
LEMMA AppendedInv ==
  ASSUME IInv, NEW w \in Writers, pc[w] = "append",
         AppendBuffer(w), Compares => AtLength(w),
         Goto(w, "idle"), UNCHANGED service, lost' \in 0..MaxLost,
         \/ /\ offset' = [offset EXCEPT ![w] = @ + 1]
            /\ buffer' = [buffer EXCEPT ![w] = @ + 1]
            /\ acked' = acked \cup {<<w, buffer[w]>>}
         \/ /\ UNCHANGED <<offset, acked>>
            /\ buffer' \in {buffer, [buffer EXCEPT ![w] = @ + 1]}
  PROVE  IInv'
<1> USE DEF IInv
<1>1. /\ object' \in Seq(Writers \X Nat) /\ object' # Missing
      /\ Length \in Nat /\ Length' = Length + 1
      /\ \A k \in 1..Length : object'[k] = object[k]
      /\ object'[Length + 1] = <<w, buffer[w]>>
  BY AppendEffect
<1>2. offset[w] \in Nat /\ buffer[w] \in Nat /\ Missing \notin Nat
  BY AppendAssumption DEF PcInv, TypeOK, AppendConstants
<1>3. /\ \A u \in Writers : u # w => /\ offset'[u] = offset[u]
                                     /\ buffer'[u] = buffer[u]
                                     /\ pc'[u] = pc[u]
      /\ pc'[w] = "idle"
      /\ \/ offset'[w] = offset[w] + 1 /\ buffer'[w] = buffer[w] + 1
         \/ offset'[w] = offset[w] /\ buffer'[w] \in {buffer[w], buffer[w] + 1}
  BY <1>2 DEF TypeOK, Goto
<1>4. TypeOK'
  <2>1. buffer' \in [Writers -> Nat] /\ offset' \in [Writers -> Nat \cup {Missing}]
    <3>1. offset[w] + 1 \in Nat /\ buffer[w] + 1 \in Nat
      BY <1>2
    <3>2. /\ [offset EXCEPT ![w] = offset[w] + 1] \in [Writers -> Nat \cup {Missing}]
          /\ [buffer EXCEPT ![w] = buffer[w] + 1] \in [Writers -> Nat]
      BY <3>1 DEF TypeOK
    <3>3. QED
      BY <3>2 DEF TypeOK
  <2>2. acked' \subseteq Writers \X Nat
    BY <1>2 DEF TypeOK
  <2>3. QED
    BY <1>1, <2>1, <2>2 DEF TypeOK, Goto
<1>5. (Compares' <=> Compares) /\ (NeverEmpties' <=> NeverEmpties) /\ (Alone' <=> Alone)
  BY DEF Compares, NeverEmpties, Alone
<1>6. PcInv'
  BY <1>3, <1>5 DEF PcInv
<1>7. ASSUME Compares PROVE HeldInv' /\ EachOnceInOrder'
  <2>1. HeldInv /\ EachOnceInOrder /\ offset[w] = Length
    BY <1>7 DEF OrderInv, AtLength
  <2>2. \A k \in 1..Length : object[k][1] = w => object[k][2] < buffer[w]
    <3>1. SUFFICES ASSUME NEW k \in 1..Length, object[k][1] = w
                   PROVE  object[k][2] < buffer[w]
      OBVIOUS
    <3>2. ~Stale(w)
      BY <1>1, <2>1 DEF Stale
    <3>3. QED
      BY <2>1, <3>1, <3>2 DEF HeldInv
  <2>3. HeldInv'
    <3>1. SUFFICES ASSUME NEW u \in Writers, NEW k \in 1..Length + 1, object'[k][1] = u
                   PROVE  \/ object'[k][2] < buffer'[u]
                          \/ object'[k][2] = buffer'[u] /\ Stale(u)'
      BY <1>1 DEF HeldInv
    <3>2. CASE k = Length + 1
      <4>1. u = w /\ object'[k][2] = buffer[w]
        BY <1>1, <3>1, <3>2
      <4>2. CASE buffer'[w] = buffer[w] + 1
        BY <1>2, <4>1, <4>2
      <4>3. CASE buffer'[w] = buffer[w]
        <5>1. offset'[w] = Length
          BY <1>2, <1>3, <2>1, <4>3
        <5>2. QED
          BY <1>1, <1>2, <4>1, <4>3, <5>1 DEF Stale
      <4>4. QED
        BY <1>3, <4>2, <4>3
    <3>3. CASE k \in 1..Length
      <4>1. /\ object'[k] = object[k] /\ object[k][2] \in Nat
            /\ object[k][1] = u
        BY <1>1, <3>1, <3>3, ContentFacts DEF ContentIsSeq
      <4>2. CASE u = w
        <5>1. object[k][2] < buffer[w]
          BY <2>2, <3>3, <4>1, <4>2
        <5>2. QED
          BY <1>2, <1>3, <4>1, <4>2, <5>1
      <4>3. CASE u # w
        <5>1. \/ object[k][2] < buffer[u]
              \/ object[k][2] = buffer[u] /\ Stale(u)
          BY <2>1, <3>3, <4>1 DEF HeldInv
        <5>2. Stale(u) => Stale(u)'
          BY <1>1, <1>3, <4>3, SMTT(30) DEF Stale, TypeOK
        <5>3. QED
          BY <1>3, <4>1, <4>3, <5>1, <5>2
      <4>4. QED
        BY <4>2, <4>3
    <3>4. QED
      BY <1>1, <3>2, <3>3
  <2>4. EachOnceInOrder'
    <3>1. SUFFICES ASSUME NEW k \in 1..Length + 1, NEW l \in 1..Length + 1, k < l,
                          object'[k][1] = object'[l][1]
                   PROVE  object'[k][2] < object'[l][2]
      BY <1>1 DEF EachOnceInOrder
    <3>2. k \in 1..Length
      <4>1. Length \in Nat
        BY <1>1
      <4>2. QED
        BY <3>1, <4>1
    <3>3. CASE l \in 1..Length
      <4>1. object'[k] = object[k] /\ object'[l] = object[l]
        BY <1>1, <3>2, <3>3
      <4>2. QED
        BY <2>1, <3>1, <3>2, <3>3, <4>1 DEF EachOnceInOrder
    <3>4. CASE l = Length + 1
      <4>1. object'[k] = object[k] /\ object'[l] = <<w, buffer[w]>>
        BY <1>1, <3>2, <3>4
      <4>2. QED
        BY <2>2, <3>1, <3>2, <4>1
    <3>5. QED
      BY <1>1, <3>3, <3>4
  <2>5. QED
    BY <2>3, <2>4
<1>8. ASSUME NeverEmpties \/ Alone PROVE AckedIsThere' /\ AckInv'
  <2>1. AckedIsThere /\ AckInv
    BY <1>8 DEF KeptInv
  <2>2. \A e \in acked : \E k \in 1..Length : object[k] = e
    BY <2>1, ContentFacts DEF ContentIsSeq
  <2>3. \A e \in acked' : \E k \in 1..Length' : object'[k] = e
    <3>1. SUFFICES ASSUME NEW e \in acked'
                   PROVE  \E k \in 1..Length' : object'[k] = e
      OBVIOUS
    <3>2. CASE e \in acked
      <4>1. PICK k \in 1..Length : object[k] = e
        BY <2>2, <3>2
      <4>2. k \in 1..Length' /\ object'[k] = e
        BY <1>1, <4>1
      <4>3. QED
        BY <4>2
    <3>3. CASE e = <<w, buffer[w]>>
      <4>1. Length + 1 \in 1..Length' /\ object'[Length + 1] = e
        BY <1>1, <3>3
      <4>2. QED
        BY <4>1
    <3>4. QED
      BY <3>1, <3>2, <3>3
  <2>4. AckedIsThere'
    BY <1>4, <2>3, ContentFactsNext DEF ContentIsSeq
  <2>5. AckInv'
    <3>1. SUFFICES ASSUME NEW u \in Writers,
                          offset'[u] \in {Missing, 0} \/ pc'[u] = "create",
                          NEW e \in acked'
                   PROVE  e[1] # u
      BY DEF AckInv
    <3>2. CASE acked' = acked /\ offset' = offset
      BY <1>3, <2>1, <3>1, <3>2 DEF AckInv
    <3>3. CASE offset'[w] = offset[w] + 1 /\ acked' = acked \cup {<<w, buffer[w]>>}
      <4>1. u # w
        <5>1. offset[w] + 1 \in Nat /\ offset[w] + 1 # 0
          BY <1>2
        <5>2. QED
          BY <1>2, <1>3, <3>1, <3>3, <5>1
      <4>2. e \in acked => e[1] # u
        BY <1>3, <2>1, <3>1, <4>1 DEF AckInv
      <4>3. QED
        BY <3>1, <3>3, <4>1, <4>2
    <3>4. QED
      BY <1>2, <3>2, <3>3 DEF TypeOK
  <2>6. QED
    BY <2>4, <2>5
<1>9. QED
  BY <1>4, <1>5, <1>6, <1>7, <1>8 DEF OrderInv, KeptInv

(* The object is created, and so emptied.  A writer that is alone has no    *)
(* acknowledged buffer then; under several, only the order is kept.         *)
LEMMA EmptiedInv ==
  ASSUME IInv, NEW w \in Writers, pc[w] \in {"init", "create"}, object' = <<>>,
         UNCHANGED <<service, acked>>, lost' \in 0..MaxLost,
         buffer' \in {buffer, [buffer EXCEPT ![w] = @ + 1]},
         NEW l \in {"idle", "create", "status", "append"}, Goto(w, l),
         NEW o \in Nat \cup {Missing}, offset' = [offset EXCEPT ![w] = o],
         l \in {"create", "status", "append"} => o \in Nat,
         l = "create" => o = 0,
         l = "status" => ~Compares
  PROVE  IInv'
<1> USE DEF IInv
<1>1. ~NeverEmpties /\ (offset[w] \in {Missing, 0} \/ pc[w] = "create")
  BY DEF PcInv
<1>2. object' \in Seq(Writers \X Nat) /\ object' # Missing /\ Length' = 0
  BY EmptyEffect
<1>3. /\ offset'[w] = o /\ pc'[w] = l /\ buffer' \in [Writers -> Nat]
      /\ \A u \in Writers : u # w => offset'[u] = offset[u] /\ pc'[u] = pc[u]
  BY SMTT(30) DEF TypeOK, Goto
<1>4. TypeOK'
  BY <1>2, <1>3 DEF TypeOK, Goto
<1>5. (Compares' <=> Compares) /\ (NeverEmpties' <=> NeverEmpties) /\ (Alone' <=> Alone)
  BY DEF Compares, NeverEmpties, Alone
<1>6. PcInv'
  BY <1>1, <1>3, <1>5 DEF PcInv
<1>7. HeldInv' /\ EachOnceInOrder'
  BY <1>2 DEF HeldInv, EachOnceInOrder
<1>8. ASSUME Alone PROVE AckedIsThere' /\ AckInv'
  <2>1. Writers = {w} /\ AckInv
    BY <1>8 DEF Alone, KeptInv
  <2>2. \A e \in acked : e \in Writers \X Nat /\ e[1] # w
    BY <1>1, <2>1 DEF AckInv, TypeOK
  <2>3. \A e \in acked : e[1] \in {w}
    BY <2>1, <2>2
  <2>4. acked = {}
    BY <2>2, <2>3
  <2>5. QED
    BY <2>4 DEF AckedIsThere, AckInv
<1>9. QED
  BY <1>1, <1>4, <1>5, <1>6, <1>7, <1>8 DEF OrderInv, KeptInv

-----------------------------------------------------------------------------
(* The writers have nothing, and nothing is at the path.                    *)
LEMMA InitInv ==
  ASSUME Init
  PROVE  IInv
<1>1. Length = 0
  BY DEF Init, Length
<1>2. TypeOK
  BY <1>1, AppendAssumption DEF Init, TypeOK, AppendConstants
<1>3. QED
  BY <1>1, <1>2 DEF Init, IInv, PcInv, OrderInv, KeptInv, HeldInv, EachOnceInOrder,
     AckedIsThere, AckInv

(* A writer that knows its offset makes the first request.                  *)
LEMMA OffsetIsInv ==
  ASSUME IInv, NEW w \in Writers, NEW o \in Nat, OffsetIs(w, o), offset[w] = Missing,
         UNCHANGED <<service, buffer, acked, lost, object>>
  PROVE  IInv'
<1>1. /\ FirstRequest(o) \in {"create", "status", "append"}
      /\ FirstRequest(o) = "create" => o = 0 /\ ~NeverEmpties
      /\ FirstRequest(o) = "status" <=> ~Compares
  BY FirstRequestFacts DEF IInv
<1>2. PICK l \in {"create", "status", "append"} : l = FirstRequest(o)
  BY <1>1
<1>3. /\ Goto(w, l) /\ offset' = [offset EXCEPT ![w] = o]
      /\ l = "create" => o = 0 /\ ~NeverEmpties /\ Compares
      /\ l = "status" => ~Compares
  BY <1>1, <1>2 DEF OffsetIs
<1>4. QED
  BY <1>3, QuietInv

(* A step of a writer preserves the invariant, action by action.            *)
LEMMA WriterStepInv ==
  ASSUME IInv, NEW w \in Writers,
         \/ Write(w) \/ OffsetOk(w) \/ InitAppendable(w) \/ Create(w)
         \/ WebhdfsStatus(w) \/ AppendOk(w) \/ WriteErr(w)
  PROVE  IInv'
<1>1. /\ offset[w] \in Nat \cup {Missing} /\ Missing \notin Nat /\ 0 \in Nat
      /\ offset = [offset EXCEPT ![w] = offset[w]]
      /\ lost \in 0..MaxLost /\ MaxLost \in Nat
      /\ Length \in Nat
  BY AppendAssumption, ContentFacts
  DEF IInv, TypeOK, AppendConstants, ContentIsSeq
<1>2. \A o \in Nat :
        /\ FirstRequest(o) \in {"create", "status", "append"}
        /\ FirstRequest(o) = "create" => o = 0 /\ ~NeverEmpties
        /\ FirstRequest(o) = "status" <=> ~Compares
  BY FirstRequestFacts DEF IInv
<1>3. CASE Write(w)
  <2>1. UNCHANGED <<service, buffer, acked, lost, object>>
    BY <1>3 DEF Write
  <2>2. CASE offset[w] # Missing /\ Goto(w, FirstRequest(offset[w])) /\ UNCHANGED offset
    BY <1>1, <1>2, <2>1, <2>2, QuietInv
  <2>3. CASE OffsetIs(w, 0) /\ offset[w] = Missing
    BY <1>1, <2>1, <2>3, OffsetIsInv
  <2>4. CASE offset[w] = Missing /\ Goto(w, "offset") /\ UNCHANGED offset
    BY <1>1, <2>1, <2>4, QuietInv
  <2>5. QED
    BY <1>3, <2>2, <2>3, <2>4 DEF Write, OffsetIs
<1>4. CASE OffsetOk(w)
  <2>1. offset[w] = Missing /\ UNCHANGED <<service, buffer, acked, lost, object>>
    BY <1>4 DEF OffsetOk, IInv, PcInv
  <2>2. CASE OffsetIs(w, Length)
    BY <1>1, <2>1, <2>2, OffsetIsInv
  <2>3. CASE service = "azblob" /\ Goto(w, "init") /\ UNCHANGED offset
    BY <1>1, <2>1, <2>3, QuietInv DEF NeverEmpties
  <2>4. QED
    BY <1>4, <2>2, <2>3
    DEF OffsetOk, OssOffset, CosOffset, ObsOffset, AzdlsOffset, AzblobOffset
<1>5. CASE InitAppendable(w)
  BY <1>1, <1>2, <1>5, EmptiedInv DEF InitAppendable, OffsetIs
<1>6. CASE Create(w)
  <2>1. offset[w] \in Nat
    BY <1>6 DEF Create, IInv, PcInv
  <2>2. QED
    BY <1>1, <1>6, <2>1, EmptiedInv DEF Create
<1>7. CASE WebhdfsStatus(w)
  <2>1. ~Compares /\ ~NeverEmpties /\ offset[w] \in Nat
    BY <1>7 DEF WebhdfsStatus, IInv, PcInv, Compares, NeverEmpties
  <2>2. CASE object = Missing /\ Goto(w, "create")
    BY <1>1, <1>7, <2>1, <2>2, QuietInv DEF WebhdfsStatus
  <2>3. CASE Goto(w, "append")
    BY <1>1, <1>7, <2>1, <2>3, QuietInv DEF WebhdfsStatus
  <2>4. QED
    BY <1>7, <2>2, <2>3 DEF WebhdfsStatus
<1>8. CASE AppendOk(w)
  <2>1. AppendBuffer(w) /\ (Compares => AtLength(w))
    BY <1>8, AppendsAtLength DEF AppendOk, IInv
  <2>2. QED
    BY <1>1, <1>8, <2>1, AppendedInv DEF AppendOk
<1>9. CASE WriteErr(w)
  <2>1. CASE UNCHANGED <<object, lost>>
    BY <1>1, <1>9, <2>1, QuietInv DEF WriteErr
  <2>2. CASE lost < MaxLost /\ lost' = lost + 1 /\ pc[w] \in {"init", "create"} /\ object' = <<>>
    <3>1. lost' \in 0..MaxLost
      BY <1>1, <2>2
    <3>2. QED
      BY <1>1, <1>9, <2>2, <3>1, EmptiedInv DEF WriteErr
  <2>3. CASE lost < MaxLost /\ lost' = lost + 1 /\ pc[w] = "append" /\ AppendRequest(w)
    <3>1. AppendBuffer(w) /\ (Compares => AtLength(w)) /\ lost' \in 0..MaxLost
      BY <1>1, <2>3, AppendsAtLength DEF IInv
    <3>2. QED
      BY <1>9, <2>3, <3>1, AppendedInv DEF WriteErr
  <2>4. QED
    BY <1>9, <2>1, <2>2, <2>3 DEF WriteErr
<1>10. QED
  BY <1>3, <1>4, <1>5, <1>6, <1>7, <1>8, <1>9

(* Every step keeps the invariant.                                          *)
LEMMA StepInv ==
  ASSUME IInv, [Next]_vars
  PROVE  IInv'
<1>1. CASE Next
  BY <1>1, WriterStepInv DEF Next
<1>2. CASE UNCHANGED vars
  <2>1. Length' = Length /\ Content' = Content
    BY <1>2 DEF vars, Length, Content
  <2>2. (Compares' <=> Compares) /\ (NeverEmpties' <=> NeverEmpties) /\ (Alone' <=> Alone)
    BY <1>2 DEF vars, Compares, NeverEmpties, Alone
  <2>3. TypeOK' /\ PcInv'
    BY <1>2, <2>2 DEF vars, IInv, TypeOK, PcInv
  <2>4. OrderInv' /\ KeptInv'
    BY <1>2, <2>1, <2>2 DEF vars, IInv, OrderInv, KeptInv, HeldInv, Stale, EachOnceInOrder,
       AckedIsThere, AckInv
  <2>5. QED
    BY <2>3, <2>4 DEF IInv
<1>3. QED
  BY <1>1, <1>2

-----------------------------------------------------------------------------
(* The inductive invariant holds in every reachable state.                  *)
THEOREM Invariant == Spec => []IInv
<1>1. Init => IInv
  BY InitInv
<1>2. IInv /\ [Next]_vars => IInv'
  BY StepInv
<1>3. QED
  BY <1>1, <1>2, PTL DEF Spec

(* The variables of AppendWriter have their types.                          *)
THEOREM TypeCorrect == Spec => []TypeOK
<1>1. IInv => TypeOK
  BY DEF IInv
<1>2. QED
  BY <1>1, Invariant, PTL

(* A write whose answer was lost may be repeated or given up: over a        *)
(* service that compares the offset its buffer is never there twice and     *)
(* none is before an earlier one of the same writer, for any number of      *)
(* writers.  What was acknowledged stays, unless another writer empties     *)
(* the object.                                                              *)
THEOREM AckedOnce == Spec => []AckedOnceInOrder
<1>1. IInv => AckedOnceInOrder
  BY DEF IInv, OrderInv, KeptInv, AckedOnceInOrder
<1>2. QED
  BY <1>1, Invariant, PTL

(* Over oss, cos and obs no step of any writer changes or removes what is   *)
(* in the object, unacknowledged buffers included.                          *)
THEOREM OnlyGrows == Spec => NothingIsTakenAway
<1>1. IInv /\ [Next]_vars => [NeverEmpties => OnlyAppends]_vars
  <2>1. SUFFICES ASSUME IInv, Next, NeverEmpties, object # Missing
                 PROVE  IsPrefix(object, object')
    BY DEF OnlyAppends
  <2>2. object \in Seq(Writers \X Nat) /\ Length = Len(object) /\ Len(object) \in Nat
    BY <2>1, LenProperties DEF IInv, TypeOK, Length
  <2>3. \A k \in 1..Len(object) : object[k] \in Writers \X Nat
    BY <2>2, ElementOfSeq
  <2>4. CASE UNCHANGED object
    BY <2>2, <2>4 DEF IsPrefix
  <2>5. CASE \E w \in Writers : AppendRequest(w)
    <3>1. PICK w \in Writers : AppendBuffer(w)
      BY <2>1, <2>5, AppendsAtLength DEF IInv
    <3>2. /\ object' \in Seq(Writers \X Nat) /\ object' # Missing
          /\ Length' = Length + 1
          /\ \A k \in 1..Length : object'[k] = object[k]
      BY <2>1, <3>1, AppendEffect DEF IInv
    <3>3. Len(object') = Len(object) + 1
      BY <2>2, <3>2 DEF Length
    <3>4. /\ SubSeq(object, 1, Len(object)) \in Seq(Writers \X Nat)
          /\ Len(SubSeq(object, 1, Len(object))) = Len(object)
          /\ \A k \in 1..Len(object) : SubSeq(object, 1, Len(object))[k] = object[k]
      BY <2>2
    <3>5. /\ SubSeq(object', 1, Len(object)) \in Seq(Writers \X Nat)
          /\ Len(SubSeq(object', 1, Len(object))) = Len(object)
          /\ \A k \in 1..Len(object) : SubSeq(object', 1, Len(object))[k] = object'[k]
      BY <2>2, <3>2, <3>3
    <3>6. SubSeq(object, 1, Len(object)) = SubSeq(object', 1, Len(object))
      BY <2>2, <3>2, <3>4, <3>5, SeqEqual
    <3>7. QED
      BY <2>2, <3>3, <3>6 DEF IsPrefix
  <2>6. \A w \in Writers : pc[w] \notin {"init", "create"}
    BY <2>1 DEF IInv, PcInv
  <2>7. QED
    BY <2>1, <2>4, <2>5, <2>6
    DEF Next, Write, OffsetOk, InitAppendable, Create, WebhdfsStatus, AppendOk, WriteErr
<1>2. QED
  BY <1>1, Invariant, PTL DEF Spec, NothingIsTakenAway

-----------------------------------------------------------------------------
(* KvObject: several writers of one key, and a reader.                      *)
CONSTANTS MaxWrites, MaxFailures, Ends, Open
VARIABLES typed, stored, kvBuffer, value, inner, failures, range, chunked, reader, kvAcked,
          out, seen
Kv == INSTANCE KvObject WITH buffer <- kvBuffer, acked <- kvAcked

(* The bytes of a value; 0 is the byte of None.                             *)
KvBytes == Writers \cup {0}

KvTypes ==
  /\ typed \in BOOLEAN /\ chunked \in BOOLEAN
  /\ stored \in Seq(KvBytes)
  /\ stored # Kv!None => Len(stored) <= MaxWrites
  /\ kvBuffer \in [Writers -> Seq(KvBytes)] /\ value \in [Writers -> Seq(KvBytes)]
  /\ inner \in [Writers -> {"open", "closed", "aborted"}]
  /\ kvAcked \in [Writers -> Seq(KvBytes)]
  /\ range \in [from : Nat, start : Nat, end : Nat]
  /\ reader \in {"idle", "reading", "panic", "end"}
  /\ out \in Seq(KvBytes)
  /\ seen \subseteq Seq(KvBytes)

(* An open writer has in its buffer all that it has acknowledged, and has   *)
(* built no value yet.                                                      *)
KvKept ==
  \A w \in Writers :
    /\ Len(kvAcked[w]) <= MaxWrites
    /\ inner[w] = "open" => kvBuffer[w] = kvAcked[w] /\ value[w] = Kv!None

(* A reader that is reading has seen what is stored now, and is where the   *)
(* bytes it got end.                                                        *)
KvPlace ==
  /\ reader = "idle" => out = <<>>
  /\ reader = "reading" =>
       /\ stored \in seen
       /\ chunked => range.start = range.from + Len(out) /\ range.end < Open
       /\ ~chunked /\ range.start < range.end => out = <<>> /\ range.start = range.from

KvThere(v, i) == range.from + i \in 1..Len(v) /\ v[range.from + i] = out[i]
KvFound ==
  /\ \A i \in 1..Len(out) : \E v \in seen : KvThere(v, i)
  /\ ~chunked /\ out # <<>> => \E v \in seen : \A i \in 1..Len(out) : KvThere(v, i)

KvInv == KvTypes /\ KvKept /\ KvPlace /\ KvFound

(* What an open writer sets is what it has acknowledged.                    *)
LEMMA KvBuilt ==
  ASSUME KvInv, NEW w \in Writers, inner[w] = "open"
  PROVE  /\ Kv!Built(w) = kvAcked[w] /\ kvAcked[w] \in Seq(KvBytes)
         /\ Len(kvAcked[w]) <= MaxWrites
  BY DEF KvInv, KvTypes, KvKept, Kv!Built

(* A set changes what is stored, which the reader has then seen.            *)
LEMMA KvSet ==
  ASSUME KvInv, NEW w \in Writers, inner[w] = "open",
         Kv!Set(w) \/ UNCHANGED <<stored, seen>>,
         UNCHANGED <<range, chunked, reader, out>>
  PROVE  /\ stored' \in Seq(KvBytes) /\ (stored' # Kv!None => Len(stored') <= MaxWrites)
         /\ seen' \subseteq Seq(KvBytes)
         /\ KvPlace' /\ KvFound'
<1>1. \/ stored' = kvAcked[w] /\ seen' = seen \cup {kvAcked[w]}
      \/ UNCHANGED <<stored, seen>>
  BY KvBuilt DEF Kv!Set
<1>2. /\ stored' \in Seq(KvBytes) /\ (stored' # Kv!None => Len(stored') <= MaxWrites)
      /\ seen' \subseteq Seq(KvBytes)
  BY <1>1, KvBuilt DEF KvInv, KvTypes
<1>3. KvPlace'
  BY <1>1 DEF KvInv, KvPlace
<1>4. seen \subseteq seen' /\ \A v, i : KvThere(v, i)' <=> KvThere(v, i)
  BY <1>1 DEF KvThere
<1>5. KvFound'
  BY <1>4 DEF KvInv, KvFound
<1>6. QED
  BY <1>2, <1>3, <1>5

(* The steps of a writer.                                                   *)
LEMMA KvWriterStep ==
  ASSUME KvInv, Kv!KvObjectAssumption, NEW w \in Writers,
         Kv!Write(w) \/ Kv!CloseOk(w) \/ Kv!CloseErr(w) \/ Kv!Abort(w)
  PROVE  KvInv'
<1>1. inner[w] = "open" /\ KvTypes /\ KvKept /\ KvPlace /\ KvFound /\ MaxWrites \in Nat
  BY DEF Kv!Write, Kv!CloseOk, Kv!CloseErr, Kv!Abort, KvInv, Kv!KvObjectAssumption
<1>2. CASE Kv!Write(w)
  <2>1. /\ Len(kvAcked[w]) < MaxWrites
        /\ kvBuffer' = [kvBuffer EXCEPT ![w] = Append(kvBuffer[w], w)]
        /\ kvAcked' = [kvAcked EXCEPT ![w] = Append(kvAcked[w], w)]
        /\ UNCHANGED <<typed, stored, value, inner, failures, range, chunked, reader, out, seen>>
    BY <1>2 DEF Kv!Write
  <2>2. w \in KvBytes /\ kvAcked[w] \in Seq(KvBytes) /\ kvBuffer[w] = kvAcked[w]
    BY <1>1 DEF KvTypes, KvKept, KvBytes
  <2>3. Append(kvAcked[w], w) \in Seq(KvBytes) /\ Len(Append(kvAcked[w], w)) <= MaxWrites
    BY <1>1, <2>1, <2>2, AppendProperties
  <2>4. KvTypes'
    BY <1>1, <2>1, <2>2, <2>3 DEF KvTypes
  <2>5. KvKept'
    BY <1>1, <2>1, <2>2, <2>3 DEF KvTypes, KvKept
  <2>6. KvPlace' /\ KvFound'
    BY <1>1, <2>1 DEF KvPlace, KvFound, KvThere
  <2>7. QED
    BY <2>4, <2>5, <2>6 DEF KvInv
<1>3. CASE Kv!CloseOk(w) \/ Kv!CloseErr(w)
  <2>1. /\ Kv!Set(w) \/ UNCHANGED <<stored, seen>>
        /\ Kv!Build(w)
        /\ inner' = [inner EXCEPT ![w] = "closed"] \/ (UNCHANGED inner /\ ~typed)
        /\ UNCHANGED <<typed, kvAcked, range, chunked, reader, out>>
    BY <1>3 DEF Kv!CloseOk, Kv!CloseErr
  <2>2. /\ stored' \in Seq(KvBytes) /\ (stored' # Kv!None => Len(stored') <= MaxWrites)
        /\ seen' \subseteq Seq(KvBytes)
        /\ KvPlace' /\ KvFound'
    BY <1>1, <2>1, KvSet
  <2>3. /\ kvBuffer' \in [Writers -> Seq(KvBytes)] /\ value' \in [Writers -> Seq(KvBytes)]
        /\ \A x \in Writers : x # w => kvBuffer'[x] = kvBuffer[x] /\ value'[x] = value[x]
        /\ ~typed => UNCHANGED <<kvBuffer, value>>
    <3>1. Kv!Built(w) \in Seq(KvBytes) /\ <<>> \in Seq(KvBytes)
      BY <1>1, KvBuilt, EmptySeq
    <3>2. CASE typed
      <4>1. /\ kvBuffer \in [Writers -> Seq(KvBytes)] /\ value \in [Writers -> Seq(KvBytes)]
            /\ kvBuffer' = [kvBuffer EXCEPT ![w] = <<>>]
            /\ value' = [value EXCEPT ![w] = Kv!Built(w)]
        BY <1>1, <2>1, <3>2 DEF Kv!Build, KvTypes
      <4>2. QED
        BY <3>1, <3>2, <4>1
    <3>3. CASE ~typed
      BY <1>1, <2>1, <3>3 DEF Kv!Build, KvTypes
    <3>4. QED
      BY <3>2, <3>3
  <2>4. KvTypes'
    BY <1>1, <2>1, <2>2, <2>3 DEF KvTypes
  <2>5. KvKept'
    BY <1>1, <2>1, <2>3 DEF KvKept, KvTypes
  <2>6. QED
    BY <2>2, <2>4, <2>5 DEF KvInv
<1>4. CASE Kv!Abort(w)
  <2>1. /\ kvBuffer' = [kvBuffer EXCEPT ![w] = <<>>]
        /\ inner' = [inner EXCEPT ![w] = "aborted"]
        /\ UNCHANGED <<typed, stored, value, kvAcked, failures, range, chunked, reader, out, seen>>
    BY <1>4 DEF Kv!Abort
  <2>2. KvTypes' /\ KvKept'
    BY <1>1, <2>1 DEF KvTypes, KvKept
  <2>3. KvPlace' /\ KvFound'
    BY <1>1, <2>1 DEF KvPlace, KvFound, KvThere
  <2>4. QED
    BY <2>2, <2>3 DEF KvInv
<1>5. QED
  BY <1>2, <1>3, <1>4

(* A new stream has returned nothing and has seen what is stored.           *)
LEMMA KvCreate ==
  ASSUME KvInv, Kv!KvObjectAssumption,
         NEW start \in Ends \cup {0}, NEW end \in Ends \cup {Open}, NEW chunk \in BOOLEAN,
         Kv!CreateStream(start, end, chunk)
  PROVE  KvInv'
<1>1. /\ start \in Nat /\ end \in Nat /\ MaxWrites \in Nat /\ MaxWrites < Open /\ Open \in Nat
      /\ end # Open => end < Open
  BY DEF Kv!KvObjectAssumption
<1>2. /\ stored # Kv!None /\ chunked' = chunk /\ seen' = {stored} /\ out' = <<>>
      /\ range' = IF chunk
                    THEN [from |-> start, start |-> start,
                          end |-> IF end = Open THEN Len(stored) ELSE end]
                    ELSE [from |-> start, start |-> start, end |-> end]
      /\ reader' = "reading"
      /\ UNCHANGED <<typed, stored, kvBuffer, value, inner, kvAcked, failures>>
  BY DEF Kv!CreateStream, Kv!ParseIntoRange, Kv!Stat, Kv!Reads, Kv!writers
<1>3. stored \in Seq(KvBytes) /\ Len(stored) \in Nat /\ Len(stored) <= MaxWrites
  BY <1>2 DEF KvInv, KvTypes
<1>4. /\ range' \in [from : Nat, start : Nat, end : Nat]
      /\ range'.start = range'.from
      /\ chunk => range'.end < Open
  BY <1>1, <1>2, <1>3
<1>5. KvTypes' /\ KvKept'
  BY <1>2, <1>3, <1>4 DEF KvInv, KvTypes, KvKept
<1>6. Len(out') = 0
  BY <1>2
<1>7. KvPlace'
  BY <1>2, <1>4, <1>6 DEF KvInv, KvTypes, KvPlace
<1>8. KvFound'
  BY <1>2, <1>6 DEF KvFound
<1>9. QED
  BY <1>5, <1>7, <1>8 DEF KvInv

(* A get of the next bytes: one byte, or all of the range.                  *)
LEMMA KvRead ==
  ASSUME KvInv, Kv!KvObjectAssumption, Kv!ReadRange
  PROVE  KvInv'
<1>1. /\ KvTypes /\ KvPlace /\ KvFound
      /\ reader = "reading" /\ range.start < range.end
      /\ reader' = "reading"
      /\ range' = [range EXCEPT !.start = IF chunked THEN range.start + 1 ELSE range.end]
      /\ UNCHANGED <<typed, stored, kvBuffer, value, inner, kvAcked, failures, chunked, seen>>
  BY DEF KvInv, Kv!ReadRange, Kv!Reads, Kv!writers
<1>2. PICK bs \in Kv!Slice(stored, Kv!NextRange) : out' = out \o bs
  BY DEF Kv!ReadRange
<1> DEFINE from == range.from
           start == range.start
           end == range.end
<1>3. /\ stored \in Seq(KvBytes) /\ Len(stored) \in Nat /\ stored \in seen
      /\ from \in Nat /\ start \in Nat /\ end \in Nat
      /\ out \in Seq(KvBytes) /\ Len(out) \in Nat
      /\ Open \in Nat
      /\ range = [from |-> from, start |-> start, end |-> end]
  BY <1>1 DEF KvTypes, KvPlace, Kv!KvObjectAssumption
<1>4. /\ range' \in [from : Nat, start : Nat, end : Nat]
      /\ range'.from = from /\ range'.end = end
      /\ range'.start = IF chunked THEN start + 1 ELSE end
  <2>1. start + 1 \in Nat /\ chunked \in BOOLEAN
    BY <1>1, <1>3 DEF KvTypes
  <2>2. range' = [from |-> from, start |-> IF chunked THEN start + 1 ELSE end, end |-> end]
    BY <1>1, <1>3
  <2> HIDE DEF from, start, end
  <2>3. QED
    BY <1>3, <2>1, <2>2
<1>5. PICK e \in Nat : /\ start <= e /\ e <= Len(stored)
                       /\ bs = SubSeq(stored, start + 1, e)
                       /\ chunked => e = start + 1
  <2>1. CASE chunked
    <3>1. Kv!NextRange = [start |-> start, end |-> start + 1]
      BY <2>1 DEF Kv!NextRange
    <3>2. start + 1 # Open
      BY <1>1, <1>3, <2>1 DEF KvPlace
    <3>3. QED
      <4> HIDE DEF start
      <4>1. bs = SubSeq(stored, start + 1, start + 1) /\ start + 1 <= Len(stored)
        <5>1. Kv!NextRange.start = start /\ Kv!NextRange.end = start + 1
          BY <3>1
        <5>2. QED
          BY <1>2, <3>2, <5>1 DEF Kv!Slice
      <4>2. start + 1 \in Nat /\ start <= start + 1
        BY <1>3
      <4>3. QED
        BY <4>1, <4>2
  <2>2. CASE ~chunked
    <3>1. Kv!NextRange = range
      BY <2>2 DEF Kv!NextRange
    <3>2. QED
      BY <1>2, <1>3, <2>2, <3>1 DEF Kv!Slice
  <2>3. QED
    BY <1>1, <2>1, <2>2 DEF KvTypes
<1> HIDE DEF from, start, end
<1>6. /\ bs \in Seq(KvBytes) /\ Len(bs) = e - start
      /\ \A i \in 1..e - start : bs[i] = stored[start + i]
  <2>1. \A i \in start + 1..e : stored[i] \in KvBytes
    BY <1>3, <1>5
  <2>2. start + 1 \in Int /\ e \in Int
    BY <1>3
  <2>3. /\ SubSeq(stored, start + 1, e) \in Seq(KvBytes)
        /\ Len(SubSeq(stored, start + 1, e)) =
             IF start + 1 <= e THEN e - (start + 1) + 1 ELSE 0
        /\ \A i \in 1..e - (start + 1) + 1 :
             SubSeq(stored, start + 1, e)[i] = stored[start + 1 + i - 1]
    BY <2>1, <2>2, SubSeqProperties
  <2>4. QED
    BY <1>3, <1>5, <2>3
<1>7. /\ out' \in Seq(KvBytes) /\ Len(out') = Len(out) + Len(bs)
      /\ \A i \in 1..Len(out) + Len(bs) :
           out'[i] = IF i <= Len(out) THEN out[i] ELSE bs[i - Len(out)]
  BY <1>2, <1>3, <1>6, ConcatProperties
<1>8. KvTypes' /\ KvKept'
  BY <1>1, <1>4, <1>7 DEF KvInv, KvTypes, KvKept
<1>9. start = from + Len(out)
  BY <1>1, <1>3 DEF KvPlace, KvTypes, from, start, end
<1>10. KvPlace'
  <2>1. reader' = "reading" /\ stored' \in seen'
    BY <1>1, <1>3
  <2>2. chunked => range'.start = range'.from + Len(out') /\ range'.end < Open
    <3>1. chunked => end < Open /\ Len(bs) = 1
      BY <1>1, <1>3, <1>5, <1>6 DEF KvPlace, end
    <3>2. QED
      <4>1. /\ Len(out') = Len(out) + Len(bs)
            /\ range'.from = from /\ range'.end = end
            /\ chunked => range'.start = start + 1
        BY <1>4, <1>7
      <4>2. SUFFICES ASSUME chunked
                     PROVE  range'.start = range'.from + Len(out') /\ range'.end < Open
        OBVIOUS
      <4>3. start + 1 = from + (Len(out) + 1)
        BY <1>3, <1>9
      <4>4. QED
        BY <3>1, <4>1, <4>2, <4>3
  <2>3. ~chunked => ~(range'.start < range'.end)
    BY <1>3, <1>4
  <2>4. chunked' = chunked
    BY <1>1
  <2>5. QED
    BY <2>1, <2>2, <2>3, <2>4 DEF KvPlace
<1>11. ASSUME NEW i \in 1..Len(out'), i > Len(out)
       PROVE  range'.from + i \in 1..Len(stored) /\ stored[range'.from + i] = out'[i]
  <2>1. i - Len(out) \in 1..e - start /\ from + i = start + (i - Len(out))
    BY <1>3, <1>5, <1>6, <1>7, <1>9, <1>11
  <2>2. out'[i] = stored[from + i]
    <3>1. i \in 1..Len(out) + Len(bs) /\ ~(i <= Len(out))
      BY <1>3, <1>7, <1>11
    <3>2. out'[i] = bs[i - Len(out)]
      BY <1>7, <3>1
    <3>3. QED
      BY <1>6, <2>1, <3>2
  <2>3. from + i \in 1..Len(stored)
    BY <1>3, <1>5, <2>1
  <2>4. QED
    BY <1>4, <2>2, <2>3
<1>12. ASSUME NEW i \in 1..Len(out'), i <= Len(out)
       PROVE  \E v \in seen : KvThere(v, i)'
  <2>1. i \in 1..Len(out) /\ out'[i] = out[i]
    BY <1>3, <1>6, <1>7, <1>12
  <2>2. PICK v \in seen : KvThere(v, i)
    BY <1>1, <2>1 DEF KvFound
  <2>3. KvThere(v, i)'
    BY <1>4, <2>1, <2>2 DEF KvThere, from
  <2>4. QED
    BY <2>3
<1>13. KvFound'
  <2>1. \A i \in 1..Len(out') : \E v \in seen' : KvThere(v, i)'
    <3>1. SUFFICES ASSUME NEW i \in 1..Len(out')
                   PROVE  \E v \in seen : KvThere(v, i)'
      BY <1>1
    <3>2. i \in Int /\ (i <= Len(out) \/ i > Len(out))
      BY <1>3, <1>6, <1>7
    <3>3. QED
      <4>1. CASE i <= Len(out)
        BY <1>12, <4>1
      <4>2. CASE i > Len(out)
        BY <1>3, <1>11, <4>2 DEF KvThere
      <4>3. QED
        BY <3>2, <4>1, <4>2
  <2>2. ASSUME ~chunked'
        PROVE  \E v \in seen' : \A i \in 1..Len(out') : KvThere(v, i)'
    <3>1. Len(out) = 0
      BY <1>1, <2>2 DEF KvPlace
    <3>2. \A i \in 1..Len(out') :
            range'.from + i \in 1..Len(stored) /\ stored[range'.from + i] = out'[i]
      <4>1. \A i \in 1..Len(out') : i > Len(out)
        BY <3>1
      <4>2. QED
        BY <1>11, <4>1
    <3>3. QED
      BY <1>1, <1>3, <3>2 DEF KvThere
  <2>3. QED
    BY <2>1, <2>2 DEF KvFound
<1>14. QED
  BY <1>8, <1>10, <1>13 DEF KvInv

(* The end of a stream, or a panic, changes nothing it has got.             *)
LEMMA KvReadEnds ==
  ASSUME KvInv, Kv!ReadPanics \/ Kv!ReadEnds
  PROVE  KvInv'
<1>1. /\ reader' \in {"panic", "end"}
      /\ UNCHANGED <<typed, stored, kvBuffer, value, inner, kvAcked, range, chunked, out, seen>>
  BY DEF Kv!ReadPanics, Kv!ReadEnds, Kv!Reads, Kv!writers
<1>2. KvTypes' /\ KvKept' /\ KvPlace' /\ KvFound'
  BY <1>1 DEF KvInv, KvTypes, KvKept, KvPlace, KvFound, KvThere
<1>3. QED
  BY <1>2 DEF KvInv

(* The inductive invariant of the object of a kv service.                   *)
THEOREM KvInvariant ==
  ASSUME Kv!KvObjectAssumption
  PROVE  Kv!Spec => []KvInv
<1>1. ASSUME Kv!Init PROVE KvInv
  <2>1. Kv!None \in Seq(KvBytes) /\ <<>> \in Seq(KvBytes) /\ Len(<<>>) = 0 /\ MaxWrites \in Nat
    BY DEF Kv!None, KvBytes, Kv!KvObjectAssumption
  <2>2. KvTypes
    <3>1. range \in [from : Nat, start : Nat, end : Nat]
      BY <1>1 DEF Kv!Init, Kv!KvObjectAssumption
    <3>2. QED
      BY <1>1, <2>1, <3>1 DEF Kv!Init, KvTypes
  <2>5. KvKept
    BY <1>1, <2>1 DEF Kv!Init, KvKept
  <2>3. KvPlace /\ KvFound
    BY <1>1, <2>1 DEF Kv!Init, KvPlace, KvFound
  <2>4. QED
    BY <2>2, <2>3, <2>5 DEF KvInv
<1>2. KvInv /\ [Kv!Next]_(Kv!vars) => KvInv'
  <2>1. SUFFICES ASSUME KvInv, [Kv!Next]_(Kv!vars)
                 PROVE  KvInv'
    OBVIOUS
  <2>2. CASE UNCHANGED Kv!vars
    BY <2>1, <2>2 DEF Kv!vars, Kv!writers, KvInv, KvTypes, KvKept, KvPlace, KvFound, KvThere
  <2>3. QED
    BY <2>1, <2>2, KvWriterStep, KvCreate, KvRead, KvReadEnds DEF Kv!Next
<1>3. QED
  BY <1>1, <1>2, PTL DEF Kv!Spec

(* What a reader of a kv object got was stored while it read, byte for      *)
(* byte, and without chunks at one time, however writers come between.      *)
THEOREM KvReadWasThere ==
  ASSUME Kv!KvObjectAssumption
  PROVE  Kv!Spec => []Kv!ReadWasThere
<1>1. KvInv => Kv!ReadWasThere
  <2>1. SUFFICES ASSUME KvInv PROVE Kv!ReadWasThere
    OBVIOUS
  <2>2. DOMAIN out = 1..Len(out) /\ \A v \in seen : DOMAIN v = 1..Len(v)
    BY <2>1 DEF KvInv, KvTypes
  <2>3. QED
    BY <2>1, <2>2 DEF KvInv, KvFound, KvThere, Kv!ReadWasThere
<1>2. QED
  BY <1>1, KvInvariant, PTL

(* A close of a kv writer that succeeds has stored what the writes          *)
(* acknowledged, however often it failed before.                            *)
THEOREM KvClosedIsWhole ==
  ASSUME Kv!KvObjectAssumption
  PROVE  Kv!Spec => [][Kv!ClosedIsWhole]_(Kv!vars)
<1>1. KvInv /\ [Kv!Next]_(Kv!vars) => [Kv!ClosedIsWhole]_(Kv!vars)
  <2>1. SUFFICES ASSUME KvInv, Kv!Next, NEW w \in Writers,
                        inner[w] = "open", inner'[w] = "closed"
                 PROVE  stored' = kvAcked[w]
    BY DEF Kv!ClosedIsWhole
  <2>2. PICK x \in Writers : Kv!CloseOk(x)
    <3>1. ASSUME NEW x \in Writers, Kv!Abort(x) PROVE FALSE
      BY <2>1, <3>1 DEF Kv!Abort, KvInv, KvTypes
    <3>2. QED
      BY <2>1, <3>1 DEF Kv!Next, Kv!Write, Kv!CloseErr, Kv!CreateStream, Kv!ReadRange,
         Kv!ReadPanics, Kv!ReadEnds, Kv!Reads, Kv!writers
  <2>3. x = w
    BY <2>1, <2>2 DEF Kv!CloseOk, KvInv, KvTypes
  <2>4. QED
    BY <2>1, <2>2, <2>3, KvBuilt DEF Kv!CloseOk, Kv!Set
<1>2. QED
  BY <1>1, KvInvariant, PTL DEF Kv!Spec

-----------------------------------------------------------------------------
(* KvAdapter: clients of one key of a store that serves get, set and delete *)
(* each with one request.                                                   *)
CONSTANTS Clients, MaxOps, Keys, Tasks, MaxDrops, MaxRefused
VARIABLES adapter, records, gone, client, ops, deletes, finished, superseded,
          store, pool, task, drops, refused, had

AtomicStores ==
  {"memory", "dashmap", "moka", "mini_moka", "sled", "rocksdb", "redb", "cacache",
   "etcd", "redis", "memcached", "tikv", "mysql", "postgresql", "sqlite", "libsql",
   "d1", "mongodb", "surrealdb", "cloudflare_kv"}

Ka == INSTANCE KvAdapter WITH Services <- AtomicStores, service <- adapter

(* Calls of these stores.                                                   *)
KaCalls ==
  [op : {"idle", "get", "set", "delete"}, w : Nat,
   left : {<<>>, <<"read">>, <<"put">>, <<"remove">>}, found : SUBSET Nat,
   before : SUBSET Nat, hit : BOOLEAN, err : BOOLEAN, result : SUBSET Nat]

KaTypes ==
  /\ adapter \in AtomicStores
  /\ client \in [Clients -> KaCalls]
  /\ records \in SUBSET Nat /\ deletes \in SUBSET Nat
  /\ finished \in SUBSET Nat /\ superseded \in SUBSET Nat
  /\ ops \in Nat

(* The write that made the store what it is, or for an empty store one of   *)
(* the deletes, is not superseded.                                          *)
KaOwned ==
  /\ superseded \subseteq finished
  /\ \A x \in finished : x <= ops
  /\ records = {} => \E d \in deletes : d \notin superseded
  /\ records # {} => \E w \in Nat : records = {w} /\ w \notin superseded

(* A client that waits for its request.                                     *)
KaActive(c) ==
  client[c].left # <<>> =>
    /\ client[c].op = "get" => client[c].left = <<"read">> /\ client[c].before \subseteq superseded
    /\ client[c].op = "set" => client[c].left = <<"put">>
    /\ client[c].op = "delete" => client[c].left = <<"remove">> /\ client[c].w \in deletes
    /\ client[c].op # "idle"
    /\ client[c].op # "get" => client[c].before \subseteq finished /\ client[c].w \notin finished
    /\ client[c].w # 0 /\ client[c].result = {}

KaClients ==
  \A c \in Clients :
    /\ KaActive(c)
    /\ client[c].w <= ops
    /\ client[c].err => client[c].hit
    /\ client[c].result # {} => \E r \in client[c].result : r \notin client[c].before
    /\ \A d \in Clients : c # d => client[c].w = 0 \/ client[c].w # client[d].w

KaInv == KaTypes /\ KaOwned /\ KaClients

(* What the adapters of these stores ask for.                               *)
LEMMA KaAdapter ==
  ASSUME NEW s \in AtomicStores
  PROVE  /\ Ka!Adapter[s]["get"] = <<"read">> /\ Ka!Adapter[s]["set"] = <<"put">>
         /\ Ka!Adapter[s]["delete"] = <<"remove">>
<1>1. /\ Ka!Adapter["memory"] = Ka!Memory /\ Ka!Adapter["dashmap"] = Ka!Dashmap
      /\ Ka!Adapter["moka"] = Ka!Moka /\ Ka!Adapter["mini_moka"] = Ka!MiniMoka
      /\ Ka!Adapter["sled"] = Ka!Sled /\ Ka!Adapter["rocksdb"] = Ka!Rocksdb
      /\ Ka!Adapter["redb"] = Ka!Redb /\ Ka!Adapter["cacache"] = Ka!Cacache
      /\ Ka!Adapter["etcd"] = Ka!Etcd /\ Ka!Adapter["redis"] = Ka!Redis
      /\ Ka!Adapter["memcached"] = Ka!Memcached /\ Ka!Adapter["tikv"] = Ka!Tikv
      /\ Ka!Adapter["mysql"] = Ka!Mysql /\ Ka!Adapter["postgresql"] = Ka!Postgresql
      /\ Ka!Adapter["sqlite"] = Ka!Sqlite /\ Ka!Adapter["libsql"] = Ka!Libsql
      /\ Ka!Adapter["d1"] = Ka!D1 /\ Ka!Adapter["mongodb"] = Ka!Mongodb
      /\ Ka!Adapter["surrealdb"] = Ka!Surrealdb /\ Ka!Adapter["cloudflare_kv"] = Ka!CloudflareKv
  BY DEF Ka!Adapter
<1>2. Ka!Adapter[s] \in {Ka!Atomic(TRUE), Ka!Atomic(FALSE)}
  BY <1>1 DEF AtomicStores, Ka!Memory, Ka!Dashmap, Ka!Moka, Ka!MiniMoka, Ka!Sled,
     Ka!Rocksdb, Ka!Redb, Ka!Cacache, Ka!Etcd, Ka!Redis, Ka!Memcached, Ka!Tikv, Ka!Mysql,
     Ka!Postgresql, Ka!Sqlite, Ka!Libsql, Ka!D1, Ka!Mongodb, Ka!Surrealdb, Ka!CloudflareKv
<1>3. QED
  BY <1>2 DEF Ka!Atomic

(* A call begins: its number is new.                                        *)
LEMMA KaBegins ==
  ASSUME KaInv, NEW c \in Clients, NEW op \in {"get", "set", "delete"}, Ka!Begin(c, op)
  PROVE  KaInv'
<1> DEFINE b == IF op = "get" THEN superseded ELSE finished
           x == [Ka!Idle EXCEPT !.op = op, !.w = ops + 1, !.left = Ka!A[op], !.before = b]
<1>1. KaTypes /\ KaOwned /\ KaClients
  BY DEF KaInv
<1>2. /\ client' = [client EXCEPT ![c] = x]
      /\ ops' = ops + 1
      /\ deletes' = IF op = "delete" THEN deletes \cup {ops'} ELSE deletes
      /\ UNCHANGED <<adapter, records, gone, failures, finished, superseded>>
  BY Zenon DEF Ka!Begin
<1>3. /\ op = "get" => Ka!A[op] = <<"read">>
      /\ op = "set" => Ka!A[op] = <<"put">>
      /\ op = "delete" => Ka!A[op] = <<"remove">>
  BY <1>1, KaAdapter DEF KaTypes, Ka!A
<1>4. /\ x \in KaCalls /\ x.op = op /\ x.w = ops + 1 /\ x.left = Ka!A[op] /\ x.before = b
      /\ x.err = FALSE /\ x.result = {}
  <2>1. /\ ops + 1 \in Nat /\ b \in SUBSET Nat
        /\ Ka!A[op] \in {<<"read">>, <<"put">>, <<"remove">>}
    BY <1>1, <1>3 DEF KaTypes
  <2>2. Ka!Idle \in KaCalls /\ Ka!Idle.err = FALSE /\ Ka!Idle.result = {}
    BY DEF Ka!Idle, KaCalls
  <2> HIDE DEF b
  <2>3. QED
    BY <2>1, <2>2 DEF KaCalls
<1> HIDE DEF x
<1>6. ops \in Nat /\ client'[c] = x /\ \A d \in Clients : d # c => client'[d] = client[d]
  BY <1>1, <1>2 DEF KaTypes
<1>7. KaTypes'
  <2>1. client' \in [Clients -> KaCalls]
    BY <1>1, <1>2, <1>4 DEF KaTypes
  <2>2. QED
    BY <1>1, <1>2, <1>6, <2>1 DEF KaTypes
<1>8. KaOwned'
  <2>1. deletes \subseteq deletes' /\ \A y \in finished : y \in Nat
    BY <1>1, <1>2 DEF KaTypes
  <2>2. QED
    BY <1>1, <1>2, <1>6, <2>1 DEF KaOwned
<1>9. ASSUME NEW d \in Clients PROVE KaActive(d)'
  <2>1. CASE d = c
    <3>1. ops + 1 \notin finished /\ ops + 1 # 0
      BY <1>1, <1>6 DEF KaOwned
    <3>2. QED
      BY <1>2, <1>3, <1>4, <1>6, <2>1, <3>1 DEF KaActive
  <2>2. CASE d # c
    <3>1. client'[d] = client[d] /\ KaActive(d)
      BY <1>1, <1>6, <2>2 DEF KaClients
    <3>2. QED
      BY <1>2, <3>1 DEF KaActive
  <2>3. QED
    BY <2>1, <2>2
<1>10. ASSUME NEW d \in Clients
       PROVE  /\ client'[d].w <= ops' /\ (client'[d].err => client'[d].hit)
              /\ client'[d].result # {} => \E r \in client'[d].result : r \notin client'[d].before
  <2>1. client[d].w \in Nat /\ client[d].w <= ops
    BY <1>1 DEF KaTypes, KaCalls, KaClients
  <2>2. CASE d = c
    BY <1>2, <1>4, <1>6, <2>2
  <2>3. CASE d # c
    BY <1>1, <1>2, <1>6, <2>1, <2>3 DEF KaClients
  <2>4. QED
    BY <2>2, <2>3
<1>11. ASSUME NEW d \in Clients, NEW e \in Clients, d # e
       PROVE  client'[d].w = 0 \/ client'[d].w # client'[e].w
  <2>1. /\ client[d].w \in Nat /\ client[d].w <= ops
        /\ client[e].w \in Nat /\ client[e].w <= ops
        /\ client[d].w = 0 \/ client[d].w # client[e].w
    BY <1>1, <1>11 DEF KaTypes, KaCalls, KaClients
  <2>2. QED
    BY <1>4, <1>6, <1>11, <2>1
<1>12. QED
  BY <1>7, <1>8, <1>9, <1>10, <1>11 DEF KaInv, KaClients

(* What the store holds is of the write of c.                               *)
KaOwn(c) ==
  \/ client[c].op = "set" /\ records' = {client[c].w}
  \/ client[c].op = "delete" /\ records' = {}

(* A request of c is answered or fails: what it writes is not superseded,   *)
(* and it supersedes only writes that are no longer there.                  *)
LEMMA KaAnswered ==
  ASSUME KaInv, NEW c \in Clients, client[c].left # <<>>,
         NEW x \in KaCalls, client' \in [Clients -> KaCalls], client'[c] = x,
         \A d \in Clients : d # c => client'[d] = client[d],
         x.op = client[c].op, x.w = client[c].w, x.before = client[c].before,
         x.left \in {<<>>, client[c].left},
         x.err => x.hit,
         x.result # {} => x.left = <<>> /\ \E r \in x.result : r \notin x.before,
         UNCHANGED records \/ KaOwn(c),
         \/ UNCHANGED finished
         \/ client[c].op # "get" /\ x.left = <<>> /\ finished' = finished \cup {client[c].w},
         \/ UNCHANGED superseded
         \/ /\ superseded' = superseded \cup client[c].before
            /\ client[c].op # "get" /\ KaOwn(c),
         UNCHANGED <<adapter, ops, deletes>>
  PROVE  KaInv'
<1>1. KaTypes /\ KaOwned /\ KaClients
  BY DEF KaInv
<1>2. /\ client[c] \in KaCalls /\ ops \in Nat
      /\ client'[c] = x /\ \A d \in Clients : d # c => client'[d] = client[d]
      /\ KaActive(c) /\ client[c].w <= ops
      /\ superseded \subseteq finished
  BY <1>1 DEF KaTypes, KaClients, KaOwned
<1>3. client[c].w \in Nat /\ client[c].before \in SUBSET Nat
  BY <1>2 DEF KaCalls
<1>4. /\ records' \in SUBSET Nat /\ finished' \in SUBSET Nat /\ superseded' \in SUBSET Nat
      /\ superseded \subseteq superseded' /\ finished \subseteq finished'
      /\ superseded' \subseteq finished
  <2>1. client[c].op # "get" => client[c].before \subseteq finished
    BY <1>2 DEF KaActive
  <2>2. QED
    BY <1>1, <1>2, <1>3, <2>1 DEF KaTypes, KaOwn
<1>5. KaTypes'
  BY <1>1, <1>4 DEF KaTypes
<1>6. KaOwned'
  <2>1. CASE KaOwn(c)
    <3>1. client[c].op # "get" /\ client[c].w \notin superseded'
      BY <1>2, <1>4, <2>1 DEF KaOwn, KaActive
    <3>2. client[c].op = "delete" => client[c].w \in deletes
      BY <1>2 DEF KaActive
    <3>3. \A y \in finished' : y <= ops'
      BY <1>1, <1>2 DEF KaOwned
    <3>4. QED
      BY <1>3, <1>4, <2>1, <3>1, <3>2, <3>3 DEF KaOwn, KaOwned
  <2>2. CASE ~KaOwn(c)
    <3>1. UNCHANGED <<records, superseded>>
      BY <2>2
    <3>2. \A y \in finished' : y <= ops'
      BY <1>1, <1>2 DEF KaOwned
    <3>3. QED
      BY <1>1, <1>4, <3>1, <3>2 DEF KaOwned
  <2>3. QED
    BY <2>1, <2>2
<1>7. ASSUME NEW d \in Clients PROVE KaActive(d)'
  <2>1. CASE d = c
    <3>1. SUFFICES ASSUME x.left # <<>> PROVE KaActive(c)'
      BY <1>2, <2>1 DEF KaActive
    <3>2. x.left = client[c].left /\ UNCHANGED finished /\ x.result = {}
      BY <3>1
    <3>3. QED
      BY <1>2, <1>4, <3>2 DEF KaActive
  <2>2. CASE d # c
    <3>1. /\ client'[d] = client[d] /\ KaActive(d)
          /\ client[d].w = 0 \/ client[d].w # client[c].w
      BY <1>1, <1>2, <2>2 DEF KaClients
    <3>2. client[d].left # <<>> /\ client[d].op # "get" => client[d].w \notin finished'
      BY <3>1 DEF KaActive
    <3>3. QED
      BY <1>4, <3>1, <3>2 DEF KaActive
  <2>3. QED
    BY <2>1, <2>2
<1>8. ASSUME NEW d \in Clients
      PROVE  /\ client'[d].w <= ops' /\ (client'[d].err => client'[d].hit)
             /\ client'[d].result # {} => \E r \in client'[d].result : r \notin client'[d].before
  <2>1. CASE d = c
    BY <1>2, <2>1
  <2>2. CASE d # c
    BY <1>1, <1>2, <2>2 DEF KaClients
  <2>3. QED
    BY <2>1, <2>2
<1>9. ASSUME NEW d \in Clients, NEW e \in Clients, d # e
      PROVE  client'[d].w = 0 \/ client'[d].w # client'[e].w
  <2>1. client'[d].w = client[d].w /\ client'[e].w = client[e].w
    BY <1>2
  <2>2. QED
    BY <1>1, <1>9, <2>1 DEF KaClients
<1>10. QED
  BY <1>5, <1>6, <1>7, <1>8, <1>9 DEF KaInv, KaClients

(* A client that waits has asked for one thing, of its operation.           *)
LEMMA KaWaits ==
  ASSUME KaInv, NEW c \in Clients, client[c].left # <<>>
  PROVE  LET x == client[c] IN
         /\ x \in KaCalls /\ Tail(x.left) = <<>> /\ Ka!A[x.op] = x.left
         /\ \/ x.op = "get" /\ x.left = <<"read">> /\ Head(x.left) = "read"
            \/ x.op = "set" /\ x.left = <<"put">> /\ Head(x.left) = "put"
            \/ x.op = "delete" /\ x.left = <<"remove">> /\ Head(x.left) = "remove"
         /\ x.result = {} /\ (x.op = "get" => x.before \subseteq superseded)
         /\ x.err => x.hit
<1>1. client[c] \in KaCalls /\ KaActive(c) /\ adapter \in AtomicStores
      /\ (client[c].err => client[c].hit)
  BY DEF KaInv, KaTypes, KaClients
<1>2. client[c].op \in {"get", "set", "delete"}
  BY <1>1 DEF KaCalls, KaActive
<1>3. /\ Ka!A["get"] = <<"read">> /\ Ka!A["set"] = <<"put">> /\ Ka!A["delete"] = <<"remove">>
  BY <1>1, KaAdapter DEF Ka!A
<1>4. \A s : Head(<<s>>) = s /\ Tail(<<s>>) = <<>>
  OBVIOUS
<1>5. QED
  BY <1>1, <1>2, <1>3, <1>4 DEF KaActive

(* A get is answered: with the record, or for none with the deletes.        *)
LEMMA KaReads ==
  ASSUME KaInv, NEW c \in Clients, Ka!Read(c), UNCHANGED <<adapter, ops, deletes>>
  PROVE  KaInv'
<1>1. /\ client[c].left # <<>> /\ Ka!Answer(c, records) /\ records' = records
      /\ Head(client[c].left) \in {"read", "read_or_none"}
  BY DEF Ka!Read, Ka!At, Ka!Store
<1>2. PICK r \in IF records = {} THEN {deletes} ELSE {{y} : y \in records} :
        client' = [client EXCEPT ![c].left = <<>>, ![c].result = r]
  BY <1>1 DEF Ka!Answer
<1>3. UNCHANGED <<finished, superseded>>
  BY <1>1 DEF Ka!Answer
<1>4. client \in [Clients -> KaCalls] /\ r \in SUBSET Nat /\ \E y \in r : y \notin superseded
  BY DEF KaInv, KaTypes, KaOwned
<1>5. client[c].op = "get" /\ client[c].before \subseteq superseded /\ (client[c].err => client[c].hit)
  BY <1>1, KaWaits
<1>6. /\ client' \in [Clients -> KaCalls]
      /\ \A d \in Clients : d # c => client'[d] = client[d]
      /\ client'[c].op = client[c].op /\ client'[c].w = client[c].w
      /\ client'[c].before = client[c].before /\ client'[c].left = <<>>
      /\ client'[c].err = client[c].err /\ client'[c].hit = client[c].hit
      /\ client'[c].result = r
  <2> DEFINE x == [client[c] EXCEPT !.left = <<>>, !.result = r]
  <2>1. client[c] \in KaCalls /\ r \in SUBSET Nat
    BY <1>4
  <2>2. x \in KaCalls
    BY <2>1 DEF KaCalls
  <2>3. /\ x.op = client[c].op /\ x.w = client[c].w /\ x.before = client[c].before
        /\ x.left = <<>> /\ x.err = client[c].err /\ x.hit = client[c].hit
        /\ x.result = r
    BY <2>1 DEF KaCalls
  <2>4. client' = [client EXCEPT ![c] = x]
    BY <1>2
  <2> HIDE DEF x
  <2>5. QED
    BY <1>4, <2>2, <2>3, <2>4
<1>7. client'[c] \in KaCalls
  BY <1>6
<1>8. \E y \in client'[c].result : y \notin client'[c].before
  BY <1>4, <1>5, <1>6
<1>9. client'[c].err => client'[c].hit
  BY <1>5, <1>6
<1>10. QED
  BY <1>1, <1>3, <1>6, <1>7, <1>8, <1>9, KaAnswered

(* A set or a delete is acknowledged.                                       *)
LEMMA KaWrites ==
  ASSUME KaInv, NEW c \in Clients, Ka!Put(c) \/ Ka!Remove(c), UNCHANGED <<adapter, ops, deletes>>
  PROVE  KaInv'
<1>1. /\ client[c].left # <<>> /\ Head(client[c].left) \in {"put", "remove"}
      /\ Ka!Continue(c, {})
      /\ Head(client[c].left) = "put" => records' = {client[c].w}
      /\ Head(client[c].left) = "remove" => records' = {}
  BY DEF Ka!Put, Ka!Remove, Ka!At, Ka!Store
<1>2. /\ client[c].op \in {"set", "delete"} /\ Tail(client[c].left) = <<>>
      /\ client[c].op = "set" => Head(client[c].left) = "put"
      /\ client[c].op = "delete" => Head(client[c].left) = "remove"
      /\ client[c].result = {} /\ (client[c].err => client[c].hit)
  BY <1>1, KaWaits
<1>3. KaOwn(c)
  BY <1>1, <1>2 DEF KaOwn
<1>4. /\ client' = [client EXCEPT ![c].left = <<>>, ![c].found = {}]
      /\ finished' = finished \cup {client[c].w}
      /\ superseded' = superseded \cup client[c].before
  BY <1>1, <1>2 DEF Ka!Continue, Ka!Returns
<1>5. client \in [Clients -> KaCalls]
  BY DEF KaInv, KaTypes
<1>6. /\ client' \in [Clients -> KaCalls]
      /\ \A d \in Clients : d # c => client'[d] = client[d]
      /\ client'[c].op = client[c].op /\ client'[c].w = client[c].w
      /\ client'[c].before = client[c].before /\ client'[c].left = <<>>
      /\ client'[c].err = client[c].err /\ client'[c].hit = client[c].hit
      /\ client'[c].result = client[c].result
  <2> DEFINE x == [client[c] EXCEPT !.left = <<>>, !.found = {}]
  <2>1. client[c] \in KaCalls /\ {} \in SUBSET Nat
    BY <1>5
  <2>2. x \in KaCalls
    BY <2>1 DEF KaCalls
  <2>3. /\ x.op = client[c].op /\ x.w = client[c].w /\ x.before = client[c].before
        /\ x.left = <<>> /\ x.err = client[c].err /\ x.hit = client[c].hit
        /\ x.result = client[c].result
    BY <2>1 DEF KaCalls
  <2>4. client' = [client EXCEPT ![c] = x]
    BY <1>4
  <2> HIDE DEF x
  <2>5. QED
    BY <1>5, <2>2, <2>3, <2>4
<1>7. client'[c] \in KaCalls /\ client'[c].result = {} /\ (client'[c].err => client'[c].hit)
      /\ client[c].op # "get"
  BY <1>2, <1>6
<1>8. QED
  BY <1>1, <1>3, <1>4, <1>6, <1>7, KaAnswered

(* A request fails, with or without effect, and is repeated or given up.    *)
LEMMA KaFails ==
  ASSUME KaInv, NEW c \in Clients, Ka!Fails(c)
  PROVE  KaInv'
<1>1. client[c].left # <<>> /\ UNCHANGED <<adapter, ops, deletes>>
  BY DEF Ka!Fails
<1>2. /\ client[c] \in KaCalls /\ client[c].op \in {"get", "set", "delete"}
      /\ Ka!A[client[c].op] = client[c].left
      /\ client[c].op = "get" <=> Head(client[c].left) = "read"
      /\ client[c].op = "set" <=> Head(client[c].left) = "put"
      /\ client[c].op = "delete" <=> Head(client[c].left) = "remove"
      /\ Head(client[c].left) # "read_or_none"
      /\ client[c].result = {}
  BY <1>1, KaWaits
<1>3. UNCHANGED records \/ KaOwn(c)
  BY <1>2 DEF Ka!Fails, Ka!Store, Ka!At, KaOwn
<1>4. \/ /\ client' = [client EXCEPT ![c].left = client[c].left, ![c].hit = TRUE]
         /\ UNCHANGED <<finished, superseded>>
      \/ /\ client' = [client EXCEPT ![c].left = <<>>, ![c].hit = TRUE, ![c].err = TRUE]
         /\ Ka!Returns(c, FALSE)
  BY <1>2 DEF Ka!Fails, Ka!At
<1>5. client \in [Clients -> KaCalls]
  BY DEF KaInv, KaTypes
<1>6. /\ client' \in [Clients -> KaCalls]
      /\ \A d \in Clients : d # c => client'[d] = client[d]
      /\ client'[c].op = client[c].op /\ client'[c].w = client[c].w
      /\ client'[c].before = client[c].before /\ client'[c].left \in {<<>>, client[c].left}
      /\ client'[c].hit = TRUE
      /\ client'[c].result = client[c].result
  <2>1. CASE client' = [client EXCEPT ![c].left = client[c].left, ![c].hit = TRUE]
    BY <1>2, <1>5, <2>1 DEF KaCalls
  <2>2. CASE client' = [client EXCEPT ![c].left = <<>>, ![c].hit = TRUE, ![c].err = TRUE]
    BY <1>2, <1>5, <2>2 DEF KaCalls
  <2>3. QED
    BY <1>4, <2>1, <2>2
<1>7. client'[c].left = <<>> \/ UNCHANGED <<finished, superseded>>
  <2>1. CASE client' = [client EXCEPT ![c].left = <<>>, ![c].hit = TRUE, ![c].err = TRUE]
    BY <1>2, <1>5, <2>1 DEF KaCalls
  <2>2. QED
    BY <1>4, <2>1
<1>8. /\ UNCHANGED superseded
      /\ \/ UNCHANGED finished
         \/ /\ client[c].op # "get" /\ client'[c].left = <<>>
            /\ finished' = finished \cup {client[c].w}
  BY <1>4, <1>7 DEF Ka!Returns
<1>9. client'[c] \in KaCalls /\ client'[c].result = {} /\ (client'[c].err => client'[c].hit)
  BY <1>2, <1>6
<1>10. QED
  BY <1>1, <1>3, <1>6, <1>8, <1>9, KaAnswered

(* The inductive invariant of the adapters with atomic requests.            *)
THEOREM KaInvariant == Ka!Spec => []KaInv
<1>1. ASSUME Ka!Init PROVE KaInv
  <2>1. Ka!Idle \in KaCalls /\ Ka!Idle.left = <<>> /\ Ka!Idle.w = 0 /\ Ka!Idle.err = FALSE
        /\ Ka!Idle.result = {}
    BY DEF Ka!Idle, KaCalls
  <2>2. KaTypes /\ KaOwned
    BY <1>1, <2>1 DEF Ka!Init, KaTypes, KaOwned
  <2>3. \A c \in Clients : client[c] = Ka!Idle
    BY <1>1 DEF Ka!Init
  <2>4. KaClients
    BY <1>1, <2>1, <2>3 DEF Ka!Init, KaClients, KaActive
  <2>5. QED
    BY <2>2, <2>4 DEF KaInv
<1>2. KaInv /\ [Ka!Next]_(Ka!vars) => KaInv'
  <2>1. SUFFICES ASSUME KaInv, [Ka!Next]_(Ka!vars)
                 PROVE  KaInv'
    OBVIOUS
  <2>2. CASE UNCHANGED Ka!vars
    BY <2>1, <2>2 DEF Ka!vars, KaInv, KaTypes, KaOwned, KaClients, KaActive
  <2>3. ASSUME NEW c \in Clients, Ka!Step(c) PROVE KaInv'
    <3>1. UNCHANGED <<adapter, ops, deletes>>
      BY <2>3 DEF Ka!Step
    <3>2. Ka!Read(c) \/ Ka!Put(c) \/ Ka!Remove(c)
      <4>1. ASSUME NEW step, Ka!At(c, step) PROVE step \in {"read", "put", "remove"}
        <5>1. client[c].left # <<>> /\ Head(client[c].left) = step
          BY <4>1 DEF Ka!At
        <5>2. QED
          BY <2>1, <5>1, KaWaits
      <4>2. /\ ~Ka!At(c, "find") /\ ~Ka!At(c, "find_all") /\ ~Ka!At(c, "read_found")
            /\ ~Ka!At(c, "read_found_or_none") /\ ~Ka!At(c, "remove_found")
            /\ ~Ka!At(c, "remove_found_any") /\ ~Ka!At(c, "insert")
        BY <4>1
      <4>3. QED
        BY <2>3, <4>2, Zenon DEF Ka!Step, Ka!Find, Ka!FindAll, Ka!ReadFound, Ka!RemoveFound,
           Ka!RemoveFoundAny, Ka!Insert
    <3>3. QED
      BY <2>1, <3>1, <3>2, KaReads, KaWrites
  <2>4. QED
    BY <2>1, <2>2, <2>3, KaBegins, KaFails DEF Ka!Next
<1>3. QED
  BY <1>1, <1>2, PTL DEF Ka!Spec

(* A get of a store with atomic requests returns what a set has stored, or  *)
(* nothing because of a delete, that was not superseded when it began; and  *)
(* a delete fails only if a request did: for any number of clients, calls   *)
(* and failures.                                                            *)
THEOREM KaRegular == Ka!Spec => [](Ka!Regular /\ Ka!DeleteIsOk)
<1>1. KaInv => Ka!Regular /\ Ka!DeleteIsOk
  BY DEF KaInv, KaClients, Ka!Regular, Ka!DeleteIsOk
<1>2. QED
  BY <1>1, KaInvariant, PTL

-----------------------------------------------------------------------------
(* The connections to memcached.                                            *)
CnAnswers == [status : {"ok", "not_found", "error", "garbage"}, value : Nat]
CnCalls ==
  [pc : {"idle", "conn", "version", "request", "wait", "done"},
   op : {"get", "set", "delete"}, key : Keys \cup {Ka!ConnIdle.key}, n : Nat,
   conn : Seq(CnAnswers), result : {"none", "ok", "error"}, value : Nat]

CnTypes ==
  /\ task \in [Tasks -> CnCalls]
  /\ store \in [Keys -> Nat] /\ had \in [Keys -> SUBSET Nat]
  /\ \A c \in pool : c.waiting \in Seq(CnAnswers)
  /\ ops \in Nat /\ drops \in Nat
  /\ \A t \in Tasks : IF task[t].pc = "idle" THEN task[t].result = "none"
                                             ELSE task[t].key \in Keys

CnInv == CnTypes /\ Ka!AnswerComes

(* Without dropped tasks, a connection in the pool is empty, or has what is *)
(* left of a refused set, which is_valid finds; and a task that waits has   *)
(* its own answer, alone.                                                   *)
CnOwn(t) ==
  /\ task[t].pc = "version" =>
       task[t].conn \in {<<Ka!Ok(Ka!Version)>>, <<Ka!Garbage, Ka!Ok(Ka!Version)>>}
  /\ task[t].pc = "request" => task[t].conn = <<>>
  /\ task[t].pc = "wait" =>
       \E r \in CnAnswers :
         /\ task[t].conn = <<r>>
         /\ task[t].op = "get" => r.value \in had[task[t].key]
         /\ task[t].op = "set" /\ r.status # "error" => task[t].n \in had[task[t].key]

CnExact ==
  /\ \A c \in pool : c.waiting \in {<<>>, <<Ka!Garbage>>}
  /\ \A k \in Keys : store[k] \in had[k] /\ 0 \in had[k]
  /\ \A t \in Tasks : CnOwn(t)
  /\ Ka!GetsItsKey /\ Ka!AckedIsSet

(* Answers are answers.                                                     *)
LEMMA CnAnswerTypes ==
  ASSUME Ka!KvAssumption
  PROVE  /\ Ka!Version \in Nat
         /\ \A v \in Nat : Ka!Ok(v) \in CnAnswers
         /\ Ka!NotFound \in CnAnswers /\ Ka!Refused \in CnAnswers /\ Ka!Garbage \in CnAnswers
  BY DEF Ka!KvAssumption, Ka!Version, Ka!Ok, Ka!NotFound, Ka!Refused, Ka!Garbage, CnAnswers

LEMMA CnTwo ==
  ASSUME NEW a, NEW b
  PROVE  Append(<<a>>, b) = <<a, b>>
<1>1. <<a>> \in Seq({a, b}) /\ <<a, b>> \in Seq({a, b}) /\ b \in {a, b}
  OBVIOUS
<1>2. /\ Append(<<a>>, b) \in Seq({a, b}) /\ Len(Append(<<a>>, b)) = 2
      /\ Append(<<a>>, b)[1] = a /\ Append(<<a>>, b)[2] = b
  BY <1>1, AppendProperties
<1>3. \A i \in 1..2 : Append(<<a>>, b)[i] = <<a, b>>[i]
  BY <1>2
<1>4. QED
  BY <1>1, <1>2, <1>3, SeqEqual

(* An idle task.                                                            *)
LEMMA CnIdle ==
  Ka!ConnIdle \in CnCalls /\ Ka!ConnIdle.pc = "idle" /\ Ka!ConnIdle.result = "none"
<1>1. Ka!ConnIdle.key \in Keys \cup {Ka!ConnIdle.key} /\ <<>> \in Seq(CnAnswers)
  BY EmptySeq
<1> DEFINE z == CHOOSE y \in Keys : TRUE
<1>2. z \in Keys \cup {Ka!ConnIdle.key}
  BY <1>1 DEF Ka!ConnIdle
<1> HIDE DEF z
<1>3. Ka!ConnIdle = [pc |-> "idle", op |-> "get", key |-> z, n |-> 0, conn |-> <<>>,
                     result |-> "none", value |-> 0]
  BY DEF Ka!ConnIdle, z
<1> DEFINE K == Keys \cup {Ka!ConnIdle.key}
<1>4. z \in K
  BY <1>2
<1> HIDE DEF K
<1>5. Ka!ConnIdle \in [pc : {"idle", "conn", "version", "request", "wait", "done"},
         op : {"get", "set", "delete"}, key : K, n : Nat,
         conn : Seq(CnAnswers), result : {"none", "ok", "error"}, value : Nat]
  BY <1>1, <1>3, <1>4
<1>6. QED
  BY <1>3, <1>5 DEF CnCalls, K

(* What parse_response leaves is a connection.                              *)
LEMMA CnParse ==
  ASSUME Ka!KvAssumption, NEW conn \in Seq(CnAnswers), conn # <<>>
  PROVE  LET p == Ka!ParseResponse(conn) IN
         /\ p.r = Head(conn) /\ p.r \in CnAnswers
         /\ p.ok \in BOOLEAN /\ (p.ok <=> Head(conn).status \in {"ok", "not_found"})
         /\ p.rest = IF p.ok THEN Tail(conn) ELSE <<Ka!Garbage>> \o Tail(conn)
         /\ p.rest \in Seq(CnAnswers)
<1>1. Head(conn) \in CnAnswers /\ Tail(conn) \in Seq(CnAnswers)
  OBVIOUS
<1>2. <<Ka!Garbage>> \in Seq(CnAnswers)
  BY CnAnswerTypes
<1>3. <<Ka!Garbage>> \o Tail(conn) \in Seq(CnAnswers)
  BY <1>1, <1>2, ConcatProperties
<1> DEFINE g == <<Ka!Garbage>> \o Tail(conn)
<1>4. /\ Head(conn).status \in {"ok", "not_found"} =>
           Ka!ParseResponse(conn) = [ok |-> TRUE, r |-> Head(conn), rest |-> Tail(conn)]
      /\ Head(conn).status \notin {"ok", "not_found"} =>
           Ka!ParseResponse(conn) = [ok |-> FALSE, r |-> Head(conn), rest |-> g]
  BY Zenon DEF Ka!ParseResponse
<1>5. CASE Head(conn).status \in {"ok", "not_found"}
  <2> HIDE DEF g
  <2>1. LET p == Ka!ParseResponse(conn) IN
          p.r = Head(conn) /\ p.ok = TRUE /\ p.rest = Tail(conn)
    BY <1>4, <1>5
  <2>2. QED
    BY <1>1, <1>5, <2>1
<1>6. CASE Head(conn).status \notin {"ok", "not_found"}
  <2>1. g \in Seq(CnAnswers)
    BY <1>3
  <2> HIDE DEF g
  <2>2. LET p == Ka!ParseResponse(conn) IN
          p.r = Head(conn) /\ p.ok = FALSE /\ p.rest = g
    BY <1>4, <1>6
  <2>3. QED
    BY <1>1, <1>6, <2>1, <2>2 DEF g
<1>7. QED
  BY <1>5, <1>6

(* A step that moves a task on, and its connection.                         *)
LEMMA CnGoes ==
  ASSUME CnInv, NEW t \in Tasks, NEW at \in {"conn", "version", "request", "wait"},
         NEW conn \in Seq(CnAnswers), Ka!Goes(t, at, conn), task[t].pc # "idle",
         at \in {"version", "wait"} => conn # <<>>,
         \A c \in pool' : c.waiting \in Seq(CnAnswers),
         store' \in [Keys -> Nat], had' \in [Keys -> SUBSET Nat], UNCHANGED <<ops, drops>>
  PROVE  /\ CnInv'
         /\ task'[t].pc = at /\ task'[t].conn = conn
         /\ task'[t].op = task[t].op /\ task'[t].key = task[t].key /\ task'[t].n = task[t].n
         /\ task'[t].result = task[t].result /\ task'[t].value = task[t].value
         /\ \A u \in Tasks : u # t => task'[u] = task[u]
<1>1. task \in [Tasks -> CnCalls] /\ task' = [task EXCEPT ![t].pc = at, ![t].conn = conn]
  BY DEF CnInv, CnTypes, Ka!Goes
<1>2. /\ task' \in [Tasks -> CnCalls]
      /\ task'[t].pc = at /\ task'[t].conn = conn
      /\ task'[t].op = task[t].op /\ task'[t].key = task[t].key /\ task'[t].n = task[t].n
      /\ task'[t].result = task[t].result /\ task'[t].value = task[t].value
      /\ \A u \in Tasks : u # t => task'[u] = task[u]
  BY <1>1 DEF CnCalls
<1>3. \A u \in Tasks : IF task'[u].pc = "idle" THEN task'[u].result = "none"
                                               ELSE task'[u].key \in Keys
  BY <1>2 DEF CnInv, CnTypes
<1>4. CnTypes'
  BY <1>2, <1>3 DEF CnInv, CnTypes
<1>5. Ka!AnswerComes'
  BY <1>2 DEF CnInv, Ka!AnswerComes
<1>6. QED
  BY <1>2, <1>4, <1>5 DEF CnInv

(* The others keep their answers while values are only added.               *)
LEMMA CnExactKept ==
  ASSUME CnInv, CnExact, CnInv', NEW t \in Tasks,
         \A u \in Tasks : u # t => task'[u] = task[u],
         \A k \in Keys : had[k] \subseteq had'[k] /\ store'[k] \in had'[k],
         \A c \in pool' : c.waiting \in {<<>>, <<Ka!Garbage>>},
         CnOwn(t)',
         task'[t].result = "ok" /\ task'[t].op = "get" => task'[t].value \in had'[task'[t].key],
         task'[t].result = "ok" /\ task'[t].op = "set" => task'[t].n \in had'[task'[t].key]
  PROVE  CnExact'
<1>1. ASSUME NEW u \in Tasks, u # t, task[u].pc # "idle"
      PROVE  task'[u] = task[u] /\ had[task[u].key] \subseteq had'[task[u].key]
  BY <1>1 DEF CnInv, CnTypes
<1>2. ASSUME NEW u \in Tasks PROVE CnOwn(u)'
  <2>1. CASE u # t
    <3>1. task'[u] = task[u] /\ CnOwn(u)
      BY <2>1 DEF CnExact
    <3>2. QED
      BY <1>1, <2>1, <3>1 DEF CnOwn, Ka!Version, Ka!Ok, Ka!Garbage
  <2>2. QED
    BY <2>1
<1>3. ASSUME NEW u \in Tasks, task'[u].result = "ok"
      PROVE  /\ task'[u].op = "get" => task'[u].value \in had'[task'[u].key]
             /\ task'[u].op = "set" => task'[u].n \in had'[task'[u].key]
  <2>1. CASE u # t
    <3>1. task[u].pc # "idle" /\ task'[u] = task[u]
      BY <1>3, <2>1 DEF CnInv, CnTypes
    <3>2. QED
      BY <1>1, <1>3, <2>1, <3>1 DEF CnExact, Ka!GetsItsKey, Ka!AckedIsSet
  <2>2. QED
    BY <1>3, <2>1
<1>4. \A k \in Keys : store'[k] \in had'[k] /\ 0 \in had'[k]
  BY DEF CnExact
<1>5. \A c \in pool' : c.waiting \in {<<>>, <<Ka!Garbage>>'}
  BY DEF Ka!Garbage
<1>6. QED
  BY <1>2, <1>3, <1>4, <1>5 DEF CnExact, Ka!GetsItsKey, Ka!AckedIsSet

(* A task that moves on keeps what it returned before.                      *)
LEMMA CnMoves ==
  ASSUME CnInv, CnExact, CnInv', NEW t \in Tasks,
         \A u \in Tasks : u # t => task'[u] = task[u],
         task'[t].op = task[t].op, task'[t].key = task[t].key, task'[t].n = task[t].n,
         task'[t].result = task[t].result, task'[t].value = task[t].value,
         task[t].pc # "idle",
         \A k \in Keys : had[k] \subseteq had'[k] /\ store'[k] \in had'[k],
         \A c \in pool' : c.waiting \in {<<>>, <<Ka!Garbage>>},
         CnOwn(t)'
  PROVE  CnExact'
<1>1. task[t].key \in Keys
  BY DEF CnInv, CnTypes
<1>2. /\ task'[t].result = "ok" /\ task'[t].op = "get" => task'[t].value \in had'[task'[t].key]
      /\ task'[t].result = "ok" /\ task'[t].op = "set" => task'[t].n \in had'[task'[t].key]
  BY <1>1 DEF CnExact, Ka!GetsItsKey, Ka!AckedIsSet
<1>3. QED
  BY <1>2, CnExactKept

(* A call begins.                                                           *)
LEMMA CnBegins ==
  ASSUME CnInv, NEW t \in Tasks, NEW op \in {"get", "set", "delete"}, NEW k \in Keys,
         Ka!ConnBegin(t, op, k)
  PROVE  CnInv' /\ (CnExact => CnExact')
<1> DEFINE x == [Ka!ConnIdle EXCEPT !.pc = "conn", !.op = op, !.key = k, !.n = ops + 1]
<1>1. /\ task' = [task EXCEPT ![t] = x] /\ ops' = ops + 1
      /\ UNCHANGED <<store, pool, drops, refused, had>>
  BY Zenon DEF Ka!ConnBegin
<1>2. task \in [Tasks -> CnCalls] /\ ops + 1 \in Nat /\ ops' \in Nat
  BY <1>1 DEF CnInv, CnTypes
<1>3. Ka!ConnIdle \in CnCalls /\ Ka!ConnIdle.result = "none"
  BY CnIdle
<1>4. x \in CnCalls /\ x.pc = "conn" /\ x.key = k /\ x.result = "none"
  BY <1>2, <1>3 DEF CnCalls
<1> HIDE DEF x
<1>5. /\ task' \in [Tasks -> CnCalls] /\ task'[t] = x
      /\ \A u \in Tasks : u # t => task'[u] = task[u]
  BY <1>1, <1>2, <1>4
<1>6. CnTypes'
  BY <1>1, <1>2, <1>4, <1>5 DEF CnInv, CnTypes
<1>7. Ka!AnswerComes'
  BY <1>4, <1>5 DEF CnInv, Ka!AnswerComes
<1>8. CnInv'
  BY <1>6, <1>7 DEF CnInv
<1>9. CnOwn(t)'
  BY <1>4, <1>5 DEF CnOwn
<1>10. ASSUME CnExact PROVE CnExact'
  <2>1. /\ \A j \in Keys : had[j] \subseteq had'[j] /\ store'[j] \in had'[j]
        /\ \A c \in pool' : c.waiting \in {<<>>, <<Ka!Garbage>>}
        /\ task'[t].result # "ok"
    BY <1>1, <1>4, <1>5, <1>10 DEF CnExact
  <2>2. QED
    BY <1>5, <1>8, <1>9, <1>10, <2>1, CnExactKept
<1>11. QED
  BY <1>8, <1>10

(* A new connection, or one of the pool, which is asked for its version.    *)
LEMMA CnConnects ==
  ASSUME Ka!KvAssumption, CnInv, NEW t \in Tasks, Ka!Connect(t) \/ Ka!CheckOut(t)
  PROVE  CnInv' /\ (CnExact => CnExact')
<1>1. CASE Ka!Connect(t)
  <2>1. /\ task[t].pc # "idle" /\ Ka!Goes(t, "request", <<>>) /\ <<>> \in Seq(CnAnswers)
        /\ UNCHANGED <<store, pool, ops, drops, refused, had>>
    BY <1>1, EmptySeq DEF Ka!Connect
  <2>2. /\ \A c \in pool' : c.waiting \in Seq(CnAnswers)
        /\ store' \in [Keys -> Nat] /\ had' \in [Keys -> SUBSET Nat]
    BY <2>1 DEF CnInv, CnTypes
  <2>3. /\ CnInv'
        /\ task'[t].pc = "request" /\ task'[t].conn = <<>>
        /\ task'[t].op = task[t].op /\ task'[t].key = task[t].key /\ task'[t].n = task[t].n
        /\ task'[t].result = task[t].result /\ task'[t].value = task[t].value
        /\ \A u \in Tasks : u # t => task'[u] = task[u]
    BY <2>1, <2>2, CnGoes
  <2>4. ASSUME CnExact PROVE CnExact'
    BY <2>1, <2>3, <2>4, CnMoves DEF CnExact, CnOwn
  <2>5. QED
    BY <2>3, <2>4
<1>2. CASE Ka!CheckOut(t)
  <2>1. PICK c \in pool : /\ pool' = pool \ {c}
                          /\ Ka!Goes(t, "version", Append(c.waiting, Ka!Ok(Ka!Version)))
    BY <1>2 DEF Ka!CheckOut
  <2> DEFINE conn == Append(c.waiting, Ka!Ok(Ka!Version))
  <2>2. task[t].pc # "idle" /\ UNCHANGED <<store, ops, drops, refused, had>>
    BY <1>2 DEF Ka!CheckOut
  <2>3. c.waiting \in Seq(CnAnswers) /\ Ka!Ok(Ka!Version) \in CnAnswers
    BY CnAnswerTypes DEF CnInv, CnTypes
  <2>4. conn \in Seq(CnAnswers) /\ conn # <<>>
    BY <2>3
  <2>5. c.waiting \in {<<>>, <<Ka!Garbage>>} =>
          conn \in {<<Ka!Ok(Ka!Version)>>, <<Ka!Garbage, Ka!Ok(Ka!Version)>>}
    <3>1. ASSUME c.waiting = <<>> PROVE conn = <<Ka!Ok(Ka!Version)>>
      BY <3>1
    <3>2. ASSUME c.waiting = <<Ka!Garbage>> PROVE conn = <<Ka!Garbage, Ka!Ok(Ka!Version)>>
      BY <3>2, CnTwo
    <3>3. QED
      BY <3>1, <3>2
  <2>6. Ka!Goes(t, "version", conn)
    BY <2>1
  <2> HIDE DEF conn
  <2>7. /\ \A d \in pool' : d.waiting \in Seq(CnAnswers)
        /\ store' \in [Keys -> Nat] /\ had' \in [Keys -> SUBSET Nat]
    BY <2>1, <2>2 DEF CnInv, CnTypes
  <2>8. /\ CnInv'
        /\ task'[t].pc = "version" /\ task'[t].conn = conn
        /\ task'[t].op = task[t].op /\ task'[t].key = task[t].key /\ task'[t].n = task[t].n
        /\ task'[t].result = task[t].result /\ task'[t].value = task[t].value
        /\ \A u \in Tasks : u # t => task'[u] = task[u]
    BY <2>2, <2>4, <2>6, <2>7, CnGoes
  <2>9. ASSUME CnExact PROVE CnExact'
    <3>1. conn \in {<<Ka!Ok(Ka!Version)>>, <<Ka!Garbage, Ka!Ok(Ka!Version)>>}
      BY <2>5, <2>9 DEF CnExact
    <3>2. CnOwn(t)'
      BY <2>8, <3>1 DEF CnOwn, Ka!Version, Ka!Ok, Ka!Garbage
    <3>3. QED
      BY <2>1, <2>2, <2>8, <2>9, <3>2, CnMoves DEF CnExact
  <2>10. QED
    BY <2>8, <2>9
<1>3. QED
  BY <1>1, <1>2

(* is_valid reads the answer: its own, or what was left of another.         *)
LEMMA CnValid ==
  ASSUME Ka!KvAssumption, CnInv, NEW t \in Tasks, Ka!IsValid(t)
  PROVE  CnInv' /\ (CnExact => CnExact')
<1> DEFINE p == Ka!ParseResponse(task[t].conn)
<1>1. /\ task[t].pc = "version" /\ UNCHANGED <<store, pool, ops, drops, refused, had>>
      /\ \/ p.ok /\ Ka!Goes(t, "request", p.rest)
         \/ (~p.ok \/ p.r.value \notin {0, Ka!Version}) /\ Ka!Goes(t, "conn", <<>>)
  BY DEF Ka!IsValid
<1>2. task[t].conn \in Seq(CnAnswers) /\ task[t].conn # <<>>
  BY <1>1 DEF CnInv, CnTypes, CnCalls, Ka!AnswerComes
<1>3. /\ p.r = Head(task[t].conn)
      /\ p.ok \in BOOLEAN /\ (p.ok <=> Head(task[t].conn).status \in {"ok", "not_found"})
      /\ p.ok => p.rest = Tail(task[t].conn)
      /\ p.rest \in Seq(CnAnswers)
  BY <1>2, CnParse
<1> HIDE DEF p
<1>4. PICK at \in {"request", "conn"}, conn \in {p.rest, <<>>} :
        /\ Ka!Goes(t, at, conn)
        /\ at = "request" => p.ok /\ conn = p.rest
  BY <1>1
<1>5. conn \in Seq(CnAnswers) /\ at \in {"conn", "version", "request", "wait"} /\ task[t].pc # "idle"
      /\ ~(at \in {"version", "wait"})
  BY <1>1, <1>3, EmptySeq
<1>6. /\ \A c \in pool' : c.waiting \in Seq(CnAnswers)
      /\ store' \in [Keys -> Nat] /\ had' \in [Keys -> SUBSET Nat]
  BY <1>1 DEF CnInv, CnTypes
<1>7. /\ CnInv'
      /\ task'[t].pc = at /\ task'[t].conn = conn
      /\ task'[t].op = task[t].op /\ task'[t].key = task[t].key /\ task'[t].n = task[t].n
      /\ task'[t].result = task[t].result /\ task'[t].value = task[t].value
      /\ \A u \in Tasks : u # t => task'[u] = task[u]
  BY <1>1, <1>4, <1>5, <1>6, CnGoes
<1>8. ASSUME CnExact PROVE CnExact'
  <2>1. task[t].conn \in {<<Ka!Ok(Ka!Version)>>, <<Ka!Garbage, Ka!Ok(Ka!Version)>>}
    BY <1>1, <1>8 DEF CnExact, CnOwn
  <2>2. at = "request" => conn = <<>>
    <3>1. Ka!Garbage.status \notin {"ok", "not_found"}
      BY DEF Ka!Garbage
    <3>2. \A a, b : Head(<<a, b>>) = a /\ Tail(<<a>>) = <<>>
      OBVIOUS
    <3>3. ASSUME at = "request" PROVE task[t].conn = <<Ka!Ok(Ka!Version)>>
      BY <1>3, <1>4, <2>1, <3>1, <3>2, <3>3
    <3>4. QED
      BY <1>3, <1>4, <3>2, <3>3
  <2>3. CnOwn(t)'
    BY <1>4, <1>7, <2>2 DEF CnOwn
  <2>4. QED
    BY <1>1, <1>7, <1>8, <2>3, CnMoves DEF CnExact
<1>9. QED
  BY <1>7, <1>8

(* The server answers a request.                                            *)
LEMMA CnRequests ==
  ASSUME Ka!KvAssumption, CnInv, NEW t \in Tasks, Ka!Request(t)
  PROVE  CnInv' /\ (CnExact => CnExact')
<1> DEFINE k == task[t].key
<1>1. /\ task[t].pc = "request" /\ task[t] \in CnCalls /\ k \in Keys
      /\ store \in [Keys -> Nat] /\ had \in [Keys -> SUBSET Nat]
      /\ task[t].n \in Nat /\ store[k] \in Nat /\ task[t].conn \in Seq(CnAnswers)
  BY DEF Ka!Request, CnInv, CnTypes, CnCalls
<1>2. UNCHANGED <<pool, ops, drops>>
  BY DEF Ka!Request
<1>3. PICK r \in CnAnswers :
        /\ Ka!Goes(t, "wait", Append(task[t].conn, r))
        /\ \/ task[t].op = "get" /\ r.value \in {0, store[k]} /\ UNCHANGED <<store, had>>
           \/ /\ task[t].op = "set"
              /\ store' = [store EXCEPT ![k] = task[t].n]
              /\ had' = [had EXCEPT ![k] = had[k] \cup {task[t].n}]
           \/ task[t].op = "set" /\ r.status = "error" /\ UNCHANGED <<store, had>>
           \/ task[t].op = "delete" /\ store' = [store EXCEPT ![k] = 0] /\ UNCHANGED had
  <2>1. CASE /\ task[t].op = "get"
             /\ Ka!Goes(t, "wait", Append(task[t].conn,
                                          IF store[k] = 0 THEN Ka!NotFound ELSE Ka!Ok(store[k])))
             /\ UNCHANGED <<store, refused, had>>
    <3> DEFINE r == IF store[k] = 0 THEN Ka!NotFound ELSE Ka!Ok(store[k])
    <3>1. r \in CnAnswers /\ r.value \in {0, store[k]}
      BY <1>1, CnAnswerTypes DEF Ka!NotFound, Ka!Ok
    <3>2. Ka!Goes(t, "wait", Append(task[t].conn, r))
      BY <2>1
    <3> HIDE DEF r
    <3>3. QED
      BY <2>1, <3>1, <3>2
  <2>2. CASE /\ task[t].op = "set"
             /\ Ka!Goes(t, "wait", Append(task[t].conn, Ka!Ok(0)))
             /\ store' = [store EXCEPT ![k] = task[t].n]
             /\ had' = [had EXCEPT ![k] = had[k] \cup {task[t].n}]
    BY <2>2, CnAnswerTypes
  <2>3. CASE /\ task[t].op = "set"
             /\ Ka!Goes(t, "wait", Append(task[t].conn, Ka!Refused))
             /\ UNCHANGED <<store, had>>
    BY <2>3, CnAnswerTypes DEF Ka!Refused
  <2>4. CASE /\ task[t].op = "delete"
             /\ Ka!Goes(t, "wait", Append(task[t].conn,
                                          IF store[k] = 0 THEN Ka!NotFound ELSE Ka!Ok(0)))
             /\ store' = [store EXCEPT ![k] = 0]
             /\ UNCHANGED <<refused, had>>
    <3> DEFINE r == IF store[k] = 0 THEN Ka!NotFound ELSE Ka!Ok(0)
    <3>1. r \in CnAnswers
      BY <1>1, CnAnswerTypes
    <3>2. Ka!Goes(t, "wait", Append(task[t].conn, r))
      BY <2>4
    <3> HIDE DEF r
    <3>3. QED
      BY <2>4, <3>1, <3>2
  <2>5. QED
    BY <2>1, <2>2, <2>3, <2>4, Zenon DEF Ka!Request
<1> DEFINE conn == Append(task[t].conn, r)
<1>4. conn \in Seq(CnAnswers) /\ conn # <<>> /\ Ka!Goes(t, "wait", conn)
  BY <1>1, <1>3
<1>5. task[t].conn = <<>> => conn = <<r>>
  OBVIOUS
<1> HIDE DEF conn, k
<1>6. /\ store' \in [Keys -> Nat] /\ had' \in [Keys -> SUBSET Nat]
      /\ \A j \in Keys : had[j] \subseteq had'[j]
      /\ \A j \in Keys : j # k => store'[j] = store[j] /\ had'[j] = had[j]
      /\ store'[k] \in {store[k], 0} \/ store'[k] \in had'[k]
      /\ \A c \in pool' : c.waiting \in Seq(CnAnswers)
  <2>1. \A c \in pool' : c.waiting \in Seq(CnAnswers)
    BY <1>2 DEF CnInv, CnTypes
  <2>2. CASE UNCHANGED <<store, had>>
    BY <1>1, <2>1, <2>2
  <2>3. CASE /\ store' = [store EXCEPT ![k] = task[t].n]
             /\ had' = [had EXCEPT ![k] = had[k] \cup {task[t].n}]
    <3>1. had' \in [Keys -> SUBSET Nat]
      BY <1>1, <2>3
    <3>2. QED
      BY <1>1, <2>1, <2>3, <3>1
  <2>4. CASE store' = [store EXCEPT ![k] = 0] /\ UNCHANGED had
    BY <1>1, <2>1, <2>4
  <2>5. QED
    BY <1>3, <2>2, <2>3, <2>4
<1>7. /\ CnInv'
      /\ task'[t].pc = "wait" /\ task'[t].conn = conn
      /\ task'[t].op = task[t].op /\ task'[t].key = task[t].key /\ task'[t].n = task[t].n
      /\ task'[t].result = task[t].result /\ task'[t].value = task[t].value
      /\ \A u \in Tasks : u # t => task'[u] = task[u]
  BY <1>1, <1>2, <1>4, <1>6, CnGoes
<1>8. ASSUME CnExact PROVE CnExact'
  <2>1. conn = <<r>>
    BY <1>1, <1>5, <1>8 DEF CnExact, CnOwn
  <2>2. \A j \in Keys : store'[j] \in had'[j]
    BY <1>1, <1>6, <1>8 DEF CnExact
  <2>3. /\ task[t].op = "get" => r.value \in had'[k]
        /\ task[t].op = "set" /\ r.status # "error" => task[t].n \in had'[k]
    BY <1>1, <1>3, <1>6, <1>8 DEF CnExact
  <2>4. CnOwn(t)'
    BY <1>7, <2>1, <2>3 DEF CnOwn, k
  <2>5. QED
    BY <1>1, <1>2, <1>6, <1>7, <1>8, <2>2, <2>4, CnMoves DEF CnExact
<1>9. QED
  BY <1>7, <1>8

(* The task reads its answer and gives the connection back.                 *)
LEMMA CnResponds ==
  ASSUME Ka!KvAssumption, CnInv, NEW t \in Tasks, Ka!Response(t)
  PROVE  CnInv' /\ (CnExact => CnExact')
<1> DEFINE p == Ka!ParseResponse(task[t].conn)
           res == IF p.ok THEN "ok" ELSE "error"
<1>1. /\ task[t].pc = "wait" /\ UNCHANGED <<store, ops, drops, refused, had>>
      /\ task' = [task EXCEPT ![t].pc = "done", ![t].conn = <<>>, ![t].value = p.r.value,
                              ![t].result = res]
      /\ pool' = pool \cup {[of |-> task[t].n, waiting |-> p.rest]}
  BY DEF Ka!Response, Ka!Return
<1>2. task \in [Tasks -> CnCalls] /\ task[t].conn \in Seq(CnAnswers) /\ task[t].conn # <<>>
      /\ task[t].key \in Keys
  BY <1>1 DEF CnInv, CnTypes, CnCalls, Ka!AnswerComes
<1>3. /\ p.r = Head(task[t].conn) /\ p.r \in CnAnswers
      /\ p.ok \in BOOLEAN /\ (p.ok <=> Head(task[t].conn).status \in {"ok", "not_found"})
      /\ p.rest = IF p.ok THEN Tail(task[t].conn) ELSE <<Ka!Garbage>> \o Tail(task[t].conn)
      /\ p.rest \in Seq(CnAnswers)
  BY <1>2, CnParse
<1> DEFINE v == p.r.value
           rest == p.rest
<1>4. v \in Nat /\ res \in {"ok", "error"} /\ <<>> \in Seq(CnAnswers)
  BY <1>3, EmptySeq DEF CnAnswers
<1>5. /\ task' = [task EXCEPT ![t].pc = "done", ![t].conn = <<>>, ![t].value = v, ![t].result = res]
      /\ pool' = pool \cup {[of |-> task[t].n, waiting |-> rest]}
  BY <1>1
<1>6. res = "ok" => Head(task[t].conn).status \in {"ok", "not_found"}
  BY <1>3
<1>7. rest \in {Tail(task[t].conn), <<Ka!Garbage>> \o Tail(task[t].conn)} /\ rest \in Seq(CnAnswers)
      /\ v = Head(task[t].conn).value
  BY <1>3
<1> HIDE DEF res, v, rest, p
<1>8. /\ task' \in [Tasks -> CnCalls]
      /\ task'[t].pc = "done" /\ task'[t].value = v /\ task'[t].result = res
      /\ task'[t].op = task[t].op /\ task'[t].key = task[t].key /\ task'[t].n = task[t].n
      /\ \A u \in Tasks : u # t => task'[u] = task[u]
  BY <1>2, <1>4, <1>5 DEF CnCalls
<1>9. \A c \in pool' : c \in pool \/ c.waiting = rest
  BY <1>5
<1>10. CnInv'
  <2>1. CnTypes'
    BY <1>1, <1>2, <1>7, <1>8, <1>9 DEF CnInv, CnTypes
  <2>2. Ka!AnswerComes'
    BY <1>8 DEF CnInv, Ka!AnswerComes
  <2>3. QED
    BY <2>1, <2>2 DEF CnInv
<1>11. ASSUME CnExact PROVE CnExact'
  <2>1. PICK r \in CnAnswers :
          /\ task[t].conn = <<r>>
          /\ task[t].op = "get" => r.value \in had[task[t].key]
          /\ task[t].op = "set" /\ r.status # "error" => task[t].n \in had[task[t].key]
    BY <1>1, <1>11 DEF CnExact, CnOwn
  <2>2. \A a : Head(<<r>>) = r /\ Tail(<<r>>) = <<>> /\ <<a>> \o <<>> = <<a>>
    OBVIOUS
  <2>3. rest \in {<<>>, <<Ka!Garbage>>} /\ v = r.value
        /\ (res = "ok" => r.status \in {"ok", "not_found"})
    BY <1>6, <1>7, <2>1, <2>2
  <2>4. \A c \in pool' : c.waiting \in {<<>>, <<Ka!Garbage>>}
    BY <1>9, <1>11, <2>3 DEF CnExact
  <2>5. CnOwn(t)'
    BY <1>8 DEF CnOwn
  <2>6. /\ task'[t].result = "ok" /\ task'[t].op = "get" => task'[t].value \in had'[task'[t].key]
        /\ task'[t].result = "ok" /\ task'[t].op = "set" => task'[t].n \in had'[task'[t].key]
    BY <1>1, <1>8, <2>1, <2>3
  <2>7. \A k \in Keys : had[k] \subseteq had'[k] /\ store'[k] \in had'[k]
    BY <1>1, <1>11 DEF CnExact
  <2>8. QED
    BY <1>8, <1>10, <1>11, <2>4, <2>5, <2>6, <2>7, CnExactKept
<1>12. QED
  BY <1>10, <1>11

(* A dropped task gives its connection back as it is.                       *)
LEMMA CnDrops ==
  ASSUME CnInv, NEW t \in Tasks, Ka!Drop(t)
  PROVE  CnInv'
<1>1. /\ task' = [task EXCEPT ![t] = Ka!ConnIdle] /\ drops' = drops + 1
      /\ pool' = pool \cup {[of |-> task[t].n, waiting |-> task[t].conn]}
      /\ UNCHANGED <<store, ops, refused, had>>
  BY DEF Ka!Drop, Ka!Return
<1>2. task \in [Tasks -> CnCalls] /\ task[t].conn \in Seq(CnAnswers)
  BY DEF CnInv, CnTypes, CnCalls
<1>3. /\ task' \in [Tasks -> CnCalls] /\ task'[t] = Ka!ConnIdle
      /\ \A u \in Tasks : u # t => task'[u] = task[u]
  BY <1>1, <1>2, CnIdle
<1>4. \A c \in pool' : c.waiting \in Seq(CnAnswers)
  BY <1>1, <1>2 DEF CnInv, CnTypes
<1>5. CnTypes'
  BY <1>1, <1>3, <1>4, CnIdle DEF CnInv, CnTypes
<1>6. Ka!AnswerComes'
  BY <1>3, CnIdle DEF CnInv, Ka!AnswerComes
<1>7. QED
  BY <1>5, <1>6 DEF CnInv

LEMMA CnStarts ==
  ASSUME Ka!ConnInit
  PROVE  CnInv /\ CnExact
<1>1. \A t \in Tasks : task[t] = Ka!ConnIdle
  BY DEF Ka!ConnInit
<1>2. /\ task \in [Tasks -> CnCalls]
      /\ \A t \in Tasks : task[t].pc = "idle" /\ task[t].result = "none"
  BY <1>1, CnIdle DEF Ka!ConnInit
<1>3. CnTypes
  BY <1>2 DEF Ka!ConnInit, CnTypes
<1>4. CnInv
  BY <1>2, <1>3 DEF CnInv, Ka!AnswerComes
<1>5. CnExact
  BY <1>2 DEF Ka!ConnInit, CnExact, CnOwn, Ka!GetsItsKey, Ka!AckedIsSet
<1>6. QED
  BY <1>4, <1>5

(* Any step, and one without drops.                                         *)
LEMMA CnSteps ==
  ASSUME Ka!KvAssumption, CnInv, [Ka!ConnNext]_(Ka!connVars)
  PROVE  CnInv' /\ (CnExact /\ MaxDrops = 0 => CnExact')
<1>1. CASE Ka!ConnNext
  <2>1. PICK t \in Tasks :
          \/ \E op \in {"get", "set", "delete"}, k \in Keys : Ka!ConnBegin(t, op, k)
          \/ Ka!Connect(t) \/ Ka!CheckOut(t) \/ Ka!IsValid(t) \/ Ka!Request(t)
          \/ Ka!Response(t) \/ Ka!Drop(t)
    BY <1>1, Zenon DEF Ka!ConnNext
  <2>2. CASE \E op \in {"get", "set", "delete"}, k \in Keys : Ka!ConnBegin(t, op, k)
    BY <2>2, CnBegins, Zenon
  <2>3. CASE Ka!Connect(t) \/ Ka!CheckOut(t)
    BY <2>3, CnConnects, Zenon
  <2>4. CASE Ka!IsValid(t)
    BY <2>4, CnValid, Zenon
  <2>5. CASE Ka!Request(t)
    BY <2>5, CnRequests, Zenon
  <2>6. CASE Ka!Response(t)
    BY <2>6, CnResponds, Zenon
  <2>7. CASE Ka!Drop(t)
    <3>1. CnInv'
      BY <2>7, CnDrops, Zenon
    <3>2. drops \in Nat /\ drops < MaxDrops
      BY <2>7 DEF Ka!Drop, CnInv, CnTypes
    <3>3. MaxDrops # 0
      BY <3>2
    <3>4. QED
      BY <3>1, <3>3, Zenon
  <2>8. QED
    BY <2>1, <2>2, <2>3, <2>4, <2>5, <2>6, <2>7, Zenon
<1>2. CASE UNCHANGED Ka!connVars
  <2>1. UNCHANGED <<store, pool, task, ops, drops, refused, had>>
    BY <1>2 DEF Ka!connVars
  <2>2. CnInv'
    BY <2>1 DEF CnInv, CnTypes, Ka!AnswerComes
  <2>3. CnExact => CnExact'
    BY <2>1 DEF CnExact, CnOwn, Ka!GetsItsKey, Ka!AckedIsSet, Ka!Version, Ka!Ok, Ka!Garbage
  <2>4. QED
    BY <2>2, <2>3
<1>3. QED
  BY <1>1, <1>2

(* No task waits for an answer that does not come, however many are         *)
(* dropped: the connection it is given has one for every request it makes.  *)
THEOREM CnAnswerComes ==
  ASSUME Ka!KvAssumption
  PROVE  Ka!ConnSpec => []Ka!AnswerComes
<1>1. Ka!ConnInit => CnInv
  BY CnStarts
<1>2. CnInv /\ [Ka!ConnNext]_(Ka!connVars) => CnInv'
  BY CnSteps, Zenon
<1>3. CnInv => Ka!AnswerComes
  BY DEF CnInv
<1>4. QED
  BY <1>1, <1>2, <1>3, PTL DEF Ka!ConnSpec

(* Without dropped tasks a get returns a value its own key has had and a    *)
(* set that is acknowledged was done.                                       *)
THEOREM CnGetsItsKey ==
  ASSUME Ka!KvAssumption, MaxDrops = 0
  PROVE  Ka!ConnSpec => [](Ka!GetsItsKey /\ Ka!AckedIsSet)
<1>1. Ka!ConnInit => CnInv /\ CnExact
  BY CnStarts
<1>2. CnInv /\ CnExact /\ [Ka!ConnNext]_(Ka!connVars) => CnInv' /\ CnExact'
  BY CnSteps, Zenon
<1>3. CnExact => Ka!GetsItsKey /\ Ka!AckedIsSet
  BY DEF CnExact
<1>4. QED
  BY <1>1, <1>2, <1>3, PTL DEF Ka!ConnSpec

=============================================================================
