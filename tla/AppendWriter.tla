---------------------------- MODULE AppendWriter ----------------------------
(***************************************************************************)
(* AppendWriter of core/src/raw/oio/write/append_write.rs over the services *)
(* that implement AppendWrite and say that they can append: oss, cos, obs,  *)
(* azblob, azdls and webhdfs.  Several writers of one path run at once.  A  *)
(* request fails without effect, or MaxLost times with effect.  A write     *)
(* that failed may be repeated with the same buffer or given up.            *)
(*                                                                          *)
(* A buffer is the pair of its writer and its number, of length one.        *)
(***************************************************************************)
EXTENDS Naturals, Sequences, SequencesExt

CONSTANTS
  Writers,
  Services,     \* the services to check
  Missing,      \* nothing at the path; an offset that is None
  MaxBuffers,   \* bound: buffers of a writer
  MaxLost       \* bound: requests that fail with effect

AppendConstants ==
  /\ Services \subseteq {"oss", "cos", "obs", "azblob", "azdls", "webhdfs"}
  /\ {MaxBuffers, MaxLost} \subseteq Nat
  /\ Missing \notin Nat /\ Missing \notin Seq(Writers \X Nat)

ASSUME AppendAssumption == AppendConstants

VARIABLES
  service,
  offset,       \* per writer
  buffer,       \* per writer: the number of the buffer it is to write
  pc,           \* per writer: the request its write waits for
  acked,        \* history: the buffers whose write returned Ok
  lost,
  object        \* what is at the path

vars == <<service, offset, buffer, pc, acked, lost, object>>

Length == IF object = Missing THEN 0 ELSE Len(object)
Content == IF object = Missing THEN <<>> ELSE object

Init ==
  /\ service \in Services
  /\ offset = [w \in Writers |-> Missing]
  /\ buffer = [w \in Writers |-> 1]
  /\ pc = [w \in Writers |-> "idle"]
  /\ acked = {}
  /\ lost = 0
  /\ object = Missing

Goto(w, l) == pc' = [pc EXCEPT ![w] = l]

-----------------------------------------------------------------------------
(* append(offset, bs) *)

(* azdls creates the file, and so empties it, to append at 0; webhdfs asks  *)
(* for the file first, whatever the offset.                                 *)
AzdlsFirst(o) == IF o = 0 THEN "create" ELSE "append"
WebhdfsFirst == "status"

FirstRequestMutant(o) == "create"   \* the file is created for every append

FirstRequest(o) ==
  CASE service = "azdls" -> AzdlsFirst(o)
    [] service = "webhdfs" -> WebhdfsFirst
    [] OTHER -> "append"

(* The last request.  All services but webhdfs are told the offset, and     *)
(* refuse one that is not the length; oss, cos and obs create the object.   *)
AppendBuffer(w) == object' = Append(Content, <<w, buffer[w]>>)
AtLength(w) == offset[w] = Length /\ AppendBuffer(w)
OssAppend(w) == AtLength(w)
CosAppend(w) == AtLength(w)
ObsAppend(w) == AtLength(w)
AzblobAppend(w) == object # Missing /\ AtLength(w)
AzdlsAppend(w) == object # Missing /\ AtLength(w)
WebhdfsAppend(w) == object # Missing /\ AppendBuffer(w)

AppendRequestMutant(w) == AppendBuffer(w)   \* the offset is not sent

AppendRequest(w) ==
  CASE service = "oss" -> OssAppend(w)
    [] service = "cos" -> CosAppend(w)
    [] service = "obs" -> ObsAppend(w)
    [] service = "azblob" -> AzblobAppend(w)
    [] service = "azdls" -> AzdlsAppend(w)
    [] service = "webhdfs" -> WebhdfsAppend(w)

-----------------------------------------------------------------------------
(* write(bs) *)

(* webhdfs does not ask for the offset.                                     *)
Write(w) ==
  /\ pc[w] = "idle"
  /\ buffer[w] <= MaxBuffers
  /\ \/ /\ offset[w] # Missing
        /\ Goto(w, FirstRequest(offset[w]))
        /\ UNCHANGED offset
     \/ /\ offset[w] = Missing
        /\ service = "webhdfs"
        /\ offset' = [offset EXCEPT ![w] = 0]
        /\ Goto(w, FirstRequest(0))
     \/ /\ offset[w] = Missing
        /\ service # "webhdfs"
        /\ Goto(w, "offset")
        /\ UNCHANGED offset
  /\ UNCHANGED <<service, buffer, acked, lost, object>>

OffsetIs(w, o) ==
  /\ offset' = [offset EXCEPT ![w] = o]
  /\ Goto(w, FirstRequest(o))

(* offset(): the length, or 0 if there is nothing; azblob creates an        *)
(* appendable blob in that case.                                            *)
OssOffset(w) == OffsetIs(w, Length)
CosOffset(w) == OffsetIs(w, Length)
ObsOffset(w) == OffsetIs(w, Length)
AzdlsOffset(w) == OffsetIs(w, Length)
AzblobOffset(w) ==
  IF object = Missing THEN Goto(w, "init") /\ UNCHANGED offset
                      ELSE OffsetIs(w, Length)

OffsetOk(w) ==
  /\ pc[w] = "offset"
  /\ \/ service = "oss" /\ OssOffset(w)
     \/ service = "cos" /\ CosOffset(w)
     \/ service = "obs" /\ ObsOffset(w)
     \/ service = "azdls" /\ AzdlsOffset(w)
     \/ service = "azblob" /\ AzblobOffset(w)
  /\ UNCHANGED <<service, buffer, acked, lost, object>>

InitAppendable(w) ==
  /\ pc[w] = "init"
  /\ object' = <<>>
  /\ OffsetIs(w, 0)
  /\ UNCHANGED <<service, buffer, acked, lost>>

(* azdls, and webhdfs when it has found nothing: op=CREATE&overwrite=true.  *)
Create(w) ==
  /\ pc[w] = "create"
  /\ object' = <<>>
  /\ Goto(w, "append")
  /\ UNCHANGED <<service, offset, buffer, acked, lost>>

WebhdfsStatus(w) ==
  /\ pc[w] = "status"
  /\ Goto(w, IF object = Missing THEN "create" ELSE "append")
  /\ UNCHANGED <<service, offset, buffer, acked, lost, object>>

AppendOk(w) ==
  /\ pc[w] = "append"
  /\ AppendRequest(w)
  /\ offset' = [offset EXCEPT ![w] = @ + 1]
  /\ acked' = acked \cup {<<w, buffer[w]>>}
  /\ buffer' = [buffer EXCEPT ![w] = @ + 1]
  /\ Goto(w, "idle")
  /\ UNCHANGED <<service, lost>>

(* The request fails.  The user repeats the write, or gives the buffer up.  *)
WriteErr(w) ==
  /\ pc[w] # "idle"
  /\ \/ UNCHANGED <<object, lost>>
     \/ /\ lost < MaxLost
        /\ lost' = lost + 1
        /\ \/ pc[w] \in {"init", "create"} /\ object' = <<>>
           \/ pc[w] = "append" /\ AppendRequest(w)
  /\ buffer' \in {buffer, [buffer EXCEPT ![w] = @ + 1]}
  /\ Goto(w, "idle")
  /\ UNCHANGED <<service, offset, acked>>

Next ==
  \E w \in Writers : \/ Write(w) \/ OffsetOk(w) \/ InitAppendable(w)
                     \/ Create(w) \/ WebhdfsStatus(w)
                     \/ AppendOk(w) \/ WriteErr(w)

Spec == Init /\ [][Next]_vars

-----------------------------------------------------------------------------
(* Every variable has its type.                                             *)
TypeOK ==
  /\ service \in Services
  /\ offset \in [Writers -> Nat \cup {Missing}]
  /\ buffer \in [Writers -> Nat]
  /\ pc \in [Writers -> {"idle", "offset", "init", "create", "status", "append"}]
  /\ acked \subseteq Writers \X Nat
  /\ lost \in 0..MaxLost
  /\ object = Missing \/ object \in Seq(Writers \X Nat)

(* What the services differ in: webhdfs does not compare the offset; all    *)
(* but oss, cos and obs empty the object to create it.                      *)
Compares == service # "webhdfs"
NeverEmpties == service \in {"oss", "cos", "obs"}
Alone == \E w \in Writers : Writers = {w}

(* The k-th and the l-th buffer of the object are not of one writer out of  *)
(* order: no buffer is there twice, although a write whose answer was lost  *)
(* is repeated ("`Err(err)` means error happens and no bytes has been       *)
(* written"), nor before an earlier one.                                    *)
EachOnceInOrder ==
  \A k, l \in 1..Length :
    k < l /\ object[k][1] = object[l][1] => object[k][2] < object[l][2]

(* What was acknowledged is there, whatever the other writers do.           *)
AckedIsThere == acked \subseteq Range(Content)

(* An acknowledged buffer is there exactly once, behind the earlier ones of *)
(* its writer, although answers are lost and writes repeated: over services *)
(* that compare the offset no buffer is there twice, and no acknowledged    *)
(* one is lost to a writer that empties the object, unless it is another's. *)
AckedOnceInOrder ==
  /\ Compares => EachOnceInOrder
  /\ NeverEmpties \/ Alone => AckedIsThere

(* "Append the data to the end of this object.": nothing that was in the    *)
(* object goes away or changes.                                             *)
OnlyAppends == object # Missing => IsPrefix(object, object')
NothingIsTakenAway == [][NeverEmpties => OnlyAppends]_vars
=============================================================================
