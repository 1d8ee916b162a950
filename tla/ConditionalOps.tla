---------------------------- MODULE ConditionalOps ----------------------------
(***************************************************************************)
(* Operations with options on one path while another client replaces and   *)
(* deletes the object: the options the Operator offers, the checks of      *)
(* CorrectnessCheckLayer, the requests of the service (ServiceRequests),   *)
(* a server that evaluates the conditions that reach it, and RetryLayer    *)
(* sending a request again whose answer was lost.  Versions are numbered;  *)
(* a version's number is its etag, its version id and its time.            *)
(***************************************************************************)
EXTENDS ServiceRequests, Sequences, TLC

CONSTANTS
    Names,          \* the services
    Asked,          \* [kind of operation -> options its callers use]
    Ranges,         \* ways to read: "full", "from" (bytes=n-) and "part" (bytes=n-m)
    CapabilityCheck,\* whether CapabilityCheckLayer is there
    MaxVersion,     \* bound on the versions of the object
    MaxLost         \* bound on lost answers

OptionsAssumption ==
    /\ Names \subseteq DOMAIN AllServices
    /\ Ranges \subseteq {"full", "from", "part"}
    /\ CapabilityCheck \in BOOLEAN
    /\ MaxVersion \in Nat /\ MaxLost \in Nat

VARIABLES
    service,    \* the name of the service
    conf,       \* the flags it was built with
    versions,   \* the versions that exist
    cur,        \* the current version, 0 when there is no object
    kept,       \* [version -> attributes stored with it]
    op,         \* the operation
    lost        \* answers lost so far

vars == <<service, conf, versions, cur, kept, op, lost>>

Conditions == Matches \cup Since \cup {"if_not_exists", "version"}
Nothing == [kind |-> "none", opts |-> {}, want |-> 0, range |-> "full", todo |-> <<>>,
            seen |-> {}, parts |-> {}, honoured |-> {}, mine |-> {}, gone |-> {},
            over |-> {}, res |-> "idle"]
Last == Cardinality(DOMAIN kept)
svc == AllServices[service]
-----------------------------------------------------------------------------
(* The options of the futures and functions of the Operator. *)
FutureStat == Matches \cup Since \cup {"version"}
FutureRead == Matches \cup Since \cup {"version"}
FutureWriteAttributes ==
    {"cache_control", "content_type", "content_disposition", "content_encoding"}
FutureWriteConditions == {"if_match", "if_none_match", "if_not_exists"}
FutureWriteMetadata == {"user_metadata"}
FutureWrite == FutureWriteAttributes \cup FutureWriteConditions \cup FutureWriteMetadata
FutureDelete == {"version"}
FutureReader == FutureRead
FutureWriterAttributes ==
    {"cache_control", "content_type", "content_disposition", "content_encoding"}
FutureWriterConditions == {"if_match", "if_none_match", "if_not_exists"}
FutureWriter == FutureWriterAttributes \cup FutureWriterConditions \cup {"user_metadata"}
FuturePresignStat  == Overrides \cup Matches
FuturePresignRead  == Overrides \cup Matches
FuturePresignWrite == {"content_type", "content_disposition", "cache_control"}
FunctionStat   == Matches \cup {"version"}
FunctionReader == Overrides \cup Matches \cup {"version"}

\* The arguments they become.
OpStat   == Matches \cup Since \cup Overrides \cup {"version"}
OpRead   == OpStat
OpWrite  == {"cache_control", "content_type", "content_disposition", "content_encoding",
             "if_match", "if_none_match", "if_not_exists", "user_metadata"}
OpDelete == {"version"}

\* What a call of each kind passes on.
Offered ==
    [stat |-> FutureStat \cap OpStat, read |-> FutureRead \cap FutureReader \cap OpRead,
     put |-> FutureWrite \cap OpWrite, multi |-> FutureWriter \cap OpWrite,
     append |-> FutureWriter \cap OpWrite,
     delete |-> FutureDelete \cap OpDelete, batch |-> FutureDelete \cap OpDelete,
     presign_stat |-> FuturePresignStat \cap OpStat,
     presign_read |-> FuturePresignRead \cap OpRead,
     presign_write |-> FuturePresignWrite \cap OpWrite,
     blocking_stat |-> FunctionStat \cap OpStat,
     blocking_read |-> FunctionReader \cap OpRead]

Writes == {"put", "multi", "append", "presign_write"}
Reads  == {"read", "presign_read", "blocking_read"}
Stats  == {"stat", "presign_stat", "blocking_stat"}

\* The kinds of operation the service has.
Has(k) == \/ k \in DOMAIN svc
          \/ k = "multi" /\ "initiate" \in DOMAIN svc
          \/ /\ "presign" \in DOMAIN svc
             /\ \E p \in DOMAIN svc.presign : k = "presign_" \o p
          \/ k \in {"blocking_stat", "blocking_read"} /\ service \in {"fs", "hdfs"}
-----------------------------------------------------------------------------
(* CorrectnessCheckLayer and CapabilityCheckLayer: what is refused. *)
CorrectnessReadMutant(o, can) == o \cap ({"version"} \cup Matches) \subseteq can
CorrectnessRead(o, can)  == o \cap ({"version"} \cup Matches \cup Since) \subseteq can
CorrectnessStat(o, can)  == o \cap ({"version"} \cup Matches \cup Since) \subseteq can
CorrectnessWriteMutant(o, can) == o \cap {"if_not_exists"} \subseteq can
CorrectnessWrite(o, can) == o \cap {"if_not_exists", "if_none_match"} \subseteq can
CorrectnessBlockingRead(o, can) == o \cap {"version"} \subseteq can
CorrectnessBlockingStat(o, can) == o \cap {"version"} \subseteq can
CheckDelete(o, can) == o \cap {"version"} \subseteq can
CapabilityWrite(o, can) ==
    o \cap {"content_type", "cache_control", "content_disposition"} \subseteq can

Declared(k) ==
    LET can == svc.info[conf]
    IN CASE k \in Stats  -> can.stat
         [] k \in Reads  -> can.read
         [] k \in Writes -> can.write
         [] OTHER        -> can.delete

Admitted(k, o) ==
    CASE k = "stat" -> CorrectnessStat(o, Declared(k))
      [] k = "read" -> CorrectnessRead(o, Declared(k))
      [] k \in {"put", "multi", "append"} ->
            /\ CorrectnessWrite(o, Declared(k))
            /\ CapabilityCheck => CapabilityWrite(o, Declared(k))
      [] k \in {"delete", "batch"} -> CheckDelete(o, Declared(k))
      [] k = "blocking_stat" -> CorrectnessBlockingStat(o, Declared(k))
      [] k = "blocking_read" -> CorrectnessBlockingRead(o, Declared(k))
      [] OTHER -> TRUE                     \* presign is not checked

\* The requests of the operation, one after the other: the options each carries.
Requests(k, r) ==
    CASE k = "multi" -> <<svc.initiate, svc.complete>>
      [] k = "put" /\ "content" \in DOMAIN svc -> <<svc.put, svc.content>>
      [] k = "presign_stat"  -> <<svc.presign.stat>>
      [] k = "presign_read"  -> <<svc.presign.read>>
      [] k = "presign_write" -> <<svc.presign.write>>
      [] k = "blocking_stat" -> <<svc.stat>>
      [] k \in {"read", "blocking_read"} ->
            IF r = "part" THEN <<svc.read[FALSE], svc.read[FALSE]>>   \* two chunks
            ELSE <<svc.read[r = "full"]>>
      [] OTHER -> <<svc[k]>>
-----------------------------------------------------------------------------
Init ==
    /\ service \in Names
    /\ conf \in IF service \in {"s3", "oss", "cos"} THEN SUBSET Flags ELSE {{}}
    /\ \E n \in {0, 1} : /\ cur = n
                         /\ kept = [v \in 1..n |-> {}]
                         /\ versions = 1..n
    /\ op = Nothing
    /\ lost = 0

\* A caller starts an operation with some options; want is an etag, a version
\* or a time it learned earlier.
Begin(k, o, w, r) ==
    /\ op.res = "idle"
    /\ Has(k)
    /\ r # "full" => k \in {"read", "blocking_read"}
    /\ op' = IF Admitted(k, o)
             THEN [Nothing EXCEPT !.kind = k, !.opts = o, !.want = w, !.range = r,
                                  !.todo = Requests(k, r), !.res = "running"]
             ELSE [Nothing EXCEPT !.kind = k, !.opts = o, !.res = "Unsupported"]
    /\ UNCHANGED <<service, conf, versions, cur, kept, lost>>

Holds(c, t, w) ==
    CASE c = "if_match"            -> t = w
      [] c = "if_none_match"       -> t # w
      [] c = "if_modified_since"   -> t > w
      [] c = "if_unmodified_since" -> t <= w
      [] c = "if_not_exists"       -> t = 0
      [] c = "version"             -> t = w

\* The next request and the version it is about.
Carried == op.opts \cap Head(op.todo)
Target  == IF "version" \in Carried THEN op.want ELSE cur
Final   == Len(op.todo) = 1
Creates == op.kind = "put" /\ Len(op.todo) = 2     \* an empty file, for the content
Fills   == op.kind = "put" /\ Final /\ "content" \in DOMAIN svc

\* The answer is lost: RetryLayer sends the request again, or repeats all of
\* write_once.  The requests of an upload in parts are repeated in
\* MultipartWriter.
Answered(o) ==
    \/ op' = o /\ UNCHANGED lost
    \/ /\ lost < MaxLost
       /\ op.kind \notin {"multi", "append"}
       /\ lost' = lost + 1
       /\ op' = [o EXCEPT !.res = "running", !.parts = op.parts,
                          !.todo = IF op.kind = "put" THEN Requests("put", op.range) ELSE op.todo,
                          !.seen = IF op.kind \in Writes THEN @ ELSE op.seen]

Finish(res) == [op EXCEPT !.todo = <<>>, !.res = res]

\* The server refuses: 412, or 304 on a read.
Refuse ==
    /\ op.res = "running" /\ op.kind \notin {"delete", "batch"}
    /\ \E c \in Carried \cap Conditions : ~Holds(c, Target, op.want)
    /\ Answered(Finish("ConditionNotMatch"))
    /\ UNCHANGED <<service, conf, versions, cur, kept>>

Allowed == \A c \in Carried \cap Conditions : Holds(c, Target, op.want)

\* The object, or the version, is not there.
NotThere ==
    /\ op.res = "running" /\ op.kind \in Reads \cup Stats
    /\ Target \notin versions \/ Target = 0
    /\ Answered(Finish("NotFound"))
    /\ UNCHANGED <<service, conf, versions, cur, kept>>

\* CompleteReader::check: a reader of a bounded range fails when it gets more.
CompleteReaderCheck(r, part) == r = "part" => part = "asked"

Look ==
    /\ op.res = "running" /\ op.kind \in Reads \cup Stats
    /\ Target \in versions
    /\ Allowed
    /\ LET part == IF op.range = "full" \/ "range" \in Head(op.todo) THEN "asked" ELSE "whole"
       IN IF CompleteReaderCheck(op.range, part)
          THEN Answered([op EXCEPT !.todo = Tail(@), !.seen = @ \cup {Target},
                                   !.parts = @ \cup {part}, !.honoured = @ \cup Carried,
                                   !.res = IF Final THEN "Ok" ELSE "running"])
          ELSE Answered(Finish("Unexpected"))
    /\ UNCHANGED <<service, conf, versions, cur, kept>>

\* The upload in parts is opened: nothing is visible yet.
Initiate ==
    /\ op.res = "running" /\ op.kind = "multi" /\ ~Final
    /\ op' = [op EXCEPT !.todo = Tail(@), !.honoured = @ \cup Carried]
    /\ UNCHANGED <<service, conf, versions, cur, kept, lost>>

Store ==
    /\ op.res = "running" /\ op.kind \in Writes
    /\ Creates \/ (Final /\ ~Fills)
    /\ Allowed
    /\ Last < MaxVersion
    /\ LET v == Last + 1
           attrs == (op.honoured \cup Carried) \ Conditions
       IN /\ versions' = (IF "enable_versioning" \in conf THEN versions ELSE {}) \cup {v}
          /\ cur' = v
          /\ kept' = kept @@ (v :> attrs)
          /\ Answered([op EXCEPT !.todo = Tail(@), !.seen = @ \cup {cur}, !.mine = @ \cup {v},
                                 !.honoured = @ \cup Carried,
                                 !.res = IF Final THEN "Ok" ELSE "running"])
    /\ UNCHANGED <<service, conf>>

\* The content goes into the file that is there by now: the one this operation
\* created, none, or another one, which takes it if it fits.
Fill ==
    /\ op.res = "running" /\ Fills
    /\ \/ cur = 0 /\ Answered(Finish("NotFound"))
       \/ cur \notin op.mine \cup {0} /\ Answered(Finish("Unexpected"))
       \/ cur # 0 /\ Answered([Finish("Ok") EXCEPT !.over = @ \cup {cur}])
    /\ UNCHANGED <<service, conf, versions, cur, kept>>

\* With a version that version goes, without one the object does: a versioned
\* bucket keeps the versions behind a marker.
Remove ==
    /\ op.res = "running" /\ op.kind \in {"delete", "batch"}
    /\ LET away == IF "version" \in Carried THEN {op.want} \cap versions
                   ELSE IF "enable_versioning" \in conf THEN {} ELSE versions
       IN /\ versions' = versions \ away
          /\ cur' = IF "version" \notin Carried \/ cur \in away THEN 0 ELSE cur
          /\ Answered([op EXCEPT !.todo = <<>>, !.gone = @ \cup away, !.res = "Ok",
                                 !.honoured = @ \cup (IF cur' # cur THEN {"current"} ELSE {})])
    /\ UNCHANGED <<service, conf, kept>>

\* Another client.
OtherWrites ==
    /\ op.res \in {"idle", "running"}
    /\ Last < MaxVersion
    /\ cur' = Last + 1
    /\ versions' = (IF "enable_versioning" \in conf THEN versions ELSE {}) \cup {Last + 1}
    /\ kept' = kept @@ (Last + 1 :> {})
    /\ UNCHANGED <<service, conf, op, lost>>

OtherDeletes ==
    /\ op.res \in {"idle", "running"}
    /\ cur # 0
    /\ cur' = 0
    /\ versions' = IF "enable_versioning" \in conf THEN versions ELSE {}
    /\ UNCHANGED <<service, conf, kept, op, lost>>

Next ==
    \/ \E k \in DOMAIN Asked : \E o \in SUBSET (Asked[k] \cap Offered[k]),
          w \in 1..Last \cup {1}, r \in Ranges : Cardinality(o) <= 2 /\ Begin(k, o, w, r)
    \/ Refuse \/ NotThere \/ Look \/ Initiate \/ Store \/ Fill \/ Remove
    \/ OtherWrites \/ OtherDeletes

Spec == Init /\ [][Next]_vars
-----------------------------------------------------------------------------
\* The conditions and the version of an operation that succeeded hold of every
\* version it read or replaced: none is ignored, neither by the service nor by
\* one of the requests an operation takes (layers/correctness_check.rs).  A
\* write in two requests replaces a version by its first.
ConditionsHeld ==
    op.res = "Ok" /\ op.kind \in Reads \cup Stats \cup Writes =>
        \A c \in op.opts \cap Conditions : \A t \in op.seen : Holds(c, t, op.want)

\* And the content of a write with conditions goes nowhere but into the version
\* for which they were checked.
ContentWhereChecked ==
    op.res = "Ok" /\ op.kind = "put" /\ op.opts \cap Conditions # {} => op.over \subseteq op.mine

\* An operation is answered ConditionNotMatch only for what someone else did:
\* a version that the operation itself stored is no reason.
RefusedForOthers ==
    op.res = "ConditionNotMatch" => cur \notin op.mine

\* A read that succeeded returns the range it was asked for, from every request.
RangeHonoured == op.res = "Ok" /\ op.kind \in Reads => op.parts = {"asked"}
RangeIsRead == service \notin IgnoresRange => RangeHonoured

\* The attributes the service declares are stored with the version that the
\* operation wrote, and declared overrides reach the answer.
AttributesKept ==
    op.res = "Ok" /\ op.kind \notin {"delete", "batch"} =>
        ((op.opts \cap Declared(op.kind)) \ Conditions) \subseteq op.honoured

\* A delete of a version that succeeded removes that version and no other, and
\* the current version stays current when it is another one.
ThatVersionGone ==
    op.res = "Ok" /\ op.kind \in {"delete", "batch"} /\ "version" \in op.opts =>
        /\ op.want \notin versions
        /\ op.gone \subseteq {op.want}
        /\ "current" \in op.honoured => op.want \in op.gone
=============================================================================
