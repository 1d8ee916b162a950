----------------------------- MODULE Observers -----------------------------
(***************************************************************************)
(* The layers that watch operations without changing them: LoggingLayer,   *)
(* MetricsLayer (below the prometheus, prometheus-client, metrics and otel *)
(* interceptors), ErrorContextLayer, TracingLayer, FastraceLayer,          *)
(* OtelTraceLayer, DtraceLayer, AwaitTreeLayer and AsyncBacktraceLayer.    *)
(* One client calls the methods of an accessor under one of these layers   *)
(* and of the reader, writer, lister or deleter it gets.  An event is a    *)
(* pair of an operation and what is said of it; "done" stands for the      *)
(* messages "finished", "succeeded" and "created reader" (writer, lister). *)
(* LabelsSpec, a specification of its own with variables of its own, has   *)
(* the series into which the interceptors of MetricsLayer sort what they   *)
(* observe.                                                                *)
(***************************************************************************)
EXTENDS Naturals, FiniteSets, Sequences, SequencesExt, Bags, TLC

CONSTANTS
    Cases,     \* the triples of a layer, a mode and an object to look at
    MaxCalls,  \* bound on the calls of the client
    Inputs,    \* what a deleter may be told to delete: pairs of a path and a version or ""
    Word,      \* 2^64: the counters are usize
    Interceptors,     \* of "prometheus", "prometheus_client", "metrics" and "otel"
    Paths,            \* the paths of the requests
    MaxLevel,         \* bound on path_label
    MaxObservations   \* bound on the observations

ObserversAssumption ==
    MaxCalls \in Nat /\ IsFiniteSet(Inputs) /\ Word \in Nat /\ MaxCalls < Word /\ MaxLevel \in Nat /\ MaxObservations \in Nat

-----------------------------------------------------------------------------
(* What a layer does around one method: the events before the inner call and *)
(* after its result, when its counter moves by the amount of the call        *)
(* ("never", "ok", or already at the "call"), and whether a span is open     *)
(* while the inner call runs.                                                *)
Silent == [before |-> {}, ok |-> {}, err |-> {}, adds |-> "never", covers |-> FALSE]
Counting(r) == [r EXCEPT !.adds = "ok"]
Logs(o) == [Silent EXCEPT !.before = {<<o, "started">>}, !.ok = {<<o, "done">>},
                          !.err = {<<o, "failed">>}]
Opens(o) == [Silent EXCEPT !.ok = {<<o, "duration">>}, !.err = {<<o, "errors">>}]
Runs(o) == [Silent EXCEPT !.ok = {<<o, "duration">>},
                          !.err = {<<o, "errors">>, <<o, "duration">>}]
Explains(o) == [Silent EXCEPT !.err = {<<o, "context">>}]
Spans(o, covers) == [Silent EXCEPT !.before = {<<o, "span">>}, !.covers = covers]
Probes(o, after, failed) == [Silent EXCEPT !.before = {<<o, "start">>},
                                           !.ok = {<<o, after>>}, !.err = {<<o, failed>>}]

AsyncAccess == {"create_dir", "read", "write", "copy", "rename", "stat", "delete", "list",
                "presign"}
BlockingAccess == {"blocking_create_dir", "blocking_read", "blocking_write", "blocking_copy",
                   "blocking_rename", "blocking_stat", "blocking_delete", "blocking_list"}
AsyncBody == {"reader_read", "writer_write", "writer_close", "writer_abort", "lister_next",
              "deleter_delete", "deleter_flush"}
BlockingBody == {"blocking_reader_read", "blocking_writer_write", "blocking_writer_close",
                 "blocking_lister_next", "blocking_deleter_delete", "blocking_deleter_flush"}
AsyncOps == AsyncAccess \cup AsyncBody
Ops == AsyncOps \cup BlockingAccess \cup BlockingBody

\* layers/logging.rs
logging_create_dir == Logs("create_dir")
logging_read == Logs("read")
logging_write == Logs("write")
logging_copy == Logs("copy")
logging_rename == Logs("rename")
logging_statMutant == [Logs("stat") EXCEPT !.err = {}]
logging_stat == Logs("stat")
logging_delete == Logs("delete")
logging_list == Logs("list")
logging_presign == Logs("presign")
logging_blocking_create_dir == Logs("blocking_create_dir")
logging_blocking_read == Logs("blocking_read")
logging_blocking_write == Logs("blocking_write")
logging_blocking_copy == [Logs("blocking_copy") EXCEPT !.err = {<<"blocking_copy", "">>}]
logging_blocking_rename == Logs("blocking_rename")
logging_blocking_stat == Logs("blocking_stat")
logging_blocking_delete == Logs("blocking_delete")
logging_blocking_list == [Logs("blocking_list") EXCEPT !.err = {<<"blocking_list", "">>}]
logging_reader_read == Counting(Logs("reader_read"))
logging_writer_write == Counting(Logs("writer_write"))
logging_writer_close == Logs("writer_close")
logging_writer_abort == Logs("writer_abort")
logging_lister_next == Counting(Logs("lister_next"))
logging_deleter_delete == Logs("deleter_delete")
logging_deleter_flush == Counting(Logs("deleter_flush"))
logging_blocking_reader_read == Counting(Logs("blocking_reader_read"))
logging_blocking_writer_write == Logs("blocking_writer_write")
logging_blocking_writer_close == [Logs("blocking_writer_close") EXCEPT
                                   !.ok = {<<"blocking_writer_write", "done">>}]
logging_blocking_lister_next == Counting(Logs("blocking_lister_next"))
logging_blocking_deleter_delete == Logs("blocking_deleter_delete")
logging_blocking_deleter_flush == Counting(Logs("blocking_deleter_flush"))
logging == [
    create_dir |-> logging_create_dir, read |-> logging_read, write |-> logging_write,
    copy |-> logging_copy, rename |-> logging_rename, stat |-> logging_stat,
    delete |-> logging_delete, list |-> logging_list, presign |-> logging_presign,
    blocking_create_dir |-> logging_blocking_create_dir,
    blocking_read |-> logging_blocking_read, blocking_write |-> logging_blocking_write,
    blocking_copy |-> logging_blocking_copy, blocking_rename |-> logging_blocking_rename,
    blocking_stat |-> logging_blocking_stat, blocking_delete |-> logging_blocking_delete,
    blocking_list |-> logging_blocking_list, reader_read |-> logging_reader_read,
    writer_write |-> logging_writer_write, writer_close |-> logging_writer_close,
    writer_abort |-> logging_writer_abort, lister_next |-> logging_lister_next,
    deleter_delete |-> logging_deleter_delete, deleter_flush |-> logging_deleter_flush,
    blocking_reader_read |-> logging_blocking_reader_read,
    blocking_writer_write |-> logging_blocking_writer_write,
    blocking_writer_close |-> logging_blocking_writer_close,
    blocking_lister_next |-> logging_blocking_lister_next,
    blocking_deleter_delete |-> logging_blocking_deleter_delete,
    blocking_deleter_flush |-> logging_blocking_deleter_flush]

\* layers/observe/metrics.rs
metrics_create_dir == Opens("create_dir")
metrics_read == Opens("read")
metrics_write == Opens("write")
metrics_copyMutant == [Opens("copy") EXCEPT !.err = {<<"rename", "errors">>}]
metrics_copy == Opens("copy")
metrics_rename == Opens("rename")
metrics_stat == Opens("stat")
metrics_delete == Opens("delete")
metrics_list == Opens("list")
metrics_presign == Opens("presign")
metrics_blocking_create_dir == Opens("blocking_create_dir")
metrics_blocking_read == Opens("blocking_read")
metrics_blocking_write == Opens("blocking_write")
metrics_blocking_copy == Opens("blocking_copy")
metrics_blocking_rename == Opens("blocking_rename")
metrics_blocking_stat == Opens("blocking_stat")
metrics_blocking_delete == Opens("blocking_delete")
metrics_blocking_list == Opens("blocking_list")
metrics_reader_read == Counting(Runs("reader_read"))
metrics_writer_writeMutant == [Runs("writer_write") EXCEPT !.adds = "call"]
metrics_writer_write == Counting(Runs("writer_write"))
metrics_writer_close == Runs("writer_close")
metrics_writer_abort == Runs("writer_abort")
metrics_lister_next == Runs("lister_next")
metrics_deleter_delete == Runs("deleter_delete")
metrics_deleter_flush == Runs("deleter_flush")
metrics_blocking_reader_read == Counting(Runs("blocking_reader_read"))
metrics_blocking_writer_write == Counting(Runs("blocking_writer_write"))
metrics_blocking_writer_close == Runs("blocking_writer_close")
metrics_blocking_lister_next == Runs("blocking_lister_next")
metrics_blocking_deleter_delete == Runs("blocking_deleter_delete")
metrics_blocking_deleter_flush == Runs("blocking_deleter_flush")
metrics == [
    create_dir |-> metrics_create_dir, read |-> metrics_read, write |-> metrics_write,
    copy |-> metrics_copy, rename |-> metrics_rename, stat |-> metrics_stat,
    delete |-> metrics_delete, list |-> metrics_list, presign |-> metrics_presign,
    blocking_create_dir |-> metrics_blocking_create_dir,
    blocking_read |-> metrics_blocking_read, blocking_write |-> metrics_blocking_write,
    blocking_copy |-> metrics_blocking_copy, blocking_rename |-> metrics_blocking_rename,
    blocking_stat |-> metrics_blocking_stat, blocking_delete |-> metrics_blocking_delete,
    blocking_list |-> metrics_blocking_list, reader_read |-> metrics_reader_read,
    writer_write |-> metrics_writer_write, writer_close |-> metrics_writer_close,
    writer_abort |-> metrics_writer_abort, lister_next |-> metrics_lister_next,
    deleter_delete |-> metrics_deleter_delete, deleter_flush |-> metrics_deleter_flush,
    blocking_reader_read |-> metrics_blocking_reader_read,
    blocking_writer_write |-> metrics_blocking_writer_write,
    blocking_writer_close |-> metrics_blocking_writer_close,
    blocking_lister_next |-> metrics_blocking_lister_next,
    blocking_deleter_delete |-> metrics_blocking_deleter_delete,
    blocking_deleter_flush |-> metrics_blocking_deleter_flush]

\* layers/error_context.rs
error_context_create_dir == Explains("create_dir")
error_context_read == Explains("read")
error_context_write == Explains("write")
error_context_copy == Explains("copy")
error_context_rename == Explains("rename")
error_context_stat == Explains("stat")
error_context_delete == Explains("delete")
error_context_list == Explains("list")
error_context_presign == Explains("presign")
error_context_blocking_create_dir == Explains("blocking_create_dir")
error_context_blocking_read == Explains("blocking_read")
error_context_blocking_write == Explains("blocking_write")
error_context_blocking_copy == Explains("blocking_copy")
error_context_blocking_rename == Explains("blocking_rename")
error_context_blocking_stat == Explains("blocking_stat")
error_context_blocking_delete == Explains("blocking_delete")
error_context_blocking_list == Explains("blocking_list")
error_context_reader_read == Counting(Explains("reader_read"))
error_context_writer_write == Counting(Explains("writer_write"))
error_context_writer_close == Explains("writer_close")
error_context_writer_abort == Explains("writer_abort")
error_context_lister_next == Counting(Explains("lister_next"))
error_context_deleter_delete == Explains("deleter_delete")
error_context_deleter_flush == Counting(Explains("deleter_flush"))
error_context_blocking_reader_read == Counting(Explains("blocking_reader_read"))
error_context_blocking_writer_write == Counting(Explains("blocking_writer_write"))
error_context_blocking_writer_close == Explains("blocking_writer_close")
error_context_blocking_lister_next == Counting(Explains("blocking_lister_next"))
error_context_blocking_deleter_delete == [Silent EXCEPT !.err = {<<"deleter_delete", "context">>}]
error_context_blocking_deleter_flush == Counting([Silent EXCEPT !.err = {<<"deleter_flush", "context">>}])
error_context == [
    create_dir |-> error_context_create_dir, read |-> error_context_read,
    write |-> error_context_write, copy |-> error_context_copy,
    rename |-> error_context_rename, stat |-> error_context_stat,
    delete |-> error_context_delete, list |-> error_context_list,
    presign |-> error_context_presign,
    blocking_create_dir |-> error_context_blocking_create_dir,
    blocking_read |-> error_context_blocking_read,
    blocking_write |-> error_context_blocking_write,
    blocking_copy |-> error_context_blocking_copy,
    blocking_rename |-> error_context_blocking_rename,
    blocking_stat |-> error_context_blocking_stat,
    blocking_delete |-> error_context_blocking_delete,
    blocking_list |-> error_context_blocking_list,
    reader_read |-> error_context_reader_read, writer_write |-> error_context_writer_write,
    writer_close |-> error_context_writer_close,
    writer_abort |-> error_context_writer_abort, lister_next |-> error_context_lister_next,
    deleter_delete |-> error_context_deleter_delete,
    deleter_flush |-> error_context_deleter_flush,
    blocking_reader_read |-> error_context_blocking_reader_read,
    blocking_writer_write |-> error_context_blocking_writer_write,
    blocking_writer_close |-> error_context_blocking_writer_close,
    blocking_lister_next |-> error_context_blocking_lister_next,
    blocking_deleter_delete |-> error_context_blocking_deleter_delete,
    blocking_deleter_flush |-> error_context_blocking_deleter_flush]

\* layers/tracing.rs: #[instrument] on the methods of the writer, which are no
\* async fn but return a future, closes the span before the future is polled.
TracingAccessorMutant == [o \in AsyncAccess \cup BlockingAccess |->
                            IF o = "presign" THEN Silent ELSE Spans(o, TRUE)]
TracingAccessor == [o \in AsyncAccess \cup BlockingAccess |-> Spans(o, TRUE)]
WriterFutures == {"writer_write", "writer_abort", "writer_close"}
TracingWrapperMutant == [o \in AsyncBody \cup BlockingBody |->
                           Spans(o, o \notin WriterFutures \cup {"lister_next"})]
TracingWrapper == [o \in AsyncBody \cup BlockingBody |-> Spans(o, o \notin WriterFutures)]
\* layers/fastrace.rs: the same with the guards _g and _span.
FastraceAccessor == [o \in AsyncAccess \cup BlockingAccess |-> Spans(o, TRUE)]
FastraceWrapper == [o \in AsyncBody \cup BlockingBody |-> Spans(o, o \notin WriterFutures)]
\* layers/oteltrace.rs: a body keeps the span of the call that opened it.
OtelTraceAccessor == [o \in AsyncAccess \cup BlockingAccess |->
                        IF o \in {"delete", "blocking_delete"} THEN Silent ELSE Spans(o, TRUE)]
OtelTraceWrapper == [o \in AsyncBody \cup BlockingBody |-> Silent]
\* layers/await_tree.rs and layers/async_backtrace.rs: create_dir, the
\* blocking methods and deleter_delete, which does not wait, are handed on.
AwaitTreeAccessor == [o \in AsyncAccess \cup BlockingAccess |->
                        IF o \in AsyncAccess \ {"create_dir"} THEN Spans(o, TRUE) ELSE Silent]
AwaitTreeWrapper == [o \in AsyncBody \cup BlockingBody |->
                       IF o \in AsyncBody \ {"deleter_delete"} THEN Spans(o, TRUE) ELSE Silent]
AsyncBacktraceAccessor == [o \in AsyncAccess \cup BlockingAccess |->
                             IF o \in AsyncAccess \ {"create_dir"} THEN Spans(o, TRUE) ELSE Silent]
AsyncBacktraceWrapper == [o \in AsyncBody \cup BlockingBody |->
                            IF o \in AsyncBody \ {"deleter_delete"} THEN Spans(o, TRUE) ELSE Silent]
\* layers/dtrace.rs: copy, rename, the lister and the deleter are handed on.
DTraceAccessor == [o \in AsyncAccess \cup BlockingAccess |->
    IF o \in {"delete", "blocking_delete", "copy", "rename", "blocking_copy", "blocking_rename"}
    THEN Silent ELSE Probes(o, "end", "end")]
DtraceLayerWrapper == [o \in AsyncBody \cup BlockingBody |->
    CASE o \in {"reader_read", "blocking_reader_read"} -> Counting(Probes(o, "ok", "error"))
      [] o \in {"writer_write", "writer_close", "blocking_writer_write", "blocking_writer_close"}
           -> Probes(o, "ok", "error")
      [] o = "writer_abort" -> Probes("writer_poll_abort", "ok", "error")
      [] OTHER -> Silent]

Layers == [
    logging |-> logging, metrics |-> metrics, error_context |-> error_context,
    tracing |-> TracingAccessor @@ TracingWrapper,
    fastrace |-> FastraceAccessor @@ FastraceWrapper,
    oteltrace |-> OtelTraceAccessor @@ OtelTraceWrapper,
    await_tree |-> AwaitTreeAccessor @@ AwaitTreeWrapper,
    async_backtrace |-> AsyncBacktraceAccessor @@ AsyncBacktraceWrapper,
    dtrace |-> DTraceAccessor @@ DtraceLayerWrapper]

\* The methods of an object, and of the accessor that opens it.
MethodsOf == [
    none     |-> {"create_dir", "copy", "rename", "stat", "presign", "blocking_create_dir",
                  "blocking_copy", "blocking_rename", "blocking_stat"},
    reader   |-> {"read", "reader_read", "blocking_read", "blocking_reader_read"},
    writer   |-> {"write", "writer_write", "writer_close", "writer_abort", "blocking_write",
                  "blocking_writer_write", "blocking_writer_close"},
    lister   |-> {"list", "lister_next", "blocking_list", "blocking_lister_next"},
    deleter  |-> {"delete", "deleter_delete", "deleter_flush", "blocking_delete",
                  "blocking_deleter_delete", "blocking_deleter_flush"}]
-----------------------------------------------------------------------------
VARIABLES
    layer, mode, object,  \* what is looked at
    opened,   \* the client has the object
    running,  \* the call that runs, or "none"
    size,     \* the bytes handed to a write
    calls,    \* bag of <<operation, outcome>>: the calls that ended
    events,   \* bag of the events of the layer
    count,    \* the counter of the layer: read, written, listed, deleted, processed
    queued,   \* LoggingDeleter: queued
    spans,    \* the operations whose span is open
    moved,    \* what the inner object really moved: bytes, entries, deletions
    buffer,   \* what the inner deleter really holds
    given     \* history: what the inner deleter was told to delete

vars == <<layer, mode, object, opened, running, size, calls, events, count, queued, spans,
          moved, buffer, given>>
case == <<layer, mode, object>>

Report(o) == Layers[layer][o]
Init ==
    /\ \E c \in Cases : layer = c[1] /\ mode = c[2] /\ object = c[3]
    /\ opened = FALSE
    /\ running = "none"
    /\ size = 0
    /\ calls = EmptyBag
    /\ events = EmptyBag
    /\ count = 0
    /\ queued = 0
    /\ spans = {}
    /\ moved = 0
    /\ buffer = {}
    /\ given = {}

Deletes == {"deleter_delete", "blocking_deleter_delete"}
Flushes == {"deleter_flush", "blocking_deleter_flush"}
Bodies == AsyncBody \cup BlockingBody
Transfers == {"reader_read", "writer_write", "lister_next", "deleter_flush",
              "blocking_reader_read", "blocking_writer_write", "blocking_lister_next",
              "blocking_deleter_flush"}

Call(o) ==
    /\ running = "none"
    /\ BagCardinality(calls) < MaxCalls
    /\ o \in MethodsOf[object] \cap (IF mode = "async" THEN AsyncOps ELSE Ops \ AsyncOps)
    /\ opened = (o \in Bodies)
    /\ running' = o
    /\ size' \in (IF o \in {"writer_write", "blocking_writer_write"} THEN 0..2 ELSE {0})
    /\ events' = events (+) SetToBag(Report(o).before)
    /\ spans' = IF Report(o).covers THEN {o} ELSE {}
    /\ count' = IF Report(o).adds = "call" THEN count + size' ELSE count
    /\ UNCHANGED <<case, opened, calls, queued, moved, buffer, given>>

\* What a call that succeeds may move.
Amounts(o) == CASE o \in {"reader_read", "blocking_reader_read"} -> 0..2
                [] o \in {"writer_write", "blocking_writer_write"} -> {size}
                [] o \in {"lister_next", "blocking_lister_next"} -> 0..1
                [] o \in Flushes -> 0..Cardinality(buffer)
                [] OTHER -> {0}

\* What flush takes out of the buffer if S was deleted: the one path, or what
\* a batch reports, of s3 without the versions.
Reported(S) == IF Cardinality(buffer) = 1 THEN S ELSE {<<i[1], "">> : i \in S}

\* BatchDeleter, and OneShotDeleter, which is all that blocking services have
\* and holds one path.  The inner object does n of what it was called for; of
\* a batch at least one path is deleted, the others failed temporarily.
Does(o, n) ==
    /\ moved' = moved + n
    /\ CASE o \in Deletes ->
              /\ mode = "blocking" => buffer = {}
              /\ \E i \in Inputs : buffer' = buffer \cup {i} /\ given' = given \cup {i}
         [] o \in Flushes ->
              /\ \E S \in SUBSET buffer :
                    /\ Cardinality(S) = n
                    /\ S = {} <=> buffer = {}
                    /\ buffer' = buffer \ Reported(S)
              /\ UNCHANGED given
         [] OTHER -> UNCHANGED <<buffer, given>>

Ends(outcome) ==
    /\ running # "none"
    /\ running' = "none"
    /\ spans' = {}
    /\ calls' = calls (+) SetToBag({<<running, outcome>>})
    /\ UNCHANGED <<case, size>>

LoggingQueuedMutant(o, n) == CASE o \in Deletes -> queued + 1
                               [] o \in Flushes -> 0
                               [] OTHER -> queued
LoggingQueued(o, n) == CASE o \in Deletes -> queued + 1
                         [] o \in Flushes -> (queued + Word - n) % Word
                         [] OTHER -> queued

ReturnOk(n) ==
    /\ Ends("ok")
    /\ n \in Amounts(running)
    /\ Does(running, n)
    /\ events' = events (+) SetToBag(Report(running).ok)
    /\ count' = IF Report(running).adds = "ok" THEN count + n ELSE count
    /\ queued' = IF layer = "logging" THEN LoggingQueued(running, n) ELSE queued
    /\ opened' = (opened \/ object # "none")

\* A batch in which a path failed for good: BatchDeleter takes out what was
\* deleted and returns the error.
FailsInPart ==
    /\ running = "deleter_flush"
    /\ \E S \in SUBSET buffer :
          /\ S \notin {{}, buffer}
          /\ moved' = moved + Cardinality(S)
          /\ buffer' = buffer \ Reported(S)

ReturnErr ==
    /\ Ends("err")
    /\ UNCHANGED <<moved, buffer>> \/ FailsInPart
    /\ events' = events (+) SetToBag(Report(running).err)
    /\ UNCHANGED <<opened, given, count, queued>>

\* The future of a call is dropped; the inner call may have taken effect.
DropFuture ==
    /\ mode = "async" /\ running \notin Deletes
    /\ Ends("dropped")
    /\ UNCHANGED <<moved, buffer, given>> \/ \E n \in Amounts(running) : Does(running, n)
    /\ UNCHANGED <<opened, events, count, queued>>

Next == (\E o \in Ops : Call(o)) \/ (\E n \in 0..(2 + Cardinality(Inputs)) : ReturnOk(n)) \/ ReturnErr \/ DropFuture

Spec == Init /\ [][Next]_vars
-----------------------------------------------------------------------------
Ended(o, outcome) == CopiesIn(<<o, outcome>>, calls)
Called(o) == Ended(o, "ok") + Ended(o, "err") + Ended(o, "dropped")
               + (IF running = o THEN 1 ELSE 0)
Dropped == \E o \in Ops : Ended(o, "dropped") > 0

\* LoggingLayer, TracingLayer, FastraceLayer and OtelTraceLayer are there "for
\* every operation": each call is seen when it starts, whatever comes of it.
EveryCallIsSeen ==
    layer \in {"logging", "tracing", "fastrace", "oteltrace"} =>
        \A o \in Ops : CopiesIn(<<o, "started">>, events) + CopiesIn(<<o, "span">>, events)
                         = Called(o)

\* The log tells of every call that returned how it ended, under the name of
\* the operation that was started; a log that pairs the entries of an
\* operation is never left with one that was started and returned.
LoggedToTheEnd ==
    layer = "logging" =>
        \A o \in Ops : /\ CopiesIn(<<o, "done">>, events) = Ended(o, "ok")
                       /\ CopiesIn(<<o, "failed">>, events) = Ended(o, "err")

\* Every error is counted (MetricsLayer) and explained (ErrorContextLayer)
\* under the operation that failed, once, and no other is.
ErrorsNameTheOperation ==
    \A o \in Ops :
        /\ layer = "metrics" => CopiesIn(<<o, "errors">>, events) = Ended(o, "err")
        /\ layer = "error_context" => CopiesIn(<<o, "context">>, events) = Ended(o, "err")

\* The transfers a layer counts.
Counted == [logging |-> Transfers, error_context |-> Transfers,
            metrics |-> {"reader_read", "writer_write", "blocking_reader_read",
                         "blocking_writer_write"}]

\* The bytes read or written, entries listed and paths deleted that the log,
\* the metrics and the error context show are those that were moved; futures
\* that are dropped, and flushes that fail after they deleted a part, can only
\* make them too small.
TotalsAreTrue ==
    (\E o \in MethodsOf[object] : layer \in DOMAIN Counted /\ o \in Counted[layer]) =>
        /\ count <= moved
        /\ Dropped \/ Ended("deleter_flush", "err") > 0 \/ count = moved

\* "deleted: The already deleted size in given deleter": also of a flush that
\* failed in part.
DeletedIsCounted == layer = "error_context" /\ object = "deleter" /\ ~Dropped => count = moved

\* LoggingDeleter subtracts from an unsigned counter what a flush reports: it
\* holds at least what the inner deleter holds, so that it never falls below
\* zero, also after futures were dropped, flushes failed in part or an input
\* was queued twice, as long as no version is deleted.
QueuedCoversBuffer ==
    layer = "logging" /\ (\A i \in given : i[2] = "") => queued >= Cardinality(buffer)

\* And with versions: the log never shows more queued than were given.
QueuedNeverWraps ==
    layer = "logging" =>
        queued <= Ended("deleter_delete", "ok") + Ended("blocking_deleter_delete", "ok")

\* A span that is made for an operation is open while the operation runs.
WorkInsideSpan ==
    running # "none" /\ CopiesIn(<<running, "span">>, events) > 0 => running \in spans

\* The probes that the documentation of DtraceLayer lists are hit.
Documented == {"create_dir", "read", "write", "stat", "delete", "list", "presign",
    "blocking_create_dir", "blocking_read", "blocking_write", "blocking_stat", "blocking_delete",
    "blocking_list", "reader_read", "blocking_reader_read", "writer_write", "writer_abort",
    "writer_close", "blocking_writer_write", "blocking_writer_close"}
ProbesAsDocumented ==
    layer = "dtrace" => \A o \in Documented : CopiesIn(<<o, "start">>, events) = Called(o)
-----------------------------------------------------------------------------
(* The series that the observations of MetricsLayer go to: path_label_value *)
(* and the labels of the prometheus, prometheus-client, metrics and         *)
(* opentelemetry interceptors.  A path is a sequence of characters; scheme, *)
(* namespace and root, which one operator does not change, are "base".      *)

None == <<>>
Some(v) == <<v>>

\* The path up to its level-th slash, or the whole path if it has fewer.
path_label_valueMutant(path, level) ==
    IF level = 0 \/ path = <<>> THEN None
    ELSE LET slashes == SelectSeq([i \in DOMAIN path |-> i], LAMBDA i : path[i] = "/")
         IN Some(IF Len(slashes) < level THEN path ELSE SubSeq(path, 1, slashes[level] - 1))
path_label_value(path, level) ==
    IF level = 0 THEN None
    ELSE LET slashes == SelectSeq([i \in DOMAIN path |-> i], LAMBDA i : path[i] = "/")
         IN Some(IF Len(slashes) < level THEN path ELSE SubSeq(path, 1, slashes[level] - 1))

\* OperationLabels of prometheus: the names a metric is registered with, and
\* the values of an observation, in the same order.
names(error, level) ==
    <<"base", "operation">> \o (IF level > 0 THEN <<"path">> ELSE <<>>)
                            \o (IF error THEN <<"error">> ELSE <<>>)
into_values(op, path, error, level) ==
    <<"base", op>> \o path_label_value(path, level) \o error
\* The others carry the name of each label with its value.
into_labels(op, path, error, level) ==
    <<<<"base", "base">>, <<"operation", op>>>>
      \o [i \in DOMAIN path_label_value(path, level) |->
            <<"path", path_label_value(path, level)[i]>>]
      \o [i \in DOMAIN error |-> <<"error", error[i]>>]
prometheus_client_labelsMutant(op, path, error, level) ==
    <<<<"base", "base">>, <<"operation", op>>>> \o [i \in DOMAIN error |-> <<"error", error[i]>>]
prometheus_client_labels(op, path, error, level) == into_labels(op, path, error, level)
create_attributes(op, path, error, level) == into_labels(op, path, error, level)

LabelsOf(kind, op, path, error, level) ==
    CASE kind = "prometheus" -> into_values(op, path, error, level)
      [] kind = "prometheus_client" -> prometheus_client_labels(op, path, error, level)
      [] kind = "metrics" -> into_labels(op, path, error, level)
      [] kind = "otel" -> create_attributes(op, path, error, level)

\* The path that MetricsWrapper and MetricsAccessor observe a request under:
\* the deleter is opened for no path and keeps "".
ObservedPath(op, path) == IF op = "deleter_delete" THEN <<>> ELSE path
-----------------------------------------------------------------------------
VARIABLES
    kind,    \* the interceptor
    level,   \* path_label_level
    series,  \* set of <<metric, labels>>
    seen     \* set of <<metric, op, path, error>>: what was observed

labelVars == <<kind, level, series, seen>>

\* builder, path_label and register.
LabelsInit ==
    /\ kind \in Interceptors
    /\ level \in 0..MaxLevel
    /\ series = {}
    /\ seen = {}

Observe(metric, op, path, error) ==
    /\ Cardinality(seen) < MaxObservations
    /\ seen' = seen \cup {<<metric, op, path, error>>}
    /\ series' = series \cup
         {<<metric, LabelsOf(kind, op, ObservedPath(op, path), error, level)>>}
    /\ UNCHANGED <<kind, level>>

observe_operation_duration_seconds(op, path) == Observe("duration", op, path, None)
observe_operation_bytes(op, path) == Observe("bytes", op, path, None)
observe_operation_errors_total(op, path, error) == Observe("errors", op, path, Some(error))

LabelsNext == \E path \in Paths :
    \/ \E op \in {"stat", "deleter_delete"} : observe_operation_duration_seconds(op, path)
    \/ observe_operation_bytes("writer_write", path)
    \/ \E error \in {"NotFound", "Unexpected"} : observe_operation_errors_total("stat", path, error)

LabelsSpec == LabelsInit /\ [][LabelsNext]_vars
-----------------------------------------------------------------------------
\* The components of a path, and its first n.
Components(path) ==
    LET slashes == {i \in DOMAIN path : path[i] = "/"}
    IN [k \in 1..(Cardinality(slashes) + 1) |->
          SelectSeq([i \in DOMAIN path |-> <<path[i], Cardinality({j \in slashes : j < i}) + 1>>],
                    LAMBDA c : c[1] # "/" /\ c[2] = k)]
FirstComponents(path, n) ==
    SubSeq(Components(path), 1, IF n < Len(Components(path)) THEN n ELSE Len(Components(path)))

\* prometheus panics on an observation with another number of labels than the
\* metric was registered with: they agree for every level, path and metric.
LabelsFit ==
    kind = "prometheus" =>
        \A s \in series : Len(s[2]) = Len(names(s[1] = "errors", level))

\* Two observations go to one series exactly if they are of the same metric,
\* operation and error and their paths agree in the first path_label_level
\* components: no directory is split and no two are mixed.
SeriesAreDirectories ==
    Cardinality(series) =
        Cardinality({<<o[1], o[2], FirstComponents(ObservedPath(o[2], o[3]), level), o[4]>> :
                       o \in seen})

\* "if n=1 and input path is "abc/def/ghi", and then we will get "abc/" as the
\* path label": the label of a path that goes on ends with the slash.
PathLabelEndsWithSlash ==
    \A o \in seen : \A n \in 1..level :
        LET label == path_label_value(o[3], n)[1]
        IN Len(label) < Len(o[3]) => label # <<>> /\ label[Len(label)] = "/"

\* The path label is that of "the path used by request": requests for paths in
\* different directories are told apart.
RequestsAreToldApart ==
    level > 0 => \A o, p \in seen :
        o[2] = "deleter_delete" /\ p[2] = o[2]
          /\ FirstComponents(o[3], level) # FirstComponents(p[3], level)
             => Cardinality(series) > 1
=============================================================================
