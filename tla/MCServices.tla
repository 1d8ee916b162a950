---------------------------- MODULE MCServices ----------------------------
(***************************************************************************)
(* What the services promise one caller: options, copies and renames,      *)
(* errors, configuration, and what the layers that observe say; each on    *)
(* small instances.  A behaviour is of one part, which the variable part   *)
(* names and which never changes; v1, v2, ... stand for the variables of   *)
(* its module, in their order.                                             *)
(***************************************************************************)
EXTENDS Naturals, Sequences, TLC

CONSTANTS
  Unused     \* model values

VARIABLES
  part,     \* the part this behaviour is of
  v1, v2, v3, v4, v5, v6, v7, v8, v9, v10, v11, v12, v13, v14

vars == <<part, v1, v2, v3, v4, v5, v6, v7, v8, v9, v10, v11, v12, v13, v14>>

(* A part with n variables leaves those after the n-th alone.               *)
Fresh(n) ==
  /\ (n < 5 => v5 = Unused) /\ (n < 6 => v6 = Unused) /\ (n < 7 => v7 = Unused)
  /\ (n < 8 => v8 = Unused) /\ (n < 9 => v9 = Unused) /\ (n < 10 => v10 = Unused)
  /\ (n < 11 => v11 = Unused) /\ (n < 12 => v12 = Unused) /\ (n < 13 => v13 = Unused)
  /\ (n < 14 => v14 = Unused)

Rest(n) ==
  /\ UNCHANGED part
  /\ (n < 5 => UNCHANGED v5) /\ (n < 6 => UNCHANGED v6) /\ (n < 7 => UNCHANGED v7)
  /\ (n < 8 => UNCHANGED v8) /\ (n < 9 => UNCHANGED v9) /\ (n < 10 => UNCHANGED v10)
  /\ (n < 11 => UNCHANGED v11) /\ (n < 12 => UNCHANGED v12) /\ (n < 13 => UNCHANGED v13)
  /\ (n < 14 => UNCHANGED v14)

(* The options of callers.  if_match is left out on writes: only s3 declares *)
(* it and no layer refuses it elsewhere.                                     *)
Lookups == {"if_match", "if_none_match", "if_modified_since", "if_unmodified_since", "version"}
ConditionsAsked ==
  [stat |-> Lookups, read |-> Lookups, put |-> {"if_not_exists", "if_none_match"},
   delete |-> {"version"}]
AttributesAsked ==
  [put |-> {"cache_control", "content_type", "content_disposition", "content_encoding",
            "if_none_match", "if_not_exists", "user_metadata"},
   presign_stat |-> {"if_match", "if_none_match"}, presign_read |-> {"if_match", "if_none_match"},
   blocking_stat |-> {"version"}, blocking_read |-> {"version"}]
PartsAsked ==
  [multi |-> {"content_type", "content_disposition"}, append |-> {"content_type", "cache_control"}]
Requests == INSTANCE ServiceRequests
WithOptions == DOMAIN Requests!AllServices

(* Services by what they do.                                                 *)
Overwriting ==
  {"azblob", "cos", "gcs", "lakefs", "obs", "oss", "s3", "swift", "upyun", "b2",
   "vercel_blob", "azdls", "azfile", "webdav", "pcloud", "yandex_disk"}
DeletingOnce ==
  {"azblob", "cos", "gcs", "lakefs", "obs", "oss", "s3", "swift", "upyun", "b2",
   "ghac", "chainsafe", "github", "azdls", "azfile", "webdav", "pcloud",
   "yandex_disk", "dropbox", "onedrive", "seafile", "alluxio", "webhdfs",
   "dbfs", "koofr", "gdrive", "sftp", "ftp", "hdfs_native"}
WithDirs ==
  {"upyun", "chainsafe", "github", "azdls", "azfile", "webdav", "pcloud",
   "yandex_disk", "dropbox", "onedrive", "ipmfs", "alluxio", "webhdfs", "dbfs",
   "koofr", "gdrive", "aliyun_drive", "fs", "monoiofs", "compfs", "sftp", "ftp",
   "hdfs", "hdfs_native"}
Discerning ==
  {"azblob", "azdls", "azfile", "b2", "chainsafe", "cos", "dbfs", "dropbox",
   "gcs", "gdrive", "ghac", "github", "http", "huggingface", "ipfs", "koofr",
   "lakefs", "obs", "onedrive", "oss", "s3", "supabase", "swift", "upyun",
   "vercel_artifacts", "vercel_blob", "webhdfs", "libsql", "sftp", "fs"}
HeedingRateLimits == {"b2", "dropbox", "gcs", "ghac"}
AtTheEdge ==
  {"b2", "chainsafe", "cloudflare_kv", "compfs", "cos", "d1", "dashmap", "etcd",
   "fs", "ftp", "ghac", "github", "http", "huggingface", "icloud", "ipmfs",
   "koofr", "lakefs", "libsql", "memory", "mongodb", "monoiofs", "mysql",
   "nebula_graph", "obs", "oss", "pcloud", "postgresql", "redis", "seafile",
   "sftp", "sqlite", "surrealdb", "tikv", "upyun", "vercel_blob", "webdav",
   "yandex_disk"}
Buildable ==
  {"aliyun_drive", "alluxio", "azblob", "azdls", "azfile", "b2", "cacache",
   "chainsafe", "cloudflare_kv", "compfs", "d1", "dashmap", "dbfs", "dropbox",
   "etcd", "foundationdb", "fs", "ftp", "gcs", "gdrive", "ghac", "github",
   "gridfs", "hdfs", "http", "huggingface", "icloud", "ipfs", "ipmfs", "koofr",
   "lakefs", "libsql", "memcached", "memory", "mini_moka", "moka", "mongodb",
   "monoiofs", "mysql", "nebula_graph", "obs", "onedrive", "oss", "pcloud",
   "persy", "postgresql", "redb", "redis", "rocksdb", "s3", "seafile", "sftp",
   "sled", "sqlite", "supabase", "surrealdb", "swift", "tikv", "upyun",
   "vercel_artifacts", "vercel_blob", "webdav", "webhdfs", "yandex_disk"}
Unheeded ==
  {"batch_max_operations", "default_ttl", "time_to_live", "time_to_idle"}

(* The layers with the objects that they observe as they say.                *)
Objects == {"none", "reader", "writer", "lister", "deleter"}
Watched ==
  ({"metrics", "await_tree", "async_backtrace", "dtrace"} \X {"async", "blocking"} \X Objects)
    \cup ({"tracing", "fastrace"} \X {"async"} \X (Objects \ {"writer"}))
    \cup ({"tracing", "fastrace"} \X {"blocking"} \X Objects)
    \cup ({"logging"} \X {"async"} \X Objects)
    \cup ({"logging"} \X {"blocking"} \X {"reader", "deleter"})
    \cup ({"error_context"} \X {"async"} \X Objects)
    \cup ({"error_context"} \X {"blocking"} \X (Objects \ {"deleter"}))

(* Paths that start with a letter and have no two slashes in a row, as       *)
(* normalize_path makes them, and the empty one.                             *)
Normalized(p) ==
  p[1] # "/" /\ \A i \in 1..(Len(p) - 1) : ~(p[i] = "/" /\ p[i + 1] = "/")
ObservedPaths ==
  {<<>>} \cup UNION {{p \in [1..n -> {"a", "b", "/"}] : Normalized(p)} : n \in 1..3}

-----------------------------------------------------------------------------
(* Conditions on single requests of every service, an answer is lost.      *)
Asking == INSTANCE ConditionalOps WITH
  Names <- WithOptions, Asked <- ConditionsAsked,
  Ranges <- {"full", "from", "part"}, CapabilityCheck <- FALSE, MaxVersion <- 3,
  MaxLost <- 1,
  service <- v1, conf <- v2, versions <- v3, cur <- v4, kept <- v5, op <- v6,
  lost <- v7

(* Attributes of single writes, presigned and blocking calls.  b2 signs    *)
(* requests without the options of the caller.                             *)
Describing == INSTANCE ConditionalOps WITH
  Names <- WithOptions \ {"b2"}, Asked <- AttributesAsked, Ranges <- {"full"},
  CapabilityCheck <- TRUE, MaxVersion <- 2, MaxLost <- 0,
  service <- v1, conf <- v2, versions <- v3, cur <- v4, kept <- v5, op <- v6,
  lost <- v7

(* Attributes of uploads in parts and of appends, of the services that     *)
(* keep the type and the disposition they declare.                         *)
InParts == INSTANCE ConditionalOps WITH
  Names <- {"s3", "oss", "cos", "obs", "b2", "upyun", "vercel_blob"},
  Asked <- PartsAsked, Ranges <- {"full"}, CapabilityCheck <- FALSE,
  MaxVersion <- 3, MaxLost <- 0,
  service <- v1, conf <- v2, versions <- v3, cur <- v4, kept <- v5, op <- v6,
  lost <- v7

(* Deletes in a batch, an answer is lost.                                  *)
Batches == INSTANCE ConditionalOps WITH
  Names <- {"s3", "gcs", "azblob"}, Asked <- [batch |-> {"version"}],
  Ranges <- {"full"}, CapabilityCheck <- FALSE, MaxVersion <- 3, MaxLost <- 1,
  service <- v1, conf <- v2, versions <- v3, cur <- v4, kept <- v5, op <- v6,
  lost <- v7

(* The services that report what became of a copy, a rename or a delete.   *)
Moves == INSTANCE ServiceMoves WITH
  Names <- Overwriting \cup {"koofr", "gdrive", "aliyun_drive", "fs",
  "fs_blocking", "monoiofs", "sftp", "hdfs", "hdfs_blocking"},
  Ops <- {"copy", "rename", "delete"}, Parents <- BOOLEAN,
  Faults <- {"before", "after"}, MaxRetries <- 2, MaxRivals <- 0,
  service <- v1, op <- v2, first <- v3, store <- v4, pc <- v5, retries <- v6,
  rivals <- v7, result <- v8

(* The services that copy and rename in one request.                       *)
SafeMoves == INSTANCE ServiceMoves WITH
  Names <- Overwriting \cup {"dropbox", "alluxio", "hdfs_native"},
  Ops <- {"copy", "rename"}, Parents <- BOOLEAN, Faults <- {"before", "after"},
  MaxRetries <- 2, MaxRivals <- 0,
  service <- v1, op <- v2, first <- v3, store <- v4, pc <- v5, retries <- v6,
  rivals <- v7, result <- v8

(* Deletes that race.                                                      *)
Deletes == INSTANCE ServiceMoves WITH
  Names <- DeletingOnce, Ops <- {"delete"}, Parents <- {TRUE},
  Faults <- {"before", "after"}, MaxRetries <- 2, MaxRivals <- 1,
  service <- v1, op <- v2, first <- v3, store <- v4, pc <- v5, retries <- v6,
  rivals <- v7, result <- v8

(* Directories that two clients create.                                    *)
CreateDirs == INSTANCE ServiceMoves WITH
  Names <- WithDirs, Ops <- {"create_dir"}, Parents <- BOOLEAN,
  Faults <- {"before", "after"}, MaxRetries <- 2, MaxRivals <- 1,
  service <- v1, op <- v2, first <- v3, store <- v4, pc <- v5, retries <- v6,
  rivals <- v7, result <- v8

(* The services that tell temporary errors from others.                    *)
Errors == INSTANCE ServiceErrors WITH
  Names <- Discerning, Throttled <- HeedingRateLimits, MaxRetries <- 2, MaxOutages <- 3,
  service <- v1, op <- v2, condition <- v3, truth <- v4, retries <- v5,
  spoilt <- v6, sent <- v7, result <- v8, limited <- v9

(* Every service with a parser of errors.                                  *)
AllErrors == INSTANCE ServiceErrors WITH
  Names <- Discerning \cup {"webdav", "cloudflare_kv", "d1", "aliyun_drive",
  "alluxio", "ipmfs", "pcloud", "seafile", "yandex_disk", "hdfs_native"},
  Throttled <- HeedingRateLimits, MaxRetries <- 1, MaxOutages <- 2,
  service <- v1, op <- v2, condition <- v3, truth <- v4, retries <- v5,
  spoilt <- v6, sent <- v7, result <- v8, limited <- v9

(* Every service but three, with values that are valid, do not parse, or   *)
(* have no host.                                                           *)
Builders == INSTANCE ServiceBuilders WITH
  Services <- Buildable, Values <- {"v", "bad", "nohost"}, Numbers <- {"n"},
  LeftAlone <- Unheeded, MaxCalls <- 2,
  service <- v1, config <- v2, custom <- v3, asked <- v4, calls <- v5,
  result <- v6

(* Empty values, trailing slashes and zeros, where the setters and the map *)
(* take them alike.                                                        *)
EdgeBuilders == INSTANCE ServiceBuilders WITH
  Services <- AtTheEdge, Values <- {"", "v", "v/"}, Numbers <- {"0", "n"},
  LeftAlone <- Unheeded, MaxCalls <- 2,
  service <- v1, config <- v2, custom <- v3, asked <- v4, calls <- v5,
  result <- v6

(* The layers that observe, each with what it can get, and, as a part of   *)
(* its own, two observations of paths of up to three characters.           *)
Observed == INSTANCE Observers WITH
  Cases <- Watched, MaxCalls <- 4, Word <- 8,
  Inputs <- {<<"a", "">>, <<"a", "v">>, <<"b", "">>},
  Interceptors <- {"prometheus", "prometheus_client", "metrics", "otel"},
  Paths <- ObservedPaths, MaxLevel <- 3, MaxObservations <- 2,
  layer <- v1, mode <- v2, object <- v3, opened <- v4, running <- v5,
  size <- v6, calls <- v7, events <- v8, count <- v9, queued <- v10,
  spans <- v11, moved <- v12, buffer <- v13, given <- v14,
  kind <- v1, level <- v2, series <- v3, seen <- v4

ASSUME Assumptions ==
  /\ Asking!OptionsAssumption /\ Describing!OptionsAssumption
  /\ InParts!OptionsAssumption /\ Batches!OptionsAssumption
  /\ Moves!ServiceMovesAssumption /\ SafeMoves!ServiceMovesAssumption
  /\ Deletes!ServiceMovesAssumption /\ CreateDirs!ServiceMovesAssumption
  /\ Errors!ServiceErrorsAssumption /\ AllErrors!ServiceErrorsAssumption
  /\ Builders!ServiceBuildersAssumption /\ EdgeBuilders!ServiceBuildersAssumption
  /\ Observed!ObserversAssumption

-----------------------------------------------------------------------------
Init ==
  \/ part = "conditions" /\ Asking!Init /\ Fresh(7)
  \/ part = "attributes" /\ Describing!Init /\ Fresh(7)
  \/ part = "parts" /\ InParts!Init /\ Fresh(7)
  \/ part = "batch" /\ Batches!Init /\ Fresh(7)
  \/ part = "moves" /\ Moves!Init /\ Fresh(8)
  \/ part = "moves_safe" /\ SafeMoves!Init /\ Fresh(8)
  \/ part = "deletes" /\ Deletes!Init /\ Fresh(8)
  \/ part = "create_dirs" /\ CreateDirs!Init /\ Fresh(8)
  \/ part = "errors" /\ Errors!Init /\ Fresh(9)
  \/ part = "errors_all" /\ AllErrors!Init /\ Fresh(9)
  \/ part = "builders" /\ Builders!Init /\ Fresh(6)
  \/ part = "builders_edges" /\ EdgeBuilders!Init /\ Fresh(6)
  \/ part = "observers" /\ Observed!Init /\ Fresh(14)
  \/ part = "labels" /\ Observed!LabelsInit /\ Fresh(4)

(* Where a system may stop.                                                *)
Stops ==
  /\ part \in {"conditions", "attributes", "parts", "batch", "moves", "moves_safe", "deletes",
              "create_dirs", "errors", "errors_all", "builders", "builders_edges",
              "observers", "labels"}
  /\ UNCHANGED vars

Next ==
  \/ part = "conditions" /\ Asking!Next /\ Rest(7)
  \/ part = "attributes" /\ Describing!Next /\ Rest(7)
  \/ part = "parts" /\ InParts!Next /\ Rest(7)
  \/ part = "batch" /\ Batches!Next /\ Rest(7)
  \/ part = "moves" /\ Moves!Next /\ Rest(8)
  \/ part = "moves_safe" /\ SafeMoves!Next /\ Rest(8)
  \/ part = "deletes" /\ Deletes!Next /\ Rest(8)
  \/ part = "create_dirs" /\ CreateDirs!Next /\ Rest(8)
  \/ part = "errors" /\ Errors!Next /\ Rest(9)
  \/ part = "errors_all" /\ AllErrors!Next /\ Rest(9)
  \/ part = "builders" /\ Builders!Next /\ Rest(6)
  \/ part = "builders_edges" /\ EdgeBuilders!Next /\ Rest(6)
  \/ part = "observers" /\ Observed!Next /\ Rest(14)
  \/ part = "labels" /\ Observed!LabelsNext /\ Rest(4)
  \/ Stops

Spec == Init /\ [][Next]_vars

-----------------------------------------------------------------------------
(* An operation that succeeded honoured its options: the conditions and the *)
(* version hold of whatever it read or replaced, in every request it takes, *)
(* a read returns the range, a write stores the attributes the service      *)
(* declares, and a delete of a version removes that version and no other;   *)
(* while another client writes and deletes and answers are lost.  (azdls    *)
(* checks a condition when it creates the file and not when it brings the   *)
(* content, so that ContentWhereChecked does not hold.)                     *)
OptionsAreHonoured ==
  /\ part = "conditions" =>
       Asking!ConditionsHeld /\ Asking!RangeIsRead /\ Asking!ThatVersionGone
  /\ part = "attributes" => Describing!ConditionsHeld /\ Describing!AttributesKept
  /\ part = "parts" => InParts!AttributesKept
  /\ part = "batch" => Batches!ThatVersionGone

(* Copy, rename, delete and create_dir that RetryLayer may start over after *)
(* any request: what is answered is true of the paths, and where one        *)
(* request does the work neither the source nor the old target is lost.     *)
MovesAreSafe ==
  /\ part = "moves" => /\ Moves!MissingSource /\ Moves!OkMeansMoved /\ Moves!MoveSucceeds
                       /\ Moves!DeleteIdempotent
  /\ part = "moves_safe" => SafeMoves!SourceNeverLost /\ SafeMoves!TargetOldOrNew
  /\ part = "deletes" => Deletes!DeleteIdempotent
  /\ part = "create_dirs" => CreateDirs!CreateDirIdempotent

(* What the caller is told about an object is true although the server and  *)
(* the network fail: parse_error, HttpBody and RetryLayer never turn an     *)
(* outage into a verdict, survive as many failures as they have retries,    *)
(* and do not repeat what will not change.                                  *)
ErrorsTellTheTruth ==
  /\ part = "errors" => /\ Errors!NoFalseVerdict /\ Errors!OutageIsSurvived
                        /\ Errors!PermanentIsNotRetried
  /\ part = "errors_all" => AllErrors!NoFalseVerdict

(* The setters of a builder and the map of Operator::from_iter lead to the  *)
(* same operator or the same refusal, an invalid configuration is reported  *)
(* and does not panic, and no operator runs without a required option.      *)
BuildersAgree ==
  /\ part = "builders" =>
       Builders!RoutesAgree /\ Builders!InvalidIsReported /\ Builders!RequiredIsThere
  /\ part = "builders_edges" => EdgeBuilders!RoutesAgree /\ EdgeBuilders!RequiredIsThere

(* What the layers that observe say is so: every call, its end, its errors  *)
(* and its bytes, once and under its name, also when futures are dropped,   *)
(* and each observation in the series of its directory.                     *)
ObservationsAreTrue ==
  /\ part = "observers" =>
       /\ Observed!QueuedCoversBuffer /\ Observed!TotalsAreTrue /\ Observed!EveryCallIsSeen
       /\ Observed!LoggedToTheEnd /\ Observed!ErrorsNameTheOperation /\ Observed!WorkInsideSpan
  /\ part = "labels" => Observed!LabelsFit /\ Observed!SeriesAreDirectories
=============================================================================
