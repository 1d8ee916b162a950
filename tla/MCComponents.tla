---------------------------- MODULE MCComponents -----------------------------
(***************************************************************************)
(* The writers, the readers, the listers and Buffer, and what several       *)
(* callers share (a key-value store, the connections to one, a semaphore,   *)
(* the path cache of a drive); each on small instances.  A behaviour is of  *)
(* one part, which the variable part names and which never changes; v1, v2, *)
(* ... stand for the variables of its module, in their order.               *)
(***************************************************************************)
EXTENDS Naturals, TLC

CONSTANTS
  NoSize, NoData, NoObject, NoFile, Old, Empty, Missing, a, b, w1, w2, k1, k2, t1, t2,
  u1, u2, u3, u4, Unused     \* model values

VARIABLES
  part,     \* the part this behaviour is of
  v1, v2, v3, v4, v5, v6, v7, v8, v9, v10, v11, v12, v13, v14, v15, v16, v17, v18

vars == <<part, v1, v2, v3, v4, v5, v6, v7, v8, v9, v10, v11, v12, v13, v14, v15, v16, v17, v18>>

(* A part with n variables leaves those after the n-th alone.               *)
Fresh(n) ==
  /\ (n < 8 => v8 = Unused) /\ (n < 9 => v9 = Unused) /\ (n < 10 => v10 = Unused)
  /\ (n < 11 => v11 = Unused) /\ (n < 12 => v12 = Unused) /\ (n < 13 => v13 = Unused)
  /\ (n < 14 => v14 = Unused) /\ (n < 15 => v15 = Unused) /\ (n < 16 => v16 = Unused)
  /\ (n < 17 => v17 = Unused) /\ (n < 18 => v18 = Unused)

Rest(n) ==
  /\ UNCHANGED part
  /\ (n < 8 => UNCHANGED v8) /\ (n < 9 => UNCHANGED v9) /\ (n < 10 => UNCHANGED v10)
  /\ (n < 11 => UNCHANGED v11) /\ (n < 12 => UNCHANGED v12) /\ (n < 13 => UNCHANGED v13)
  /\ (n < 14 => UNCHANGED v14) /\ (n < 15 => UNCHANGED v15) /\ (n < 16 => UNCHANGED v16)
  /\ (n < 17 => UNCHANGED v17) /\ (n < 18 => UNCHANGED v18)

(* Keys with a common prefix, nested ones, and one with a "_".              *)
FileKeys ==
  {<<"a">>, <<"a", "b">>, <<"a", "/", "b">>, <<"a", "/", "b", "/", "a">>, <<"_", "/", "a">>}
DirKeys == {<<>>, <<"a", "/">>, <<"a", "/", "b", "/">>}
ListedPaths == {<<>>, <<"a">>, <<"a", "/">>, <<"_", "/">>}

(* The stores with one atomic request for each of get, set and delete.      *)
AtomicStores ==
  {"memory", "dashmap", "moka", "mini_moka", "sled", "rocksdb", "redb", "cacache",
   "etcd", "redis", "memcached", "tikv", "mysql", "postgresql", "sqlite", "libsql",
   "d1", "mongodb", "surrealdb", "cloudflare_kv"}

(* What the users of the semaphore do.                                      *)
UserKind == u1 :> "chunked" @@ u2 :> "remove_all" @@ u3 :> "blocking" @@ u4 :> "stream"

(* A file in a directory, and one in a directory below.                     *)
DriveDirs == {<<>>, <<"d/">>, <<"d/", "e/">>}
DriveFiles == {<<"d/", "f">>, <<"d/", "e/", "g">>}

-----------------------------------------------------------------------------
(* No chunk from the user: chunks of at least the three bytes the service  *)
(* asks for.                                                               *)
Inexact == INSTANCE Writer WITH
  Chunk <- NoSize, MinSize <- 3, MaxSize <- NoSize, Lengths <- {1, 2, 4},
  MaxBytes <- 9,
  buffer <- v1, committed <- v2, sizes <- v3, writer <- v4, call <- v5,
  bs <- v6, offered <- v7, taken <- v8, failed <- v9

(* Neither a chunk nor a least size: every buffer is handed down as it     *)
(* comes.                                                                  *)
Direct == INSTANCE Writer WITH
  Chunk <- NoSize, MinSize <- NoSize, MaxSize <- NoSize, Lengths <- {1, 2},
  MaxBytes <- 6,
  buffer <- v1, committed <- v2, sizes <- v3, writer <- v4, call <- v5,
  bs <- v6, offered <- v7, taken <- v8, failed <- v9

(* A chunk of 0 bytes, which no least size of the service corrects.        *)
ZeroChunk == INSTANCE Writer WITH
  Chunk <- 0, MinSize <- NoSize, MaxSize <- 4, Lengths <- {0, 1, 2},
  MaxBytes <- 6,
  buffer <- v1, committed <- v2, sizes <- v3, writer <- v4, call <- v5,
  bs <- v6, offered <- v7, taken <- v8, failed <- v9

(* A FlexBuf of two in front of exact chunks of three: a frozen buffer     *)
(* fills a chunk only in part, and a chunk spans two of them.              *)
Async == INSTANCE FlexWriter WITH
  Chunk <- 3, MinSize <- NoSize, MaxSize <- NoSize, Cap <- 2, Lengths <- {1, 3},
  MaxBytes <- 7,
  buffer <- v1, committed <- v2, sizes <- v3, writer <- v4, flex <- v5,
  frozen <- v6, sink <- v7, sbuf <- v8, op <- v9, slice <- v10, taken <- v11,
  failed <- v12, w <- v13, panicked <- v14

(* A FlexBuf of two in front of chunks of at least three.                  *)
Std == INSTANCE FlexWriter WITH
  Chunk <- NoSize, MinSize <- 3, MaxSize <- NoSize, Cap <- 2,
  Lengths <- {0, 1, 3}, MaxBytes <- 7,
  buffer <- v1, committed <- v2, sizes <- v3, writer <- v4, flex <- v5,
  frozen <- v6, w <- v7, op <- v8, slice <- v9, taken <- v10, failed <- v11,
  panicked <- v12, sink <- v13, sbuf <- v14

(* One slot: tasks run inside the call of execute.                         *)
TasksInline == INSTANCE TaskCaller WITH
  Concurrent <- 1, Input <- {a, b}, MaxSubmits <- 4,
  tasks <- v1, results <- v2, errored <- v3, exec <- v4, input <- v5,
  call <- v6, submitted <- v7, delivered <- v8, unrecoverable <- v9

(* One slot: write_part runs inside write and close.                       *)
MultipartInline == INSTANCE MultipartWriter WITH
  Concurrent <- 1, Data <- {a, b}, MaxWrites <- 4, MaxUploads <- 2,
  tasks <- v1, results <- v2, errored <- v3, exec <- v4, input <- v5,
  upload_id <- v6, parts <- v7, cache <- v8, next_part_number <- v9,
  inner <- v10, pc <- v11, bs <- v12, accepted <- v13, discarded <- v14,
  uploads <- v15, stored <- v16, sent <- v17, object <- v18

(* Two slots, three writes, and two requests that take effect unnoticed.   *)
Azblob == INSTANCE BlockWriter WITH
  Concurrent <- 2, Data <- {a, b}, Webhdfs <- FALSE, MaxWrites <- 3,
  MaxBlocks <- 4, Late <- TRUE, MaxLost <- 2,
  tasks <- v1, results <- v2, errored <- v3, exec <- v4, input <- v5,
  started <- v6, block_ids <- v7, cache <- v8, inner <- v9, pc <- v10,
  bs <- v11, made <- v12, accepted <- v13, discarded <- v14, sent <- v15,
  lost <- v16, files <- v17, object <- v18

(* Inline and without lost answers: what webhdfs commits in three          *)
(* requests.                                                               *)
WebhdfsBlocks == INSTANCE BlockWriter WITH
  Concurrent <- 1, Data <- {a, b}, Webhdfs <- TRUE, MaxWrites <- 3,
  MaxBlocks <- 4, Late <- FALSE, MaxLost <- 0,
  tasks <- v1, results <- v2, errored <- v3, exec <- v4, input <- v5,
  started <- v6, block_ids <- v7, cache <- v8, inner <- v9, pc <- v10,
  bs <- v11, made <- v12, accepted <- v13, discarded <- v14, sent <- v15,
  lost <- v16, files <- v17, object <- v18

(* Two appenders of one file, asynchronous and in place.                   *)
FsAppend == INSTANCE FsWriter WITH
  Writers <- {w1, w2}, Atomic <- FALSE, Append_ <- TRUE, Blocking <- FALSE,
  Deferred <- FALSE, MaxCalls <- 2,
  target <- v1, content <- v2, f <- v3, tmp_path <- v4, failed <- v5, pc <- v6,
  rest <- v7, calls <- v8, acked <- v9

(* One blocking writer, with atomic_write_dir.                             *)
FsAtomic == INSTANCE FsWriter WITH
  Writers <- {w1}, Atomic <- TRUE, Append_ <- FALSE, Blocking <- TRUE,
  Deferred <- FALSE, MaxCalls <- 3,
  target <- v1, content <- v2, f <- v3, tmp_path <- v4, failed <- v5, pc <- v6,
  rest <- v7, calls <- v8, acked <- v9

(* One appender whose writes fail in the background, aborts included.      *)
FsDeferred == INSTANCE FsWriter WITH
  Writers <- {w1}, Atomic <- TRUE, Append_ <- TRUE, Blocking <- FALSE,
  Deferred <- TRUE, MaxCalls <- 3,
  target <- v1, content <- v2, f <- v3, tmp_path <- v4, failed <- v5, pc <- v6,
  rest <- v7, calls <- v8, acked <- v9

(* Without atomic_write_dir, one write at a time.                          *)
InPlace == INSTANCE PositionWriter WITH
  Concurrent <- 1, Data <- {a, b}, Atomic <- FALSE, WriteAfterClose <- FALSE,
  MaxWrites <- 4,
  tasks <- v1, results <- v2, errored <- v3, exec <- v4, input <- v5,
  next_offset <- v6, cache <- v7, inner <- v8, pc <- v9, bs <- v10,
  accepted <- v11, discarded <- v12, closing <- v13, sent <- v14, file <- v15,
  synced <- v16, path <- v17

(* Two writers of one path; a buffer of three onedrive chunks.             *)
OneShot == INSTANCE OneShotWriter WITH
  Writers <- {w1, w2}, Services <- {"dbfs", "chainsafe", "vercel_artifacts",
  "lakefs", "ipmfs", "swift", "dropbox", "webdav", "koofr", "pcloud",
  "yandex_disk", "seafile", "github", "onedrive"}, Size <- 5,
  MAX_SIMPLE_SIZE <- 4, CHUNK_SIZE_FACTOR <- 2, MaxFiles <- 3,
  service <- v1, buffer <- v2, inner <- v3, todo <- v4, file_id <- v5,
  sha <- v6, received <- v7, given <- v8, closes <- v9, dir <- v10, files <- v11

(* The services with more than one visible step.                           *)
OneShotSteps == INSTANCE OneShotWriter WITH
  Writers <- {w1, w2}, Services <- {"azdls", "azfile", "gdrive"}, Size <- 5,
  MAX_SIMPLE_SIZE <- 4, CHUNK_SIZE_FACTOR <- 2, MaxFiles <- 3,
  service <- v1, buffer <- v2, inner <- v3, todo <- v4, file_id <- v5,
  sha <- v6, received <- v7, given <- v8, closes <- v9, dir <- v10, files <- v11

(* One writer at a time, with lost answers.                                *)
AppendAlone == INSTANCE AppendWriter WITH
  Writers <- {w1}, Services <- {"azblob", "azdls"}, MaxBuffers <- 4,
  MaxLost <- 3,
  service <- v1, offset <- v2, buffer <- v3, pc <- v4, acked <- v5, lost <- v6,
  object <- v7

(* webhdfs ignores the offset.                                             *)
AppendWebhdfs == INSTANCE AppendWriter WITH
  Writers <- {w1}, Services <- {"webhdfs"}, MaxBuffers <- 4, MaxLost <- 3,
  service <- v1, offset <- v2, buffer <- v3, pc <- v4, acked <- v5, lost <- v6,
  object <- v7

(* The default of three delays, every method of a wrapper and an accessor. *)
Retry == INSTANCE RetryLayer WITH
  MaxTimes <- 3, N <- 0, Width <- 1, Offsets <- {}, Sizes <- {},
  EmptyRange <- "empty", MaxFailures <- 0,
  inner <- v1, op <- v2, phase <- v3, tries <- v4, result <- v5, errors <- v6,
  dropped <- v7, asked <- v8, range <- v9, reader <- v10, announced <- v11,
  failures <- v12, out <- v13, ended <- v14

(* Three chunks, the last one short, two of them read at a time.           *)
Chunked == INSTANCE ChunkedReader WITH
  Chunk <- 2, Total <- 5, Concurrent <- 2, MaxFailures <- 2,
  tasks <- v1, results <- v2, errored <- v3, exec <- v4, input <- v5,
  offset <- v6, size <- v7, pc <- v8, done <- v9, lost <- v10, failures <- v11,
  out <- v12, failed <- v13, ended <- v14

(* One chunk at a time, inside the call.                                   *)
ChunkedInline == INSTANCE ChunkedReader WITH
  Chunk <- 2, Total <- 5, Concurrent <- 1, MaxFailures <- 2,
  tasks <- v1, results <- v2, errored <- v3, exec <- v4, input <- v5,
  offset <- v6, size <- v7, pc <- v8, done <- v9, lost <- v10, failures <- v11,
  out <- v12, failed <- v13, ended <- v14

(* Five bytes out of the middle of seven, in requests of two.              *)
Seeking == INSTANCE SeekReader WITH
  Chunk <- 2, N <- 7, Start <- 1, End <- 6, MaxSeek <- 3, ReadSizes <- {1, 3},
  MaxFailures <- 2,
  offset <- v1, size <- v2, reader <- v3, buf <- v4, pos <- v5, op <- v6,
  got <- v7, at <- v8, failures <- v9, broken <- v10

(* Files of up to four units that change twice while they are read.        *)
Local == INSTANCE LocalReader WITH
  Names <- {"fs", "fs_blocking", "hdfs", "hdfs_blocking", "sftp", "ftp",
  "compfs", "monoiofs"}, MaxLen <- 4, BufSize <- 2, MaxChanges <- 2,
  service <- v1, len <- v2, changes <- v3, offset <- v4, size <- v5, read <- v6,
  got <- v7, pc <- v8

(* A Buffer of up to three parts, none of them empty.                      *)
Buffers == INSTANCE Buffer WITH
  MaxBytes <- 6, MaxParts <- 3, EmptyParts <- FALSE,
  parts <- v1, size <- v2, idx <- v3, offset <- v4, bytes <- v5, copied <- v6,
  copying <- v7

(* With empty parts, which the constructors do not refuse.                 *)
BufferParts == INSTANCE Buffer WITH
  MaxBytes <- 4, MaxParts <- 4, EmptyParts <- TRUE,
  parts <- v1, size <- v2, idx <- v3, offset <- v4, bytes <- v5, copied <- v6,
  copying <- v7

(* The services that list each entry once and all of them.                 *)
Pages == INSTANCE PageLister WITH
  Services <- {"s3", "s3_versions", "oss", "oss_versions", "cos",
  "cos_versions", "obs", "gcs", "azblob", "azdls", "azfile", "b2", "gdrive",
  "onedrive", "upyun", "swift", "yandex_disk", "webhdfs", "alluxio",
  "chainsafe", "koofr", "huggingface", "pcloud", "dbfs", "webdav",
  "ipmfs", "seafile"}, MaxTotal <- 5, PageSize <- 2, MaxFailures <- 2,
  MaxOut <- 8,
  service <- v1, exists <- v2, total <- v3, done <- v4, token <- v5,
  entries <- v6, status <- v7, failures <- v8, out <- v9

(* Services that may return an entry twice.                                *)
PagesAll == INSTANCE PageLister WITH
  Services <- {"aliyun_drive", "ipfs", "vercel_blob", "s3_bare"}, MaxTotal <- 4,
  PageSize <- 2, MaxFailures <- 2, MaxOut <- 8,
  service <- v1, exists <- v2, total <- v3, done <- v4, token <- v5,
  entries <- v6, status <- v7, failures <- v8, out <- v9

(* Services that may return too little.                                    *)
PagesOnce == INSTANCE PageLister WITH
  Services <- {"dropbox", "github", "lakefs"}, MaxTotal <- 5, PageSize <- 2,
  MaxFailures <- 3, MaxOut <- 8,
  service <- v1, exists <- v2, total <- v3, done <- v4, token <- v5,
  entries <- v6, status <- v7, failures <- v8, out <- v9

(* Trees of up to three nodes; two calls fail and are repeated.            *)
Flat == INSTANCE FlatLister WITH
  MaxNodes <- 3, MaxFailures <- 2,
  parent <- v1, dirs <- v2, prefix <- v3, recursive <- v4, next_dir <- v5,
  active_lister <- v6, failures <- v7, status <- v8, out <- v9

(* Trees of up to four nodes; no call fails.                               *)
FlatAll == INSTANCE FlatLister WITH
  MaxNodes <- 4, MaxFailures <- 0,
  parent <- v1, dirs <- v2, prefix <- v3, recursive <- v4, next_dir <- v5,
  active_lister <- v6, failures <- v7, status <- v8, out <- v9

(* Stores whose scan is a prefix scan; keys change meanwhile.              *)
KeyLists == INSTANCE KvLister WITH
  Services <- {"memory", "dashmap", "moka", "mini_moka", "sled", "rocksdb",
  "etcd", "nebula_graph"}, Files <- FileKeys, Dirs <- DirKeys,
  Paths <- ListedPaths, MaxKeys <- 4, PageSize <- 2, MaxOps <- 1,
  scan <- v1, keys <- v2, path <- v3, recursive <- v4, visited <- v5,
  left <- v6, removing <- v7, status <- v8, ops <- v9, found <- v10,
  written <- v11, out <- v12

(* Two clients of one store, requests fail.                                *)
Kv == INSTANCE KvAdapter WITH
  Services <- AtomicStores \cup {"persy", "foundationdb", "nebula_graph",
  "atomicserver"}, Clients <- {1, 2}, MaxOps <- 3, MaxFailures <- 1,
  Keys <- {}, Tasks <- {}, MaxDrops <- 0, MaxRefused <- 0,
  service <- v1, records <- v2, gone <- v3, client <- v4, ops <- v5,
  failures <- v6, deletes <- v7, finished <- v8, superseded <- v9,
  store <- v10, pool <- v11, task <- v12, drops <- v13, refused <- v14, had <- v15

(* One client of every store.                                              *)
KvAlone == INSTANCE KvAdapter WITH
  Services <- AtomicStores \cup {"persy", "foundationdb", "gridfs",
  "nebula_graph", "atomicserver"}, Clients <- {1}, MaxOps <- 5, MaxFailures <- 0,
  Keys <- {}, Tasks <- {}, MaxDrops <- 0, MaxRefused <- 0,
  service <- v1, records <- v2, gone <- v3, client <- v4, ops <- v5,
  failures <- v6, deletes <- v7, finished <- v8, superseded <- v9,
  store <- v10, pool <- v11, task <- v12, drops <- v13, refused <- v14, had <- v15

(* Two writers of one key, a set that fails, and a reader.                 *)
KvObjects == INSTANCE KvObject WITH
  Writers <- {1, 2}, MaxWrites <- 2, MaxFailures <- 1, Ends <- {1, 2}, Open <- 100,
  typed <- v1, stored <- v2, buffer <- v3, value <- v4, inner <- v5,
  failures <- v6, range <- v7, chunked <- v8, reader <- v9, acked <- v10,
  out <- v11, seen <- v12

(* The server refuses a set; no task is dropped.                           *)
Memcached == INSTANCE KvAdapter WITH
  Services <- {"memcached"}, Clients <- {}, MaxFailures <- 0,
  Keys <- {k1, k2}, Tasks <- {t1, t2}, MaxOps <- 3, MaxDrops <- 0,
  MaxRefused <- 1,
  store <- v1, pool <- v2, task <- v3, ops <- v4, drops <- v5, refused <- v6,
  had <- v7, service <- v8, records <- v9, gone <- v10, client <- v11,
  failures <- v12, deletes <- v13, finished <- v14, superseded <- v15

(* Tasks are dropped.                                                      *)
MemcachedDrops == INSTANCE KvAdapter WITH
  Services <- {"memcached"}, Clients <- {}, MaxFailures <- 0,
  Keys <- {k1, k2}, Tasks <- {t1, t2}, MaxOps <- 3, MaxDrops <- 2,
  MaxRefused <- 0,
  store <- v1, pool <- v2, task <- v3, ops <- v4, drops <- v5, refused <- v6,
  had <- v7, service <- v8, records <- v9, gone <- v10, client <- v11,
  failures <- v12, deletes <- v13, finished <- v14, superseded <- v15

(* The users hold together at most two permits while they wait for         *)
(* another.                                                                *)
Limit == INSTANCE ConcurrentLimit WITH
  Users <- {u1, u2, u3, u4}, Kind <- UserKind, Permits <- 3, Concurrent <- 2,
  Chunks <- 3,
  free <- v1, queue <- v2, pc <- v3, shorts <- v4, opens <- v5, held <- v6,
  panicked <- v7

(* Two users of different files; a request may fail without effect.        *)
Drive == INSTANCE PathCacher WITH
  Files <- DriveFiles, Dirs <- DriveDirs, Callers <- {u1, u2},
  Contents <- {"a", "b"}, Locked <- TRUE, Disjoint <- TRUE, Trees <- FALSE,
  ListAlone <- TRUE, Lossy <- FALSE, MaxOps <- 3, MaxFails <- 1,
  drive <- v1, cache <- v2, holder <- v3, call <- v4, said <- v5, panic <- v6,
  begun <- v7, fails <- v8

(* Two users of the same files and trees; a request that fails may have    *)
(* taken effect.                                                           *)
LossyPaths == INSTANCE PathCacher WITH
  Files <- DriveFiles, Dirs <- DriveDirs, Callers <- {u1, u2},
  Contents <- {"a"}, Locked <- TRUE, Disjoint <- FALSE, Trees <- TRUE,
  ListAlone <- TRUE, Lossy <- TRUE, MaxOps <- 3, MaxFails <- 1,
  drive <- v1, cache <- v2, holder <- v3, call <- v4, said <- v5, panic <- v6,
  begun <- v7, fails <- v8

ASSUME WriterAssumptions ==
  /\ Inexact!SizesAreValid /\ Inexact!UserIsValid
  /\ Direct!SizesAreValid /\ Direct!UserIsValid
  /\ ZeroChunk!SizesAreValid /\ ZeroChunk!UserIsValid
  /\ Async!SizesAreValid /\ Async!FlexConstants
  /\ Std!SizesAreValid /\ Std!FlexConstants
  /\ Azblob!NoDataAssumption /\ Azblob!BlockBoundsAssumption /\ WebhdfsBlocks!BlockBoundsAssumption
  /\ FsAppend!FsAssumption /\ FsAtomic!FsAssumption /\ FsDeferred!FsAssumption
  /\ InPlace!PositionConstants
  /\ OneShot!OneShotAssumption /\ OneShotSteps!OneShotAssumption
  /\ AppendAlone!AppendConstants /\ AppendWebhdfs!AppendConstants

ASSUME ReaderAssumptions ==
  /\ Retry!RetryConstants
  /\ Chunked!ReadConstants /\ ChunkedInline!ReadConstants
  /\ Seeking!ChunkAssumption /\ Seeking!SeekAssumption
  /\ Local!LocalReaderAssumption
  /\ Buffers!BufferAssumption /\ BufferParts!BufferAssumption
  /\ Pages!PageAssumption /\ PagesAll!PageAssumption /\ PagesOnce!PageAssumption
  /\ Flat!FlatAssumption /\ FlatAll!FlatAssumption
  /\ KeyLists!KvListAssumption

ASSUME SharedAssumptions ==
  /\ Kv!KvAssumption /\ KvAlone!KvAssumption
  /\ KvObjects!KvObjectAssumption
  /\ Memcached!KvAssumption /\ MemcachedDrops!KvAssumption
  /\ Limit!LimitAssumption
  /\ Drive!PathCacherAssumption /\ LossyPaths!PathCacherAssumption

-----------------------------------------------------------------------------
Init ==
  \/ part = "inexact" /\ Inexact!Init /\ Fresh(9)
  \/ part = "direct" /\ Direct!Init /\ Fresh(9)
  \/ part = "zero_chunk" /\ ZeroChunk!Init /\ Fresh(9)
  \/ part = "async" /\ Async!Init /\ Fresh(12)
  \/ part = "std" /\ Std!StdInit /\ Fresh(12)
  \/ part = "tasks_inline" /\ TasksInline!Init /\ Fresh(9)
  \/ part = "multipart_inline" /\ MultipartInline!Init /\ Fresh(18)
  \/ part = "azblob" /\ Azblob!Init /\ Fresh(18)
  \/ part = "webhdfs" /\ WebhdfsBlocks!Init /\ Fresh(18)
  \/ part = "fs_append" /\ FsAppend!Init /\ Fresh(9)
  \/ part = "fs_atomic" /\ FsAtomic!Init /\ Fresh(9)
  \/ part = "fs_deferred" /\ FsDeferred!Init /\ Fresh(9)
  \/ part = "position_in_place" /\ InPlace!Init /\ Fresh(17)
  \/ part = "one_shot" /\ OneShot!Init /\ Fresh(11)
  \/ part = "one_shot_steps" /\ OneShotSteps!Init /\ Fresh(11)
  \/ part = "append_alone" /\ AppendAlone!Init /\ Fresh(7)
  \/ part = "append_webhdfs" /\ AppendWebhdfs!Init /\ Fresh(7)
  \/ part = "retry" /\ Retry!WrapperInit /\ Fresh(7)
  \/ part = "chunked" /\ Chunked!Init /\ Fresh(14)
  \/ part = "chunked_inline" /\ ChunkedInline!Init /\ Fresh(14)
  \/ part = "seek" /\ Seeking!Init /\ Fresh(10)
  \/ part = "local" /\ Local!Init /\ Fresh(8)
  \/ part = "buffer" /\ Buffers!Init /\ Fresh(7)
  \/ part = "buffer_parts" /\ BufferParts!Init /\ Fresh(7)
  \/ part = "pages" /\ Pages!Init /\ Fresh(9)
  \/ part = "pages_all" /\ PagesAll!Init /\ Fresh(9)
  \/ part = "pages_once" /\ PagesOnce!Init /\ Fresh(9)
  \/ part = "flat" /\ Flat!Init /\ Fresh(9)
  \/ part = "flat_all" /\ FlatAll!Init /\ Fresh(9)
  \/ part = "keys" /\ KeyLists!Init /\ Fresh(12)
  \/ part = "kv" /\ Kv!Init /\ Fresh(9)
  \/ part = "kv_alone" /\ KvAlone!Init /\ Fresh(9)
  \/ part = "kv_object" /\ KvObjects!Init /\ Fresh(12)
  \/ part = "memcached" /\ Memcached!ConnInit /\ Fresh(7)
  \/ part = "memcached_drops" /\ MemcachedDrops!ConnInit /\ Fresh(7)
  \/ part = "limit" /\ Limit!Init /\ Fresh(7)
  \/ part = "path_cache" /\ Drive!Init /\ Fresh(8)
  \/ part = "path_cache_lossy" /\ LossyPaths!Init /\ Fresh(8)

(* Where a system may stop.                                                *)
Stops ==
  /\ part \in {"one_shot", "one_shot_steps", "append_alone", "append_webhdfs", "local",
              "pages", "pages_all", "pages_once", "flat", "flat_all", "keys",
              "kv", "kv_alone", "kv_object", "memcached", "memcached_drops", "limit"}
  /\ UNCHANGED vars

Next ==
  \/ part = "inexact" /\ Inexact!Next /\ Rest(9)
  \/ part = "direct" /\ Direct!Next /\ Rest(9)
  \/ part = "zero_chunk" /\ ZeroChunk!Next /\ Rest(9)
  \/ part = "async" /\ Async!Next /\ Rest(12)
  \/ part = "std" /\ Std!StdNext /\ Rest(12)
  \/ part = "tasks_inline" /\ TasksInline!Next /\ Rest(9)
  \/ part = "multipart_inline" /\ MultipartInline!Next /\ Rest(18)
  \/ part = "azblob" /\ Azblob!Next /\ Rest(18)
  \/ part = "webhdfs" /\ WebhdfsBlocks!Next /\ Rest(18)
  \/ part = "fs_append" /\ FsAppend!Next /\ Rest(9)
  \/ part = "fs_atomic" /\ FsAtomic!Next /\ Rest(9)
  \/ part = "fs_deferred" /\ FsDeferred!Next /\ Rest(9)
  \/ part = "position_in_place" /\ InPlace!Next /\ Rest(17)
  \/ part = "one_shot" /\ OneShot!Next /\ Rest(11)
  \/ part = "one_shot_steps" /\ OneShotSteps!Next /\ Rest(11)
  \/ part = "append_alone" /\ AppendAlone!Next /\ Rest(7)
  \/ part = "append_webhdfs" /\ AppendWebhdfs!Next /\ Rest(7)
  \/ part = "retry" /\ Retry!WrapperNext /\ Rest(7)
  \/ part = "chunked" /\ Chunked!Next /\ Rest(14)
  \/ part = "chunked_inline" /\ ChunkedInline!Next /\ Rest(14)
  \/ part = "seek" /\ Seeking!Next /\ Rest(10)
  \/ part = "local" /\ Local!Next /\ Rest(8)
  \/ part = "buffer" /\ Buffers!Next /\ Rest(7)
  \/ part = "buffer_parts" /\ BufferParts!Next /\ Rest(7)
  \/ part = "pages" /\ Pages!Next /\ Rest(9)
  \/ part = "pages_all" /\ PagesAll!Next /\ Rest(9)
  \/ part = "pages_once" /\ PagesOnce!Next /\ Rest(9)
  \/ part = "flat" /\ Flat!Next /\ Rest(9)
  \/ part = "flat_all" /\ FlatAll!Next /\ Rest(9)
  \/ part = "keys" /\ KeyLists!Next /\ Rest(12)
  \/ part = "kv" /\ Kv!Next /\ Rest(9)
  \/ part = "kv_alone" /\ KvAlone!Next /\ Rest(9)
  \/ part = "kv_object" /\ KvObjects!Next /\ Rest(12)
  \/ part = "memcached" /\ Memcached!ConnNext /\ Rest(7)
  \/ part = "memcached_drops" /\ MemcachedDrops!ConnNext /\ Rest(7)
  \/ part = "limit" /\ Limit!Next /\ Rest(7)
  \/ part = "path_cache" /\ Drive!Next /\ Rest(8)
  \/ part = "path_cache_lossy" /\ LossyPaths!Next /\ Rest(8)
  \/ Stops

(* The steps of a call in progress: whoever awaits or polls a call polls it *)
(* to its end, and a list is asked for its next entry until it ends.        *)
CallRuns ==
  \/ part = "async" /\ Async!PollRuns /\ Rest(12)
  \/ part = "retry" /\ Retry!CallRuns /\ Rest(7)
  \/ part = "chunked" /\ Chunked!ReadRuns /\ Rest(14)
  \/ part = "seek" /\ Seeking!ReadRuns /\ Rest(10)
  \/ part = "local" /\ Local!ReadRuns /\ Rest(8)
  \/ part = "buffer" /\ Buffers!put /\ Rest(7)
  \/ part = "pages" /\ Pages!Next /\ Rest(9)
  \/ part = "flat" /\ Flat!Next /\ Rest(9)

(* The executor keeps every task moving.                                    *)
TaskEnds(k) == part = "chunked" /\ Chunked!TaskEnds(k) /\ Rest(14)

(* The semaphore of tokio hands a permit to the first in its queue, and     *)
(* everybody polls the call that is going on.                               *)
Grant == part = "limit" /\ Limit!Grant /\ Rest(7)

Runs(u) ==
  \/ part = "limit" /\ Limit!Runs(u) /\ Rest(7)
  \/ part = "path_cache_lossy" /\ u \in {u1, u2} /\ LossyPaths!Step(u) /\ Rest(8)

Spec ==
  /\ Init /\ [][Next]_vars
  /\ WF_vars(CallRuns) /\ \A k \in 1..2 : WF_vars(TaskEnds(k))
  /\ WF_vars(Grant) /\ \A u \in {u1, u2, u3, u4} : WF_vars(Runs(u))

-----------------------------------------------------------------------------
(* Until a call fails, every byte that was acknowledged is below or in a    *)
(* buffer on its way down; after failures and repeated calls too, no byte,  *)
(* buffer or part overtakes another or is written twice, and a chunk has    *)
(* the size the service asks for; once close has returned Ok, what was      *)
(* acknowledged is at the path, whole and in order, and no crash takes it   *)
(* away.  For WriteGenerator without exact chunks, the stages of            *)
(* FuturesAsyncWriter with polls given up half way, StdWriter, inline tasks *)
(* and parts, blocks committed by one request or by three, files that are   *)
(* appended to or written in place, and objects that are appended to.       *)
WritesAreExact ==
  /\ part = "inexact" => Inexact!BytesKeptInOrder /\ Inexact!ChunksHaveTheSize
  /\ part = "async" => Async!AcknowledgedIsKept /\ Async!TypeOK /\ Async!StagesInOrder
  /\ part = "std" => Std!StdAcknowledgedIsKept /\ Std!StdTypeOK /\ Std!StdStagesInOrder
  /\ part = "append_alone" => AppendAlone!AckedOnceInOrder
  /\ part = "append_webhdfs" => AppendWebhdfs!AckedOnceInOrder
  /\ part = "direct" => Direct!OrderKept
  /\ part = "zero_chunk" => ZeroChunk!BytesKeptInOrder /\ ZeroChunk!ChunksHaveTheSize
  /\ part = "tasks_inline" => TasksInline!FifoExactlyOnce
  /\ part = "multipart_inline" =>
       /\ MultipartInline!SentPartsAgree
       /\ MultipartInline!NoPartMismatch
       /\ MultipartInline!ClosedObjectIsComplete
  /\ part = "azblob" => Azblob!TypeOK
  /\ part = "fs_deferred" => FsDeferred!WritesInOrder
  /\ part = "webhdfs" => WebhdfsBlocks!ClosedObjectIsComplete
  /\ part = "fs_append" => FsAppend!ClosedIsInPlace
  /\ part = "position_in_place" => InPlace!ClosedIsDurable

(* No step shows a reader of the path something between the old content and *)
(* all of the new: blocks are committed at once, a renamed file never       *)
(* grows, a service written to in one request has the old content or a      *)
(* writer's whole one; and the step with which close returns Ok leaves all  *)
(* of it in place.                                                          *)
VisibleStepsAreWhole ==
  [][/\ part = "async" => Async!CloseLeavesNothing
     /\ part = "azblob" => Azblob!CommitsAtOnce
     /\ part = "fs_atomic" => FsAtomic!TargetNeverGrows
     /\ part = "one_shot" => OneShot!OldOrNew' /\ OneShot!ClosedIsWritten
     /\ part = "one_shot_steps" => OneShotSteps!ClosedIsWritten]_vars

(* What was read is the beginning of the range, in order, none missing and  *)
(* none twice: in whichever order chunks arrive, after seeks and after      *)
(* short reads of a changing file; and a Buffer stands for the bytes it was *)
(* made of, however it was advanced, cut, sliced and iterated.  An end that *)
(* is reported is the end: an empty buffer, a whole read and a copy mean    *)
(* that everything was delivered, and a file that has the range delivers    *)
(* it.  Only a dropped call breaks a RetryWrapper.                          *)
ReadsAreExact ==
  /\ part = "retry" => Retry!WrapperTypeOK /\ Retry!LostOnlyByDrop
  /\ part = "chunked" => Chunked!TypeOK /\ Chunked!ExactUntilError /\ Chunked!NeverGoesBack
  /\ part = "chunked_inline" => ChunkedInline!ExactUntilError
  /\ part = "seek" => Seeking!TypeOK /\ Seeking!StagesMeet
  /\ part = "local" => Local!PrefixOfRange /\ Local!WholeOrError /\ Local!ReadSucceeds
  /\ part = "buffer" =>
       /\ Buffers!StandsForBytes
       /\ Buffers!ChunkIsFront
       /\ Buffers!CountIsIteration
       /\ Buffers!CopyIsWhole
  /\ part = "buffer_parts" =>
       /\ BufferParts!StandsForBytes
       /\ BufferParts!CountIsIteration
       /\ BufferParts!CopyIsWhole

(* A list that ends has returned everything below its path, each once, and  *)
(* nested directories before their parents, although requests fail and are  *)
(* repeated; and remove_all has left nothing below its path that was there  *)
(* when it began.                                                           *)
ListsExactly ==
  /\ part = "pages" => Pages!EachEntryOnce /\ Pages!EndsComplete
  /\ part = "pages_all" => PagesAll!EndsComplete
  /\ part = "pages_once" => PagesOnce!EachEntryOnce
  /\ part = "flat" => Flat!NestedFirst
  /\ part = "flat_all" => FlatAll!ListsAll
  /\ part = "keys" => KeyLists!ListsLevel /\ KeyLists!RemovesAll

(* What a get, or a reader of a value, returns was stored under this key    *)
(* and not superseded before the call began: however sets, deletes and      *)
(* failed requests interleave, and whoever used the connection before.      *)
(* The stores that write a value in several requests promise it to a client *)
(* that is alone; v1 is the service of the kv parts.                        *)
ReadsWhatWasStored ==
  /\ part = "kv" /\ v1 \in AtomicStores \cup {"persy"} => Kv!Regular
  /\ part = "kv_alone" => KvAlone!Regular
  /\ part = "kv_object" => KvObjects!ReadWasThere
  /\ part = "memcached" => Memcached!GetsItsKey

(* An answer is true when it is given: a delete fails only if a request     *)
(* did, a set that succeeds was not refused, a response that is waited for  *)
(* is to come although tasks were dropped, a close that succeeds has stored *)
(* all that was acknowledged; no permit is lost; and a path of the drive    *)
(* stays one file with what the last answer said it holds.  A read answers  *)
(* with the bytes at the position where it began, a call has the retries of *)
(* its own backoff, all of them, and remove_all deletes only what its path  *)
(* is a prefix of.  (Two deletes of one key may disturb each other in       *)
(* persy.)                                                                  *)
AnswersAreTrue ==
  [][/\ part = "retry" => Retry!EveryCallGetsItsRetries'
     /\ part = "seek" => Seeking!ReadsWhereItIs
     /\ part = "keys" => KeyLists!RemovesBelow
     /\ part = "kv" /\ v1 # "persy" => Kv!DeleteIsOk'
     /\ part = "kv_alone" => KvAlone!DeleteIsOk'
     /\ part = "kv_object" => KvObjects!ClosedIsWhole
     /\ part = "memcached" => Memcached!AckedIsSet'
     /\ part = "memcached_drops" => MemcachedDrops!AnswerComes'
     /\ part = "limit" => Limit!EveryPermitIsSomewhere'
     /\ part = "path_cache" =>
          Drive!OneDirPerPath' /\ Drive!AssertionsHold' /\ Drive!DriveIsAsTold'
     /\ part = "path_cache_lossy" => LossyPaths!OneDirPerPath']_vars

(* Every call comes to an end: retries are bounded, pages are not gone      *)
(* round, no stage waits for itself, and nobody waits for ever for a permit *)
(* of ConcurrentLimitLayer or for the lock of the path cache.  (Its callers *)
(* are alike, so that u1 stands for all of them.)                           *)
Calling ==
  \/ part = "async" /\ Async!Polling
  \/ part = "retry" /\ Retry!Calling
  \/ part = "chunked" /\ Chunked!InPoll
  \/ part = "seek" /\ Seeking!Reading
  \/ part = "local" /\ Local!Reading
  \/ part = "buffer" /\ Buffers!Copying
  \/ part = "pages" /\ Pages!Listing
  \/ part = "flat" /\ Flat!Listing
  \/ part = "limit" /\ \E w \in {u1, u2, u3, u4} : Limit!Working(w)
  \/ part = "path_cache_lossy" /\ LossyPaths!Working(u1)

CallsReturn == Calling ~> ~Calling
=============================================================================
