# A TLA+ model of OpenDAL's core

OpenDAL (`src/core`) gives one interface to many storage services. A user
holds an `Operator`; a call on it becomes a value of a low-level trait
(`oio::Read`, `oio::Write`, `oio::List`, `oio::Delete`) that a service
implements, most often through one of the helpers of `src/core/src/raw/oio`,
and that a stack of layers (`src/core/src/layers`) wraps. The helpers and the
layers keep state across calls, run requests in the background, and must
survive requests that fail, that take effect although they failed, that are
repeated, and calls that are dropped half way, because a Rust future may be
dropped at every `await`. The services, some seventy of them, are sequences of
requests that the layers above start over, and tables (of errors, options,
capabilities) that must agree with each other.

This directory holds the modules (`*.tla`), the TLC configurations (`*.cfg`)
and `PROJECT.json`, which says which lines of the source every definition
stands for, what each run checks, and which mistakes the properties are known
to notice.

## 1. Inventory

| Component | State | Operations | What is hard | What makes it correct | Module |
|---|---|---|---|---|---|
| `ConcurrentTasks` (`raw/futures_util.rs`), `Executor`, `Task` | queue of tasks, results, `errored` | `execute`, `next`, `clear` | tasks end in any order; a call is dropped at an await; a temporary error restarts a task in place; capacity | order of submission, each output once; an error is final; calls return | `ConcurrentTasks`, `TaskCaller`, `OrderedQueue` |
| `MultipartWriter`, `CompleteWriter` | upload id, cache, parts, next part number, a `ConcurrentTasks`; `inner` | `write`, `close`, `abort` | retries, timeouts, late and repeated requests, lost answers, repeated and dropped calls | a successful close leaves what was acknowledged; nothing is ever half visible | `MultipartWriter`, `AtomicObject` |
| `BlockWriter`, `PositionWriter`, `AppendWriter`, `OneShotWriter`, the writer of `services/fs` | cache, block ids or offset, `ConcurrentTasks`, a file | `write`, `close`, `abort` | as for multipart, without numbers that identify a part; crashes; several writers of one path | as for multipart | the modules of these names |
| `WriteGenerator`, `Writer`, `FuturesAsyncWriter`, `BufferSink`, `StdWriter` | buffered bytes, chunk size, a `FlexBuf` | `write`, `flush`, `close`, `abort`, drop | a write that fails after the buffer was taken; polls given up half way | every acknowledged byte once, in order, chunks of the right size | `WriteGenerator`, `Writer`, `FlexWriter` |
| `Deleter`, `BatchDeleter`, `OneShotDeleter`, `FuturesDeleteSink` | count, set of queued paths, a future | `delete`, `flush`, `close`, the polls of the sink | partial failure of a batch; two counts of the same thing; a future that nobody polls | no path lost, batches within the limit, close ends and has deleted all | `Deleter`, `DeleteSink` |
| `ReadGenerator`, `ChunkedReader`, `BufferStream`, `FuturesAsyncReader`, `StdReader` | offset, size, `ConcurrentTasks`, `pos`, `buf` | `read`, `seek`, `fill_buf` | a range that is taken before its request succeeds; seeks between partial reads | every byte once, in order | `ReadGenerator`, `ChunkedReader`, `SeekReader` |
| `RetryLayer`, `TimeoutLayer`, `CompleteReader`, `HttpBody` | `inner: Option`, the range still to read | all of them | a call dropped by the timeout; resuming at an offset; bodies that are cut | a retry repeats nothing and skips nothing | `RetryLayer` |
| Readers of file systems | position, size | `read` | short reads, files that change | the whole range or an error | `LocalReader` |
| `Buffer` | parts, index, offset, size | `advance`, `slice`, `split`, `next`, `chunk`, `to_vec` | arithmetic at the end of a part | stands for its bytes | `Buffer` |
| `ConcurrentLimitLayer` | a semaphore | all of them | permits held while waiting for permits | no permit lost, no deadlock | `ConcurrentLimit` |
| Listers (`raw/oio/list`) | stack of open listers, visited set, page token | `next` | an error between two directories or pages | every entry once, all of them | `PageLister`, `FlatLister`, `KvLister` |
| kv and typed_kv adapters | buffered value, the store, a pool of connections | `get`, `set`, `delete`, `scan` | sets of several requests, several clients, connections that are reused | regular reads, answers that are true | `KvAdapter`, `KvObject`, `KvLister` |
| `PathCacher` and `gdrive` | path to id map, lock | `get`, `insert`, `remove`, `ensure_dir` and the operations of gdrive | concurrent callers, stale entries | one directory per path; the drive is as told | `PathCacher` |
| Options, `CorrectnessCheckLayer`, `CapabilityCheckLayer` | none | read, write, stat, delete with options | several requests of one operation; another client | an option is honoured or refused | `ServiceDeclarations`, `ServiceRequests`, `ConditionalOps` |
| Copy, rename, delete, `create_dir` of the services | the paths | the same | several requests, started over after any of them | the source is not lost; what is answered is true | `ServiceMoves` |
| `parse_error` of the services, `HttpClient` | none | | tables that matter only during an outage | an outage is survived and never becomes a verdict | `ServiceErrors` |
| Builders and configurations | the config | setters, `from_iter`, `via_iter`, `build` | three routes, sixty-seven services | the routes agree; what is required is there | `ServiceDeclarations`, `ServiceBuilders` |
| Logging, metrics, tracing, error context, ... | counters, spans, labels | all of them | thirty near-identical methods per layer, twice | what is recorded is what happened | `Observers` |

How they interact. The user calls one method at a time on a writer, reader,
lister or deleter (they take `&mut self`); the call runs down through the
layers to the helper and the service. Concurrency enters in two ways: a helper
hands futures to the `Executor`, which runs them in the background and whose
`Task` cancels its future when it is dropped; and several values share a
service, a semaphore, a pool of connections or a `PathCacher`. There are no
messages other than the requests to the service, no persistent state other
than the service's, and the only callbacks are futures.

The hazards are listed with their lines in `PROJECT.json`.

## 2. Plan

1. *Done.* `ConcurrentTasks` and its most general owner; `OrderedQueue` as its
   abstract specification.
2. *Done.* `MultipartWriter` on it, over a service; `AtomicObject` as its
   abstract specification.
3. *Done.* `Deleter` and, composed with it, `DeleteSink`.
4. *Done.* Proofs about these three.
5. *Done.* The other writers and what is in front of them: `BlockWriter`,
   `PositionWriter`, `FsWriter`, `AppendWriter`, `OneShotWriter`,
   `WriteGenerator`, `Writer`, `FlexWriter`.
6. *Done.* Reading: `RetryLayer`, `ChunkedReader`, `SeekReader`,
   `LocalReader`, `Buffer`.
7. *Done.* Listing: `PageLister`, `FlatLister`, `KvLister`.
8. *Done.* What callers share: `ConcurrentLimit`, `KvAdapter`, `KvObject`,
   `PathCacher`.
9. *Done.* The services and the layers that observe: `ServiceRequests`,
   `ConditionalOps`, `ServiceMoves`, `ServiceErrors`, `ServiceBuilders`,
   `Observers`.
10. *Done.* Proofs: `ConcurrentTasks` implements `OrderedQueue`; `DeleteSink`;
    `Writer`, `FlexWriter` (both writers), `AppendWriter`, `PositionWriter` and
    `RetryLayer`; `ChunkedReader`, `SeekReader` and `LocalReader`; `KvObject`
    and `KvAdapter` (the stores with one request per operation, and the
    connections); `PageLister`.
11. *Left.* `ConcurrentFutures`, the simulated `stat` of `CompleteLayer`,
    `immutable_index`.

## 3. Modules

Variables keep the names of the fields they stand for, actions those of the
methods; `pc`, `phase` or `exec` says at which `await` a call is suspended.
Between two awaits the code runs without interruption and is one action.

*Tasks and the multipart writer.*

* `ConcurrentTasks` has the state and the actions of `ConcurrentTasks<I, O>`
  and no specification of its own. `exec = "poll"` is the top of the loop of
  `execute`, `"await"` the `task.await`, `"inline"` the call of the factory
  without concurrency. Tasks end at any time (`TaskDone`).
* `TaskCaller` extends it with the most general owner: any call at any time,
  one at a time, any of them repeated or dropped. `OrderedQueue` is what
  `ConcurrentTasks` promises.
* `MultipartWriter` extends `ConcurrentTasks` with the writer, the wrapper
  `CompleteWriter`, the user, and a service: an upload is open, completed or
  aborted; a part replaces an earlier part of the same number; `complete_part`
  refuses parts it does not hold. A request that fails may have taken effect; a
  `write_part` that was issued may arrive later, or again (`PartArrives`).
  `accepted` and `discarded` are history variables. `AtomicObject` is what it
  promises.

*Deleting.* `Deleter` has `Deleter` and `BatchDeleter` over s3, oss and a
service that cannot delete versions. A path is a key and a version or none;
`FlushOk(S)` is a flush that deletes the paths `S`, `FlushFails` one that fails
as a whole or is dropped, `FlushFailsInPart` one that has deleted some paths
when it reports the error of another. What leaves the buffer is what the
service reports (`Reported`), which is without the version, and the count wraps
round at `Word`; `Exact` says that neither can make a difference: no version
was requested, or the limit is 1. `DeleteSink` extends it with the `Sink` around it: the
deleter runs only while a call of the sink polls the future the sink holds. In
`UserSpec` the user calls the deleter itself (`sink = "none"`) or the sink.

*The other writers.*

* `BlockWriter` on `ConcurrentTasks` over azblob (one request commits the
  list) and webhdfs (CONCAT, DELETE, RENAME). `MaxLost` requests take effect
  unknown to the writer.
* `PositionWriter` on `ConcurrentTasks` over fs, with `write_at` calls that
  cannot be cancelled and a machine that crashes; `FsWriter` is the sequential
  writer of fs, blocking or appending, several of them on one path.
* `AppendWriter` over the six services that append; `OneShotWriter` over the
  `write_once` of seventeen services, as the sequence of its requests.
* `WriteGenerator` cuts bytes into chunks, of 0 bytes too if the user asks for
  them; `Writer` loops over it. `FlexWriter`
  has the two writers that put a `FlexBuf` in front of it: `FuturesAsyncWriter`
  over `BufferSink` (`Spec`) and `StdWriter` (`StdSpec`). A byte is its number
  among the bytes offered.

*Reading and listing.*

* `RetryLayer` has, as `WrapperSpec`, the retries of every method and the
  `inner` that is moved into a future (`errors` is how the attempts of the last
  call failed), and, as `Spec`, `RetryReader` on them,
  which opens a reader again at the range that is left, over `CompleteReader`
  over `HttpBody`. `BytesRange::advance` keeps its width.
* `ReadGenerator` cuts a range into requests; `ChunkedReader` reads them with
  `ConcurrentTasks`; `SeekReader` has `FuturesAsyncReader` and `StdReader`.
* `LocalReader` has the readers of fs, hdfs, sftp, ftp, compfs and monoiofs
  under `CompleteReader`.
* `Buffer` is a state machine over its three numbers; `bytes` is the sequence
  it stands for, kept beside it as the reference.
* `PageLister` has `next_page` of every service with pages; `FlatLister` walks
  a tree under `PrefixLister`; `KvLister` lists and removes keys through the
  scans of the adapters, whose matching (prefix, LIKE, one page) it models.

*Shared state.*

* `KvAdapter` has get, set and delete of the 25 adapters as requests; a record
  is the number of the write that made it. Its second specification,
  `ConnSpec`, has the pool of connections to memcached. `KvObject` has
  `KvWriter`, stat and read of both backends.
* `ConcurrentLimit` has the semaphore and, per kind of user, how many permits
  it takes and holds.
* `PathCacher` has the cache, its lock, gdrive's operations, and the drive,
  in which two files of one folder may have the same name.

*Services and observers.*

* `ServiceDeclarations` holds the fields of every configuration and the
  declared capabilities; `ServiceRequests` what each request carries;
  `ConditionalOps` runs operations with options against a server that
  evaluates the conditions that reach it. A write to azdls and azfile is two
  requests, `Store` of an empty file and `Fill`, with other clients in between.
* `ServiceMoves`: an operation is the sequence of requests its function sends;
  any of them fails before or after its effect and `RetryLayer` starts over.
  What github finds with `get_file_sha` is kept in `sha` until its upload.
* `ServiceErrors`: `HttpClient`, `HttpBody` and the `parse_error` of each
  service under `RetryLayer`, during an outage. Every server may answer 429
  (`RateLimits`), whether the table of its service has it or not; `Throttled`
  are the services that must survive it.
* `ServiceBuilders`: setters, `from_iter`, `via_iter` and the build function of
  each service over classes of values.
* `Observers`: what nine layers record of every call and, as `LabelsSpec`, the
  series an observation goes to. The inner deleter is `BatchDeleter` over s3
  (`Does`, `FailsInPart`), versions included, and for blocking calls
  `OneShotDeleter`.

The modules `*_proof` hold the proofs. The assumptions about the constants of a
component are named definitions of its module (`FsAssumption`,
`RetryConstants`, ...), which the `MC` modules assume of every instance; where
something is proved, an `ASSUME` of the module states them.

Definitions whose names end in `Mutant` are plausible mistakes in the code.
They are not part of a specification; each is there to be put in the place of
the definition that follows it, to see that a property notices (section 4).

## 4. Runs

| Run | Configuration | Checks |
|---|---|---|
| `tasks_concurrent` | `TasksConcurrent.cfg` | order and the limit of tasks in flight, finality of errors, refinement of `OrderedQueue`, every call returns |
| `multipart` | `Multipart.cfg` | completeness after close, harmless retries, part numbers, nothing left behind, refinement of `AtomicObject`, every call returns |
| `deleter` | `Deleter.cfg` | with and without the sink: count and limit, nothing lost that the deleter or the sink accepted, a close that ran has deleted all, and returns if the count agrees; the count, the limit and close unless a batch may hold a version |
| `writer` | `Writer.cfg` | bytes are lost only by a failed call, stay in order, and go down in chunks of the right size; the loop of `write` ends |
| `append` | `Append.cfg` | two writers of one object over the six services, stale offsets, lost answers: no buffer twice or out of order but over webhdfs; over oss, cos and obs acknowledged buffers stay and nothing is overwritten |
| `position` | `Position.cfg` | the old file or all of the new one, a successful close is durable, through late writes and crashes |
| `chunked_read` | `Chunked.cfg` | a stream that reads its chunks concurrently returns the bytes in order, all of them until it returns an error, and never goes back |
| `retry` | `Retry.cfg` | a read that is retried and reopened is exact, its end is the end; `inner` is lost only by a drop; every call has all the retries of its own backoff and no more; every call returns |
| `components` | `Components.cfg` | the other writers, readers, listers and what callers share: acknowledged bytes are kept, in order, and visible whole; reads are exact, ends are ends, lists complete; answers of shared stores are true; calls end |
| `services` | `Services.cfg` | options, moves, errors, configuration, observations |
| `multipart_pending_write` | `MultipartPendingWrite.cfg` | violated: see section 7 |
| `deleter_close` | `DeleterClose.cfg` | violated: see section 7 |

The runs `components` and `services` put many small systems into one state
space. The module `MCComponents` (`MCServices`) instantiates each component with
constants of its own, once per *part*; the variable `part` is chosen at the
start and never changes, and `v1`, `v2`, ... stand for the variables of the
component, in their order. A property of such a run is the
conjunction, over the parts, of properties the components define and comment.

| Run | Parts |
|---|---|
| `components`, writing | `inexact`, `direct`, `zero_chunk` (`Writer` with chunks of at least a size, none, or of 0 bytes), `async`, `std`, `tasks_inline`, `multipart_inline` (without concurrency), `azblob`, `webhdfs`, `fs_append`, `fs_atomic`, `fs_deferred`, `position_in_place`, `one_shot`, `one_shot_steps`, `append_alone`, `append_webhdfs` |
| `components`, reading | `retry` (`WrapperSpec`), `chunked`, `chunked_inline`, `seek`, `local`, `buffer`, `buffer_parts`, `pages`, `pages_all`, `pages_once`, `flat`, `flat_all`, `keys` |
| `components`, shared | `kv`, `kv_alone`, `kv_object`, `memcached`, `memcached_drops`, `limit`, `path_cache`, `path_cache_lossy` |
| `services` | `conditions`, `attributes`, `parts`, `batch`, `moves`, `moves_safe`, `deletes`, `create_dirs`, `errors`, `errors_all`, `builders`, `builders_edges`, `observers`, `labels` |

A service that does not keep a property is left out of the part that checks it
and is named in section 7: `one_shot_steps` has the three services whose
`write_once` is visible in steps, `pages_all` and `pages_once` those that return
an entry twice or too few, `Overwriting`, `Discerning`, `HeedingRateLimits`,
`AtTheEdge` and the other sets of `MCServices` those that move, discern errors,
survive a 429 or treat edge values as documented.

Bounds. `Concurrent = 3` with five submissions makes a submission wait for the
front task twice over, with finished, failed and running tasks behind it. For
the multipart writer `Concurrent = 2` with four writes gives up to four parts,
one waiting; two buffers notice a part in the wrong place; `MaxUploads = 2` lets
an `initiate_part` whose answer was lost be repeated. For `ChunkedReader` seven
bytes in chunks of two, three at a time, fill the queue, keep a result back and
end with a short chunk; three failures let a task fail, be retried and fail
again while another is dropped. `Deleter` has no bound:
with three keys, one of them with a version, and batches of three a batch fails
in part, is filled up with duplicates and fails again, with and without the
version; the count wraps round at 8. In the union modules the comment on each instance
says what its bounds let happen: chunks that are filled by half a buffer and
spanned by two, three chunks of which the last is short, retries that are used
up and begun again, two writers of one path with lost answers, two pages and a
half, trees of three levels, a rival in the middle of every move. The bounds
(`Max...`) are guards of the calls of users and of the faults alone: what has
been begun is never cut off. The theorems of section 6 hold for all values.

Some properties are not in a configuration because they are proved and follow
from, or say less than, one that is: `TypeOK` of the components with proofs,
`ObjectIsNeverPartial` (`ImplementsAtomicObject`), `StopsAfterUnrecoverable`
(`ErrorIsFinal`) and `OnlyRequestedDeleted`.

Deadlock is checked in every run but `append`, whose writers stop after their
last buffer; elsewhere a writer that has ended stutters (`Ended`), and the
parts that end by themselves are named in `Stops`.

*Mutants.* `PROJECT.json` names one mutant per property. The conjuncts of the
properties of the union runs have mutants of their own: with the definition on
the right replaced by its `...Mutant`, the property on the left is violated.

| Property | Module: definitions |
|---|---|
| `WritesAreExact` | WriteGenerator: `GeneratorCloseOk`, `GeneratorCloseErr`, `WriteThrough`, `Fits`, `PassThrough`; FlexWriter: `SinkWrote`, `SinkClosed`, `Put`, `Freeze`; ConcurrentTasks: `InlineOk`, `HasRemaining`; MultipartWriter: `CloseAgain`; BlockWriter: `DrainEnds`; FsWriter: `WriteChunk` (also `AdvanceMutant`); PositionWriter: `WriteOk`; AppendWriter: `FirstRequest`, `AppendRequest` |
| `VisibleStepsAreWhole` | WriteGenerator: `GeneratorCloseOk`; BlockWriter: `DrainErr`; FsWriter: `ChoosePath`; OneShotWriter: `RequestErr`, `WriteChunked` |
| `ReadsAreExact` | RetryLayer: `Retryable` (`RetryableAlwaysMutant`), `PutBack`; ReadGenerator: `NextRange`; ConcurrentTasks: `RetryFront`, `InlineOk`; SeekReader: `Seek`, `Restart`; LocalReader: `FsReader`, `CompleteCheck`, `SftpReader`; Buffer: `slice`, `chunk`, `count`, `put` |
| `ListsExactly` | PageLister: `From`, `EndList`; FlatLister: `ReturnDir`, `PopLister`; KvLister: `KeepEntry`, `NextEntry` |
| `ReadsWhatWasStored` | KvAdapter: `Put`, `Insert`; KvObject: `ReadRange`; KvAdapter (connections): `IsValid` |
| `AnswersAreTrue` | RetryLayer: `Begin`; SeekReader: `ReaderEnds`; KvLister: `RemoveAll`; KvAdapter: `Remove`; KvObject: `CloseErr`; KvAdapter (connections): `ParseResponse` (`ParseRefusedMutant`), `CheckOut`; ConcurrentLimit: `OpenOk`; PathCacher: `lock`, `delete_once`, `write` |
| `CallsReturn` | RetryLayer: `SleepEnds`; ChunkedReader: `LoopEnds`; SeekReader: `OpenReader`; PageLister: `SwiftNextPage`; FlatLister: `PopLister` (`PopListerMutant2`); LocalReader: `ReadEmpty`; Buffer: `put` (`putStuckMutant`); ConcurrentLimit: `WantsToOpen`; PathCacher: `CacheAndGoOn` |
| `OptionsAreHonoured` | ConditionalOps: `CorrectnessRead`, `CorrectnessWrite`; ServiceRequests: `RangeUnlessFull`, `cos_delete_object`, `gcs_insert_object_request`, `s3_initiate_multipart_upload`, `s3_delete_objects` |
| `MovesAreSafe` | ServiceMoves: `pcloud_rename_file`, `fs_copy`, `azdls_rename`, `s3_delete_once`, `yandex_disk_move_object`, `azblob_copy`, `chainsafe_create_dir` |
| `ErrorsTellTheTruth` | ServiceErrors: `HttpBodyCheck`, `is_temporary_error`, `gcs_parse_error` |
| `ObservationsAreTrue` | Observers: `LoggingQueued`, `metrics_writer_write`, `TracingAccessor`, `logging_stat`, `metrics_copy`, `TracingWrapper`, `path_label_value`, `prometheus_client_labels` |
| `BuildersAgree` | ServiceBuilders: `deserialize_bool`, `b2_build`, `github_build`, `deserialize_option` |

## 5. Fairness

The runs with liveness properties assume that a call that is in progress is
polled until it returns (`WF(CallRuns)`, `WF(DeleterRuns)`, `WF(Runs(u))`),
which includes that a request is answered or times out; that the executor runs
every task to an end (`WF(TaskEnds(k))`), which the documentation of `Execute`
requires of an executor; and that the semaphore of tokio hands a permit that is
free to the first in its queue (`WF(Grant)`). It is not assumed that the user
makes a call, that a request succeeds, or that a call is not dropped. In the
parts that list, the user asks for the next entry until the list ends, and the
number of failed pages is bounded (`MaxFailures`). So `EveryCallReturns`,
`WritesReturn` and `CallsReturn` say that the loops of the code end, whatever
the answers are, and that nobody waits for a permit or a lock for ever. The
callers of the path cache are alike, so that `CallsReturn` looks at one of them.

## 6. Proofs

The constants are arbitrary: any `Concurrent \in Nat`, any inputs, buffers and
finite set of paths, any limit, any bounds. The named assumptions are in the
modules that declare the constants.

`TaskCaller_proof`. `FifoExactlyOnce` is nearly inductive (`FifoWithinLimit`
adds the bound on the tasks in flight): it says what results
and tasks hold while the queue is not errored. It needs `TypeOK` and `CallInv`:
a task runs inline only while the queue is empty, and an errored queue is empty
with no call waiting in it, so that no action can refill it. On the same
invariant rest `StopsForGood`, for a queue that is concurrent (the other one
does not stop: section 7), and `Refinement`: the queue of `OrderedQueue` is the
results followed by the inputs of the tasks, a task that is pushed back to the
front is a stutter, and `PendingGains` and `PendingLoses` say what `execute`
and `next` do to that sequence.

`MultipartWriter_proof`. `ClosedObjectIsComplete` says nothing about the states
before the close. The strengthening is

* `ControlInv`: what holds at each place a call can be suspended;
* `PhaseInv`: there is no trace of an upload before it begins; nothing is
  pending once an abort has begun or close has collected a part; a writer that
  ended is idle and its upload is not open;
* `NumberInv`: the collected parts, the results and the tasks, in this order,
  carry the part numbers 0, 1, 2, ... without a gap, and all were sent;
* `AcceptedInv`: every part that was sent carries the buffer acknowledged at
  its place, and what was acknowledged is what the numbers given out stand for,
  followed by the cache.

The step proof has one lemma per action. The actions that change the queue rest
on six lemmas about what they do to parts and numbers (`SameParts`,
`MoveFrontPart`, `PushPart`, `EmptyParts`, `RetryFrontParts`,
`ExecuteOkParts`). From the invariant follow the five safety properties, the
action property `ObjectIsNeverPartial`, and the refinement of `AtomicObject`,
whose lemmas say which action of the writer is which action of the object.

`Deleter_proof`. `WithinLimit` is inductive with `TypeOK`: that the count runs
ahead of the buffer by less than the limit is what guarantees that a full
deleter has something to flush, and so that the count does not grow past the
limit, and that no flush reports more than was counted (`CountNeverWraps`).
It has the hypothesis `Exact`, which a step can only make false
(`ExactBefore`): with versions it fails (section 7). With `NothingForgotten`
and `BufferInv` (only requested paths are queued) it gives `CloseDeletesAll`:
when the count is 0 the buffer is empty, and so every requested path is gone.
`NothingForgotten` is proved with versions too, since an entry that
`buffer.remove` misses stays in the buffer; only the key of a version that s3
has deleted leaves it (`Aliased`). So is `OnlyRequestedDeleted`, except for a
batch of oss, which deletes the key instead of the version. Every step of
the sink is a step of the deleter or leaves it alone (`SinkUsesTheDeleter`:
`UserSpec` implies `Spec`);
with `SinkInv` (what the future held by the sink is doing, and that a path the
sink accepted is the argument of that future or was requested) this carries the
properties over to `FedIsNotForgotten` and `SecondCloseDeletesAll`.

`Writer_proof`. `OrderKept` speaks of what is below and what is kept; a step
moves bytes between these and the buffer being written. `BytesInv` adds that
the bytes still to be offered are the last ones taken from the user, in order,
and that everything on its way down is before them. The order is stated for any
two bytes and not for neighbours, because the step from neighbours to any two
is an induction. `GeneratorWrites` says of all four ways through
`WriteGenerator::write` at once that they move the first `n` bytes, and
`ChunkSizeFacts` that `calculate_chunk_size` is between the limits.

The same module has the two writers with a `FlexBuf` in front of the generator
(an instance of `FlexWriter` with any capacity that is not 0). The bytes are
then in a line of stages: the writer, the generator, the buffer of the sink,
the frozen and the open part of the `FlexBuf`. `FlexInv` says that this line is
in order, holds nothing beyond what was taken, and is exactly what was taken
until a call fails. Only one of the two parts of the `FlexBuf` holds bytes, a
flush or close finds the open one empty, the slice of the caller holds the next
bytes, and a sink that closes has an empty buffer: without these a step that
moves bytes from one stage to the next could overtake others. `StdInv` is the
same for `StdWriter`, which has no sink. Hypothesis of `StdKeeps`: the
generator is not exact, since `flush` ignores how many bytes an exact one took
(section 7); `StdInOrder` needs no hypothesis.

`ChunkedReader_proof`. The chunks that were asked for and not yet returned are
a line: the results, the inputs of the tasks, the input of `execute`.
`OrderInv` says that they follow the bytes returned and one another without
overlap, and end before the next range the generator cuts; `ExactLine` that
there is no gap between them until an error was returned; `ExactLost` that only
a task that has failed and was not started again lacks bytes that its reader
had consumed; `ControlInv` what holds at each place of the loop (`execute` is
called only when there is room, a result is returned before a new chunk is
asked for, an errored queue is empty). Every action keeps the line, adds a chunk
at its end, takes its first one, or drops some at its end, and there is a lemma
for each of the four. `NeverGoesBack` is proved for streams that are polled on
after errors as well. Order is stated for any two chunks, as in `Writer_proof`.

The same module has `SeekReader` (with a chunk size of its own, `SeekChunk`).
`SeekInv`: the position, the buffer, what the open reader has left and the
offset of the generator add up, exactly while no request has failed since the
generator was made, and as an inequality otherwise; the buffer always holds the
bytes at the position; a read that is going on has neither moved nor returned
anything. From it follow `SeekStagesMeet` and the action property
`SeekReadsWhereItIs`.

`AppendWriter_proof`. What makes a repeated append harmless is that the offset
of its writer is stale, and stays stale: `HeldInv` says that a buffer of a
writer that is there and not yet acknowledged means `Stale`, and a service that
compares offsets refuses a stale one. That buffers are there once and in order
is proved for any number of writers over every service but webhdfs, which does
not compare. That acknowledged ones stay needs `AckInv`, that a writer about to
create, and so to empty, the object has none; it is proved for any number of
writers over oss, cos and obs, which never empty the object, and over all six
services for a writer that is alone. These conditions (`Compares`,
`NeverEmpties`, `Alone`) are part of the properties; section 7 has the
counterexamples without them. `OnlyGrows` is for oss, cos and obs.

The same module has the kv services. `KvObject`: an open writer has in its
buffer all that it has acknowledged, and has built no value yet (`KvKept`),
which is what makes a close that is repeated after a failure store the whole
object (`KvClosedIsWhole`); a reader that is reading has seen what is stored now
and is where the bytes it got end (`KvPlace`), and what it got it has seen
(`KvFound`). `KvAdapter`, for the twenty stores that serve get, set and delete
with one request each: the write that made the store what it is, or one of the
deletes of an empty store, is not superseded (`KaOwned`), and a client that
waits for its request has what `KaActive` says; with them `Regular` is
inductive. The other five adapters (foundationdb, persy, gridfs, nebula_graph,
atomicserver) need several requests or none that is atomic; section 7 has what
that leads to. The connections: `CnAnswerComes` holds however many tasks are
dropped; `CnGetsItsKey` has the hypothesis `MaxDrops = 0`, since a dropped task
leaves its answer to the next one (section 7). Its invariant is that a
connection in the pool is empty or holds what is left of a refused set, which
`is_valid` finds before a task gets it, and that a task that waits has its own
answer and no other (`CnExact`).

`PositionWriter_proof`. `ClosedIsDurable` needs to know where every buffer is
that has not reached the file: `WrittenInv` says that until something fails
each cell below `next_offset` is in the file or a task is going to write it,
`CacheInv` that the last one is the cache, `SentInv` that a late or repeated
write can only write what is to be there anyway, `CloseInv` that close passes
the queue only when it is empty. Hypothesis: `~WriteAfterClose`, a user who
does not write after a failed close; with it the last buffer is overwritten
(section 7).

`RetryLayer_proof`. `WrapperInv` is about `inner` and the backoff of the call
that is going on: as many delays were taken as attempts have failed, and all of
them temporarily, which is what makes `EveryCallGetsItsRetries` inductive;
`ReaderInv` says that the bytes returned, the range that is
left and the open body meet at one position, and that the arithmetic of
`BytesRange::advance` does not wrap there. The steps of the reader are steps of
the wrapper (`ReaderUsesTheWrapper`), so that `LostOnlyByDrop` and
`EveryCallGetsItsRetries` are proved once. Hypothesis of the theorems about bytes:
`EmptyRange = "empty"`, a service that answers an empty range with an empty
body; section 7 shows what the other answer leads to.

The same module has `LocalReader`. `LocalInv`: the bytes got are as many as
were counted, from the offset on, and do not go beyond a bounded range; while
the file has not changed they end before its end. `LocalNextRead` says of the
eight ways to ask for the next bytes at once that they ask where the reader is,
for no more than is left of the range, and for nothing only when nothing is
left. compfs is the exception: of a bounded range it reads nothing (section 7),
and `ReadSucceeds` is not about it.

And it has `PageLister`, for the 27 services of `ExactLists` and every
directory, page size and number of failures. `PgLine`: the entries returned and
those that wait in the context are the entries up to the token, or all of them
once `done` is set, each once; the entry of the directory is among them at most
once, and while pages are left only if the token has moved on (over webhdfs, which
adds it to the last page, not at all). `PgPaged` and `PgWhole` say of all the
`next_page` functions at once that they add the entries after the token. Then
`EachEntryOnce` and `EndsComplete` follow. The seven other services ask for the
wrong page, keep a part of a page that failed, or set `done` too early
(section 7).

Only model-checked, and why:

* the liveness properties (`EveryCallReturns`, `CloseReturnsIfCountAgrees`,
  `WritesReturn`, `CallsReturn`): fairness and `ENABLED` are out of the proof
  system's reach;
* what folds and recursive functions compute for every input, which takes an
  induction over data: the bytes of `Buffer`, the chunks of `FsWriter`
  (`ClosedIsInPlace`), the blocks that `BlockWriter` joins (`CommitsAtOnce`),
  the permits that `ConcurrentLimit` sums up (`EveryPermitIsSomewhere`), the
  labels of `Observers`, the trees of `FlatLister` and the keys of `KvLister`;
* the tables of the services (`services`, `OneShotWriter`, the five other
  adapters of `KvAdapter`): TLC evaluates them, and a proof would be the same
  enumeration;
* `PathCacher`, of which nothing has been proved yet.

## 7. Where the code and its documentation disagree

Two of these are runs of their own, `multipart_pending_write` and
`deleter_close`. The others are found with the module and the constants given
in brackets, the property as an invariant (as `[][P]_vars` where it has primed
variables); names that are not given are model values. Where the code is known
to fail, the passing runs leave the service or the fault out of the part, as
its comment says. Paths are relative to `src/core/src` where
they do not begin with `src`.

**Tasks, multipart, deletes**

* `TaskCaller`, `StopsAfterUnrecoverable`, at `raw/futures_util.rs:160`: When
  ConcurrentTasks is not concurrent, execute returns the error of the task it
  ran inline, whatever its kind, and leaves errored unset (lines 160-170), so
  that a later execute runs a new task after an unrecoverable error. The
  field's comment, raw/futures_util.rs:96, says: "If concurrent tasks hit an
  unrecoverable error, it will stop executing new tasks and return an
  unrecoverable error to users." [Concurrent = 1, Input = {a, b}, MaxSubmits =
  2]
* `MultipartWriter`, `PendingWriteExists`, at
  `raw/oio/write/multipart_write.rs:222`: write takes it for granted that the
  cache is full once the upload has begun: raw/oio/write/multipart_write.rs:222
  says expect("pending write must exist"). abort empties the cache before
  abort_part may fail (lines 295-297) and close empties it before complete_part
  may fail (lines 267-287); in both cases CompleteWriter keeps the writer open,
  and a write that follows panics. [Concurrent = 2, Data = {a}, MaxWrites = 3,
  MaxUploads = 1]
* `Deleter`, `CloseReturns`, at `types/delete/deleter.rs:202`: close flushes
  until cur_size is 0. cur_size counts the calls of delete, while BatchDeleter
  keeps the paths in a HashSet, and a flush that fails for one path with an
  error that is not temporary has removed the others from the buffer without
  reporting them. After a duplicate path or such a failure cur_size stays above
  0 with an empty buffer, flush returns Ok(0) for ever, and close never
  returns. types/delete/deleter.rs:201 says: "Close the deleter, this will
  flush the deleter and wait until all paths are deleted." [Key = {p1, p2},
  Versioned = {}, Version = {}, MaxSize = 2, Word = 8]
* `Deleter`, `CloseDeletesAll` without `Exact`, at `services/s3/delete.rs:84`:
  delete_batch of s3 and oss reports what it deleted without the version, and
  `buffer.remove` (raw/oio/delete/batch_delete.rs:110) misses an entry that has
  one: it stays queued although it was counted. Of a version of p1 and of p2 on
  s3, two flushes report the version each time while p2 fails for the moment;
  the count goes 2, 1, 0 and close returns Ok with p2 undeleted.
  types/delete/deleter.rs:201 says what close waits for (above). [Key = {p1,
  p2}, Versioned = {p1}, Version = {v1}, MaxSize = 2, Word = 8]
* `Deleter`, `NeverUnderflows` without `Exact`, at `types/delete/deleter.rs:103`:
  The same drift leaves more in the buffer than is counted, and the next flush
  reports more than cur_size: a debug build panics, in a release build the count
  wraps round, every delete finds the deleter full, and close goes on flushing
  an empty buffer. types/delete/deleter.rs:201 says what close waits for (above). [Key =
  {p1, p2}, Versioned = {p1}, Version = {v1}, MaxSize = 2, Word = 8]
* `Deleter`, `NothingForgotten` without `Aliased`, at `services/s3/delete.rs:84`:
  A key and a version of it are queued; the version is deleted and the key
  fails for the moment. What is reported is the key, which leaves the buffer
  undeleted. types/delete/deleter.rs:201 says what close waits for (above).
  [Key = {p1}, Versioned = {p1}, Version = {v1}, MaxSize = 2, Word = 8]
* `Deleter`, `OnlyRequestedDeleted` without its condition, at
  `services/oss/delete.rs:57`: a batch of oss names the keys alone, so that the
  current object is deleted instead of the version that was asked for.
  types/operator/operator.rs:1074 says of version: "remove a specific version
  of the given path." [Key = {p1, p2}, Versioned = {p1}, Version = {v1},
  MaxSize = 2, Word = 8]
* `DeleteSink`, `SinkCloseDeletesAll`, at
  `types/delete/futures_delete_sink.rs:150`: poll_close of an idle sink makes
  the future of Deleter::close, stores it and returns Ready(Ok) without polling
  it; the queued paths are not deleted unless the user calls the sink again.
  types/delete/deleter.rs:201 says of the close it stands for: "Close the
  deleter, this will flush the deleter and wait until all paths are deleted."
  [Key = {p1, p2}, Versioned = {}, Version = {}, MaxSize = 2, Word = 8]

**Writers**

* `Writer`, `WritesReturn` without its condition, at `types/write/writer.rs:141`:
  OpWriter takes a chunk of 0 as it is (raw/ops.rs:814; OpReader raises it to
  1). Where the service has no least size, WriteGenerator then writes an empty
  chunk, takes no byte of the buffer and returns 0
  (types/context/write.rs:169-183), and the loop of write goes round for ever.
  types/write/writer.rs:151 says "This operation will write all data in given
  buffer into writer." [Chunk = 0, MinSize = NoSize, MaxSize = 4, Lengths =
  {1}, MaxBytes = 2]
* `Writer`, `CloseCommitsAll`, at `types/context/write.rs:193`: close takes the
  buffered bytes out of the queue before it writes them
  (types/context/write.rs:193); when that write fails they are gone, and a
  close that is called again finds an empty buffer, closes the writer below and
  returns Ok. types/write/writer.rs:172 says: "Close the writer and make sure
  all data have been committed." [Chunk = 3, MinSize = NoSize, MaxSize =
  NoSize, Lengths = {2}, MaxBytes = 4]
* `FlexWriter` (`StdSpec`), `CloseStoresAll`, at
  `types/blocking_write/std_writer.rs:106`: flush ignores the count that
  WriteGenerator::write returns and cleans the buffer
  (types/blocking_write/std_writer.rs:106-108); an exact generator takes only
  what fills its chunk, so the rest is lost and close still returns Ok.
  types/blocking_write/std_writer.rs:46 says: "Close the internal writer and
  make sure all data have been stored." [Chunk = 3, MinSize = NoSize, MaxSize =
  NoSize, Cap = 2, Lengths = {2}, MaxBytes = 4]
* `FlexWriter` (`StdSpec`), `DropStoresAll`, at
  `types/blocking_write/std_writer.rs:115`: drop closes the generator without
  flushing the FlexBuf in front of it, so up to 256 KiB that write acknowledged
  are lost without any error. types/blocking_write/std_writer.rs:29 says:
  "Files are automatically closed when they go out of scope. Errors detected on
  closing are ignored". [Chunk = NoSize, MinSize = 3, MaxSize = NoSize, Cap =
  2, Lengths = {1}, MaxBytes = 2]
* `FlexWriter` (`StdSpec`), `PutZeroMeansFrozen`, at
  `types/blocking_write/std_writer.rs:83`: put of an empty slice returns 0
  although nothing is frozen, and the caller then calls expect on the frozen
  buffer, which panics. raw/oio/buf/flex_buf.rs:49 says: "Return 0 means the
  buffer is frozen." [Chunk = NoSize, MinSize = 3, MaxSize = NoSize, Cap = 2,
  Lengths = {0}, MaxBytes = 2]
* `BlockWriter`, `ClosedObjectIsComplete`, at `services/webhdfs/writer.rs:110`:
  complete_block deletes the path and then renames the block file to it. When
  the RENAME took effect but its answer was lost, a repeated close of a
  one-block upload deletes the finished object, and the RENAME of the missing
  file answers 200 with {"boolean": false}, which only create_dir looks at:
  close returns Ok and the data is gone. services/webhdfs/docs.md:38 says: "The
  final concatenation of these temporary files occurs when the writer is
  closed." [Concurrent = 1, Data = {a, b}, Webhdfs = TRUE, MaxWrites = 2,
  MaxBlocks = 3, Late = FALSE, MaxLost = 1]
* `BlockWriter`, `AbortPurgesAll`, at `services/webhdfs/writer.rs:133`: abort
  passes only block_ids, which nothing but the drain of close fills, and
  webhdfs deletes <block_id> where write_block created
  <atomic_write_dir><block_id>: the blocks stay.
  raw/oio/write/block_write.rs:85 says: "abort_block will cancel the block
  upload and purge all data." [Concurrent = 2, Data = {a, b}, Webhdfs = TRUE,
  MaxWrites = 2, MaxBlocks = 3, Late = FALSE, MaxLost = 0]
* `FsWriter`, `ClosedIsInPlace`, at `services/fs/writer.rs:106`: The blocking
  close takes the file before sync_all and rename; when one of them fails (all
  but four kinds of io errors are temporary) a repeated close finds no file and
  returns Ok without the rename. raw/oio/write/api.rs:116 says: "Close the
  writer and make sure all data has been flushed." [Writers = {w1}, Atomic =
  TRUE, Append_ = FALSE, Blocking = TRUE, Deferred = FALSE, MaxCalls = 2]
* `FsWriter`, `ClosedIsInPlace`, at `services/fs/backend.rs:286`: An append to
  a file that does not exist is written to a temporary file and renamed over
  whatever another appender has made of the path since the check.
  services/fs/backend.rs:66 says: "When append is enabled, we will not use
  atomic write to avoid data loss and performance issue." [Writers = {w1, w2},
  Atomic = TRUE, Append_ = TRUE, Blocking = FALSE, Deferred = FALSE, MaxCalls =
  1]
* `FsWriter`, `ErrWritesNothing`, at `services/fs/writer.rs:59`: write loops
  over the chunks of the buffer and returns the error of one after others were
  written; RetryLayer then writes the whole buffer again.
  raw/oio/write/api.rs:34 says: "`Err(err)` means error happens and no bytes
  has been written." [Writers = {w1}, Atomic = FALSE, Append_ = TRUE, Blocking
  = FALSE, Deferred = FALSE, MaxCalls = 1]
* `FsWriter`, `ClosedIsInPlace`, at `services/fs/writer.rs:68`: tokio::fs::File
  reports the failure of a write it has accepted once, here by flush; close
  returns it, and repeated (RetryLayer does so: the error is temporary) it
  returns Ok. raw/oio/write/api.rs:37 says: "Close the writer and make sure all
  data has been flushed." [Writers = {w1}, Atomic = FALSE, Append_ = TRUE,
  Blocking = FALSE, Deferred = TRUE, MaxCalls = 2]
* `PositionWriter`, `NoOverlap`, at `raw/oio/write/position_write.rs:159`:
  close writes the cached buffer at next_offset and clears the cache, but does
  not advance next_offset; when FsWriter::close then fails, the next write is
  placed over it. raw/oio/write/position_write.rs:224 asserts: "input should
  not have overlap". [Concurrent = 2, Data = {a, b}, Atomic = TRUE,
  WriteAfterClose = TRUE, MaxWrites = 2]
* `OneShotWriter`, `OldOrNew`, at `services/azdls/writer.rs:46`: write_once of
  azdls and azfile creates the file empty and writes it with a second request:
  a reader in between, or after a failure of the second, finds neither the old
  content nor the new. raw/oio/write/one_shot_write.rs:32 says:
  "Implementations should make sure that the data is written correctly at
  once." [Writers = {w1, w2}, Services = {"azdls", "azfile"}, Size = 5,
  MAX_SIMPLE_SIZE = 4, CHUNK_SIZE_FACTOR = 2, MaxFiles = 3]
* `OneShotWriter`, `OneFilePerPath`, at `services/gdrive/backend.rs:141`: The
  id is looked up when the writer is opened; a repeated close after a lost
  answer, or a second writer opened meanwhile, uploads another file of the same
  name. services/gdrive/backend.rs:139 says: "As Google Drive allows files have
  the same name, we need to check if the file exists. If the file exists, we
  will keep its ID and update it." [Writers = {w1, w2}, Services = {"gdrive"},
  Size = 5, MAX_SIMPLE_SIZE = 4, CHUNK_SIZE_FACTOR = 2, MaxFiles = 3]
* `AppendWriter`, `OnlyAppends`, at `services/azblob/writer.rs:67`: A writer
  that found nothing creates the blob without the condition that there still is
  nothing (azdls does it when its offset is 0, webhdfs with overwrite=true),
  and so empties what another writer has appended meanwhile.
  raw/oio/write/append_write.rs:45 says: "Append the data to the end of this
  object." [Writers = {w1, w2}, Services = {"azblob", "azdls", "webhdfs"},
  MaxBuffers = 1, MaxLost = 0]
* `AppendWriter`, `EachOnceInOrder`, at `services/webhdfs/writer.rs:148`:
  append ignores the offset, so that a write that failed with its answer lost
  and is repeated appends the buffer twice. raw/oio/write/api.rs:34 says:
  "`Err(err)` means error happens and no bytes has been written." [Writers =
  {w1}, Services = {"webhdfs"}, MaxBuffers = 2, MaxLost = 1]

**Readers and listers**

* `RetryLayer`, `ReadsThePrefix`, at `raw/http_util/bytes_range.rs:81`: When
  the read that would return the end of a sized range fails, RetryReader opens
  the rest, an empty range, whose header is "bytes=13-12"; a service that
  ignores an invalid Range header sends the whole content, the buffer is
  returned, and BytesRange::advance underflows. layers/retry.rs:920 says of
  this repeated read: "// Should be empty." [MaxTimes = 1, N = 3, Width = 3,
  Offsets = {0, 1, 3}, Sizes = {0, 2, 3, NoSize}, EmptyRange = "ignored",
  MaxFailures = 3]
* `ChunkedReader`, `RetriedTaskIsWhole`, at `types/read/buffer_stream.rs:95`:
  The task of a chunk is read_all, which drops the buffers it has when the
  reader fails; ConcurrentTasks runs the task again with the same reader, so
  that its output lacks them, and if it is empty the stream ends. The reader
  whose execute returned the error is dropped too. raw/futures_util.rs:80 says:
  "If the given result is error, the error will be returned to users and the
  task will be retried." [Chunk = 2, Total = 4, Concurrent = 2, MaxFailures =
  1]
* `PageLister`, `EachEntryOnce`, at `services/aliyun_drive/lister.rs:68`: The
  entry of the directory is pushed before the request that may fail (in ipfs,
  entries are pushed between requests that may fail); the next call returns
  what is left in the context and asks for the same page again.
  raw/oio/list/page_list.rs:59 says: "PageLister makes sure that entries is
  reset before calling `next_page`." [Services = {"aliyun_drive", "ipfs"},
  MaxTotal = 2, PageSize = 2, MaxFailures = 1, MaxOut = 8]
* `PageLister`, `EndsComplete`, at `services/dropbox/lister.rs:73`: done is set
  for every error, so that the next call, by RetryLayer for instance, is told
  that the list has ended. raw/oio/list/page_list.rs:46 says: "Set `done` to
  `true` if all page have been fetched." [Services = {"dropbox"}, MaxTotal = 1,
  PageSize = 2, MaxFailures = 1, MaxOut = 8]
* `PageLister`, `EndsComplete`, at `services/github/lister.rs:50`: done is set
  before the second request, for the tree below the directory
  (services/github/lister.rs:80); when that one fails for the moment, the next
  call, by RetryLayer for instance, is told that the list has ended.
  raw/oio/list/page_list.rs:46 says: "Set `done` to `true` if all page have
  been fetched." [Services = {"github"}, MaxTotal = 1, PageSize = 2,
  MaxFailures = 1, MaxOut = 8]
* `PageLister`, `EachEntryOnce`, at `services/vercel_blob/lister.rs:47`:
  next_page keeps the cursor in the token but does not send it: a list of more
  than one page returns the first page for ever. raw/oio/list/page_list.rs:54
  says: "token is used by underlying storage services to fetch next page."
  [Services = {"vercel_blob"}, MaxTotal = 3, PageSize = 2, MaxFailures = 0,
  MaxOut = 8]
* `PageLister`, `EndsComplete`, at `services/lakefs/lister.rs:85`: done is set
  after the first page, and has_more and next_offset of the answer are not
  read. raw/oio/list/page_list.rs:46 says: "Set `done` to `true` if all page
  have been fetched." [Services = {"lakefs"}, MaxTotal = 3, PageSize = 2,
  MaxFailures = 0, MaxOut = 8]
* `PageLister`, `EachEntryOnce`, at `services/s3/lister.rs:104`: A page with
  entries and without a token sets done to false and the token to the empty
  one, so that the list starts again. services/s3/lister.rs:98 says: "Check the
  length of `common_prefixes` and `contents` (very rare case)" [Services =
  {"s3_bare"}, MaxTotal = 1, PageSize = 2, MaxFailures = 0, MaxOut = 8]
* `FlatLister`, `ListsAll`, at `raw/oio/list/flat_list.rs:94`: next takes the
  directory before the list that may fail; the next call, by RetryLayer for
  instance, goes on with the lister above, and ends without the subtree.
  raw/oio/list/api.rs:32 says: "`Ok(None)` means all pages have been returned."
  [MaxNodes = 2, MaxFailures = 1]
* `KvLister`, `RemovesBelow`, at `services/sqlite/backend.rs:298`: The path
  becomes a LIKE pattern without its wildcards being escaped; a recursive list
  does not filter what the scan returns, and remove_all deletes it.
  raw/adapters/kv/api.rs:150 says: "Scan a key prefix to get all keys that
  start with this key." [Services = {"sqlite"}, Files, Dirs, Paths as in
  MCComponents, MaxKeys = 4, PageSize = 2, MaxOps = 0]
* `KvLister`, `ListsLevel`, at `services/cloudflare_kv/backend.rs:268`: scan
  takes the keys of one answer and leaves its cursor.
  services/cloudflare_kv/backend.rs:284 says: "result_info is used to determine
  if there are more keys to be listed", and raw/adapters/kv/api.rs:150: "Scan a
  key prefix to get all keys that start with this key." [Services =
  {"cloudflare_kv"}, Files, Dirs, Paths as in MCComponents, MaxKeys = 4,
  PageSize = 2, MaxOps = 0]
* `KvLister`, `RemovesNested`, at `types/operator/operator.rs:1297`: The list
  of a path without a trailing "/" is a list by prefix, so that remove_all("a")
  deletes "ab" too. types/operator/operator.rs:1259 says: "Remove the path and
  all nested dirs and files recursively." [Services = {"memory"}, Files, Dirs,
  Paths as in MCComponents, MaxKeys = 4, PageSize = 2, MaxOps = 0]
* `LocalReader`, `RangeDelivered`, at `services/compfs/reader.rs:50`:
  CompfsReader is done when its end lies at or behind its position, which is so
  from the start: a read of a bounded range fails with "reader got too little
  data". src/core/tests/behavior/async_read.rs:108 says assert_eq!(bs.len() as
  u64, length, "read size") [Names = {"compfs"}, MaxLen = 3, BufSize = 2,
  MaxChanges = 0]
* `Buffer`, that `put` ends, as in `CallsReturn`, at `types/buffer.rs:515`:
  With an empty part at idx, chunk returns no bytes although some are left, and
  put of the bytes crate, which copies chunk after chunk while something is
  left, advances by 0 for ever. types/buffer.rs:281 says of to_bytes "Combine
  all bytes together into one single [`Bytes`]." [MaxBytes = 2, MaxParts = 2,
  EmptyParts = TRUE]
* `Buffer`, `VectoredIsContent`, at `types/buffer.rs:329`: to_io_slice and
  chunks_vectored take the parts from idx on up to the last byte and do not
  look at size, so that bytes that truncate or slice cut off are written.
  types/buffer.rs:48 says "[`Buffer`] is vectorized write friendly, you can
  convert it to [`IoSlice`] for vectored write." [MaxBytes = 2, MaxParts = 2,
  EmptyParts = FALSE]

**Shared state**

* `ConcurrentLimit`, the `CallsReturn` of `MCComponents`, at
  `layers/concurrent_limit.rs:105`: A permit stays in the reader or lister that
  was opened, and a chunked read or remove_all opens another one before it
  drops it: when the permits are all held this way, nobody goes on (a chunked
  read with concurrent 2 alone hangs with one permit).
  types/operator/operator.rs:1259 says of remove_all: "Remove the path and all
  nested dirs and files recursively." [Users = {u1, u2}, Kind = u1: "chunked",
  u2: "remove_all", Permits = 2, Concurrent = 2, Chunks = 3]
* `ConcurrentLimit`, `NeverPanics`, at `layers/concurrent_limit.rs:183`:
  try_acquire fails when there is no permit, which is the case the layer is
  for, and the call panics. layers/concurrent_limit.rs:184 asserts: "semaphore
  must be valid". [Users = {u1, u2}, Kind = "blocking" for both, Permits = 1,
  Concurrent = 2, Chunks = 3]
* `KvAdapter`, `Regular`, at `services/nebula_graph/backend.rs:326`: set
  removes the old record in one request and inserts the new one in another
  (gridfs and atomicserver too); a get in between is answered that the key does
  not exist, and after a failure in between it is so.
  raw/adapters/kv/api.rs:104 says: "return `Ok(None)` if this key is not
  exist." [Services = {"gridfs", "nebula_graph", "atomicserver"}, Clients = {1,
  2}, MaxOps = 4, MaxFailures = 0]
* `KvAdapter`, `Regular`, at `services/foundationdb/backend.rs:140`: Every
  error of the transaction becomes NotFound, so that a key that exists is
  reported missing when the cluster cannot be reached.
  raw/adapters/kv/api.rs:104 says: "return `Ok(None)` if this key is not
  exist." [Services = {"foundationdb"}, Clients = {1}, MaxOps = 3, MaxFailures
  = 1]
* `KvAdapter`, `DeleteIsOk`, at `services/persy/backend.rs:237`: The id is
  looked up outside the transaction; the record another delete has removed
  meanwhile is an error (gridfs: bucket.delete of a file that is gone).
  raw/adapters/kv/api.rs:134 says: "return `Ok(())` even if this key is not
  exist." [Services = {"gridfs", "persy"}, Clients = {1, 2}, MaxOps = 3,
  MaxFailures = 0]
* `KvObject`, `NeverPanics`, at `raw/adapters/kv/backend.rs:124`: The value of
  the get is sliced by the range that was asked for; when it is shorter,
  because it was replaced after the stat or because the user asked for more,
  the read panics instead of returning an error. types/buffer.rs:266 asserts:
  "range end out of bounds" [Writers = {1, 2}, MaxWrites = 2, MaxFailures = 0,
  Ends = {}, Open = 100]
* `KvAdapter` (`ConnSpec`), `GetsItsKey`, at `services/memcached/backend.rs:283`:
  has_broken is always false and parse_response does not look at opcode or
  opaque: the connection of a get that was dropped, by TimeoutLayer for
  instance, goes back to the pool with a response in it, and from then on every
  request reads the response of the one before. raw/adapters/kv/api.rs:102
  says: "Get a key from service." [Keys = {k1}, Tasks = {t1}, MaxOps = 3,
  MaxDrops = 1, MaxRefused = 0]
* `PathCacher`, `DriveIsAsTold`, at `services/gdrive/delete.rs:51`: delete_once
  removes the path of the directory from the cache and not the paths below it;
  a later ensure_dir of a subdirectory takes the id in the trash from the cache
  and returns it, and the file is created there. raw/path_cache.rs:158 says
  "Ensure input dir exists." [Files, Dirs as in MCComponents, Callers = {u1,
  u2}, Contents = {"a"}, Locked = TRUE, Disjoint = TRUE, Trees = TRUE,
  ListAlone = TRUE, Lossy = FALSE, MaxOps = 3, MaxFails = 1]
* `PathCacher`, `DriveIsAsTold`, at `services/gdrive/backend.rs:141`: The entry
  of a path is removed from the cache only after the answer to the trash
  request; when that answer is lost the cache keeps the id, and write takes it
  for the id of a file that exists. services/gdrive/backend.rs:139 says "we
  need to check if the file exists." [Files, Dirs as in MCComponents, Callers =
  {u1, u2}, Contents = {"a"}, Locked = TRUE, Disjoint = TRUE, Trees = FALSE,
  ListAlone = TRUE, Lossy = TRUE, MaxOps = 3, MaxFails = 1]
* `PathCacher`, `AssertionsHold`, at `raw/path_cache.rs:98`: The lock is held
  by get and by insert and not in between, so that two writers of a file that
  does not exist both find no id, upload two files of the same name, and the
  second insert runs into its debug_assert. raw/path_cache.rs:96 says "This
  should never happen, but let's ignore the insert if happened." [Files, Dirs
  as in MCComponents, Callers = {u1, u2}, Contents = {"a"}, Locked = TRUE,
  Disjoint = FALSE, Trees = FALSE, ListAlone = TRUE, Lossy = FALSE, MaxOps = 2,
  MaxFails = 0]
* `PathCacher`, `DriveIsAsTold`, at `services/gdrive/lister.rs:101`: next_page
  looks every child up by get and inserts the id of the page if nothing is
  found; a child that was deleted after the page was made is not found, and its
  id is inserted. A write of that path then overwrites the file in the trash
  and succeeds. services/gdrive/lister.rs:97 says "Update path cache when path
  doesn't exist." [Files, Dirs as in MCComponents, Callers = {u1, u2}, Contents
  = {"a"}, Locked = TRUE, Disjoint = TRUE, Trees = FALSE, ListAlone = FALSE,
  Lossy = FALSE, MaxOps = 4, MaxFails = 0]

**Services**

* `ConditionalOps`, `ConditionsHeld`, at `services/s3/core.rs:752`: A write
  with if_not_exists that is long enough to be uploaded in parts replaces an
  existing object: neither the request that opens the upload nor the one that
  completes it carries the condition (s3, gcs, azblob, oss and cos declare
  write_with_if_not_exists). types/operator/operator_futures.rs:954 says "the
  write operation will only succeed if the target path does not exist" [Names =
  WithOptions of MCServices, Asked = [multi |-> {"if_not_exists"}], Ranges =
  {"full"}, CapabilityCheck = FALSE, MaxVersion = 2, MaxLost = 0]
* `ConditionalOps`, `ConditionsHeld`, at `layers/correctness_check.rs:137`:
  CorrectnessAccessor::write does not look at if_match, so that a conditional
  write to any service but s3 goes through without its condition.
  layers/correctness_check.rs:34 says "this checker ensures the operation and
  its critical arguments, which might affect the correctness of" [Names =
  WithOptions of MCServices, Asked = [put |-> {"if_match"}], Ranges = {"full"},
  CapabilityCheck = FALSE, MaxVersion = 2, MaxLost = 0]
* `ConditionalOps`, `AttributesKept`, at `services/gcs/core.rs:537`: An upload
  in parts loses declared attributes: user_metadata on gcs, azblob, oss and
  obs, content_type on gcs and azblob (and content_encoding on s3,
  cache_control on obs) are in no request of the upload.
  types/operator/operator_futures.rs:990 says "If supported, the user metadata
  will be attached to the object during write" [Names = WithOptions of
  MCServices, Asked = [multi |-> {"user_metadata", "content_type"}], Ranges =
  {"full"}, CapabilityCheck = FALSE, MaxVersion = 2, MaxLost = 0]
* `ConditionalOps`, `ConditionsHeld`, at `layers/correctness_check.rs:260`:
  blocking_stat and blocking_read check the version only: if_match on a service
  that does not know it (fs, hdfs) is ignored and the call succeeds.
  layers/correctness_check.rs:28 says "against the capability of the underlying
  service. If the operation or arguments is not supported," [Names =
  WithOptions of MCServices, Asked = [blocking_stat |-> {"if_match"}], Ranges =
  {"full"}, CapabilityCheck = FALSE, MaxVersion = 2, MaxLost = 0]
* `ConditionalOps`, `AttributesKept`, at `services/s3/backend.rs:1108`: s3 and
  azblob sign a write with OpWrite::default(): the content type, disposition
  and cache control of the caller are dropped. types/operator/operator.rs:1879
  says "Set the [`content-type`]... header returned by storage services."
  [Names = WithOptions of MCServices, Asked = [presign_write |->
  {"content_type"}], Ranges = {"full"}, CapabilityCheck = FALSE, MaxVersion =
  2, MaxLost = 0]
* `ConditionalOps`, `RefusedForOthers`, at `layers/retry.rs:652`: The first
  attempt creates the object and its answer is lost; the repeated request finds
  the object that the operation itself created and the caller gets
  ConditionNotMatch for a write that took effect.
  types/operator/operator_futures.rs:955 says "Will return error if target
  already exists" [Names = WithOptions of MCServices, Asked = [put |->
  {"if_not_exists"}], Ranges = {"full"}, CapabilityCheck = FALSE, MaxVersion =
  2, MaxLost = 1]
* `ConditionalOps`, `RangeHonoured`, at `services/obs/core.rs:137`: obs and
  icloud send the Range header only when the range is full, supabase and
  alluxio never: a read of an open range returns the object from its first
  byte. types/operator/operator_futures.rs:226 says "`1024..` means read bytes
  in range `[1024, n)` of file" [Names = WithOptions of MCServices, Asked =
  [read |-> {}], Ranges = {"from"}, CapabilityCheck = FALSE, MaxVersion = 2,
  MaxLost = 0]
* `ConditionalOps`, `ThatVersionGone`, at `services/oss/core.rs:574`:
  oss_delete_objects takes paths only: a batch that names a version deletes the
  current object instead and leaves the version.
  types/operator/operator.rs:1074 says of version: "remove a specific version
  of the given path." [Names = WithOptions of MCServices, Asked = [batch |->
  {"version"}], Ranges = {"full"}, CapabilityCheck = FALSE, MaxVersion = 2,
  MaxLost = 0]
* `ConditionalOps`, `ContentWhereChecked`, at `services/azdls/writer.rs:61`:
  write_once of azdls is a request that creates the file, with the condition,
  and one that brings the content, without (services/azdls/core.rs:195). When
  another client replaces the file in between, its content is overwritten and
  the write succeeds. types/operator/operator_futures.rs:954 says "the write
  operation will only succeed if the target path does not exist" [Names =
  {"azdls"}, Asked = [put |-> {"if_not_exists"}], Ranges = {"full"},
  CapabilityCheck = FALSE, MaxVersion = 2, MaxLost = 0]
* `ServiceMoves`, `SourceNeverLost`, at `services/koofr/backend.rs:351`: rename
  removes the target before it moves the source and does not look whether the
  source exists: when the answer of the move is lost, RetryLayer repeats the
  rename, which removes the file that was just moved.
  docs/rfcs/0247_retryable_error.md:55 says "it's safe and cheap to retry it
  with precisely the same argument." [Names = {"koofr", "gdrive"}, Ops =
  {"rename"}, Parents = {TRUE}, Faults = {"before", "after"}, MaxRetries = 1,
  MaxRivals = 0]
* `ServiceMoves`, `SourceNeverLost`, at `services/aliyun_drive/backend.rs:272`:
  The file is moved into the new directory under its old name and renamed by a
  second request: when that fails, the file is at neither path and the repeated
  rename ends in NotFound. docs/rfcs/0247_retryable_error.md:55 says "it's safe
  and cheap to retry it with precisely the same argument." [Names =
  {"aliyun_drive"}, Ops = {"rename"}, Parents = {TRUE}, Faults = {"before",
  "after"}, MaxRetries = 1, MaxRivals = 0]
* `ServiceMoves`, `MoveSucceeds`, at `services/compfs/backend.rs:208`: compfs
  copies and renames without creating the directory of the target.
  src/core/tests/behavior/async_copy.rs:172 says "Copy to a nested path, parent
  path should be created successfully." [Names = {"compfs"}, Ops = {"copy",
  "rename"}, Parents = {FALSE}, Faults = {}, MaxRetries = 0, MaxRivals = 0]
* `ServiceMoves`, `OkMeansMoved`, at `services/compfs/backend.rs:191`: The
  target is opened without truncate, so that the tail of a longer old file
  stays behind the copied content. types/operator/operator.rs:740 says "`to`
  will be overwritten if it exists." [Names = {"compfs"}, Ops = {"copy"},
  Parents = {TRUE}, Faults = {}, MaxRetries = 0, MaxRivals = 0]
* `ServiceMoves`, `MoveSucceeds`, at `services/hdfs_native/backend.rs:252`:
  rename is called with overwrite = false and fails when the target exists.
  types/operator/operator.rs:798 says "`to` will be overwritten if it exists."
  [Names = {"hdfs_native"}, Ops = {"rename"}, Parents = {TRUE}, Faults = {},
  MaxRetries = 0, MaxRivals = 0]
* `ServiceMoves`, `MoveSucceeds`, at `services/dbfs/core.rs:185`:
  dbfs_ensure_parent_path is given the target and makes a directory of the
  target itself, not of its parent: the rename that follows finds a directory
  in its place. src/core/tests/behavior/async_rename.rs:50 says
  op.rename(&source_path, &target_path).await? and reads the target afterwards
  [Names = {"dbfs"}, Ops = {"rename"}, Parents = {TRUE}, Faults = {},
  MaxRetries = 0, MaxRivals = 0]
* `ServiceMoves`, `MissingSource`, at `services/dropbox/backend.rs:197`: copy
  and rename take NotFound for success: a missing source is copied
  "successfully" and there is no target.
  src/core/tests/behavior/async_copy.rs:97 says "Copy a nonexistent source
  should return an error." [Names = {"dropbox"}, Ops = {"copy"}, Parents =
  {TRUE}, Faults = {}, MaxRetries = 0, MaxRivals = 0]
* `ServiceMoves`, `DeleteIdempotent`, at `services/compfs/delete.rs:43`: compfs
  passes the NotFound of remove_file on, and ipmfs the NotFound its parse_error
  makes of "file does not exist". types/operator/operator.rs:1045 says
  "Deleting a file that does not exist won't return errors." [Names =
  {"compfs", "ipmfs"}, Ops = {"delete"}, Parents = {TRUE}, Faults = {},
  MaxRetries = 0, MaxRivals = 0]
* `ServiceMoves`, `DeleteIdempotent`, at `services/fs/delete.rs:44`: The path
  is looked up first and removed then; when another client removes it in
  between, remove_file returns NotFound and so does delete.
  types/operator/operator.rs:1045 says "Deleting a file that does not exist
  won't return errors." [Names = {"fs", "monoiofs", "hdfs"}, Ops = {"delete"},
  Parents = {TRUE}, Faults = {}, MaxRetries = 0, MaxRivals = 1]
* `ServiceMoves`, `CreateDirRaced`, at `services/github/core.rs:155`: upload asks
  for the sha of the .gitkeep and sends none if there is no such file; when
  another client makes the directory in between, the request is refused, since
  a file that exists is replaced by its sha only. types/operator/operator.rs:484
  says "Create on existing dir will succeed." [Names = {"github"}, Ops =
  {"create_dir"}, Parents = {TRUE}, Faults = {}, MaxRetries = 0, MaxRivals = 1]
* `ServiceErrors`, `RateLimitIsSurvived`, at `services/azblob/error.rs:70`: A 429
  is in the tables of b2, dropbox, gcs and ghac only, and in that of
  aliyun_drive with the code TooManyRequests; for the others, onedrive
  and huggingface (services/onedrive/error.rs:29,
  services/huggingface/error.rs:47) among them, it is an error that is not
  temporary, and RetryLayer gives up at once. types/error.rs:133 says of
  temporary errors "For example, underlying services is rate limited or
  unavailable for temporary." [Names = {"azblob"}, Throttled = {}, MaxRetries =
  1, MaxOutages = 1]
* `ServiceErrors`, `OutageIsSurvived`, at `services/aliyun_drive/error.rs:49`:
  The parse_error functions of aliyun_drive, alluxio, pcloud and seafile mark
  no 5xx answer as temporary, ipmfs not 500, yandex_disk of the 5xx only 503
  and 507, and parse_hdfs_error of hdfs_native marks nothing, so that
  RetryLayer gives up on the first answer of an overloaded server.
  types/error.rs:133 says of temporary errors "For example, underlying services
  is rate limited or unavailable for temporary." [Names = {"aliyun_drive",
  "alluxio", "ipmfs", "pcloud", "seafile", "yandex_disk", "hdfs_native"},
  Throttled = {}, MaxRetries = 2, MaxOutages = 2]
* `ServiceErrors`, `PermanentIsNotRetried`, at `services/webdav/error.rs:32`:
  webdav, cloudflare_kv and d1 make 403 a temporary PermissionDenied, so that
  RetryLayer repeats a request that is refused for good (for webdav on purpose,
  because owncloud answers 403 while a file is locked; the two others copied
  it). types/error.rs:125 says of permanent errors "without external changes,
  the error never changes" and types/error.rs:129 "Users SHOULD never retry
  this operation." [Names = {"webdav", "cloudflare_kv", "d1"}, Throttled =
  {}, MaxRetries = 2, MaxOutages = 0]
* `ServiceBuilders`, `SlashIsAccepted`, at `services/azblob/backend.rs:114`:
  Only the setter trims the slash; from_iter and from_config put the endpoint
  into the config as it is and build does not trim it.
  services/azblob/backend.rs:113 says "Trim trailing `/` so that we can accept
  `http://127.0.0.1:9000/`"; the same holds of alluxio, azdls, azfile, hdfs,
  hdfs_native and ipfs. [Services = {"azblob", "ipfs", "hdfs"}, Values =
  {"v/"}, Numbers = {"n"}, LeftAlone = {"batch_max_operations", "default_ttl",
  "time_to_live", "time_to_idle"}, MaxCalls = 1]
* `ServiceBuilders`, `SlashIsAccepted`, at `services/koofr/core.rs:117`:
  Neither the setter nor build trims the endpoint, and the core appends
  "/token" and "/api/v2/..." to it. services/koofr/backend.rs:85 documents the
  endpoint as "It is required. e.g. `https://api.koofr.net/`". [Services =
  {"koofr"}, Values = {"v/"}, Numbers = {"n"}, LeftAlone =
  {"batch_max_operations", "default_ttl", "time_to_live", "time_to_idle"},
  MaxCalls = 2]
* `ServiceBuilders`, `RoutesAgree`, at `raw/serde_util.rs:326`: A field of type
  Duration is a struct to serde, and Pair forwards structs to deserialize_any,
  which offers a string: every value of default_ttl, time_to_live and
  time_to_idle in a map is refused, so that redis, memcached, moka and
  mini_moka have no operator with a time to live from a map.
  types/builder.rs:75 says of every config that it can "deserialize from an
  iterator like hashmap or vector." [Services = {"moka", "redis", "memcached",
  "mini_moka"}, Values = {"v"}, Numbers = {"n"}, LeftAlone = {}, MaxCalls = 1]
* `ServiceBuilders`, `OptionIsHeeded`, at `services/azblob/backend.rs:253`: The
  value is stored in the config, and build and the backend use the constant
  AZBLOB_BATCH_LIMIT. services/azblob/backend.rs:252 says "Set maximum batch
  operations of this backend." The same holds of enable_append of hdfs_native
  and, in a map, of batch_max_operations of s3 and oss. [Services = {"azblob",
  "hdfs_native"}, Values = {"v"}, Numbers = {"n"}, LeftAlone = {}, MaxCalls =
  1]
* `ServiceBuilders`, `CustomLoaderWins`, at `services/s3/backend.rs:854`: build
  takes the custom loader and then, with a role_arn, replaces it by the loader
  that assumes the role with the default credentials.
  services/s3/backend.rs:443 says "If customized_credential_load has been set,
  we will ignore all other". [Services = {"s3"}, Values = {"v"}, Numbers =
  {"n"}, LeftAlone = {"batch_max_operations", "default_ttl", "time_to_live",
  "time_to_idle"}, MaxCalls = 1]
* `ServiceBuilders`, `SchemesAreWhole`, at `types/scheme.rs:200`: enabled()
  leaves out chainsafe, cloudflare_kv, d1, dbfs, github, gridfs and koofr,
  from_str does not know foundationdb, and via_iter has no arm for
  cloudflare_kv, dbfs and surrealdb. types/scheme.rs:188 says "This function
  returns all enabled schemes so users can make decisions based on it."
  [Services = {"dbfs", "foundationdb", "github", "surrealdb", "memory"}, Values
  = {"v"}, Numbers = {"n"}, LeftAlone = {"batch_max_operations", "default_ttl",
  "time_to_live", "time_to_idle"}, MaxCalls = 1]
* `ServiceBuilders`, `InvalidIsReported`, at `services/cos/backend.rs:193`:
  build parses the endpoint as an URI and unwraps its host, which an endpoint
  that is only a path does not have; atomicserver unwraps its options in the
  same way. types/error.rs:58 has ConfigInvalid for "The config for backend is
  invalid." [Services = {"cos"}, Values = {"v", "nohost"}, Numbers = {"n"},
  LeftAlone = {"batch_max_operations", "default_ttl", "time_to_live",
  "time_to_idle"}, MaxCalls = 1]

**Observers**

* `Observers`, `DeletedIsCounted`, at `layers/error_context.rs:474`: A flush of
  BatchDeleter of which one path failed for good has deleted others when it
  returns the error (raw/oio/delete/batch_delete.rs:107-120); only Ok is added
  to `processed`, and the next error tells too few. layers/error_context.rs:42
  says "`deleted`: The already deleted size in given deleter." [Cases =
  {<<"error_context", "async", "deleter">>}, MaxCalls = 5, Inputs = {<<"a",
  "v">>, <<"b", "">>}, Word = 8; below Inputs = {<<"a", "">>, <<"b", "">>}]
* `Observers`, `QueuedNeverWraps`, at `layers/logging.rs:1383`: A batch of s3
  with a version is counted again by the next flush, as in `Deleter` above, and
  `queued -= flushed` panics in a debug build and wraps round in a release
  build. types/delete/deleter.rs:194 says of the number that flush returns "the
  number of deleted paths". [Cases = {<<"logging", "async", "deleter">>},
  MaxCalls = 5, Inputs = {<<"a", "v">>, <<"b", "">>}, Word = 8]
* `Observers`, `LoggedToTheEnd`, at `layers/logging.rs:1149`: A blocking writer
  that is closed logs success under BlockingWriterWrite, so that
  BlockingWriterClose is started and never ends, and the failures of
  blocking_copy and blocking_list are logged with an empty status.
  layers/logging.rs:33 says "Every operation will start with a `started` log
  entry" and layers/logging.rs:34 "Every operation will finish with the
  following status" (`succeeded`, `finished` or `failed`). [Cases = {"logging"}
  x {"blocking"} x {"none", "writer", "lister"}, MaxCalls = 3]
* `Observers`, `TotalsAreTrue`, at `layers/logging.rs:1105`:
  BlockingWrite::write of LoggingWriter does not add the size to `written`
  where the async one does, so that every entry up to the close says written=0.
  layers/error_context.rs:40 states for the same item "`written`: The already
  written size in given writer.", and the async twin at layers/logging.rs:990
  keeps it. [Cases = {<<"logging", "blocking", "writer">>}, MaxCalls = 3]
* `Observers`, `ErrorsNameTheOperation`, at `layers/error_context.rs:488`:
  delete and flush of the blocking ErrorContextWrapper attach
  Operation::DeleterDelete and Operation::DeleterFlush, and not
  BlockingDeleterDelete and BlockingDeleterFlush. layers/error_context.rs:32
  says "`operation`: The [`Operation`] of this operation", and raw/operation.rs
  has operations of their own for the blocking deleter. [Cases =
  {<<"error_context", "blocking", "deleter">>}, MaxCalls = 3]
* `Observers`, `WorkInsideSpan`, at `layers/tracing.rs:315`: write, abort and
  close of the async TracingWrapper and FastraceWrapper are plain functions
  that return the future of the inner writer; the span of
  #[tracing::instrument], and the guards _g and _span, end when the function
  returns, before the future is polled. layers/tracing.rs:27 says "Add
  [tracing](https://docs.rs/tracing/) for every operation." and
  layers/fastrace.rs:27 the same of fastrace; the spans of these operations
  last for nothing. [Cases = {"tracing", "fastrace"} x {"async"} x {"writer"},
  MaxCalls = 3]
* `Observers`, `EveryCallIsSeen`, at `layers/oteltrace.rs:148`:
  OtelTraceAccessor hands delete and blocking_delete on without a span, and
  OtelTraceWrapper all calls of the objects. layers/oteltrace.rs:33 says "Add
  [opentelemetry::trace](https://docs.rs/opentelemetry/latest/opentelemetry/trace/index.html)
  for every operation." [Cases = {"oteltrace"} x {"async", "blocking"} x
  Objects, MaxCalls = 3]
* `Observers`, `ProbesAsDocumented`, at `layers/dtrace.rs:231`: DTraceAccessor
  hands delete and blocking_delete on without probes, and the probes of the
  abort of a writer are writer_poll_abort_start, _ok and _error.
  layers/dtrace.rs:42 lists "5. delete" under ${operation}_start and
  layers/dtrace.rs:83 "writer_abort_start, arguments: path". [Cases =
  {"dtrace"} x {"async", "blocking"} x Objects, MaxCalls = 3]
* `Observers` (`LabelsSpec`), `PathLabelEndsWithSlash`, at `layers/observe/mod.rs:63`:
  path_label_value cuts the path before its n-th slash, so that "abc/def/ghi"
  gives "abc" at level 1 (layers/observe/mod.rs:78 asserts it).
  layers/prometheus.rs:251 says "if n=1 and input path is "abc/def/ghi", and
  then we will get "abc/" as the path label." [Interceptors = {"prometheus",
  "prometheus_client", "metrics", "otel"}, Paths = a few, MaxLevel = 2,
  MaxObservations = 1]
* `Observers` (`LabelsSpec`), `RequestsAreToldApart`, at `layers/observe/metrics.rs:440`:
  The deleter is wrapped with the path "", and MetricsWrapper observes every
  delete under its own path and not under the argument, so that the path label
  of deleter_delete is always empty. layers/observe/metrics.rs:77 says "The
  metric label for the path used by request." [Interceptors = {"prometheus",
  "prometheus_client", "metrics", "otel"}, Paths = a few, MaxLevel = 2,
  MaxObservations = 2]

## 8. Not modelled

* `BlockingLayer`, `ThrottleLayer`, `ChaosLayer`, `MimeGuessLayer`: wrappers of
  a runtime, a rate limiter, a random number generator and a table.
* `ConcurrentFutures`, which has no caller; the simulated `stat` of
  `CompleteLayer`; `immutable_index`; `append` of the kv adapters, which has no
  caller.
* The language bindings and integrations: conversions around the `Operator`.
* Authentication, signing, the encoding of requests and the parsing of answers.
  Sizes of chunks, checksums, headers without a condition, messages and
  durations; an error is its kind and whether it is temporary.

Left out inside the modules:

* `PageLister`: azblob is assumed to send `NextMarker` always; an answer of
  yandex_disk without `embedded` is not considered.
* `KvAdapter`: cacache and cloudflare_kv answer a get of a missing key with
  NotFound where the others return None, which is the same to the user. Errors
  of single statements in surrealdb, the delay of commits
  in atomicserver, and stores that are consistent only in the end. In its
  connections, a task that is dropped in the middle of the bytes of a request.
* `SeekReader`: seeks behind the end of the range, of which no text of the
  repository says what they do.
* `BlockWriter`: whether a CREATE of webhdfs can finish after its connection
  was dropped is up to the datanode; `Late` is FALSE there.
* `ServiceMoves`: dropbox is assumed to overwrite, the move of dbfs to refuse
  an existing target, seafile, webhdfs, dbfs and hdfs_native to answer Ok when
  the path to delete is missing. Files that have the name of a new directory
  are not considered, nor is the parsing of the results of a batch. koofr and
  gdrive remove the target of a copy or rename before they find out that the
  source is missing; no text promises otherwise.
* `ServiceErrors`: bodies without a content length or with an encoding.
* `ServiceBuilders`: the environment is empty, and databases, directories and
  HTTP clients open. Setters that take objects and setters of several options
  are left out; each option is set once; `azfile.sas_token` and
  `webdav.disable_copy` have no setter. Some builders accept an empty required
  option through a setter (onedrive and cacache among them); etcd ignores a
  partial trio of TLS options; cos and obs drop the port of an endpoint. The
  part `builders_edges` leaves out the services whose routes treat empty
  values, slashes or zeros differently.
* `PathCacher`: of Google Drive it is assumed that trashing a folder trashes
  what is below it, that updating a trashed file succeeds, and that searches
  are consistent. A dropped call is a failed request; retries are not modelled.
  icloud only reads.
