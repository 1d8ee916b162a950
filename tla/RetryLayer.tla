----------------------------- MODULE RetryLayer -----------------------------
(***************************************************************************)
(* RetryLayer of core/src/layers/retry.rs, in two specifications.           *)
(*                                                                          *)
(* WrapperSpec: RetryWrapper and RetryAccessor.  Every call is repeated     *)
(* while it fails with a temporary error and the backoff gives another      *)
(* delay.  A call of an async method takes `inner` out of the wrapper,      *)
(* moves it into the future and puts it back at the end, so that a future   *)
(* that is dropped (by a TimeoutLayer around this one, or by the user)      *)
(* takes it along.  The calls of an accessor, of a blocking wrapper and of  *)
(* the sync `delete` leave `inner` where it is.                             *)
(*                                                                          *)
(* Spec: RetryReader under its RetryWrapper, over CompleteReader            *)
(* (core/src/layers/complete.rs) over HttpBody                              *)
(* (core/src/raw/http_util/body.rs) over a service that sends the content   *)
(* 1..N.  A reader that fails is thrown away, and the next attempt opens    *)
(* another one at the range that is left (BytesRange::advance).             *)
(*                                                                          *)
(* The range of a request is sent as "bytes=<off>-<off + size - 1>".  For   *)
(* an empty range this is no valid range, and what the service makes of it  *)
(* is the constant EmptyRange.                                              *)
(***************************************************************************)
EXTENDS Integers, Sequences, FiniteSetsExt

CONSTANT MaxTimes    \* max_times of the ExponentialBuilder

VARIABLES
  inner,      \* RetryWrapper::inner: "some" or "none"
  op,         \* the call in progress, or "none"
  phase,      \* of that call: "idle", "attempt", or "sleep" between two attempts
  tries,      \* the delays taken from the backoff
  result,     \* of the last call: "none", "ok", "persistent", "badstate", "panic"
  errors,     \* history: how the attempts of the last call failed, in order
  dropped     \* history: a call was dropped before it was ready

wrapperVars == <<inner, op, phase, tries, result, errors, dropped>>

Taking == {"read", "write", "close", "abort", "next", "flush"}
InPlace == {"delete", "blocking", "accessor"}

WrapperInit ==
  /\ inner = "some"
  /\ op = "none"
  /\ phase = "idle"
  /\ tries = 0
  /\ result = "none"
  /\ errors = <<>>
  /\ dropped = FALSE

BeginMutant(o) ==       \* one backoff for all calls of a wrapper
  op' = o /\ phase' = "attempt" /\ errors' = <<>> /\ UNCHANGED tries
Begin(o) == op' = o /\ phase' = "attempt" /\ tries' = 0 /\ errors' = <<>>
Finish(r) == op' = "none" /\ phase' = "idle" /\ result' = r

(* take_inner                                                               *)
CallTakes(o) ==
  /\ op = "none"
  /\ inner = "some"
  /\ inner' = "none"
  /\ Begin(o)
  /\ UNCHANGED <<result, dropped>>

CallInBadState(o) ==
  /\ op = "none"
  /\ inner = "none"
  /\ Finish("badstate")
  /\ UNCHANGED <<inner, tries, errors, dropped>>

(* An accessor is there whatever happened to a wrapper it has made.         *)
CallInPlace(o) ==
  /\ op = "none"
  /\ inner = "some" \/ o = "accessor"
  /\ Begin(o)
  /\ UNCHANGED <<inner, result, dropped>>

(* inner.as_mut().unwrap()                                                  *)
CallPanics(o) ==
  /\ op = "none"
  /\ inner = "none"
  /\ o \in {"delete", "blocking"}
  /\ Finish("panic")
  /\ UNCHANGED <<inner, tries, errors, dropped>>

PutBackMutant == UNCHANGED inner           \* `inner` is put back on success only
PutBack == inner' = IF op \in Taking THEN "some" ELSE inner

AttemptOk ==
  /\ phase = "attempt"
  /\ inner' = IF op \in Taking THEN "some" ELSE inner
  /\ Finish("ok")
  /\ UNCHANGED <<tries, errors, dropped>>

RetryableAlwaysMutant(e) == e = "temporary"        \* the backoff has no end
Retryable(e) == e = "temporary" /\ tries < MaxTimes

AttemptFails(e) ==
  /\ phase = "attempt"
  /\ errors' = Append(errors, e)
  /\ IF Retryable(e)
       THEN phase' = "sleep" /\ tries' = tries + 1 /\ UNCHANGED <<inner, op, result>>
       ELSE PutBack /\ Finish("persistent") /\ UNCHANGED tries
  /\ UNCHANGED dropped

SleepEndsMutant ==               \* every attempt starts a backoff of its own
  /\ phase = "sleep"
  /\ phase' = "attempt"
  /\ tries' = 0
  /\ UNCHANGED <<inner, op, result, errors, dropped>>

SleepEnds ==
  /\ phase = "sleep"
  /\ phase' = "attempt"
  /\ UNCHANGED <<inner, op, tries, result, errors, dropped>>

DropCall ==
  /\ op \in Taking \cup {"accessor"}
  /\ Finish("none")
  /\ dropped' = TRUE
  /\ UNCHANGED <<inner, tries, errors>>

-----------------------------------------------------------------------------
(* The wrapper on its own, over attempts that end in any way.               *)

CallRuns == AttemptOk \/ SleepEnds \/ \E e \in {"temporary", "fatal"} : AttemptFails(e)

RetryTaking(o) == CallTakes(o) \/ CallInBadState(o)
RetryInPlace(o) == CallInPlace(o) \/ CallPanics(o)

RetryRead == RetryTaking("read")
RetryWrite == \E o \in {"write", "close", "abort"} : RetryTaking(o)
RetryList == RetryTaking("next")
RetryDelete == RetryTaking("flush") \/ RetryInPlace("delete")
RetryBlocking == RetryInPlace("blocking")
RetryAccessor == CallInPlace("accessor")

WrapperNext ==
  \/ RetryRead \/ RetryWrite \/ RetryList \/ RetryDelete
  \/ RetryBlocking \/ RetryAccessor
  \/ CallRuns
  \/ DropCall

WrapperSpec == WrapperInit /\ [][WrapperNext]_wrapperVars /\ WF_wrapperVars(CallRuns)

-----------------------------------------------------------------------------
WrapperTypeOK ==
  /\ inner \in {"some", "none"}
  /\ op \in Taking \cup InPlace \cup {"none"}
  /\ phase \in {"idle", "attempt", "sleep"}
  /\ tries \in 0..MaxTimes
  /\ result \in {"none", "ok", "persistent", "badstate", "panic"}
  /\ errors \in Seq({"temporary", "fatal"})
  /\ dropped \in BOOLEAN

(* Only a dropped call leaves the wrapper without its inner value: however  *)
(* the attempts end, and in whichever order the methods are called, a later *)
(* call meets "retry layer is in bad state", or the unwrap of None, only    *)
(* if the futures were not polled to their end.                             *)
LostOnlyByDrop ==
  /\ (op = "none" /\ inner = "none") => dropped
  /\ result \in {"badstate", "panic"} => dropped

(* "If operation still failed, this layer will set error to Persistent      *)
(* which means error has been retried": the backoff belongs to the call.    *)
(* Whatever earlier calls of the wrapper used up, and wherever they were    *)
(* dropped, each call has MaxTimes retries of its own and no more, repeats  *)
(* no error that is not temporary, and a temporary error reaches the user   *)
(* as persistent only after all of them.                                    *)
EveryCallGetsItsRetries ==
  /\ Len(errors) <= MaxTimes + 1
  /\ \A i \in 1..(Len(errors) - 1) : errors[i] = "temporary"
  /\ (op = "none" /\ result = "persistent") =>
       (Len(errors) = MaxTimes + 1 \/ errors[Len(errors)] = "fatal")

(* A call is going on.  It returns or is dropped: the retries are bounded.  *)
Calling == op # "none"
CallsReturn == Calling ~> ~Calling

-----------------------------------------------------------------------------
(* RetryReader.                                                             *)

CONSTANTS
  N,             \* the length of the content
  Width,         \* bits of an integer of BytesRange; 64 in the code
  NoSize,        \* a size that is None
  Offsets,       \* the offsets that may be asked for
  Sizes,         \* the sizes that may be asked for, NoSize possibly among them
  EmptyRange,    \* "empty": the service sends nothing for an empty range;
                 \* "ignored": it ignores the header and sends everything
  MaxFailures    \* bound: the failures of a behaviour

(* A range begins in the content, may end behind it, and has an end that an *)
(* integer can hold: to_header adds offset and size.                        *)
RetryConstants ==
  /\ MaxTimes \in Nat /\ MaxFailures \in Nat
  /\ N \in Nat /\ Width \in Nat /\ 2^Width \in Nat /\ N < 2^Width
  /\ NoSize \notin Int
  /\ Offsets \subseteq 0..N
  /\ \A s \in Sizes \ {NoSize} : s \in Nat /\ N + s < 2^Width
  /\ EmptyRange \in {"empty", "ignored"}

ASSUME RetryAssumption == RetryConstants

Ranges == [off : Offsets, size : Sizes]

VARIABLES
  asked,       \* the range of the user
  range,       \* RetryReader::args.range(), the range that is left
  reader,      \* RetryReader::reader and what it holds, or NoReader
  announced,   \* the service announces the length of a body
  failures,    \* bound
  out,         \* history: what the user has read
  ended        \* history: the user has read an empty buffer

readerVars == <<asked, range, reader, announced, failures, out, ended>>
vars == <<wrapperVars, readerVars>>

NoReader == [pos |-> 0, end |-> 0, size |-> 0, open |-> FALSE]

AdvanceMutant(r, n) == [off |-> r.off + n, size |-> r.size]    \* the size is kept
Advance(r, n) ==
  [off  |-> (r.off + n) % 2^Width,
   size |-> IF r.size = NoSize THEN NoSize ELSE (r.size - n) % 2^Width]

(* The body the service sends for a range, as the positions before its      *)
(* first and at its last byte, under a CompleteReader that expects `size`.  *)
Body(r) ==
  LET first == IF r.size = 0 /\ EmptyRange = "ignored" THEN 0 ELSE r.off
      stop == IF r.size = NoSize \/ (r.size = 0 /\ EmptyRange = "ignored") THEN N
               ELSE Min({N, r.off + r.size})
  IN [pos |-> first, end |-> stop, size |-> r.size, open |-> TRUE]

Init ==
  /\ WrapperInit
  /\ asked \in Ranges
  /\ range = asked
  /\ reader = Body(asked)
  /\ announced \in BOOLEAN
  /\ failures = 0
  /\ out = <<>>
  /\ ended = FALSE

Read == CallTakes("read") /\ UNCHANGED readerVars
ReadInBadState == CallInBadState("read") /\ UNCHANGED readerVars

ReopenMutant ==                \* the reader that was opened is not kept
  /\ phase = "attempt"
  /\ ~reader.open
  /\ range.off < N \/ range.size = 0
  /\ UNCHANGED vars

Reopen ==
  /\ phase = "attempt"
  /\ ~reader.open
  /\ range.off < N \/ range.size = 0
  /\ reader' = Body(range)
  /\ UNCHANGED <<wrapperVars, asked, range, announced, failures, out, ended>>

(* A request behind the last byte: an error of the service, or no bytes.    *)
ReopenBehindEnd ==
  /\ phase = "attempt"
  /\ ~reader.open
  /\ range.off >= N /\ range.size # 0
  /\ \/ AttemptFails("fatal") /\ UNCHANGED reader
     \/ reader' = [Body(range) EXCEPT !.end = range.off] /\ UNCHANGED wrapperVars
  /\ UNCHANGED <<asked, range, announced, failures, out, ended>>

(* The attempt fails: the request, the connection, or a timeout below.      *)
Breaks(e) ==
  /\ failures < MaxFailures
  /\ failures' = failures + 1
  /\ AttemptFails(e)
  /\ reader' = NoReader
  /\ UNCHANGED <<asked, range, announced, out, ended>>

ReadChunkMutant ==             \* the range is not advanced
  /\ phase = "attempt"
  /\ reader.open
  /\ \E n \in 1..reader.end - reader.pos :
       /\ reader' = [reader EXCEPT !.pos = @ + n,
                                   !.size = IF @ = NoSize THEN NoSize ELSE @ - n]
       /\ out' = out \o [i \in 1..n |-> reader.pos + i]
  /\ AttemptOk
  /\ UNCHANGED <<asked, range, announced, failures, ended>>

(* CompleteReader::read counts in `size`: it may become negative.           *)
ReadChunk ==
  /\ phase = "attempt"
  /\ reader.open
  /\ \E n \in 1..reader.end - reader.pos :
       /\ reader' = [reader EXCEPT !.pos = @ + n,
                                   !.size = IF @ = NoSize THEN NoSize ELSE @ - n]
       /\ range' = Advance(range, n)
       /\ out' = out \o [i \in 1..n |-> reader.pos + i]
  /\ AttemptOk
  /\ UNCHANGED <<asked, announced, failures, ended>>

CheckMutant == TRUE
Check == reader.size \in {NoSize, 0}         \* CompleteReader::check

BodyEnded ==
  IF Check THEN AttemptOk /\ ended' = TRUE /\ UNCHANGED reader
  ELSE AttemptFails("fatal") /\ reader' = NoReader /\ UNCHANGED ended

BodyEnds ==
  /\ phase = "attempt"
  /\ reader.open
  /\ reader.pos = reader.end
  /\ BodyEnded
  /\ UNCHANGED <<asked, range, announced, failures, out>>

(* The body ends too early.  HttpBody::check finds that out where the       *)
(* length was announced, and CompleteReader::check where the range has a    *)
(* size.                                                                    *)
BodyIsCut ==
  /\ phase = "attempt"
  /\ reader.open
  /\ reader.pos < reader.end
  /\ failures < MaxFailures
  /\ failures' = failures + 1
  /\ IF announced
       THEN AttemptFails("temporary") /\ reader' = NoReader /\ UNCHANGED ended
       ELSE BodyEnded
  /\ UNCHANGED <<asked, range, announced, out>>

Sleeps == SleepEnds /\ UNCHANGED readerVars
DropRead == DropCall /\ UNCHANGED readerVars

ReadRuns ==
  \/ Reopen \/ ReopenBehindEnd \/ ReadChunk \/ BodyEnds \/ BodyIsCut \/ Sleeps
  \/ \E e \in {"temporary", "fatal"} : phase = "attempt" /\ Breaks(e)

Next == Read \/ ReadInBadState \/ ReadRuns \/ DropRead

Spec == Init /\ [][Next]_vars /\ WF_vars(ReadRuns)

-----------------------------------------------------------------------------
(* What the user has asked for.                                             *)
WantedEnd == IF asked.size = NoSize THEN N ELSE Min({N, asked.off + asked.size})
Wanted == [i \in 1..(WantedEnd - asked.off) |-> asked.off + i]

TypeOK ==
  /\ WrapperTypeOK
  /\ range.off \in 0..2^Width - 1
  /\ range.size \in (0..2^Width - 1) \cup {NoSize}
  /\ failures \in 0..MaxFailures
  /\ range.off = asked.off + Len(out)

(* Whatever fails, is retried, repeated by the user or dropped half way,    *)
(* the buffers that were returned are the bytes from the start of the       *)
(* range, in order, none missing, none twice, none from behind its end.     *)
(* "Should be empty": that is also so for the read at the end of the range  *)
(* that is repeated.                                                        *)
ReadsThePrefix ==
  /\ Len(out) <= Len(Wanted)
  /\ out = SubSeq(Wanted, 1, Len(out))

(* An empty buffer means that everything was read, unless neither the       *)
(* service said how long the body is nor the user how long the range is.    *)
EmptyMeansEnd == (ended /\ (announced \/ asked.size # NoSize)) => out = Wanted

(* A read that is retried is as good as one that is not: what it returns is *)
(* the range from its start, and the end it reports is the end.             *)
ReadsExactly == ReadsThePrefix /\ EmptyMeansEnd
=============================================================================
