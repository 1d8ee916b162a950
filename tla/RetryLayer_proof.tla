-------------------------- MODULE RetryLayer_proof --------------------------
(***************************************************************************)
(* Proofs about RetryLayer: whatever fails, is retried, repeated or         *)
(* dropped, what RetryReader returns is the beginning of the range, and a   *)
(* RetryWrapper loses its inner value only by a dropped call; for every     *)
(* content, range, number of delays and number of failures.                 *)
(*                                                                          *)
(* The invariant says that the range that is left, the reader that is open  *)
(* and the bytes that were returned meet at one position.  EmptyRange is    *)
(* "empty" here: a service that ignores the header of an empty range sends  *)
(* bytes that were not asked for.                                           *)
(*                                                                          *)
(* And about LocalReader, what the retried reader of a file system reads:   *)
(* short reads and a file that changes under the reader leave a prefix of   *)
(* the range, and all of a bounded one or an error.                         *)
(*                                                                          *)
(* And about PageLister, whose pages are asked for again after a failure:   *)
(* each entry is returned once, and all of them before the list ends.       *)
(***************************************************************************)
EXTENDS RetryLayer, SequenceTheorems, TLAPS

(* The smaller of two numbers.                                              *)
LEMMA MinOfTwo ==
  ASSUME NEW m \in Int, NEW n \in Int
  PROVE  Min({m, n}) = IF m <= n THEN m ELSE n
<1> DEFINE x == IF m <= n THEN m ELSE n
<1>1. x \in {m, n} /\ \A y \in {m, n} : x =< y
  OBVIOUS
<1>2. \A z \in {m, n} : (\A y \in {m, n} : z =< y) => z = x
  OBVIOUS
<1>3. Min({m, n}) \in {m, n} /\ \A y \in {m, n} : Min({m, n}) =< y
  BY <1>1 DEF Min
<1> QED
  BY <1>2, <1>3

(* No number below the modulus is changed by it.                            *)
LEMMA SmallModulo ==
  ASSUME NEW m \in Nat, NEW n \in 0..(m - 1)
  PROVE  n % m = n
  OBVIOUS

(* The bytes after the k-th.                                                *)
LEMMA Numbered ==
  ASSUME NEW k \in Nat, NEW n \in Nat
  PROVE  LET s == [i \in 1..n |-> k + i]
         IN s \in Seq(Nat) /\ Len(s) = n /\ \A i \in 1..n : s[i] = k + i
  OBVIOUS

-----------------------------------------------------------------------------
(* The wrapper.                                                             *)

(* A call of a taking method has taken `inner`, and no other has.  While a  *)
(* call goes on, each of its attempts failed with a temporary error and     *)
(* took one delay.                                                          *)
WrapperInv ==
  /\ WrapperTypeOK
  /\ inner = "none" => (dropped \/ op \in Taking)
  /\ LostOnlyByDrop
  /\ op = "none" <=> phase = "idle"
  /\ op # "none" => Len(errors) = tries
  /\ op # "none" => \A i \in 1..Len(errors) : errors[i] = "temporary"
  /\ EveryCallGetsItsRetries

(* It holds at the start.                                                   *)
LEMMA WrapperStarts == WrapperInit => WrapperInv
<1> SUFFICES ASSUME WrapperInit PROVE WrapperInv
  OBVIOUS
<1>1. 0 \in 0..MaxTimes /\ MaxTimes \in Nat
  BY RetryAssumption DEF RetryConstants
<1>2. errors = <<>> /\ op = "none" /\ result = "none"
  BY DEF WrapperInit
<1>3. errors \in Seq({"temporary", "fatal"}) /\ EveryCallGetsItsRetries
  BY <1>1, <1>2 DEF EveryCallGetsItsRetries
<1> QED
  BY <1>1, <1>3, Zenon DEF WrapperInit, WrapperInv, WrapperTypeOK, LostOnlyByDrop

(* A failed attempt adds its error to those of the call, and ends the call  *)
(* if the error is not temporary or the backoff is spent.                   *)
LEMMA FailureIsCounted ==
  ASSUME WrapperInv, NEW e \in {"temporary", "fatal"}, AttemptFails(e)
  PROVE  /\ errors' \in Seq({"temporary", "fatal"})
         /\ EveryCallGetsItsRetries'
         /\ op' # "none" => /\ Len(errors') = tries'
                            /\ \A i \in 1..Len(errors') : errors'[i] = "temporary"
<1>1. /\ tries \in 0..MaxTimes /\ MaxTimes \in Nat /\ errors \in Seq({"temporary", "fatal"})
      /\ op # "none" /\ errors' = Append(errors, e)
  BY RetryAssumption DEF WrapperInv, WrapperTypeOK, RetryConstants, AttemptFails
<1>2. Len(errors) = tries /\ \A i \in 1..Len(errors) : errors[i] = "temporary"
  BY <1>1 DEF WrapperInv
<1>3. /\ errors' \in Seq({"temporary", "fatal"})
      /\ Len(errors') = tries + 1 /\ errors'[tries + 1] = e
      /\ \A i \in 1..tries : errors'[i] = "temporary"
  BY <1>1, <1>2
<1>4. CASE Retryable(e)
  <2>1. op' = op /\ tries' = tries + 1 /\ e = "temporary" /\ tries < MaxTimes
    BY <1>4 DEF AttemptFails, Retryable
  <2>2. \A i \in 1..(tries + 1) : errors'[i] = "temporary"
    BY <1>1, <1>3, <2>1
  <2> QED
    BY <1>1, <1>3, <2>1, <2>2 DEF EveryCallGetsItsRetries
<1>5. CASE ~Retryable(e)
  <2>1. op' = "none" /\ (e = "fatal" \/ tries = MaxTimes)
    BY <1>1, <1>5 DEF AttemptFails, Retryable, Finish
  <2> QED
    BY <1>1, <1>3, <2>1 DEF EveryCallGetsItsRetries
<1> QED
  BY <1>4, <1>5

(* What each step of the wrapper does, the steps of RetryReader included.   *)
LEMMA WrapperSteps ==
  ASSUME WrapperInv,
         \/ \E o \in Taking : CallTakes(o) \/ CallInBadState(o)
         \/ \E o \in InPlace : CallInPlace(o) \/ CallPanics(o)
         \/ AttemptOk \/ SleepEnds \/ DropCall
         \/ \E e \in {"temporary", "fatal"} : AttemptFails(e)
         \/ UNCHANGED wrapperVars
  PROVE  WrapperInv'
<1> USE RetryAssumption
    DEF WrapperInv, WrapperTypeOK, LostOnlyByDrop, Taking, InPlace, RetryConstants
<1>1. ASSUME NEW o \in Taking \cup InPlace, CallTakes(o) \/ CallInPlace(o),
             inner' \in {"some", "none"}, inner' = "none" => (dropped \/ o \in Taking)
      PROVE  WrapperInv'
  <2>1. errors' = <<>> /\ tries' = 0 /\ op' = o /\ phase' = "attempt"
        /\ result' = result /\ dropped' = dropped
    BY <1>1 DEF CallTakes, CallInPlace, Begin
  <2>2. EveryCallGetsItsRetries' /\ errors' \in Seq({"temporary", "fatal"}) /\ Len(errors') = 0
    BY <2>1 DEF EveryCallGetsItsRetries
  <2> QED BY <1>1, <2>1, <2>2
<1>2. ASSUME NEW o \in Taking, CallInBadState(o) PROVE WrapperInv'
  BY <1>2 DEF CallInBadState, Finish, EveryCallGetsItsRetries
<1>3. ASSUME NEW o \in Taking, CallTakes(o) PROVE WrapperInv'
  BY <1>1, <1>3 DEF CallTakes
<1>4. ASSUME NEW o \in InPlace, CallPanics(o) PROVE WrapperInv'
  BY <1>4 DEF CallPanics, Finish, EveryCallGetsItsRetries
<1>5. CASE AttemptOk
  BY <1>5 DEF AttemptOk, Finish, EveryCallGetsItsRetries
<1>6. CASE SleepEnds
  BY <1>6 DEF SleepEnds, EveryCallGetsItsRetries
<1>7. CASE DropCall
  BY <1>7 DEF DropCall, Finish, EveryCallGetsItsRetries
<1>8. ASSUME NEW e \in {"temporary", "fatal"}, AttemptFails(e) PROVE WrapperInv'
  <2>1. CASE Retryable(e)
    BY <1>8, <2>1, FailureIsCounted DEF AttemptFails, Retryable
  <2>2. CASE ~Retryable(e)
    BY <1>8, <2>2, FailureIsCounted DEF AttemptFails, PutBack, Finish
  <2> QED BY <2>1, <2>2
<1>9. CASE UNCHANGED wrapperVars
  BY <1>9 DEF wrapperVars, EveryCallGetsItsRetries
<1>10. ASSUME NEW o \in InPlace, CallInPlace(o) PROVE WrapperInv'
  BY <1>1, <1>10 DEF CallInPlace
<1> QED
  BY <1>2, <1>3, <1>4, <1>5, <1>6, <1>7, <1>8, <1>9, <1>10

(* Each method of a wrapper and of an accessor takes one of these steps.    *)
LEMMA WrapperNextSteps ==
  ASSUME WrapperInv, [WrapperNext]_wrapperVars
  PROVE  WrapperInv'
<1>1. CASE RetryRead \/ RetryWrite \/ RetryList \/ RetryDelete
  BY <1>1, WrapperSteps
     DEF RetryRead, RetryWrite, RetryList, RetryDelete, RetryTaking, RetryInPlace, Taking,
         InPlace
<1>2. CASE RetryBlocking \/ RetryAccessor
  BY <1>2, WrapperSteps DEF RetryBlocking, RetryAccessor, RetryInPlace, InPlace
<1>3. CASE CallRuns \/ DropCall \/ UNCHANGED wrapperVars
  BY <1>3, WrapperSteps DEF CallRuns
<1> QED
  BY <1>1, <1>2, <1>3 DEF WrapperNext

(* However the attempts of every method end, and in whichever order the     *)
(* methods are called, only a dropped call leaves a RetryWrapper without    *)
(* its inner value, so that "retry layer is in bad state" and the unwrap of *)
(* None are met only after one.                                             *)
THEOREM WrapperKeepsInner == WrapperSpec => []LostOnlyByDrop
<1>1. WrapperInv /\ [WrapperNext]_wrapperVars => WrapperInv'
  BY WrapperNextSteps
<1>2. WrapperInv => LostOnlyByDrop
  BY DEF WrapperInv
<1> QED
  BY <1>1, <1>2, WrapperStarts, PTL DEF WrapperSpec

(* Of every method, in any order of calls, failures and drops: a call has   *)
(* the MaxTimes retries of its own backoff, no more and, for temporary      *)
(* errors, no fewer before the user sees "Persistent".                      *)
THEOREM WrapperRetriesEveryCall == WrapperSpec => []EveryCallGetsItsRetries
<1>1. WrapperInv /\ [WrapperNext]_wrapperVars => WrapperInv'
  BY WrapperNextSteps
<1>2. WrapperInv => EveryCallGetsItsRetries
  BY DEF WrapperInv
<1> QED
  BY <1>1, <1>2, WrapperStarts, PTL DEF WrapperSpec

-----------------------------------------------------------------------------
(* RetryReader.                                                             *)

(* The range after what was returned, and a reader at its beginning.        *)
LeftOver ==
  [off  |-> asked.off + Len(out),
   size |-> IF asked.size = NoSize THEN NoSize ELSE asked.size - Len(out)]
OpenReader == [pos |-> range.off, end |-> WantedEnd, size |-> range.size, open |-> TRUE]

(* The range that is left and the reader, if there is one, continue what    *)
(* was returned.                                                            *)
ReaderInv ==
  /\ asked \in Ranges
  /\ announced \in BOOLEAN /\ ended \in BOOLEAN
  /\ failures \in 0..MaxFailures
  /\ out \in Seq(Nat) /\ Len(out) <= WantedEnd - asked.off
  /\ \A i \in 1..Len(out) : out[i] = asked.off + i
  /\ range = LeftOver
  /\ reader \in {NoReader, OpenReader}
  /\ (ended /\ (announced \/ asked.size # NoSize)) => Len(out) = WantedEnd - asked.off

IInv == WrapperInv /\ ReaderInv

(* What the user asks for lies in the content.                              *)
LEMMA AskedFacts ==
  ASSUME asked \in Ranges
  PROVE  /\ N \in Nat /\ 2^Width \in Nat /\ N < 2^Width /\ NoSize \notin Int
         /\ asked.off \in 0..N
         /\ asked.size # NoSize => asked.size \in Nat /\ N + asked.size < 2^Width
         /\ WantedEnd \in asked.off..N
         /\ asked.size = NoSize => WantedEnd = N
         /\ asked.size # NoSize =>
              WantedEnd = IF N <= asked.off + asked.size THEN N ELSE asked.off + asked.size
<1>1. /\ N \in Nat /\ 2^Width \in Nat /\ N < 2^Width /\ NoSize \notin Int
      /\ asked.off \in 0..N
      /\ asked.size # NoSize => asked.size \in Nat /\ N + asked.size < 2^Width
  BY RetryAssumption DEF RetryConstants, Ranges
<1>2. CASE asked.size = NoSize
  BY <1>1, <1>2 DEF WantedEnd
<1>3. CASE asked.size # NoSize
  BY <1>1, <1>3, MinOfTwo DEF WantedEnd
<1> QED
  BY <1>1, <1>2, <1>3

(* A service that honours the range sends, for the range that is left, what *)
(* is left.                                                                 *)
LEMMA BodyOfTheRest ==
  ASSUME ReaderInv, EmptyRange = "empty"
  PROVE  Body(range) = OpenReader
<1>1. /\ N \in Nat /\ NoSize \notin Int /\ asked.off \in 0..N /\ WantedEnd \in asked.off..N
      /\ asked.size # NoSize => asked.size \in Nat
      /\ asked.size = NoSize => WantedEnd = N
      /\ asked.size # NoSize =>
           WantedEnd = IF N <= asked.off + asked.size THEN N ELSE asked.off + asked.size
      /\ Len(out) \in Nat
  BY AskedFacts DEF ReaderInv
<1>2. CASE asked.size = NoSize
  BY <1>1, <1>2 DEF ReaderInv, Body, LeftOver, OpenReader
<1>3. CASE asked.size # NoSize
  <2>1. range.off + range.size = asked.off + asked.size /\ range.size \in Int /\ range.off \in Int
    BY <1>1, <1>3 DEF ReaderInv, LeftOver
  <2>2. Min({N, range.off + range.size}) = WantedEnd
    BY <1>1, <1>3, <2>1, MinOfTwo
  <2> QED
    BY <1>1, <2>1, <2>2 DEF Body, OpenReader
<1> QED
  BY <1>2, <1>3

(* BytesRange::advance wraps nothing round.                                 *)
LEMMA AdvanceIsExact ==
  ASSUME ReaderInv, NEW n \in Nat, Len(out) + n <= WantedEnd - asked.off
  PROVE  Advance(range, n) =
           [off  |-> asked.off + Len(out) + n,
            size |-> IF asked.size = NoSize THEN NoSize ELSE asked.size - Len(out) - n]
<1>1. /\ N \in Nat /\ 2^Width \in Nat /\ N < 2^Width /\ NoSize \notin Int
      /\ asked.off \in 0..N /\ WantedEnd \in asked.off..N /\ Len(out) \in Nat
      /\ asked.size # NoSize => /\ asked.size \in Nat /\ N + asked.size < 2^Width
                                /\ WantedEnd <= asked.off + asked.size
  BY AskedFacts DEF ReaderInv
<1>2. range.off = asked.off + Len(out) /\ asked.off + Len(out) + n \in 0..(2^Width - 1)
  BY <1>1, SMTT(30) DEF ReaderInv, LeftOver
<1>3. (range.off + n) % 2^Width = asked.off + Len(out) + n
  BY <1>1, <1>2, SmallModulo
<1>4. CASE asked.size = NoSize
  BY <1>3, <1>4 DEF Advance, ReaderInv, LeftOver
<1>5. CASE asked.size # NoSize
  <2>1. range.size = asked.size - Len(out) /\ range.size # NoSize
    BY <1>1, <1>5 DEF ReaderInv, LeftOver
  <2>2. asked.size - Len(out) - n \in 0..(2^Width - 1)
    <3>1. asked.size \in Nat /\ N + asked.size < 2^Width /\ WantedEnd - asked.off <= asked.size
      BY <1>1, <1>5
    <3>2. Len(out) + n <= asked.size
      BY <1>1, <3>1
    <3> QED
      BY <1>1, <3>1, <3>2, SMTT(30)
  <2>3. (range.size - n) % 2^Width = asked.size - Len(out) - n
    BY <1>1, <2>1, <2>2, SmallModulo
  <2> QED
    BY <1>3, <1>5, <2>1, <2>3 DEF Advance
<1> QED
  BY <1>4, <1>5

-----------------------------------------------------------------------------
(* The first reader is opened at the range that is asked for.               *)
LEMMA ReaderStarts ==
  ASSUME Init, EmptyRange = "empty"
  PROVE  ReaderInv
<1>1. asked \in Ranges /\ out = <<>> /\ ended = FALSE /\ failures = 0 /\ announced \in BOOLEAN
  BY DEF Init
<1>2. range = LeftOver
  <2>1. Len(out) = 0
    BY <1>1
  <2>2. asked = [off |-> asked.off, size |-> asked.size]
    BY <1>1 DEF Ranges
  <2>3. asked.off + 0 = asked.off /\ (asked.size # NoSize => asked.size - 0 = asked.size)
    BY <1>1, AskedFacts
  <2> QED
    BY <2>1, <2>2, <2>3 DEF Init, LeftOver
<1>3. 0 \in 0..MaxFailures /\ 0 <= WantedEnd - asked.off /\ <<>> \in Seq(Nat) /\ Len(<<>>) = 0
  BY <1>1, AskedFacts, RetryAssumption DEF RetryConstants
<1>4. reader = OpenReader
  <2>1. /\ N \in Nat /\ NoSize \notin Int /\ asked.off \in 0..N
        /\ asked.size # NoSize => asked.size \in Nat
    BY <1>1, AskedFacts
  <2> QED
    BY <2>1 DEF Init, Body, OpenReader, WantedEnd
<1>5. out \in Seq(Nat) /\ Len(out) <= WantedEnd - asked.off
      /\ \A i \in 1..Len(out) : out[i] = asked.off + i
  BY <1>1, <1>3
<1>6. failures \in 0..MaxFailures
  BY <1>1, <1>3
<1> QED
  BY <1>1, <1>2, <1>4, <1>5, <1>6, Zenon DEF ReaderInv

(* Steps that leave RetryReader alone.                                      *)
LEMMA ReaderStutters ==
  ASSUME ReaderInv, UNCHANGED readerVars
  PROVE  ReaderInv'
  BY DEF ReaderInv, readerVars, LeftOver, OpenReader, WantedEnd, Ranges, NoReader

(* Steps that open or drop the reader, or count a failure.                  *)
LEMMA ReaderChanges ==
  ASSUME ReaderInv, UNCHANGED <<asked, range, announced, out, ended>>,
         reader' \in {NoReader, OpenReader, reader}, failures' \in 0..MaxFailures
  PROVE  ReaderInv'
  BY DEF ReaderInv, LeftOver, OpenReader, WantedEnd, Ranges, NoReader

(* The user reads the end: nothing was left.                                *)
LEMMA ReaderEnds ==
  ASSUME ReaderInv, UNCHANGED <<asked, range, announced, out, reader>>, failures' \in 0..MaxFailures,
         ended' = TRUE,
         (announced \/ asked.size # NoSize) => Len(out) = WantedEnd - asked.off
  PROVE  ReaderInv'
  BY DEF ReaderInv, LeftOver, OpenReader, WantedEnd, Ranges, NoReader

(* Bytes are returned.                                                      *)
LEMMA ReaderReturns ==
  ASSUME ReaderInv, ReadChunk
  PROVE  ReaderInv'
<1>1. reader = OpenReader
  BY DEF ReaderInv, ReadChunk, NoReader
<1>2. PICK n \in 1..(reader.end - reader.pos) :
        /\ reader' = [reader EXCEPT !.pos = @ + n,
                                    !.size = IF @ = NoSize THEN NoSize ELSE @ - n]
        /\ range' = Advance(range, n)
        /\ out' = out \o [i \in 1..n |-> reader.pos + i]
  BY DEF ReadChunk
<1>3. UNCHANGED <<asked, announced, failures, ended>>
  BY DEF ReadChunk
<1>4. /\ NoSize \notin Int /\ N \in Nat
      /\ asked.off \in 0..N /\ WantedEnd \in asked.off..N /\ Len(out) \in Nat
      /\ asked.size # NoSize => asked.size \in Nat
      /\ range.off = asked.off + Len(out)
      /\ range.size = IF asked.size = NoSize THEN NoSize ELSE asked.size - Len(out)
  BY AskedFacts DEF ReaderInv, LeftOver
<1>5. n \in Nat /\ n >= 1 /\ Len(out) + n <= WantedEnd - asked.off
  BY <1>1, <1>2, <1>4 DEF OpenReader
<1>6. range' = [off  |-> asked.off + Len(out) + n,
                size |-> IF asked.size = NoSize THEN NoSize ELSE asked.size - Len(out) - n]
  BY <1>2, <1>5, AdvanceIsExact
<1>7. /\ out' \in Seq(Nat) /\ Len(out') = Len(out) + n
      /\ \A i \in 1..Len(out') : out'[i] = asked.off + i
  <2> DEFINE more == [i \in 1..n |-> range.off + i]
  <2>1. more \in Seq(Nat) /\ Len(more) = n
    BY <1>4, <1>5
  <2>2. out' = out \o more
    BY <1>1, <1>2 DEF OpenReader
  <2>3. out \in Seq(Nat) /\ \A i \in 1..Len(out) : out[i] = asked.off + i
    BY DEF ReaderInv
  <2>4. out' \in Seq(Nat) /\ Len(out') = Len(out) + n
    BY <2>1, <2>2, <2>3
  <2>5. ASSUME NEW i \in 1..Len(out')
        PROVE  out'[i] = asked.off + i
    <3>1. CASE i <= Len(out)
      BY <2>1, <2>2, <2>3, <2>4, <2>5, <3>1
    <3>2. CASE i > Len(out)
      <4>1. i - Len(out) \in 1..n
        BY <1>4, <1>5, <2>4, <2>5, <3>2
      <4>2. out'[i] = more[i - Len(out)]
        BY <2>1, <2>2, <2>3, <2>4, <2>5, <3>2
      <4> QED
        BY <1>4, <4>1, <4>2
    <3> QED
      BY <1>4, <2>4, <2>5, <3>1, <3>2
  <2> QED
    BY <2>4, <2>5
<1>8. WantedEnd' = WantedEnd
  BY <1>3 DEF WantedEnd
<1>9. range' = LeftOver'
  <2>1. asked.off + (Len(out) + n) = asked.off + Len(out) + n
    BY <1>4, <1>5
  <2>2. asked.size # NoSize => asked.size - (Len(out) + n) = asked.size - Len(out) - n
    BY <1>4, <1>5
  <2> QED
    BY <1>3, <1>6, <1>7, <2>1, <2>2 DEF LeftOver
<1>10. reader' = OpenReader'
  <2>1. reader.pos + n = asked.off + Len(out) + n /\ reader.end = WantedEnd /\ reader.open = TRUE
    BY <1>1, <1>4 DEF OpenReader
  <2>2. (IF reader.size = NoSize THEN NoSize ELSE reader.size - n)
          = IF asked.size = NoSize THEN NoSize ELSE asked.size - Len(out) - n
    BY <1>1, <1>4, <1>5 DEF OpenReader
  <2>3. reader' = [pos |-> reader.pos + n, end |-> reader.end,
                   size |-> IF reader.size = NoSize THEN NoSize ELSE reader.size - n,
                   open |-> reader.open]
    BY <1>1, <1>2 DEF OpenReader
  <2> QED
    BY <1>6, <1>8, <2>1, <2>2, <2>3 DEF OpenReader
<1>11. ~(ended /\ (announced \/ asked.size # NoSize))
  BY <1>4, <1>5 DEF ReaderInv
<1> QED
  BY <1>3, <1>5, <1>7, <1>8, <1>9, <1>10, <1>11 DEF ReaderInv, Ranges

-----------------------------------------------------------------------------
(* A body ends where the range ends, or CompleteReader finds out, or nobody *)
(* knows how long it should have been.                                      *)
LEMMA ReaderAtTheEnd ==
  ASSUME ReaderInv, BodyEnds \/ BodyIsCut
  PROVE  ReaderInv'
<1>1. reader = OpenReader
  BY DEF ReaderInv, BodyEnds, BodyIsCut, NoReader
<1>2. /\ NoSize \notin Int /\ N \in Nat
      /\ asked.off \in 0..N /\ WantedEnd \in asked.off..N /\ Len(out) \in Nat
      /\ Len(out) <= WantedEnd - asked.off
      /\ asked.size # NoSize => asked.size \in Nat /\ WantedEnd <= asked.off + asked.size
      /\ range.off = asked.off + Len(out)
      /\ range.size = IF asked.size = NoSize THEN NoSize ELSE asked.size - Len(out)
  BY AskedFacts DEF ReaderInv, LeftOver
<1>3. failures' \in 0..MaxFailures
  BY RetryAssumption DEF RetryConstants, ReaderInv, BodyEnds, BodyIsCut
<1>4. UNCHANGED <<asked, range, announced, out>>
  BY DEF BodyEnds, BodyIsCut
<1>5. CASE reader' = NoReader /\ UNCHANGED ended
  BY <1>3, <1>4, <1>5, ReaderChanges
<1>6. CASE BodyEnded /\ Check /\ (reader.pos = reader.end \/ ~announced)
  <2>1. (announced \/ asked.size # NoSize) => Len(out) = WantedEnd - asked.off
    <3>1. CASE reader.pos = reader.end
      BY <1>1, <1>2, <3>1 DEF OpenReader
    <3>2. CASE ~announced /\ asked.size # NoSize
      BY <1>1, <1>2, <1>6, <3>2 DEF OpenReader, Check
    <3> QED
      BY <1>6, <3>1, <3>2
  <2>2. ended' = TRUE /\ UNCHANGED reader
    BY <1>6 DEF BodyEnded
  <2> QED
    BY <1>3, <1>4, <2>1, <2>2, ReaderEnds
<1> QED
  BY <1>5, <1>6 DEF BodyEnds, BodyIsCut, BodyEnded

(* Every step of RetryReader is one of its RetryWrapper, or none.           *)
LEMMA StepsOfTheWrapper == [Next]_vars => [WrapperNext]_wrapperVars
<1> USE DEF WrapperNext, CallRuns
<1>1. CASE Read \/ ReadInBadState \/ Sleeps \/ DropRead
  BY <1>1 DEF Read, ReadInBadState, Sleeps, DropRead, RetryRead, RetryTaking
<1>2. CASE Reopen \/ ReopenBehindEnd
  BY <1>2 DEF Reopen, ReopenBehindEnd
<1>3. CASE ReadChunk \/ \E e \in {"temporary", "fatal"} : Breaks(e)
  BY <1>3 DEF ReadChunk, Breaks
<1>4. CASE BodyEnds \/ BodyIsCut
  BY <1>4 DEF BodyEnds, BodyIsCut, BodyEnded
<1>5. CASE UNCHANGED vars
  BY <1>5 DEF vars
<1> QED
  BY <1>1, <1>2, <1>3, <1>4, <1>5 DEF Next, ReadRuns

(* RetryReader uses RetryWrapper as WrapperSpec lets it be used.            *)
THEOREM ReaderUsesTheWrapper == Spec => WrapperInit /\ [][WrapperNext]_wrapperVars
<1>1. Init => WrapperInit
  BY DEF Init
<1> QED
  BY <1>1, StepsOfTheWrapper, PTL DEF Spec

(* Every step keeps the two invariants.                                     *)
LEMMA Step ==
  ASSUME IInv, EmptyRange = "empty", [Next]_vars
  PROVE  IInv'
<1> USE DEF IInv
<1>0. WrapperInv'
  BY StepsOfTheWrapper, WrapperNextSteps
<1>1. CASE Read \/ ReadInBadState \/ Sleeps \/ DropRead
  BY <1>0, <1>1, ReaderStutters DEF Read, ReadInBadState, Sleeps, DropRead
<1>2. CASE Reopen
  <2>1. reader' = OpenReader
    BY <1>2, BodyOfTheRest DEF Reopen
  <2> QED
    BY <1>0, <1>2, <2>1, ReaderChanges DEF Reopen, ReaderInv
<1>3. CASE ReopenBehindEnd
  <2>1. range.off = WantedEnd
    BY <1>3, AskedFacts DEF ReopenBehindEnd, ReaderInv, LeftOver
  <2>2. reader' \in {OpenReader, reader}
    BY <1>3, <2>1, BodyOfTheRest DEF ReopenBehindEnd, OpenReader
  <2> QED
    BY <1>0, <1>3, <2>2, ReaderChanges DEF ReopenBehindEnd, ReaderInv
<1>4. ASSUME NEW e \in {"temporary", "fatal"}, Breaks(e)
      PROVE  IInv'
  <2>1. failures' \in 0..MaxFailures
    BY <1>4, RetryAssumption DEF RetryConstants, ReaderInv, Breaks
  <2> QED
    BY <1>0, <1>4, <2>1, ReaderChanges DEF Breaks
<1>5. CASE ReadChunk
  BY <1>0, <1>5, ReaderReturns
<1>6. CASE BodyEnds \/ BodyIsCut
  BY <1>0, <1>6, ReaderAtTheEnd
<1>7. CASE UNCHANGED vars
  BY <1>0, <1>7, ReaderStutters DEF vars
<1> QED
  BY <1>1, <1>2, <1>3, <1>4, <1>5, <1>6, <1>7 DEF Next, ReadRuns

(* The inductive invariant of RetryReader under its RetryWrapper.           *)
THEOREM Invariant ==
  ASSUME EmptyRange = "empty"
  PROVE  Spec => []IInv
<1>1. Init => IInv
  BY WrapperStarts, ReaderStarts DEF IInv, Init
<1>2. IInv /\ [Next]_vars => IInv'
  BY Step
<1> QED
  BY <1>1, <1>2, PTL DEF Spec

(* What the invariant says of the range that is left.                       *)
LEMMA RangeTyped == IInv => TypeOK
<1> SUFFICES ASSUME IInv PROVE TypeOK
  OBVIOUS
<1>1. /\ N \in Nat /\ 2^Width \in Nat /\ N < 2^Width /\ NoSize \notin Int
      /\ asked.off \in 0..N /\ WantedEnd \in asked.off..N /\ Len(out) \in Nat
      /\ Len(out) <= WantedEnd - asked.off
      /\ asked.size # NoSize => /\ asked.size \in Nat /\ N + asked.size < 2^Width
                                /\ WantedEnd <= asked.off + asked.size
      /\ range.off = asked.off + Len(out)
      /\ range.size = IF asked.size = NoSize THEN NoSize ELSE asked.size - Len(out)
  BY AskedFacts DEF IInv, ReaderInv, LeftOver
<1>2. range.off \in 0..2^Width - 1
  BY <1>1
<1>3. range.size \in (0..2^Width - 1) \cup {NoSize}
  <2>1. CASE asked.size = NoSize
    BY <1>1, <2>1
  <2>2. CASE asked.size # NoSize
    <3>1. asked.size \in Nat /\ N + asked.size < 2^Width /\ Len(out) <= asked.size
      BY <1>1, <2>2
    <3> QED
      BY <1>1, <2>2, <3>1, SMTT(30)
  <2> QED
    BY <2>1, <2>2
<1> QED
  BY <1>1, <1>2, <1>3 DEF IInv, WrapperInv, ReaderInv, TypeOK

(* The invariant says byte by byte what the property says of the whole.     *)
LEMMA OutIsPrefix == IInv => ReadsThePrefix /\ EmptyMeansEnd
<1> SUFFICES ASSUME IInv PROVE ReadsThePrefix /\ EmptyMeansEnd
  OBVIOUS
<1> DEFINE w == WantedEnd - asked.off
<1>1. /\ asked.off \in Nat /\ w \in Nat /\ out \in Seq(Nat) /\ Len(out) \in 0..w
      /\ \A i \in 1..Len(out) : out[i] = asked.off + i
  BY AskedFacts, RetryAssumption DEF IInv, ReaderInv, RetryConstants
<1>2. Wanted \in Seq(Nat) /\ Len(Wanted) = w /\ \A i \in 1..w : Wanted[i] = asked.off + i
  BY <1>1, Numbered DEF Wanted
<1>3. out = SubSeq(Wanted, 1, Len(out))
  <2>1. /\ SubSeq(Wanted, 1, Len(out)) \in Seq(Nat)
        /\ Len(SubSeq(Wanted, 1, Len(out))) = Len(out)
        /\ \A i \in 1..Len(out) : SubSeq(Wanted, 1, Len(out))[i] = Wanted[i]
    BY <1>1, <1>2, SMTT(30)
  <2> QED
    BY <1>1, <1>2, <2>1
<1>4. Len(out) = w => out = Wanted
  BY <1>1, <1>2, SeqEqual, SMTT(30)
<1> QED
  BY <1>1, <1>2, <1>3, <1>4 DEF ReadsThePrefix, EmptyMeansEnd, IInv, ReaderInv

(* The range that is left begins behind what was returned and stays within  *)
(* the integers of BytesRange: neither sum nor difference of `advance`      *)
(* wraps round; and the retries of a call stay within the backoff.          *)
THEOREM TypeCorrect ==
  ASSUME EmptyRange = "empty"
  PROVE  Spec => []TypeOK
  BY Invariant, RangeTyped, PTL

(* Whatever fails, is retried, repeated by the user or dropped half way,    *)
(* the buffers that were returned are the bytes from the start of the       *)
(* range, in order, none missing and none twice.                            *)
THEOREM ReadsPrefix ==
  ASSUME EmptyRange = "empty"
  PROVE  Spec => []ReadsThePrefix
<1>1. IInv => ReadsThePrefix
  BY OutIsPrefix
<1> QED
  BY <1>1, Invariant, PTL

(* An empty buffer means that all of the range was returned, where the      *)
(* service or the user said how long it is: a body that is cut is noticed.  *)
THEOREM EndIsReal ==
  ASSUME EmptyRange = "empty"
  PROVE  Spec => []EmptyMeansEnd
<1>1. IInv => EmptyMeansEnd
  BY OutIsPrefix
<1> QED
  BY <1>1, Invariant, PTL

(* A read that is retried is as good as one that is not.                    *)
THEOREM ReadIsExact ==
  ASSUME EmptyRange = "empty"
  PROVE  Spec => []ReadsExactly
<1>1. ReadsThePrefix /\ EmptyMeansEnd => ReadsExactly
  BY DEF ReadsExactly
<1>2. QED
  BY <1>1, ReadsPrefix, EndIsReal, PTL

(* A RetryReader, too, loses its reader only by a dropped call, whatever    *)
(* the service makes of an empty range.                                     *)
THEOREM ReaderKeepsInner == Spec => []LostOnlyByDrop
<1>1. WrapperInv /\ [WrapperNext]_wrapperVars => WrapperInv'
  BY WrapperNextSteps
<1>2. WrapperInv => LostOnlyByDrop
  BY DEF WrapperInv
<1> QED
  BY <1>1, <1>2, ReaderUsesTheWrapper, WrapperStarts, PTL

(* And each of its reads has the retries of a backoff of its own.           *)
THEOREM ReaderRetriesEveryRead == Spec => []EveryCallGetsItsRetries
<1>1. WrapperInv /\ [WrapperNext]_wrapperVars => WrapperInv'
  BY WrapperNextSteps
<1>2. WrapperInv => EveryCallGetsItsRetries
  BY DEF WrapperInv
<1> QED
  BY <1>1, <1>2, ReaderUsesTheWrapper, WrapperStarts, PTL

-----------------------------------------------------------------------------
(* LocalReader: the readers of the services that read local files.          *)
CONSTANTS Names, MaxLen, BufSize, MaxChanges
VARIABLES service, len, changes, offset, size, read, got, pc
Local == INSTANCE LocalReader

(* The readers of the file systems.  What is got is what was counted, from  *)
(* the offset on; a bounded range is not exceeded, and compfs does not even *)
(* begin to read one.  While the file does not change the reader is not     *)
(* behind its end.                                                          *)
LocalTypes ==
  /\ service \in Names
  /\ len \in Nat /\ len <= MaxLen /\ offset \in Nat /\ changes \in Nat
  /\ size = -1 \/ size \in Nat \ {0}
  /\ read \in Nat /\ read <= MaxLen /\ got \in Seq(Int)
  /\ pc \in {"reading", "ok", "failed"}

LocalBytes ==
  /\ Len(got) = read
  /\ \A i \in 1..Len(got) : got[i] = offset + i - 1
  /\ size # -1 => read <= size
  /\ service = "compfs" /\ size # -1 => read = 0
  /\ changes = 0 /\ offset <= len => offset + read <= len

LocalInv ==
  /\ LocalTypes /\ LocalBytes
  /\ pc = "ok" /\ size # -1 => read = size
  /\ Local!ReadSucceeds

(* What all of them ask for next: bytes from where they are, at least one   *)
(* and not beyond the end of the range, or nothing.                         *)
LEMMA LocalNextRead ==
  ASSUME Local!LocalReaderAssumption, LocalTypes, LocalBytes
  PROVE  LET r == Local!Reader(service) IN
         /\ r.at \in Nat /\ r.most \in Nat
         /\ r.most # 0 =>
              /\ r.at = offset + read
              /\ size # -1 => r.most <= size - read
              /\ service = "compfs" => size = -1
         /\ r.most = 0 /\ service # "compfs" => size # -1 /\ read >= size
<1>1. /\ MaxLen \in Nat /\ BufSize \in Nat \ {0} /\ offset \in Nat
      /\ read \in Nat /\ read <= MaxLen
      /\ size = -1 \/ (size \in Nat \ {0} /\ read <= size)
  BY DEF Local!LocalReaderAssumption, LocalTypes, LocalBytes
<1>2. /\ Local!Limit \in Nat /\ read <= Local!Limit
      /\ size # -1 => Local!Limit = size
      /\ size = -1 => read < Local!Limit
  BY <1>1 DEF Local!Limit, Local!None
<1>3. \A i, j \in Nat : /\ Local!Least(i, j) \in {i, j}
                        /\ Local!Least(i, j) <= i /\ Local!Least(i, j) <= j
  BY DEF Local!Least
<1> USE DEF Local!None, Local!Stop
<1>4. CASE service \in {"fs", "fs_blocking", "hdfs", "hdfs_blocking"}
  <2>1. Local!Reader(service) =
          IF read >= Local!Limit THEN [at |-> 0, most |-> 0]
          ELSE [at |-> offset + read, most |-> Local!Least(Local!Limit - read, BufSize)]
    BY <1>4 DEF Local!Reader, Local!FsReader, Local!FsBlockingReader, Local!HdfsReader,
       Local!HdfsBlockingReader
  <2>2. QED
    BY <1>1, <1>2, <1>3, <1>4, <2>1
<1>5. CASE service = "sftp"
  <2>1. Local!Reader(service) = Local!SftpReader
    BY <1>5 DEF Local!Reader
  <2>2. QED
    BY <1>1, <1>3, <1>5, <2>1 DEF Local!SftpReader
<1>6. CASE service = "ftp"
  <2>1. Local!Reader(service) = Local!FtpReader
    BY <1>6 DEF Local!Reader
  <2>2. QED
    BY <1>1, <1>2, <1>3, <1>6, <2>1 DEF Local!FtpReader
<1>7. CASE service = "compfs"
  <2>1. Local!Reader(service) = Local!CompfsReader
    BY <1>7 DEF Local!Reader
  <2>2. QED
    BY <1>1, <1>7, <2>1 DEF Local!CompfsReader, LocalBytes
<1>8. CASE service = "monoiofs"
  <2>1. Local!Reader(service) = Local!MonoiofsReader
    BY <1>8 DEF Local!Reader
  <2>2. QED
    BY <1>1, <1>8, <2>1 DEF Local!MonoiofsReader
<1>9. QED
  BY <1>4, <1>5, <1>6, <1>7, <1>8 DEF LocalTypes, Local!LocalReaderAssumption

(* A read that brings n bytes appends them where the reader is.             *)
LEMMA LocalReadSome ==
  ASSUME Local!LocalReaderAssumption, LocalInv, NEW n \in 1..MaxLen + BufSize,
         Local!ReadSome(n)
  PROVE  LocalInv'
<1> DEFINE r == Local!Reader(service)
           more == [i \in 1..n |-> r.at + i - 1]
<1>1. LocalTypes /\ LocalBytes /\ pc = "reading" /\ n \in Nat \ {0}
  BY DEF LocalInv, Local!ReadSome, Local!LocalReaderAssumption
<1>2. /\ r.at \in Nat /\ r.most \in Nat
      /\ r.most # 0 =>
           /\ r.at = offset + read
           /\ size # -1 => r.most <= size - read
           /\ service = "compfs" => size = -1
  BY <1>1, LocalNextRead
<1>3. /\ r.at + n <= len /\ n <= r.most
      /\ got' = got \o more
      /\ read' = read + n
      /\ UNCHANGED <<service, len, changes, offset, size, pc>>
  BY DEF Local!ReadSome
<1> HIDE DEF r
<1>4. r.at = offset + read /\ (size # -1 => n <= size - read) /\ (service = "compfs" => size = -1)
  BY <1>1, <1>2, <1>3 DEF LocalTypes
<1>5. more \in Seq(Int) /\ Len(more) = n /\ \A i \in 1..n : more[i] = r.at + i - 1
  BY <1>1, <1>2
<1> HIDE DEF more
<1>6. /\ got' \in Seq(Int) /\ Len(got') = Len(got) + n
      /\ \A i \in 1..Len(got) + n :
           got'[i] = IF i <= Len(got) THEN got[i] ELSE more[i - Len(got)]
  BY <1>1, <1>3, <1>5, ConcatProperties DEF LocalTypes
<1>7. LocalTypes'
  <2>1. read' \in Nat /\ read' <= MaxLen
    BY <1>1, <1>3, <1>4 DEF LocalTypes, Local!LocalReaderAssumption
  <2>2. QED
    BY <1>1, <1>3, <1>6, <2>1 DEF LocalTypes
<1>8. \A i \in 1..Len(got') : got'[i] = offset' + i - 1
  <2>1. SUFFICES ASSUME NEW i \in 1..Len(got) + n
                 PROVE  got'[i] = offset + i - 1
    BY <1>3, <1>6
  <2>2. Len(got) = read /\ read \in Nat /\ offset \in Nat
    BY <1>1 DEF LocalTypes, LocalBytes
  <2>3. CASE i <= Len(got)
    <3>1. i \in 1..Len(got)
      BY <1>1, <2>2, <2>3
    <3>2. QED
      BY <1>1, <1>6, <2>3, <3>1 DEF LocalBytes
  <2>4. CASE i > Len(got)
    <3>1. i - Len(got) \in 1..n
      BY <1>1, <2>2, <2>4
    <3>2. got'[i] = r.at + (i - Len(got)) - 1
      BY <1>5, <1>6, <2>2, <2>4, <3>1
    <3>3. QED
      BY <1>1, <1>4, <2>2, <3>2
  <2>5. QED
    BY <1>1, <2>2, <2>3, <2>4
<1>9. LocalBytes'
  <2>1. /\ Len(got) = read /\ read \in Nat /\ offset \in Nat /\ len \in Nat
        /\ size = -1 \/ size \in Nat
    BY <1>1 DEF LocalTypes, LocalBytes
  <2>2. Len(got') = read' /\ (size' # -1 => read' <= size') /\ offset' + read' <= len'
    BY <1>1, <1>3, <1>4, <1>6, <2>1
  <2>3. QED
    BY <1>3, <1>4, <1>8, <2>2 DEF LocalBytes
<1>10. QED
  BY <1>1, <1>3, <1>7, <1>9 DEF LocalInv, Local!ReadSucceeds, Local!RangeDelivered

(* The end: nothing is left of the file or of the range.                    *)
LEMMA LocalReadEmpty ==
  ASSUME Local!LocalReaderAssumption, LocalInv, Local!ReadEmpty
  PROVE  LocalInv'
<1> DEFINE r == Local!Reader(service)
<1>1. LocalTypes /\ LocalBytes /\ pc = "reading" /\ MaxLen \in Nat /\ BufSize \in Nat \ {0}
  BY DEF LocalInv, Local!ReadEmpty, Local!LocalReaderAssumption
<1>2. /\ r.at \in Nat /\ r.most \in Nat
      /\ r.most # 0 => r.at = offset + read
      /\ r.most = 0 /\ service # "compfs" => size # -1 /\ read >= size
  BY <1>1, LocalNextRead
<1>3. /\ r.most = 0 \/ r.at >= len
      /\ pc' = IF size = -1 \/ read = size THEN "ok" ELSE "failed"
      /\ UNCHANGED <<service, len, changes, offset, size, read, got>>
  BY DEF Local!ReadEmpty, Local!CompleteCheck, Local!None
<1> HIDE DEF r
<1>4. LocalTypes' /\ LocalBytes'
  BY <1>1, <1>3 DEF LocalTypes, LocalBytes
<1>5. ASSUME service # "compfs", changes = 0, offset <= len, size <= len - offset
      PROVE  pc' = "ok" /\ Len(got) = IF size = -1 THEN len - offset ELSE size
  <2>1. /\ len \in Nat /\ len <= MaxLen /\ offset \in Nat /\ read \in Nat
        /\ size = -1 \/ size \in Nat \ {0}
        /\ Len(got) = read /\ offset + read <= len
        /\ size # -1 => read <= size
    BY <1>1, <1>5 DEF LocalTypes, LocalBytes
  <2>2. CASE r.most = 0
    BY <1>1, <1>2, <1>3, <1>5, <2>1, <2>2
  <2>3. CASE r.most # 0
    BY <1>1, <1>2, <1>3, <1>5, <2>1, <2>3
  <2>4. QED
    BY <2>2, <2>3
<1>6. Local!ReadSucceeds'
  BY <1>3, <1>5 DEF Local!ReadSucceeds, Local!RangeDelivered, Local!None
<1>7. QED
  BY <1>3, <1>4, <1>6 DEF LocalInv

(* The bytes already read are not touched by a change of the file.          *)
LEMMA LocalChange ==
  ASSUME Local!LocalReaderAssumption, LocalInv, NEW n \in 0..MaxLen, Local!Change(n)
  PROVE  LocalInv'
<1>1. MaxLen \in Nat /\ changes \in Nat
  BY DEF Local!LocalReaderAssumption, LocalInv, LocalTypes
<1>2. /\ pc = "reading" /\ len' = n /\ changes' = changes + 1
      /\ UNCHANGED <<service, offset, size, read, got, pc>>
  BY DEF Local!Change
<1>3. LocalTypes' /\ LocalBytes'
  BY <1>1, <1>2 DEF LocalInv, LocalTypes, LocalBytes
<1>4. QED
  BY <1>2, <1>3 DEF LocalInv, Local!ReadSucceeds, Local!RangeDelivered

(* The inductive invariant of the readers of file systems.                  *)
THEOREM LocalInvariant ==
  ASSUME Local!LocalReaderAssumption
  PROVE  Local!Spec => []LocalInv
<1>1. Local!Init => LocalInv
  BY DEF Local!LocalReaderAssumption, Local!Init, Local!None, LocalInv, LocalTypes,
     LocalBytes, Local!ReadSucceeds, Local!RangeDelivered
<1>2. LocalInv /\ [Local!Next]_(Local!vars) => LocalInv'
  <2>1. SUFFICES ASSUME LocalInv, [Local!Next]_(Local!vars)
                 PROVE  LocalInv'
    OBVIOUS
  <2>2. CASE UNCHANGED Local!vars
    BY <2>1, <2>2 DEF Local!vars, LocalInv, LocalTypes, LocalBytes, Local!ReadSucceeds,
       Local!RangeDelivered
  <2>3. QED
    BY <2>1, <2>2, LocalReadSome, LocalReadEmpty, LocalChange DEF Local!Next
<1>3. QED
  BY <1>1, <1>2, PTL DEF Local!Spec

(* Every reader returns a prefix of the range, whatever short reads and     *)
(* changes of the file come between, and all of a bounded one or an error.  *)
THEOREM LocalReadsExactly ==
  ASSUME Local!LocalReaderAssumption
  PROVE  Local!Spec => [](Local!PrefixOfRange /\ Local!WholeOrError)
<1>1. LocalInv => Local!PrefixOfRange /\ Local!WholeOrError
  BY DEF LocalInv, LocalTypes, LocalBytes, Local!PrefixOfRange, Local!WholeOrError, Local!None
<1>2. QED
  BY <1>1, LocalInvariant, PTL

(* Every reader but that of compfs returns the whole of a range that a file *)
(* which does not change has.                                               *)
THEOREM LocalReadsAll ==
  ASSUME Local!LocalReaderAssumption
  PROVE  Local!Spec => []Local!ReadSucceeds
<1>1. LocalInv => Local!ReadSucceeds
  BY DEF LocalInv
<1>2. QED
  BY <1>1, LocalInvariant, PTL

-----------------------------------------------------------------------------
(* PageLister: lists that go on after a failed page.                        *)
CONSTANTS MaxTotal, PageSize, MaxOut
VARIABLES exists, total, done, token, entries, status

(* The services that ask for the entries after the token, and keep nothing  *)
(* of a page that failed.                                                   *)
WholeLists ==
  {"alluxio", "chainsafe", "koofr", "huggingface", "pcloud", "dbfs", "webdav", "ipmfs",
   "seafile"}
ExactLists == WholeLists \cup
  {"s3", "s3_versions", "oss", "oss_versions", "cos", "cos_versions", "obs", "gcs",
   "azblob", "azdls", "azfile", "b2", "gdrive", "onedrive", "upyun", "swift",
   "yandex_disk", "webhdfs"}

Pg == INSTANCE PageLister WITH Services <- ExactLists

PgIn(s, e) == \E i \in 1..Len(s) : s[i] = e

PgTypes ==
  /\ service \in ExactLists /\ exists \in BOOLEAN /\ done \in BOOLEAN
  /\ total \in Nat /\ token \in 0..total /\ (exists \/ total = 0)
  /\ service \in WholeLists => token = 0
  /\ entries \in Seq(Nat) /\ out \in Seq(Nat)
  /\ status = "end" => done /\ entries = <<>>

(* What was returned and what waits to be are the entries up to the token,  *)
(* or all of them, each once, and the directory at most once.               *)
PgReached == IF done THEN total ELSE token
PgLine ==
  /\ \A e \in Nat \ {0} : PgIn(out, e) \/ PgIn(entries, e) <=> e <= PgReached
  /\ \A e \in Nat : ~(PgIn(out, e) /\ PgIn(entries, e))
  /\ \A i, j \in 1..Len(out) : out[i] = out[j] => i = j
  /\ \A i, j \in 1..Len(entries) : entries[i] = entries[j] => i = j
  /\ ~done /\ (PgIn(out, 0) \/ PgIn(entries, 0)) => token > 0 /\ service # "webhdfs"

PgInv == PgTypes /\ PgLine

(* A page with n entries, after s entries of the directory.                 *)
PgPage(p, n, s) ==
  /\ p \in Seq(Nat) /\ Len(p) = n + s
  /\ \A i \in 1..(n + s) : p[i] = IF i <= s THEN 0 ELSE token + (i - s)

LEMMA PgKeys ==
  ASSUME NEW n \in Nat, token \in Nat, NEW keys, keys = [k \in 1..n |-> token + k]
  PROVE  PgPage(keys, n, 0) /\ PgPage(<<0>> \o keys, n, 1) /\ <<>> \o keys = keys
<1>1. keys \in Seq(Nat) /\ Len(keys) = n /\ \A i \in 1..n : keys[i] = token + i
  <2>1. keys \in [1..n -> Nat]
    OBVIOUS
  <2>2. QED
    BY <2>1
<1> HIDE DEF PgPage
<1>2. PgPage(keys, n, 0)
  BY <1>1 DEF PgPage
<1>3. <<0>> \in Seq(Nat) /\ Len(<<0>>) = 1 /\ <<0>>[1] = 0
  OBVIOUS
<1>4. /\ <<0>> \o keys \in Seq(Nat) /\ Len(<<0>> \o keys) = n + 1
      /\ \A i \in 1..(n + 1) : (<<0>> \o keys)[i] = IF i <= 1 THEN <<0>>[i] ELSE keys[i - 1]
  BY <1>1, <1>3, ConcatProperties
<1>5. PgPage(<<0>> \o keys, n, 1)
  BY <1>1, <1>3, <1>4 DEF PgPage
<1>6. <<>> \o keys = keys
  BY <1>1
<1>7. QED
  BY <1>2, <1>5, <1>6

(* What next_page leaves, of any of the services.                           *)
PgNext(n, s) ==
  /\ PgPage(entries', n, s)
  /\ token + n <= total /\ token' \in 0..total /\ done' \in BOOLEAN
  /\ done' => token + n = total
  /\ ~done' => token' = token + n /\ service \notin WholeLists
  /\ s = 1 => IF service = "webhdfs" THEN done' ELSE token = 0 /\ (~done' => n > 0)
  /\ service \in WholeLists => token' = 0

(* A page of a service with tokens.                                         *)
LEMMA PgAnswer ==
  ASSUME Pg!PageAssumption, token \in Nat, total \in Nat,
         NEW r \in Pg!Answers(token, PageSize), Pg!Answer(r, token, PageSize)
  PROVE  \E n \in Nat :
           /\ r.keys = [k \in 1..n |-> token + k] /\ Len(r.keys) = n
           /\ r.next = token + n /\ r.next <= total /\ r.more \in BOOLEAN
           /\ ~r.more => r.next = total
           /\ r.keys = <<>> => r.next = total
           /\ r.more => n > 0
<1>1. PICK n \in 0..PageSize, b \in BOOLEAN :
        r = [keys |-> [k \in 1..n |-> token + k], more |-> b, next |-> token + n]
  BY DEF Pg!Answers
<1> DEFINE keys == [k \in 1..n |-> token + k]
<1>2. n \in Nat /\ PageSize \in Nat \ {0}
  BY DEF Pg!PageAssumption
<1>3. keys \in Seq(Nat) /\ Len(keys) = n
  <2>1. keys \in [1..n -> Nat]
    BY <1>2
  <2>2. QED
    BY <1>2, <2>1
<1>4. r.keys = keys /\ r.more = b /\ r.next = token + n
  BY <1>1
<1> HIDE DEF keys
<1>5. /\ r.next <= total
      /\ r.keys = <<>> => token = total
      /\ r.next < total => r.more
      /\ r.more => r.next < total \/ Len(r.keys) = PageSize
  BY DEF Pg!Answer
<1>6. n = 0 <=> keys = <<>>
  BY <1>2, <1>3
<1>7. ~r.more => r.next = total
  BY <1>2, <1>4, <1>5
<1>8. r.keys = <<>> => r.next = total
  BY <1>2, <1>4, <1>5, <1>6
<1>9. r.more => n > 0
  BY <1>2, <1>3, <1>4, <1>5, <1>6
<1>10. QED
  BY <1>2, <1>3, <1>4, <1>5, <1>7, <1>8, <1>9 DEF keys

LEMMA PgFits ==
  ASSUME PgTypes, NEW n \in Nat, NEW s \in {0, 1}, PgPage(entries', n, s),
         service \notin WholeLists, token + n <= total, done' \in BOOLEAN,
         token' \in {0, token, token + n},
         done' => token + n = total, ~done' => token' = token + n,
         s = 1 => IF service = "webhdfs" THEN done' ELSE token = 0 /\ (~done' => n > 0)
  PROVE  \E m \in Nat, z \in {0, 1} : PgNext(m, z)
<1>1. token' \in 0..total
  BY DEF PgTypes
<1>2. PgNext(n, s)
  BY <1>1 DEF PgNext
<1>3. QED
  BY <1>2

LEMMA PgPaged ==
  ASSUME Pg!PageAssumption, PgTypes, ~done,
         NEW r \in Pg!Answers(token, PageSize), Pg!Answer(r, token, PageSize), Pg!Paged(r)
  PROVE  \E n \in Nat, s \in {0, 1} : PgNext(n, s)
<1>1. token \in 0..total /\ token \in Nat /\ total \in Nat /\ service \in ExactLists
  BY DEF PgTypes
<1>2. PICK n \in Nat :
        /\ r.keys = [k \in 1..n |-> token + k] /\ Len(r.keys) = n
        /\ r.next = token + n /\ r.next <= total /\ r.more \in BOOLEAN
        /\ ~r.more => r.next = total
        /\ r.keys = <<>> => r.next = total
        /\ r.more => n > 0
  BY <1>1, PgAnswer, Zenon
<1> DEFINE keys == r.keys
           more == r.more
           next == r.next
           self == <<0>> \o keys
<1>3. PgPage(keys, n, 0) /\ PgPage(self, n, 1) /\ <<>> \o keys = keys
  BY <1>1, <1>2, PgKeys
<1>4. Pg!WithSelf(r) = IF token = 0 THEN self ELSE keys
  BY <1>3 DEF Pg!WithSelf, Pg!Self
<1>5. service \notin WholeLists
  BY <1>1 DEF Pg!Paged, ExactLists, WholeLists
<1>6. /\ Len(keys) = n /\ next = token + n /\ token + n <= total /\ more \in BOOLEAN
      /\ ~more => token + n = total
      /\ keys = <<>> => token + n = total
      /\ more => n > 0
  BY <1>2
<1>7. CASE /\ done' = ~more /\ token' \in {IF more THEN next ELSE 0, next}
           /\ entries' = keys
  <2> HIDE DEF keys, more, next
  <2>1. done' \in BOOLEAN /\ (done' <=> ~more)
    BY <1>6, <1>7
  <2>2. QED
    BY <1>3, <1>5, <1>6, <1>7, <2>1, PgFits
<1>8. CASE /\ done' = ~more /\ token' \in {IF more THEN next ELSE 0, IF more THEN next ELSE token}
           /\ entries' \in {keys, Pg!WithSelf(r)} /\ service # "webhdfs"
  <2> HIDE DEF keys, more, next, self
  <2>1. done' \in BOOLEAN /\ (done' <=> ~more)
    BY <1>6, <1>8
  <2>2. /\ token' \in {0, token, token + n} /\ (~done' => token' = token + n)
        /\ (done' => token + n = total) /\ (~done' => n > 0)
    BY <1>6, <1>8, <2>1
  <2>3. CASE entries' = keys
    BY <1>3, <1>5, <1>6, <2>1, <2>2, <2>3, PgFits
  <2>4. CASE token = 0 /\ entries' = self
    BY <1>3, <1>5, <1>6, <1>8, <2>1, <2>2, <2>4, PgFits
  <2>5. QED
    BY <1>4, <1>8, <2>3, <2>4
<1>9. CASE Pg!SwiftNextPage(r)
  <2>1. done' = (keys = <<>>) /\ token' = next /\ entries' = keys
    BY <1>9, Zenon DEF Pg!SwiftNextPage
  <2> HIDE DEF keys, more, next
  <2>2. done' \in BOOLEAN /\ (done' <=> keys = <<>>)
    BY <2>1
  <2>3. QED
    BY <1>3, <1>5, <1>6, <2>1, <2>2, PgFits
<1>10. CASE Pg!YandexDiskNextPage(r)
  <2>1. done' = (token + Len(keys) >= total) /\ token' = token + Len(keys) /\ entries' = keys
    BY <1>10, Zenon DEF Pg!YandexDiskNextPage
  <2> HIDE DEF keys, more, next
  <2> DEFINE full == token + Len(keys) >= total
  <2>2. done' \in BOOLEAN /\ (done' <=> token + n >= total)
    <3>1. full <=> token + n >= total
      BY <1>6
    <3>2. done' = full
      BY <2>1
    <3>3. full \in BOOLEAN
      OBVIOUS
    <3> HIDE DEF full
    <3>4. QED
      BY <3>1, <3>2, <3>3
  <2>3. token' = token + n /\ (done' => token + n = total)
    BY <1>1, <1>6, <2>1, <2>2
  <2>4. QED
    BY <1>3, <1>5, <1>6, <2>1, <2>2, <2>3, PgFits
<1>11. CASE service = "webhdfs" /\ Pg!WebhdfsNextPage(r)
  <2>1. /\ done' = (next = total) /\ token' = (IF next = total THEN token ELSE next)
        /\ entries' = (IF next = total THEN <<Pg!Self>> ELSE <<>>) \o keys
    BY <1>11, Zenon DEF Pg!WebhdfsNextPage
  <2>2. entries' = IF next = total THEN self ELSE keys
    BY <1>3, <2>1 DEF Pg!Self
  <2> HIDE DEF keys, more, next, self
  <2>3. done' \in BOOLEAN /\ (done' <=> next = total)
    BY <2>1
  <2>4. CASE next = total
    BY <1>3, <1>5, <1>6, <1>11, <2>1, <2>2, <2>3, <2>4, PgFits
  <2>5. CASE next # total
    BY <1>3, <1>5, <1>6, <1>11, <2>1, <2>2, <2>3, <2>5, PgFits
  <2>6. QED
    BY <2>4, <2>5
<1>12. \/ (Pg!TokenOrEmpty(r) \/ Pg!TokenIfAny(r)) /\ entries' = r.keys /\ service # "webhdfs"
       \/ /\ Pg!TokenOrEmpty(r) \/ Pg!TokenIfAny(r)
          /\ entries' = Pg!WithSelf(r) /\ service # "webhdfs"
       \/ done' = ~r.more /\ token' = r.next /\ entries' = r.keys
       \/ Pg!SwiftNextPage(r) \/ Pg!YandexDiskNextPage(r)
       \/ service = "webhdfs" /\ Pg!WebhdfsNextPage(r)
  <2>1. service \notin {"s3_bare", "aliyun_drive", "vercel_blob", "lakefs", "dropbox"}
    BY <1>1 DEF ExactLists, WholeLists
  <2>2. QED
    BY <2>1 DEF Pg!Paged, Pg!S3NextPage, Pg!S3VersionsNextPage, Pg!OssNextPage,
       Pg!OssVersionsNextPage, Pg!CosNextPage, Pg!CosVersionsNextPage, Pg!ObsNextPage,
       Pg!GcsNextPage, Pg!AzblobNextPage, Pg!AzdlsNextPage, Pg!AzfileNextPage, Pg!B2NextPage,
       Pg!GdriveNextPage, Pg!OnedriveNextPage, Pg!UpyunNextPage
<1>13. Pg!TokenOrEmpty(r) \/ Pg!TokenIfAny(r) =>
         /\ done' = ~more
         /\ token' \in {IF more THEN next ELSE 0, IF more THEN next ELSE token}
  BY Zenon DEF Pg!TokenOrEmpty, Pg!TokenIfAny
<1> HIDE DEF keys, more, next, self
<1>14. QED
  BY <1>7, <1>8, <1>9, <1>10, <1>11, <1>12, <1>13 DEF keys, more, next

LEMMA PgWhole ==
  ASSUME PgTypes, ~done,
         Pg!Whole([keys |-> [k \in 1..total |-> k], more |-> FALSE, next |-> total])
  PROVE  \E n \in Nat, s \in {0, 1} : PgNext(n, s)
<1> DEFINE r == [keys |-> [k \in 1..total |-> k], more |-> FALSE, next |-> total]
           keys == [k \in 1..total |-> token + k]
<1>1. service \in WholeLists /\ token = 0 /\ total \in Nat /\ service # "webhdfs"
  BY DEF Pg!Whole, PgTypes, ExactLists, WholeLists
<1>2. r.keys = keys
  BY <1>1
<1>3. PgPage(keys, total, 0) /\ PgPage(<<0>> \o keys, total, 1)
  BY <1>1, PgKeys
<1>4. done' = TRUE /\ token' = 0 /\ entries' \in {keys, <<0>> \o keys}
  <2>1. done' = TRUE /\ token' = token /\ entries' \in {r.keys, <<0>> \o r.keys}
    BY <1>1 DEF Pg!Whole, Pg!OnePage, Pg!AlluxioNextPage, Pg!ChainsafeNextPage, Pg!KoofrNextPage,
       Pg!HuggingfaceNextPage, Pg!PcloudNextPage, Pg!DbfsNextPage, Pg!WebdavNextPage,
       Pg!IpmfsNextPage, Pg!SeafileNextPage, Pg!Self, WholeLists
  <2>2. QED
    BY <1>1, <1>2, <2>1
<1> HIDE DEF keys
<1>5. /\ token + total <= total /\ token' \in 0..total /\ done' \in BOOLEAN
      /\ token + total = total /\ done'
  BY <1>1, <1>4
<1>6. CASE entries' = keys
  <2>1. PgNext(total, 0)
    BY <1>1, <1>3, <1>4, <1>5, <1>6 DEF PgNext
  <2>2. QED
    BY <1>1, <2>1
<1>7. CASE entries' = <<0>> \o keys
  <2> DEFINE self == <<0>> \o keys
  <2>1. PgPage(self, total, 1) /\ entries' = self
    BY <1>3, <1>7
  <2> HIDE DEF self
  <2>2. PgNext(total, 1)
    BY <1>1, <1>4, <1>5, <2>1 DEF PgNext
  <2>3. QED
    BY <1>1, <2>2
<1>8. QED
  BY <1>4, <1>6, <1>7

(* A page is added behind what there is.                                    *)
LEMMA PgFilled ==
  ASSUME PgInv, ~done, entries = <<>>, status = "listing", NEW n \in Nat, NEW s \in {0, 1},
         PgNext(n, s), UNCHANGED <<service, exists, total, status, out>>
  PROVE  PgInv'
<1>1. /\ token \in 0..total /\ total \in Nat /\ token \in Nat /\ out \in Seq(Nat) /\ Len(out) \in Nat
      /\ \A i \in 1..Len(out) : out[i] \in Nat
  BY DEF PgInv, PgTypes
<1>2. /\ entries' \in Seq(Nat) /\ Len(entries') = n + s
      /\ \A i \in 1..(n + s) : entries'[i] = IF i <= s THEN 0 ELSE token + (i - s)
  BY DEF PgNext, PgPage
<1>3. PgTypes'
  BY <1>2 DEF PgInv, PgTypes, PgNext
<1>4. \A e : ~PgIn(entries, e)
  BY DEF PgIn
<1>5. PgReached = token /\ PgReached' = token + n
  BY DEF PgReached, PgNext
<1>6. \A e \in Nat \ {0} : PgIn(entries, e)' <=> e \in (token + 1)..(token + n)
  <2>1. ASSUME NEW e \in Nat \ {0}, e \in (token + 1)..(token + n) PROVE PgIn(entries, e)'
    <3>1. e - token + s \in 1..(n + s) /\ ~(e - token + s <= s)
      BY <1>1, <2>1
    <3>2. entries'[e - token + s] = e
      BY <1>1, <1>2, <2>1, <3>1
    <3>3. QED
      BY <1>2, <3>1, <3>2 DEF PgIn
  <2>2. ASSUME NEW e \in Nat \ {0}, PgIn(entries, e)' PROVE e \in (token + 1)..(token + n)
    <3>1. PICK i \in 1..(n + s) : entries'[i] = e
      BY <1>2, <2>2 DEF PgIn
    <3>2. e = IF i <= s THEN 0 ELSE token + (i - s)
      BY <1>2, <3>1
    <3>3. ~(i <= s) /\ e = token + (i - s)
      BY <2>2, <3>2
    <3>4. QED
      BY <1>1, <3>1, <3>3
  <2>3. QED
    BY <2>1, <2>2
<1>7. PgIn(entries, 0)' => s = 1
  BY <1>1, <1>2 DEF PgIn
<1>8. \A e : PgIn(out, e)' <=> PgIn(out, e)
  BY DEF PgIn
<1>9. \A e \in Nat \ {0} : PgIn(out, e) <=> e <= token
  BY <1>4, <1>5 DEF PgInv, PgLine
<1>10. s = 1 => ~PgIn(out, 0)
  BY <1>1 DEF PgInv, PgLine, PgNext
<1>11. \A e \in Nat \ {0} : (PgIn(out, e) \/ PgIn(entries, e))' <=> e <= PgReached'
  BY <1>1, <1>5, <1>6, <1>8, <1>9
<1>12. \A e \in Nat : ~(PgIn(out, e) /\ PgIn(entries, e))'
  BY <1>1, <1>6, <1>7, <1>8, <1>9, <1>10
<1>13. \A i, j \in 1..Len(entries') : entries'[i] = entries'[j] => i = j
  <2>1. SUFFICES ASSUME NEW i \in 1..(n + s), NEW j \in 1..(n + s), entries'[i] = entries'[j]
                 PROVE  i = j
    BY <1>2
  <2>2. /\ entries'[i] = IF i <= s THEN 0 ELSE token + (i - s)
        /\ entries'[j] = IF j <= s THEN 0 ELSE token + (j - s)
    BY <1>2
  <2>3. i \in Nat \ {0} /\ j \in Nat \ {0} /\ s \in Nat /\ token \in Nat
    BY <1>1
  <2>4. CASE s = 0
    <3>1. ~(i <= s) /\ ~(j <= s)
      BY <2>3, <2>4
    <3>2. token + (i - s) = token + (j - s)
      BY <2>1, <2>2, <3>1
    <3>3. QED
      BY <2>3, <2>4, <3>2
  <2>5. CASE s = 1
    <3>1. (i <= s <=> i = 1) /\ (j <= s <=> j = 1)
      BY <2>3, <2>5
    <3> DEFINE x == entries'[i]
               y == entries'[j]
    <3>2. /\ x = IF i = 1 THEN 0 ELSE token + (i - 1)
          /\ y = IF j = 1 THEN 0 ELSE token + (j - 1)
      BY <2>2, <2>5, <3>1
    <3>3. x = y
      BY <2>1
    <3> HIDE DEF x, y
    <3>4. QED
      BY <2>3, <3>2, <3>3
  <2>6. QED
    BY <2>4, <2>5
<1>14. \A i, j \in 1..Len(out') : out'[i] = out'[j] => i = j
  BY DEF PgInv, PgLine
<1>15. ~done' /\ (PgIn(out, 0) \/ PgIn(entries, 0))' => token' > 0 /\ service' # "webhdfs"
  <2>1. ASSUME ~done', PgIn(out, 0) PROVE token' > 0 /\ service' # "webhdfs"
    BY <1>1, <2>1 DEF PgInv, PgLine, PgNext
  <2>2. ASSUME ~done', s = 1 PROVE token' > 0 /\ service' # "webhdfs"
    BY <1>1, <2>2 DEF PgNext
  <2>3. QED
    BY <1>7, <1>8, <2>1, <2>2
<1>16. PgLine'
  BY <1>11, <1>12, <1>13, <1>14, <1>15 DEF PgLine
<1>17. QED
  BY <1>3, <1>16 DEF PgInv

(* The first entry is returned.                                             *)
LEMMA PgPops ==
  ASSUME PgInv, Pg!PopEntry
  PROVE  PgInv'
<1>1. /\ out \in Seq(Nat) /\ entries \in Seq(Nat) /\ entries # <<>> /\ status = "listing"
      /\ out' = Append(out, Head(entries)) /\ entries' = Tail(entries)
      /\ UNCHANGED <<service, exists, total, done, token, status>>
  BY DEF PgInv, PgTypes, Pg!PopEntry
<1> DEFINE m == Len(out)
           n == Len(entries)
           h == Head(entries)
<1>2. /\ m \in Nat /\ n \in Nat /\ n > 0 /\ h = entries[1] /\ h \in Nat
      /\ out' \in Seq(Nat) /\ Len(out') = m + 1 /\ out'[m + 1] = h
      /\ \A i \in 1..m : out'[i] = out[i]
      /\ entries' \in Seq(Nat) /\ Len(entries') = n - 1
      /\ \A i \in 1..(n - 1) : entries'[i] = entries[i + 1]
  BY <1>1
<1>3. PgTypes'
  BY <1>1, <1>2 DEF PgInv, PgTypes
<1>4. \A e : PgIn(out, e)' <=> PgIn(out, e) \/ e = h
  <2>1. ASSUME NEW e, PgIn(out, e)' PROVE PgIn(out, e) \/ e = h
    <3>1. PICK i \in 1..(m + 1) : out'[i] = e
      BY <1>2, <2>1 DEF PgIn
    <3>2. i \in 1..m \/ i = m + 1
      BY <1>2
    <3>3. QED
      BY <1>2, <3>1, <3>2 DEF PgIn
  <2>2. ASSUME NEW e, PgIn(out, e) \/ e = h PROVE PgIn(out, e)'
    <3>1. CASE e = h
      BY <1>2, <3>1 DEF PgIn
    <3>2. CASE PgIn(out, e)
      <4>1. PICK i \in 1..m : out[i] = e
        BY <3>2 DEF PgIn
      <4>2. i \in 1..(m + 1) /\ out'[i] = e
        BY <1>2, <4>1
      <4>3. QED
        BY <1>2, <4>2 DEF PgIn
    <3>3. QED
      BY <2>2, <3>1, <3>2
  <2>3. QED
    BY <2>1, <2>2
<1>5. \A e : PgIn(entries, e) <=> PgIn(entries, e)' \/ e = h
  <2>1. ASSUME NEW e, PgIn(entries, e) PROVE PgIn(entries, e)' \/ e = h
    <3>1. PICK i \in 1..n : entries[i] = e
      BY <2>1 DEF PgIn
    <3>2. i = 1 \/ i - 1 \in 1..(n - 1)
      BY <1>2
    <3>3. i # 1 => entries'[i - 1] = e
      BY <1>2, <3>1, <3>2
    <3>4. QED
      BY <1>2, <3>1, <3>2, <3>3 DEF PgIn
  <2>2. ASSUME NEW e, PgIn(entries, e)' PROVE PgIn(entries, e)
    <3>1. PICK i \in 1..(n - 1) : entries'[i] = e
      BY <1>2, <2>2 DEF PgIn
    <3>2. i + 1 \in 1..n /\ entries[i + 1] = e
      BY <1>2, <3>1
    <3>3. QED
      BY <3>2 DEF PgIn
  <2>3. PgIn(entries, h)
    BY <1>2 DEF PgIn
  <2>4. QED
    BY <2>1, <2>2, <2>3
<1>6. ~PgIn(entries', h)
  <2>1. \A i \in 1..(n - 1) : entries'[i] # h
    <3>1. ASSUME NEW i \in 1..(n - 1), entries'[i] = h PROVE FALSE
      <4>1. i + 1 \in 1..n /\ 1 \in 1..n /\ entries[i + 1] = entries[1]
        BY <1>2, <3>1
      <4>2. i + 1 = 1
        BY <4>1 DEF PgInv, PgLine
      <4>3. QED
        BY <1>2, <4>2
    <3>2. QED
      BY <3>1
  <2>2. QED
    BY <1>2, <2>1 DEF PgIn
<1>7. ~PgIn(out, h)
  BY <1>2, <1>5 DEF PgInv, PgLine
<1> HIDE DEF m, n, h
<1>8. PgReached' = PgReached
  BY <1>1 DEF PgReached
<1>9. \A e \in Nat \ {0} : (PgIn(out, e) \/ PgIn(entries, e))' <=> e <= PgReached'
  BY <1>4, <1>5, <1>8 DEF PgInv, PgLine
<1>10. \A e \in Nat : ~(PgIn(out, e) /\ PgIn(entries, e))'
  <2>1. SUFFICES ASSUME NEW e \in Nat, PgIn(out, e)', PgIn(entries, e)' PROVE FALSE
    OBVIOUS
  <2>2. PgIn(entries, e) /\ ~PgIn(out, e)
    BY <1>5, <2>1 DEF PgInv, PgLine
  <2>3. e = h
    BY <1>4, <2>1, <2>2
  <2>4. PgIn(entries', h)
    BY <2>1, <2>3
  <2>5. QED
    BY <1>6, <2>4
<1>11. ASSUME NEW i \in 1..Len(out'), NEW j \in 1..Len(out'), out'[i] = out'[j] PROVE i = j
  <2>1. (i \in 1..m \/ i = m + 1) /\ (j \in 1..m \/ j = m + 1)
    BY <1>2, <1>11
  <2>2. \A k \in 1..m : out'[k] # h
    BY <1>2, <1>7 DEF PgIn, m
  <2>3. \A k, l \in 1..m : out'[k] = out'[l] => k = l
    BY <1>2 DEF PgInv, PgLine, m
  <2>4. QED
    BY <1>2, <1>11, <2>1, <2>2, <2>3
<1>12. ASSUME NEW i \in 1..Len(entries'), NEW j \in 1..Len(entries'), entries'[i] = entries'[j]
       PROVE  i = j
  <2>1. /\ i + 1 \in 1..n /\ j + 1 \in 1..n /\ entries[i + 1] = entries[j + 1]
        /\ i \in Nat /\ j \in Nat
    BY <1>2, <1>12
  <2>2. i + 1 = j + 1
    BY <2>1 DEF PgInv, PgLine, n
  <2>3. QED
    BY <2>1, <2>2
<1>13. ~done' /\ (PgIn(out, 0) \/ PgIn(entries, 0))' => token' > 0 /\ service' # "webhdfs"
  BY <1>1, <1>4, <1>5 DEF PgInv, PgLine
<1>14. PgLine'
  BY <1>9, <1>10, <1>11, <1>12, <1>13 DEF PgLine
<1>15. QED
  BY <1>3, <1>14 DEF PgInv

LEMMA PgSteps ==
  ASSUME Pg!PageAssumption, PgInv, [Pg!Next]_(Pg!vars)
  PROVE  PgInv'
<1>1. CASE Pg!NextPageOk
  <2>1. /\ entries = <<>> /\ status = "listing" /\ ~done
        /\ UNCHANGED <<service, exists, total, status, out>>
    BY <1>1 DEF Pg!NextPageOk, Pg!CallsNextPage
  <2>2. Pg!From = token
    BY DEF Pg!From, PgInv, PgTypes, ExactLists, WholeLists
  <2>3. PgTypes
    BY DEF PgInv
  <2>4. CASE \E r \in Pg!Answers(token, PageSize) : Pg!Answer(r, token, PageSize) /\ Pg!Paged(r)
    <3>1. \E n \in Nat, s \in {0, 1} : PgNext(n, s)
      BY <2>1, <2>3, <2>4, PgPaged, Zenon
    <3>2. QED
      BY <2>1, <3>1, PgFilled
  <2>5. CASE Pg!Whole([keys |-> [k \in 1..total |-> k], more |-> FALSE, next |-> total])
    <3>1. \E n \in Nat, s \in {0, 1} : PgNext(n, s)
      BY <2>1, <2>3, <2>5, PgWhole, Zenon
    <3>2. QED
      BY <2>1, <3>1, PgFilled
  <2>6. QED
    BY <1>1, <2>2, <2>4, <2>5, Zenon DEF Pg!NextPageOk
<1>2. CASE Pg!NextPageNotFound
  <2>1. /\ ~done /\ entries = <<>> /\ total = 0 /\ token = 0 /\ status = "listing"
        /\ done' \in BOOLEAN /\ (status' = "end" => FALSE)
        /\ UNCHANGED <<service, exists, total, token, entries, out>>
    BY <1>2 DEF Pg!NextPageNotFound, Pg!CallsNextPage, Pg!NotFoundIsEmpty, PgInv, PgTypes
  <2>2. PgTypes'
    BY <2>1 DEF PgInv, PgTypes
  <2>3. PgReached = 0 /\ PgReached' = 0
    BY <2>1 DEF PgReached
  <2>4. \A e : (PgIn(out, e)' <=> PgIn(out, e)) /\ (PgIn(entries, e)' <=> PgIn(entries, e))
    BY <2>1 DEF PgIn
  <2>5. PgLine'
    BY <2>1, <2>3, <2>4 DEF PgInv, PgLine
  <2>6. QED
    BY <2>2, <2>5 DEF PgInv
<1>3. CASE Pg!PopEntry
  BY <1>3, PgPops
<1>4. CASE Pg!EndList \/ Pg!NextPageErr \/ UNCHANGED Pg!vars
  <2>1. UNCHANGED <<service, exists, total, done, token, entries, out>>
    <3>1. service \notin {"dropbox", "github", "aliyun_drive", "ipfs"}
      BY DEF PgInv, PgTypes, ExactLists, WholeLists
    <3>2. QED
      BY <1>4, <3>1 DEF Pg!EndList, Pg!NextPageErr, Pg!ctx, Pg!vars
  <2>2. status' = "end" => done /\ entries = <<>>
    BY <1>4 DEF Pg!EndList, Pg!NextPageErr, Pg!vars, PgInv, PgTypes
  <2>3. PgTypes' /\ PgLine'
    BY <2>1, <2>2 DEF PgInv, PgTypes, PgLine, PgIn, PgReached
  <2>4. QED
    BY <2>3 DEF PgInv
<1>5. QED
  BY <1>1, <1>2, <1>3, <1>4 DEF Pg!Next

THEOREM PgInvariant ==
  ASSUME Pg!PageAssumption
  PROVE  Pg!Spec => []PgInv
<1>1. Pg!Init => PgInv
  <2>1. SUFFICES ASSUME Pg!Init PROVE PgInv
    OBVIOUS
  <2>2. MaxTotal \in Nat
    BY DEF Pg!PageAssumption
  <2>3. total \in Nat /\ token \in 0..total /\ <<>> \in Seq(Nat)
    BY <2>1, <2>2, EmptySeq DEF Pg!Init
  <2>4. exists \in BOOLEAN /\ (exists \/ total = 0) /\ done \in BOOLEAN /\ ~done
    BY <2>1, Zenon DEF Pg!Init
  <2>5. PgTypes
    BY <2>1, <2>3, <2>4 DEF Pg!Init, PgTypes
  <2>6. PgLine
    BY <2>1 DEF Pg!Init, PgLine, PgIn, PgReached
  <2>7. QED
    BY <2>5, <2>6 DEF PgInv
<1>2. PgInv /\ [Pg!Next]_(Pg!vars) => PgInv'
  BY PgSteps
<1>3. QED
  BY <1>1, <1>2, PTL DEF Pg!Spec

(* No entry is returned twice, over the 27 services, however many requests  *)
(* are repeated.                                                            *)
THEOREM PgEachEntryOnce ==
  ASSUME Pg!PageAssumption
  PROVE  Pg!Spec => []Pg!EachEntryOnce
<1>1. PgInv => Pg!EachEntryOnce
  <2>1. SUFFICES ASSUME PgInv PROVE Pg!EachEntryOnce
    OBVIOUS
  <2>2. DOMAIN out = 1..Len(out)
    BY <2>1 DEF PgInv, PgTypes
  <2>3. \A i, j \in DOMAIN out : out[i] = out[j] => i = j
    BY <2>1, <2>2, Zenon DEF PgInv, PgLine
  <2>4. QED
    BY <2>3, Zenon DEF Pg!EachEntryOnce, Pg!IsInjective
<1>2. QED
  BY <1>1, PgInvariant, PTL

(* A list that has ended has returned every entry of the directory.         *)
THEOREM PgEndsComplete ==
  ASSUME Pg!PageAssumption
  PROVE  Pg!Spec => []Pg!EndsComplete
<1>1. PgInv => Pg!EndsComplete
  <2>1. SUFFICES ASSUME PgInv, status = "end", NEW e \in 1..total PROVE e \in Pg!Range(out)
    BY DEF Pg!EndsComplete
  <2>2. /\ done /\ entries = <<>> /\ e \in Nat \ {0} /\ e <= PgReached
        /\ DOMAIN out = 1..Len(out)
    BY <2>1 DEF PgInv, PgTypes, PgReached
  <2>3. PgIn(out, e)
    BY <2>1, <2>2 DEF PgInv, PgLine, PgIn
  <2>4. QED
    BY <2>2, <2>3 DEF PgIn, Pg!Range
<1>2. QED
  BY <1>1, PgInvariant, PTL

=============================================================================
