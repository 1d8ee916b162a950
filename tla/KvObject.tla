------------------------------ MODULE KvObject ------------------------------
(***************************************************************************)
(* One object of a kv service: KvWriter under CompleteWriter, stat and read *)
(* of kv::Backend and typed_kv::Backend, and a reader that reads a range    *)
(* chunk by chunk, each with a get of its own.  A value is the sequence of  *)
(* the numbers of the writes that made it, one byte each.                   *)
(***************************************************************************)
EXTENDS Integers, Sequences

CONSTANTS
  Writers,
  MaxWrites,    \* bound: writes of a writer
  MaxFailures,  \* bound: sets that fail
  Ends,         \* bound: the ends of the ranges a user asks for
  Open          \* the end of a range that is left open, behind every other

KvObjectAssumption ==
  /\ {MaxWrites, MaxFailures, Open} \subseteq Nat
  /\ Ends \cup {MaxWrites} \subseteq 0..Open - 1

None == <<0>>     \* no value

VARIABLES
  typed,        \* typed_kv, whose stores are maps in memory
  stored,
  buffer, value, inner,   \* KvWriter; CompleteWriter
  failures,
  range, chunked, reader, \* the range that is left, and what the reader is doing
  acked, out,   \* history: the bytes of successful writes; what the reader got
  seen          \* history: the values since the reader began

writers == <<buffer, value, inner, acked>>
vars == <<typed, stored, writers, failures, range, chunked, reader, out, seen>>

Init ==
  /\ typed \in BOOLEAN
  /\ stored = None
  /\ buffer = [w \in Writers |-> <<>>]
  /\ value = [w \in Writers |-> None]
  /\ inner = [w \in Writers |-> "open"]
  /\ acked = [w \in Writers |-> <<>>]
  /\ failures = 0
  /\ range = [from |-> 0, start |-> 0, end |-> Open]
  /\ chunked = FALSE
  /\ reader = "idle" /\ out = <<>> /\ seen = {}

Write(w) ==
  /\ inner[w] = "open"
  /\ Len(acked[w]) < MaxWrites
  /\ buffer' = [buffer EXCEPT ![w] = Append(@, w)]
  /\ acked' = [acked EXCEPT ![w] = Append(@, w)]
  /\ UNCHANGED <<typed, stored, value, inner, failures, range, chunked, reader, out, seen>>

(* typed_kv builds the value once, and takes the buffer for it.             *)
Built(w) == IF typed /\ value[w] # None THEN value[w] ELSE buffer[w]

Build(w) ==
  IF typed THEN value' = [value EXCEPT ![w] = Built(w)] /\ buffer' = [buffer EXCEPT ![w] = <<>>]
  ELSE UNCHANGED <<value, buffer>>

Set(w) ==
  /\ stored' = Built(w)
  /\ seen' = seen \cup {stored'}

CloseOk(w) ==
  /\ inner[w] = "open"
  /\ Set(w)
  /\ Build(w)
  /\ inner' = [inner EXCEPT ![w] = "closed"]
  /\ UNCHANGED <<typed, failures, range, chunked, reader, out, acked>>

(* The set failed, perhaps after it took effect; close may be called again. *)
CloseErrMutant(w) ==         \* the buffer is taken for a set that fails
  /\ inner[w] = "open" /\ ~typed
  /\ failures < MaxFailures
  /\ failures' = failures + 1
  /\ Set(w) \/ UNCHANGED <<stored, seen>>
  /\ buffer' = [buffer EXCEPT ![w] = <<>>]
  /\ UNCHANGED <<typed, value, inner, acked, range, chunked, reader, out>>

CloseErr(w) ==
  /\ inner[w] = "open" /\ ~typed
  /\ failures < MaxFailures
  /\ failures' = failures + 1
  /\ Set(w) \/ UNCHANGED <<stored, seen>>
  /\ Build(w)
  /\ UNCHANGED <<typed, inner, acked, range, chunked, reader, out>>

Abort(w) ==
  /\ inner[w] = "open"
  /\ buffer' = [buffer EXCEPT ![w] = <<>>]
  /\ inner' = [inner EXCEPT ![w] = "aborted"]
  /\ UNCHANGED <<typed, stored, value, acked, failures, range, chunked, reader, out, seen>>

Reads(r) == UNCHANGED <<typed, stored, writers, failures>> /\ reader' = r

Stat == Len(stored)

ParseIntoRange(start, end) ==
  [from |-> start, start |-> start, end |-> IF end = Open THEN Stat ELSE end]

(* A chunked reader asks for the end of an open range first.                *)
CreateStream(start, end, chunk) ==
  /\ reader = "idle"
  /\ stored # None
  /\ chunked' = chunk
  /\ range' = IF chunk THEN ParseIntoRange(start, end)
              ELSE [from |-> start, start |-> start, end |-> end]
  /\ seen' = {stored} /\ out' = <<>>
  /\ Reads("reading")

(* The range of the next get.                                               *)
NextRange ==
  IF chunked THEN [start |-> range.start, end |-> range.start + 1] ELSE range

(* Buffer::slice asserts begin <= end and end <= len.                       *)
Slice(bs, r) ==
  LET end == IF r.end = Open THEN Len(bs) ELSE r.end IN
  IF r.start <= end /\ end <= Len(bs) THEN {SubSeq(bs, r.start + 1, end)} ELSE {}

ReadRangeMutant ==           \* the slice begins at the start of the value
  /\ reader = "reading"
  /\ range.start < range.end
  /\ \E bs \in Slice(stored, [NextRange EXCEPT !.start = 0]) : out' = out \o bs
  /\ range' = [range EXCEPT !.start = IF chunked THEN @ + 1 ELSE range.end]
  /\ Reads("reading")
  /\ UNCHANGED <<chunked, seen>>

ReadRange ==
  /\ reader = "reading"
  /\ range.start < range.end
  /\ \E bs \in Slice(stored, NextRange) : out' = out \o bs
  /\ range' = [range EXCEPT !.start = IF chunked THEN @ + 1 ELSE range.end]
  /\ Reads("reading")
  /\ UNCHANGED <<chunked, seen>>

ReadPanics ==
  /\ reader = "reading"
  /\ range.start < range.end
  /\ Slice(stored, NextRange) = {}
  /\ Reads("panic")
  /\ UNCHANGED <<range, chunked, out, seen>>

ReadEnds ==
  /\ reader = "reading"
  /\ range.start >= range.end
  /\ Reads("end")
  /\ UNCHANGED <<range, chunked, out, seen>>

Next ==
  \/ \E w \in Writers : Write(w) \/ CloseOk(w) \/ CloseErr(w) \/ Abort(w)
  \/ \E start \in Ends \cup {0}, end \in Ends \cup {Open}, chunk \in BOOLEAN :
       start <= end /\ CreateStream(start, end, chunk)
  \/ ReadRange \/ ReadPanics \/ ReadEnds

Spec == Init /\ [][Next]_vars

-----------------------------------------------------------------------------
(* A close that succeeds has stored what the writes acknowledged, however   *)
(* often it failed before.                                                  *)
ClosedIsWhole ==
  \A w \in Writers :
    inner[w] = "open" /\ inner'[w] = "closed" => stored' = acked[w]

(* What a reader got is, byte for byte, from values that were stored while  *)
(* it read, and without chunks all from one of them.                        *)
ReadWasThere ==
  LET there(v, i) == range.from + i \in DOMAIN v /\ v[range.from + i] = out[i] IN
  /\ \A i \in DOMAIN out : \E v \in seen : there(v, i)
  /\ ~chunked /\ out # <<>> => \E v \in seen : \A i \in DOMAIN out : there(v, i)

(* "range end out of bounds": a read does not panic.                        *)
NeverPanics == reader # "panic"
=============================================================================
