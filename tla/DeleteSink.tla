----------------------------- MODULE DeleteSink -----------------------------
(***************************************************************************)
(* FuturesDeleteSink of core/src/types/delete/futures_delete_sink.rs: a     *)
(* Deleter behind the Sink interface.  The sink holds either the deleter    *)
(* (Idle) or the future of one call of it (Delete, Flush, Close).  A future *)
(* makes no progress until it is polled, so that the deleter only runs      *)
(* while a call of the sink polls the future.                               *)
(*                                                                          *)
(* The user's calls are feed (poll_ready, then start_send), flush and       *)
(* close, each polled until it is ready; send is feed followed by flush.    *)
(***************************************************************************)
EXTENDS Deleter

VARIABLES
  sink,       \* the enum State: "idle", "delete", "flush" or "close"; "none": no sink
  op,         \* the call of the sink in progress: "none", "feed", "flush", "close"
  answer,     \* the answer of the last call of the sink
  fed         \* history: the paths start_send accepted, failed ones excepted

sinkVars == <<sink, op, answer, fed>>
allVars == <<vars, sinkVars>>

(* The deleter has one of two users: one that calls it, and polls each call *)
(* until it returns or drops it, or one that has put it behind a sink.      *)
NoSink == sink = "none"

SinkInit ==
  /\ Init
  /\ sink \in {"none", "idle"}
  /\ op = "none"
  /\ answer = "ok"
  /\ fed = {}

-----------------------------------------------------------------------------
SinkCall(o) ==
  /\ op = "none"
  /\ op' = o
  /\ UNCHANGED <<vars, sink, answer, fed>>

(* Any poll_* that finds a future polls it.  Once the future is ready the   *)
(* sink is idle again; the call ends with its error, or because this was    *)
(* the future it was about, or else goes on.                                *)
PollFuture ==
  /\ op # "none"
  /\ sink # "idle"
  /\ DeleterRuns
  /\ IF pc' = "idle"
       THEN /\ sink' = "idle"
            /\ op' = IF ret' = "err" \/ op = sink THEN "none" ELSE op
            /\ answer' = IF op' = "none" THEN ret' ELSE answer
            /\ fed' = IF sink = "delete" /\ ret' = "err"
                        THEN (fed \ {path}) \cup requested ELSE fed
       ELSE UNCHANGED <<sink, op, answer, fed>>

(* start_send, once poll_ready is ready: the future of delete is made, and  *)
(* not polled.                                                              *)
StartSend(p) ==
  /\ op = "feed"
  /\ sink = "idle"
  /\ CallDelete(p)
  /\ sink' = "delete"
  /\ op' = "none"
  /\ answer' = "ok"
  /\ fed' = fed \cup {p}

(* poll_flush in state Idle: the future of flush is made and, without       *)
(* polling it, the call is ready.                                           *)
FlushIdle ==
  /\ op = "flush"
  /\ sink = "idle"
  /\ CallFlush
  /\ sink' = "flush"
  /\ op' = "none"
  /\ answer' = "ok"
  /\ UNCHANGED fed

(* poll_close in state Idle: likewise.                                      *)
CloseIdle ==
  /\ op = "close"
  /\ sink = "idle"
  /\ CallClose
  /\ sink' = "close"
  /\ op' = "none"
  /\ answer' = "ok"
  /\ UNCHANGED fed

(* The user drops a call of the sink that waits: the future stays.          *)
SinkCallDropped ==
  /\ op # "none"
  /\ sink # "idle"
  /\ op' = "none"
  /\ answer' = "dropped"
  /\ UNCHANGED <<vars, sink, fed>>

SinkNext ==
  \/ SinkCall("feed")
  \/ SinkCall("flush")
  \/ SinkCall("close")
  \/ PollFuture
  \/ \E p \in Path : StartSend(p)
  \/ FlushIdle
  \/ CloseIdle
  \/ SinkCallDropped

(* Without a sink the user calls the deleter itself.                        *)
UserNext ==
  \/ NoSink /\ Next /\ UNCHANGED sinkVars
  \/ ~NoSink /\ SinkNext

(* Only a user without a sink is assumed to poll until the deleter returns. *)
DirectRuns == NoSink /\ DeleterRuns /\ UNCHANGED sinkVars

UserSpec == SinkInit /\ [][UserNext]_allVars
FairUserSpec == UserSpec /\ WF_allVars(DirectRuns)

-----------------------------------------------------------------------------
(* A path that start_send accepted is queued, deleted, or in the future     *)
(* that will queue it; otherwise its error has been reported.  No order of  *)
(* feed, flush, close and dropped calls loses it (but see Aliased).         *)
FedIsNotForgotten ==
  \A p \in fed :
    \/ p \in buffer
    \/ p \notin objects
    \/ sink = "delete" /\ path = p
    \/ Aliased(p)

(* The answer of a close that has run the future of Deleter::close: every   *)
(* path that was fed is deleted, unless a batch may hold a version.         *)
SecondCloseDeletesAll ==
  [][(Exact /\ op = "close" /\ sink = "close" /\ op' = "none" /\ answer' = "ok")
        => fed \cap objects' = {}]_allVars

(* A close that is polled returns if the count agrees with the buffer when  *)
(* it starts and no batch may hold a version.                               *)
CloseReturnsIfCountAgrees ==
  (NoSink /\ pc = "close" /\ Exact /\ cur_size = Cardinality(buffer)) ~> (pc = "idle")

(* "Close the deleter, this will flush the deleter and wait until all paths *)
(* are deleted", of the sink as of the deleter it is made from.             *)
SinkCloseDeletesAll ==
  [][(op = "close" /\ op' = "none" /\ answer' = "ok")
        => fed \cap objects' = {}]_allVars
=============================================================================
