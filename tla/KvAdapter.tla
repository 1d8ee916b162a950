----------------------------- MODULE KvAdapter ------------------------------
(***************************************************************************)
(* get, set and delete of one key through the kv adapters of                *)
(* core/src/services, by clients that share the store.  A request may fail, *)
(* before or after it took effect; RetryLayer repeats an operation whose    *)
(* error may be temporary.                                                  *)
(*                                                                          *)
(* Every set and delete is a write with a number of its own; write 0 is     *)
(* the delete that leaves the store empty.                                  *)
(*                                                                          *)
(* A second specification, ConnSpec, is of the connections to memcached.    *)
(***************************************************************************)
EXTENDS Naturals, Sequences

CONSTANTS
  Services,      \* the adapters that are checked
  Clients,
  MaxOps,        \* bound: operations
  MaxFailures,   \* bound: requests that fail
  Keys, Tasks,
  MaxDrops,      \* bound: tasks that are dropped
  MaxRefused     \* bound: sets the server of memcached refuses

(* What get, set and delete of one key ask of the store, request after      *)
(* request, and whether an error of the adapter may be temporary.           *)
(*                                                                          *)
(*   read, put, remove      one request, atomic at the store                *)
(*   find, find_all         the records of the key, remembered              *)
(*   read_found, remove_found                                               *)
(*                          by the id that was remembered                   *)
(*   insert                 one more record                                 *)
Atomic(temporary) ==
  [get |-> <<"read">>, set |-> <<"put">>, delete |-> <<"remove">>,
   temporary |-> temporary]

Memory       == Atomic(FALSE)
Dashmap      == Atomic(FALSE)
Moka         == Atomic(FALSE)
MiniMoka     == Atomic(FALSE)
Sled         == Atomic(FALSE)
Rocksdb      == Atomic(FALSE)
Redb         == Atomic(FALSE)
Cacache      == Atomic(FALSE)
Etcd         == Atomic(TRUE)
Redis        == Atomic(TRUE)
Memcached    == Atomic(TRUE)
Tikv         == Atomic(FALSE)
Mysql        == Atomic(FALSE)
Postgresql   == Atomic(FALSE)
Sqlite       == Atomic(FALSE)
Libsql       == Atomic(TRUE)
D1           == Atomic(TRUE)
Mongodb      == Atomic(FALSE)
Surrealdb    == Atomic(FALSE)
CloudflareKv == Atomic(TRUE)

(* A get that failed is answered as if the key did not exist.               *)
Foundationdb == [Atomic(FALSE) EXCEPT !.get = <<"read_or_none">>]

(* A record by its id in the segment, and the id by the key in the index; a *)
(* set leaves the record it replaces.                                       *)
Persy ==
  [Atomic(FALSE) EXCEPT
     !.get    = <<"find", "read_found_or_none">>,
     !.delete = <<"find", "remove_found">>]

Gridfs ==
  [Atomic(TRUE) EXCEPT
     !.get    = <<"find", "read_found">>,
     !.set    = <<"find", "remove_found", "insert">>,
     !.delete = <<"find", "remove_found">>]

NebulaGraph ==
  [Atomic(FALSE) EXCEPT !.set = <<"remove", "insert">>]

Atomicserver ==
  [Atomic(TRUE) EXCEPT
     !.get    = <<"find", "read_found">>,
     !.set    = <<"find_all", "remove_found_any", "insert">>,
     !.delete = <<"find_all", "remove_found_any">>]

Adapter ==
  [memory |-> Memory, dashmap |-> Dashmap, moka |-> Moka, mini_moka |-> MiniMoka,
   sled |-> Sled, rocksdb |-> Rocksdb, redb |-> Redb, cacache |-> Cacache,
   etcd |-> Etcd, redis |-> Redis, memcached |-> Memcached, tikv |-> Tikv,
   mysql |-> Mysql, postgresql |-> Postgresql, sqlite |-> Sqlite, libsql |-> Libsql,
   d1 |-> D1, mongodb |-> Mongodb, surrealdb |-> Surrealdb,
   cloudflare_kv |-> CloudflareKv, foundationdb |-> Foundationdb, persy |-> Persy,
   gridfs |-> Gridfs, nebula_graph |-> NebulaGraph, atomicserver |-> Atomicserver]

KvAssumption ==
  /\ Services \subseteq DOMAIN Adapter
  /\ {MaxOps, MaxFailures, MaxDrops, MaxRefused} \subseteq Nat

VARIABLES
  service,
  records,      \* the records of the key, each the number of the set that made it
  gone,         \* the records that were removed
  client,       \* the operation of each client
  ops, failures,
  deletes,      \* history: the writes that are deletes
  finished,     \* history: the writes that have returned
  superseded,   \* history: writes that returned before one began that was acknowledged
  store,        \* memcached: the number of the last set of each key, 0 for none
  pool,         \* the idle connections to it
  task,         \* what each task is doing
  drops, refused,
  had           \* history: the values each key has had

vars == <<service, records, gone, client, ops, failures, deletes, finished, superseded>>
connVars == <<store, pool, task, ops, drops, refused, had>>

A == Adapter[service]

Idle == [op |-> "idle", w |-> 0, left |-> <<>>, found |-> {}, before |-> {},
         hit |-> FALSE, err |-> FALSE, result |-> {}]

Init ==
  /\ service \in Services
  /\ records = {} /\ gone = {}
  /\ client = [c \in Clients |-> Idle]
  /\ ops = 0 /\ failures = 0
  /\ deletes = {0} /\ finished = {0} /\ superseded = {}

Begin(c, op) ==
  /\ client[c].left = <<>>
  /\ ops < MaxOps
  /\ ops' = ops + 1
  /\ client' = [client EXCEPT ![c] =
       [Idle EXCEPT !.op = op, !.w = ops', !.left = A[op],
                    !.before = IF op = "get" THEN superseded ELSE finished]]
  /\ deletes' = IF op = "delete" THEN deletes \cup {ops'} ELSE deletes
  /\ UNCHANGED <<service, records, gone, failures, finished, superseded>>

(* A write returns, acknowledged or with an error.                          *)
Returns(c, acked) ==
  IF client[c].op = "get" THEN UNCHANGED <<finished, superseded>> ELSE
  /\ finished' = finished \cup {client[c].w}
  /\ superseded' = IF acked THEN superseded \cup client[c].before ELSE superseded

Continue(c, found) ==
  LET left == Tail(client[c].left) IN
  /\ client' = [client EXCEPT ![c].left = left, ![c].found = found]
  /\ IF left = <<>> THEN Returns(c, TRUE) ELSE UNCHANGED <<finished, superseded>>

(* A get returns one of the records, or, for none, one of the deletes.      *)
Answer(c, rs) ==
  /\ \E r \in IF rs = {} THEN {deletes} ELSE {{x} : x \in rs} :
       client' = [client EXCEPT ![c].left = <<>>, ![c].result = r]
  /\ UNCHANGED <<finished, superseded>>

Error(c) ==
  /\ client' = [client EXCEPT ![c].left = <<>>, ![c].err = TRUE]
  /\ Returns(c, FALSE)

Store(rs) ==
  /\ records' = rs
  /\ gone' = gone \cup (records \ rs)

At(c, step) == client[c].left # <<>> /\ Head(client[c].left) = step

Read(c) ==
  /\ At(c, "read") \/ At(c, "read_or_none")
  /\ Answer(c, records)
  /\ Store(records)

PutMutant(c) ==              \* the old record is removed and the new one inserted
  /\ At(c, "put")
  /\ \/ records = {} /\ Store({client[c].w}) /\ Continue(c, {})
     \/ records # {} /\ Store({}) /\ UNCHANGED <<client, finished, superseded>>

(* Replaced records are not removed ones: persy keeps them.                 *)
Put(c) ==
  /\ At(c, "put")
  /\ records' = {client[c].w}
  /\ Continue(c, {})
  /\ UNCHANGED gone

RemoveMutant(c) ==           \* a key that does not exist is an error
  /\ At(c, "remove")
  /\ IF records = {} THEN Error(c) ELSE Continue(c, {})
  /\ Store({})

Remove(c) ==
  /\ At(c, "remove")
  /\ Store({})
  /\ Continue(c, {})

(* find_one: where there is none, a set goes on with its insert, and the    *)
(* others return.                                                           *)
Find(c) ==
  /\ At(c, "find")
  /\ \/ \E r \in records : Continue(c, {r})
     \/ /\ records = {}
        /\ CASE client[c].op = "get"    -> Answer(c, {})
             [] client[c].op = "delete" ->
                  client' = [client EXCEPT ![c].left = <<>>] /\ Returns(c, TRUE)
             [] client[c].op = "set"    -> Continue(c, {})
  /\ Store(records)

FindAll(c) ==
  /\ At(c, "find_all")
  /\ Continue(c, records)
  /\ Store(records)

ReadFound(c) ==
  /\ At(c, "read_found") \/ At(c, "read_found_or_none")
  /\ IF client[c].found \cap gone = {}
       THEN Answer(c, client[c].found)
       ELSE IF At(c, "read_found") THEN Error(c) ELSE Answer(c, {})
  /\ Store(records)

RemoveFound(c) ==
  /\ At(c, "remove_found")
  /\ IF client[c].found \cap gone = {}
       THEN Continue(c, {}) /\ gone' = gone \cup client[c].found
       ELSE Error(c) /\ UNCHANGED gone
  /\ records' = records \ client[c].found

RemoveFoundAny(c) ==
  /\ At(c, "remove_found_any")
  /\ Continue(c, {})
  /\ Store(records \ client[c].found)

InsertMutant(c) ==           \* the record is not closed, and not kept
  /\ At(c, "insert")
  /\ Continue(c, {})
  /\ Store(records)

Insert(c) ==
  /\ At(c, "insert")
  /\ Continue(c, {})
  /\ Store(records \cup {client[c].w})

Step(c) ==
  /\ \/ Read(c) \/ Put(c) \/ Remove(c) \/ Find(c) \/ FindAll(c) \/ ReadFound(c)
     \/ RemoveFound(c) \/ RemoveFoundAny(c) \/ Insert(c)
  /\ UNCHANGED <<service, ops, failures, deletes>>

(* A request fails.  The write it asked for may have taken effect.          *)
Fails(c) ==
  /\ client[c].left # <<>>
  /\ failures < MaxFailures
  /\ failures' = failures + 1
  /\ \/ Store(records)
     \/ At(c, "put") /\ records' = {client[c].w} /\ UNCHANGED gone
     \/ At(c, "remove") /\ Store({})
  /\ IF At(c, "read_or_none")
       THEN Answer(c, {})
       ELSE \/ /\ A.temporary
               /\ client' = [client EXCEPT ![c].left = A[client[c].op], ![c].hit = TRUE]
               /\ UNCHANGED <<finished, superseded>>
            \/ /\ client' = [client EXCEPT ![c].left = <<>>, ![c].hit = TRUE, ![c].err = TRUE]
               /\ Returns(c, FALSE)
  /\ UNCHANGED <<service, ops, deletes>>

Next ==
  \E c \in Clients :
    \/ \E op \in {"get", "set", "delete"} : Begin(c, op)
    \/ Step(c)
    \/ Fails(c)

Spec == Init /\ [][Next]_vars

-----------------------------------------------------------------------------
(* "return `Ok(None)` if this key is not exist": a get returns the record   *)
(* of a set, or nothing because of a delete, that no write had superseded   *)
(* when it began.                                                           *)
Regular ==
  \A c \in Clients :
    client[c].result # {} => client[c].result \ client[c].before # {}

(* "return `Ok(())` even if this key is not exist": a delete fails only     *)
(* when a request did.                                                      *)
DeleteIsOk ==
  \A c \in Clients : client[c].op = "delete" /\ client[c].err => client[c].hit

-----------------------------------------------------------------------------
(* The connections of core/src/services/memcached: binary.rs writes a       *)
(* request and reads one response; bb8's pool checks a connection with      *)
(* is_valid before it hands it out, and takes it back when the task is done *)
(* or dropped, by TimeoutLayer for instance.                                *)
(*                                                                          *)
(* A connection is the sequence of the responses that wait in it.  Dropping *)
(* a task in the middle of the bytes of a request is left out.              *)
ConnIdle ==
  [pc |-> "idle", op |-> "get", key |-> CHOOSE k \in Keys : TRUE, n |-> 0,
   conn |-> <<>>, result |-> "none", value |-> 0]

Version == MaxOps + 1    \* the value of the response to a version request

ConnInit ==
  /\ store = [k \in Keys |-> 0]
  /\ pool = {}
  /\ task = [t \in Tasks |-> ConnIdle]
  /\ ops = 0 /\ drops = 0 /\ refused = 0
  /\ had = [k \in Keys |-> {0}]

ConnBegin(t, op, k) ==
  /\ task[t].pc \in {"idle", "done"}
  /\ ops < MaxOps
  /\ ops' = ops + 1
  /\ task' = [task EXCEPT ![t] =
       [ConnIdle EXCEPT !.pc = "conn", !.op = op, !.key = k, !.n = ops']]
  /\ UNCHANGED <<store, pool, drops, refused, had>>

Ok(v)    == [status |-> "ok", value |-> v]
NotFound == [status |-> "not_found", value |-> 0]
Refused  == [status |-> "error", value |-> 0]
Garbage  == [status |-> "garbage", value |-> 0]

Goes(t, pc, conn) == task' = [task EXCEPT ![t].pc = pc, ![t].conn = conn]

(* The pool makes a connection, or takes one and asks is_valid.             *)
Connect(t) ==
  /\ task[t].pc = "conn"
  /\ pool = {}
  /\ Goes(t, "request", <<>>)
  /\ UNCHANGED <<store, pool, ops, drops, refused, had>>

CheckOutMutant(t) ==         \* the request is not flushed
  /\ task[t].pc = "conn"
  /\ \E c \in pool : pool' = pool \ {c} /\ Goes(t, "version", c.waiting)
  /\ UNCHANGED <<store, ops, drops, refused, had>>

CheckOut(t) ==
  /\ task[t].pc = "conn"
  /\ \E c \in pool :
       /\ pool' = pool \ {c}
       /\ Goes(t, "version", Append(c.waiting, Ok(Version)))
  /\ UNCHANGED <<store, ops, drops, refused, had>>

(* parse_response: an unexpected status returns before the body is read,    *)
(* and what is left of it is read as a header.                              *)
ParseRefusedMutant(conn) ==  \* the status is not looked at
  [ok |-> TRUE, r |-> Head(conn), rest |-> Tail(conn)]

ParseResponse(conn) ==
  IF Head(conn).status \in {"ok", "not_found"}
    THEN [ok |-> TRUE, r |-> Head(conn), rest |-> Tail(conn)]
    ELSE [ok |-> FALSE, r |-> Head(conn), rest |-> <<Garbage>> \o Tail(conn)]

IsValidMutant(t) ==          \* the response is not read
  /\ task[t].pc = "version"
  /\ Goes(t, "request", task[t].conn)
  /\ UNCHANGED <<store, pool, ops, drops, refused, had>>

(* A connection that is not valid is closed, and the pool gives another.    *)
(* The value must be text.                                                  *)
IsValid(t) ==
  LET p == ParseResponse(task[t].conn) IN
  /\ task[t].pc = "version"
  /\ \/ p.ok /\ Goes(t, "request", p.rest)
     \/ (~p.ok \/ p.r.value \notin {0, Version}) /\ Goes(t, "conn", <<>>)
  /\ UNCHANGED <<store, pool, ops, drops, refused, had>>

Request(t) ==
  LET k == task[t].key
      answer(r) == Goes(t, "wait", Append(task[t].conn, r))
  IN
  /\ task[t].pc = "request"
  /\ \/ /\ task[t].op = "get"
        /\ answer(IF store[k] = 0 THEN NotFound ELSE Ok(store[k]))
        /\ UNCHANGED <<store, refused, had>>
     \/ /\ task[t].op = "set"
        /\ answer(Ok(0))
        /\ store' = [store EXCEPT ![k] = task[t].n]
        /\ had' = [had EXCEPT ![k] = @ \cup {task[t].n}]
        /\ UNCHANGED refused
     \/ /\ task[t].op = "set" /\ refused < MaxRefused
        /\ answer(Refused)
        /\ refused' = refused + 1
        /\ UNCHANGED <<store, had>>
     \/ /\ task[t].op = "delete"
        /\ answer(IF store[k] = 0 THEN NotFound ELSE Ok(0))
        /\ store' = [store EXCEPT ![k] = 0]
        /\ UNCHANGED <<refused, had>>
  /\ UNCHANGED <<pool, ops, drops>>

Return(t, conn) == pool' = pool \cup {[of |-> task[t].n, waiting |-> conn]}

Response(t) ==
  LET p == ParseResponse(task[t].conn) IN
  /\ task[t].pc = "wait"
  /\ task' = [task EXCEPT ![t].pc = "done", ![t].conn = <<>>, ![t].value = p.r.value,
                          ![t].result = IF p.ok THEN "ok" ELSE "error"]
  /\ Return(t, p.rest)
  /\ UNCHANGED <<store, ops, drops, refused, had>>

(* has_broken is FALSE: the connection goes back as it is.                  *)
Drop(t) ==
  /\ task[t].pc \in {"version", "request", "wait"}
  /\ drops < MaxDrops
  /\ drops' = drops + 1
  /\ task' = [task EXCEPT ![t] = ConnIdle]
  /\ Return(t, task[t].conn)
  /\ UNCHANGED <<store, ops, refused, had>>

ConnNext ==
  \E t \in Tasks :
    \/ \E op \in {"get", "set", "delete"}, k \in Keys : ConnBegin(t, op, k)
    \/ Connect(t) \/ CheckOut(t) \/ IsValid(t) \/ Request(t) \/ Response(t) \/ Drop(t)

ConnSpec == ConnInit /\ [][ConnNext]_connVars

-----------------------------------------------------------------------------
(* "Get a key from service": a get that succeeds returns a value its key    *)
(* has had.                                                                 *)
GetsItsKey ==
  \A t \in Tasks :
    task[t].result = "ok" /\ task[t].op = "get" => task[t].value \in had[task[t].key]

(* A set that succeeds was not refused.                                     *)
AckedIsSet ==
  \A t \in Tasks :
    task[t].result = "ok" /\ task[t].op = "set" => task[t].n \in had[task[t].key]

(* A task that waits for a response has one to come: no wait is for ever.   *)
AnswerComes ==
  \A t \in Tasks : task[t].pc \in {"version", "wait"} => task[t].conn # <<>>
=============================================================================
