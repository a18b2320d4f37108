----------------------------- MODULE GrpcServer -----------------------------
(***************************************************************************)
(* The gRPC server of a node (grpc2.rs): requests from their acceptance to *)
(* the answer or the end of the stream, the thread pool that asks the      *)
(* consensus, the channels over which Haskell threads, tasks and relays    *)
(* send items, and the end of the server when the node stops.              *)
(*                                                                         *)
(* A request has a connection of its own.  The handler of a request (stage *)
(* waiting) and its job in the thread pool go on independently: a client   *)
(* that leaves, or a timeout, ends the first only.                         *)
(***************************************************************************)
EXTENDS QueryApi, Sequences, FiniteSets

Results == {"refused", "cancelled", "ok", "error", "internal", "invalid_argument", "deadline_exceeded"}

CONSTANTS
    None,
    Requests,
    Offered,            \* request -> the endpoints it may be for
    MaxConnections,     \* max_connections
    MaxConcurrent,      \* max_concurrent_requests
    Threads,            \* threads of the pool
    MaxDryRuns,         \* dry_run_concurrency
    MaxItems,           \* bound: the items of a stream and of a session
    MaxBlocks           \* bound: the blocks there are notifications of

ASSUME ServerAssumption ==
    /\ {MaxConnections, MaxConcurrent, Threads, MaxDryRuns, MaxItems, MaxBlocks, Short, Long} \subseteq Nat
    /\ IsFiniteSet(Requests) /\ \A r \in Requests : Offered[r] \subseteq Endpoints
    /\ None \notin Endpoints /\ None \notin Results

Relays == {"arrived", "finalized"}

VARIABLES
    req,                \* the requests
    server,             \* the server task
    main,               \* the main thread: running, in shutdown of the server, after it, at the end
    relaying,           \* the relay tasks are there
    notified,           \* the unbounded channels to the relays
    blocks,             \* how many blocks have arrived and were finalized
    permits,            \* of dry_run_semaphore
    accepted, relayed,  \* what became of the transaction that is submitted
    haskell,            \* running, or stopped by stop_haskell
    late                \* the requests with a call of Haskell when it was stopped

vars == <<req, server, main, relaying, notified, blocks, permits, accepted, relayed, haskell, late>>

(* thread: a Haskell thread or a task is there that uses the sender.
   sender: who has it; lost means nobody. *)
newRequest ==
    [ep |-> None, stage |-> "new", job |-> "none", result |-> None, sender |-> "none", thread |-> FALSE,
     chan |-> <<>>, made |-> 0, got |-> <<>>]

Init ==
    /\ req = [r \in Requests |-> newRequest]
    /\ server = "serving" /\ main = "running" /\ relaying = TRUE /\ haskell = "running"
    /\ notified = [w \in Relays |-> <<>>] /\ blocks = [w \in Relays |-> 0]
    /\ permits = MaxDryRuns /\ accepted = FALSE /\ relayed = FALSE /\ late = {}

at(stage) == {r \in Requests : req[r].stage = stage}
calling == {r \in Requests : req[r].job = "calling"}

lateCall(r) == late' = IF haskell = "stopped" THEN late \cup {r} ELSE late
-----------------------------------------------------------------------------
(* A connection is accepted when a permit is left for it. *)
Accept(r) ==
    /\ server = "serving" /\ req[r].stage = "new"
    /\ Cardinality(at("connected") \cup at("waiting") \cup at("streaming")) < MaxConnections
    /\ req' = [req EXCEPT ![r].stage = "connected"]
    /\ UNCHANGED <<server, main, relaying, notified, blocks, permits, accepted, relayed, haskell, late>>

(* The end of a request drops what its handler or stream owns, the receiver
   of its channel among it; that of a session ends it in the consensus too. *)
closed(q, result) == [q EXCEPT !.stage = "closed", !.result = result, !.chan = <<>>]

session(q) == q.ep # None /\ q.ep.kind = "session" /\ q.stage = "streaming"

Close(r, result) ==
    /\ req' = [req EXCEPT ![r] = closed(@, result)]
    /\ permits' = IF session(req[r]) THEN permits + 1 ELSE permits
    /\ IF session(req[r]) THEN lateCall(r) ELSE UNCHANGED late
    /\ UNCHANGED <<server, main, relaying, notified, blocks, accepted, relayed, haskell>>

Receives(r, e) ==
    /\ server \in {"serving", "failed"} /\ req[r].stage = "connected" /\ e \in Offered[r]

(* Load is shed, or the endpoint is not enabled, or the number of sessions is
   at its limit: an error is the answer. *)
Refuse(r, e) ==
    /\ Receives(r, e)
    /\ req' = [req EXCEPT ![r] = closed([@ EXCEPT !.ep = e], "refused")]
    /\ UNCHANGED <<server, main, relaying, notified, blocks, permits, accepted, relayed, haskell, late>>

Handle(r, e) == Receives(r, e) /\ Cardinality(at("waiting")) < MaxConcurrent

(* run_blocking: a job is spawned and its result awaited. *)
RunBlocking(r, e) ==
    /\ Handle(r, e) /\ e.kind \in {"unary", "stream", "state", "submit"}
    /\ req' = [req EXCEPT ![r].ep = e, ![r].stage = "waiting", ![r].job = "queued",
                          ![r].sender = IF e.ffi.sender THEN "job" ELSE "none"]
    /\ UNCHANGED <<server, main, relaying, notified, blocks, permits, accepted, relayed, haskell, late>>

(* get_blocks, get_finalized_blocks: the sender is given to the relay. *)
Subscribe(r, e) ==
    /\ Handle(r, e) /\ e.kind \in Relays
    /\ req' = [req EXCEPT ![r].ep = e, ![r].stage = "streaming", ![r].sender = e.kind]
    /\ UNCHANGED <<server, main, relaying, notified, blocks, permits, accepted, relayed, haskell, late>>

DryRunStart(r, e) ==
    /\ Handle(r, e) /\ e.kind = "session" /\ permits > 0
    /\ permits' = permits - 1
    /\ req' = [req EXCEPT ![r].ep = e, ![r].stage = "streaming"]
    /\ lateCall(r)
    /\ UNCHANGED <<server, main, relaying, notified, blocks, accepted, relayed, haskell>>

(* Answered at once, with or without a call of the consensus. *)
Answer(r, e) ==
    /\ Handle(r, e) /\ e.kind \in {"worker", "local"}
    /\ req' = [req EXCEPT ![r] = closed([@ EXCEPT !.ep = e], "ok")]
    /\ IF e.kind = "worker" THEN lateCall(r) ELSE UNCHANGED late
    /\ UNCHANGED <<server, main, relaying, notified, blocks, permits, accepted, relayed, haskell>>

(* The client cancels or disconnects, or the time for the request is over;
   the job is not told. *)
Abandon(r) == req[r].stage \in {"connected", "waiting", "streaming"} /\ Close(r, "cancelled")
-----------------------------------------------------------------------------
(* A thread of the pool takes up the job: wrong arguments end it, else the
   consensus is called. *)
StartJob(r) ==
    /\ req[r].job = "queued" /\ Cardinality(calling) < Threads
    /\ \/ /\ req[r].ep.ffi.validates
          /\ req' = [req EXCEPT ![r].job = "invalid_argument",
                                ![r].sender = IF @ = "job" THEN "freed" ELSE @]
          /\ UNCHANGED late
       \/ /\ req' = [req EXCEPT ![r].job = "calling"]
          /\ lateCall(r)
    /\ UNCHANGED <<server, main, relaying, notified, blocks, permits, accepted, relayed, haskell>>

(* The call returns (ensure_ok).  With success Haskell has a thread that will
   send the items and owns the sender; with an error it has not. *)
answered_freesAll(q, ok) ==
    [q EXCEPT !.job = IF ok THEN "ok" ELSE "error",
              !.sender = IF @ = "none" THEN @ ELSE "freed",
              !.thread = q.ep.ffi.sender /\ ok]
answered(q, ok) ==
    [q EXCEPT !.job = IF ok THEN "ok" ELSE "error",
              !.sender = IF @ = "none" THEN @
                         ELSE IF ok THEN "haskell"
                         ELSE IF q.ep.ffi.frees THEN "freed"
                         ELSE "lost",
              !.thread = q.ep.ffi.sender /\ ok]

FinishJob(r) ==
    /\ req[r].job = "calling" /\ haskell = "running"
    /\ \E ok \in IF req[r].ep.ffi.sure THEN {TRUE} ELSE BOOLEAN :
        /\ req' = [req EXCEPT ![r] = answered(@, ok)]
        /\ IF req[r].ep.kind = "submit" THEN (ok => ~accepted) /\ accepted' = (accepted \/ ok)
           ELSE UNCHANGED accepted
    /\ UNCHANGED <<server, main, relaying, notified, blocks, permits, relayed, haskell, late>>

(* The handler goes on with the result, if it is still there.  A transaction
   that was accepted is put in the queue to the other nodes, if that is not
   full (room). *)
Awaited(r) == req[r].stage = "waiting" /\ req[r].job \in {"ok", "error", "invalid_argument"}

Return(r) ==
    /\ Awaited(r) /\ (req[r].job = "ok" => req[r].ep.kind = "unary")
    /\ Close(r, req[r].job)

ReturnStream(r) ==
    /\ Awaited(r) /\ req[r].job = "ok" /\ req[r].ep.kind \in {"stream", "state"}
    /\ req' = [req EXCEPT ![r].stage = "streaming",
                          ![r].sender = IF req[r].ep.kind = "state" THEN "task" ELSE @,
                          ![r].thread = req[r].ep.kind = "state" \/ @]
    /\ UNCHANGED <<server, main, relaying, notified, blocks, permits, accepted, relayed, haskell, late>>

SendBlockItem_unsent(r) ==
    /\ Awaited(r) /\ req[r].job = "ok" /\ req[r].ep.kind = "submit"
    /\ req' = [req EXCEPT ![r] = closed(@, "ok")]
    /\ UNCHANGED <<server, main, relaying, notified, blocks, permits, accepted, relayed, haskell, late>>
SendBlockItem(r) ==
    /\ Awaited(r) /\ req[r].job = "ok" /\ req[r].ep.kind = "submit"
    /\ \E room \in BOOLEAN :
        /\ relayed' = (relayed \/ room)
        /\ req' = [req EXCEPT ![r] = closed(@, IF room THEN "ok" ELSE "internal")]
    /\ UNCHANGED <<server, main, relaying, notified, blocks, permits, accepted, haskell, late>>
-----------------------------------------------------------------------------
(* enqueue_bytearray_callback: 0, -1 if the channel is full, -2 and no sender
   any more if the receiver is gone or there is no message (null).  A channel
   of size n of the futures crate takes n + 1 messages of one sender. *)
enqueue_bytearray_callback(q, null) ==
    IF null \/ q.stage = "closed" THEN [code |-> -2, q |-> [q EXCEPT !.sender = "freed"]]
    ELSE IF Len(q.chan) > q.ep.size THEN [code |-> -1, q |-> q]
    ELSE [code |-> 0, q |-> [q EXCEPT !.chan = Append(@, q.made + 1)]]

(* The Haskell thread: the same message again after -1, the next after 0,
   null after the last one. *)
EnqueueMessages_skips(r) ==
    /\ req[r].thread /\ req[r].ep.kind = "stream" /\ haskell = "running"
    /\ LET answer == enqueue_bytearray_callback(req[r], req[r].made = MaxItems)
       IN  req' = [req EXCEPT ![r] = [answer.q EXCEPT !.made = IF answer.code # -2 THEN @ + 1 ELSE @,
                                                      !.thread = answer.code # -2]]
    /\ UNCHANGED <<server, main, relaying, notified, blocks, permits, accepted, relayed, haskell, late>>
EnqueueMessages(r) ==
    /\ req[r].thread /\ req[r].ep.kind = "stream" /\ haskell = "running"
    /\ LET answer == enqueue_bytearray_callback(req[r], req[r].made = MaxItems)
       IN  req' = [req EXCEPT ![r] = [answer.q EXCEPT !.made = IF answer.code = 0 THEN @ + 1 ELSE @,
                                                      !.thread = answer.code # -2]]
    /\ UNCHANGED <<server, main, relaying, notified, blocks, permits, accepted, relayed, haskell, late>>

(* The task that sends the state of a contract loads every item through the
   consensus and waits for room. *)
SendState(r) ==
    /\ req[r].thread /\ req[r].ep.kind = "state"
    /\ IF req[r].stage = "closed" \/ req[r].made = MaxItems
       THEN req' = [req EXCEPT ![r].thread = FALSE, ![r].sender = "freed"]
       ELSE /\ Len(req[r].chan) < req[r].ep.size
            /\ req' = [req EXCEPT ![r].chan = Append(@, req[r].made + 1), ![r].made = @ + 1]
    /\ lateCall(r)
    /\ UNCHANGED <<server, main, relaying, notified, blocks, permits, accepted, relayed, haskell>>

(* The client takes an item, or meets the end of the stream. *)
Take(r) ==
    /\ req[r].stage = "streaming" /\ req[r].chan # <<>>
    /\ req' = [req EXCEPT ![r].chan = Tail(@), ![r].got = Append(@, Head(req[r].chan))]
    /\ UNCHANGED <<server, main, relaying, notified, blocks, permits, accepted, relayed, haskell, late>>

EndOfStream(r) ==
    req[r].stage = "streaming" /\ req[r].chan = <<>> /\ req[r].sender = "freed" /\ Close(r, "ok")

(* notify_callback, from within the consensus.  A block that nobody has
   subscribed to leaves no trace; the others are numbered. *)
NotifyCallback(w) ==
    /\ haskell = "running" /\ blocks[w] < MaxBlocks
    /\ \E r \in Requests : req[r].sender = w
    /\ blocks' = [blocks EXCEPT ![w] = @ + 1]
    /\ notified' = [notified EXCEPT ![w] = IF relaying THEN Append(@, blocks[w] + 1) ELSE @]
    /\ UNCHANGED <<req, server, main, relaying, permits, accepted, relayed, haskell, late>>

(* A relay hands a block to all its subscribers: one that is full misses it,
   one that is gone is removed. *)
retain(q, block) ==
    IF q.stage = "closed" THEN [q EXCEPT !.sender = "freed"]
    ELSE IF Len(q.chan) < q.ep.size THEN [q EXCEPT !.chan = Append(@, block)]
    ELSE q

Relay(w) ==
    /\ relaying /\ notified[w] # <<>>
    /\ notified' = [notified EXCEPT ![w] = Tail(@)]
    /\ req' = [r \in Requests |-> IF req[r].sender = w THEN retain(req[r], Head(notified[w])) ELSE req[r]]
    /\ UNCHANGED <<server, main, relaying, blocks, permits, accepted, relayed, haskell, late>>

(* DryRunStream: the operations of a session.  One that succeeds is counted;
   an error, the deadline and the end of the input end the session. *)
DryRun(r, op) ==
    /\ session(req[r]) /\ req[r].made < MaxItems
    /\ \/ /\ req' = [req EXCEPT ![r].made = @ + 1]
          /\ lateCall(r)
          /\ UNCHANGED <<server, main, relaying, notified, blocks, permits, accepted, relayed, haskell>>
       \/ ~op.sure /\ Close(r, "error")

DryRunEnd(r) == session(req[r]) /\ \E result \in {"ok", "deadline_exceeded"} : Close(r, result)
-----------------------------------------------------------------------------
(* The accept loop fails; its connections stay, and the main thread is told. *)
ServerFails ==
    /\ server = "serving" /\ server' = "failed"
    /\ UNCHANGED <<req, main, relaying, notified, blocks, permits, accepted, relayed, haskell, late>>

(* The node is to stop: GRPC2Server::shutdown, unless the server has ended.
   Connections without a request are closed, new ones not accepted. *)
Signal ==
    /\ main = "running"
    /\ IF server = "failed"
       THEN main' = "after" /\ UNCHANGED <<req, server, relaying>>
       ELSE /\ main' = "shutdown" /\ server' = "draining" /\ relaying' = FALSE
            /\ req' = [r \in Requests |-> IF req[r].stage = "connected" THEN closed(req[r], "cancelled") ELSE req[r]]
    /\ UNCHANGED <<notified, blocks, permits, accepted, relayed, haskell, late>>

ServerEnds_eager ==
    /\ server = "draining" /\ at("streaming") = {}
    /\ server' = "stopped"
    /\ UNCHANGED <<req, main, relaying, notified, blocks, permits, accepted, relayed, haskell, late>>
ServerEnds ==
    /\ server = "draining" /\ at("waiting") \cup at("streaming") = {}
    /\ server' = "stopped"
    /\ UNCHANGED <<req, main, relaying, notified, blocks, permits, accepted, relayed, haskell, late>>

(* The main thread waits for the end of the server for 10 seconds; after
   that the task is left alone. *)
ShutdownReturns_patient ==
    /\ main = "shutdown" /\ server = "stopped" /\ main' = "after"
    /\ UNCHANGED <<req, server, relaying, notified, blocks, permits, accepted, relayed, haskell, late>>
ShutdownReturns ==
    /\ main = "shutdown" /\ main' = "after"
    /\ server' = IF server = "stopped" THEN server ELSE "detached"
    /\ UNCHANGED <<req, relaying, notified, blocks, permits, accepted, relayed, haskell, late>>

(* The rest of the shutdown (NodeShutdown), at the end of it stop_haskell. *)
StopHaskell ==
    /\ main = "after" /\ main' = "end" /\ haskell' = "stopped"
    /\ late' = late \cup calling
    /\ UNCHANGED <<req, server, relaying, notified, blocks, permits, accepted, relayed>>

Next ==
    \/ \E r \in Requests :
        \/ Accept(r) \/ Abandon(r) \/ StartJob(r) \/ FinishJob(r) \/ Return(r) \/ ReturnStream(r) \/ SendBlockItem(r)
        \/ EnqueueMessages(r) \/ SendState(r) \/ Take(r) \/ EndOfStream(r) \/ DryRunEnd(r)
        \/ \E op \in SessionOperations : DryRun(r, op)
        \/ \E e \in Offered[r] :
            Refuse(r, e) \/ RunBlocking(r, e) \/ Subscribe(r, e) \/ DryRunStart(r, e) \/ Answer(r, e)
    \/ \E w \in Relays : NotifyCallback(w) \/ Relay(w)
    \/ ServerFails \/ Signal \/ ServerEnds \/ ShutdownReturns \/ StopHaskell

Spec == Init /\ [][Next]_vars

(* The threads of the pool and of Haskell, the tasks and the main thread go
   on, calls of the consensus return, and timers run out.  Clients may stop
   reading. *)
Fairness ==
    /\ \A r \in Requests :
        /\ WF_vars(StartJob(r)) /\ WF_vars(FinishJob(r))
        /\ WF_vars(Return(r) \/ ReturnStream(r) \/ SendBlockItem(r))
        /\ WF_vars(EnqueueMessages(r)) /\ WF_vars(DryRunEnd(r))
    /\ WF_vars(server = "failed" /\ Signal) /\ WF_vars(ShutdownReturns) /\ WF_vars(StopHaskell)

FairSpec == Spec /\ Fairness
-----------------------------------------------------------------------------
(* Requests, stages and results are the known ones; permits are never given
   out beyond dry_run_concurrency. *)
TypeOK ==
    /\ \A r \in Requests :
        /\ req[r].ep \in Endpoints \cup {None}
        /\ req[r].stage \in {"new", "connected", "waiting", "streaming", "closed"}
        /\ req[r].job \in {"none", "queued", "calling", "ok", "error", "invalid_argument"}
        /\ req[r].result \in Results \cup {None}
        /\ req[r].sender \in {"none", "job", "haskell", "task", "freed", "lost"} \cup Relays
        /\ req[r].made \in 0..MaxItems
    /\ server \in {"serving", "failed", "draining", "stopped", "detached"}
    /\ main \in {"running", "shutdown", "after", "end"}
    /\ permits \in 0..MaxDryRuns /\ late \subseteq Requests

(* A sender is used by exactly the thread that owns it: never after it was
   freed by enqueue_bytearray_callback or by get_account_list_v2, and it is
   not kept when the thread has ended.  However sessions of dry runs end,
   their permits come back. *)
ResourcesHaveOneOwner ==
    /\ \A r \in Requests : req[r].thread <=> req[r].sender \in {"haskell", "task"}
    /\ permits + Cardinality({r \in Requests : session(req[r])}) = MaxDryRuns

(* A client that reads a stream to its end has every item, in order, whatever
   was retried because the channel was full, and has no gap before.  A
   subscriber that is slow misses blocks but is not unsubscribed, and the
   blocks it gets are in order (the relays of GRPC2Server::new). *)
items(n) == [i \in 1..n |-> i]
increasing(s) == \A i, j \in DOMAIN s : i < j => s[i] < s[j]
StreamsAreWhole ==
    \A r \in Requests : LET q == req[r] IN q.ep # None =>
        /\ q.ep.kind \in {"stream", "state"} =>
            /\ q.stage = "streaming" => q.got \o q.chan = items(q.made)
            /\ q.result = "ok" => q.got = items(MaxItems)
        /\ q.ep.kind \in Relays /\ q.stage = "streaming" =>
            q.sender = q.ep.kind /\ increasing(q.got \o q.chan)

(* A transaction that the consensus has accepted is sent to the other nodes,
   unless the queue to them was full, of which the client is told, or the
   handler was gone before the call returned (send_block_item sends it after
   the await). *)
AcceptedIsSent ==
    accepted /\ ~relayed =>
        \E r \in Requests : /\ req[r].ep = send_block_item /\ req[r].job = "ok"
                            /\ req[r].stage = "waiting" \/ req[r].result \in {"internal", "cancelled"}

(* When stop_haskell is called, Haskell is called only for requests that
   outlived the server: their client was gone, or the server failed or did
   not end in its 10 seconds. *)
LateCallsAreForsaken ==
    late # {} => server \in {"failed", "detached"} \/ \A r \in late : req[r].result = "cancelled"

(* What main requires of the order of the shutdown: no calls of Haskell any
   more when stop_haskell is called. *)
NoCallsAfterStop == late = {}

(* A sender that Haskell did not take is deallocated, as get_account_list_v2
   does. *)
SendersAreReclaimed == \A r \in Requests : req[r].sender # "lost"

(* Nothing waits for ever: the main thread comes to stop_haskell whatever
   clients do, and also when the server fails by itself; every handler that
   waits for the consensus returns, with pool threads that are fewer than the
   requests (run_blocking); and the thread of a stream whose client is gone
   ends and frees the sender. *)
WorkEnds ==
    /\ main = "shutdown" \/ server = "failed" ~> haskell = "stopped"
    /\ \A r \in Requests :
        /\ req[r].stage = "waiting" ~> req[r].stage # "waiting" \/ haskell = "stopped"
        /\ req[r].thread /\ req[r].ep.kind = "stream" /\ req[r].stage = "closed"
                ~> req[r].sender = "freed" \/ haskell = "stopped"
=============================================================================
