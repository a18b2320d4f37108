---------------------------- MODULE NodeShutdown ----------------------------
(***************************************************************************)
(* A node from its start to its end (main in bin/cli.rs): the four queues  *)
(* between the network and the consensus (CALLBACK_QUEUE), the two threads *)
(* that empty them, the poll thread, the threads of the consensus itself,  *)
(* and the order in which main, or the Shutdown call of the gRPC interface,*)
(* brings them to a stop.                                                  *)
(*                                                                         *)
(* All senders of "out_hi" wait for room; they do so inside the consensus, *)
(* with its write lock.  The others drop what finds a queue full.          *)
(***************************************************************************)
EXTENDS Naturals, Sequences, SequencesExt, BlockImport

CONSTANTS
    Depth           \* queue -> CONSENSUS_QUEUE_DEPTH_...

Queues == {"in_hi", "in_lo", "out_hi", "out_lo"}
Threads == {"in", "out"}
Closers == {"main", "rpc"}
hi(t) == IF t = "in" THEN "in_hi" ELSE "out_hi"
lo(t) == IF t = "in" THEN "in_lo" ELSE "out_lo"

ASSUME DepthAssumption == Depth \in [Queues -> Nat \ {0}]

VARIABLES
    main,           \* where main is
    signalled,      \* the broadcast channel has a shutdown message
    queue,
    thread,         \* where a queue thread is, what it took from hi in this round, exhausted
    poll,           \* the poll thread
    stop_network,
    own,            \* the baker thread or the timers of the consensus
    lock,           \* who holds the write lock of the consensus
    closing         \* for main and the Shutdown call: the next Stop to send, 0 if not in close

vars == <<main, import, signalled, queue, thread, poll, stop_network, own, lock, closing>>

Init ==
    /\ main = "import" /\ InitImport /\ signalled = FALSE
    /\ queue = [q \in Queues |-> <<>>]
    /\ thread = [t \in Threads |-> [at |-> "off", taken |-> 0, exhausted |-> FALSE]]
    /\ poll = "off" /\ stop_network = FALSE /\ own = "off" /\ lock = "free"
    /\ closing = [c \in Closers |-> 0]

running == main \notin {"end", "failed"}
room(q) == Len(queue[q]) < Depth[q]
-----------------------------------------------------------------------------
(* A queue thread: the messages of high priority, no more than the queue can
   hold, then one of low priority, and if there was none it waits for either.
   Stop ends it wherever it comes from.  handle_consensus_outbound_msg leaves
   a message with the connections and never waits; what the inbound thread
   does with one follows below. *)
Take(t, q, taken) ==
    /\ queue[q] # <<>>
    /\ queue' = [queue EXCEPT ![q] = Tail(@)]
    /\ thread' = [thread EXCEPT ![t] =
            IF Head(queue[q]) = "Stop" THEN [at |-> "ended", taken |-> 0, exhausted |-> FALSE]
            ELSE [at |-> IF t = "out" THEN "high" ELSE IF q = hi(t) THEN "msg_hi" ELSE "msg_lo",
                  taken |-> taken, exhausted |-> FALSE]]

TakeHigh_unbounded(t) ==
    /\ thread[t].at = "high"
    /\ IF queue[hi(t)] # <<>>
       THEN Take(t, hi(t), 0)
       ELSE /\ thread' = [thread EXCEPT ![t].at = "low", ![t].exhausted = TRUE]
            /\ UNCHANGED queue
    /\ UNCHANGED <<main, import, signalled, poll, stop_network, own, lock, closing>>
TakeHigh(t) ==
    /\ thread[t].at = "high"
    /\ IF thread[t].taken < Depth[hi(t)] /\ queue[hi(t)] # <<>>
       THEN Take(t, hi(t), thread[t].taken + 1)
       ELSE /\ thread' = [thread EXCEPT ![t].at = "low", ![t].exhausted = thread[t].taken < Depth[hi(t)]]
            /\ UNCHANGED queue
    /\ UNCHANGED <<main, import, signalled, poll, stop_network, own, lock, closing>>

nextRound(t) == thread' = [thread EXCEPT ![t] = [at |-> "high", taken |-> 0, exhausted |-> FALSE]]

TakeLow(t) ==
    /\ thread[t].at = "low"
    /\ IF queue[lo(t)] # <<>> THEN Take(t, lo(t), 0)
       ELSE /\ UNCHANGED queue
            /\ IF thread[t].exhausted THEN thread' = [thread EXCEPT ![t] = [at |-> "select", taken |-> 0, exhausted |-> FALSE]] ELSE nextRound(t)
    /\ UNCHANGED <<main, import, signalled, poll, stop_network, own, lock, closing>>

Select(t) ==
    /\ thread[t].at = "select"
    /\ \E q \in {hi(t), lo(t)} : Take(t, q, 0)
    /\ UNCHANGED <<main, import, signalled, poll, stop_network, own, lock, closing>>

(* handle_consensus_inbound_msg: the consensus is called and takes its lock;
   it may send messages, or meet a protocol update it does not know. *)
CallConsensus ==
    /\ thread["in"].at \in {"msg_hi", "msg_lo"} /\ lock = "free" /\ lock' = "in"
    /\ \E at \in {"calling", "sending"} : thread' = [thread EXCEPT !["in"].at = at]
    /\ UNCHANGED <<main, import, signalled, queue, poll, stop_network, own, closing>>

CallReturns ==
    /\ thread["in"].at = "calling" /\ lock' = "free"
    /\ thread' = [thread EXCEPT !["in"].at = "high"]
    /\ stop_network' \in {stop_network, TRUE}
    /\ UNCHANGED <<main, import, signalled, queue, poll, own, closing>>

(* send_out_blocking_msg, from the callbacks of either. *)
sending(who) == IF who = "in" THEN thread["in"].at = "sending" ELSE own = "sending"

OwnStarts ==
    /\ own = "idle" /\ lock = "free" /\ main \notin {"stop_baker", "stop"}
    /\ own' = "sending" /\ lock' = "own"
    /\ UNCHANGED <<main, import, signalled, queue, thread, poll, stop_network, closing>>

SendOutBlocking(who) ==
    /\ sending(who) /\ room("out_hi")
    /\ queue' = [queue EXCEPT !["out_hi"] = Append(@, "Relay")]
    /\ IF who = "in" THEN thread' = [thread EXCEPT !["in"].at = "calling"] /\ UNCHANGED <<own, lock>>
       ELSE own' = "idle" /\ lock' = "free" /\ UNCHANGED thread
    /\ UNCHANGED <<main, import, signalled, poll, stop_network, closing>>
-----------------------------------------------------------------------------
(* The poll thread puts packets in the queues to the consensus until it sees
   that the network is stopped; the gRPC interface sends transactions. *)
TrySend(q) ==
    /\ room(q) /\ queue' = [queue EXCEPT ![q] = Append(@, "Relay")]
    /\ UNCHANGED <<main, import, signalled, thread, poll, stop_network, own, lock, closing>>

PacketIn(q) == poll = "running" /\ q \in {"in_hi", "in_lo"} /\ TrySend(q)
SendBlockItem == running /\ TrySend("out_lo")

PollEnds ==
    /\ poll = "running" /\ stop_network /\ poll' = "ended"
    /\ UNCHANGED <<main, import, signalled, queue, thread, stop_network, own, lock, closing>>

(* close: the network is stopped, then a Stop is put in every queue; each
   waits for room. *)
StopOrder == <<"out_lo", "out_hi", "in_lo", "in_hi">>

CloseStep(c) ==
    /\ closing[c] \in 1..4 /\ room(StopOrder[closing[c]])
    /\ queue' = [queue EXCEPT ![StopOrder[closing[c]]] = Append(@, "Stop")]
    /\ closing' = [closing EXCEPT ![c] = @ + 1]
    /\ UNCHANGED <<main, import, signalled, thread, poll, stop_network, own, lock>>

(* shutdown of the gRPC interface; the server is up before the threads. *)
ShutdownCall ==
    /\ running /\ closing["rpc"] = 0
    /\ stop_network' = TRUE /\ closing' = [closing EXCEPT !["rpc"] = 1]
    /\ UNCHANGED <<main, import, signalled, queue, thread, poll, own, lock>>
-----------------------------------------------------------------------------
(* A signal, or the failure of a server.  It also stops the import. *)
Signal ==
    /\ running /\ ~signalled /\ signalled' = TRUE
    /\ UNCHANGED <<main, import, queue, thread, poll, stop_network, own, lock, closing>>

(* The import (BlockImport).  An error, of a download or because the import was
   stopped, ends the import but not the start. *)
Import ==
    /\ main = "import"
    /\ \/ ImportStep
       \/ signalled /\ StopImport
    /\ UNCHANGED <<main, signalled, queue, thread, poll, stop_network, own, lock, closing>>

ImportEnds ==
    /\ main = "import" /\ import.at = "done" /\ main' = "threads" /\ import' = NoImport
    /\ UNCHANGED <<signalled, queue, thread, poll, stop_network, own, lock, closing>>

StartThreads ==
    /\ main = "threads" /\ main' = "spawn"
    /\ thread' = [t \in Threads |-> [thread[t] EXCEPT !.at = "high"]]
    /\ UNCHANGED <<import, signalled, queue, poll, stop_network, own, lock, closing>>

(* spawn, then establish_connections, whose failure ends the process. *)
SpawnPoll ==
    /\ main = "spawn" /\ poll' = "running"
    /\ main' \in {"baker", "failed"}
    /\ UNCHANGED <<import, signalled, queue, thread, stop_network, own, lock, closing>>

StartBaker ==
    /\ main = "baker" /\ main' = "wait"
    /\ own' \in {"idle", "off"}
    /\ UNCHANGED <<import, signalled, queue, thread, poll, stop_network, lock, closing>>

(* The signal ends the wait; after the gRPC server (GrpcServer), close. *)
Close_queuesOnly ==
    /\ main = "wait" /\ signalled /\ main' = "close"
    /\ closing' = [closing EXCEPT !["main"] = 1]
    /\ UNCHANGED <<import, signalled, queue, thread, poll, stop_network, own, lock>>
Close ==
    /\ main = "wait" /\ signalled /\ main' = "close"
    /\ stop_network' = TRUE /\ closing' = [closing EXCEPT !["main"] = 1]
    /\ UNCHANGED <<import, signalled, queue, thread, poll, own, lock>>

JoinNode ==
    /\ main = "close" /\ closing["main"] = 5 /\ poll = "ended" /\ main' = "join"
    /\ UNCHANGED <<import, signalled, queue, thread, poll, stop_network, own, lock, closing>>

JoinThreads_outOnly ==
    /\ main = "join" /\ thread["out"].at = "ended" /\ main' = "stop_baker"
    /\ UNCHANGED <<import, signalled, queue, thread, poll, stop_network, own, lock, closing>>
JoinThreads ==
    /\ main = "join" /\ (\A t \in Threads : thread[t].at = "ended") /\ main' = "stop_baker"
    /\ UNCHANGED <<import, signalled, queue, thread, poll, stop_network, own, lock, closing>>

(* stop of the consensus: stopBaker waits for the call the baker thread is
   in; stopConsensus takes the write lock for good; clear. *)
StopBaker ==
    /\ main = "stop_baker" /\ own # "sending"
    /\ own' = "off" /\ main' = "stop"
    /\ UNCHANGED <<import, signalled, queue, thread, poll, stop_network, lock, closing>>

StopConsensus ==
    /\ main = "stop" /\ lock = "free" /\ lock' = "main"
    /\ queue' = [q \in Queues |-> <<>>] /\ main' = "stop_haskell"
    /\ UNCHANGED <<import, signalled, thread, poll, stop_network, own, closing>>

StopHaskell ==
    /\ main = "stop_haskell" /\ main' = "end"
    /\ UNCHANGED <<import, signalled, queue, thread, poll, stop_network, own, lock, closing>>

MainStep ==
    \/ Import \/ ImportEnds \/ StartThreads \/ SpawnPoll \/ StartBaker \/ Close \/ JoinNode \/ JoinThreads
    \/ StopBaker \/ StopConsensus \/ StopHaskell

ThreadStep(t) == TakeHigh(t) \/ TakeLow(t) \/ Select(t)

Next ==
    \/ running /\ \/ MainStep \/ PollEnds \/ CallConsensus \/ CallReturns \/ OwnStarts
                  \/ \E t \in Threads : ThreadStep(t)
                  \/ \E who \in {"in", "own"} : SendOutBlocking(who)
                  \/ \E q \in Queues : PacketIn(q)
                  \/ \E c \in Closers : CloseStep(c)
    \/ SendBlockItem \/ ShutdownCall \/ Signal

Spec == Init /\ [][Next]_vars

(* Threads that can go on do so: weak fairness of the steps of main, of the
   poll thread, of the queue threads, of calls of the consensus and of sends
   that find room, each as a condition that does not last.  Two waits are
   served in their turn although others come in between: the one for the write
   lock, an MVar, and that of main in close. *)
mainWaits ==
    \/ main = "wait" /\ ~signalled
    \/ main = "close" /\ (closing["main"] < 5 \/ poll # "ended")
    \/ main = "join" /\ \E t \in Threads : thread[t].at # "ended"
    \/ main = "stop_baker" /\ own = "sending"
    \/ main = "stop" /\ lock # "free"

passed(P) == running => ~P

Fairness ==
    /\ []<>passed(~mainWaits) /\ []<>passed(poll = "running" /\ stop_network)
    /\ \A t \in Threads :
        /\ []<>passed(thread[t].at = "high") /\ []<>passed(thread[t].at = "low")
        /\ []<>passed(thread[t].at = "select" /\ (queue[hi(t)] # <<>> \/ queue[lo(t)] # <<>>))
    /\ []<>passed(thread["in"].at = "calling")
    /\ \A who \in {"in", "own"} : []<>passed(sending(who) /\ room("out_hi"))
    /\ SF_vars(CallConsensus) /\ SF_vars(CloseStep("main"))

FairSpec == Spec /\ Fairness
-----------------------------------------------------------------------------
(* Queues within their depth; the write lock is held by who calls. *)
TypeOK ==
    /\ main \in {"import", "threads", "spawn", "baker", "wait", "close", "join", "stop_baker", "stop",
                 "stop_haskell", "end", "failed"}
    /\ import.at \in {"index", "chunk", "blocks", "done"} /\ {signalled, stop_network} \subseteq BOOLEAN
    /\ \A q \in Queues : queue[q] \in Seq({"Relay", "Stop"}) /\ Len(queue[q]) <= Depth[q]
    /\ \A t \in Threads : thread[t].at \in {"off", "high", "low", "select", "msg_hi", "msg_lo", "calling", "sending", "ended"}
    /\ poll \in {"off", "running", "ended"} /\ own \in {"off", "idle", "sending"}
    /\ closing \in [Closers -> 0..5]
    /\ lock = "in" <=> thread["in"].at \in {"calling", "sending"}
    /\ lock = "own" <=> own = "sending"

(* stop_haskell comes last: nothing that main started and that calls the
   consensus, or is called by it, is left when it is reached, whoever called
   close before.  (The task that stops an import is left out: it calls the
   consensus once, when the message comes, and main does not wait for it.) *)
HaskellIsLast ==
    main \in {"stop_haskell", "end"} =>
        poll = "ended" /\ own = "off" /\ \A t \in Threads : thread[t].at = "ended"

(* Someone waits for room in a queue whose thread has ended. *)
waiting(q) ==
    \/ \E c \in Closers : closing[c] \in 1..4 /\ StopOrder[closing[c]] = q
    \/ q = "out_hi" /\ (sending("in") \/ sending("own"))
Hang == \E t \in Threads : \E q \in {hi(t), lo(t)} : thread[t].at = "ended" /\ ~room(q) /\ waiting(q)

(* A shutdown message, whenever it comes (also during the import, and after a
   Shutdown call), brings the process to its end.  One thing only stands in
   the way: a sender that waits on a full queue after its thread has gone. *)
ShutdownEnds == signalled ~> ~running \/ Hang

(* However many messages of high priority come, those of low priority are
   served (the bound of the inner loop). *)
LowIsServed == queue["in_lo"] # <<>> ~> thread["in"].at \in {"msg_lo", "ended"} \/ ~running \/ Hang

(* The messages still in the inbound queues are processed before the thread
   ends, as the comment in close has it. *)
InboundIsProcessed ==
    thread["in"].at = "ended" /\ main # "end" => \A q \in {"in_hi", "in_lo"} : ~Contains(queue[q], "Relay")
=============================================================================
