----------------------------- MODULE PeerList -----------------------------
(***************************************************************************)
(* The peers a node may have to catch up with (PeerList of                 *)
(* consensus_ffi/catch_up.rs and its use in plugins/consensus.rs).  A peer *)
(* is the token of a connection; tokens are never used twice.  A list is a *)
(* record: states maps every token to its PeerStatus, or "absent"; queue   *)
(* is pending_queue; peer is catch_up_peer.                                *)
(***************************************************************************)
EXTENDS Integers, Sequences, FiniteSets, SequencesExt

CONSTANTS
    Tokens,         \* the tokens of all connections there ever are
    None            \* no peer

PeerStatus == {"UpToDate", "Pending", "CatchingUp"}

emptyList == [states |-> [t \in Tokens |-> "absent"], queue |-> <<>>, peer |-> None]

known(list) == {t \in Tokens : list.states[t] # "absent"}

setStates(list, S, status) == [t \in Tokens |-> IF t \in S THEN status ELSE list.states[t]]

enqueue(list, t) == [list EXCEPT !.states[t] = "Pending", !.queue = Append(@, t)]

(* next_pending: entries of the queue that are not pending any more are
   dropped on the way to the first one that is. *)
next_pending_newest(list) ==
    LET last == SelectLastInSeq(list.queue, LAMBDA t : list.states[t] = "Pending")
    IN  IF last = 0 THEN [list EXCEPT !.queue = <<>>, !.peer = None]
        ELSE [list EXCEPT !.queue = SubSeq(@, 1, last - 1),
                          !.peer = list.queue[last],
                          !.states[list.queue[last]] = "CatchingUp"]
next_pending(list) ==
    LET first == SelectInSeq(list.queue, LAMBDA t : list.states[t] = "Pending")
    IN  IF first = 0 THEN [list EXCEPT !.queue = <<>>, !.peer = None]
        ELSE [list EXCEPT !.queue = SubSeq(@, first + 1, Len(@)),
                          !.peer = list.queue[first],
                          !.states[list.queue[first]] = "CatchingUp"]

(* mark_all_pending: the up-to-date peers, in any order. *)
mark_all_pending(list) ==
    LET idle == {t \in Tokens : list.states[t] = "UpToDate"}
    IN  {[list EXCEPT !.states = setStates(list, idle, "Pending"), !.queue = @ \o new] :
            new \in SetToSeqs(idle)}

(* The entries of a queue that are in ids, in their order. *)
retained(queue, ids) == FoldLeft(LAMBDA kept, t : IF t \in ids THEN Append(kept, t) ELSE kept, <<>>, queue)

(* update_peer_list, given the tokens of the connections. *)
update_peer_list_keepsPeer(list, ids) ==
    LET gone == known(list) \ ids
        new == ids \ known(list)
        kept == [list EXCEPT !.states = setStates(list, gone, "absent"),
                             !.queue = retained(@, ids)]
    IN  {[kept EXCEPT !.states = setStates(kept, new, "Pending"), !.queue = @ \o order] :
            order \in SetToSeqs(new)}
update_peer_list(list, ids) ==
    LET gone == known(list) \ ids
        new == ids \ known(list)
        kept == [list EXCEPT !.states = setStates(list, gone, "absent"),
                             !.queue = retained(@, ids),
                             !.peer = IF @ \in gone THEN None ELSE @]
    IN  {[kept EXCEPT !.states = setStates(kept, new, "Pending"), !.queue = @ \o order] :
            order \in SetToSeqs(new)}

(* forget: the peer is neither caught up with nor in the list. *)
forget(list, t) == [list EXCEPT !.peer = None, !.states[t] = "absent"]

(* try_catch_up: the status is sent if the connection is there, else the
   peer is forgotten. *)
try_catch_up(list, connected) ==
    LET next == next_pending(list)
    IN  IF next.peer # None /\ next.peer \notin connected THEN forget(next, next.peer) ELSE next
-----------------------------------------------------------------------------
(* update_peer_states for a message from t, with the answer of the consensus.
   A catch-up status that is not a response and shows the node behind gives
   ContinueCatchUp; one that is a response gives Success or PendingBlock. *)
stopCatchUp(list, t) == IF list.peer = t THEN [list EXCEPT !.peer = None] ELSE list

pendingIfIdle(list, t) == IF list.states[t] = "UpToDate" THEN enqueue(list, t) ELSE list

upToDate(list, t) == [stopCatchUp(list, t) EXCEPT !.states[t] = "UpToDate"]

behind(list, t) ==
    IF list.states[t] = "Pending" THEN stopCatchUp(list, t) ELSE enqueue(stopCatchUp(list, t), t)

update_peer_states(list, message, answer) ==
    LET t == message.from
    IN  CASE message.kind = "CatchUpStatus" /\ answer = "Success" -> upToDate(list, t)
          [] message.kind = "CatchUpStatus" /\ answer = "PendingBlock" -> behind(list, t)
          [] message.kind = "CatchUpStatus" /\ answer = "ContinueCatchUp" -> pendingIfIdle(list, t)
          [] message.kind = "Broadcast" /\ answer = "PendingBlock" -> pendingIfIdle(list, t)
          [] OTHER -> list
=============================================================================
