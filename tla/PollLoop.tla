----------------------------- MODULE PollLoop -----------------------------
(***************************************************************************)
(* The threads of a node that decide whom it is connected to and whom it   *)
(* catches up with: the poll loop (spawn in p2p/maintenance.rs), the       *)
(* thread that hands received messages to the consensus                    *)
(* (handle_consensus_inbound_msg) and the calls of the operator.  The poll *)
(* loop is the only one that changes connections; the peer list is changed *)
(* by both threads, under its lock.                                        *)
(***************************************************************************)
EXTENDS Connections

CONSTANTS
    Learned,        \* the addresses other nodes tell of
    Packets,        \* the kinds of packets: CatchUpStatus, Broadcast (blocks and finalization messages)
    Called,         \* the addresses the operator calls for
    MayRestart,     \* the process may be killed and started again
    Ends,           \* how connections end: Removal (closed), Expulsion (breach of protocol)
    MaxInbound,     \* size of the queue of messages for the consensus
    MaxQueue,       \* bound on the length of pending_queue
    MaxCalls,       \* bound on the calls of the operator
    MaxRegenesis    \* bound on the protocol updates

ASSUME BoundsAssumption ==
    /\ Learned \cup Called \subseteq Addresses /\ MayRestart \in BOOLEAN
    /\ Ends \subseteq {"Removal", "Expulsion"} /\ Packets \subseteq {"CatchUpStatus", "Broadcast"}
    /\ {MaxInbound, MaxQueue, MaxCalls, MaxRegenesis} \subseteq Nat

VARIABLES
    pc,             \* where the poll loop is
    net,            \* the connections
    peers,          \* the peer list
    late,           \* MAX_CATCH_UP_TIME has passed since the last status was sent
    seen,           \* the peer and the lateness that check_peer_states has read
    inbound,        \* the messages for the consensus
    trigger_catchup,
    banning,        \* the addresses whose ban is written and whose connections are still to be found
    calls, regeneses

vars == <<pc, net, peers, late, seen, inbound, trigger_catchup, banning, calls, regeneses>>

nothingSeen == [peer |-> None, late |-> FALSE]

Init ==
    /\ pc = "network" /\ net \in start(emptyNet) /\ peers = emptyList
    /\ late = FALSE /\ seen = nothingSeen /\ inbound = <<>> /\ trigger_catchup = FALSE
    /\ banning = {} /\ calls = 0 /\ regeneses = 0

(* After a step of the poll loop: what it does next reads the bans there are,
   and what was known of a closed connection has gone with it. *)
settled(n) ==
    LET live == n.candidates \cup n.connections
    IN  [n EXCEPT !.fresh = {}, !.handshaken = @ \cap live, !.slipped = @ \cap live]
-----------------------------------------------------------------------------
(* The poll loop works off the changes, *)
ProcessConnChange ==
    /\ pc = "changes" /\ net.changes # <<>>
    /\ \E n \in process_conn_change([net EXCEPT !.changes = Tail(@)], Head(net.changes)) : net' = settled(n)
    /\ UNCHANGED <<pc, peers, late, seen, inbound, trigger_catchup, banning, calls, regeneses>>

(* brings the peer list up to date if the connections have changed, *)
UpdatePeerList ==
    /\ pc = "changes" /\ net.changes = <<>> /\ pc' = "check"
    /\ IF net.bumped
       THEN /\ peers' \in update_peer_list(peers, net.connections)
            /\ net' = settled([net EXCEPT !.bumped = FALSE])
       ELSE peers' = peers /\ net' = settled(net)
    /\ UNCHANGED <<late, seen, inbound, trigger_catchup, banning, calls, regeneses>>

(* marks all peers after a protocol update and reads whom it is catching up
   with; the lock is released in between *)
Regenesis ==
    /\ pc = "check" /\ trigger_catchup
    /\ trigger_catchup' = FALSE
    /\ peers' \in mark_all_pending(peers)
    /\ net' = settled(net)
    /\ UNCHANGED <<pc, late, seen, inbound, banning, calls, regeneses>>

ReadCatchUpPeer ==
    /\ pc = "check" /\ ~trigger_catchup /\ pc' = "act"
    /\ seen' = [peer |-> peers.peer, late |-> late]
    /\ net' = settled(net)
    /\ UNCHANGED <<peers, late, inbound, trigger_catchup, banning, calls, regeneses>>

(* and before it acts on what it read: it asks the next peer, or gives up one
   that takes too long or is gone. *)
CheckPeerStates_patient ==
    /\ pc = "act" /\ pc' = "network"
    /\ seen' = nothingSeen
    /\ IF seen.peer \in net.connections THEN UNCHANGED <<peers, late>>
       ELSE /\ peers' = try_catch_up(IF seen.peer = None THEN peers ELSE forget(peers, seen.peer),
                                     net.connections)
            /\ late' = (late /\ peers'.peer = None)
    /\ net' = settled(net)
    /\ UNCHANGED <<inbound, trigger_catchup, banning, calls, regeneses>>
CheckPeerStates ==
    /\ pc = "act" /\ pc' = "network"
    /\ seen' = nothingSeen
    /\ IF seen.peer \in net.connections
       THEN /\ net' = settled(IF seen.late THEN register_conn_change(net, [kind |-> "Removal", token |-> seen.peer])
                              ELSE net)
            /\ UNCHANGED <<peers, late>>
       ELSE /\ peers' = try_catch_up(IF seen.peer = None THEN peers ELSE forget(peers, seen.peer),
                                     net.connections)
            /\ late' = (late /\ peers'.peer = None)
            /\ net' = settled(net)
    /\ UNCHANGED <<inbound, trigger_catchup, banning, calls, regeneses>>

(* Then it reads from the connections: handshakes, packets for the consensus
   (dropped if the queue is full), lists of peers, the end of the connection
   and breaches of protocol. *)
Network(n) ==
    /\ pc = "network" /\ net' = settled(n)
    /\ UNCHANGED <<pc, peers, late, seen, inbound, trigger_catchup, banning, calls, regeneses>>

Handshake(t) ==
    /\ t \in net.candidates \ net.handshaken
    /\ Network(register_conn_change([net EXCEPT !.handshaken = @ \cup {t}],
                                    [kind |-> "Promotion", token |-> t]))

LearnPeer(t, a) ==
    /\ t \in net.handshaken \cap (net.candidates \cup net.connections)
    /\ Network(register_conn_change(net, [kind |-> "NewPeers", addr |-> a]))

EndOfConnection(t, kind) ==
    /\ t \in net.candidates \cup net.connections
    /\ ~Contains(net.changes, [kind |-> kind, token |-> t])
    /\ Network(register_conn_change(net, [kind |-> kind, token |-> t]))

Packet(t, kind) ==
    /\ pc = "network" /\ t \in net.handshaken \cap (net.candidates \cup net.connections)
    /\ Len(inbound) < MaxInbound
    /\ inbound' = Append(inbound, [from |-> t, kind |-> kind])
    /\ net' = settled(net)
    /\ UNCHANGED <<pc, peers, late, seen, trigger_catchup, banning, calls, regeneses>>

(* From time to time it looks after its connections; then a new round begins,
   in which one incoming connection at most is accepted. *)
tended(n) ==
    {n} \cup UNION {connection_housekeeping(n, old, faulty, expired) :
        old \in SUBSET n.candidates, faulty \in SUBSET n.connections, expired \in SUBSET n.soft_bans}

NextRound ==
    /\ pc = "network" /\ pc' = "changes"
    /\ \E n \in tended(net) :
        \/ net' = settled(n)
        \/ \E t \in Tokens : accepts(n, t) /\ net' = settled(open(n, {t}))
    /\ UNCHANGED <<peers, late, seen, inbound, trigger_catchup, banning, calls, regeneses>>
-----------------------------------------------------------------------------
(* The other thread: the consensus answers, then the peer list is updated;
   a peer whose status makes no sense is to be expelled. *)
HandleInbound(answer) ==
    /\ inbound # <<>> /\ inbound' = Tail(inbound)
    /\ LET message == Head(inbound)
       IN  /\ peers' = update_peer_states(peers, message, answer)
           /\ Len(peers'.queue) <= MaxQueue
           /\ net' = IF message.kind = "CatchUpStatus" /\ answer = "InvalidResult"
                     THEN register_conn_change(net, [kind |-> "Expulsion", token |-> message.from])
                     ELSE net
    /\ UNCHANGED <<pc, late, seen, trigger_catchup, banning, calls, regeneses>>

(* regenesis_callback, from within the consensus. *)
RegenesisCallback ==
    /\ regeneses < MaxRegenesis /\ regeneses' = regeneses + 1
    /\ trigger_catchup' = TRUE
    /\ UNCHANGED <<pc, net, peers, late, seen, inbound, banning, calls>>

(* The calls of the operator over the gRPC interface. *)
Call(n) ==
    /\ calls < MaxCalls /\ calls' = calls + 1 /\ net' = n
    /\ UNCHANGED <<pc, peers, late, seen, inbound, trigger_catchup, regeneses>>

PeerConnect(a) ==
    Call(register_conn_change(net, [kind |-> "NewConn", addr |-> a])) /\ UNCHANGED banning

PeerDisconnect(a) == (\E n \in drop_addr(net, a) : Call(n)) /\ UNCHANGED banning

(* ban_peer writes the ban first and looks for the connections afterwards. *)
BanPeer(a) == Call(ban(net, a)) /\ banning' = banning \cup {a}

DropBanned(a) ==
    /\ a \in banning /\ banning' = banning \ {a}
    /\ net' = drop_by_ip(net, a)
    /\ UNCHANGED <<pc, peers, late, seen, inbound, trigger_catchup, calls, regeneses>>

UnbanPeer(a) ==
    /\ a \in net.bans /\ net' = unban_node(net, a)
    /\ UNCHANGED <<pc, peers, late, seen, inbound, trigger_catchup, banning, calls, regeneses>>

(* The process is killed and started again, with or without --clear-bans and
   --clear-persisted-peers; what is not in the database is lost. *)
Restart ==
    /\ MayRestart
    /\ net' \in start(net)
    /\ pc' = "network" /\ peers' = emptyList
    /\ late' = FALSE /\ seen' = nothingSeen /\ inbound' = <<>> /\ trigger_catchup' = FALSE
    /\ banning' = {}
    /\ UNCHANGED <<calls, regeneses>>

(* Time goes by. *)
CatchUpIsLate ==
    /\ peers.peer # None /\ ~late /\ late' = TRUE
    /\ UNCHANGED <<pc, net, peers, seen, inbound, trigger_catchup, banning, calls, regeneses>>

NextMillisecond ==
    /\ net.recent /\ net' = [net EXCEPT !.recent = FALSE]
    /\ UNCHANGED <<pc, peers, late, seen, inbound, trigger_catchup, banning, calls, regeneses>>

PollStep ==
    \/ ProcessConnChange \/ UpdatePeerList \/ Regenesis \/ ReadCatchUpPeer \/ CheckPeerStates \/ NextRound

Next ==
    \/ PollStep
    \/ \E t \in Tokens : \/ Handshake(t)
                         \/ \E a \in Learned : LearnPeer(t, a)
                         \/ \E kind \in Ends : EndOfConnection(t, kind)
                         \/ \E kind \in Packets : Packet(t, kind)
    \/ \E answer \in {"Success", "PendingBlock", "ContinueCatchUp", "InvalidResult"} : HandleInbound(answer)
    \/ RegenesisCallback
    \/ \E a \in Called : PeerConnect(a) \/ PeerDisconnect(a) \/ BanPeer(a) \/ DropBanned(a) \/ UnbanPeer(a)
    \/ Restart
    \/ CatchUpIsLate
    \/ NextMillisecond

Spec == Init /\ [][Next]_vars

(* Weak fairness of the poll loop, which always has a step and so goes round
   again and again, and of CatchUpIsLate, which disables itself. *)
Fairness ==
    /\ []<>(pc = "network") /\ []<>(pc = "act")
    /\ []<>~(peers.peer # None /\ ~late)

FairSpec == Spec /\ Fairness
-----------------------------------------------------------------------------
(* The lists and queues hold tokens of opened connections, and no token is
   both before and after its promotion. *)
TypeOK ==
    /\ pc \in {"changes", "check", "act", "network"}
    /\ net.candidates \cup net.handshaken \cup net.connections \subseteq net.opened
    /\ net.candidates \cap net.connections = {} /\ net.connections \subseteq net.handshaken
    /\ Len(net.changes) <= HardLimit
    /\ net.soft_bans \cup net.given \cup net.persisted \cup banning \subseteq Addresses
    /\ net.fresh \subseteq net.bans /\ net.bans \subseteq Addresses /\ net.slipped \subseteq net.opened
    /\ peers.states \in [Tokens -> PeerStatus \cup {"absent"}]
    /\ peers.queue \in Seq(Tokens) /\ peers.peer \in Tokens \cup {None}
    /\ {m.from : m \in Range(inbound)} \cup known(peers) \subseteq net.opened

(* Whatever connections are opened from either side at the same time, at most
   one to each node passes the promotion (process_conn_change). *)
OneConnectionPerNode == \A t, u \in net.connections : Addr[t] = Addr[u] => t = u

(* Every node with a connection is on record for a restart: the removal of
   another connection or candidate of that node does not take it off
   (persist_peer, remove_persisted_peer). *)
ConnectedArePersisted == \A t \in net.connections : Addr[t] \in net.persisted

(* A banned node keeps no connection: the one it has, from either side, before
   or after its promotion, is found or on its way out.  Two ways around this
   are in the code and counted in slipped: the ban was written after the check
   of a connection that was entered once drop_by_ip_and_ban had looked, or the
   removal met a full queue.  A restart leaves neither. *)
BannedAreDropped ==
    \A t \in net.candidates \cup net.connections : Addr[t] \in net.bans =>
        \/ Addr[t] \in banning
        \/ \E change \in Range(net.changes) : change.kind = "RemoveAll" /\ t \in change.tokens
        \/ t \in net.slipped

(* The same without exception: drop_by_ip_and_ban closes the connections of
   the address it bans. *)
BanClosesConnections ==
    \A t \in net.candidates \cup net.connections : Addr[t] \in net.bans =>
        \/ Addr[t] \in banning
        \/ \E change \in Range(net.changes) : change.kind = "RemoveAll" /\ t \in change.tokens

(* Exactly the peer named in catch_up_peer is in state CatchingUp, also when
   check_peer_states acts on a peer it read before the other thread changed
   the list. *)
OneCatchUpPeer == \A t \in Tokens : peers.states[t] = "CatchingUp" <=> peers.peer = t

(* When the loop looks for a peer to catch up with, every connection is in
   the peer list (update_peer_list after every change of the connections). *)
ListFollowsConnections == pc = "check" => net.connections \subseteq known(peers)

(* The node does not wait for one peer forever: it answers, or is late and
   loses its connection (check_peer_states). *)
CatchUpEnds == \A t \in Tokens : peers.peer = t ~> peers.peer # t

(* Every pending peer is asked in the end, or is gone or found up to date
   (pending_queue is served in order). *)
PendingAreAsked == \A t \in Tokens : peers.states[t] = "Pending" ~> peers.states[t] # "Pending"
=============================================================================
