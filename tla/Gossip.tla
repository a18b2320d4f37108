------------------------------- MODULE Gossip -------------------------------
(***************************************************************************)
(* How a block, a transaction or a message of the consensus spreads: the   *)
(* node that made it broadcasts it, every node drops the copies it         *)
(* remembers (DeduplicationQueues), leaves the rest in a queue for its     *)
(* consensus if there is room, and relays what the consensus took up       *)
(* (plugins/consensus.rs, p2p/connectivity.rs, consensus_ffi/helpers.rs).  *)
(*                                                                         *)
(* A connection delivers in order and loses nothing (see Channel).  What   *)
(* the answer of the consensus does to the catch-up state of the peer is   *)
(* in PeerList.  Transactions are within PROTOCOL_MAX_TRANSACTION_SIZE.    *)
(***************************************************************************)
EXTENDS Integers, Sequences, SequencesExt, FiniteSetsExt

CONSTANTS
    Nodes, Bootstrappers,
    Links,              \* the pairs of connected nodes
    Payloads,
    TypeOf,             \* payload -> PacketType
    Maker,              \* payload -> the node whose consensus makes it
    LongSize, ShortSize,    \* of the deduplication queues
    DepthHigh, DepthLow,    \* of the queues of the consensus
    RelayPercentage,    \* relay_broadcast_percentage, times 100
    MayDropRebroadcast, \* whether drop_rebroadcast_probability is set
    MaxMade,            \* payloads made in a behaviour
    MaxDirect           \* packets sent to one peer, in a catch-up

PacketType == <<"Block", "Transaction", "FinalizationRecord", "FinalizationMessage", "CatchUpStatus">>

ASSUME GossipAssumption ==
    /\ TypeOf \in [Payloads -> ToSet(PacketType)] /\ Maker \in [Payloads -> Nodes \ Bootstrappers]
    /\ RelayPercentage \in 0..100

VARIABLES
    link,       \* the packets on their way from one node to another
    seen,       \* the deduplication queues of a node
    inbound,    \* the queues to its consensus
    known,      \* what its consensus has made or taken up
    relays,     \* how often it has broadcast a payload
    lost,       \* what it refused, dropped for a full queue, or did not relay by chance
    overshare,  \* whether a broadcast went to more than the share of the peers
    directs     \* the direct packets sent so far

vars == <<link, seen, inbound, known, relays, lost, overshare, directs>>

Queues == {"high", "low"}

Peers(n) == {m \in Nodes : {m, n} \in Links}
get_node_peer_tokens(n) == Peers(n) \ Bootstrappers

Init ==
    /\ link = [ends \in Nodes \X Nodes |-> <<>>]
    /\ seen = [n \in Nodes |-> [t \in ToSet(PacketType) |-> <<>>]]
    /\ inbound = [n \in Nodes |-> [queue \in Queues |-> <<>>]]
    /\ known = [n \in Nodes |-> {}]
    /\ relays = [n \in Nodes |-> [p \in Payloads |-> 0]]
    /\ lost = [n \in Nodes |-> {}]
    /\ overshare = FALSE
    /\ directs = 0
-----------------------------------------------------------------------------
(* The answers of the consensus by their codes: as Haskell numbers them, and
   as Rust reads the numbers. *)
toReceiveResult ==
    <<"ResultSuccess", "ResultSerializationFail", "ResultInvalid", "ResultPendingBlock",
      "ResultPendingFinalization", "ResultAsync", "ResultDuplicate", "ResultStale",
      "ResultIncorrectFinalizationSession", "ResultUnverifiable", "ResultContinueCatchUp", "ResultEarlyBlock",
      "ResultMissingImportFile", "ResultConsensusShutDown", "ResultExpiryTooLate", "ResultVerificationFailed",
      "ResultNonexistingSenderAccount", "ResultDuplicateNonce", "ResultNonceTooLarge", "ResultTooLowEnergy",
      "ResultInvalidGenesisIndex", "ResultDuplicateAccountRegistrationID",
      "ResultCredentialDeploymentInvalidSignatures", "ResultCredentialDeploymentInvalidIP",
      "ResultCredentialDeploymentInvalidAR", "ResultCredentialDeploymentExpired",
      "ResultChainUpdateInvalidEffectiveTime", "ResultChainUpdateSequenceNumberTooOld",
      "ResultChainUpdateInvalidSignatures", "ResultEnergyExceeded", "ResultInsufficientFunds", "ResultDoubleSign">>

ConsensusFfiResponse ==
    <<"Success", "DeserializationError", "InvalidResult", "PendingBlock", "PendingFinalization", "Asynchronous",
      "DuplicateEntry", "Stale", "IncorrectFinalizationSession", "Unverifiable", "ContinueCatchUp",
      "BlockTooEarly", "MissingImportFile", "ConsensusShutDown", "ExpiryTooLate", "VerificationFailed",
      "NonexistingSenderAccount", "DuplicateNonce", "NonceTooLarge", "TooLowEnergy", "InvalidGenesisIndex",
      "DuplicateAccountRegistrationID", "CredentialDeploymentInvalidSignatures",
      "CredentialDeploymentInvalidIP", "CredentialDeploymentInvalidAR", "CredentialDeploymentExpired",
      "ChainUpdateInvalidEffectiveTime", "ChainUpdateSequenceNumberTooOld", "ChainUpdateInvalidSignatures",
      "MaxBlockEnergyExceeded", "InsufficientFunds", "DoubleSign">>

try_from(code) == ConsensusFfiResponse[code + 1]

(* A mistake: a duplicate is relayed again. *)
RelaysDuplicates(response, type) ==
    response \in {"Success", "PendingFinalization", "Asynchronous", "DuplicateEntry"}
is_rebroadcastable(response, type) ==
    \/ response \in {"Success", "PendingFinalization", "Asynchronous"}
    \/ response = "PendingBlock" /\ type # "Block"

packet_is_rebroadcastable(type) == type # "CatchUpStatus"

(* What the consensus may answer.  A payload is taken up at most once (blocks:
   getMemoryBlockStatus, roundBakerExistingBlock; messages: savePendingMessage,
   Quorum.Duplicate, Timeout.Duplicate); later copies are refused in some way.
   A pending block need not be kept.  A catch-up message may be taken up again. *)
TakenUp(result, type) ==
    \/ result \in {"ResultSuccess", "ResultPendingFinalization", "ResultAsync"}
    \/ result = "ResultPendingBlock" /\ type # "Block"
Answers(n, p) ==
    {result \in ToSet(toReceiveResult) :
        p \in known[n] /\ TypeOf[p] # "CatchUpStatus" => ~TakenUp(result, TypeOf[p])}

(* A function of the consensus hands the payload over and reads the number
   that comes back. *)
received(result, type) ==
    [takenUp |-> TakenUp(result, type),
     response |-> try_from((CHOOSE i \in DOMAIN toReceiveResult : toReceiveResult[i] = result) - 1)]

(* A block that is taken up is executed by the same thread, after the relay and
   whatever comes of it, so a relay does not wait for the execution. *)
send_msg_to_consensus(n, p) == {received(result, TypeOf[p]) : result \in Answers(n, p)}
-----------------------------------------------------------------------------
(* process_network_packet: the peers a broadcast skips.  With a percentage
   below 100 they are picked at random. *)
PeersToSkip(n, dont_relay_to) ==
    LET peers == get_node_peer_tokens(n) \ dont_relay_to
    IN  IF RelayPercentage < 100 THEN kSubset((Cardinality(peers) * RelayPercentage) \div 100, peers)
        ELSE {dont_relay_to}

is_valid_broadcast_target(m, peers_to_skip) == m \notin Bootstrappers /\ m \notin peers_to_skip

Sent(l, n, targets, packet) ==
    [x \in DOMAIN l |-> IF x[1] = n /\ x[2] \in targets THEN Append(l[x], packet) ELSE l[x]]

Broadcast(l, n, p, targets) ==
    [link |-> Sent(l, n, targets, [payload |-> p, direct |-> FALSE]),
     overshare |-> 100 * Cardinality(targets) > RelayPercentage * Cardinality(get_node_peer_tokens(n))]

(* A mistake: only one of the peers gets a broadcast. *)
BroadcastToOne(l, n, p, dont_relay_to) ==
    {Broadcast(l, n, p, {m}) : m \in get_node_peer_tokens(n) \ dont_relay_to}

(* The outcomes of a broadcast. *)
send_broadcast_message(l, n, p, dont_relay_to) ==
    {Broadcast(l, n, p, {m \in Peers(n) : is_valid_broadcast_target(m, skip)})
        : skip \in PeersToSkip(n, dont_relay_to)}

send_direct_message(l, n, m, p) ==
    {[link |-> Sent(l, n, {m}, [payload |-> p, direct |-> TRUE]), overshare |-> FALSE]}

(* To the target, if there is one, else to everyone. *)
send_consensus_msg_to_net(n, p, dont_relay_to, target_id) ==
    \E s \in IF target_id = {} THEN send_broadcast_message(link, n, p, dont_relay_to)
             ELSE UNION {send_direct_message(link, n, m, p) : m \in target_id} :
        link' = s.link /\ overshare' = (overshare \/ s.overshare)

(* handle_consensus_outbound_msg: what the consensus of n has made. *)
BroadcastOwn(n) ==
    \E p \in Payloads :
        /\ Maker[p] = n /\ p \notin known[n]
        /\ Cardinality({q \in Payloads : relays[Maker[q]][q] > 0}) < MaxMade
        /\ known' = [known EXCEPT ![n] = @ \cup {p}]
        /\ send_consensus_msg_to_net(n, p, {}, {})
        /\ relays' = [relays EXCEPT ![n][p] = @ + 1]
        /\ UNCHANGED <<seen, inbound, lost, directs>>

(* What a peer that catches up asks for. *)
SendTo(n, m) ==
    \E p \in known[n] :
        /\ directs < MaxDirect
        /\ directs' = directs + 1
        /\ send_consensus_msg_to_net(n, p, {}, {m})
        /\ UNCHANGED <<seen, inbound, known, relays, lost>>
-----------------------------------------------------------------------------
DedupSize(type) == IF type \in {"Block", "FinalizationRecord"} THEN ShortSize ELSE LongSize

(* A full circular queue forgets the oldest. *)
check_and_insert(queue, p, size) ==
    LET longer == Append(queue, p) IN IF Len(longer) > size THEN Tail(longer) ELSE longer

is_packet_duplicate(n, packet) ==
    /\ ~packet.direct
    /\ TypeOf[packet.payload] # "CatchUpStatus"
    /\ packet.payload \in ToSet(seen[n][TypeOf[packet.payload]])

remembered(n, packet) ==
    LET type == TypeOf[packet.payload]
    IN  IF packet.direct \/ type = "CatchUpStatus" THEN seen
        ELSE [seen EXCEPT ![n][type] = check_and_insert(@, packet.payload, DedupSize(type))]

(* Deduplicated or not, a packet that finds its queue full is dropped. *)
handle_pkt_out(n, m, packet) ==
    LET queue == IF TypeOf[packet.payload] = "Transaction" THEN "low" ELSE "high"
        depth == IF queue = "low" THEN DepthLow ELSE DepthHigh
    IN  IF Len(inbound[n][queue]) < depth
        THEN /\ inbound' = [inbound EXCEPT ![n][queue] = Append(@, [packet |-> packet, source |-> m])]
             /\ UNCHANGED lost
        ELSE /\ lost' = [lost EXCEPT ![n] = @ \cup {packet.payload}]
             /\ UNCHANGED inbound

(* process_message: n reads a packet from m. *)
Receive(m, n) ==
    LET packet == Head(link[<<m, n>>])
    IN  /\ link[<<m, n>>] # <<>>
        /\ link' = [link EXCEPT ![<<m, n>>] = Tail(@)]
        /\ IF n \in Bootstrappers \/ is_packet_duplicate(n, packet)
           THEN UNCHANGED <<seen, inbound, lost>>
           ELSE seen' = remembered(n, packet) /\ handle_pkt_out(n, m, packet)
        /\ UNCHANGED <<known, relays, overshare, directs>>

(* The thread for inbound messages hands one to the consensus, and relays it. *)
handle_consensus_inbound_msg(n, queue) ==
    LET msg == Head(inbound[n][queue])
        p == msg.packet.payload
        type == TypeOf[p]
    IN  /\ inbound[n][queue] # <<>>
        /\ inbound' = [inbound EXCEPT ![n][queue] = Tail(@)]
        /\ \E result \in send_msg_to_consensus(n, p), drop_message \in {FALSE, MayDropRebroadcast} :
              LET relayed == /\ ~drop_message /\ ~msg.packet.direct
                             /\ packet_is_rebroadcastable(type) /\ is_rebroadcastable(result.response, type)
              IN  /\ known' = [known EXCEPT ![n] = IF result.takenUp THEN @ \cup {p} ELSE @]
                  /\ lost' = [lost EXCEPT ![n] = IF relayed \/ p \in known[n] THEN @ ELSE @ \cup {p}]
                  /\ IF relayed
                     THEN /\ relays' = [relays EXCEPT ![n][p] = @ + 1]
                          /\ send_consensus_msg_to_net(n, p, {msg.source}, {})
                     ELSE UNCHANGED <<relays, link, overshare>>
        /\ UNCHANGED <<seen, directs>>

Next ==
    \/ \E n \in Nodes \ Bootstrappers :
          \/ BroadcastOwn(n)
          \/ \E m \in Peers(n) \ Bootstrappers : SendTo(n, m)
          \/ \E queue \in Queues : handle_consensus_inbound_msg(n, queue)
    \/ \E n, m \in Nodes : Receive(m, n)

Spec == Init /\ [][Next]_vars
-----------------------------------------------------------------------------
TypeOK ==
    /\ \A n \in Nodes :
          /\ Len(inbound[n]["high"]) <= DepthHigh /\ Len(inbound[n]["low"]) <= DepthLow
          /\ \A t \in ToSet(PacketType) : Len(seen[n][t]) <= DedupSize(t)
          /\ known[n] \subseteq Payloads

(* A broadcast dies out: no node sends a payload round twice, even when its
   deduplication queue has forgotten it or it comes back to its maker
   ("... to ensure they are not relayed endlessly", helpers.rs), and none does
   before its own consensus has taken the payload up, as read from the numbers
   the two languages exchange (toReceiveResult, TryFrom<i64>). *)
RelayedOnce == \A n \in Nodes, p \in Payloads : relays[n][p] <= IF p \in known[n] THEN 1 ELSE 0

(* A broadcast gets everywhere: when no packet is left anywhere, every peer of a
   node that sent a payload round has taken it up, or has refused it, dropped
   it for a full queue, or was left out as a bootstrapper.  Neither the
   deduplication nor the exclusion of the source can lose a payload. *)
Quiet == (\A l \in DOMAIN link : link[l] = <<>>) /\ \A n \in Nodes, queue \in Queues : inbound[n][queue] = <<>>
ReachesEveryPeer ==
    Quiet => \A n \in Nodes, p \in Payloads :
                relays[n][p] > 0 => \A m \in get_node_peer_tokens(n) : p \in known[m] \cup lost[m]

(* "The percentage of peers to relay broadcasted messages to": no broadcast goes to
   more than that share of the peers (configuration.rs, relay_broadcast_percentage). *)
RelaysToShare == ~overshare
=============================================================================
