---------------------------- MODULE Gossip_proofs ----------------------------
(***************************************************************************)
(* Proofs about Gossip, for any nodes, links and payloads, any sizes of    *)
(* queues and any answers of the consensus: a node sends a payload round   *)
(* at most once and only if its consensus has taken it up, and with        *)
(* relay_broadcast_percentage at 100 a broadcast gets to every peer.       *)
(***************************************************************************)
EXTENDS Gossip, TLAPS

(* The consensus and the node number the answers in the same way: what is
   relayed was taken up. *)
LEMMA CodesAgree ==
    ASSUME NEW i \in DOMAIN toReceiveResult, NEW type, is_rebroadcastable(try_from(i - 1), type)
    PROVE  TakenUp(toReceiveResult[i], type)
<1>1. i \in 1 .. 32 /\ i - 1 + 1 = i
  BY DEF toReceiveResult
<1>2. i \in {1, 4, 5, 6} \/ i \in {2, 3} \cup 7 .. 32
  BY <1>1
<1>3. CASE i \in {1, 4, 5, 6}
  BY <1>1, <1>3 DEF toReceiveResult, ConsensusFfiResponse, try_from, is_rebroadcastable, TakenUp
<1>4. CASE i \in {2, 3} \cup 7 .. 32
  BY <1>1, <1>4 DEF ConsensusFfiResponse, try_from, is_rebroadcastable
<1> QED BY <1>2, <1>3, <1>4

(* So a payload that is relayed was not known before, and is now. *)
LEMMA RelayedIsNew ==
    ASSUME NEW n \in Nodes, NEW p \in Payloads, NEW result \in send_msg_to_consensus(n, p),
           packet_is_rebroadcastable(TypeOf[p]), is_rebroadcastable(result.response, TypeOf[p])
    PROVE  result.takenUp /\ p \notin known[n]
<1>1. PICK r \in Answers(n, p) : result = received(r, TypeOf[p])
  BY DEF send_msg_to_consensus
<1> DEFINE i == CHOOSE i \in DOMAIN toReceiveResult : toReceiveResult[i] = r
<1>2. i \in DOMAIN toReceiveResult /\ toReceiveResult[i] = r
  <2>1. r \in ToSet(toReceiveResult)
    BY <1>1 DEF Answers
  <2>2. \E j \in DOMAIN toReceiveResult : toReceiveResult[j] = r
    BY <2>1 DEF ToSet
  <2> QED BY <2>2
<1>3. result.takenUp = TakenUp(r, TypeOf[p]) /\ result.response = try_from(i - 1)
  BY <1>1 DEF received
<1> HIDE DEF i
<1>4. TakenUp(r, TypeOf[p])
  BY <1>2, <1>3, CodesAgree
<1>5. p \notin known[n]
  BY <1>1, <1>4 DEF Answers, packet_is_rebroadcastable
<1> QED BY <1>3, <1>4, <1>5

(* The elements of a queue when one is added or taken. *)
LEMMA Members ==
    ASSUME NEW S, NEW s \in Seq(S), NEW e \in S
    PROVE  /\ Append(s, e) \in Seq(S) /\ ToSet(Append(s, e)) = ToSet(s) \cup {e}
           /\ s # <<>> => Head(s) \in S /\ Tail(s) \in Seq(S) /\ ToSet(s) = {Head(s)} \cup ToSet(Tail(s))
<1>1. Append(s, e) \in Seq(S)
  OBVIOUS
<1>2. ToSet(Append(s, e)) = ToSet(s) \cup {e}
  <2>1. Len(Append(s, e)) = Len(s) + 1 /\ Append(s, e)[Len(s) + 1] = e /\ \A i \in 1 .. Len(s) : Append(s, e)[i] = s[i]
    OBVIOUS
  <2>2. DOMAIN s = 1 .. Len(s) /\ DOMAIN Append(s, e) = 1 .. Len(s) + 1 /\ Len(s) \in Nat
    BY <1>1, <2>1
  <2>3. 1 .. Len(s) + 1 = (1 .. Len(s)) \cup {Len(s) + 1}
    BY <2>2
  <2> QED BY <2>1, <2>2, <2>3 DEF ToSet
<1>3. ASSUME s # <<>> PROVE Head(s) \in S /\ Tail(s) \in Seq(S) /\ ToSet(s) = {Head(s)} \cup ToSet(Tail(s))
  <2>1. Head(s) = s[1] /\ Head(s) \in S /\ Tail(s) \in Seq(S) /\ Len(s) \in Nat \ {0}
    BY <1>3
  <2>2. Len(Tail(s)) = Len(s) - 1 /\ \A i \in 1 .. Len(s) - 1 : Tail(s)[i] = s[i + 1]
    BY <1>3
  <2>3. DOMAIN s = 1 .. Len(s) /\ DOMAIN Tail(s) = 1 .. Len(s) - 1
    BY <2>1, <2>2
  <2>4. ASSUME NEW i \in DOMAIN s PROVE s[i] \in {Head(s)} \cup ToSet(Tail(s))
    <3>1. CASE i = 1
      BY <2>1, <3>1
    <3>2. CASE i # 1
      <4>1. i - 1 \in 1 .. Len(s) - 1 /\ i - 1 + 1 = i
        BY <2>1, <2>3, <3>2
      <4> QED BY <2>2, <2>3, <4>1 DEF ToSet
    <3> QED BY <3>1, <3>2
  <2>5. ASSUME NEW i \in DOMAIN Tail(s) PROVE Tail(s)[i] \in ToSet(s)
    <3>1. i + 1 \in 1 .. Len(s)
      BY <2>1, <2>3
    <3> QED BY <2>2, <2>3, <3>1 DEF ToSet
  <2>6. s[1] \in ToSet(s)
    BY <2>1, <2>3 DEF ToSet
  <2> QED BY <2>1, <2>4, <2>5, <2>6 DEF ToSet
<1> QED BY <1>1, <1>2, <1>3

(* So a full deduplication queue holds what it held and the new payload, but for the oldest. *)
LEMMA CircularQueue ==
    ASSUME NEW queue \in Seq(Payloads), NEW p \in Payloads, NEW size
    PROVE  /\ check_and_insert(queue, p, size) \in Seq(Payloads)
           /\ ToSet(check_and_insert(queue, p, size)) \subseteq ToSet(queue) \cup {p}
<1> DEFINE longer == Append(queue, p)
<1>1. longer \in Seq(Payloads) /\ ToSet(longer) = ToSet(queue) \cup {p} /\ longer # <<>>
  BY Members
<1>2. Tail(longer) \in Seq(Payloads) /\ ToSet(Tail(longer)) \subseteq ToSet(longer)
  <2> HIDE DEF longer
  <2> QED BY <1>1, Members
<1> QED BY <1>1, <1>2 DEF check_and_insert

Packet == [payload : Payloads, direct : BOOLEAN]
Msg == [packet : Packet, source : Nodes]
LinkState == [Nodes \X Nodes -> Seq(Packet)]

Typed ==
    /\ link \in LinkState
    /\ seen \in [Nodes -> [ToSet(PacketType) -> Seq(Payloads)]]
    /\ inbound \in [Nodes -> [Queues -> Seq(Msg)]]
    /\ known \in [Nodes -> SUBSET Payloads]
    /\ lost \in [Nodes -> SUBSET Payloads]
    /\ relays \in [Nodes -> [Payloads -> Nat]]

(* The payloads on their way to a node, those in its queues, and all it has:
   what it made, took up, refused or still has to look at. *)
OnTheWay(n) == {p \in Payloads : \E m \in Nodes : \E packet \in ToSet(link[<<m, n>>]) : packet.payload = p}
Waiting(n) == {p \in Payloads : \E queue \in Queues : \E msg \in ToSet(inbound[n][queue]) : msg.packet.payload = p}
Has(n) == known[n] \cup lost[n] \cup Waiting(n)

KnownGrows == \A n \in Nodes : known[n] \subseteq known'[n]

(* Whoever sends a packet knows its payload, which is why the relay can leave
   its source out. *)
LinkSourced == \A m, n \in Nodes : \A packet \in ToSet(link[<<m, n>>]) : packet.payload \in known[m]
QueueSourced ==
    \A n \in Nodes, queue \in Queues : \A msg \in ToSet(inbound[n][queue]) : msg.packet.payload \in known[msg.source]

(* A node has what it remembers, which is why the deduplication may drop a copy. *)
SeenIsHad == \A n \in Nodes, type \in ToSet(PacketType) : ToSet(seen[n][type]) \subseteq Has(n)

(* What a node sent round has come to each of its peers, or is on its way there. *)
Spread ==
    \A n \in Nodes, p \in Payloads :
        relays[n][p] > 0 => \A m \in get_node_peer_tokens(n) : p \in Has(m) \cup OnTheWay(m)

Inv == Typed /\ LinkSourced /\ QueueSourced /\ SeenIsHad /\ RelayedOnce

(* What send_consensus_msg_to_net does: a packet to some targets, and with a
   percentage of 100 and no single target, to all peers but the one to leave out. *)
LEMMA Targets ==
    ASSUME NEW n \in Nodes, NEW p \in Payloads, NEW dont_relay_to, NEW target_id \in SUBSET Nodes,
           send_consensus_msg_to_net(n, p, dont_relay_to, target_id)
    PROVE  \E targets \in SUBSET Nodes, packet \in Packet :
              /\ packet.payload = p
              /\ link' = Sent(link, n, targets, packet)
              /\ RelayPercentage = 100 /\ target_id = {} => targets = get_node_peer_tokens(n) \ dont_relay_to
<1>1. CASE target_id = {}
  <2>1. PICK s \in send_broadcast_message(link, n, p, dont_relay_to) : link' = s.link
    BY <1>1 DEF send_consensus_msg_to_net
  <2>2. PICK skip \in PeersToSkip(n, dont_relay_to) :
           s = Broadcast(link, n, p, {m \in Peers(n) : is_valid_broadcast_target(m, skip)})
    BY <2>1 DEF send_broadcast_message
  <2> DEFINE targets == {m \in Peers(n) : is_valid_broadcast_target(m, skip)}
             packet == [payload |-> p, direct |-> FALSE]
  <2>3. packet \in Packet /\ packet.payload = p
    BY DEF Packet
  <2>4. link' = Sent(link, n, targets, packet)
    BY <2>1, <2>2 DEF Broadcast
  <2>5. ASSUME RelayPercentage = 100 PROVE targets = get_node_peer_tokens(n) \ dont_relay_to
    <3>1. skip = dont_relay_to
      BY <2>2, <2>5 DEF PeersToSkip
    <3> QED BY <3>1 DEF is_valid_broadcast_target, get_node_peer_tokens
  <2>6. targets \in SUBSET Nodes
    BY DEF Peers
  <2> HIDE DEF targets, packet
  <2> QED BY <1>1, <2>3, <2>4, <2>5, <2>6
<1>2. CASE target_id # {}
  <2>1. PICK m \in target_id : \E s \in send_direct_message(link, n, m, p) : link' = s.link
    BY <1>2 DEF send_consensus_msg_to_net
  <2> DEFINE packet == [payload |-> p, direct |-> TRUE]
  <2>2. link' = Sent(link, n, {m}, packet)
    BY <2>1 DEF send_direct_message
  <2>3. packet \in Packet /\ packet.payload = p
    BY DEF Packet
  <2>4. {m} \in SUBSET Nodes
    BY <2>1
  <2> HIDE DEF packet
  <2> QED BY <1>2, <2>2, <2>3, <2>4
<1> QED BY <1>1, <1>2

(* What sending does to the invariant, when the sender knows the payload: nothing
   that was on its way is lost, and the targets get it. *)
LEMMA Sending ==
    ASSUME Typed, LinkSourced, NEW n \in Nodes, NEW p \in Payloads, NEW dont_relay_to \in SUBSET Nodes,
           NEW target_id \in SUBSET Nodes,
           send_consensus_msg_to_net(n, p, dont_relay_to, target_id),
           KnownGrows, p \in known'[n]
    PROVE  /\ link' \in LinkState
           /\ LinkSourced'
           /\ \A k \in Nodes : OnTheWay(k) \subseteq OnTheWay(k)'
           /\ RelayPercentage = 100 /\ target_id = {} =>
                 \A k \in get_node_peer_tokens(n) \ dont_relay_to : p \in OnTheWay(k)'
<1>1. PICK targets \in SUBSET Nodes, packet \in Packet :
         /\ packet.payload = p
         /\ link' = Sent(link, n, targets, packet)
         /\ RelayPercentage = 100 /\ target_id = {} => targets = get_node_peer_tokens(n) \ dont_relay_to
  BY Targets
<1>2. /\ link' \in LinkState
      /\ \A a, b \in Nodes :
            \/ a = n /\ b \in targets /\ ToSet(link'[<<a, b>>]) = ToSet(link[<<a, b>>]) \cup {packet}
            \/ ~(a = n /\ b \in targets) /\ link'[<<a, b>>] = link[<<a, b>>]
  <2>1. link \in LinkState
    BY DEF Typed
  <2>2. \A x \in Nodes \X Nodes : Append(link[x], packet) \in Seq(Packet) /\ ToSet(Append(link[x], packet)) = ToSet(link[x]) \cup {packet}
    BY <2>1, Members DEF LinkState
  <2>3. link' = [x \in Nodes \X Nodes |-> IF x[1] = n /\ x[2] \in targets THEN Append(link[x], packet) ELSE link[x]]
    BY <1>1, <2>1 DEF Sent, LinkState
  <2>4. link' \in LinkState
    BY <2>1, <2>2, <2>3 DEF LinkState
  <2>5. ASSUME NEW a \in Nodes, NEW b \in Nodes
        PROVE  link'[<<a, b>>] = IF a = n /\ b \in targets THEN Append(link[<<a, b>>], packet) ELSE link[<<a, b>>]
    BY <2>3
  <2> QED BY <2>2, <2>4, <2>5
<1>3. LinkSourced'
  <2> SUFFICES ASSUME NEW a \in Nodes, NEW b \in Nodes, NEW q \in ToSet(link'[<<a, b>>])
               PROVE  q.payload \in known'[a]
    BY DEF LinkSourced
  <2>1. CASE q \in ToSet(link[<<a, b>>])
    BY <2>1 DEF LinkSourced, KnownGrows
  <2>2. CASE a = n /\ q = packet
    BY <1>1, <2>2
  <2>3. q \in ToSet(link[<<a, b>>]) \/ (a = n /\ q = packet)
    BY <1>2
  <2> QED BY <2>1, <2>2, <2>3
<1>4. ASSUME NEW k \in Nodes PROVE OnTheWay(k) \subseteq OnTheWay(k)'
  <2>1. ASSUME NEW m \in Nodes PROVE ToSet(link[<<m, k>>]) \subseteq ToSet(link'[<<m, k>>])
    BY <1>2
  <2> QED BY <2>1 DEF OnTheWay
<1>5. ASSUME NEW k \in targets PROVE p \in OnTheWay(k)'
  <2>1. k \in Nodes /\ packet \in ToSet(link'[<<n, k>>])
    BY <1>2
  <2> QED BY <1>1, <2>1 DEF OnTheWay
<1> QED BY <1>1, <1>2, <1>3, <1>4, <1>5

(* A step that sends nothing round and loses nothing keeps what was spread. *)
LEMMA StaysSpread ==
    ASSUME Spread, relays' = relays,
           \A k \in Nodes \ Bootstrappers : Has(k) \cup OnTheWay(k) \subseteq (Has(k) \cup OnTheWay(k))'
    PROVE  Spread'
BY DEF Spread, get_node_peer_tokens, Peers

(* A step that sends p round keeps what was spread and spreads p, if it goes to
   all peers of n that do not have it. *)
LEMMA SpreadsFurther ==
    ASSUME Spread, Typed, NEW n \in Nodes, NEW p \in Payloads, relays' = [relays EXCEPT ![n][p] = @ + 1],
           \A k \in Nodes \ Bootstrappers : Has(k) \cup OnTheWay(k) \subseteq (Has(k) \cup OnTheWay(k))',
           \A k \in get_node_peer_tokens(n) : p \in (Has(k) \cup OnTheWay(k))'
    PROVE  Spread'
<1> SUFFICES ASSUME NEW m \in Nodes, NEW q \in Payloads, relays'[m][q] > 0, NEW k \in get_node_peer_tokens(m)
             PROVE  q \in (Has(k) \cup OnTheWay(k))'
  BY DEF Spread
<1>1. CASE m = n /\ q = p
  BY <1>1
<1>2. CASE ~(m = n /\ q = p)
  <2>1. relays'[m][q] = relays[m][q]
    BY <1>2 DEF Typed
  <2>2. q \in Has(k) \cup OnTheWay(k) /\ k \in Nodes \ Bootstrappers
    BY <2>1 DEF Spread, get_node_peer_tokens, Peers
  <2> QED BY <2>2
<1> QED BY <1>1, <1>2

(* A broadcast of n is counted once: it was not known to n, and is now. *)
LEMMA Counted ==
    ASSUME Typed, RelayedOnce, NEW n \in Nodes, NEW p \in Payloads, p \notin known[n],
           relays' = [relays EXCEPT ![n][p] = @ + 1], known' = [known EXCEPT ![n] = @ \cup {p}]
    PROVE  relays' \in [Nodes -> [Payloads -> Nat]] /\ RelayedOnce'
<1>1. relays' \in [Nodes -> [Payloads -> Nat]]
  BY DEF Typed
<1>2. ASSUME NEW m \in Nodes, NEW q \in Payloads PROVE relays'[m][q] <= IF q \in known'[m] THEN 1 ELSE 0
  <2>1. relays[m][q] \in Nat /\ relays[m][q] <= IF q \in known[m] THEN 1 ELSE 0
    BY DEF Typed, RelayedOnce
  <2>2. known[m] \subseteq known'[m] /\ p \in known'[n]
    BY DEF Typed
  <2>3. CASE m = n /\ q = p
    <3>1. relays'[m][q] = relays[m][q] + 1
      BY <2>3 DEF Typed
    <3> QED BY <2>1, <2>2, <2>3, <3>1
  <2>4. CASE ~(m = n /\ q = p)
    <3>1. relays'[m][q] = relays[m][q]
      BY <2>4 DEF Typed
    <3> QED BY <2>1, <2>2, <3>1
  <2> QED BY <2>3, <2>4
<1> QED BY <1>1, <1>2 DEF RelayedOnce

(* BroadcastOwn: what the consensus of a node makes goes to all its peers. *)
LEMMA InvBroadcastOwn ==
    ASSUME Inv, NEW n \in Nodes, BroadcastOwn(n)
    PROVE  Inv' /\ (RelayPercentage = 100 /\ Spread => Spread')
<1>1. PICK p \in Payloads :
         /\ p \notin known[n]
         /\ known' = [known EXCEPT ![n] = @ \cup {p}]
         /\ send_consensus_msg_to_net(n, p, {}, {})
         /\ relays' = [relays EXCEPT ![n][p] = @ + 1]
         /\ UNCHANGED <<seen, inbound, lost, directs>>
  BY DEF BroadcastOwn
<1>2. /\ known' \in [Nodes -> SUBSET Payloads]
      /\ p \in known'[n]
      /\ KnownGrows
  BY <1>1 DEF Inv, Typed, KnownGrows
<1>3. /\ link' \in LinkState
      /\ LinkSourced'
      /\ \A k \in Nodes : OnTheWay(k) \subseteq OnTheWay(k)'
      /\ RelayPercentage = 100 => \A k \in get_node_peer_tokens(n) : p \in OnTheWay(k)'
  <2>1. {} \in SUBSET Nodes /\ get_node_peer_tokens(n) \ {} = get_node_peer_tokens(n)
    OBVIOUS
  <2>2. /\ Typed /\ LinkSourced /\ send_consensus_msg_to_net(n, p, {}, {})
        /\ KnownGrows /\ p \in known'[n] /\ p \in Payloads
    BY <1>1, <1>2 DEF Inv
  <2>3. /\ link' \in LinkState
        /\ LinkSourced'
        /\ \A k \in Nodes : OnTheWay(k) \subseteq OnTheWay(k)'
        /\ RelayPercentage = 100 => \A k \in get_node_peer_tokens(n) \ {} : p \in OnTheWay(k)'
    BY <2>1, <2>2, Sending
  <2> QED BY <2>1, <2>3
<1>4. relays' \in [Nodes -> [Payloads -> Nat]] /\ RelayedOnce'
  BY <1>1, Counted DEF Inv
<1>5. Typed'
  BY <1>1, <1>2, <1>3, <1>4 DEF Inv, Typed
<1>6. QueueSourced'
  BY <1>1, <1>2 DEF Inv, Typed, QueueSourced, Msg, KnownGrows
<1>7. \A k \in Nodes : Has(k) \subseteq Has(k)'
  BY <1>1, <1>2 DEF Has, Waiting, KnownGrows
<1>8. SeenIsHad'
  BY <1>1, <1>7 DEF Inv, SeenIsHad
<1>9. ASSUME RelayPercentage = 100, Spread PROVE Spread'
  BY <1>1, <1>3, <1>7, <1>9, SpreadsFurther DEF Inv
<1> QED BY <1>3, <1>4, <1>5, <1>6, <1>8, <1>9 DEF Inv

(* SendTo: what a node sends to one peer it knows. *)
LEMMA InvSendTo ==
    ASSUME Inv, NEW n \in Nodes, NEW m \in Nodes, SendTo(n, m)
    PROVE  Inv' /\ (Spread => Spread')
<1>1. PICK p \in known[n] :
         send_consensus_msg_to_net(n, p, {}, {m}) /\ UNCHANGED <<seen, inbound, known, relays, lost>>
  BY DEF SendTo
<1>2. p \in Payloads /\ p \in known'[n] /\ KnownGrows /\ {m} \in SUBSET Nodes /\ {} \in SUBSET Nodes
  BY <1>1 DEF Inv, Typed, KnownGrows
<1>3. link' \in LinkState /\ LinkSourced' /\ \A k \in Nodes : OnTheWay(k) \subseteq OnTheWay(k)'
  <2>1. Typed /\ LinkSourced
    BY DEF Inv
  <2> QED BY <1>1, <1>2, <2>1, Sending
<1>4. Typed' /\ QueueSourced' /\ RelayedOnce'
  BY <1>1, <1>3 DEF Inv, Typed, QueueSourced, RelayedOnce
<1>5. \A k \in Nodes : Has(k)' = Has(k)
  BY <1>1 DEF Has, Waiting
<1>6. SeenIsHad'
  BY <1>1, <1>5 DEF Inv, SeenIsHad
<1>7. ASSUME Spread PROVE Spread'
  BY <1>1, <1>3, <1>5, <1>7, StaysSpread
<1> QED BY <1>3, <1>4, <1>6, <1>7 DEF Inv

(* handle_pkt_out: the packet is queued or dropped, and either way the node has it. *)
LEMMA PacketIsHad ==
    ASSUME Inv, NEW n \in Nodes, NEW m \in Nodes, NEW packet \in Packet, packet.payload \in known[m],
           handle_pkt_out(n, m, packet), known' = known
    PROVE  /\ inbound' \in [Nodes -> [Queues -> Seq(Msg)]] /\ lost' \in [Nodes -> SUBSET Payloads]
           /\ QueueSourced'
           /\ \A k \in Nodes : Has(k) \subseteq Has(k)'
           /\ packet.payload \in Has(n)'
<1> DEFINE p == packet.payload
           queue == IF TypeOf[p] = "Transaction" THEN "low" ELSE "high"
           msg == [packet |-> packet, source |-> m]
<1>1. p \in Payloads
  BY DEF Packet
<1>2. queue \in Queues
  BY DEF Queues
<1>3. msg \in Msg /\ msg.packet = packet /\ msg.source = m
  BY DEF Msg
<1>4. \/ inbound' = [inbound EXCEPT ![n][queue] = Append(@, msg)] /\ lost' = lost
      \/ lost' = [lost EXCEPT ![n] = @ \cup {p}] /\ inbound' = inbound
  BY DEF handle_pkt_out
<1> HIDE DEF queue, msg, p
<1>5. CASE inbound' = [inbound EXCEPT ![n][queue] = Append(@, msg)] /\ lost' = lost
  <2> DEFINE s == inbound[n][queue]
  <2>1. s \in Seq(Msg)
    BY <1>2 DEF Inv, Typed
  <2>2. Append(s, msg) \in Seq(Msg) /\ ToSet(Append(s, msg)) = ToSet(s) \cup {msg}
    BY <1>3, <2>1, Members
  <2> DEFINE t == Append(s, msg)
  <2>3. inbound' = [inbound EXCEPT ![n][queue] = t]
    BY <1>5
  <2> HIDE DEF t
  <2>4. t \in Seq(Msg) /\ ToSet(t) = ToSet(s) \cup {msg}
    BY <2>2 DEF t
  <2>5. inbound' \in [Nodes -> [Queues -> Seq(Msg)]]
    BY <1>2, <2>3, <2>4 DEF Inv, Typed
  <2>6. ASSUME NEW k \in Nodes, NEW q \in Queues
        PROVE  \/ k = n /\ q = queue /\ ToSet(inbound'[k][q]) = ToSet(inbound[k][q]) \cup {msg}
               \/ ~(k = n /\ q = queue) /\ ToSet(inbound'[k][q]) = ToSet(inbound[k][q])
    <3>1. CASE k = n /\ q = queue
      BY <2>3, <2>4, <3>1 DEF Inv, Typed
    <3>2. CASE ~(k = n /\ q = queue)
      BY <2>3, <3>2 DEF Inv, Typed
    <3> QED BY <3>1, <3>2
  <2>7. QueueSourced'
    <3> SUFFICES ASSUME NEW k \in Nodes, NEW q \in Queues, NEW g \in ToSet(inbound'[k][q])
                 PROVE  g.packet.payload \in known'[g.source]
      BY DEF QueueSourced
    <3>1. CASE g \in ToSet(inbound[k][q])
      BY <3>1 DEF Inv, QueueSourced
    <3>2. CASE g = msg
      BY <1>3, <3>2 DEF p
    <3> QED BY <2>6, <3>1, <3>2
  <2>8. ASSUME NEW k \in Nodes PROVE Waiting(k) \subseteq Waiting(k)'
    BY <2>6 DEF Waiting
  <2>9. p \in Waiting(n)'
    BY <1>1, <1>2, <1>3, <2>6 DEF Waiting, p
  <2> QED BY <1>5, <2>5, <2>7, <2>8, <2>9 DEF Has, Inv, Typed, p
<1>6. CASE lost' = [lost EXCEPT ![n] = @ \cup {p}] /\ inbound' = inbound
  <2>1. lost' \in [Nodes -> SUBSET Payloads] /\ p \in lost'[n] /\ \A k \in Nodes : lost[k] \subseteq lost'[k]
    BY <1>1, <1>6 DEF Inv, Typed
  <2>2. \A k \in Nodes : Waiting(k)' = Waiting(k)
    BY <1>6 DEF Waiting
  <2>3. QueueSourced'
    BY <1>6 DEF Inv, QueueSourced
  <2> QED BY <1>6, <2>1, <2>2, <2>3 DEF Has, Inv, Typed, p
<1> QED BY <1>4, <1>5, <1>6

(* The deduplication queues after a packet hold nothing the node does not have. *)
LEMMA RememberedIsHad ==
    ASSUME Inv, NEW n \in Nodes, NEW packet \in Packet, seen' = remembered(n, packet),
           packet.payload \in Has(n)', \A k \in Nodes : Has(k) \subseteq Has(k)'
    PROVE  seen' \in [Nodes -> [ToSet(PacketType) -> Seq(Payloads)]] /\ SeenIsHad'
<1> DEFINE p == packet.payload
           type == TypeOf[p]
<1>1. p \in Payloads /\ type \in ToSet(PacketType)
  BY GossipAssumption DEF Packet
<1>2. seen' = seen \/ seen' = [seen EXCEPT ![n][type] = check_and_insert(@, p, DedupSize(type))]
  BY DEF remembered
<1> HIDE DEF type, p
<1>3. CASE seen' = seen
  BY <1>3 DEF Inv, Typed, SeenIsHad
<1>4. CASE seen' = [seen EXCEPT ![n][type] = check_and_insert(@, p, DedupSize(type))]
  <2> DEFINE s == check_and_insert(seen[n][type], p, DedupSize(type))
  <2>1. seen[n][type] \in Seq(Payloads)
    BY <1>1 DEF Inv, Typed
  <2>2. s \in Seq(Payloads) /\ ToSet(s) \subseteq ToSet(seen[n][type]) \cup {p}
    BY <1>1, <2>1, CircularQueue
  <2>3. seen' = [seen EXCEPT ![n][type] = s]
    BY <1>4
  <2> HIDE DEF s
  <2>4. seen' \in [Nodes -> [ToSet(PacketType) -> Seq(Payloads)]]
    BY <1>1, <2>2, <2>3 DEF Inv, Typed
  <2>5. ASSUME NEW k \in Nodes, NEW t \in ToSet(PacketType) PROVE ToSet(seen'[k][t]) \subseteq Has(k)'
    <3>1. ToSet(seen[k][t]) \subseteq Has(k)'
      BY DEF Inv, SeenIsHad
    <3>2. CASE k = n /\ t = type
      <4>1. seen'[k][t] = s
        BY <2>3, <3>2 DEF Inv, Typed
      <4> QED BY <2>2, <3>1, <3>2, <4>1 DEF p
    <3>3. CASE ~(k = n /\ t = type)
      <4>1. seen'[k][t] = seen[k][t]
        BY <2>3, <3>3 DEF Inv, Typed
      <4> QED BY <3>1, <4>1
    <3> QED BY <3>2, <3>3
  <2> QED BY <2>4, <2>5 DEF SeenIsHad
<1> QED BY <1>2, <1>3, <1>4

(* Receive: a copy that is dropped is one the node has, unless it is a bootstrapper. *)
LEMMA InvReceive ==
    ASSUME Inv, NEW m \in Nodes, NEW n \in Nodes, Receive(m, n)
    PROVE  Inv' /\ (Spread => Spread')
<1> DEFINE s == link[<<m, n>>]
           packet == Head(s)
           p == packet.payload
           rest == Tail(s)
<1>1. /\ s # <<>>
      /\ link' = [link EXCEPT ![<<m, n>>] = rest]
      /\ IF n \in Bootstrappers \/ is_packet_duplicate(n, packet)
         THEN UNCHANGED <<seen, inbound, lost>>
         ELSE seen' = remembered(n, packet) /\ handle_pkt_out(n, m, packet)
      /\ UNCHANGED <<known, relays, overshare, directs>>
  BY DEF Receive
<1>2. packet \in Packet /\ rest \in Seq(Packet) /\ ToSet(s) = {packet} \cup ToSet(rest)
  <2>1. s \in Seq(Packet)
    BY DEF Inv, Typed, LinkState
  <2> HIDE DEF s
  <2> QED BY <1>1, <2>1, Members
<1>3. p \in Payloads /\ p \in known[m]
  BY <1>2 DEF Inv, LinkSourced, Packet
<1> HIDE DEF s, packet, p, rest
<1>4. link' \in LinkState
  BY <1>1, <1>2 DEF Inv, Typed, LinkState
<1>5. ASSUME NEW a \in Nodes, NEW b \in Nodes
      PROVE  /\ ToSet(link'[<<a, b>>]) \subseteq ToSet(link[<<a, b>>])
             /\ ToSet(link[<<a, b>>]) \subseteq ToSet(link'[<<a, b>>]) \cup (IF b = n THEN {packet} ELSE {})
  <2>1. CASE a = m /\ b = n
    <3>1. link'[<<a, b>>] = rest /\ link[<<a, b>>] = s
      BY <1>1, <2>1 DEF Inv, Typed, LinkState, s
    <3> QED BY <1>2, <2>1, <3>1
  <2>2. CASE ~(a = m /\ b = n)
    <3>1. link'[<<a, b>>] = link[<<a, b>>]
      BY <1>1, <2>2 DEF Inv, Typed, LinkState
    <3> QED BY <3>1
  <2> QED BY <2>1, <2>2
<1>6. LinkSourced'
  BY <1>1, <1>5 DEF Inv, LinkSourced
<1>7. ASSUME NEW k \in Nodes, k # n PROVE OnTheWay(k) \subseteq OnTheWay(k)'
  BY <1>5, <1>7 DEF OnTheWay
<1>8. OnTheWay(n) \subseteq OnTheWay(n)' \cup {p}
  BY <1>5 DEF OnTheWay, p
<1>9. /\ inbound' \in [Nodes -> [Queues -> Seq(Msg)]] /\ lost' \in [Nodes -> SUBSET Payloads]
      /\ seen' \in [Nodes -> [ToSet(PacketType) -> Seq(Payloads)]]
      /\ QueueSourced' /\ SeenIsHad'
      /\ \A k \in Nodes : Has(k) \subseteq Has(k)'
      /\ n \in Bootstrappers \/ p \in Has(n)'
  <2>1. CASE n \in Bootstrappers \/ is_packet_duplicate(n, packet)
    <3>1. \A k \in Nodes : Has(k)' = Has(k)
      BY <1>1, <2>1 DEF Has, Waiting
    <3>2. n \in Bootstrappers \/ p \in Has(n)
      <4>1. TypeOf[p] \in ToSet(PacketType)
        BY <1>3, GossipAssumption
      <4> QED BY <2>1, <4>1 DEF Inv, SeenIsHad, is_packet_duplicate, p
    <3>3. QueueSourced' /\ SeenIsHad'
      BY <1>1, <2>1, <3>1 DEF Inv, QueueSourced, SeenIsHad
    <3> QED BY <1>1, <2>1, <3>1, <3>2, <3>3 DEF Inv, Typed
  <2>2. CASE ~(n \in Bootstrappers \/ is_packet_duplicate(n, packet))
    <3>1. /\ inbound' \in [Nodes -> [Queues -> Seq(Msg)]] /\ lost' \in [Nodes -> SUBSET Payloads]
          /\ QueueSourced'
          /\ \A k \in Nodes : Has(k) \subseteq Has(k)'
          /\ packet.payload \in Has(n)'
      BY <1>1, <1>2, <1>3, <2>2, PacketIsHad DEF p
    <3>2. seen' \in [Nodes -> [ToSet(PacketType) -> Seq(Payloads)]] /\ SeenIsHad'
      BY <1>1, <1>2, <2>2, <3>1, RememberedIsHad
    <3> QED BY <3>1, <3>2 DEF p
  <2> QED BY <2>1, <2>2
<1>10. Typed' /\ RelayedOnce'
  BY <1>1, <1>4, <1>9 DEF Inv, Typed, RelayedOnce
<1>11. ASSUME Spread PROVE Spread'
  <2>1. ASSUME NEW k \in Nodes \ Bootstrappers PROVE Has(k) \cup OnTheWay(k) \subseteq (Has(k) \cup OnTheWay(k))'
    BY <1>7, <1>8, <1>9
  <2> QED BY <1>1, <1>11, <2>1, StaysSpread
<1> QED BY <1>6, <1>9, <1>10, <1>11 DEF Inv

(* handle_consensus_inbound_msg: what leaves the queue is taken up or counted as
   lost, and what is relayed was new to the node and goes to all peers but its source. *)
LEMMA InvHandleInbound ==
    ASSUME Inv, NEW n \in Nodes, NEW queue \in Queues, handle_consensus_inbound_msg(n, queue)
    PROVE  Inv' /\ (RelayPercentage = 100 /\ Spread => Spread')
<1> DEFINE s == inbound[n][queue]
           msg == Head(s)
           rest == Tail(s)
           Relayed(result, drop_message, p) ==
              /\ ~drop_message /\ ~msg.packet.direct
              /\ packet_is_rebroadcastable(TypeOf[p]) /\ is_rebroadcastable(result.response, TypeOf[p])
<1>1. /\ s # <<>>
      /\ inbound' = [inbound EXCEPT ![n][queue] = rest]
      /\ seen' = seen
  BY DEF handle_consensus_inbound_msg
<1>2. msg \in Msg /\ rest \in Seq(Msg) /\ ToSet(s) = {msg} \cup ToSet(rest)
  <2>1. s \in Seq(Msg)
    BY DEF Inv, Typed
  <2> HIDE DEF s
  <2> QED BY <1>1, <2>1, Members
<1>3. PICK p \in Payloads, source \in Nodes : p = msg.packet.payload /\ source = msg.source /\ p \in known[source]
  <2>1. msg.packet.payload \in Payloads /\ msg.source \in Nodes
    BY <1>2 DEF Msg, Packet
  <2>2. msg.packet.payload \in known[msg.source]
    BY <1>2 DEF Inv, QueueSourced
  <2> QED BY <2>1, <2>2
<1>4. PICK result \in send_msg_to_consensus(n, msg.packet.payload), drop_message \in {FALSE, MayDropRebroadcast} :
         /\ known' = [known EXCEPT ![n] = IF result.takenUp THEN @ \cup {msg.packet.payload} ELSE @]
         /\ lost' = [lost EXCEPT ![n] = IF Relayed(result, drop_message, msg.packet.payload) \/ msg.packet.payload \in known[n]
                                   THEN @ ELSE @ \cup {msg.packet.payload}]
         /\ IF Relayed(result, drop_message, msg.packet.payload)
            THEN /\ relays' = [relays EXCEPT ![n][msg.packet.payload] = @ + 1]
                 /\ send_consensus_msg_to_net(n, msg.packet.payload, {msg.source}, {})
            ELSE UNCHANGED <<relays, link, overshare>>
  BY DEF handle_consensus_inbound_msg
<1>5. ASSUME Relayed(result, drop_message, p) PROVE result.takenUp /\ p \notin known[n]
  BY <1>3, <1>4, <1>5, RelayedIsNew
<1> DEFINE relayed == Relayed(result, drop_message, p)
<1>6. /\ known' = [known EXCEPT ![n] = IF result.takenUp THEN @ \cup {p} ELSE @]
      /\ lost' = [lost EXCEPT ![n] = IF relayed \/ p \in known[n] THEN @ ELSE @ \cup {p}]
      /\ relayed => /\ relays' = [relays EXCEPT ![n][p] = @ + 1]
                    /\ send_consensus_msg_to_net(n, p, {source}, {})
                    /\ result.takenUp /\ p \notin known[n]
      /\ ~relayed => UNCHANGED <<relays, link, overshare>>
  <2> HIDE DEF msg, Relayed
  <2> QED BY <1>3, <1>4, <1>5
<1> HIDE DEF relayed, Relayed, msg, rest
<1>7. /\ known' \in [Nodes -> SUBSET Payloads] /\ lost' \in [Nodes -> SUBSET Payloads]
      /\ KnownGrows /\ \A k \in Nodes : lost[k] \subseteq lost'[k]
      /\ p \in known'[n] \cup lost'[n]
  <2>1. known' \in [Nodes -> SUBSET Payloads] /\ KnownGrows /\ (result.takenUp => p \in known'[n])
    BY <1>6 DEF Inv, Typed, KnownGrows
  <2>2. lost' \in [Nodes -> SUBSET Payloads] /\ \A k \in Nodes : lost[k] \subseteq lost'[k]
    BY <1>6 DEF Inv, Typed
  <2>3. relayed \/ p \in known[n] \/ p \in lost'[n]
    BY <1>6 DEF Inv, Typed
  <2> QED BY <1>6, <2>1, <2>2, <2>3 DEF KnownGrows
<1>8. inbound' \in [Nodes -> [Queues -> Seq(Msg)]]
  BY <1>1, <1>2 DEF Inv, Typed
<1>9. ASSUME NEW k \in Nodes, NEW q \in Queues
      PROVE  /\ ToSet(inbound'[k][q]) \subseteq ToSet(inbound[k][q])
             /\ ToSet(inbound[k][q]) \subseteq ToSet(inbound'[k][q]) \cup (IF k = n THEN {msg} ELSE {})
  <2>1. CASE k = n /\ q = queue
    <3>1. inbound'[k][q] = rest
      BY <1>1, <2>1 DEF Inv, Typed
    <3> QED BY <1>2, <2>1, <3>1
  <2>2. CASE ~(k = n /\ q = queue)
    <3>1. inbound'[k][q] = inbound[k][q]
      BY <1>1, <2>2 DEF Inv, Typed
    <3> QED BY <3>1
  <2> QED BY <2>1, <2>2
<1>10. QueueSourced'
  <2> SUFFICES ASSUME NEW k \in Nodes, NEW q \in Queues, NEW g \in ToSet(inbound'[k][q])
               PROVE  g.packet.payload \in known'[g.source]
    BY DEF QueueSourced
  <2>1. g \in ToSet(inbound[k][q]) /\ inbound[k][q] \in Seq(Msg)
    BY <1>9 DEF Inv, Typed
  <2>2. g \in Msg
    BY <2>1 DEF ToSet
  <2> QED BY <1>7, <2>1, <2>2 DEF Inv, QueueSourced, KnownGrows, Msg
<1>11. ASSUME NEW k \in Nodes PROVE Has(k) \subseteq Has(k)'
  <2>1. CASE k = n
    <3>1. Waiting(n) \subseteq Waiting(n)' \cup {p}
      BY <1>3, <1>9 DEF Waiting
    <3> QED BY <1>7, <2>1, <3>1 DEF Has, KnownGrows
  <2>2. CASE k # n
    <3>1. Waiting(k) \subseteq Waiting(k)'
      BY <1>9, <2>2 DEF Waiting
    <3> QED BY <1>7, <3>1 DEF Has, KnownGrows
  <2> QED BY <2>1, <2>2
<1>12. SeenIsHad'
  BY <1>1, <1>11 DEF Inv, SeenIsHad
<1>13. CASE relayed
  <2>1. /\ known' = [known EXCEPT ![n] = @ \cup {p}] /\ p \in known'[n]
    BY <1>6, <1>13 DEF Inv, Typed
  <2>2. relays' \in [Nodes -> [Payloads -> Nat]] /\ RelayedOnce'
    BY <1>6, <1>13, <2>1, Counted DEF Inv
  <2>3. /\ Typed /\ LinkSourced /\ {source} \in SUBSET Nodes /\ {} \in SUBSET Nodes
        /\ send_consensus_msg_to_net(n, p, {source}, {}) /\ KnownGrows
    BY <1>6, <1>7, <1>13 DEF Inv
  <2>4. /\ link' \in LinkState
        /\ LinkSourced'
        /\ \A k \in Nodes : OnTheWay(k) \subseteq OnTheWay(k)'
        /\ RelayPercentage = 100 => \A k \in get_node_peer_tokens(n) \ {source} : p \in OnTheWay(k)'
    BY <2>1, <2>3, Sending
  <2>5. Typed'
    BY <1>1, <1>7, <1>8, <2>2, <2>4 DEF Inv, Typed
  <2>6. ASSUME RelayPercentage = 100, Spread PROVE Spread'
    <3>1. p \in Has(source)'
      BY <1>3, <1>7 DEF Has, KnownGrows
    <3>2. \A k \in get_node_peer_tokens(n) : p \in (Has(k) \cup OnTheWay(k))'
      BY <2>4, <2>6, <3>1
    <3>3. relays' = [relays EXCEPT ![n][p] = @ + 1]
      BY <1>6, <1>13
    <3>4. \A k \in Nodes \ Bootstrappers : Has(k) \cup OnTheWay(k) \subseteq (Has(k) \cup OnTheWay(k))'
      BY <1>11, <2>4
    <3> QED BY <2>3, <2>6, <3>2, <3>3, <3>4, SpreadsFurther
  <2> QED BY <1>10, <1>12, <2>2, <2>4, <2>5, <2>6 DEF Inv
<1>14. CASE ~relayed
  <2>1. Typed' /\ LinkSourced'
    BY <1>1, <1>6, <1>7, <1>8, <1>14 DEF Inv, Typed, LinkSourced, KnownGrows
  <2>2. RelayedOnce'
    <3> SUFFICES ASSUME NEW k \in Nodes, NEW q \in Payloads PROVE relays[k][q] <= IF q \in known'[k] THEN 1 ELSE 0
      BY <1>6, <1>14 DEF RelayedOnce
    <3>1. relays[k][q] <= (IF q \in known[k] THEN 1 ELSE 0) /\ relays[k][q] \in Nat /\ known[k] \subseteq known'[k]
      BY <1>7 DEF Inv, RelayedOnce, Typed, KnownGrows
    <3> QED BY <3>1
  <2>3. ASSUME NEW k \in Nodes PROVE OnTheWay(k)' = OnTheWay(k)
    BY <1>6, <1>14 DEF OnTheWay
  <2>4. ASSUME Spread PROVE Spread'
    BY <1>6, <1>11, <1>14, <2>3, <2>4, StaysSpread
  <2> QED BY <1>10, <1>12, <2>1, <2>2, <2>4 DEF Inv
<1> QED BY <1>13, <1>14

(* All queues and connections are empty at first. *)
LEMMA InvInit == Init => Inv /\ Spread
<1> SUFFICES ASSUME Init PROVE Inv /\ Spread
  OBVIOUS
<1>1. ToSet(<<>>) = {} /\ \A S : <<>> \in Seq(S)
  BY DEF ToSet
<1>2. Typed
  BY <1>1 DEF Init, Typed, LinkState
<1>3. LinkSourced /\ QueueSourced
  BY <1>1 DEF Init, LinkSourced, QueueSourced
<1>4. SeenIsHad
  BY <1>1 DEF Init, SeenIsHad
<1>5. RelayedOnce /\ Spread
  BY DEF Init, RelayedOnce, Spread
<1> QED BY <1>2, <1>3, <1>4, <1>5 DEF Inv

(* Every step keeps the invariant, and with a percentage of 100 what was spread. *)
LEMMA InvNext ==
    ASSUME Inv, [Next]_vars
    PROVE  Inv' /\ (RelayPercentage = 100 /\ Spread => Spread')
<1>1. ASSUME NEW n \in Nodes, BroadcastOwn(n) PROVE Inv' /\ (RelayPercentage = 100 /\ Spread => Spread')
  BY <1>1, InvBroadcastOwn
<1>2. ASSUME NEW n \in Nodes, NEW m \in Nodes, SendTo(n, m) PROVE Inv' /\ (Spread => Spread')
  BY <1>2, InvSendTo
<1>3. ASSUME NEW n \in Nodes, NEW queue \in Queues, handle_consensus_inbound_msg(n, queue)
      PROVE  Inv' /\ (RelayPercentage = 100 /\ Spread => Spread')
  BY <1>3, InvHandleInbound
<1>4. ASSUME NEW n \in Nodes, NEW m \in Nodes, Receive(m, n) PROVE Inv' /\ (Spread => Spread')
  BY <1>4, InvReceive
<1>5. CASE UNCHANGED vars
  <2>1. Typed' /\ LinkSourced' /\ QueueSourced' /\ RelayedOnce'
    BY <1>5 DEF vars, Inv, Typed, LinkSourced, QueueSourced, RelayedOnce
  <2>2. \A k \in Nodes : Has(k)' = Has(k) /\ OnTheWay(k)' = OnTheWay(k)
    BY <1>5 DEF vars, Has, Waiting, OnTheWay
  <2>3. SeenIsHad'
    BY <1>5, <2>2 DEF vars, Inv, SeenIsHad
  <2>4. ASSUME Spread PROVE Spread'
    BY <1>5, <2>2, <2>4, StaysSpread DEF vars
  <2> QED BY <2>1, <2>3, <2>4 DEF Inv
<1> QED BY <1>1, <1>2, <1>3, <1>4, <1>5 DEF Next, Peers

(* A broadcast dies out: whatever the deduplication queues forget, in whatever
   order the copies come, no node sends a payload round twice, nor one that its
   consensus has not taken up (handle_consensus_inbound_msg, is_rebroadcastable). *)
THEOREM RelayedOnceHolds == Spec => []RelayedOnce
<1>1. Init => Inv
  BY InvInit
<1>2. Inv /\ [Next]_vars => Inv'
  BY InvNext
<1>3. Inv => RelayedOnce
  BY DEF Inv
<1> QED BY <1>1, <1>2, <1>3, PTL DEF Spec

(* A broadcast gets everywhere, when relay_broadcast_percentage is 100: once no
   packet is left, every peer of a node that sent a payload round has taken it
   up, or refused or dropped it itself.  Neither the deduplication nor leaving the
   source out can lose it on a link. *)
THEOREM ReachesEveryPeerHolds ==
    ASSUME RelayPercentage = 100
    PROVE  Spec => []ReachesEveryPeer
<1>1. Init => Inv /\ Spread
  BY InvInit
<1>2. Inv /\ Spread /\ [Next]_vars => Inv' /\ Spread'
  BY InvNext
<1>3. Inv /\ Spread => ReachesEveryPeer
  <2> SUFFICES ASSUME Inv, Spread, Quiet, NEW n \in Nodes, NEW p \in Payloads, relays[n][p] > 0,
                      NEW m \in get_node_peer_tokens(n)
               PROVE  p \in known[m] \cup lost[m]
    BY DEF ReachesEveryPeer
  <2>1. m \in Nodes /\ p \in Has(m) \cup OnTheWay(m)
    BY DEF Spread, get_node_peer_tokens, Peers
  <2>2. ToSet(<<>>) = {}
    BY DEF ToSet
  <2>3. \A k \in Nodes : link[<<k, m>>] = <<>>
    BY <2>1 DEF Quiet, Inv, Typed, LinkState
  <2>4. p \notin OnTheWay(m)
    BY <2>2, <2>3 DEF OnTheWay
  <2>5. p \notin Waiting(m)
    BY <2>1, <2>2 DEF Quiet, Waiting
  <2> QED BY <2>1, <2>4, <2>5 DEF Has
<1> QED BY <1>1, <1>2, <1>3, PTL DEF Spec
=============================================================================
