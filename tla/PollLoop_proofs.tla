-------------------------- MODULE PollLoop_proofs --------------------------
(***************************************************************************)
(* Proofs about PollLoop: whom a node is connected to, and whom it catches *)
(* up with, for any tokens, addresses, limits and lengths of queues.       *)
(***************************************************************************)
EXTENDS PollLoop, Connections_proofs

(* settled forgets what was known of closed connections. *)
LEMMA SettledOK ==
    ASSUME NEW n, NetOK(n)
    PROVE  LET m == settled(n)
           IN  /\ NetOK(m)
               /\ m.opened = n.opened /\ m.candidates = n.candidates /\ m.connections = n.connections
               /\ m.changes = n.changes /\ m.bumped = n.bumped /\ m.recent = n.recent /\ m.bans = n.bans
               /\ m.slipped = n.slipped \cap Live(n)
<1> DEFINE m == settled(n)
<1>1. n \in NetType
  BY DEF NetOK
<1>2. m = [n EXCEPT !.fresh = {}, !.handshaken = @ \cap Live(n), !.slipped = @ \cap Live(n)]
  BY DEF settled, Live
<1> HIDE DEF m
<1>3. m \in NetType
  BY Zenon, <1>1, <1>2 DEF NetType
<1>4. /\ m.opened = n.opened /\ m.candidates = n.candidates /\ m.connections = n.connections
      /\ m.changes = n.changes /\ m.bumped = n.bumped /\ m.recent = n.recent /\ m.bans = n.bans
      /\ m.persisted = n.persisted /\ m.fresh = {}
      /\ m.handshaken = n.handshaken \cap Live(n) /\ m.slipped = n.slipped \cap Live(n)
  BY <1>1, <1>2 DEF NetType
<1>5. \A i \in 1..Len(m.changes) : m.changes[i].kind = "Promotion" =>
          /\ m.changes[i].token \in m.opened
          /\ m.changes[i].token \in m.candidates => m.changes[i].token \in m.handshaken
  BY <1>4 DEF NetOK, Live
<1>6. NetOK(m)
  BY <1>3, <1>4, <1>5 DEF NetOK, Live
<1> QED BY <1>4, <1>6 DEF m

(* BannedAreDropped of any connections, while the bans of b are being set. *)
Dropped(n, b) ==
    \A t \in Live(n) : Addr[t] \in n.bans =>
        \/ Addr[t] \in b
        \/ \E change \in Range(n.changes) : change.kind = "RemoveAll" /\ t \in change.tokens
        \/ t \in n.slipped

(* What every step but those of a ban, an update of the peer list and a
   restart makes of the connections. *)
Follows(n, m) ==
    /\ NetOK(m)
    /\ m.bans = n.bans /\ Range(n.changes) \subseteq Range(m.changes) /\ n.opened \subseteq m.opened
    /\ \A t \in Live(m) : t \in n.slipped => t \in m.slipped
    /\ \A t \in Live(m) \ Live(n) : Addr[t] \in n.bans => t \in m.slipped
    /\ ClockMoves /\ ~n.recent =>
          /\ ~m.recent /\ (n.bumped => m.bumped)
          /\ m.connections # n.connections => m.bumped

(* Such a step leaves no banned connection alone. *)
LEMMA FollowsDropped ==
    ASSUME NEW n, NEW m, NEW b, Dropped(n, b), Follows(n, m)
    PROVE  Dropped(m, b)
  BY Zenon DEF Dropped, Follows, Live

(* The steps of the poll loop are of this kind. *)
LEMMA EvolvesFollows ==
    ASSUME NEW n, NEW m, Evolves(n, m)
    PROVE  Follows(n, settled(m))
<1>1. Follows(n, m) /\ NetOK(m)
  BY Zenon DEF Evolves, Follows
<1> DEFINE k == settled(m)
<1>2. /\ NetOK(k)
      /\ k.opened = m.opened /\ k.candidates = m.candidates /\ k.connections = m.connections
      /\ k.changes = m.changes /\ k.bumped = m.bumped /\ k.recent = m.recent /\ k.bans = m.bans
      /\ k.slipped = m.slipped \cap Live(m)
  BY Zenon, <1>1, SettledOK
<1> HIDE DEF k
<1>3. Follows(n, k)
  BY Zenon, <1>1, <1>2 DEF Follows, Live
<1> QED BY <1>3 DEF k

(* So are those that ask for a change, settled or not, *)
LEMMA RegisterFollows ==
    ASSUME NEW n, NetOK(n), NEW change \in Change, change.kind # "Promotion"
    PROVE  /\ Follows(n, register_conn_change(n, change))
           /\ Follows(n, settled(register_conn_change(n, change)))
<1> DEFINE m == register_conn_change(n, change)
           k == settled(m)
<1>1. /\ NetOK(m) /\ m = [n EXCEPT !.changes = m.changes]
      /\ IF Len(n.changes) < HardLimit THEN m.changes = Append(n.changes, change) ELSE m = n
  BY RegisterOK
<1>2. n \in NetType /\ n.changes \in Seq(Change)
  BY DEF NetOK, NetType
<1>3. Range(n.changes) \subseteq Range(m.changes)
  <2> HIDE DEF m
  <2>1. CASE Len(n.changes) < HardLimit
    <3>1. m.changes = Append(n.changes, change)
      BY <1>1, <2>1
    <3>2. \A i \in DOMAIN n.changes : i \in DOMAIN m.changes /\ m.changes[i] = n.changes[i]
      BY <1>2, <3>1
    <3> QED BY <3>2 DEF Range
  <2>2. CASE ~(Len(n.changes) < HardLimit)
    BY <1>1, <2>2
  <2> QED BY <2>1, <2>2
<1> HIDE DEF m
<1>4. /\ m.opened = n.opened /\ m.candidates = n.candidates /\ m.connections = n.connections
      /\ m.bumped = n.bumped /\ m.recent = n.recent /\ m.bans = n.bans /\ m.slipped = n.slipped
  BY <1>1, <1>2 DEF NetType
<1>5. Follows(n, m)
  BY <1>1, <1>3, <1>4 DEF Follows, Live
<1>6. /\ NetOK(k)
      /\ k.opened = m.opened /\ k.candidates = m.candidates /\ k.connections = m.connections
      /\ k.changes = m.changes /\ k.bumped = m.bumped /\ k.recent = m.recent /\ k.bans = m.bans
      /\ k.slipped = m.slipped \cap Live(m)
  BY <1>1, SettledOK
<1> HIDE DEF k
<1>7. Follows(n, k)
  BY Zenon, <1>5, <1>6 DEF Follows, Live
<1> QED BY <1>5, <1>7 DEF m, k

(* and a handshake. *)
LEMMA HandshakeFollows ==
    ASSUME NEW n, NetOK(n), NEW t \in n.candidates
    PROVE  Follows(n, settled(register_conn_change([n EXCEPT !.handshaken = @ \cup {t}],
                                                   [kind |-> "Promotion", token |-> t])))
<1> DEFINE h == [n EXCEPT !.handshaken = @ \cup {t}]
           change == [kind |-> "Promotion", token |-> t]
           m == register_conn_change(h, change)
           k == settled(m)
<1>1. n \in NetType /\ n.changes \in Seq(Change) /\ t \in Tokens /\ t \in n.opened
  BY DEF NetOK, NetType, Live
<1>2. h \in NetType
  BY <1>1 DEF NetType
<1>3. /\ h.opened = n.opened /\ h.candidates = n.candidates /\ h.connections = n.connections
      /\ h.handshaken = n.handshaken \cup {t} /\ h.changes = n.changes /\ h.persisted = n.persisted
      /\ h.bumped = n.bumped /\ h.recent = n.recent /\ h.bans = n.bans /\ h.fresh = n.fresh
      /\ h.slipped = n.slipped
  BY <1>1 DEF NetType
<1> HIDE DEF h
<1>4. NetOK(h)
  BY Zenon, <1>1, <1>2, <1>3 DEF NetOK, Live
<1>5. change \in Change /\ change.token \in h.opened /\ change.token \in h.handshaken
  BY <1>1, <1>3 DEF Change
<1> HIDE DEF change
<1>6. /\ NetOK(m) /\ m = [h EXCEPT !.changes = m.changes]
      /\ IF Len(h.changes) < HardLimit THEN m.changes = Append(h.changes, change) ELSE m = h
  BY <1>4, <1>5, RegisterOK
<1> HIDE DEF m
<1>7. Range(n.changes) \subseteq Range(m.changes)
  <2>1. CASE Len(h.changes) < HardLimit
    <3>1. m.changes = Append(n.changes, change)
      BY <1>3, <1>6, <2>1
    <3>2. \A i \in DOMAIN n.changes : i \in DOMAIN m.changes /\ m.changes[i] = n.changes[i]
      BY <1>1, <3>1
    <3> QED BY <3>2 DEF Range
  <2>2. CASE ~(Len(h.changes) < HardLimit)
    BY <1>3, <1>6, <2>2
  <2> QED BY <2>1, <2>2
<1>8. /\ m.opened = n.opened /\ m.candidates = n.candidates /\ m.connections = n.connections
      /\ m.bumped = n.bumped /\ m.recent = n.recent /\ m.bans = n.bans /\ m.slipped = n.slipped
  BY <1>2, <1>3, <1>6 DEF NetType
<1>9. /\ NetOK(k)
      /\ k.opened = m.opened /\ k.candidates = m.candidates /\ k.connections = m.connections
      /\ k.changes = m.changes /\ k.bumped = m.bumped /\ k.recent = m.recent /\ k.bans = m.bans
      /\ k.slipped = m.slipped \cap Live(m)
  BY <1>6, SettledOK
<1> HIDE DEF k
<1>10. Follows(n, k)
  BY Zenon, <1>7, <1>8, <1>9 DEF Follows, Live
<1> QED BY <1>10 DEF k, m, h, change

(* A change that is processed has done its work: what a RemoveAll was to
   remove is gone. *)
LEMMA ProcessFollows ==
    ASSUME NEW n, NetOK(n), n.changes # <<>>, NEW b, Dropped(n, b),
           NEW m \in process_conn_change([n EXCEPT !.changes = Tail(@)], Head(n.changes))
    PROVE  LET k == settled(m)
           IN  /\ NetOK(k) /\ Dropped(k, b) /\ n.opened \subseteq k.opened
               /\ ClockMoves /\ ~n.recent =>
                     /\ ~k.recent /\ (n.bumped => k.bumped)
                     /\ k.connections # n.connections => k.bumped
<1> DEFINE p == [n EXCEPT !.changes = Tail(@)]
           change == Head(n.changes)
           k == settled(m)
<1>1. n \in NetType /\ n.changes \in Seq(Change)
  BY DEF NetOK, NetType
<1>2. /\ NetOK(p) /\ change \in Change
      /\ change.kind = "Promotion" /\ change.token \in p.candidates => change.token \in p.handshaken
  BY PopOK
<1>3. /\ p.opened = n.opened /\ p.candidates = n.candidates /\ p.connections = n.connections
      /\ p.changes = Tail(n.changes) /\ p.bumped = n.bumped /\ p.recent = n.recent /\ p.bans = n.bans
      /\ p.slipped = n.slipped
  BY <1>1 DEF NetType
<1>4. \A c \in Range(n.changes) : c = change \/ c \in Range(p.changes)
  <2> SUFFICES ASSUME NEW i \in DOMAIN n.changes
               PROVE  n.changes[i] = change \/ n.changes[i] \in Range(Tail(n.changes))
    BY <1>3 DEF Range
  <2>1. CASE i = 1
    BY <1>1, <2>1
  <2>2. CASE i # 1
    <3>1. i - 1 \in DOMAIN Tail(n.changes) /\ Tail(n.changes)[i - 1] = n.changes[i]
      BY <1>1, <2>2
    <3> QED BY <3>1 DEF Range
  <2> QED BY <2>1, <2>2
<1> HIDE DEF p, change
<1>5. Evolves(p, m) /\ (change.kind = "RemoveAll" => Live(m) \cap change.tokens = {})
  BY Zenon, <1>2, ProcessOK DEF p, change
<1>6. Follows(p, k)
  BY <1>5, EvolvesFollows
<1>7. k.candidates = m.candidates /\ k.connections = m.connections
  BY <1>5, SettledOK DEF Evolves
<1> HIDE DEF k
<1>8. Dropped(k, b)
  <2> SUFFICES ASSUME NEW t \in Live(k), Addr[t] \in k.bans, Addr[t] \notin b, t \notin k.slipped
               PROVE  \E c \in Range(k.changes) : c.kind = "RemoveAll" /\ t \in c.tokens
    BY DEF Dropped
  <2>1. k.bans = n.bans /\ Range(p.changes) \subseteq Range(k.changes)
    BY <1>3, <1>6 DEF Follows
  <2>2. t \in Live(p) /\ t \notin p.slipped
    BY <1>3, <1>6, <2>1 DEF Follows
  <2>3. PICK c \in Range(n.changes) : c.kind = "RemoveAll" /\ t \in c.tokens
    BY <1>3, <2>1, <2>2 DEF Dropped, Live
  <2>4. c # change
    BY <1>5, <1>7, <2>3 DEF Live
  <2> QED BY <1>4, <2>1, <2>3, <2>4
<1>9. /\ NetOK(k) /\ n.opened \subseteq k.opened
      /\ ClockMoves /\ ~n.recent =>
            /\ ~k.recent /\ (n.bumped => k.bumped)
            /\ k.connections # n.connections => k.bumped
  BY <1>3, <1>6 DEF Follows
<1> QED BY <1>8, <1>9 DEF k

-----------------------------------------------------------------------------
Message == [from : Tokens, kind : {"CatchUpStatus", "Broadcast"}]

(* The inductive invariant.  To OneConnectionPerNode, ConnectedArePersisted
   (NetOK), BannedAreDropped and OneCatchUpPeer (ListOK) it adds: while the
   poll loop holds a peer it has read, the other thread can only have taken
   that peer away; a connection that is not in the peer list has moved the
   time stamp, if the clock moves. *)
Inv ==
    /\ pc \in {"changes", "check", "act", "network"}
    /\ NetOK(net) /\ ListOK(peers) /\ Dropped(net, banning)
    /\ banning \in SUBSET Addresses
    /\ late \in BOOLEAN /\ seen \in [peer : Tokens \cup {None}, late : BOOLEAN]
    /\ inbound \in Seq(Message) /\ \A i \in DOMAIN inbound : inbound[i].from \in net.opened
    /\ known(peers) \subseteq net.opened
    /\ pc = "act" => peers.peer \in {None, seen.peer}
    /\ ClockMoves =>
          /\ ~net.recent
          /\ net.bumped \/ net.connections \subseteq known(peers)
          /\ pc = "check" => net.connections \subseteq known(peers)

(* What a step that leaves the peer list alone has to show. *)
LEMMA FollowsInv ==
    ASSUME Inv, Follows(net, net'), UNCHANGED <<peers, late, seen, inbound>>, banning' = banning,
           pc' \in {"changes", "check", "act", "network"}, pc' = "act" => pc = "act",
           pc' = "check" => pc = "check" /\ net'.connections = net.connections
    PROVE  Inv'
<1>1. NetOK(net') /\ ListOK(peers') /\ net.opened \subseteq net'.opened /\ known(peers') = known(peers)
  BY Zenon DEF Inv, Follows, known
<1>2. Dropped(net', banning')
  BY FollowsDropped DEF Inv
<1>3. known(peers') \subseteq net'.opened /\ \A i \in DOMAIN inbound' : inbound'[i].from \in net'.opened
  BY <1>1 DEF Inv
<1>4. ClockMoves => /\ ~net'.recent
                    /\ net'.bumped \/ net'.connections \subseteq known(peers')
                    /\ pc' = "check" => net'.connections \subseteq known(peers')
  BY Zenon, <1>1 DEF Inv, Follows
<1> QED BY Zenon, <1>1, <1>2, <1>3, <1>4 DEF Inv

(* A start of the node, and a restart. *)
LEMMA StartInv ==
    ASSUME NEW n \in NetType, NEW m \in start(n)
    PROVE  /\ NetOK(m) /\ Dropped(m, {})
           /\ ClockMoves => ~m.recent /\ (m.bumped \/ m.connections = {})
<1>1. PICK l \in NetType : Evolves(l, m) /\ Live(l) = {} /\ l.changes = <<>> /\ ~l.recent
  BY StartOK
<1> QED BY <1>1 DEF Evolves, Dropped, Live

(* The list of a node that starts is empty. *)
LEMMA EmptyListOK == ListOK(emptyList) /\ known(emptyList) = {}
<1>1. emptyList.states = [t \in Tokens |-> "absent"] /\ emptyList.peer = None /\ emptyList \in ListType
  BY DEF emptyList, ListType
<1>2. \A t \in Tokens : emptyList.states[t] = "absent" /\ t # None
  BY <1>1, TokensAssumption
<1> QED BY <1>1, <1>2 DEF ListOK, known

(* The invariant holds of a node that starts. *)
LEMMA InvInit == Init => Inv
<1> SUFFICES ASSUME Init PROVE Inv
  OBVIOUS
<1>1. emptyNet \in NetType
  BY EmptyTypes
<1>2. /\ NetOK(net) /\ Dropped(net, banning)
      /\ ClockMoves => ~net.recent /\ (net.bumped \/ net.connections = {})
  BY Zenon, <1>1, StartInv DEF Init
<1>3. ListOK(peers) /\ known(peers) = {}
  BY EmptyListOK DEF Init
<1>4. /\ pc = "network" /\ late = FALSE /\ banning = {} /\ inbound = <<>>
      /\ seen \in [peer : Tokens \cup {None}, late : BOOLEAN]
  BY DEF Init, nothingSeen
<1>5. inbound \in Seq(Message) /\ DOMAIN inbound = {}
  BY <1>4
<1> QED BY Zenon, <1>2, <1>3, <1>4, <1>5 DEF Inv

(* A restart keeps the invariant: only what is on disk is left. *)
LEMMA InvRestart == Inv /\ Restart => Inv'
<1> SUFFICES ASSUME Inv, Restart PROVE Inv'
  OBVIOUS
<1>1. net \in NetType
  BY Zenon DEF Inv, NetOK
<1>2. /\ NetOK(net') /\ Dropped(net', banning')
      /\ ClockMoves => ~net'.recent /\ (net'.bumped \/ net'.connections = {})
  BY <1>1, StartInv DEF Restart
<1>3. ListOK(peers') /\ known(peers') = {}
  BY EmptyListOK DEF Restart
<1>4. /\ pc' = "network" /\ late' = FALSE /\ banning' = {} /\ inbound' = <<>>
      /\ seen' \in [peer : Tokens \cup {None}, late : BOOLEAN]
  BY DEF Restart, nothingSeen
<1>5. inbound' \in Seq(Message) /\ DOMAIN inbound' = {}
  BY <1>4
<1> QED BY Zenon, <1>2, <1>3, <1>4, <1>5 DEF Inv

(* process_conn_change: one change is taken from the queue and made. *)
LEMMA InvProcessConnChange == Inv /\ ProcessConnChange => Inv'
<1> SUFFICES ASSUME Inv, ProcessConnChange PROVE Inv'
  OBVIOUS
<1>1. PICK m \in process_conn_change([net EXCEPT !.changes = Tail(@)], Head(net.changes)) : net' = settled(m)
  BY DEF ProcessConnChange
<1>2. /\ NetOK(net') /\ Dropped(net', banning) /\ net.opened \subseteq net'.opened
      /\ ClockMoves /\ ~net.recent =>
            /\ ~net'.recent /\ (net.bumped => net'.bumped)
            /\ net'.connections # net.connections => net'.bumped
  BY Zenon, <1>1, ProcessFollows DEF Inv, ProcessConnChange
<1>3. UNCHANGED <<pc, peers, late, seen, inbound, banning>> /\ pc = "changes"
  BY DEF ProcessConnChange
<1>4. known(peers') = known(peers)
  BY <1>3 DEF known
<1> QED BY <1>2, <1>3, <1>4 DEF Inv

(* update_peer_list: the peer list follows a snapshot of the connections. *)
LEMMA InvUpdatePeerList == Inv /\ UpdatePeerList => Inv'
<1> SUFFICES ASSUME Inv, UpdatePeerList PROVE Inv'
  OBVIOUS
<1>1. UNCHANGED <<late, seen, inbound, banning>> /\ pc' = "check"
  BY DEF UpdatePeerList
<1>2. CASE net.bumped
  <2> DEFINE n == [net EXCEPT !.bumped = FALSE]
  <2>1. net \in NetType /\ net.connections \in SUBSET Tokens /\ net.connections \subseteq net.opened
    BY Zenon DEF Inv, NetOK, NetType, Live
  <2>2. /\ n \in NetType /\ n.bumped = FALSE
        /\ n.opened = net.opened /\ n.candidates = net.candidates /\ n.connections = net.connections
        /\ n.handshaken = net.handshaken /\ n.changes = net.changes /\ n.persisted = net.persisted
        /\ n.recent = net.recent /\ n.bans = net.bans /\ n.fresh = net.fresh /\ n.slipped = net.slipped
    BY Zenon, <2>1 DEF NetType
  <2>3. net' = settled(n)
    BY <1>2 DEF UpdatePeerList
  <2> HIDE DEF n
  <2>4. NetOK(n)
    BY Zenon, <2>2 DEF Inv, NetOK, Live
  <2>5. /\ NetOK(net')
        /\ net'.opened = n.opened /\ net'.candidates = n.candidates /\ net'.connections = n.connections
        /\ net'.changes = n.changes /\ net'.bumped = n.bumped /\ net'.recent = n.recent
        /\ net'.bans = n.bans /\ net'.slipped = n.slipped \cap Live(n)
    BY Zenon, <2>3, <2>4, SettledOK
  <2>6. Dropped(net', banning')
    BY Zenon, <1>1, <2>2, <2>5 DEF Inv, Dropped, Live
  <2>7. ListOK(peers') /\ known(peers') = net.connections
    BY <1>2, <2>1, UpdateListOK DEF Inv, UpdatePeerList
  <2> QED BY Zenon, <1>1, <2>1, <2>2, <2>5, <2>6, <2>7 DEF Inv
<1>3. CASE ~net.bumped
  <2>1. net' = settled(net) /\ peers' = peers
    BY <1>3 DEF UpdatePeerList
  <2>2. Follows(net, net')
    BY Zenon, <2>1, EvolvesNot, EvolvesFollows DEF Inv
  <2>3. net'.connections = net.connections
    BY Zenon, <2>1, SettledOK DEF Inv
  <2>4. known(peers') = known(peers)
    BY <2>1 DEF known
  <2>5. Dropped(net', banning')
    BY Zenon, <1>1, <2>2, FollowsDropped DEF Inv
  <2> QED BY Zenon, <1>1, <1>3, <2>1, <2>2, <2>3, <2>4, <2>5 DEF Inv, Follows
<1> QED BY <1>2, <1>3

(* A step of the poll loop that leaves the connections alone. *)
LEMMA SettledFollows ==
    ASSUME Inv, net' = settled(net)
    PROVE  /\ Follows(net, net') /\ net'.connections = net.connections /\ net'.opened = net.opened
           /\ net'.bumped = net.bumped /\ net'.recent = net.recent
<1>1. NetOK(net)
  BY Zenon DEF Inv
<1> QED BY Zenon, <1>1, EvolvesNot, EvolvesFollows, SettledOK

(* A regenesis marks the peers for a new catch-up. *)
LEMMA InvRegenesis == Inv /\ Regenesis => Inv'
<1> SUFFICES ASSUME Inv, Regenesis PROVE Inv'
  OBVIOUS
<1>1. UNCHANGED <<pc, late, seen, inbound, banning>> /\ pc = "check" /\ net' = settled(net)
  BY DEF Regenesis
<1>2. /\ Follows(net, net') /\ net'.connections = net.connections /\ net'.opened = net.opened
      /\ net'.bumped = net.bumped /\ net'.recent = net.recent
  BY Zenon, <1>1, SettledFollows
<1>3. Dropped(net', banning')
  BY Zenon, <1>1, <1>2, FollowsDropped DEF Inv
<1>4. ListOK(peers') /\ known(peers') = known(peers)
  BY Zenon, MarkOK DEF Inv, Regenesis
<1> QED BY Zenon, <1>1, <1>2, <1>3, <1>4 DEF Inv, Follows

(* check_peer_states reads the peer that catches up. *)
LEMMA InvReadCatchUpPeer == Inv /\ ReadCatchUpPeer => Inv'
<1> SUFFICES ASSUME Inv, ReadCatchUpPeer PROVE Inv'
  OBVIOUS
<1>1. /\ UNCHANGED <<peers, late, inbound, banning>> /\ pc' = "act" /\ net' = settled(net)
      /\ seen' = [peer |-> peers.peer, late |-> late]
  BY DEF ReadCatchUpPeer
<1>2. /\ Follows(net, net') /\ net'.connections = net.connections /\ net'.opened = net.opened
      /\ net'.bumped = net.bumped /\ net'.recent = net.recent
  BY Zenon, <1>1, SettledFollows
<1>3. Dropped(net', banning')
  BY Zenon, <1>1, <1>2, FollowsDropped DEF Inv
<1>4. seen' \in [peer : Tokens \cup {None}, late : BOOLEAN] /\ seen'.peer = peers.peer
  BY Zenon, <1>1 DEF Inv, ListOK, ListType
<1>5. ListOK(peers') /\ known(peers') = known(peers)
  BY Zenon, <1>1 DEF Inv, known
<1> QED BY Zenon, <1>1, <1>2, <1>3, <1>4, <1>5 DEF Inv, Follows

(* check_peer_states gives up the peer it read, and picks the next one. *)
LEMMA InvCheckPeerStates == Inv /\ CheckPeerStates => Inv'
<1> SUFFICES ASSUME Inv, CheckPeerStates PROVE Inv'
  OBVIOUS
<1>1. /\ UNCHANGED <<inbound, banning>> /\ pc = "act" /\ pc' = "network"
      /\ seen' \in [peer : Tokens \cup {None}, late : BOOLEAN]
  BY Zenon DEF CheckPeerStates, nothingSeen
<1>2. seen.peer \in Tokens \cup {None} /\ peers.peer \in {None, seen.peer}
  BY <1>1 DEF Inv
<1>3. CASE seen.peer \in net.connections
  <2>1. UNCHANGED <<peers, late>>
    BY Zenon, <1>3 DEF CheckPeerStates
  <2> DEFINE change == [kind |-> "Removal", token |-> seen.peer]
  <2>2. net' = settled(net) \/ net' = settled(register_conn_change(net, change))
    BY Zenon, <1>3 DEF CheckPeerStates
  <2>3. change \in Change /\ change.kind # "Promotion"
    BY Zenon, <1>3 DEF Change, Inv, NetOK, NetType
  <2> HIDE DEF change
  <2>4. Follows(net, net')
    BY Zenon, <2>2, <2>3, SettledFollows, RegisterFollows DEF Inv
  <2>5. Dropped(net', banning')
    BY Zenon, <1>1, <2>4, FollowsDropped DEF Inv
  <2>6. ListOK(peers') /\ known(peers') = known(peers)
    BY Zenon, <2>1 DEF Inv, known
  <2> QED BY Zenon, <1>1, <2>1, <2>4, <2>5, <2>6 DEF Inv, Follows
<1>4. CASE seen.peer \notin net.connections
  <2> DEFINE l == IF seen.peer = None THEN peers ELSE forget(peers, seen.peer)
  <2>1. peers' = try_catch_up(l, net.connections) /\ net' = settled(net) /\ late' = (late /\ peers'.peer = None)
    BY Zenon, <1>4 DEF CheckPeerStates
  <2>2. ListOK(l) /\ l.peer = None /\ known(l) \subseteq known(peers) /\ known(peers) \ {seen.peer} \subseteq known(l)
    BY Zenon, <1>2, ForgetOK DEF Inv
  <2> HIDE DEF l
  <2>3. ListOK(peers') /\ known(peers') \subseteq known(l) /\ known(l) \cap net.connections \subseteq known(peers')
    BY Zenon, <2>1, <2>2, TryCatchUpOK
  <2>4. /\ Follows(net, net') /\ net'.connections = net.connections /\ net'.opened = net.opened
        /\ net'.bumped = net.bumped /\ net'.recent = net.recent
    BY Zenon, <2>1, SettledFollows
  <2>5. Dropped(net', banning')
    BY Zenon, <1>1, <2>4, FollowsDropped DEF Inv
  <2>6. late' \in BOOLEAN
    BY Zenon, <2>1 DEF Inv
  <2>7. known(peers') \subseteq net'.opened
    BY Zenon, <2>2, <2>3, <2>4 DEF Inv
  <2>8. ClockMoves => ~net'.recent /\ (net'.bumped \/ net'.connections \subseteq known(peers'))
    BY Zenon, <1>4, <2>2, <2>3, <2>4 DEF Inv
  <2> QED BY Zenon, <1>1, <2>3, <2>4, <2>5, <2>6, <2>7, <2>8 DEF Inv, Follows
<1> QED BY <1>3, <1>4

(* What the other ends do: handshakes, addresses of peers, closed connections. *)
LEMMA InvNetwork ==
    ASSUME Inv, NEW t \in Tokens,
           \/ Handshake(t)
           \/ \E a \in Learned : LearnPeer(t, a)
           \/ \E kind \in Ends : EndOfConnection(t, kind)
    PROVE  Inv'
<1>1. NetOK(net)
  BY Zenon DEF Inv
<1>2. CASE Handshake(t)
  <2>1. t \in net.candidates
    BY <1>2 DEF Handshake
  <2>2. Follows(net, net')
    BY <1>1, <1>2, <2>1, HandshakeFollows DEF Handshake, Network
  <2> QED BY Zenon, <1>2, <2>2, FollowsInv DEF Handshake, Network, Inv
<1>3. ASSUME NEW a \in Learned, LearnPeer(t, a) PROVE Inv'
  <2> DEFINE change == [kind |-> "NewPeers", addr |-> a]
  <2>1. change \in Change /\ change.kind # "Promotion"
    BY Zenon, BoundsAssumption DEF Change
  <2>2. net' = settled(register_conn_change(net, change))
    BY Zenon, <1>3 DEF LearnPeer, Network
  <2> HIDE DEF change
  <2>3. Follows(net, net')
    BY <1>1, <2>1, <2>2, RegisterFollows
  <2> QED BY Zenon, <1>3, <2>3, FollowsInv DEF LearnPeer, Network, Inv
<1>4. ASSUME NEW kind \in Ends, EndOfConnection(t, kind) PROVE Inv'
  <2> DEFINE change == [kind |-> kind, token |-> t]
  <2>1. change \in Change /\ change.kind # "Promotion"
    BY Zenon, BoundsAssumption DEF Change
  <2>2. net' = settled(register_conn_change(net, change))
    BY Zenon, <1>4 DEF EndOfConnection, Network
  <2> HIDE DEF change
  <2>3. Follows(net, net')
    BY <1>1, <2>1, <2>2, RegisterFollows
  <2> QED BY Zenon, <1>4, <2>3, FollowsInv DEF EndOfConnection, Network, Inv
<1> QED BY <1>2, <1>3, <1>4

(* A packet for the consensus goes to its queue, if there is room. *)
LEMMA InvPacket ==
    ASSUME Inv, NEW t \in Tokens, NEW kind \in Packets, Packet(t, kind)
    PROVE  Inv'
<1> DEFINE message == [from |-> t, kind |-> kind]
<1>1. /\ UNCHANGED <<pc, peers, late, seen, banning>> /\ pc = "network"
      /\ net' = settled(net) /\ inbound' = Append(inbound, message)
  BY Zenon DEF Packet
<1>2. message \in Message /\ message.from = t
  BY Zenon, BoundsAssumption DEF Message
<1>3. t \in net.opened
  BY Zenon DEF Packet, Inv, NetOK
<1> HIDE DEF message
<1>4. /\ Follows(net, net') /\ net'.connections = net.connections /\ net'.opened = net.opened
      /\ net'.bumped = net.bumped /\ net'.recent = net.recent
  BY Zenon, <1>1, SettledFollows
<1>5. Dropped(net', banning')
  BY Zenon, <1>1, <1>4, FollowsDropped DEF Inv
<1>6. inbound' \in Seq(Message) /\ \A i \in DOMAIN inbound' : inbound'[i].from \in net'.opened
  <2>1. inbound \in Seq(Message) /\ \A m \in Range(inbound) : m.from \in net.opened
    BY Zenon DEF Inv, Range
  <2> QED BY Zenon, <1>1, <1>2, <1>3, <1>4, <2>1, Queues
<1>7. ListOK(peers') /\ known(peers') = known(peers)
  BY Zenon, <1>1 DEF Inv, known
<1> QED BY Zenon, <1>1, <1>4, <1>5, <1>6, <1>7 DEF Inv, Follows

(* The poll loop begins its next round, with the housekeeping that is due. *)
LEMMA InvNextRound == Inv /\ NextRound => Inv'
<1> SUFFICES ASSUME Inv, NextRound PROVE Inv'
  OBVIOUS
<1>1. NetOK(net)
  BY Zenon DEF Inv
<1>2. PICK n \in tended(net) :
        \/ net' = settled(n)
        \/ \E t \in Tokens : accepts(n, t) /\ net' = settled(open(n, {t}))
  BY Zenon DEF NextRound
<1>3. Evolves(net, n)
  BY <1>1, EvolvesNot, HousekeepingOK DEF tended
<1>4. Follows(net, net')
  <2>1. CASE net' = settled(n)
    BY <1>3, <2>1, EvolvesFollows
  <2>2. ASSUME NEW t \in Tokens, accepts(n, t), net' = settled(open(n, {t}))
        PROVE  Follows(net, net')
    <3>1. {t} \in SUBSET (Tokens \ n.opened) /\ \A u \in {t} : ~is_banned(n, Addr[u])
      BY Zenon, <2>2 DEF accepts
    <3>2. Evolves(n, open(n, {t}))
      BY Zenon, <1>3, <3>1, OpenOK DEF Evolves
    <3>3. Evolves(net, open(n, {t}))
      BY <1>3, <3>2, EvolvesTwice
    <3> QED BY <2>2, <3>3, EvolvesFollows
  <2> QED BY <1>2, <2>1, <2>2, Zenon
<1> QED BY Zenon, <1>4, FollowsInv DEF NextRound

(* The answer of the consensus changes the state of the peer that sent the packet. *)
LEMMA InvHandleInbound ==
    ASSUME Inv, NEW answer, HandleInbound(answer)
    PROVE  Inv'
<1> DEFINE message == Head(inbound)
           change == [kind |-> "Expulsion", token |-> message.from]
<1>1. /\ UNCHANGED <<pc, late, seen, banning>> /\ inbound # <<>> /\ inbound' = Tail(inbound)
      /\ peers' = update_peer_states(peers, message, answer)
      /\ net' \in {net, register_conn_change(net, change)}
  BY Zenon DEF HandleInbound
<1>2. inbound \in Seq(Message) /\ \A i \in DOMAIN inbound : inbound[i].from \in net.opened
  BY Zenon DEF Inv
<1>2a. /\ message \in Message /\ message \in Range(inbound) /\ Tail(inbound) \in Seq(Message)
      /\ \A i \in DOMAIN Tail(inbound) : Tail(inbound)[i] \in Range(inbound)
  BY <1>1, <1>2, Queues
<1>2b. \A m \in Range(inbound) : m.from \in net.opened
  BY <1>2 DEF Range
<1>3. message \in Message /\ message.from \in net.opened
  BY <1>2a, <1>2b
<1>4. inbound' \in Seq(Message) /\ \A i \in DOMAIN inbound' : inbound'[i].from \in net.opened
  BY Zenon, <1>1, <1>2a, <1>2b
<1> HIDE DEF message
<1>5. message.from \in Tokens
  BY <1>3 DEF Message
<1>6. change \in Change /\ change.kind # "Promotion"
  BY Zenon, <1>5 DEF Change
<1> HIDE DEF change
<1>7. NetOK(net)
  BY DEF Inv
<1>8. Follows(net, net') /\ net'.connections = net.connections
  <2>1. CASE net' = net
    BY Zenon, <1>7, <2>1 DEF Follows, Live
  <2>2. CASE net' = register_conn_change(net, change)
    <3>1. Follows(net, net')
      BY <1>6, <1>7, <2>2, RegisterFollows
    <3>2. net'.connections = net.connections
      BY <1>7, <2>2 DEF register_conn_change, NetOK, NetType
    <3> QED BY Zenon, <3>1, <3>2
  <2> QED BY <1>1, <2>1, <2>2
<1>9. Dropped(net', banning')
  BY Zenon, <1>1, <1>8, FollowsDropped DEF Inv
<1>10. /\ ListOK(peers') /\ peers'.peer \in {None, peers.peer}
       /\ known(peers) \subseteq known(peers') /\ known(peers') \subseteq known(peers) \cup {message.from}
  BY Zenon, <1>1, <1>5, UpdateStatesOK DEF Inv
<1>11. /\ known(peers') \subseteq net'.opened
       /\ \A i \in DOMAIN inbound' : inbound'[i].from \in net'.opened
  BY Zenon, <1>3, <1>4, <1>8, <1>10 DEF Inv, Follows
<1>12. ClockMoves => /\ ~net'.recent
                     /\ net'.bumped \/ net'.connections \subseteq known(peers')
                     /\ pc' = "check" => net'.connections \subseteq known(peers')
  BY Zenon, <1>1, <1>8, <1>10 DEF Inv, Follows
<1>13. pc' = "act" => peers'.peer \in {None, seen'.peer}
  BY Zenon, <1>1, <1>10 DEF Inv
<1> QED BY Zenon, <1>1, <1>4, <1>8, <1>9, <1>10, <1>11, <1>12, <1>13 DEF Inv, Follows

(* A call over the gRPC interface that asks for a change, and takes addresses
   off the given ones. *)
LEMMA CallFollows ==
    ASSUME NEW n, NetOK(n), NEW G \in SUBSET Addresses, NEW change \in Change, change.kind # "Promotion"
    PROVE  LET u == [n EXCEPT !.given = G]
               m == register_conn_change(u, change)
           IN  /\ Follows(n, u) /\ u.connections = n.connections
               /\ Follows(n, m) /\ m.connections = n.connections
<1> DEFINE u == [n EXCEPT !.given = G]
           m == register_conn_change(u, change)
<1>1. n \in NetType
  BY Zenon DEF NetOK
<1>2. u \in NetType
  BY <1>1 DEF NetType
<1>3. /\ u.opened = n.opened /\ u.candidates = n.candidates /\ u.connections = n.connections
      /\ u.handshaken = n.handshaken /\ u.changes = n.changes /\ u.persisted = n.persisted
      /\ u.bumped = n.bumped /\ u.recent = n.recent /\ u.bans = n.bans /\ u.fresh = n.fresh
      /\ u.slipped = n.slipped
  BY <1>1 DEF NetType
<1> HIDE DEF u
<1>4. NetOK(u)
  BY Zenon, <1>2, <1>3 DEF NetOK, Live
<1>5. Follows(n, u)
  BY Zenon, <1>3, <1>4 DEF Follows, Live
<1>6. Follows(u, m)
  BY <1>4, RegisterFollows
<1>7. m.connections = u.connections
  BY <1>2 DEF register_conn_change, NetType
<1>8. Follows(n, m)
  BY Zenon, <1>3, <1>6 DEF Follows, Live
<1> QED BY <1>3, <1>5, <1>7, <1>8 DEF u

(* peer_connect of the node's API. *)
LEMMA InvPeerConnect ==
    ASSUME Inv, NEW a \in Called, PeerConnect(a)
    PROVE  Inv'
<1> DEFINE change == [kind |-> "NewConn", addr |-> a]
<1>1. net' = register_conn_change(net, change) /\ UNCHANGED <<pc, peers, late, seen, inbound, banning>>
  BY Zenon DEF PeerConnect, Call
<1>2. change \in Change /\ change.kind # "Promotion"
  BY BoundsAssumption DEF Change
<1> HIDE DEF change
<1>3. NetOK(net)
  BY Zenon DEF Inv
<1>4. Follows(net, net')
  BY <1>1, <1>2, <1>3, RegisterFollows
<1>5. net'.connections = net.connections
  BY <1>1, <1>3 DEF register_conn_change, NetOK, NetType
<1> QED BY Zenon, <1>1, <1>4, <1>5, FollowsInv DEF Inv

(* peer_disconnect of the node's API. *)
LEMMA InvPeerDisconnect ==
    ASSUME Inv, NEW a \in Called, PeerDisconnect(a)
    PROVE  Inv'
<1> DEFINE ungiven == [net EXCEPT !.given = @ \ {a}]
           found == {t \in (net.candidates \cup net.connections) \ Incoming : Addr[t] = a}
<1>1. net' \in drop_addr(net, a) /\ UNCHANGED <<pc, peers, late, seen, inbound, banning>>
  BY DEF PeerDisconnect, Call
<1>2. NetOK(net) /\ net \in NetType
  BY Zenon DEF Inv, NetOK
<1>3. /\ net.given \ {a} \in SUBSET Addresses
      /\ ungiven = [net EXCEPT !.given = net.given \ {a}]
  BY <1>2 DEF NetType
<1>4. CASE net' = ungiven
  <2>1. PICK change \in Change : change.kind # "Promotion"
    <3>1. [kind |-> "NewConn", addr |-> a] \in Change
      BY Zenon, BoundsAssumption DEF Change
    <3> QED BY <3>1
  <2>2. Follows(net, net') /\ net'.connections = net.connections
    BY <1>2, <1>3, <1>4, <2>1, CallFollows
  <2> QED BY Zenon, <1>1, <2>2, FollowsInv DEF Inv
<1>5. ASSUME NEW t \in found, net' = register_conn_change(ungiven, [kind |-> "Removal", token |-> t])
      PROVE  Inv'
  <2>1. t \in Tokens
    BY <1>2 DEF NetType
  <2> DEFINE change == [kind |-> "Removal", token |-> t]
  <2>2. change \in Change /\ change.kind # "Promotion"
    BY Zenon, <2>1 DEF Change
  <2>3. net' = register_conn_change([net EXCEPT !.given = net.given \ {a}], change)
    BY <1>3, <1>5
  <2> HIDE DEF change
  <2>4. Follows(net, net') /\ net'.connections = net.connections
    BY <1>2, <1>3, <2>2, <2>3, CallFollows
  <2> QED BY Zenon, <1>1, <2>4, FollowsInv DEF Inv
<1>6. net' = ungiven \/ \E t \in found : net' = register_conn_change(ungiven, [kind |-> "Removal", token |-> t])
  BY <1>1, Zenon DEF drop_addr
<1> QED BY Zenon, <1>4, <1>5, <1>6

(* ban_peer: the ban is written before the connections are dropped. *)
LEMMA InvBanPeer ==
    ASSUME Inv, NEW a \in Called, BanPeer(a)
    PROVE  Inv'
<1> DEFINE B == net.bans \cup {a}
           F == net.fresh \cup {a}
<1>1. net' = ban(net, a) /\ UNCHANGED <<pc, peers, late, seen, inbound>> /\ banning' = banning \cup {a}
  BY DEF BanPeer, Call
<1>2. NetOK(net) /\ net \in NetType
  BY Zenon DEF Inv, NetOK
<1>3. a \in Addresses /\ net.given \in SUBSET Addresses /\ B \in SUBSET Addresses /\ F \in SUBSET B
      /\ net.slipped \in SUBSET net.opened
  BY Zenon, <1>2, BoundsAssumption DEF NetOK, NetType
<1>4. net' = [net EXCEPT !.given = net.given, !.bans = B, !.fresh = F, !.slipped = net.slipped]
  BY Zenon, <1>1, <1>2 DEF ban, NetType
<1>5. NetOK(net')
  BY Zenon, <1>2, <1>3, <1>4, BansOK
<1>6. /\ net'.opened = net.opened /\ net'.candidates = net.candidates /\ net'.connections = net.connections
      /\ net'.changes = net.changes /\ net'.bumped = net.bumped /\ net'.recent = net.recent
      /\ net'.bans = net.bans \cup {a} /\ net'.slipped = net.slipped
  BY <1>1, <1>2 DEF ban, NetType
<1>7. Dropped(net', banning')
  BY Zenon, <1>1, <1>6 DEF Dropped, Live, Inv
<1>8. banning' \in SUBSET Addresses
  BY Zenon, <1>1, <1>3 DEF Inv
<1>9. ListOK(peers') /\ known(peers') = known(peers)
  BY Zenon, <1>1 DEF Inv, known
<1> QED BY Zenon, <1>1, <1>5, <1>6, <1>7, <1>8, <1>9 DEF Inv

(* unban_peer of the node's API. *)
LEMMA InvUnbanPeer ==
    ASSUME Inv, NEW a \in Called, UnbanPeer(a)
    PROVE  Inv'
<1> DEFINE B == net.bans \ {a}
           F == net.fresh \ {a}
<1>1. net' = unban_node(net, a) /\ UNCHANGED <<pc, peers, late, seen, inbound, banning>>
  BY DEF UnbanPeer
<1>2. NetOK(net) /\ net \in NetType
  BY Zenon DEF Inv, NetOK
<1>3. net.given \in SUBSET Addresses /\ B \in SUBSET Addresses /\ F \in SUBSET B
      /\ net.slipped \in SUBSET net.opened
  BY Zenon, <1>2 DEF NetOK, NetType
<1>4. net' = [net EXCEPT !.given = net.given, !.bans = B, !.fresh = F, !.slipped = net.slipped]
  BY Zenon, <1>1, <1>2 DEF unban_node, NetType
<1>5. NetOK(net')
  BY Zenon, <1>2, <1>3, <1>4, BansOK
<1>6. /\ net'.opened = net.opened /\ net'.candidates = net.candidates /\ net'.connections = net.connections
      /\ net'.changes = net.changes /\ net'.bumped = net.bumped /\ net'.recent = net.recent
      /\ net'.bans \subseteq net.bans /\ net'.slipped = net.slipped
  BY <1>1, <1>2 DEF unban_node, NetType
<1>7. Dropped(net', banning')
  BY Zenon, <1>1, <1>6 DEF Dropped, Live, Inv
<1>8. ListOK(peers') /\ known(peers') = known(peers)
  BY Zenon, <1>1 DEF Inv, known
<1> QED BY Zenon, <1>1, <1>5, <1>6, <1>7, <1>8 DEF Inv

(* Once drop_by_ip_and_ban has looked, the connections it has found are to be
   removed, or the queue was full. *)
LEMMA InvDropBanned ==
    ASSUME Inv, NEW a \in Called, DropBanned(a)
    PROVE  Inv'
<1> DEFINE change == [kind |-> "RemoveAll", tokens |-> find_conn_tokens_by_ip(net, a)]
<1>1. net' = drop_by_ip(net, a) /\ UNCHANGED <<pc, peers, late, seen, inbound>> /\ banning' = banning \ {a}
  BY DEF DropBanned
<1>2. NetOK(net) /\ net.changes \in Seq(Change) /\ a \in Addresses
  BY Zenon, BoundsAssumption DEF Inv, NetOK, NetType
<1>3. /\ NetOK(net') /\ net'.bans = net.bans
      /\ net'.candidates = net.candidates /\ net'.connections = net.connections /\ net'.opened = net.opened
      /\ net'.bumped = net.bumped /\ net'.recent = net.recent
      /\ \A t \in net.slipped : Addr[t] # a => t \in net'.slipped
      /\ \/ net'.changes = Append(net.changes, change)
         \/ net'.changes = net.changes /\ find_conn_tokens_by_ip(net, a) \subseteq net'.slipped
  BY Zenon, <1>1, <1>2, DropByIpOK
<1>4. change.kind = "RemoveAll" /\ change.tokens = find_conn_tokens_by_ip(net, a) /\ change \in Change
  <2>1. find_conn_tokens_by_ip(net, a) \subseteq Tokens
    BY Zenon, <1>2 DEF find_conn_tokens_by_ip, NetOK, NetType
  <2> QED BY Zenon, <2>1 DEF Change
<1> HIDE DEF change
<1>5. /\ Range(net.changes) \subseteq Range(net'.changes)
      /\ change \in Range(net'.changes) \/ find_conn_tokens_by_ip(net, a) \subseteq net'.slipped
  <2>1. CASE net'.changes = Append(net.changes, change)
    BY <1>2, <1>4, <2>1, Queues
  <2>2. CASE net'.changes = net.changes /\ find_conn_tokens_by_ip(net, a) \subseteq net'.slipped
    BY <2>2
  <2> QED BY Zenon, <1>3, <2>1, <2>2
<1>6. Dropped(net', banning')
  <2> SUFFICES ASSUME NEW t \in Live(net'), Addr[t] \in net'.bans
               PROVE  \/ Addr[t] \in banning'
                      \/ \E c \in Range(net'.changes) : c.kind = "RemoveAll" /\ t \in c.tokens
                      \/ t \in net'.slipped
    BY DEF Dropped
  <2>1. t \in Live(net) /\ Addr[t] \in net.bans
    BY Zenon, <1>3 DEF Live
  <2>2. CASE Addr[t] = a
    BY Zenon, <1>4, <1>5, <2>1, <2>2 DEF find_conn_tokens_by_ip, Live
  <2>3. CASE Addr[t] # a
    BY Zenon, <1>1, <1>3, <1>5, <2>1, <2>3 DEF Inv, Dropped
  <2> QED BY <2>2, <2>3
<1>7. ListOK(peers') /\ known(peers') = known(peers) /\ banning' \in SUBSET Addresses
  BY Zenon, <1>1 DEF Inv, known
<1> QED BY Zenon, <1>1, <1>3, <1>6, <1>7 DEF Inv

(* The steps of the consensus and of the clock. *)
LEMMA InvOthers ==
    ASSUME Inv, RegenesisCallback \/ CatchUpIsLate \/ NextMillisecond \/ UNCHANGED vars
    PROVE  Inv'
<1>1. CASE net' = net /\ UNCHANGED <<pc, peers, seen, inbound, banning>> /\ late' \in BOOLEAN
  <2>1. NetOK(net') /\ ListOK(peers') /\ Dropped(net', banning') /\ known(peers') = known(peers)
    BY Zenon, <1>1 DEF Inv, known
  <2> QED BY Zenon, <1>1, <2>1 DEF Inv
<1>2. CASE NextMillisecond
  <2>1. NetOK(net) /\ net \in NetType /\ UNCHANGED <<pc, peers, late, seen, inbound, banning>>
        /\ net' = [net EXCEPT !.recent = FALSE]
    BY <1>2 DEF Inv, NetOK, NextMillisecond
  <2>2. net' \in NetType
    BY Zenon, <2>1 DEF NetType
  <2>3. /\ net'.opened = net.opened /\ net'.candidates = net.candidates /\ net'.connections = net.connections
        /\ net'.handshaken = net.handshaken /\ net'.changes = net.changes /\ net'.persisted = net.persisted
        /\ net'.bumped = net.bumped /\ net'.recent = FALSE /\ net'.bans = net.bans /\ net'.fresh = net.fresh
        /\ net'.slipped = net.slipped
    BY <2>1 DEF NetType
  <2>4. NetOK(net')
    BY <2>1, <2>2, <2>3 DEF NetOK, Live
  <2>5. Follows(net, net')
    BY Zenon, <2>3, <2>4 DEF Follows, Live
  <2> QED BY <2>1, <2>3, <2>5, FollowsInv DEF Inv
<1>3. CASE RegenesisCallback \/ CatchUpIsLate \/ UNCHANGED vars
  <2>1. net' = net /\ UNCHANGED <<pc, peers, seen, inbound, banning>> /\ late' \in BOOLEAN
    BY Zenon, <1>3 DEF RegenesisCallback, CatchUpIsLate, vars, Inv
  <2> QED BY <1>1, <2>1
<1> QED BY <1>2, <1>3

(* No step leaves the inductive invariant. *)
LEMMA InvNext == Inv /\ [Next]_vars => Inv'
<1> SUFFICES ASSUME Inv, [Next]_vars PROVE Inv'
  OBVIOUS
<1>1. CASE PollStep
  BY <1>1, InvProcessConnChange, InvUpdatePeerList, InvRegenesis, InvReadCatchUpPeer, InvCheckPeerStates,
     InvNextRound DEF PollStep
<1>2. ASSUME NEW t \in Tokens,
             \/ Handshake(t)
             \/ \E a \in Learned : LearnPeer(t, a)
             \/ \E kind \in Ends : EndOfConnection(t, kind)
      PROVE  Inv'
  BY <1>2, InvNetwork
<1>3. ASSUME NEW t \in Tokens, NEW kind \in Packets, Packet(t, kind)
      PROVE  Inv'
  BY <1>3, InvPacket
<1>4. ASSUME NEW answer, HandleInbound(answer)
      PROVE  Inv'
  BY <1>4, InvHandleInbound
<1>5. ASSUME NEW a \in Called,
             PeerConnect(a) \/ PeerDisconnect(a) \/ BanPeer(a) \/ DropBanned(a) \/ UnbanPeer(a)
      PROVE  Inv'
  BY <1>5, InvPeerConnect, InvPeerDisconnect, InvBanPeer, InvDropBanned, InvUnbanPeer
<1>6. CASE Restart
  BY <1>6, InvRestart
<1>7. CASE RegenesisCallback \/ CatchUpIsLate \/ NextMillisecond \/ UNCHANGED vars
  BY <1>7, InvOthers
<1> QED BY <1>1, <1>2, <1>3, <1>4, <1>5, <1>6, <1>7 DEF Next

(* The inductive invariant holds in every state of the poll loop. *)
THEOREM InvHolds == Spec => []Inv
<1> QED BY InvInit, InvNext, PTL DEF Spec

(* The lists and queues hold tokens of opened connections, and no token is
   both before and after its promotion (TypeOK), for any number of
   connections, addresses and messages. *)
THEOREM TypeHolds == Spec => []TypeOK
<1>1. Inv => TypeOK
  <2> SUFFICES ASSUME Inv PROVE TypeOK
    OBVIOUS
  <2>1. {m.from : m \in Range(inbound)} \subseteq net.opened
    <3>1. \A i \in DOMAIN inbound : inbound[i].from \in net.opened
      BY Zenon DEF Inv
    <3> QED BY <3>1 DEF Range
  <2> QED BY Zenon, <2>1 DEF Inv, NetOK, NetType, ListOK, ListType, Live, TypeOK
<1> QED BY <1>1, InvHolds, PTL

(* At most one connection to each node is promoted, from whichever side the
   connections were opened and however their handshakes, promotions, removals,
   bans and restarts interleave (process_conn_change). *)
THEOREM OneConnectionPerNodeHolds == Spec => []OneConnectionPerNode
<1>1. Inv => OneConnectionPerNode
  BY Zenon DEF Inv, NetOK, OneConnectionPerNode
<1> QED BY <1>1, InvHolds, PTL

(* Every node with a connection is on record for a restart (persist_peer and
   remove_persisted_peer). *)
THEOREM ConnectedArePersistedHolds == Spec => []ConnectedArePersisted
<1>1. Inv => ConnectedArePersisted
  BY Zenon DEF Inv, NetOK, ConnectedArePersisted
<1> QED BY <1>1, InvHolds, PTL

(* A banned node keeps no connection but those counted in slipped
   (drop_by_ip_and_ban against accept, connect and process_conn_change). *)
THEOREM BannedAreDroppedHolds == Spec => []BannedAreDropped
<1>1. Inv => BannedAreDropped
  BY Zenon DEF Inv, Dropped, Live, BannedAreDropped
<1> QED BY <1>1, InvHolds, PTL

(* Exactly the peer named in catch_up_peer is in state CatchingUp, whatever
   the other thread does between the two locks of check_peer_states. *)
THEOREM OneCatchUpPeerHolds == Spec => []OneCatchUpPeer
<1>1. Inv => OneCatchUpPeer
  BY Zenon DEF Inv, ListOK, OneCatchUpPeer
<1> QED BY <1>1, InvHolds, PTL

(* If no two time stamps are taken in one millisecond, every connection is in
   the peer list when the loop looks for a peer to catch up with. *)
THEOREM ListFollowsConnectionsHolds ==
    ASSUME ClockMoves
    PROVE  Spec => []ListFollowsConnections
<1>1. Inv => ListFollowsConnections
  BY Zenon DEF Inv, ListFollowsConnections
<1> QED BY <1>1, InvHolds, PTL
=============================================================================
