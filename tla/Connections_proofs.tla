------------------------ MODULE Connections_proofs ------------------------
(***************************************************************************)
(* What the operations on the connections and on the peer list keep, for   *)
(* any tokens, addresses, limits and lengths of queues: the lemmas the     *)
(* proofs about PollLoop rest on.                                          *)
(***************************************************************************)
EXTENDS Connections, FoldTheorems

(* A change in the queue of ConnChange, and a net with a field of its type
   each. *)
Change ==
    [kind : {"NewConn", "NewPeers"}, addr : Addresses]
        \cup [kind : {"Promotion", "Expulsion", "Removal"}, token : Tokens]
        \cup [kind : {"RemoveAll"}, tokens : SUBSET Tokens]

NetType ==
    [opened : SUBSET Tokens, candidates : SUBSET Tokens, handshaken : SUBSET Tokens,
     connections : SUBSET Tokens, changes : Seq(Change), soft_bans : SUBSET Addresses,
     given : SUBSET Addresses, persisted : SUBSET Addresses, bumped : BOOLEAN, recent : BOOLEAN,
     bans : SUBSET Addresses, fresh : SUBSET Addresses, slipped : SUBSET Tokens]

Live(n) == n.candidates \cup n.connections

(* What holds of the connections between any two operations: besides the
   types, OneConnectionPerNode and ConnectedArePersisted, that only a token
   that has been through its handshake waits for its promotion. *)
NetOK(n) ==
    /\ n \in NetType
    /\ Live(n) \subseteq n.opened /\ n.handshaken \subseteq n.opened /\ n.slipped \subseteq n.opened
    /\ n.candidates \cap n.connections = {} /\ n.connections \subseteq n.handshaken
    /\ n.fresh \subseteq n.bans /\ Len(n.changes) <= HardLimit
    /\ \A t, u \in n.connections : Addr[t] = Addr[u] => t = u
    /\ \A t \in n.connections : Addr[t] \in n.persisted
    /\ \A i \in 1..Len(n.changes) : n.changes[i].kind = "Promotion" =>
          /\ n.changes[i].token \in n.opened
          /\ n.changes[i].token \in n.candidates => n.changes[i].token \in n.handshaken

(* What an operation of the poll loop makes of the connections: bans and
   changes stay, a new token of a banned address counts as slipped, and the
   time stamp moves with the connections if the clock does. *)
Evolves(n, m) ==
    /\ NetOK(m)
    /\ m.bans = n.bans /\ m.fresh = n.fresh /\ m.changes = n.changes
    /\ n.opened \subseteq m.opened /\ n.slipped \subseteq m.slipped
    /\ \A t \in Live(m) \ Live(n) : Addr[t] \in n.bans => t \in m.slipped
    /\ ClockMoves /\ ~n.recent =>
          /\ ~m.recent /\ (n.bumped => m.bumped)
          /\ m.connections # n.connections => m.bumped

(* One operation after the other. *)
LEMMA EvolvesTwice ==
    ASSUME NEW n, NEW m, NEW k, Evolves(n, m), Evolves(m, k)
    PROVE  Evolves(n, k)
  BY DEF Evolves

(* Nothing happens. *)
LEMMA EvolvesNot ==
    ASSUME NEW n, NetOK(n)
    PROVE  Evolves(n, n)
  BY DEF Evolves

(* bump_last_peer_update touches the stamp only. *)
LEMMA BumpedStamp ==
    ASSUME NEW n \in NetType
    PROVE  LET m == bump_last_peer_update(n)
           IN  /\ m \in NetType
               /\ m = [n EXCEPT !.bumped = m.bumped, !.recent = m.recent]
               /\ ClockMoves /\ ~n.recent => m.bumped /\ ~m.recent
<1>1. ClockMoves \in BOOLEAN
  BY TokensAssumption
<1> QED BY Zenon, <1>1 DEF bump_last_peer_update, NetType

(* Connections are closed, some of them promoted ones; the records of those
   that stay are kept. *)
Closed(n, C, D, P, G, B) ==
    [n EXCEPT !.candidates = @ \ C, !.connections = @ \ D, !.persisted = P, !.given = G, !.soft_bans = B]

(* Closing connections keeps the network sound, if the peers that stay are persisted. *)
LEMMA ClosedOK ==
    ASSUME NEW n, NetOK(n), NEW C, NEW D,
           NEW P \in SUBSET Addresses, NEW G \in SUBSET Addresses, NEW B \in SUBSET Addresses,
           \A t \in n.connections \ D : Addr[t] \in P
    PROVE  /\ NetOK(Closed(n, C, D, P, G, B))
           /\ n.connections \cap D = {} => Evolves(n, Closed(n, C, D, P, G, B))
           /\ Evolves(n, bump_last_peer_update(Closed(n, C, D, P, G, B)))
<1> DEFINE m == Closed(n, C, D, P, G, B)
           k == bump_last_peer_update(m)
<1>1. n \in NetType
  BY DEF NetOK
<1>2. m \in NetType
  BY Zenon, <1>1 DEF Closed, NetType
<1>3. /\ m.candidates = n.candidates \ C /\ m.connections = n.connections \ D
      /\ m.persisted = P /\ m.given = G /\ m.soft_bans = B
      /\ m.opened = n.opened /\ m.handshaken = n.handshaken /\ m.changes = n.changes
      /\ m.bumped = n.bumped /\ m.recent = n.recent /\ m.bans = n.bans /\ m.fresh = n.fresh
      /\ m.slipped = n.slipped
  BY <1>1 DEF Closed, NetType
<1> HIDE DEF m
<1>4. NetOK(m)
  BY <1>2, <1>3 DEF NetOK, Live
<1>5. n.connections \cap D = {} => Evolves(n, m)
  BY <1>3, <1>4 DEF Evolves, Live
<1>6. /\ k \in NetType
      /\ k = [m EXCEPT !.bumped = k.bumped, !.recent = k.recent]
      /\ ClockMoves /\ ~m.recent => k.bumped /\ ~k.recent
  BY Zenon, <1>2, BumpedStamp
<1> HIDE DEF k
<1>7. /\ k.candidates = m.candidates /\ k.connections = m.connections
      /\ k.persisted = m.persisted /\ k.opened = m.opened /\ k.handshaken = m.handshaken
      /\ k.changes = m.changes /\ k.bans = m.bans /\ k.fresh = m.fresh /\ k.slipped = m.slipped
  BY Zenon, <1>2, <1>6 DEF NetType
<1>8. NetOK(k)
  BY <1>4, <1>6, <1>7 DEF NetOK, Live
<1>9. Evolves(n, k)
  BY <1>3, <1>6, <1>7, <1>8 DEF Evolves, Live
<1> QED BY <1>4, <1>5, <1>9 DEF m, k

(* remove_connection with the record of the connection, if it was promoted. *)
LEMMA DropOK ==
    ASSUME NEW n, NetOK(n), NEW t \in Tokens
    PROVE  Evolves(n, drop(n, t))
<1>1. n \in NetType /\ Addr[t] \in Addresses
  BY TokensAssumption DEF NetOK
<1>2. CASE t \in n.connections
  <2> DEFINE c == Closed(n, {}, {t}, n.persisted, n.given, n.soft_bans)
             m == bump_last_peer_update(c)
             P == m.persisted \ {Addr[t]}
             d == Closed(m, {}, {}, P, m.given, m.soft_bans)
  <2>1. c = [n EXCEPT !.connections = @ \ {t}] /\ c \in NetType
    BY Zenon, <1>1 DEF NetType, Closed
  <2>2. c.connections = n.connections \ {t}
    BY <1>1, <2>1 DEF NetType
  <2>3. remove_connection(n, t) = m
    <3>1. t \notin n.candidates
      BY <1>2 DEF NetOK
    <3> HIDE DEF c
    <3> QED BY <1>2, <2>1, <3>1 DEF remove_connection
  <2>4. Evolves(n, m)
    <3>1. /\ n.persisted \in SUBSET Addresses /\ n.given \in SUBSET Addresses /\ n.soft_bans \in SUBSET Addresses
          /\ \A u \in n.connections \ {t} : Addr[u] \in n.persisted
      BY <1>1 DEF NetType, NetOK
    <3> QED BY <3>1, ClosedOK
  <2> HIDE DEF c
  <2>5. m = [c EXCEPT !.bumped = m.bumped, !.recent = m.recent]
    BY Zenon, <2>1, BumpedStamp
  <2> HIDE DEF m
  <2>6. NetOK(m) /\ m \in NetType /\ m.connections = n.connections \ {t}
    BY Zenon, <2>1, <2>2, <2>4, <2>5 DEF Evolves, NetOK, NetType
  <2>7. \A u \in m.connections \ {} : Addr[u] \in P
    BY <1>2, <2>6 DEF NetOK
  <2>8. P \in SUBSET Addresses /\ m.given \in SUBSET Addresses /\ m.soft_bans \in SUBSET Addresses
    BY <2>6 DEF NetType
  <2>9. drop(n, t) = d
    <3>1. drop(n, t) = remove_persisted_peer(m, Addr[t])
      BY <1>2, <2>3 DEF drop
    <3>2. d = [m EXCEPT !.persisted = @ \ {Addr[t]}]
      BY Zenon, <2>6 DEF Closed, NetType
    <3> QED BY <3>1, <3>2 DEF remove_persisted_peer
  <2> HIDE DEF P
  <2>10. Evolves(m, d)
    BY <2>6, <2>7, <2>8, ClosedOK
  <2> QED BY <2>4, <2>9, <2>10, EvolvesTwice
<1>3. CASE t \in n.candidates
  <2>1. drop(n, t) = Closed(n, {t}, {}, n.persisted, n.given, n.soft_bans)
    BY Zenon, <1>1, <1>3 DEF drop, remove_connection, NetType, Closed, NetOK
  <2>2. /\ n.persisted \in SUBSET Addresses /\ n.given \in SUBSET Addresses /\ n.soft_bans \in SUBSET Addresses
        /\ \A u \in n.connections \ {} : Addr[u] \in n.persisted
    BY <1>1 DEF NetType, NetOK
  <2> QED BY <2>1, <2>2, ClosedOK
<1>4. CASE t \notin Live(n)
  BY <1>4, EvolvesNot DEF drop, remove_connection, Live
<1> QED BY <1>2, <1>3, <1>4 DEF Live

(* remove_connections: no token in S is left. *)
LEMMA DropAllOK ==
    ASSUME NEW n, NetOK(n), NEW S \in SUBSET Tokens
    PROVE  Evolves(n, dropAll(n, S)) /\ Live(dropAll(n, S)) \cap S = {}
<1> DEFINE gone == n.connections \cap S
           P == n.persisted \ {Addr[t] : t \in gone}
           d == Closed(n, S, S, P, n.given, n.soft_bans)
<1>1. n \in NetType
  BY DEF NetOK
<1>2. d = [n EXCEPT !.candidates = @ \ S, !.connections = @ \ S, !.persisted = @ \ {Addr[t] : t \in gone}]
  BY Zenon, <1>1 DEF Closed, NetType
<1>3. dropAll(n, S) = IF gone = {} THEN d ELSE bump_last_peer_update(d)
  BY <1>2 DEF dropAll
<1>4. \A u \in n.connections \ S : Addr[u] \in P
  BY DEF NetOK
<1>5. P \in SUBSET Addresses /\ n.given \in SUBSET Addresses /\ n.soft_bans \in SUBSET Addresses
  BY <1>1 DEF NetType
<1>6. Evolves(n, dropAll(n, S))
  <2> HIDE DEF d, P, gone
  <2>1. Evolves(n, bump_last_peer_update(d))
    BY <1>4, <1>5, ClosedOK DEF d
  <2>2. gone = {} => Evolves(n, d)
    BY <1>4, <1>5, ClosedOK DEF d, gone
  <2> QED BY <1>3, <2>1, <2>2
<1>7. d \in NetType /\ d.candidates = n.candidates \ S /\ d.connections = n.connections \ S
  BY Zenon, <1>1, <1>5 DEF Closed, NetType
<1>8. dropAll(n, S).candidates = n.candidates \ S /\ dropAll(n, S).connections = n.connections \ S
  <2> DEFINE k == bump_last_peer_update(d)
  <2> HIDE DEF d, P, gone
  <2>1. k \in NetType /\ k = [d EXCEPT !.bumped = k.bumped, !.recent = k.recent]
    BY Zenon, <1>7, BumpedStamp
  <2> HIDE DEF k
  <2>2. k.candidates = d.candidates /\ k.connections = d.connections
    BY Zenon, <1>7, <2>1 DEF NetType
  <2> QED BY <1>3, <1>7, <2>2 DEF k
<1> QED BY <1>6, <1>8 DEF Live

(* expel: the address is soft-banned for a while. *)
LEMMA ExpelOK ==
    ASSUME NEW n, NetOK(n), NEW t \in Tokens
    PROVE  Evolves(n, expel(n, t))
<1>1. CASE t \in Live(n)
  <2> DEFINE d == drop(n, t)
             B == d.soft_bans \cup {Addr[t]}
             e == Closed(d, {}, {}, d.persisted, d.given, B)
  <2>1. Evolves(n, d)
    BY DropOK
  <2> HIDE DEF d
  <2>2. d \in NetType /\ NetOK(d) /\ Addr[t] \in Addresses
    BY <2>1, TokensAssumption DEF Evolves, NetOK
  <2>3. e = [d EXCEPT !.soft_bans = @ \cup {Addr[t]}]
    BY Zenon, <2>2 DEF Closed, NetType
  <2>4. /\ d.persisted \in SUBSET Addresses /\ d.given \in SUBSET Addresses /\ B \in SUBSET Addresses
        /\ \A u \in d.connections \ {} : Addr[u] \in d.persisted
    BY <2>2 DEF NetType, NetOK
  <2> HIDE DEF B
  <2>5. Evolves(d, e)
    BY <2>2, <2>4, ClosedOK
  <2>6. expel(n, t) = e
    BY <1>1, <2>3 DEF expel, Live, d
  <2> QED BY <2>1, <2>5, <2>6, EvolvesTwice
<1>2. CASE t \notin Live(n)
  BY <1>2, EvolvesNot DEF expel, Live
<1> QED BY <1>1, <1>2

(* promote: a token that is through its handshake, whose node has no other
   promoted connection. *)
LEMMA PromoteOK ==
    ASSUME NEW n, NetOK(n), NEW t \in Tokens, t \in n.candidates => t \in n.handshaken
    PROVE  Evolves(n, promote(n, t))
<1>1. n \in NetType /\ Addr[t] \in Addresses
  BY TokensAssumption DEF NetOK
<1>2. CASE t \notin n.candidates
  BY <1>2, EvolvesNot DEF promote
<1>3. CASE t \in n.candidates /\ Addr[t] \in recognised(n, n.connections)
  <2>1. promote(n, t) = Closed(n, {t}, {}, n.persisted, n.given, n.soft_bans)
    BY Zenon, <1>1, <1>3 DEF promote, NetType, Closed
  <2>2. /\ n.persisted \in SUBSET Addresses /\ n.given \in SUBSET Addresses /\ n.soft_bans \in SUBSET Addresses
        /\ \A u \in n.connections \ {} : Addr[u] \in n.persisted
    BY <1>1 DEF NetType, NetOK
  <2> QED BY <2>1, <2>2, ClosedOK
<1>4. CASE t \in n.candidates /\ Addr[t] \notin recognised(n, n.connections)
  <2> DEFINE p == [n EXCEPT !.candidates = @ \ {t}, !.connections = @ \cup {t}]
             b == bump_last_peer_update(p)
             k == [b EXCEPT !.persisted = @ \cup {Addr[t]}]
  <2>1. promote(n, t) = k
    BY <1>4 DEF promote, persist_peer
  <2>2. p \in NetType
    BY Zenon, <1>1 DEF NetType
  <2>3. /\ p.candidates = n.candidates \ {t} /\ p.connections = n.connections \cup {t}
        /\ p.opened = n.opened /\ p.handshaken = n.handshaken /\ p.changes = n.changes
        /\ p.persisted = n.persisted /\ p.bumped = n.bumped /\ p.recent = n.recent /\ p.bans = n.bans
        /\ p.fresh = n.fresh /\ p.slipped = n.slipped
    BY <1>1 DEF NetType
  <2> HIDE DEF p
  <2>4. /\ b \in NetType
        /\ b = [p EXCEPT !.bumped = b.bumped, !.recent = b.recent]
        /\ ClockMoves /\ ~p.recent => b.bumped /\ ~b.recent
    BY Zenon, <2>2, BumpedStamp
  <2> HIDE DEF b
  <2>5. k \in NetType
    BY Zenon, <1>1, <2>4 DEF NetType
  <2>6. /\ k.candidates = p.candidates /\ k.connections = p.connections
        /\ k.persisted = p.persisted \cup {Addr[t]} /\ k.opened = p.opened /\ k.handshaken = p.handshaken
        /\ k.changes = p.changes /\ k.bans = p.bans /\ k.fresh = p.fresh /\ k.slipped = p.slipped
        /\ k.bumped = b.bumped /\ k.recent = b.recent
    BY Zenon, <2>2, <2>4 DEF NetType
  <2> HIDE DEF k
  <2>7. \A u \in n.connections : Addr[u] # Addr[t]
    BY <1>4 DEF NetOK, recognised
  <2>8. NetOK(k)
    <3>1. \A u, v \in k.connections : Addr[u] = Addr[v] => u = v
      BY <2>3, <2>6, <2>7 DEF NetOK
    <3>2. \A u \in k.connections : Addr[u] \in k.persisted
      BY <2>3, <2>6 DEF NetOK
    <3>3. \A i \in 1..Len(k.changes) : k.changes[i].kind = "Promotion" =>
              /\ k.changes[i].token \in k.opened
              /\ k.changes[i].token \in k.candidates => k.changes[i].token \in k.handshaken
      BY <2>3, <2>6 DEF NetOK
    <3>4. /\ Live(k) \subseteq k.opened /\ k.handshaken \subseteq k.opened /\ k.slipped \subseteq k.opened
          /\ k.candidates \cap k.connections = {} /\ k.connections \subseteq k.handshaken
          /\ k.fresh \subseteq k.bans /\ Len(k.changes) <= HardLimit
      BY <1>4, <2>3, <2>6 DEF NetOK, Live
    <3> QED BY <2>5, <3>1, <3>2, <3>3, <3>4 DEF NetOK
  <2>9. Evolves(n, k)
    BY <1>4, <2>3, <2>4, <2>6, <2>8 DEF Evolves, Live
  <2> QED BY <2>1, <2>9
<1> QED BY <1>2, <1>3, <1>4
-----------------------------------------------------------------------------
(* New tokens are opened; is_banned has been asked about their addresses. *)
LEMMA OpenOK ==
    ASSUME NEW n, NetOK(n), NEW T \in SUBSET (Tokens \ n.opened), \A t \in T : ~is_banned(n, Addr[t])
    PROVE  Evolves(n, open(n, T))
<1> DEFINE m == open(n, T)
<1>1. n \in NetType
  BY DEF NetOK
<1>2. m \in NetType
  BY Zenon, <1>1 DEF open, NetType
<1>3. /\ m.opened = n.opened \cup T /\ m.candidates = n.candidates \cup T
      /\ m.slipped = n.slipped \cup {t \in T : Addr[t] \in n.fresh}
      /\ m.connections = n.connections /\ m.handshaken = n.handshaken /\ m.changes = n.changes
      /\ m.persisted = n.persisted /\ m.bumped = n.bumped /\ m.recent = n.recent /\ m.bans = n.bans
      /\ m.fresh = n.fresh
  BY <1>1 DEF open, NetType
<1> HIDE DEF m
<1>4. NetOK(m)
  <2>1. \A i \in 1..Len(m.changes) : m.changes[i].kind = "Promotion" =>
            /\ m.changes[i].token \in m.opened
            /\ m.changes[i].token \in m.candidates => m.changes[i].token \in m.handshaken
    BY <1>3 DEF NetOK
  <2>2. /\ Live(m) \subseteq m.opened /\ m.handshaken \subseteq m.opened /\ m.slipped \subseteq m.opened
        /\ m.candidates \cap m.connections = {} /\ m.connections \subseteq m.handshaken
        /\ m.fresh \subseteq m.bans /\ Len(m.changes) <= HardLimit
    BY <1>3 DEF NetOK, Live
  <2>3. /\ \A t, u \in m.connections : Addr[t] = Addr[u] => t = u
        /\ \A t \in m.connections : Addr[t] \in m.persisted
    BY <1>3 DEF NetOK
  <2> QED BY <1>2, <2>1, <2>2, <2>3 DEF NetOK
<1>5. Evolves(n, m)
  BY <1>3, <1>4 DEF Evolves, Live, is_banned
<1> QED BY <1>5 DEF m

(* connect, to one address or to several. *)
LEMMA ConnectAllOK ==
    ASSUME NEW n, NetOK(n), NEW S, NEW r, NEW m \in connectAll(n, S, r)
    PROVE  Evolves(n, m)
<1>1. PICK T \in SUBSET connectable(n, S, r) : m = open(n, T)
  BY DEF connectAll
<1>2. T \in SUBSET (Tokens \ n.opened) /\ \A t \in T : ~is_banned(n, Addr[t])
  BY DEF connectable
<1> QED BY <1>1, <1>2, OpenOK

(* connection_housekeeping. *)
LEMMA HousekeepingOK ==
    ASSUME NEW n, NetOK(n), NEW old, NEW faulty, NEW expired,
           NEW m \in connection_housekeeping(n, old, faulty, expired)
    PROVE  Evolves(n, m)
<1> DEFINE kept == [n EXCEPT !.candidates = @ \ old, !.connections = @ \ faulty, !.soft_bans = @ \ expired]
           r == retain(n, old, faulty, expired)
<1>1. n \in NetType
  BY DEF NetOK
<1>2. Evolves(n, r)
  <2> DEFINE c == Closed(n, old, faulty, n.persisted, n.given, n.soft_bans \ expired)
  <2>1. kept = c
    BY Zenon, <1>1 DEF Closed, NetType
  <2>2. r = IF faulty = {} THEN kept ELSE bump_last_peer_update(kept)
    BY DEF retain
  <2>3. /\ n.persisted \in SUBSET Addresses /\ n.given \in SUBSET Addresses
        /\ n.soft_bans \ expired \in SUBSET Addresses
        /\ \A u \in n.connections \ faulty : Addr[u] \in n.persisted
    BY <1>1 DEF NetType, NetOK
  <2>4. /\ Evolves(n, bump_last_peer_update(c))
        /\ n.connections \cap faulty = {} => Evolves(n, c)
    BY <2>3, ClosedOK
  <2> HIDE DEF c, kept, r
  <2> QED BY <2>1, <2>2, <2>4
<1> HIDE DEF r
<1>3. PICK d \in dropSurplus(r) : m \in connectAll(d, unconnected_given_addresses(d), FALSE)
  BY Zenon DEF connection_housekeeping, r
<1>4. Evolves(r, d)
  <2>1. NetOK(r) /\ r \in NetType
    BY Zenon, <1>2 DEF Evolves, NetOK
  <2>2. CASE d = r
    BY <2>1, <2>2, EvolvesNot
  <2>3. CASE d # r
    <3>1. PICK S : d = bump_last_peer_update([r EXCEPT !.connections = @ \ S])
      BY Zenon, <1>3, <2>3 DEF dropSurplus
    <3> DEFINE c == Closed(r, {}, S, r.persisted, r.given, r.soft_bans)
    <3>2. c = [r EXCEPT !.connections = @ \ S]
      BY Zenon, <2>1 DEF Closed, NetType
    <3>3. /\ r.persisted \in SUBSET Addresses /\ r.given \in SUBSET Addresses
          /\ r.soft_bans \in SUBSET Addresses /\ \A u \in r.connections \ S : Addr[u] \in r.persisted
      BY Zenon, <2>1 DEF NetType, NetOK
    <3>4. Evolves(r, bump_last_peer_update(c))
      BY <2>1, <3>3, ClosedOK
    <3> HIDE DEF c
    <3> QED BY <3>1, <3>2, <3>4
  <2> QED BY <2>2, <2>3
<1>5. Evolves(d, m)
  BY Zenon, <1>3, <1>4, ConnectAllOK DEF Evolves
<1> QED BY <1>2, <1>4, <1>5, EvolvesTwice

(* process_conn_change. *)
LEMMA ProcessOK ==
    ASSUME NEW n, NetOK(n), NEW change \in Change, NEW m \in process_conn_change(n, change),
           change.kind = "Promotion" /\ change.token \in n.candidates => change.token \in n.handshaken
    PROVE  /\ Evolves(n, m)
           /\ change.kind = "RemoveAll" => Live(m) \cap change.tokens = {}
<1>1. CASE change.kind = "NewConn"
  <2>1. change.addr \in Addresses
    BY <1>1 DEF Change
  <2>2. PICK x \in connect(n, change.addr, FALSE) :
            m = IF x = n THEN x ELSE [x EXCEPT !.given = @ \cup {change.addr}]
    BY Zenon, <1>1 DEF process_conn_change
  <2>3. Evolves(n, x)
    BY Zenon, <2>2, ConnectAllOK DEF connect
  <2>4. CASE x = n
    BY <1>1, <2>2, <2>3, <2>4
  <2>5. CASE x # n
    <3> DEFINE G == x.given \cup {change.addr}
               c == Closed(x, {}, {}, x.persisted, G, x.soft_bans)
    <3>1. NetOK(x) /\ x \in NetType
      BY Zenon, <2>3 DEF Evolves, NetOK
    <3>2. m = c
      BY Zenon, <2>2, <2>5, <3>1 DEF Closed, NetType
    <3>3. /\ x.persisted \in SUBSET Addresses /\ G \in SUBSET Addresses /\ x.soft_bans \in SUBSET Addresses
          /\ \A u \in x.connections \ {} : Addr[u] \in x.persisted
      BY <2>1, <3>1 DEF NetType, NetOK
    <3> HIDE DEF G
    <3>4. Evolves(x, c)
      BY <3>1, <3>3, ClosedOK
    <3> QED BY <1>1, <2>3, <3>2, <3>4, EvolvesTwice
  <2> QED BY <2>4, <2>5
<1>2. CASE change.kind = "NewPeers"
  <2>1. m = n \/ m \in connect(n, change.addr, TRUE)
    BY Zenon, <1>2 DEF process_conn_change
  <2> QED BY Zenon, <1>2, <2>1, ConnectAllOK, EvolvesNot DEF connect
<1>3. CASE change.kind = "Promotion"
  <2>1. m = promote(n, change.token) /\ change.token \in Tokens
    BY <1>3 DEF process_conn_change, Change
  <2> QED BY <1>3, <2>1, PromoteOK
<1>4. CASE change.kind = "Expulsion"
  <2>1. m = expel(n, change.token) /\ change.token \in Tokens
    BY <1>4 DEF process_conn_change, Change
  <2> QED BY <1>4, <2>1, ExpelOK
<1>5. CASE change.kind = "Removal"
  <2>1. m = drop(n, change.token) /\ change.token \in Tokens
    BY <1>5 DEF process_conn_change, Change
  <2> QED BY <1>5, <2>1, DropOK
<1>6. CASE change.kind = "RemoveAll"
  <2>1. m = dropAll(n, change.tokens) /\ change.tokens \in SUBSET Tokens
    BY <1>6 DEF process_conn_change, Change
  <2> QED BY <1>6, <2>1, DropAllOK
<1> QED BY <1>1, <1>2, <1>3, <1>4, <1>5, <1>6 DEF Change

(* register_conn_change: of one more change or, at the limit, of none. *)
LEMMA RegisterOK ==
    ASSUME NEW n, NetOK(n), NEW change \in Change,
           change.kind = "Promotion" =>
               /\ change.token \in n.opened
               /\ change.token \in n.candidates => change.token \in n.handshaken
    PROVE  LET m == register_conn_change(n, change)
           IN  /\ NetOK(m) /\ m = [n EXCEPT !.changes = m.changes]
               /\ IF Len(n.changes) < HardLimit THEN m.changes = Append(n.changes, change) ELSE m = n
<1> DEFINE m == register_conn_change(n, change)
<1>1. n \in NetType /\ n.changes \in Seq(Change)
  BY DEF NetOK, NetType
<1>2. CASE Len(n.changes) < HardLimit
  <2>1. m = [n EXCEPT !.changes = Append(n.changes, change)]
    BY <1>2 DEF register_conn_change
  <2> HIDE DEF m
  <2>2. m \in NetType /\ m.changes = Append(n.changes, change) /\ m = [n EXCEPT !.changes = m.changes]
    <3>1. Append(n.changes, change) \in Seq(Change)
      BY <1>1
    <3>2. m.changes = Append(n.changes, change)
      BY <1>1, <2>1 DEF NetType
    <3>3. m \in NetType
      BY Zenon, <1>1, <2>1, <3>1 DEF NetType
    <3> QED BY <2>1, <3>2, <3>3
  <2>3. /\ m.opened = n.opened /\ m.candidates = n.candidates /\ m.connections = n.connections
        /\ m.handshaken = n.handshaken /\ m.persisted = n.persisted /\ m.bans = n.bans /\ m.fresh = n.fresh
        /\ m.slipped = n.slipped
    BY <1>1, <2>1 DEF NetType
  <2>4. \A i \in 1..Len(m.changes) : m.changes[i].kind = "Promotion" =>
            /\ m.changes[i].token \in m.opened
            /\ m.changes[i].token \in m.candidates => m.changes[i].token \in m.handshaken
    <3> SUFFICES ASSUME NEW i \in 1..Len(m.changes)
                 PROVE  m.changes[i].kind = "Promotion" =>
                            /\ m.changes[i].token \in n.opened
                            /\ m.changes[i].token \in n.candidates => m.changes[i].token \in n.handshaken
      BY <2>3
    <3>1. CASE i = Len(n.changes) + 1
      <4>1. m.changes[i] = change
        BY <1>1, <2>2, <3>1
      <4> QED BY <4>1
    <3>2. CASE i \in 1..Len(n.changes)
      <4>1. m.changes[i] = n.changes[i]
        BY <1>1, <2>2, <3>2
      <4> QED BY <3>2, <4>1 DEF NetOK
    <3> QED BY <1>1, <2>2, <3>1, <3>2
  <2>5. Len(m.changes) <= HardLimit
    BY <1>1, <1>2, <2>2, TokensAssumption
  <2>6. NetOK(m)
    BY <2>2, <2>3, <2>4, <2>5 DEF NetOK, Live
  <2> QED BY <1>2, <2>2, <2>6 DEF m
<1>3. CASE ~(Len(n.changes) < HardLimit)
  <2>1. m = n
    BY <1>3 DEF register_conn_change
  <2>2. n = [n EXCEPT !.changes = n.changes]
    BY <1>1 DEF NetType
  <2> QED BY <1>3, <2>1, <2>2
<1> QED BY <1>2, <1>3

(* The head of the queue is taken off. *)
LEMMA PopOK ==
    ASSUME NEW n, NetOK(n), n.changes # <<>>
    PROVE  LET m == [n EXCEPT !.changes = Tail(@)]
               change == Head(n.changes)
           IN  /\ NetOK(m) /\ change \in Change
               /\ change.kind = "Promotion" /\ change.token \in m.candidates => change.token \in m.handshaken
<1> DEFINE m == [n EXCEPT !.changes = Tail(@)]
           change == Head(n.changes)
<1>1. n \in NetType /\ n.changes \in Seq(Change)
  BY DEF NetOK, NetType
<1>2. /\ Tail(n.changes) \in Seq(Change) /\ Len(Tail(n.changes)) = Len(n.changes) - 1
      /\ change = n.changes[1] /\ change \in Change /\ 1 \in 1..Len(n.changes)
      /\ \A i \in 1..Len(Tail(n.changes)) : i + 1 \in 1..Len(n.changes) /\ Tail(n.changes)[i] = n.changes[i + 1]
  BY <1>1
<1>3. m \in NetType /\ m.changes = Tail(n.changes)
  BY Zenon, <1>1, <1>2 DEF NetType
<1>4. /\ m.opened = n.opened /\ m.candidates = n.candidates /\ m.connections = n.connections
      /\ m.handshaken = n.handshaken /\ m.persisted = n.persisted /\ m.bans = n.bans /\ m.fresh = n.fresh
      /\ m.slipped = n.slipped
  BY <1>1 DEF NetType
<1> HIDE DEF m, change
<1>5. \A i \in 1..Len(m.changes) : m.changes[i].kind = "Promotion" =>
          /\ m.changes[i].token \in m.opened
          /\ m.changes[i].token \in m.candidates => m.changes[i].token \in m.handshaken
  BY <1>2, <1>3, <1>4 DEF NetOK
<1>6. Len(m.changes) <= HardLimit
  BY <1>1, <1>2, <1>3, TokensAssumption DEF NetOK
<1>7. NetOK(m)
  BY <1>3, <1>4, <1>5, <1>6 DEF NetOK, Live
<1>8. change.kind = "Promotion" /\ change.token \in m.candidates => change.token \in m.handshaken
  BY <1>2, <1>4 DEF NetOK
<1> QED BY <1>2, <1>7, <1>8 DEF m, change

(* What is appended to a queue and taken from it. *)
LEMMA Queues ==
    ASSUME NEW S, NEW s \in Seq(S), NEW e \in S
    PROVE  /\ Append(s, e) \in Seq(S)
           /\ Range(Append(s, e)) = Range(s) \cup {e}
           /\ \A i \in DOMAIN Append(s, e) : Append(s, e)[i] = e \/ Append(s, e)[i] \in Range(s)
           /\ s # <<>> => /\ Head(s) \in S /\ Head(s) \in Range(s) /\ Tail(s) \in Seq(S)
                          /\ \A i \in DOMAIN Tail(s) : Tail(s)[i] \in Range(s)
<1>1. /\ Append(s, e) \in Seq(S) /\ DOMAIN Append(s, e) = 1 .. Len(s) + 1 /\ DOMAIN s = 1 .. Len(s) /\ Len(s) \in Nat
      /\ Append(s, e)[Len(s) + 1] = e /\ \A i \in DOMAIN s : Append(s, e)[i] = s[i]
  OBVIOUS
<1>2. \A i \in DOMAIN Append(s, e) : i = Len(s) + 1 \/ i \in DOMAIN s
  BY <1>1
<1>3. \A i \in DOMAIN Append(s, e) : Append(s, e)[i] = e \/ Append(s, e)[i] \in Range(s)
  BY <1>1, <1>2 DEF Range
<1>4. Range(s) \cup {e} \subseteq Range(Append(s, e))
  <2>1. \A i \in DOMAIN s : i \in DOMAIN Append(s, e)
    BY <1>1
  <2>2. Len(s) + 1 \in DOMAIN Append(s, e)
    BY <1>1
  <2> QED BY <1>1, <2>1, <2>2 DEF Range
<1>5. Range(Append(s, e)) \subseteq Range(s) \cup {e}
  BY <1>3 DEF Range
<1>6. ASSUME s # <<>>
      PROVE  /\ Head(s) \in S /\ Head(s) \in Range(s) /\ Tail(s) \in Seq(S)
             /\ \A i \in DOMAIN Tail(s) : Tail(s)[i] \in Range(s)
  <2>1. /\ Head(s) \in S /\ Head(s) = s[1] /\ 1 \in DOMAIN s /\ Tail(s) \in Seq(S)
        /\ DOMAIN Tail(s) = 1 .. Len(s) - 1 /\ \A i \in DOMAIN Tail(s) : Tail(s)[i] = s[i + 1]
    BY <1>6
  <2>2. \A i \in DOMAIN Tail(s) : i + 1 \in DOMAIN s
    BY <1>1, <2>1
  <2> QED BY <2>1, <2>2 DEF Range
<1> QED BY <1>1, <1>3, <1>4, <1>5, <1>6

(* The records that a node starts with have their types. *)
LEMMA EmptyTypes == emptyNet \in NetType
<1>1. Given \in SUBSET Addresses /\ <<>> \in Seq(Change) /\ FALSE \in BOOLEAN
  BY TokensAssumption
<1>2. {} \in SUBSET Tokens /\ {} \in SUBSET Addresses
  OBVIOUS
<1> QED BY <1>1, <1>2 DEF emptyNet, NetType

(* A start of the node, with the bans and the records of the one before. *)
LEMMA StartOK ==
    ASSUME NEW n \in NetType, NEW m \in start(n)
    PROVE  \E l \in NetType : Evolves(l, m) /\ Live(l) = {} /\ l.changes = <<>> /\ ~l.recent
<1> DEFINE Fresh(l) == /\ NetOK(l) /\ l \in NetType
                       /\ Live(l) = {} /\ l.connections = {} /\ l.changes = <<>> /\ ~l.recent /\ l.fresh = {}
<1>1. Fresh(loaded(n))
  <2> DEFINE l == loaded(n)
  <2>1. emptyNet \in NetType
    BY EmptyTypes
  <2>2. l \in NetType
    BY Zenon, <2>1 DEF loaded, NetType
  <2>3. /\ l.opened = {} /\ l.candidates = {} /\ l.connections = {} /\ l.handshaken = {}
        /\ l.changes = <<>> /\ l.slipped = {} /\ l.fresh = {} /\ l.recent = FALSE
    BY <2>1 DEF loaded, emptyNet, NetType
  <2> HIDE DEF l
  <2>4. Len(l.changes) = 0
    BY <2>3
  <2>5. NetOK(l)
    BY <2>2, <2>3, <2>4, TokensAssumption DEF NetOK, Live
  <2> QED BY <2>2, <2>3, <2>5 DEF Live, l
<1>2. ASSUME NEW l, Fresh(l) PROVE Fresh(clear_bans(l))
  <2> DEFINE k == clear_bans(l)
  <2>1. k \in NetType
    BY Zenon, <1>2 DEF clear_bans, NetType
  <2>2. /\ k.opened = l.opened /\ k.candidates = l.candidates /\ k.connections = l.connections
        /\ k.handshaken = l.handshaken /\ k.changes = l.changes /\ k.slipped = l.slipped /\ k.recent = l.recent
        /\ k.bans = {} /\ k.persisted = l.persisted
    BY <1>2 DEF clear_bans, NetType
  <2>3. k.fresh = l.fresh
    BY <1>2 DEF clear_bans, NetType
  <2> HIDE DEF k
  <2>4. NetOK(k)
    BY <1>2, <2>1, <2>2, <2>3 DEF NetOK, Live
  <2>5. Fresh(k)
    BY <1>2, <2>1, <2>2, <2>3, <2>4 DEF Live
  <2> QED BY <2>5 DEF k
<1>3. ASSUME NEW l, Fresh(l) PROVE Fresh(clear_persisted_peers(l))
  <2> DEFINE k == Closed(l, {}, {}, {}, l.given, l.soft_bans)
  <2>1. k = clear_persisted_peers(l)
    BY Zenon, <1>3 DEF clear_persisted_peers, Closed, NetType
  <2>2. /\ {} \in SUBSET Addresses /\ l.given \in SUBSET Addresses /\ l.soft_bans \in SUBSET Addresses
        /\ \A u \in l.connections \ {} : Addr[u] \in {}
    BY <1>3 DEF NetType
  <2>3. NetOK(k)
    BY <1>3, <2>2, ClosedOK
  <2>4. /\ k.connections = {} /\ k.candidates = {} /\ k.changes = l.changes /\ k.recent = l.recent
        /\ k.fresh = l.fresh
    BY <1>3 DEF Closed, NetType, Live
  <2> HIDE DEF k
  <2>5. Fresh(k)
    BY <1>3, <2>3, <2>4 DEF NetOK, Live
  <2> QED BY <2>1, <2>5
<1> HIDE DEF Fresh
<1>4. PICK l : Fresh(l) /\ m \in establish_connections(l)
  BY <1>1, <1>2, <1>3 DEF start
<1>5. PICK c \in connect_to_config_nodes(l) : m \in connect_to_stored_nodes(c)
  BY <1>4 DEF establish_connections
<1>6. Evolves(l, c)
  BY Zenon, <1>4, <1>5, ConnectAllOK DEF connect_to_config_nodes, Fresh
<1>7. Evolves(c, m)
  BY Zenon, <1>5, <1>6, ConnectAllOK DEF connect_to_stored_nodes, Evolves
<1>8. Evolves(l, m)
  BY <1>6, <1>7, EvolvesTwice
<1> QED BY <1>4, <1>8 DEF Fresh

(* What a change of the fields that no connection depends on leaves true. *)
LEMMA BansOK ==
    ASSUME NEW n, NetOK(n), NEW G \in SUBSET Addresses, NEW B \in SUBSET Addresses,
           NEW F \in SUBSET B, NEW L \in SUBSET n.opened
    PROVE  NetOK([n EXCEPT !.given = G, !.bans = B, !.fresh = F, !.slipped = L])
<1> DEFINE m == [n EXCEPT !.given = G, !.bans = B, !.fresh = F, !.slipped = L]
<1>1. n \in NetType
  BY Zenon DEF NetOK
<1>2. m \in NetType
  BY Zenon, <1>1 DEF NetType
<1>3. /\ m.opened = n.opened /\ m.candidates = n.candidates /\ m.connections = n.connections
      /\ m.handshaken = n.handshaken /\ m.changes = n.changes /\ m.persisted = n.persisted
      /\ m.bans = B /\ m.fresh = F /\ m.slipped = L
  BY <1>1 DEF NetType
<1> HIDE DEF m
<1>4. NetOK(m)
  BY <1>2, <1>3 DEF NetOK, Live
<1> QED BY <1>4 DEF m

(* drop_by_ip_and_ban: the connections that are found are on their way out or
   counted. *)
LEMMA DropByIpOK ==
    ASSUME NEW n, NetOK(n), NEW a \in Addresses
    PROVE  LET m == drop_by_ip(n, a)
               change == [kind |-> "RemoveAll", tokens |-> find_conn_tokens_by_ip(n, a)]
           IN  /\ NetOK(m) /\ m.bans = n.bans
               /\ m.candidates = n.candidates /\ m.connections = n.connections /\ m.opened = n.opened
               /\ m.bumped = n.bumped /\ m.recent = n.recent
               /\ m.slipped \in SUBSET n.opened
               /\ \A t \in n.slipped : Addr[t] # a => t \in m.slipped
               /\ \/ m.changes = Append(n.changes, change)
                  \/ m.changes = n.changes /\ find_conn_tokens_by_ip(n, a) \subseteq m.slipped
<1> DEFINE found == find_conn_tokens_by_ip(n, a)
           change == [kind |-> "RemoveAll", tokens |-> found]
           g == [n EXCEPT !.given = @ \ {a}]
           asked == register_conn_change(g, change)
           m == drop_by_ip(n, a)
<1>1. n \in NetType /\ n.changes \in Seq(Change)
  BY DEF NetOK, NetType
<1>2. found \in SUBSET n.opened /\ found \in SUBSET Tokens /\ \A t \in found : Addr[t] = a
  BY <1>1 DEF find_conn_tokens_by_ip, NetOK, Live, NetType
<1> HIDE DEF found
<1>3. change \in Change /\ change.kind # "Promotion"
  BY <1>2 DEF Change
<1>4. /\ g.given = n.given \ {a} /\ g.bans = n.bans /\ g.candidates = n.candidates
      /\ g.connections = n.connections /\ g.changes = n.changes /\ g.opened = n.opened
      /\ g.bumped = n.bumped /\ g.recent = n.recent /\ g.slipped = n.slipped
  BY <1>1 DEF NetType
<1>5. NetOK(g)
  <2>1. g = [n EXCEPT !.given = n.given \ {a}, !.bans = n.bans, !.fresh = n.fresh, !.slipped = n.slipped]
    BY Zenon, <1>1 DEF NetType
  <2>2. /\ n.given \ {a} \in SUBSET Addresses /\ n.bans \in SUBSET Addresses /\ n.fresh \in SUBSET n.bans
        /\ n.slipped \in SUBSET n.opened
    BY <1>1 DEF NetType, NetOK
  <2> HIDE DEF g
  <2> QED BY Zenon, <2>1, <2>2, BansOK
<1> HIDE DEF g, change
<1>6. /\ NetOK(asked) /\ asked = [g EXCEPT !.changes = asked.changes]
      /\ asked.changes = Append(n.changes, change) \/ asked.changes = n.changes
  BY <1>3, <1>4, <1>5, RegisterOK
<1>7. m = [asked EXCEPT !.slipped = IF asked.changes = n.changes THEN @ \cup found ELSE @ \ found]
  BY DEF drop_by_ip, found, change, g
<1> HIDE DEF asked, m
<1>8. /\ asked.bans = n.bans /\ asked.candidates = n.candidates
      /\ asked.connections = n.connections /\ asked.opened = n.opened
      /\ asked.bumped = n.bumped /\ asked.recent = n.recent /\ asked.slipped = n.slipped
  BY <1>4, <1>5, <1>6 DEF NetType, NetOK
<1> DEFINE L == IF asked.changes = n.changes THEN n.slipped \cup found ELSE n.slipped \ found
<1>9. asked \in NetType
  BY <1>6 DEF NetOK
<1>10. m = [asked EXCEPT !.slipped = L]
  BY <1>7, <1>8
<1>11. /\ m.bans = asked.bans /\ m.candidates = asked.candidates /\ m.connections = asked.connections
       /\ m.opened = asked.opened /\ m.bumped = asked.bumped /\ m.recent = asked.recent
       /\ m.slipped = L /\ m.changes = asked.changes
  BY <1>9, <1>10 DEF NetType
<1>12. L \in SUBSET n.opened
  BY <1>2 DEF NetOK
<1>13. NetOK(m)
  <2>1. m = [asked EXCEPT !.given = asked.given, !.bans = asked.bans, !.fresh = asked.fresh, !.slipped = L]
    BY Zenon, <1>9, <1>10 DEF NetType
  <2>2. /\ asked.given \in SUBSET Addresses /\ asked.bans \in SUBSET Addresses
        /\ asked.fresh \in SUBSET asked.bans /\ L \in SUBSET asked.opened
    BY <1>6, <1>8, <1>9, <1>12 DEF NetType, NetOK
  <2> HIDE DEF L
  <2> QED BY Zenon, <1>6, <2>1, <2>2, BansOK
<1>14. \A t \in n.slipped : Addr[t] # a => t \in L
  BY <1>2
<1>15. asked.changes = n.changes => found \subseteq L
  OBVIOUS
<1> QED BY <1>6, <1>8, <1>11, <1>12, <1>13, <1>14, <1>15 DEF m, change, found
-----------------------------------------------------------------------------
ListType ==
    [states : [Tokens -> PeerStatus \cup {"absent"}], queue : Seq(Tokens), peer : Tokens \cup {None}]

(* What holds of the peer list whenever its lock is free. *)
ListOK(l) ==
    /\ l \in ListType
    /\ \A t \in Tokens : l.states[t] = "CatchingUp" <=> l.peer = t

(* The equation of the fold in retained. *)
RetainedEquation(it, queue, ids) ==
    it = [s \in SUBSET DOMAIN queue |->
            IF s = {} THEN <<>>
            ELSE IF queue[Max(s)] \in ids THEN Append(it[s \ {Max(s)}], queue[Max(s)])
                 ELSE it[s \ {Max(s)}]]

(* What is retained of a queue of tokens is a queue of tokens. *)
LEMMA RetainedType ==
    ASSUME NEW queue \in Seq(Tokens), NEW ids
    PROVE  retained(queue, ids) \in Seq(Tokens)
<1> DEFINE D == DOMAIN queue
           F == CHOOSE it : RetainedEquation(it, queue, ids)
<1>1. retained(queue, ids) = F[D]
  BY DEF retained, FoldLeft, MapThenFoldSet, RetainedEquation
<1>2. D = 1..Len(queue) /\ IsFiniteSet(D) /\ D \subseteq Int /\ \A i \in D : queue[i] \in Tokens
  BY FS_Interval
<1> HIDE DEF D
<1>3. \A s \in SUBSET D : s # {} => Max(s) \in s
  <2> SUFFICES ASSUME NEW s \in SUBSET D, s # {} PROVE Max(s) \in s
    OBVIOUS
  <2>1. IsFiniteSet(s) /\ s \subseteq Int
    BY Zenon, <1>2, FS_Subset
  <2> QED BY Zenon, <2>1, MaxElement
<1>4. \E it : RetainedEquation(it, queue, ids)
  <2> DEFINE C == [s \in SUBSET D |-> Max(s)]
             G == [i \in D |-> [q \in Seq(Tokens) |-> IF queue[i] \in ids THEN Append(q, queue[i]) ELSE q]]
  <2>1. Chooses(C, D)
    BY <1>3 DEF Chooses
  <2>2. G \in [D -> [Seq(Tokens) -> Seq(Tokens)]]
    BY <1>2
  <2>3. <<>> \in Seq(Tokens)
    OBVIOUS
  <2> HIDE DEF C, G
  <2>4. PICK it \in [SUBSET D -> Seq(Tokens)] : FoldEquation(it, D, <<>>, C, G)
    BY Zenon, <1>2, <2>1, <2>2, <2>3, FoldDefined
  <2>5. \A s \in SUBSET D :
            it[s] = IF s = {} THEN <<>>
                    ELSE IF queue[Max(s)] \in ids THEN Append(it[s \ {Max(s)}], queue[Max(s)])
                         ELSE it[s \ {Max(s)}]
    <3> SUFFICES ASSUME NEW s \in SUBSET D
                 PROVE  it[s] = IF s = {} THEN <<>>
                                ELSE IF queue[Max(s)] \in ids THEN Append(it[s \ {Max(s)}], queue[Max(s)])
                                     ELSE it[s \ {Max(s)}]
      BY Zenon
    <3>1. it[s] = IF s = {} THEN <<>> ELSE G[C[s]][it[s \ {C[s]}]]
      BY Zenon, <2>4 DEF FoldEquation
    <3>2. C[s] = Max(s)
      BY DEF C
    <3>3. it[s \ {Max(s)}] \in Seq(Tokens)
      BY <2>4
    <3>4. s # {} => Max(s) \in D
      BY <1>3
    <3>5. \A i \in D, q \in Seq(Tokens) : G[i][q] = IF queue[i] \in ids THEN Append(q, queue[i]) ELSE q
      BY DEF G
    <3> QED BY <3>1, <3>2, <3>3, <3>4, <3>5
  <2>6. it = [s \in SUBSET D |-> it[s]]
    OBVIOUS
  <2>7. RetainedEquation(it, queue, ids)
    BY Zenon, <2>5, <2>6 DEF RetainedEquation, D
  <2> QED BY <2>7
<1>5. RetainedEquation(F, queue, ids)
  BY <1>4
<1> HIDE DEF F
<1> DEFINE N == {n \in Nat : \A s \in SUBSET D : Cardinality(s) = n => F[s] \in Seq(Tokens)}
<1>6. \A s \in SUBSET D : IsFiniteSet(s) /\ Cardinality(s) \in Nat
  BY Zenon, <1>2, FS_Subset, FS_CardinalityType
<1>7. \A s \in SUBSET D :
        F[s] = IF s = {} THEN <<>>
               ELSE IF queue[Max(s)] \in ids THEN Append(F[s \ {Max(s)}], queue[Max(s)])
                    ELSE F[s \ {Max(s)}]
  BY Zenon, <1>5 DEF RetainedEquation, D
<1>8. 0 \in N
  <2>1. \A s \in SUBSET D : Cardinality(s) = 0 => s = {}
    BY <1>6, FS_EmptySet
  <2>2. F[{}] = <<>>
    BY Zenon, <1>7
  <2>3. <<>> \in Seq(Tokens)
    OBVIOUS
  <2>4. \A s \in SUBSET D : Cardinality(s) = 0 => F[s] \in Seq(Tokens)
    BY Zenon, <2>1, <2>2, <2>3
  <2> QED BY <2>4
<1>9. ASSUME NEW n \in N PROVE n + 1 \in N
  <2> SUFFICES ASSUME NEW s \in SUBSET D, Cardinality(s) = n + 1 PROVE F[s] \in Seq(Tokens)
    OBVIOUS
  <2>1. s # {}
    <3>1. n \in Nat
      OBVIOUS
    <3>2. Cardinality({}) = 0
      BY FS_EmptySet
    <3> HIDE DEF N
    <3> SUFFICES ASSUME s = {} PROVE FALSE
      OBVIOUS
    <3>3. Cardinality(s) = 0
      BY <3>2
    <3> QED BY <3>1, <3>3
  <2>2. Max(s) \in s
    BY <1>3, <2>1
  <2>3. \A x \in s : Cardinality(s \ {x}) = Cardinality(s) - 1
    BY <1>6, FS_RemoveElement
  <2>4. Cardinality(s \ {Max(s)}) = n
    BY <2>2, <2>3
  <2>5. F[s \ {Max(s)}] \in Seq(Tokens) /\ queue[Max(s)] \in Tokens
    BY Zenon, <1>2, <2>2, <2>4
  <2>6. Append(F[s \ {Max(s)}], queue[Max(s)]) \in Seq(Tokens)
    BY <2>5
  <2>7. F[s] = Append(F[s \ {Max(s)}], queue[Max(s)]) \/ F[s] = F[s \ {Max(s)}]
    BY Zenon, <1>7, <2>1
  <2> QED BY Zenon, <2>5, <2>6, <2>7
<1>10. N = Nat
  BY Zenon, <1>8, <1>9, NatSetInduction
<1>11. F[D] \in Seq(Tokens)
  BY <1>6, <1>10
<1> QED BY <1>1, <1>11

(* An order of a set of tokens is a sequence of tokens. *)
LEMMA OrderType ==
    ASSUME NEW S \in SUBSET Tokens, NEW order \in SetToSeqs(S)
    PROVE  order \in Seq(Tokens)
<1>1. Cardinality(S) \in Nat
  BY TokensAssumption, FS_Subset, FS_CardinalityType
<1>2. order \in [1..Cardinality(S) -> Tokens]
  BY DEF SetToSeqs
<1> QED BY <1>1, <1>2

(* update_peer_list: the list holds the connections, and nobody else. *)
LEMMA UpdateListOK ==
    ASSUME NEW l, ListOK(l), NEW ids \in SUBSET Tokens, NEW k \in update_peer_list(l, ids)
    PROVE  ListOK(k) /\ known(k) = ids
<1> DEFINE gone == known(l) \ ids
           new == ids \ known(l)
           kept == [l EXCEPT !.states = setStates(l, gone, "absent"),
                             !.queue = retained(@, ids),
                             !.peer = IF @ \in gone THEN None ELSE @]
<1>1. PICK order \in SetToSeqs(new) : k = [kept EXCEPT !.states = setStates(kept, new, "Pending"),
                                                       !.queue = @ \o order]
  BY Zenon DEF update_peer_list
<1>2. l \in ListType /\ order \in Seq(Tokens) /\ retained(l.queue, ids) \in Seq(Tokens)
  BY OrderType, RetainedType DEF ListOK, ListType
<1>3. /\ kept.states = [t \in Tokens |-> IF t \in gone THEN "absent" ELSE l.states[t]]
      /\ kept.queue = retained(l.queue, ids)
      /\ kept.peer = IF l.peer \in gone THEN None ELSE l.peer
      /\ kept \in ListType
  BY Zenon, <1>2 DEF ListType, setStates, PeerStatus
<1> HIDE DEF kept
<1>4. /\ k.states = [t \in Tokens |-> IF t \in new THEN "Pending" ELSE kept.states[t]]
      /\ k.queue = kept.queue \o order /\ k.peer = kept.peer
  BY Zenon, <1>1, <1>3 DEF ListType, setStates
<1>5. kept.queue \o order \in Seq(Tokens)
  BY <1>2, <1>3
<1>6. k \in ListType
  BY Zenon, <1>1, <1>3, <1>5 DEF ListType, setStates, PeerStatus
<1>7. \A t \in Tokens : k.states[t] = "CatchingUp" <=> k.peer = t
  BY <1>3, <1>4, TokensAssumption DEF ListOK, known
<1>8. known(k) = ids
  BY Zenon, <1>3, <1>4 DEF known
<1> QED BY <1>6, <1>7, <1>8 DEF ListOK

(* mark_all_pending. *)
LEMMA MarkOK ==
    ASSUME NEW l, ListOK(l), NEW k \in mark_all_pending(l)
    PROVE  ListOK(k) /\ known(k) = known(l) /\ k.peer = l.peer
<1> DEFINE idle == {t \in Tokens : l.states[t] = "UpToDate"}
<1>1. PICK order \in SetToSeqs(idle) : k = [l EXCEPT !.states = setStates(l, idle, "Pending"), !.queue = @ \o order]
  BY Zenon DEF mark_all_pending
<1>2. l \in ListType /\ order \in Seq(Tokens)
  BY OrderType DEF ListOK
<1>3. l.queue \o order \in Seq(Tokens)
  BY <1>2 DEF ListType
<1>4. /\ k.states = [t \in Tokens |-> IF t \in idle THEN "Pending" ELSE l.states[t]]
      /\ k.peer = l.peer
  BY <1>1, <1>2 DEF ListType, setStates
<1>5. k \in ListType
  BY Zenon, <1>1, <1>2, <1>3 DEF ListType, setStates, PeerStatus
<1> QED BY <1>4, <1>5 DEF ListOK, known

(* forget, of the peer that was caught up with or of one that no longer is. *)
LEMMA ForgetOK ==
    ASSUME NEW l, ListOK(l), NEW t \in Tokens, l.peer \in {None, t}
    PROVE  LET k == forget(l, t)
           IN  ListOK(k) /\ k.peer = None /\ known(k) = known(l) \ {t}
<1> DEFINE k == forget(l, t)
<1>1. l \in ListType
  BY DEF ListOK
<1>2. k \in ListType /\ k.peer = None /\ k.states = [l.states EXCEPT ![t] = "absent"]
  BY Zenon, <1>1 DEF forget, ListType, PeerStatus
<1> HIDE DEF k
<1>3. \A u \in Tokens : k.states[u] = "CatchingUp" <=> k.peer = u
  BY <1>1, <1>2, TokensAssumption DEF ListOK, ListType
<1>4. known(k) = known(l) \ {t}
  BY <1>1, <1>2 DEF known, ListType
<1> QED BY <1>2, <1>3, <1>4 DEF ListOK, k

(* next_pending, when nobody is caught up with. *)
LEMMA NextPendingOK ==
    ASSUME NEW l, ListOK(l), l.peer = None
    PROVE  ListOK(next_pending(l)) /\ known(next_pending(l)) = known(l)
<1> DEFINE I == {i \in 1..Len(l.queue) : l.states[l.queue[i]] = "Pending"}
           k == next_pending(l)
<1>1. l \in ListType /\ l.queue \in Seq(Tokens) /\ l.states \in [Tokens -> PeerStatus \cup {"absent"}]
  BY DEF ListOK, ListType
<1>2. CASE I = {}
  <2>1. k = [l EXCEPT !.queue = <<>>, !.peer = None]
    BY Zenon, <1>2 DEF next_pending, SelectInSeq
  <2> HIDE DEF k
  <2>2. k \in ListType /\ k.peer = None /\ k.states = l.states
    <3>1. <<>> \in Seq(Tokens)
      OBVIOUS
    <3> QED BY Zenon, <1>1, <2>1, <3>1 DEF ListType
  <2> QED BY <2>2 DEF ListOK, known, k
<1>3. CASE I # {}
  <2> DEFINE j == Min(I)
             t == l.queue[j]
  <2>1. j \in I
    <3>1. I \subseteq Nat
      OBVIOUS
    <3>2. \E x \in I : \A y \in I : x <= y
      BY Zenon, <1>3, <3>1, LeastElement
    <3> HIDE DEF I
    <3> QED BY <3>2 DEF Min
  <2> HIDE DEF j
  <2>2. j \in 1..Len(l.queue) /\ l.states[t] = "Pending"
    BY <2>1
  <2>3. t \in Tokens
    BY <1>1, <2>2
  <2> HIDE DEF I
  <2>4. k = [l EXCEPT !.queue = SubSeq(@, j + 1, Len(@)), !.peer = t, !.states[t] = "CatchingUp"]
    <3>1. j # 0
      BY <2>2
    <3> QED BY <1>3, <3>1 DEF next_pending, SelectInSeq, I, j
  <2>5. SubSeq(l.queue, j + 1, Len(l.queue)) \in Seq(Tokens)
    BY <1>1, <2>2
  <2> HIDE DEF t, k
  <2>6. k \in ListType /\ k.peer = t /\ k.states = [l.states EXCEPT ![t] = "CatchingUp"]
    BY Zenon, <1>1, <2>3, <2>4, <2>5 DEF ListType, PeerStatus
  <2>7. \A u \in Tokens : k.states[u] = "CatchingUp" <=> k.peer = u
    BY <1>1, <2>2, <2>3, <2>6, TokensAssumption DEF ListOK
  <2>8. known(k) = known(l)
    BY <1>1, <2>2, <2>3, <2>6 DEF known
  <2> QED BY <2>6, <2>7, <2>8 DEF ListOK, k
<1> QED BY <1>2, <1>3

(* try_catch_up: a connected peer stays in the list. *)
LEMMA TryCatchUpOK ==
    ASSUME NEW l, ListOK(l), l.peer = None, NEW connected
    PROVE  LET k == try_catch_up(l, connected)
           IN  ListOK(k) /\ known(k) \subseteq known(l) /\ known(l) \cap connected \subseteq known(k)
<1> DEFINE next == next_pending(l)
<1>1. ListOK(next) /\ known(next) = known(l)
  BY NextPendingOK
<1> HIDE DEF next
<1>2. CASE next.peer # None /\ next.peer \notin connected
  <2>1. next.peer \in Tokens
    BY <1>1, <1>2 DEF ListOK, ListType
  <2>2. ListOK(forget(next, next.peer)) /\ known(forget(next, next.peer)) = known(next) \ {next.peer}
    BY <1>1, <2>1, ForgetOK
  <2>3. try_catch_up(l, connected) = forget(next, next.peer)
    BY <1>2 DEF try_catch_up, next
  <2> QED BY <1>1, <1>2, <2>2, <2>3
<1>3. CASE ~(next.peer # None /\ next.peer \notin connected)
  <2>1. try_catch_up(l, connected) = next
    BY <1>3 DEF try_catch_up, next
  <2> QED BY <1>1, <2>1
<1> QED BY <1>2, <1>3

(* update_peer_states: the other thread gives up the peer that is caught up
   with, but never names one. *)
LEMMA UpdateStatesOK ==
    ASSUME NEW l, ListOK(l), NEW message, message.from \in Tokens, NEW answer
    PROVE  LET k == update_peer_states(l, message, answer)
           IN  /\ ListOK(k) /\ k.peer \in {None, l.peer}
               /\ known(l) \subseteq known(k) /\ known(k) \subseteq known(l) \cup {message.from}
<1> DEFINE t == message.from
           Good(k) == /\ ListOK(k) /\ k.peer \in {None, l.peer}
                      /\ known(l) \subseteq known(k) /\ known(k) \subseteq known(l) \cup {t}
           stopped == stopCatchUp(l, t)
<1>1. l \in ListType /\ l.queue \in Seq(Tokens) /\ l.states \in [Tokens -> PeerStatus \cup {"absent"}]
  BY DEF ListOK, ListType
<1>2. /\ stopped \in ListType /\ stopped.states = l.states /\ stopped.queue = l.queue
      /\ stopped.peer = IF l.peer = t THEN None ELSE l.peer
  BY <1>1 DEF stopCatchUp, ListType
<1>3. Append(l.queue, t) \in Seq(Tokens)
  BY <1>1
<1> HIDE DEF stopped
<1>4. Good(l)
  OBVIOUS
<1>5. Good(upToDate(l, t))
  <2> DEFINE k == upToDate(l, t)
  <2>1. k = [stopped EXCEPT !.states[t] = "UpToDate"]
    BY DEF upToDate, stopped
  <2>2. k \in ListType /\ k.peer = stopped.peer /\ k.states = [l.states EXCEPT ![t] = "UpToDate"]
    BY <1>1, <1>2, <2>1 DEF ListType, PeerStatus
  <2> HIDE DEF k
  <2>3. \A u \in Tokens : k.states[u] = "CatchingUp" <=> k.peer = u
    BY <1>1, <1>2, <2>2, TokensAssumption DEF ListOK
  <2>4. known(l) \subseteq known(k) /\ known(k) \subseteq known(l) \cup {t}
    BY <1>1, <2>2 DEF known
  <2>5. Good(k)
    BY Zenon, <1>2, <2>2, <2>3, <2>4 DEF ListOK
  <2> QED BY <2>5 DEF k
<1>6. Good(pendingIfIdle(l, t))
  <2>1. CASE l.states[t] = "UpToDate"
    <3> DEFINE k == enqueue(l, t)
    <3>1. k \in ListType /\ k.peer = l.peer /\ k.states = [l.states EXCEPT ![t] = "Pending"]
      BY Zenon, <1>1, <1>3 DEF enqueue, ListType, PeerStatus
    <3>2. pendingIfIdle(l, t) = k
      BY <2>1 DEF pendingIfIdle
    <3> HIDE DEF k
    <3>3. \A u \in Tokens : k.states[u] = "CatchingUp" <=> k.peer = u
      BY <1>1, <2>1, <3>1 DEF ListOK
    <3>4. known(l) \subseteq known(k) /\ known(k) \subseteq known(l) \cup {t}
      BY <1>1, <3>1 DEF known
    <3>5. Good(k)
      BY <3>1, <3>3, <3>4 DEF ListOK
    <3> QED BY <3>2, <3>5
  <2>2. CASE l.states[t] # "UpToDate"
    BY <1>4, <2>2 DEF pendingIfIdle
  <2> QED BY Zenon, <2>1, <2>2
<1>7. Good(behind(l, t))
  <2>1. CASE l.states[t] = "Pending"
    <3>1. behind(l, t) = stopped /\ stopped = l
      BY <1>2, <2>1 DEF behind, stopped, stopCatchUp, ListOK
    <3> QED BY <1>4, <3>1
  <2>2. CASE l.states[t] # "Pending"
    <3> DEFINE k == enqueue(stopped, t)
    <3>1. k \in ListType /\ k.peer = stopped.peer /\ k.states = [l.states EXCEPT ![t] = "Pending"]
      BY Zenon, <1>1, <1>2, <1>3 DEF enqueue, ListType, PeerStatus
    <3>2. behind(l, t) = k
      BY <2>2 DEF behind, stopped
    <3> HIDE DEF k
    <3>3. \A u \in Tokens : k.states[u] = "CatchingUp" <=> k.peer = u
      BY <1>1, <1>2, <3>1, TokensAssumption DEF ListOK
    <3>4. known(l) \subseteq known(k) /\ known(k) \subseteq known(l) \cup {t}
      BY <1>1, <3>1 DEF known
    <3>5. Good(k)
      BY <1>2, <3>1, <3>3, <3>4 DEF ListOK
    <3> QED BY <3>2, <3>5
  <2> QED BY Zenon, <2>1, <2>2
<1> HIDE DEF Good
<1>8. Good(update_peer_states(l, message, answer))
  BY <1>4, <1>5, <1>6, <1>7 DEF update_peer_states
<1> QED BY <1>8 DEF Good
=============================================================================
