---------------------------- MODULE Connections ----------------------------
(***************************************************************************)
(* The connections of a node to others (p2p/connectivity.rs and            *)
(* p2p/maintenance.rs) as operators on a record net: candidates and        *)
(* connections are tokens before and after the promotion that follows the  *)
(* handshake, changes is the bounded queue of ConnChange, soft_bans and    *)
(* given are addresses.  bans and persisted are the two stores of the      *)
(* database, which outlive the process.  An address stands for its IP too: *)
(* no two nodes share one.                                                 *)
(*                                                                         *)
(* The store of bans is read before the locks of the connections are       *)
(* taken.  What the poll loop does between two of its own steps may have   *)
(* read it before the bans in fresh, those set since the last such step;   *)
(* slipped are the connections that a ban does not reach.                  *)
(*                                                                         *)
(* last_peer_update is a millisecond time stamp.  Only two facts about it  *)
(* matter: whether it is later than that of the last update of the peer    *)
(* list (bumped) and whether it is the current time (recent).              *)
(***************************************************************************)
EXTENDS PeerList

CONSTANTS
    Addresses,      \* the other nodes, by the address they listen on
    Addr,           \* token -> address
    Incoming,       \* the tokens of connections the other node opens
    Given,          \* given_addresses at the start
    HardLimit,      \* hard_connection_limit, also the size of the queue of changes
    MaxAllowed,     \* max_allowed_nodes
    Desired,        \* desired_nodes_count
    ClockMoves      \* no two stamps are taken in one millisecond

ASSUME TokensAssumption ==
    /\ Addr \in [Tokens -> Addresses] /\ Incoming \subseteq Tokens /\ Given \subseteq Addresses
    /\ IsFiniteSet(Tokens) /\ None \notin Tokens
    /\ HardLimit \in Nat \ {0} /\ Desired \in Nat /\ MaxAllowed \in Nat /\ Desired <= MaxAllowed
    /\ ClockMoves \in BOOLEAN

emptyNet ==
    [opened |-> {}, candidates |-> {}, handshaken |-> {}, connections |-> {}, changes |-> <<>>,
     soft_bans |-> {}, given |-> Given, persisted |-> {}, bumped |-> FALSE, recent |-> FALSE,
     bans |-> {}, fresh |-> {}, slipped |-> {}]

(* register_conn_change: a change that finds the queue full is dropped. *)
register_conn_change(net, change) ==
    IF Len(net.changes) < HardLimit THEN [net EXCEPT !.changes = Append(@, change)] ELSE net

(* A stamp of the millisecond of the one before leaves it as it is. *)
bump_last_peer_update(net) ==
    IF net.recent THEN net ELSE [net EXCEPT !.bumped = TRUE, !.recent = ~ClockMoves]

(* The addresses this node recognises in its connections: those it connected
   to, and those that named their port in the handshake. *)
recognised(net, S) == {Addr[t] : t \in {t \in S : t \notin Incoming \/ t \in net.handshaken}}

(* is_banned, as it may have been read. *)
is_banned(net, a) == a \in net.bans \ net.fresh

(* accept: an incoming connection is turned away at the hard limit or if its
   address is banned or soft-banned. *)
accepts_banned(net, t) ==
    /\ t \in Incoming \ net.opened
    /\ Cardinality(net.candidates \cup net.connections) < HardLimit
    /\ Addr[t] \notin net.soft_bans
accepts(net, t) ==
    /\ t \in Incoming \ net.opened
    /\ ~is_banned(net, Addr[t])
    /\ Cardinality(net.candidates \cup net.connections) < HardLimit
    /\ Addr[t] \notin net.soft_bans
open(net, T) ==
    [net EXCEPT !.opened = @ \cup T, !.candidates = @ \cup T,
                !.slipped = @ \cup {t \in T : Addr[t] \in net.fresh}]

(* connect to each of the addresses in S; the result is one of these.  An
   attempt may fail; that the address is then soft-banned for a while is as if
   it failed again.  The attempts do not depend on each other: each looks at
   the connections to its own address. *)
connectable(net, S, respect_max_peers) ==
    {t \in Tokens \ (Incoming \cup net.opened) :
        /\ Addr[t] \in S
        /\ respect_max_peers => Cardinality(net.connections) < MaxAllowed
        /\ ~is_banned(net, Addr[t])
        /\ Addr[t] \notin net.soft_bans
        /\ Addr[t] \notin recognised(net, net.candidates \cup net.connections)}
connectAll(net, S, respect_max_peers) ==
    {open(net, T) : T \in {T \in SUBSET connectable(net, S, respect_max_peers) :
                                \A t, u \in T : Addr[t] = Addr[u] => t = u}}
connect(net, a, respect_max_peers) == connectAll(net, {a}, respect_max_peers)

(* remove_connection of a promoted connection or of a candidate. *)
remove_connection(net, t) ==
    IF t \in net.candidates THEN [net EXCEPT !.candidates = @ \ {t}]
    ELSE IF t \in net.connections THEN bump_last_peer_update([net EXCEPT !.connections = @ \ {t}])
    ELSE net

(* The records of peers that let the node reconnect after a restart. *)
persist_peer(net, a) == [net EXCEPT !.persisted = @ \cup {a}]
remove_persisted_peer(net, a) == [net EXCEPT !.persisted = @ \ {a}]
clear_persisted_peers(net) == [net EXCEPT !.persisted = {}]

(* Only the removal of a connection is followed by that of its record. *)
drop_always(net, t) == remove_persisted_peer(remove_connection(net, t), Addr[t])
drop(net, t) ==
    IF t \in net.connections THEN remove_persisted_peer(remove_connection(net, t), Addr[t])
    ELSE remove_connection(net, t)

(* remove_connections, and their records. *)
dropAll(net, S) ==
    LET gone == net.connections \cap S
        removed == [net EXCEPT !.candidates = @ \ S, !.connections = @ \ S,
                               !.persisted = @ \ {Addr[t] : t \in gone}]
    IN  IF gone = {} THEN removed ELSE bump_last_peer_update(removed)

promote_unchecked(net, t) ==
    IF t \in net.candidates
    THEN persist_peer(bump_last_peer_update([net EXCEPT !.candidates = @ \ {t}, !.connections = @ \cup {t}]),
                      Addr[t])
    ELSE net
promote_noStamp(net, t) ==
    IF t \in net.candidates /\ Addr[t] \notin recognised(net, net.connections)
    THEN persist_peer([net EXCEPT !.candidates = @ \ {t}, !.connections = @ \cup {t}], Addr[t])
    ELSE [net EXCEPT !.candidates = @ \ {t}]
promote(net, t) ==
    IF t \in net.candidates
    THEN IF Addr[t] \in recognised(net, net.connections) THEN [net EXCEPT !.candidates = @ \ {t}]
         ELSE persist_peer(bump_last_peer_update([net EXCEPT !.candidates = @ \ {t}, !.connections = @ \cup {t}]),
                           Addr[t])
    ELSE net

expel(net, t) ==
    IF t \in net.candidates \cup net.connections
    THEN [drop(net, t) EXCEPT !.soft_bans = @ \cup {Addr[t]}]
    ELSE net

(* process_conn_change, with its possible results.  Of the peers another node
   told of, one is tried here at a time. *)
process_conn_change(net, change) ==
    CASE change.kind = "NewConn" ->
            {IF n = net THEN n ELSE [n EXCEPT !.given = @ \cup {change.addr}] : n \in connect(net, change.addr, FALSE)}
      [] change.kind = "NewPeers" ->
            IF Cardinality(net.connections) < Desired THEN connect(net, change.addr, TRUE) ELSE {net}
      [] change.kind = "Promotion" -> {promote(net, change.token)}
      [] change.kind = "Expulsion" -> {expel(net, change.token)}
      [] change.kind = "Removal" -> {drop(net, change.token)}
      [] change.kind = "RemoveAll" -> {dropAll(net, change.tokens)}
-----------------------------------------------------------------------------
(* connection_housekeeping, when the candidates old and the connections
   faulty have had their time and the soft bans expired are over: surplus
   connections are dropped, given addresses are tried again. *)
retain(net, old, faulty, expired) ==
    LET kept == [net EXCEPT !.candidates = @ \ old, !.connections = @ \ faulty, !.soft_bans = @ \ expired]
    IN  IF faulty = {} THEN kept ELSE bump_last_peer_update(kept)

dropSurplus(net) ==
    LET surplus == Cardinality(net.connections) - MaxAllowed
        others == {t \in net.connections : Addr[t] \notin net.given}
        dropped(S) == bump_last_peer_update([net EXCEPT !.connections = @ \ S])
    IN  IF surplus <= 0 \/ others = {} THEN {net}
        ELSE {dropped(S) : S \in {S \in SUBSET others :
                Cardinality(S) = IF Cardinality(others) < surplus THEN Cardinality(others) ELSE surplus}}

unconnected_given_addresses(net) == net.given \ recognised(net, net.connections)

connection_housekeeping(net, old, faulty, expired) ==
    UNION {connectAll(n, unconnected_given_addresses(n), FALSE) :
            n \in dropSurplus(retain(net, old, faulty, expired))}
-----------------------------------------------------------------------------
(* drop_by_ip_and_ban: the ban is committed to the database; then the address
   is no longer given, and the connections that are found are to be removed. *)
ban(net, a) == [net EXCEPT !.bans = @ \cup {a}, !.fresh = @ \cup {a}]

find_conn_tokens_by_ip(net, a) == {t \in net.candidates \cup net.connections : Addr[t] = a}

drop_by_ip(net, a) ==
    LET found == find_conn_tokens_by_ip(net, a)
        asked == register_conn_change([net EXCEPT !.given = @ \ {a}], [kind |-> "RemoveAll", tokens |-> found])
    IN  [asked EXCEPT !.slipped = IF asked.changes = net.changes THEN @ \cup found ELSE @ \ found]

(* drop_addr finds connections by the address of their other end, which for
   an incoming one is not the one it listens on. *)
drop_addr(net, a) ==
    LET ungiven == [net EXCEPT !.given = @ \ {a}]
        found == {t \in (net.candidates \cup net.connections) \ Incoming : Addr[t] = a}
    IN  IF found = {} THEN {ungiven}
        ELSE {register_conn_change(ungiven, [kind |-> "Removal", token |-> t]) : t \in found}

unban_node(net, a) == [net EXCEPT !.bans = @ \ {a}, !.fresh = @ \ {a}]
clear_bans(net) == [net EXCEPT !.bans = {}]

(* A start of the node with what the database holds, which may be cleared
   first: the given nodes and those on record are connected to. *)
connect_to_config_nodes(net) == connectAll(net, net.given, FALSE)
connect_to_stored_nodes(net) == connectAll(net, net.persisted, TRUE)
establish_connections(net) == UNION {connect_to_stored_nodes(n) : n \in connect_to_config_nodes(net)}

loaded(net) == [emptyNet EXCEPT !.bans = net.bans, !.persisted = net.persisted]
start(net) ==
    LET unbanned == {loaded(net), clear_bans(loaded(net))}
    IN  UNION {establish_connections(n) : n \in unbanned \cup {clear_persisted_peers(n) : n \in unbanned}}
=============================================================================
