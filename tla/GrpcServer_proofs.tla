-------------------------- MODULE GrpcServer_proofs --------------------------
(***************************************************************************)
(* Proofs about GrpcServer, for any number of requests, connections,       *)
(* threads, items and blocks: who owns the sender of a stream, the permits *)
(* of dry runs, what the client of a stream has read, what becomes of an   *)
(* accepted transaction, and which calls are late when Haskell is stopped. *)
(***************************************************************************)
EXTENDS GrpcServer, FiniteSetTheorems, TLAPS

Function == [validates : BOOLEAN, sure : BOOLEAN, sender : BOOLEAN, frees : BOOLEAN]
Kinds == {"unary", "stream", "state", "submit", "session", "worker", "local"} \cup Relays

IsLookup(f) == f \in Function /\ ~f.sender
IsListing(f) == f \in Function /\ f.sender
IsUnary(e) == e.kind = "unary" /\ IsLookup(e.ffi) /\ e.size = 0
IsStream(e) == e.kind = "stream" /\ IsListing(e.ffi) /\ e.size \in {Short, Long}

(* The functions that ask the consensus are of these shapes. *)
LEMMA FunctionShapes ==
    /\ IsLookup(Lookup)
    /\ IsLookup([Lookup EXCEPT !.sure = TRUE])
    /\ IsLookup([Lookup EXCEPT !.validates = FALSE])
    /\ IsLookup([Lookup EXCEPT !.validates = FALSE, !.sure = TRUE])
    /\ IsListing(Listing)
    /\ IsListing([Listing EXCEPT !.frees = TRUE])
    /\ IsListing([Listing EXCEPT !.sure = TRUE])
<1>1. Lookup \in Function /\ ~Lookup.sender
  BY DEF Lookup, Function
<1>2. Listing \in Function /\ Listing.sender
  BY Zenon, <1>1 DEF Listing, Function
<1> QED BY Zenon, <1>1, <1>2 DEF IsLookup, IsListing, Function

(* An endpoint asks one of them. *)
LEMMA EndpointShapes ==
    /\ \A f : IsLookup(f) => IsUnary(Unary(f))
    /\ \A f : IsListing(f) => IsStream(Stream(f, Short)) /\ IsStream(Stream(f, Long))
  BY DEF IsUnary, IsStream, Unary, Stream, Endpoint

(* The endpoints with one answer, *)
LEMMA UnaryFunctions == \A e \in Unaries : IsUnary(e)
  BY FunctionShapes, EndpointShapes DEF Unaries,
     get_account_info, get_module_source, get_instance_info, instance_state_lookup,
     get_next_account_sequence_number, get_consensus_info, get_block_item_status, invoke_instance,
     get_cryptographic_parameters, get_block_info, get_pool_info, get_passive_delegation_info,
     get_blocks_at_height, get_tokenomics_info, get_branches, get_election_info,
     get_next_update_sequence_numbers, get_block_chain_parameters, get_block_finalization_summary,
     get_baker_earliest_win_time, get_block_certificates, get_first_block_epoch,
     get_account_info_v2, get_module_source_v2, get_instance_info_v2, get_instance_state_v2,
     get_next_account_sequence_number_v2, get_consensus_info_v2, get_block_item_status_v2, invoke_instance_v2,
     get_cryptographic_parameters_v2, get_block_info_v2, get_pool_info_v2, get_passive_delegation_info_v2,
     get_blocks_at_height_v2, get_tokenomics_info_v2, get_branches_v2, get_election_info_v2,
     get_next_update_sequence_numbers_v2, get_block_chain_parameters_v2, get_block_finalization_summary_v2,
     get_baker_earliest_win_time_v2, get_block_certificates_v2, get_first_block_epoch_v2

(* and the streams. *)
LEMMA StreamFunctions == \A e \in Streams : IsStream(e)
  BY FunctionShapes, EndpointShapes DEF Streams,
     get_account_list, get_module_list, get_instance_list, get_ancestors, get_baker_list,
     get_pool_delegators, get_pool_delegators_reward_period, get_passive_delegators,
     get_passive_delegators_reward_period, get_identity_providers, get_anonymity_revokers,
     get_account_non_finalized_transactions, get_block_transaction_events, get_block_special_events,
     get_block_pending_updates, get_bakers_reward_period, get_block_items, get_winning_bakers_epoch,
     get_account_list_v2, get_module_list_v2, get_instance_list_v2, get_ancestors_v2, get_baker_list_v2,
     get_pool_delegators_v2, get_pool_delegators_reward_period_v2, get_passive_delegators_v2,
     get_passive_delegators_reward_period_v2, get_identity_providers_v2, get_anonymity_revokers_v2,
     get_account_non_finalized_transactions_v2, get_block_transaction_events_v2, get_block_special_events_v2,
     get_block_pending_updates_v2, get_bakers_reward_period_v2, get_block_items_v2, get_winning_bakers_epoch_v2

(* What the server has to know of an endpoint: of those that ask the
   consensus in the thread pool, the streams hand over a sender. *)
LEMMA EndpointFacts ==
    \A e \in Endpoints :
        /\ e.kind \in Kinds /\ e.ffi \in Function /\ e.size \in Nat
        /\ e.kind \in {"unary", "stream", "state", "submit"} => (e.ffi.sender <=> e.kind = "stream")
        /\ e.kind = "submit" => e = send_block_item
        /\ e # None
<1> DEFINE Others == {get_instance_state, send_block_item, get_blocks, get_finalized_blocks, dry_run, get_node_info,
                      health_check, get_banned_peers, get_peers_info, get_account_transaction_sign_hash}
<1> DEFINE IsOther(e) == /\ e.kind \in Kinds \ {"unary", "stream"} /\ IsLookup(e.ffi) /\ e.size \in {0, Short, Long}
                         /\ e.kind = "submit" => e = send_block_item
<1>0. /\ \A k \in Kinds \ {"unary", "stream", "submit"}, n \in {0, Short, Long} :
            \A f : IsLookup(f) => IsOther(Endpoint(k, f, n))
      /\ IsOther(send_block_item)
  BY Zenon, FunctionShapes DEF Endpoint, send_block_item, send_transaction, Kinds
<1>1. \A e \in Others : IsOther(e)
  <2>1. {"state", "arrived", "finalized", "session", "worker", "local"} \subseteq Kinds \ {"unary", "stream", "submit"}
    BY DEF Kinds, Relays
  <2> HIDE DEF IsOther
  <2> QED BY <1>0, <2>1, FunctionShapes
       DEF get_instance_state, get_blocks, get_finalized_blocks, dry_run, get_node_info, health_check,
           get_banned_peers, get_peers_info, get_account_transaction_sign_hash, Local, get_instance_state_v2,
           in_baking_committee, get_last_finalized_block_slot_time_v2
<1>2. Endpoints = Unaries \cup Streams \cup Others
  BY DEF Endpoints
<1>3. 0 \in Nat /\ Short \in Nat /\ Long \in Nat /\ None \notin Endpoints
  BY ServerAssumption
<1>4. {"unary", "stream"} \subseteq Kinds
  BY DEF Kinds
<1> HIDE DEF Others
<1> QED BY <1>1, <1>2, <1>3, <1>4, UnaryFunctions, StreamFunctions DEF IsUnary, IsStream, IsLookup, IsListing
-----------------------------------------------------------------------------
Blocking == {"unary", "stream", "state", "submit"}
Itemwise == {"stream", "state"}

Senders == {"none", "job", "haskell", "task", "freed", "lost"} \cup Relays
Jobs == {"none", "queued", "calling", "ok", "error", "invalid_argument"}

Request ==
    [ep : Endpoints \cup {None}, stage : {"new", "connected", "waiting", "streaming", "closed"},
     job : Jobs, result : Results \cup {None}, sender : Senders, thread : BOOLEAN,
     chan : Seq(Nat), made : 0 .. MaxItems, got : Seq(Nat)]

(* The stages of a request, its job and the owner of its sender fit together,
   and the channel of a stream holds what was made and not yet read.  The
   last line of each group is what the properties say of one request. *)
Sound(q) ==
    /\ q \in Request
    /\ q.ep = None => /\ q.job = "none" /\ q.sender = "none" /\ q.stage \in {"new", "connected", "closed"}
                      /\ q.chan = <<>> /\ q.got = <<>> /\ q.made = 0
    /\ q.ep # None => q.stage \in {"waiting", "streaming", "closed"}
    /\ q.stage # "closed" => q.result = None
    /\ q.job # "none" => q.ep # None /\ q.ep.kind \in Blocking
    /\ q.job \in {"queued", "calling"} => /\ q.sender = IF q.ep.ffi.sender THEN "job" ELSE "none"
                                          /\ q.stage \in {"waiting", "closed"}
    /\ q.thread => q.job = "ok" /\ q.ep.kind \in Itemwise
    /\ q.stage = "closed" /\ (q.thread \/ q.job \in {"queued", "calling"}) => q.result = "cancelled"
    /\ q.thread <=> q.sender \in {"haskell", "task"}
    /\ q.sender \in Relays => q.ep # None /\ q.ep.kind = q.sender
    /\ q.ep # None /\ q.ep.kind \in Relays /\ q.stage = "streaming" => q.sender = q.ep.kind
    /\ q.ep # None /\ q.ep.kind \in Itemwise =>
        /\ q.stage = "streaming" => q.job = "ok"
        /\ q.stage # "closed" /\ q.job = "ok" /\ q.sender = "freed" => q.made = MaxItems
        /\ q.stage # "closed" => q.got \o q.chan = items(q.made)
        /\ q.result = "ok" => q.got = items(MaxItems)

(* What a step may do to a request q that is p afterwards. *)
Moves(q, p) ==
    /\ q.ep # None => p.ep = q.ep
    /\ q.stage = "closed" => p.stage = "closed" /\ p.result = q.result
    /\ q.job = "ok" => p.job = "ok"
    /\ p.stage \in {"waiting", "streaming"} /\ q.stage \notin {"waiting", "streaming"} => server \in {"serving", "failed"}
    /\ q.stage = "waiting" /\ q.job = "ok" /\ q.ep.kind = "submit" =>
        p.stage = "waiting" \/ p.result \in {"internal", "cancelled"} \/ relayed'
    /\ p.ep # None /\ p.ep.kind \in Relays /\ p.stage = "streaming" =>
        \/ q.ep = None /\ p.got \o p.chan = <<>>
        \/ q.ep = p.ep /\ q.stage = "streaming" /\ p.got \o p.chan = q.got \o q.chan
        \/ /\ q.ep = p.ep /\ q.stage = "streaming" /\ notified[p.ep.kind] # <<>>
           /\ notified' = [notified EXCEPT ![p.ep.kind] = Tail(@)]
           /\ p.got \o p.chan = Append(q.got \o q.chan, Head(notified[p.ep.kind]))

(* No session begins or ends. *)
Steady(q, p) == session(p) <=> session(q)

(* A stream without items. *)
LEMMA NoItems == items(0) = <<>> /\ <<>> \o <<>> = items(0) /\ <<>> \o <<>> = <<>> /\ <<>> \in Seq(Nat)
  BY DEF items

(* One more item. *)
LEMMA OneMoreItem ==
    ASSUME NEW got \in Seq(Nat), NEW chan \in Seq(Nat), NEW n \in Nat, got \o chan = items(n)
    PROVE  got \o Append(chan, n + 1) = items(n + 1)
<1>1. got \o Append(chan, n + 1) = Append(got \o chan, n + 1)
  OBVIOUS
<1>2. Append(items(n), n + 1) = items(n + 1)
  BY DEF items
<1> QED BY Zenon, <1>1, <1>2

(* An item that is read goes from the channel to the client. *)
LEMMA OneItemRead ==
    ASSUME NEW got \in Seq(Nat), NEW chan \in Seq(Nat), chan # <<>>
    PROVE  Append(got, Head(chan)) \o Tail(chan) = got \o chan
  OBVIOUS

(* What is put in a channel and taken out of it. *)
LEMMA Channels ==
    /\ \A s \in Seq(Nat), n \in Nat : Append(s, n) \in Seq(Nat)
    /\ \A s \in Seq(Nat) : s # <<>> => Head(s) \in Nat /\ Tail(s) \in Seq(Nat)
    /\ \A s, t \in Seq(Nat), n \in Nat : s \o Append(t, n) = Append(s \o t, n)
  OBVIOUS

(* A request that is not closed has no result. *)
LEMMA NoResult == None \notin {"ok", "internal", "cancelled"}
  BY ServerAssumption DEF Results

(* A request that ends. *)
LEMMA ClosedSound ==
    ASSUME NEW q, Sound(q), q.stage # "closed", NEW result \in Results,
           q.thread \/ q.job \in {"queued", "calling"} => result = "cancelled",
           q.ep # None /\ q.ep.kind \in Itemwise /\ result = "ok" => q.got = items(MaxItems),
           q.stage = "waiting" /\ q.job = "ok" /\ q.ep.kind = "submit" =>
                result \in {"internal", "cancelled"} \/ relayed'
    PROVE  Sound(closed(q, result)) /\ Moves(q, closed(q, result)) /\ ~session(closed(q, result))
<1> DEFINE p == closed(q, result)
<1>1. q \in Request /\ <<>> \in Seq(Nat)
  BY DEF Sound
<1>2. p \in Request
  BY Zenon, <1>1 DEF closed, Request
<1>3. /\ p.ep = q.ep /\ p.stage = "closed" /\ p.job = q.job /\ p.result = result /\ p.sender = q.sender
      /\ p.thread = q.thread /\ p.chan = <<>> /\ p.made = q.made /\ p.got = q.got
  BY <1>1 DEF closed, Request
<1> HIDE DEF p
<1>4. Sound(p)
  BY <1>2, <1>3 DEF Sound
<1>5. Moves(q, p)
  BY <1>3 DEF Moves
<1> QED BY <1>3, <1>4, <1>5 DEF p, session

(* A request without an endpoint that is given one: to be refused or
   answered at once, *)
LEMMA AtOnceSound ==
    ASSUME NEW q, Sound(q), q.stage = "connected", NEW e \in Endpoints, NEW result \in Results,
           e.kind \in Itemwise => result # "ok"
    PROVE  /\ Sound(closed([q EXCEPT !.ep = e], result)) /\ Moves(q, closed([q EXCEPT !.ep = e], result))
           /\ Steady(q, closed([q EXCEPT !.ep = e], result))
<1> DEFINE p == closed([q EXCEPT !.ep = e], result)
<1>1. q \in Request /\ <<>> \in Seq(Nat) /\ q.ep = None /\ e # None
  BY EndpointFacts DEF Sound
<1>2. p \in Request
  BY Zenon, <1>1 DEF closed, Request
<1>3. /\ p.ep = e /\ p.stage = "closed" /\ p.job = q.job /\ p.result = result /\ p.sender = q.sender
      /\ p.thread = q.thread /\ p.chan = <<>> /\ p.made = q.made /\ p.got = q.got
  BY <1>1 DEF closed, Request
<1> HIDE DEF p
<1>4. Sound(p)
  BY <1>1, <1>2, <1>3 DEF Sound, Relays
<1>5. Moves(q, p)
  BY <1>1, <1>3 DEF Moves, Sound
<1> QED BY <1>1, <1>3, <1>4, <1>5 DEF p, Steady, session

(* to be handled by a job of the thread pool, *)
LEMMA RunBlockingSound ==
    ASSUME NEW q, Sound(q), q.stage = "connected", NEW e \in Endpoints, e.kind \in Blocking,
           server \in {"serving", "failed"},
           NEW p, p = [q EXCEPT !.ep = e, !.stage = "waiting", !.job = "queued",
                                !.sender = IF e.ffi.sender THEN "job" ELSE "none"]
    PROVE  Sound(p) /\ Moves(q, p) /\ Steady(q, p)
<1>1. /\ q \in Request /\ q.ep = None /\ e # None /\ q.result = None /\ q.thread = FALSE
      /\ q.made = 0 /\ q.chan = <<>> /\ q.got = <<>>
  BY EndpointFacts DEF Sound, Request
<1> DEFINE sender == IF e.ffi.sender THEN "job" ELSE "none"
<1>2. sender \in {"job", "none"} /\ sender \in Senders
  BY DEF Senders
<1>3. p = [q EXCEPT !.ep = e, !.stage = "waiting", !.job = "queued", !.sender = sender]
  OBVIOUS
<1>4. sender = IF e.ffi.sender THEN "job" ELSE "none"
  OBVIOUS
<1> HIDE DEF sender
<1>5. p \in Request
  BY Zenon, <1>1, <1>2, <1>3 DEF Request, Jobs
<1>6. /\ p.ep = e /\ p.stage = "waiting" /\ p.job = "queued" /\ p.result = None /\ p.sender = sender
      /\ p.thread = FALSE /\ p.chan = <<>> /\ p.made = 0 /\ p.got = <<>>
  BY Zenon, <1>1, <1>3 DEF Request
<1>7. p.got \o p.chan = items(p.made)
  BY Zenon, <1>6, NoItems
<1>8. Sound(p)
  BY Zenon, <1>1, <1>2, <1>4, <1>5, <1>6, <1>7, NoResult DEF Sound, Relays
<1>9. Moves(q, p)
  BY <1>1, <1>6 DEF Moves, Sound
<1> QED BY <1>1, <1>6, <1>8, <1>9 DEF Steady, session

(* to be served by a relay or as a session of dry runs. *)
LEMMA StreamingSound ==
    ASSUME NEW q, Sound(q), q.stage = "connected", NEW e \in Endpoints, server \in {"serving", "failed"},
           NEW p, \/ e.kind \in Relays /\ p = [q EXCEPT !.ep = e, !.stage = "streaming", !.sender = e.kind]
                  \/ e.kind = "session" /\ p = [q EXCEPT !.ep = e, !.stage = "streaming"]
    PROVE  Sound(p) /\ Moves(q, p) /\ ~session(q) /\ (session(p) <=> e.kind = "session")
<1>1. q \in Request /\ q.ep = None /\ e # None /\ q.got = <<>> /\ q.chan = <<>>
  BY EndpointFacts DEF Sound
<1>2. p \in Request
  <2>1. Relays \subseteq Senders
    BY DEF Senders
  <2>2. CASE e.kind \in Senders /\ p = [q EXCEPT !.ep = e, !.stage = "streaming", !.sender = e.kind]
    BY Zenon, <1>1, <2>2 DEF Request
  <2>3. CASE p = [q EXCEPT !.ep = e, !.stage = "streaming"]
    BY Zenon, <1>1, <2>3 DEF Request
  <2> QED BY <2>1, <2>2, <2>3
<1>3. /\ p.ep = e /\ p.stage = "streaming" /\ p.job = q.job /\ p.result = q.result
      /\ p.sender = (IF e.kind \in Relays THEN e.kind ELSE q.sender)
      /\ p.thread = q.thread /\ p.chan = q.chan /\ p.made = q.made /\ p.got = q.got
  BY Zenon, <1>1 DEF Request, Relays
<1>4. Sound(p)
  BY <1>1, <1>2, <1>3 DEF Sound, Relays, Itemwise
<1>5. Moves(q, p)
  BY <1>1, <1>3, NoItems DEF Moves, Sound
<1> QED BY <1>1, <1>3, <1>4, <1>5 DEF session

(* A connection is accepted. *)
LEMMA AcceptSound ==
    ASSUME NEW q, Sound(q), q.stage = "new", NEW p, p = [q EXCEPT !.stage = "connected"]
    PROVE  Sound(p) /\ Moves(q, p) /\ Steady(q, p)
<1>1. q \in Request
  BY DEF Sound
<1>2. p \in Request
  BY Zenon, <1>1 DEF Request
<1>3. /\ p.ep = q.ep /\ p.stage = "connected" /\ p.job = q.job /\ p.result = q.result /\ p.sender = q.sender
      /\ p.thread = q.thread /\ p.chan = q.chan /\ p.made = q.made /\ p.got = q.got
  BY <1>1 DEF Request
<1>4. Sound(p)
  BY Zenon, <1>2, <1>3 DEF Sound
<1>5. Moves(q, p)
  BY <1>3 DEF Moves
<1> QED BY <1>3, <1>4, <1>5 DEF Steady, session

(* A job is taken up, *)
LEMMA StartJobSound ==
    ASSUME NEW q, Sound(q), q.job = "queued",
           NEW p, \/ p = [q EXCEPT !.job = "invalid_argument", !.sender = IF @ = "job" THEN "freed" ELSE @]
                  \/ p = [q EXCEPT !.job = "calling"]
    PROVE  Sound(p) /\ Moves(q, p) /\ Steady(q, p)
<1>1. q \in Request
  BY DEF Sound
<1> DEFINE sender == IF q.sender = "job" THEN "freed" ELSE q.sender
<1>2. CASE p = [q EXCEPT !.job = "invalid_argument", !.sender = sender]
  <2>1. sender \in Senders /\ "invalid_argument" \in Jobs
    BY <1>1 DEF Senders, Jobs, Request
  <2>2. sender = IF q.sender = "job" THEN "freed" ELSE q.sender
    OBVIOUS
  <2> HIDE DEF sender
  <2>3. p \in Request
    BY Zenon, <1>1, <1>2, <2>1 DEF Request
  <2>4. /\ p.ep = q.ep /\ p.stage = q.stage /\ p.result = q.result /\ p.job = "invalid_argument"
        /\ p.sender = sender /\ p.thread = q.thread /\ p.chan = q.chan /\ p.made = q.made /\ p.got = q.got
    BY <1>1, <1>2 DEF Request
  <2>5. Sound(p)
    BY Zenon, <2>2, <2>3, <2>4 DEF Sound, Relays
  <2> QED BY Zenon, <2>4, <2>5 DEF Moves, Steady, session, Sound
<1>3. CASE p = [q EXCEPT !.job = "calling"]
  <2>1. p \in Request
    BY Zenon, <1>1, <1>3 DEF Request, Jobs
  <2>2. /\ p.ep = q.ep /\ p.stage = q.stage /\ p.result = q.result /\ p.job = "calling"
        /\ p.sender = q.sender /\ p.thread = q.thread /\ p.chan = q.chan /\ p.made = q.made /\ p.got = q.got
    BY <1>1, <1>3 DEF Request
  <2>3. Sound(p)
    BY Zenon, <2>1, <2>2 DEF Sound
  <2> QED BY Zenon, <2>2, <2>3 DEF Moves, Steady, session, Sound
<1> QED BY <1>2, <1>3

(* and the consensus answers. *)
LEMMA AnsweredSound ==
    ASSUME NEW q, Sound(q), q.job = "calling", NEW ok \in BOOLEAN
    PROVE  Sound(answered(q, ok)) /\ Moves(q, answered(q, ok)) /\ Steady(q, answered(q, ok))
<1> DEFINE p == answered(q, ok)
           job == IF ok THEN "ok" ELSE "error"
           sender == IF q.sender = "none" THEN q.sender
                     ELSE IF ok THEN "haskell"
                     ELSE IF q.ep.ffi.frees THEN "freed"
                     ELSE "lost"
           thread == q.ep.ffi.sender /\ ok
<1>1. q \in Request /\ q.ep \in Endpoints /\ q.ep.kind \in Blocking /\ q.ep # None
      /\ q.sender = (IF q.ep.ffi.sender THEN "job" ELSE "none") /\ q.thread = FALSE
  BY DEF Sound, Request
<1>2. q.ep.ffi.sender \in BOOLEAN /\ q.ep.ffi.frees \in BOOLEAN /\ (q.ep.ffi.sender <=> q.ep.kind = "stream")
  BY <1>1, EndpointFacts DEF Function, Blocking
<1>3. /\ sender \in {"none", "haskell", "freed", "lost"}
      /\ q.ep.ffi.sender /\ ok => sender = "haskell"
      /\ ~q.ep.ffi.sender => sender = "none"
      /\ ~ok => sender # "haskell"
  <2>1. CASE ~q.ep.ffi.sender
    <3>1. q.sender = "none"
      BY <1>1, <2>1
    <3>2. sender = "none"
      BY <3>1
    <3> QED BY <2>1, <3>2
  <2>2. CASE q.ep.ffi.sender /\ ok
    <3>1. q.sender # "none" /\ ok
      BY <1>1, <2>2
    <3>2. sender = "haskell"
      BY <3>1
    <3> QED BY <2>2, <3>2
  <2>3. CASE q.ep.ffi.sender /\ ~ok
    <3>1. q.sender # "none" /\ ~ok
      BY <1>1, <2>3
    <3>2. sender \in {"freed", "lost"}
      BY <1>2, <3>1
    <3> QED BY <2>3, <3>2
  <2> QED BY <1>2, <2>1, <2>2, <2>3
<1>4. job \in {"ok", "error"} /\ thread \in BOOLEAN /\ (job = "ok" <=> ok) /\ (thread <=> q.ep.ffi.sender /\ ok)
  OBVIOUS
<1>5. p = [q EXCEPT !.job = job, !.sender = sender, !.thread = thread]
  BY DEF answered
<1> HIDE DEF p, job, sender, thread
<1>6. job \in Jobs /\ sender \in Senders
  BY <1>3, <1>4 DEF Jobs, Senders
<1>7. /\ p \in Request
      /\ p.ep = q.ep /\ p.stage = q.stage /\ p.result = q.result /\ p.job = job /\ p.sender = sender
      /\ p.thread = thread /\ p.chan = q.chan /\ p.made = q.made /\ p.got = q.got
  <2>1. PICK t \in BOOLEAN : t = thread
    BY <1>4
  <2>2. p = [q EXCEPT !.job = job, !.sender = sender, !.thread = t]
    BY <1>5, <2>1
  <2>3. p \in Request
    BY Zenon, <1>1, <1>6, <2>2 DEF Request
  <2>4. /\ p.ep = q.ep /\ p.stage = q.stage /\ p.result = q.result /\ p.job = job /\ p.sender = sender
        /\ p.thread = t /\ p.chan = q.chan /\ p.made = q.made /\ p.got = q.got
    BY <1>1, <1>6, <2>2 DEF Request
  <2> QED BY <2>1, <2>3, <2>4
<1>8. thread <=> sender \in {"haskell", "task"}
  BY <1>2, <1>3, <1>4
<1>9. Sound(p)
  BY Zenon, <1>1, <1>2, <1>3, <1>4, <1>7, <1>8 DEF Sound, Relays, Itemwise
<1>10. Moves(q, p)
  BY Zenon, <1>7 DEF Moves, Sound
<1> QED BY <1>7, <1>9, <1>10 DEF p, Steady, session

(* A stream is returned to the client: the thread of Haskell has the sender,
   or a task is given it. *)
LEMMA ReturnStreamSound ==
    ASSUME NEW q, Sound(q), q.stage = "waiting", q.job = "ok", q.ep.kind \in Itemwise,
           NEW p, p = [q EXCEPT !.stage = "streaming",
                                !.sender = IF q.ep.kind = "state" THEN "task" ELSE @,
                                !.thread = q.ep.kind = "state" \/ @]
    PROVE  Sound(p) /\ Moves(q, p) /\ Steady(q, p)
<1> DEFINE sender == IF q.ep.kind = "state" THEN "task" ELSE q.sender
           thread == q.ep.kind = "state" \/ q.thread
<1>1. q \in Request /\ q.thread \in BOOLEAN /\ q.sender \in Senders /\ q.ep # None
  BY DEF Sound, Request
<1>2. PICK t \in BOOLEAN : t = thread
  BY Zenon, <1>1
<1>3. /\ sender \in Senders /\ (t <=> sender \in {"haskell", "task"}) /\ sender \in {"task", q.sender}
  BY Zenon, <1>1, <1>2 DEF Sound, Senders
<1>4. p = [q EXCEPT !.stage = "streaming", !.sender = sender, !.thread = t]
  BY <1>2
<1> HIDE DEF sender, thread
<1>5. p \in Request
  BY Zenon, <1>1, <1>3, <1>4 DEF Request
<1>6. /\ p.ep = q.ep /\ p.stage = "streaming" /\ p.job = q.job /\ p.result = q.result /\ p.sender = sender
      /\ p.thread = t /\ p.chan = q.chan /\ p.made = q.made /\ p.got = q.got
  BY Zenon, <1>1, <1>4 DEF Request
<1>7. Sound(p)
  <2>1. q.ep.kind \notin Relays /\ sender \notin Relays
    BY <1>1, <1>3 DEF Relays, Itemwise, Sound
  <2>2. sender = "freed" => q.sender = "freed"
    BY <1>3
  <2> QED BY Zenon, <1>1, <1>3, <1>5, <1>6, <2>1, <2>2 DEF Sound
<1>8. Moves(q, p)
  BY <1>1, <1>6 DEF Moves, Relays, Itemwise
<1> QED BY <1>6, <1>7, <1>8 DEF Steady, session, Itemwise

(* The owner of a sender frees it. *)
LEMMA FreedSound ==
    ASSUME NEW q, Sound(q), q.thread, q.stage = "closed" \/ q.made = MaxItems,
           NEW p, p = [q EXCEPT !.sender = "freed", !.thread = FALSE]
    PROVE  Sound(p) /\ Moves(q, p) /\ Steady(q, p)
<1>1. q \in Request
  BY DEF Sound
<1>2. p \in Request
  BY Zenon, <1>1 DEF Request, Senders
<1>3. /\ p.ep = q.ep /\ p.stage = q.stage /\ p.job = q.job /\ p.result = q.result /\ p.sender = "freed"
      /\ p.thread = FALSE /\ p.chan = q.chan /\ p.made = q.made /\ p.got = q.got
  BY <1>1 DEF Request
<1>4. Sound(p)
  BY Zenon, <1>2, <1>3 DEF Sound, Relays, Itemwise
<1>5. Moves(q, p)
  BY Zenon, <1>3 DEF Moves, Sound
<1> QED BY <1>3, <1>4, <1>5 DEF Steady, session

(* The owner of a sender sends an item. *)
LEMMA SentSound ==
    ASSUME NEW q, Sound(q), q.thread, q.stage # "closed", q.made # MaxItems,
           NEW p, p = [q EXCEPT !.chan = Append(@, q.made + 1), !.made = @ + 1]
    PROVE  Sound(p) /\ Moves(q, p) /\ Steady(q, p)
<1>1. /\ q \in Request /\ q.made \in 0 .. MaxItems /\ q.chan \in Seq(Nat) /\ q.got \in Seq(Nat) /\ MaxItems \in Nat
      /\ q.ep # None /\ q.ep.kind \in Itemwise
  BY ServerAssumption DEF Sound, Request
<1>2. q.made + 1 \in 0 .. MaxItems /\ q.made + 1 \in Nat /\ q.made \in Nat
  BY <1>1
<1>3. PICK n \in 0 .. MaxItems : n = q.made + 1
  BY <1>2
<1>4. PICK chan \in Seq(Nat) : chan = Append(q.chan, n)
  BY Zenon, <1>1, <1>2, <1>3, Channels
<1>5. p = [q EXCEPT !.chan = chan, !.made = n]
  BY <1>3, <1>4
<1>6. p \in Request
  BY Zenon, <1>1, <1>5 DEF Request
<1>7. /\ p.ep = q.ep /\ p.stage = q.stage /\ p.job = q.job /\ p.result = q.result /\ p.sender = q.sender
      /\ p.thread = q.thread /\ p.chan = chan /\ p.made = n /\ p.got = q.got
  BY Zenon, <1>1, <1>5 DEF Request
<1>8. q.got \o chan = items(n)
  <2>1. q.got \o q.chan = items(q.made)
    BY Zenon, <1>1 DEF Sound
  <2> QED BY Zenon, <1>1, <1>2, <1>3, <1>4, <2>1, OneMoreItem
<1>9. Sound(p)
  BY Zenon, <1>1, <1>6, <1>7, <1>8 DEF Sound, Relays
<1>10. Moves(q, p)
  BY Zenon, <1>1, <1>7 DEF Moves, Relays, Itemwise
<1> QED BY <1>7, <1>9, <1>10 DEF Steady, session

(* The client takes an item. *)
LEMMA TakeSound ==
    ASSUME NEW q, Sound(q), q.stage = "streaming", q.chan # <<>>,
           NEW p, p = [q EXCEPT !.chan = Tail(@), !.got = Append(@, Head(q.chan))]
    PROVE  Sound(p) /\ Moves(q, p) /\ Steady(q, p)
<1>1. q \in Request /\ q.chan \in Seq(Nat) /\ q.got \in Seq(Nat) /\ q.ep # None
  BY DEF Sound, Request
<1>2. PICK chan \in Seq(Nat) : chan = Tail(q.chan)
  BY Zenon, <1>1, Channels
<1>3. PICK got \in Seq(Nat) : got = Append(q.got, Head(q.chan))
  BY Zenon, <1>1, Channels
<1>4. got \o chan = q.got \o q.chan
  BY Zenon, <1>1, <1>2, <1>3, OneItemRead
<1>5. p = [q EXCEPT !.chan = chan, !.got = got]
  BY <1>2, <1>3
<1>6. p \in Request
  BY Zenon, <1>1, <1>5 DEF Request
<1>7. /\ p.ep = q.ep /\ p.stage = q.stage /\ p.job = q.job /\ p.result = q.result /\ p.sender = q.sender
      /\ p.thread = q.thread /\ p.chan = chan /\ p.made = q.made /\ p.got = got
  BY Zenon, <1>1, <1>5 DEF Request
<1>8. Sound(p)
  BY Zenon, <1>1, <1>4, <1>6, <1>7, NoResult DEF Sound
<1>9. Moves(q, p)
  BY Zenon, <1>1, <1>4, <1>7 DEF Moves
<1> QED BY <1>7, <1>8, <1>9 DEF Steady, session

(* A relay has a block for a subscriber. *)
LEMMA RetainSound ==
    ASSUME NEW q, Sound(q), NEW w \in Relays, q.sender = w,
           notified[w] \in Seq(Nat), notified[w] # <<>>, notified' = [notified EXCEPT ![w] = Tail(@)]
    PROVE  /\ Sound(retain(q, Head(notified[w]))) /\ Moves(q, retain(q, Head(notified[w])))
           /\ Steady(q, retain(q, Head(notified[w])))
<1> DEFINE p == retain(q, Head(notified[w]))
<1>1. /\ q \in Request /\ q.ep # None /\ q.ep.kind = w /\ q.ep.kind \in Relays /\ q.chan \in Seq(Nat) /\ q.got \in Seq(Nat)
      /\ q.thread = FALSE /\ q.job \notin {"queued", "calling"}
  BY DEF Sound, Relays, Request
<1>2. Head(notified[w]) \in Nat
  BY Channels
<1>3. CASE q.stage = "closed"
  <2>1. p = [q EXCEPT !.sender = "freed"]
    BY <1>3 DEF retain
  <2> HIDE DEF p
  <2>2. p \in Request
    BY Zenon, <1>1, <2>1 DEF Request, Senders
  <2>3. /\ p.ep = q.ep /\ p.stage = q.stage /\ p.job = q.job /\ p.result = q.result /\ p.sender = "freed"
        /\ p.thread = q.thread /\ p.chan = q.chan /\ p.made = q.made /\ p.got = q.got
    BY <1>1, <2>1 DEF Request
  <2>4. Sound(p)
    BY <1>1, <1>3, <2>2, <2>3 DEF Sound, Relays, Itemwise
  <2>5. Moves(q, p) /\ Steady(q, p)
    BY <1>1, <1>3, <2>3 DEF Moves, Steady, session
  <2> QED BY <2>4, <2>5 DEF p
<1>4. CASE q.stage # "closed" /\ Len(q.chan) < q.ep.size
  <2>1. PICK chan \in Seq(Nat) : chan = Append(q.chan, Head(notified[w]))
    BY Zenon, <1>1, <1>2, Channels
  <2>2. p = [q EXCEPT !.chan = chan]
    BY <1>4, <2>1 DEF retain
  <2> HIDE DEF p
  <2>3. p \in Request
    BY Zenon, <1>1, <2>2 DEF Request
  <2>4. /\ p.ep = q.ep /\ p.stage = q.stage /\ p.job = q.job /\ p.result = q.result /\ p.sender = q.sender
        /\ p.thread = q.thread /\ p.chan = chan /\ p.made = q.made /\ p.got = q.got
    BY <1>1, <2>2 DEF Request
  <2>5. Sound(p)
    BY Zenon, <1>1, <1>4, <2>3, <2>4 DEF Sound, Relays, Itemwise
  <2>6. q.got \o chan = Append(q.got \o q.chan, Head(notified[w]))
    BY Zenon, <1>1, <1>2, <2>1, Channels
  <2>7. q.stage = "streaming" => Moves(q, p)
    BY Zenon, <1>1, <2>4, <2>6 DEF Moves
  <2>8. q.stage # "streaming" => Moves(q, p)
    BY Zenon, <1>1, <2>4 DEF Moves, Relays
  <2> QED BY <2>4, <2>5, <2>7, <2>8 DEF p, Steady, session
<1>5. CASE q.stage # "closed" /\ ~(Len(q.chan) < q.ep.size)
  <2>1. p = q
    BY <1>5 DEF retain
  <2> HIDE DEF p
  <2>2. Moves(q, q)
    BY Zenon, <1>1 DEF Moves, Relays
  <2> QED BY <2>1, <2>2 DEF p, Steady
<1> QED BY <1>3, <1>4, <1>5

(* An operation of a session succeeds. *)
LEMMA DryRunSound ==
    ASSUME NEW q, Sound(q), session(q), q.made < MaxItems, NEW p, p = [q EXCEPT !.made = @ + 1]
    PROVE  Sound(p) /\ Moves(q, p) /\ Steady(q, p)
<1>1. q \in Request /\ q.made \in 0 .. MaxItems /\ MaxItems \in Nat
  BY ServerAssumption DEF Sound, Request
<1>2. PICK n \in 0 .. MaxItems : n = q.made + 1
  BY <1>1
<1>3. p = [q EXCEPT !.made = n]
  BY <1>2
<1>4. p \in Request
  BY <1>1, <1>3 DEF Request
<1>5. /\ p.ep = q.ep /\ p.stage = q.stage /\ p.job = q.job /\ p.result = q.result /\ p.sender = q.sender
      /\ p.thread = q.thread /\ p.chan = q.chan /\ p.made = n /\ p.got = q.got
  BY <1>1, <1>3 DEF Request
<1>6. Sound(p)
  BY Zenon, <1>4, <1>5 DEF Sound, session, Itemwise
<1>7. Moves(q, p)
  BY Zenon, <1>5 DEF Moves, session
<1> QED BY <1>5, <1>6, <1>7 DEF Steady, session

(* A request that a step leaves alone. *)
LEMMA StillSound == ASSUME NEW q, Sound(q) PROVE Moves(q, q) /\ Steady(q, q)
  BY Zenon DEF Moves, Steady, Sound
-----------------------------------------------------------------------------
(* What holds of all requests, and what every step does to them: besides
   their moves, a session that begins takes a permit and one that ends gives
   it back. *)
SoundAll == req \in [Requests -> Request] /\ \A r \in Requests : Sound(req[r])

Wired == notified \in [Relays -> Seq(Nat)] /\ blocks \in [Relays -> Nat]

AllMove == \A r \in Requests : Moves(req[r], req'[r])

Begins(r) == ~session(req[r]) /\ session(req'[r]) /\ permits > 0 /\ permits' = permits - 1
Ends(r) == session(req[r]) /\ ~session(req'[r]) /\ permits' = permits + 1

Permits ==
    \/ permits' = permits /\ \A r \in Requests : Steady(req[r], req'[r])
    \/ \E r \in Requests : (Begins(r) \/ Ends(r)) /\ \A s \in Requests \ {r} : Steady(req[s], req'[s])

(* A step of one request. *)
LEMMA OneRequest ==
    ASSUME SoundAll, NEW r \in Requests, NEW p, req' = [req EXCEPT ![r] = p], Sound(p), Moves(req[r], p),
           \/ Steady(req[r], p) /\ permits' = permits
           \/ ~session(req[r]) /\ session(p) /\ permits > 0 /\ permits' = permits - 1
           \/ session(req[r]) /\ ~session(p) /\ permits' = permits + 1
    PROVE  SoundAll' /\ AllMove /\ Permits
<1>1. req'[r] = p /\ \A s \in Requests \ {r} : req'[s] = req[s]
  BY DEF SoundAll
<1>2. p \in Request
  BY DEF Sound
<1>3. SoundAll'
  <2>1. req' \in [Requests -> Request]
    BY <1>2 DEF SoundAll
  <2>2. \A s \in Requests : Sound(req'[s])
    BY <1>1 DEF SoundAll
  <2> QED BY <2>1, <2>2 DEF SoundAll
<1>4. AllMove
  BY <1>1, StillSound DEF AllMove, SoundAll
<1>5. \A s \in Requests \ {r} : Steady(req[s], req'[s])
  BY <1>1 DEF Steady
<1>6. Permits
  <2>1. CASE Steady(req[r], p) /\ permits' = permits
    BY <1>1, <1>5, <2>1 DEF Permits
  <2>2. CASE ~session(req[r]) /\ session(p) /\ permits > 0 /\ permits' = permits - 1
    <3>1. Begins(r)
      BY <1>1, <2>2 DEF Begins
    <3> QED BY <1>5, <3>1 DEF Permits
  <2>3. CASE session(req[r]) /\ ~session(p) /\ permits' = permits + 1
    <3>1. Ends(r)
      BY <1>1, <2>3 DEF Ends
    <3> QED BY <1>5, <3>1 DEF Permits
  <2> QED BY <2>1, <2>2, <2>3
<1> QED BY <1>3, <1>4, <1>6

(* The end of a request. *)
LEMMA StepClose ==
    ASSUME SoundAll, NEW r \in Requests, NEW result \in Results, Close(r, result), req[r].stage # "closed",
           req[r].thread \/ req[r].job \in {"queued", "calling"} => result = "cancelled",
           req[r].ep # None /\ req[r].ep.kind \in Itemwise /\ result = "ok" => req[r].got = items(MaxItems),
           req[r].stage = "waiting" /\ req[r].job = "ok" /\ req[r].ep.kind = "submit" =>
                result \in {"internal", "cancelled"} \/ relayed'
    PROVE  SoundAll' /\ AllMove /\ Permits
<1> DEFINE p == closed(req[r], result)
<1>1. Sound(req[r])
  BY DEF SoundAll
<1>2. Sound(p) /\ Moves(req[r], p) /\ ~session(p)
  BY <1>1, ClosedSound
<1>3. req' = [req EXCEPT ![r] = p] /\ permits' = IF session(req[r]) THEN permits + 1 ELSE permits
  BY DEF Close
<1> HIDE DEF p
<1>4. CASE session(req[r])
  <2>1. permits' = permits + 1
    BY <1>3, <1>4
  <2> QED BY Zenon, <1>2, <1>3, <1>4, <2>1, OneRequest
<1>5. CASE ~session(req[r])
  <2>1. permits' = permits /\ Steady(req[r], p)
    BY <1>2, <1>3, <1>5 DEF Steady
  <2> QED BY Zenon, <1>2, <1>3, <2>1, OneRequest
<1> QED BY <1>4, <1>5

(* A request arrives, *)
LEMMA StepReceive ==
    ASSUME SoundAll, NEW r \in Requests, NEW e \in Offered[r],
           Refuse(r, e) \/ RunBlocking(r, e) \/ Subscribe(r, e) \/ DryRunStart(r, e) \/ Answer(r, e)
    PROVE  SoundAll' /\ AllMove /\ Permits
<1>1. /\ Sound(req[r]) /\ e \in Endpoints /\ req[r].stage = "connected" /\ server \in {"serving", "failed"}
  BY ServerAssumption DEF SoundAll, Refuse, RunBlocking, Subscribe, DryRunStart, Answer, Handle, Receives
<1>2. req \in [Requests -> Request]
  BY DEF SoundAll
<1> DEFINE q == req[r]
<1>3. CASE Refuse(r, e) \/ Answer(r, e)
  <2>1. PICK result \in {"refused", "ok"} :
            /\ req' = [req EXCEPT ![r] = closed([q EXCEPT !.ep = e], result)]
            /\ result = "ok" => e.kind \in {"worker", "local"}
    BY <1>3 DEF Refuse, Answer
  <2>2. result \in Results /\ (e.kind \in Itemwise => result # "ok") /\ permits' = permits
    BY <1>3, <2>1 DEF Results, Itemwise, Refuse, Answer
  <2> DEFINE p == closed([q EXCEPT !.ep = e], result)
  <2>3. Sound(p) /\ Moves(q, p) /\ Steady(q, p)
    BY <1>1, <2>2, AtOnceSound
  <2> HIDE DEF p
  <2>4. req' = [req EXCEPT ![r] = p]
    BY <2>1 DEF p
  <2> QED BY Zenon, <1>1, <2>2, <2>3, <2>4, OneRequest
<1>4. CASE RunBlocking(r, e)
  <2> DEFINE p == [q EXCEPT !.ep = e, !.stage = "waiting", !.job = "queued",
                            !.sender = IF e.ffi.sender THEN "job" ELSE "none"]
  <2>1. req' = [req EXCEPT ![r] = p] /\ e.kind \in Blocking /\ permits' = permits
    BY Zenon, <1>2, <1>4 DEF RunBlocking, Blocking
  <2>2. Sound(p) /\ Moves(q, p) /\ Steady(q, p)
    BY Zenon, <1>1, <2>1, RunBlockingSound
  <2> HIDE DEF p
  <2> QED BY Zenon, <1>1, <2>1, <2>2, OneRequest
<1>5. CASE Subscribe(r, e)
  <2> DEFINE p == [q EXCEPT !.ep = e, !.stage = "streaming", !.sender = e.kind]
  <2>1. req' = [req EXCEPT ![r] = p] /\ e.kind \in Relays /\ permits' = permits
    BY Zenon, <1>2, <1>5 DEF Subscribe
  <2>2. Sound(p) /\ Moves(q, p) /\ ~session(q) /\ (session(p) <=> e.kind = "session")
    BY Zenon, <1>1, <2>1, StreamingSound
  <2> HIDE DEF p
  <2>3. Steady(q, p)
    BY <2>1, <2>2 DEF Steady, Relays
  <2> QED BY Zenon, <1>1, <2>1, <2>2, <2>3, OneRequest
<1>6. CASE DryRunStart(r, e)
  <2> DEFINE p == [q EXCEPT !.ep = e, !.stage = "streaming"]
  <2>1. req' = [req EXCEPT ![r] = p] /\ e.kind = "session" /\ permits > 0 /\ permits' = permits - 1
    BY Zenon, <1>2, <1>6 DEF DryRunStart
  <2>2. p = [q EXCEPT !.ep = e, !.stage = "streaming"]
    OBVIOUS
  <2> HIDE DEF p
  <2>3. Sound(p) /\ Moves(q, p) /\ ~session(q) /\ (session(p) <=> e.kind = "session")
    <3>1. Sound(q) /\ q.stage = "connected" /\ e.kind = "session"
      BY <1>1, <2>1
    <3> HIDE DEF q
    <3> QED BY Zenon, <1>1, <2>2, <3>1, StreamingSound
  <2> QED BY Zenon, <1>1, <2>1, <2>3, OneRequest
<1> QED BY <1>3, <1>4, <1>5, <1>6

(* its job goes on, *)
LEMMA StepJob ==
    ASSUME SoundAll, NEW r \in Requests, StartJob(r) \/ FinishJob(r)
    PROVE  SoundAll' /\ AllMove /\ Permits
<1>1. Sound(req[r]) /\ req \in [Requests -> Request] /\ permits' = permits
  BY Zenon DEF SoundAll, StartJob, FinishJob
<1> DEFINE q == req[r]
<1>2. CASE StartJob(r)
  <2>1. PICK p : /\ req' = [req EXCEPT ![r] = p]
                 /\ \/ p = [q EXCEPT !.job = "invalid_argument", !.sender = IF @ = "job" THEN "freed" ELSE @]
                    \/ p = [q EXCEPT !.job = "calling"]
    <3>1. CASE req' = [req EXCEPT ![r].job = "invalid_argument", ![r].sender = IF @ = "job" THEN "freed" ELSE @]
      <4>1. req' = [req EXCEPT ![r] = [q EXCEPT !.job = "invalid_argument", !.sender = IF @ = "job" THEN "freed" ELSE @]]
        BY Zenon, <1>1, <3>1
      <4> QED BY Zenon, <4>1
    <3>2. CASE req' = [req EXCEPT ![r].job = "calling"]
      <4>1. req' = [req EXCEPT ![r] = [q EXCEPT !.job = "calling"]]
        BY <1>1, <3>2
      <4> QED BY Zenon, <4>1
    <3> QED BY <1>2, <3>1, <3>2 DEF StartJob
  <2>2. q.job = "queued"
    BY <1>2 DEF StartJob
  <2>3. Sound(p) /\ Moves(q, p) /\ Steady(q, p)
    BY Zenon, <1>1, <2>1, <2>2, StartJobSound
  <2> QED BY Zenon, <1>1, <2>1, <2>3, OneRequest
<1>3. CASE FinishJob(r)
  <2>1. PICK ok \in BOOLEAN : req' = [req EXCEPT ![r] = answered(q, ok)]
    BY Zenon, <1>3 DEF FinishJob
  <2>2. q.job = "calling"
    BY <1>3 DEF FinishJob
  <2> DEFINE p == answered(q, ok)
  <2>3. Sound(p) /\ Moves(q, p) /\ Steady(q, p)
    BY <1>1, <2>2, AnsweredSound
  <2>4. req' = [req EXCEPT ![r] = p]
    BY <2>1
  <2> HIDE DEF p
  <2> QED BY Zenon, <1>1, <2>3, <2>4, OneRequest
<1> QED BY <1>2, <1>3

(* it ends or its stream begins, *)
LEMMA StepEnd ==
    ASSUME SoundAll, NEW r \in Requests, Abandon(r) \/ Return(r) \/ EndOfStream(r) \/ DryRunEnd(r)
    PROVE  SoundAll' /\ AllMove /\ Permits
<1>1. Sound(req[r])
  BY DEF SoundAll
<1> DEFINE q == req[r]
<1>2. CASE Abandon(r)
  BY <1>2, StepClose DEF Abandon, Results
<1>3. CASE Return(r)
  <2>1. q.stage = "waiting" /\ q.job \in {"ok", "error", "invalid_argument"} /\ Close(r, q.job)
        /\ (q.job = "ok" => q.ep.kind = "unary")
    BY <1>3 DEF Return, Awaited
  <2>2. q.job \in Results /\ ~q.thread /\ q.job \notin {"queued", "calling"}
    BY Zenon, <1>1, <2>1 DEF Results, Sound, Itemwise
  <2> HIDE DEF q
  <2>3. q = req[r]
    BY DEF q
  <2> QED BY <2>1, <2>2, <2>3, StepClose DEF Itemwise
<1>4. CASE EndOfStream(r)
  <2>1. q.stage = "streaming" /\ q.chan = <<>> /\ q.sender = "freed" /\ Close(r, "ok")
    BY <1>4 DEF EndOfStream
  <2>2. ~q.thread /\ q.job \notin {"queued", "calling"} /\ q.got \in Seq(Nat)
    BY Zenon, <1>1, <2>1 DEF Sound, Request
  <2>3. ASSUME q.ep # None, q.ep.kind \in Itemwise PROVE q.got = items(MaxItems)
    <3>1. q.made = MaxItems /\ q.got \o q.chan = items(q.made)
      BY Zenon, <1>1, <2>1, <2>3 DEF Sound
    <3>2. q.got \o <<>> = q.got
      BY <2>2
    <3> QED BY <2>1, <3>1, <3>2
  <2> QED BY <2>1, <2>2, <2>3, StepClose DEF Results
<1>5. CASE DryRunEnd(r)
  <2>1. PICK result \in {"ok", "deadline_exceeded"} : Close(r, result)
    BY <1>5 DEF DryRunEnd
  <2>2. q.ep # None /\ q.ep.kind = "session" /\ q.stage = "streaming"
    BY Zenon, <1>5 DEF DryRunEnd, session
  <2>3. ~q.thread /\ q.job \notin {"queued", "calling"}
    BY Zenon, <1>1, <2>2 DEF Sound, Itemwise
  <2> QED BY Zenon, <2>1, <2>2, <2>3, StepClose DEF Results, Itemwise
<1> QED BY <1>2, <1>3, <1>4, <1>5

(* Accepting a call, handing its stream to the client and sending a block item
   leave a request sound. *)
LEMMA StepReturn ==
    ASSUME SoundAll, NEW r \in Requests, Accept(r) \/ ReturnStream(r) \/ SendBlockItem(r)
    PROVE  SoundAll' /\ AllMove /\ Permits
<1>1. Sound(req[r]) /\ req \in [Requests -> Request] /\ permits' = permits
  BY DEF SoundAll, Accept, ReturnStream, SendBlockItem
<1> DEFINE q == req[r]
<1>2. CASE Accept(r)
  <2> DEFINE p == [q EXCEPT !.stage = "connected"]
  <2>1. req' = [req EXCEPT ![r] = p] /\ q.stage = "new"
    BY <1>1, <1>2 DEF Accept
  <2>2. Sound(p) /\ Moves(q, p) /\ Steady(q, p)
    BY <1>1, <2>1, AcceptSound
  <2> HIDE DEF p
  <2> QED BY Zenon, <1>1, <2>1, <2>2, OneRequest
<1>3. CASE ReturnStream(r)
  <2> DEFINE p == [q EXCEPT !.stage = "streaming",
                            !.sender = IF q.ep.kind = "state" THEN "task" ELSE @,
                            !.thread = q.ep.kind = "state" \/ @]
  <2>1. q.stage = "waiting" /\ q.job = "ok" /\ q.ep.kind \in Itemwise
    BY <1>3 DEF ReturnStream, Awaited, Itemwise
  <2>2. req' = [req EXCEPT ![r] = p]
    BY Zenon, <1>1, <1>3 DEF ReturnStream
  <2>3. Sound(p) /\ Moves(q, p) /\ Steady(q, p)
    BY Zenon, <1>1, <2>1, ReturnStreamSound
  <2> HIDE DEF p
  <2> QED BY Zenon, <1>1, <2>2, <2>3, OneRequest
<1>4. CASE SendBlockItem(r)
  <2>1. PICK room \in BOOLEAN :
            /\ relayed' = (relayed \/ room)
            /\ req' = [req EXCEPT ![r] = closed(q, IF room THEN "ok" ELSE "internal")]
    BY Zenon, <1>4 DEF SendBlockItem
  <2>2. q.stage = "waiting" /\ q.job = "ok" /\ q.ep.kind = "submit"
    BY Zenon, <1>4 DEF SendBlockItem, Awaited
  <2> DEFINE result == IF room THEN "ok" ELSE "internal"
             p == closed(q, result)
  <2>3. result \in Results /\ (result \in {"internal", "cancelled"} \/ relayed') /\ ~q.thread
    BY Zenon, <1>1, <2>1, <2>2 DEF Results, Sound, Itemwise
  <2>4. req' = [req EXCEPT ![r] = p]
    BY <2>1
  <2> HIDE DEF result
  <2>5. Sound(p) /\ Moves(q, p) /\ ~session(p)
    BY Zenon, <1>1, <2>2, <2>3, ClosedSound DEF Itemwise
  <2>6. Steady(q, p)
    BY Zenon, <2>2, <2>5 DEF Steady, session
  <2> HIDE DEF p
  <2> QED BY Zenon, <1>1, <2>4, <2>5, <2>6, OneRequest
<1> QED BY <1>2, <1>3, <1>4

(* and items go through its channel. *)
LEMMA StepItem ==
    ASSUME SoundAll, NEW r \in Requests, EnqueueMessages(r) \/ SendState(r) \/ Take(r)
    PROVE  SoundAll' /\ AllMove /\ Permits
<1>1. Sound(req[r]) /\ req \in [Requests -> Request] /\ permits' = permits
  BY DEF SoundAll, EnqueueMessages, SendState, Take
<1> DEFINE q == req[r]
           sent == [q EXCEPT !.chan = Append(@, q.made + 1), !.made = @ + 1]
           freed == [q EXCEPT !.sender = "freed", !.thread = FALSE]
<1>2. q \in Request
  BY <1>1
<1>3. ASSUME q.thread, q.stage # "closed", q.made # MaxItems, req' = [req EXCEPT ![r] = sent]
      PROVE  SoundAll' /\ AllMove /\ Permits
  <2>1. Sound(sent) /\ Moves(q, sent) /\ Steady(q, sent)
    BY Zenon, <1>1, <1>3, SentSound
  <2> HIDE DEF sent
  <2> QED BY Zenon, <1>1, <1>3, <2>1, OneRequest
<1>4. ASSUME q.thread, q.stage = "closed" \/ q.made = MaxItems, req' = [req EXCEPT ![r] = freed]
      PROVE  SoundAll' /\ AllMove /\ Permits
  <2>1. Sound(freed) /\ Moves(q, freed) /\ Steady(q, freed)
    BY Zenon, <1>1, <1>4, FreedSound
  <2> HIDE DEF freed
  <2> QED BY Zenon, <1>1, <1>4, <2>1, OneRequest
<1>5. CASE EnqueueMessages(r)
  <2> DEFINE answer == enqueue_bytearray_callback(q, q.made = MaxItems)
             p == [answer.q EXCEPT !.made = IF answer.code = 0 THEN @ + 1 ELSE @, !.thread = answer.code # -2]
  <2>1. q.thread /\ req' = [req EXCEPT ![r] = p]
    BY <1>5 DEF EnqueueMessages
  <2>2. CASE q.made = MaxItems \/ q.stage = "closed"
    <3>1. answer = [code |-> -2, q |-> [q EXCEPT !.sender = "freed"]]
      BY <2>2 DEF enqueue_bytearray_callback
    <3>2. p = freed
      <4>1. answer.code = -2 /\ answer.q = [q EXCEPT !.sender = "freed"]
        BY <3>1
      <4>2. (answer.code # -2) = FALSE /\ (IF answer.code = 0 THEN answer.q.made + 1 ELSE answer.q.made) = q.made
        BY <1>2, <4>1 DEF Request
      <4>3. p = [[q EXCEPT !.sender = "freed"] EXCEPT !.made = q.made, !.thread = FALSE]
        BY Zenon, <4>1, <4>2
      <4> HIDE DEF p
      <4> QED BY Zenon, <1>2, <4>3 DEF Request
    <3> QED BY Zenon, <1>4, <2>1, <2>2, <3>2
  <2>3. CASE ~(q.made = MaxItems \/ q.stage = "closed") /\ Len(q.chan) > q.ep.size
    <3>1. answer = [code |-> -1, q |-> q]
      BY <2>3 DEF enqueue_bytearray_callback
    <3>2. p = q
      <4>1. answer.code = -1 /\ answer.q = q
        BY <3>1
      <4>2. (answer.code # -2) = TRUE /\ (IF answer.code = 0 THEN answer.q.made + 1 ELSE answer.q.made) = q.made
        <5> HIDE DEF answer
        <5> QED BY <4>1
      <4>3. p = [q EXCEPT !.made = q.made, !.thread = TRUE]
        BY Zenon, <4>1, <4>2
      <4>4. q.thread = TRUE
        BY <1>2, <2>1 DEF Request
      <4> HIDE DEF p
      <4> QED BY Zenon, <1>2, <4>3, <4>4 DEF Request
    <3>3. Moves(q, q) /\ Steady(q, q)
      BY <1>1, StillSound
    <3> HIDE DEF p
    <3> QED BY Zenon, <1>1, <2>1, <3>2, <3>3, OneRequest
  <2>4. CASE ~(q.made = MaxItems \/ q.stage = "closed") /\ ~(Len(q.chan) > q.ep.size)
    <3>1. answer = [code |-> 0, q |-> [q EXCEPT !.chan = Append(@, q.made + 1)]]
      BY <2>4 DEF enqueue_bytearray_callback
    <3>2. p = sent
      <4>1. answer.code = 0 /\ answer.q = [q EXCEPT !.chan = Append(@, q.made + 1)]
        BY <3>1
      <4>2. (answer.code # -2) = TRUE /\ (IF answer.code = 0 THEN answer.q.made + 1 ELSE answer.q.made) = q.made + 1
        <5> HIDE DEF answer
        <5>1. answer.q.made = q.made
          BY <1>2, <4>1 DEF Request
        <5> QED BY <4>1, <5>1
      <4>3. p = [[q EXCEPT !.chan = Append(@, q.made + 1)] EXCEPT !.made = q.made + 1, !.thread = TRUE]
        BY Zenon, <4>1, <4>2
      <4>4. q.thread = TRUE
        BY <1>2, <2>1 DEF Request
      <4> HIDE DEF p
      <4> QED BY Zenon, <1>2, <4>3, <4>4 DEF Request
    <3> QED BY Zenon, <1>3, <2>1, <2>4, <3>2
  <2> QED BY Zenon, <2>2, <2>3, <2>4
<1>6. CASE SendState(r)
  <2>1. q.thread
    BY <1>6 DEF SendState
  <2>2. CASE q.stage = "closed" \/ q.made = MaxItems
    <3>1. req' = [req EXCEPT ![r] = freed]
      BY Zenon, <1>1, <1>2, <1>6, <2>2 DEF SendState, Request
    <3> QED BY <1>4, <2>1, <2>2, <3>1
  <2>3. CASE ~(q.stage = "closed" \/ q.made = MaxItems)
    <3>1. req' = [req EXCEPT ![r] = sent]
      BY Zenon, <1>1, <1>2, <1>6, <2>3 DEF SendState, Request
    <3> QED BY <1>3, <2>1, <2>3, <3>1
  <2> QED BY <2>2, <2>3
<1>7. CASE Take(r)
  <2> DEFINE p == [q EXCEPT !.chan = Tail(@), !.got = Append(@, Head(q.chan))]
  <2>1. req' = [req EXCEPT ![r] = p] /\ q.stage = "streaming" /\ q.chan # <<>>
    BY Zenon, <1>1, <1>2, <1>7 DEF Take, Request
  <2>2. Sound(p) /\ Moves(q, p) /\ Steady(q, p)
    BY Zenon, <1>1, <2>1, TakeSound
  <2> HIDE DEF p
  <2> QED BY Zenon, <1>1, <2>1, <2>2, OneRequest
<1> QED BY <1>5, <1>6, <1>7

(* A session goes on, or one of its operations fails. *)
LEMMA StepDryRun ==
    ASSUME SoundAll, NEW r \in Requests, NEW op \in SessionOperations, DryRun(r, op)
    PROVE  SoundAll' /\ AllMove /\ Permits
<1> DEFINE q == req[r]
           p == [q EXCEPT !.made = @ + 1]
<1>1. Sound(q) /\ req \in [Requests -> Request] /\ session(q) /\ q.made < MaxItems
  BY DEF SoundAll, DryRun
<1>2. CASE req' = [req EXCEPT ![r].made = @ + 1] /\ permits' = permits
  <2>1. req' = [req EXCEPT ![r] = p]
    BY <1>1, <1>2
  <2>2. Sound(p) /\ Moves(q, p) /\ Steady(q, p)
    BY <1>1, DryRunSound
  <2> HIDE DEF p
  <2> QED BY Zenon, <1>1, <1>2, <2>1, <2>2, OneRequest
<1>3. CASE Close(r, "error")
  <2>1. q.ep # None /\ q.ep.kind = "session" /\ q.stage = "streaming"
    BY Zenon, <1>1 DEF session
  <2>2. ~q.thread /\ q.job \notin {"queued", "calling"}
    BY Zenon, <1>1, <2>1 DEF Sound, Itemwise
  <2> QED BY Zenon, <1>3, <2>1, <2>2, StepClose DEF Results
<1> QED BY <1>2, <1>3 DEF DryRun

(* A relay hands on a block. *)
LEMMA StepRelay ==
    ASSUME SoundAll, Wired, NEW w \in Relays, Relay(w)
    PROVE  SoundAll' /\ AllMove /\ Permits
<1> DEFINE p(r) == retain(req[r], Head(notified[w]))
<1>1. /\ notified[w] \in Seq(Nat) /\ notified[w] # <<>> /\ notified' = [notified EXCEPT ![w] = Tail(@)]
      /\ permits' = permits /\ req' = [r \in Requests |-> IF req[r].sender = w THEN p(r) ELSE req[r]]
  BY DEF Relay, Wired
<1>2. \A r \in Requests : req'[r] = IF req[r].sender = w THEN p(r) ELSE req[r]
  BY <1>1
<1>3. \A r \in Requests : req[r].sender = w => Sound(p(r)) /\ Moves(req[r], p(r)) /\ Steady(req[r], p(r))
  BY Zenon, <1>1, RetainSound DEF SoundAll
<1> HIDE DEF p
<1>4. \A r \in Requests : Sound(req'[r]) /\ Moves(req[r], req'[r]) /\ Steady(req[r], req'[r])
  BY <1>2, <1>3, StillSound DEF SoundAll
<1>5. req' \in [Requests -> Request]
  BY Zenon, <1>1, <1>3 DEF SoundAll, Sound
<1> QED BY <1>1, <1>4, <1>5 DEF SoundAll, AllMove, Permits

(* The server is told to stop. *)
LEMMA StepSignal ==
    ASSUME SoundAll, Signal
    PROVE  SoundAll' /\ AllMove /\ Permits
<1>1. permits' = permits
  BY DEF Signal
<1>2. \A r \in Requests : Moves(req[r], req[r]) /\ Steady(req[r], req[r])
  BY StillSound DEF SoundAll
<1>3. CASE req' = req
  BY <1>1, <1>2, <1>3 DEF SoundAll, AllMove, Permits
<1>4. CASE req' = [r \in Requests |-> IF req[r].stage = "connected" THEN closed(req[r], "cancelled") ELSE req[r]]
  <2> DEFINE p(r) == closed(req[r], "cancelled")
  <2>1. \A r \in Requests : req'[r] = IF req[r].stage = "connected" THEN p(r) ELSE req[r]
    BY <1>4
  <2>2. ASSUME NEW r \in Requests, req[r].stage = "connected"
        PROVE  Sound(p(r)) /\ Moves(req[r], p(r)) /\ Steady(req[r], p(r))
    <3>1. Sound(p(r)) /\ Moves(req[r], p(r)) /\ ~session(p(r))
      BY <2>2, ClosedSound DEF SoundAll, Results
    <3> QED BY <2>2, <3>1 DEF Steady, session
  <2> HIDE DEF p
  <2>3. \A r \in Requests : Sound(req'[r]) /\ Moves(req[r], req'[r]) /\ Steady(req[r], req'[r])
    BY Zenon, <1>2, <2>1, <2>2 DEF SoundAll
  <2>4. req' \in [Requests -> Request]
    BY Zenon, <1>4, <2>2 DEF SoundAll, Sound, p
  <2> QED BY <1>1, <2>3, <2>4 DEF SoundAll, AllMove, Permits
<1> QED BY <1>3, <1>4 DEF Signal

(* All together. *)
LEMMA StepNext ==
    ASSUME SoundAll, Wired, [Next]_vars
    PROVE  SoundAll' /\ AllMove /\ Permits
<1>1. ASSUME req' = req, permits' = permits
      PROVE  SoundAll' /\ AllMove /\ Permits
  BY <1>1, StillSound DEF SoundAll, AllMove, Permits
<1>2. ASSUME NEW r \in Requests, NEW e \in Offered[r],
             Refuse(r, e) \/ RunBlocking(r, e) \/ Subscribe(r, e) \/ DryRunStart(r, e) \/ Answer(r, e)
      PROVE  SoundAll' /\ AllMove /\ Permits
  BY <1>2, StepReceive
<1>3. ASSUME NEW r \in Requests,
             \/ Accept(r) \/ Abandon(r) \/ StartJob(r) \/ FinishJob(r) \/ Return(r) \/ ReturnStream(r) \/ SendBlockItem(r)
             \/ EnqueueMessages(r) \/ SendState(r) \/ Take(r) \/ EndOfStream(r) \/ DryRunEnd(r)
             \/ \E op \in SessionOperations : DryRun(r, op)
      PROVE  SoundAll' /\ AllMove /\ Permits
  BY <1>3, StepJob, StepEnd, StepReturn, StepItem, StepDryRun
<1>4. ASSUME NEW w \in Relays, NotifyCallback(w)
      PROVE  SoundAll' /\ AllMove /\ Permits
  BY <1>1, <1>4 DEF NotifyCallback
<1>5. ASSUME NEW w \in Relays, Relay(w)
      PROVE  SoundAll' /\ AllMove /\ Permits
  BY <1>5, StepRelay
<1>6. CASE Signal
  BY <1>6, StepSignal
<1>7. CASE ServerFails \/ ServerEnds \/ ShutdownReturns \/ StopHaskell
  BY <1>1, <1>7 DEF ServerFails, ServerEnds, ShutdownReturns, StopHaskell
<1>8. CASE UNCHANGED vars
  BY <1>1, <1>8 DEF vars
<1> QED BY Zenon, <1>2, <1>3, <1>4, <1>5, <1>6, <1>7, <1>8 DEF Next
-----------------------------------------------------------------------------
(* The blocks that a subscriber has, s, then those that wait for the relay,
   t, are in order; n is the last one that was notified. *)
Fits(s, t, n) ==
    /\ increasing(s) /\ increasing(t)
    /\ \A i \in DOMAIN s : s[i] <= n
    /\ \A j \in DOMAIN t : t[j] <= n
    /\ \A i \in DOMAIN s, j \in DOMAIN t : s[i] < t[j]

(* It stays so for a new subscriber, *)
LEMMA FitsNew ==
    ASSUME NEW t \in Seq(Nat), NEW n \in Nat, NEW s, Fits(s, t, n)
    PROVE  Fits(<<>>, t, n)
  BY DEF Fits, increasing

(* with a new block, *)
LEMMA FitsNotified ==
    ASSUME NEW s \in Seq(Nat), NEW t \in Seq(Nat), NEW n \in Nat, Fits(s, t, n)
    PROVE  Fits(s, t, n + 1) /\ Fits(s, Append(t, n + 1), n + 1)
<1>1. /\ \A i \in DOMAIN s : s[i] \in Nat /\ s[i] <= n
      /\ \A j \in DOMAIN t : t[j] \in Nat /\ t[j] <= n
  BY DEF Fits
<1>2. Fits(s, t, n + 1)
  BY <1>1 DEF Fits
<1> DEFINE u == Append(t, n + 1)
<1>3. /\ DOMAIN u = 1 .. Len(t) + 1 /\ DOMAIN t = 1 .. Len(t) /\ Len(t) \in Nat
      /\ u[Len(t) + 1] = n + 1
      /\ \A j \in DOMAIN t : u[j] = t[j]
  OBVIOUS
<1> HIDE DEF u
<1>4. \A j \in DOMAIN u : j = Len(t) + 1 \/ j \in DOMAIN t
  BY <1>3
<1>5. increasing(u)
  <2> SUFFICES ASSUME NEW i \in DOMAIN u, NEW j \in DOMAIN u, i < j
               PROVE  u[i] < u[j]
    BY DEF increasing
  <2>1. i \in DOMAIN t /\ u[i] = t[i]
    BY <1>3
  <2>2. CASE j \in DOMAIN t
    BY <1>3, <2>1, <2>2 DEF Fits, increasing
  <2>3. CASE j = Len(t) + 1
    BY <1>1, <1>3, <2>1, <2>3
  <2> QED BY <1>4, <2>2, <2>3
<1>6. \A j \in DOMAIN u : u[j] <= n + 1
  BY <1>1, <1>3, <1>4
<1>7. ASSUME NEW i \in DOMAIN s, NEW j \in DOMAIN u PROVE s[i] < u[j]
  <2>1. CASE j \in DOMAIN t
    BY <1>3, <2>1 DEF Fits
  <2>2. CASE j = Len(t) + 1
    BY <1>1, <1>3, <2>2
  <2> QED BY <1>4, <2>1, <2>2
<1>8. Fits(s, u, n + 1)
  BY <1>2, <1>5, <1>6, <1>7 DEF Fits
<1> QED BY <1>2, <1>8 DEF u

(* and when the relay takes one, whether the subscriber gets or misses it. *)
LEMMA FitsRelayed ==
    ASSUME NEW s \in Seq(Nat), NEW t \in Seq(Nat), NEW n \in Nat, Fits(s, t, n), t # <<>>
    PROVE  Fits(s, Tail(t), n) /\ Fits(Append(s, Head(t)), Tail(t), n)
<1> DEFINE u == Tail(t)
           v == Append(s, Head(t))
<1>1. /\ DOMAIN u = 1 .. Len(t) - 1 /\ DOMAIN t = 1 .. Len(t) /\ Len(t) \in Nat /\ Len(t) >= 1
      /\ \A j \in DOMAIN u : u[j] = t[j + 1]
      /\ Head(t) = t[1]
  OBVIOUS
<1>2. /\ DOMAIN v = 1 .. Len(s) + 1 /\ DOMAIN s = 1 .. Len(s) /\ Len(s) \in Nat
      /\ v[Len(s) + 1] = t[1]
      /\ \A i \in DOMAIN s : v[i] = s[i]
  BY <1>1
<1>3. /\ \A i \in DOMAIN s : s[i] \in Nat
      /\ \A j \in DOMAIN t : t[j] \in Nat
  OBVIOUS
<1> HIDE DEF u, v
<1>4. \A j \in DOMAIN u : j + 1 \in DOMAIN t /\ 1 < j + 1 /\ 1 \in DOMAIN t
  BY <1>1
<1>5. Fits(s, u, n)
  <2>1. increasing(u)
    <3> SUFFICES ASSUME NEW i \in DOMAIN u, NEW j \in DOMAIN u, i < j
                 PROVE  u[i] < u[j]
      BY DEF increasing
    <3>1. i \in Nat /\ j \in Nat
      BY <1>1
    <3>2. i + 1 \in DOMAIN t /\ j + 1 \in DOMAIN t /\ i + 1 < j + 1
      BY <1>4, <3>1
    <3> QED BY <1>1, <3>2 DEF Fits, increasing
  <2> QED BY <1>1, <1>4, <2>1 DEF Fits
<1>6. \A i \in DOMAIN v : i = Len(s) + 1 \/ i \in DOMAIN s
  BY <1>2
<1>7. increasing(v)
  <2> SUFFICES ASSUME NEW i \in DOMAIN v, NEW j \in DOMAIN v, i < j
               PROVE  v[i] < v[j]
    BY DEF increasing
  <2>1. i \in DOMAIN s /\ v[i] = s[i]
    BY <1>2
  <2>2. CASE j \in DOMAIN s
    BY <1>2, <2>1, <2>2 DEF Fits, increasing
  <2>3. CASE j = Len(s) + 1
    BY <1>1, <1>2, <2>1, <2>3 DEF Fits
  <2> QED BY <1>6, <2>2, <2>3
<1>8. \A i \in DOMAIN v : v[i] <= n
  BY <1>1, <1>2, <1>6 DEF Fits
<1>9. ASSUME NEW i \in DOMAIN v, NEW j \in DOMAIN u PROVE v[i] < u[j]
  <2>1. u[j] = t[j + 1] /\ j + 1 \in DOMAIN t /\ 1 < j + 1 /\ 1 \in DOMAIN t
    BY <1>1, <1>4
  <2>2. CASE i \in DOMAIN s
    BY <1>2, <2>1, <2>2 DEF Fits
  <2>3. CASE i = Len(s) + 1
    BY <1>2, <2>1, <2>3 DEF Fits, increasing
  <2> QED BY <1>6, <2>2, <2>3
<1>10. Fits(v, u, n)
  BY <1>5, <1>7, <1>8, <1>9 DEF Fits
<1> QED BY <1>5, <1>10 DEF u, v

(* The steps of one request change nothing of the node and the relays. *)
RequestStep(r) ==
    \/ Accept(r) \/ Abandon(r) \/ StartJob(r) \/ FinishJob(r) \/ Return(r) \/ ReturnStream(r) \/ SendBlockItem(r)
    \/ EnqueueMessages(r) \/ SendState(r) \/ Take(r) \/ EndOfStream(r) \/ DryRunEnd(r)
    \/ \E op \in SessionOperations : DryRun(r, op)
    \/ \E e \in Offered[r] :
        Refuse(r, e) \/ RunBlocking(r, e) \/ Subscribe(r, e) \/ DryRunStart(r, e) \/ Answer(r, e)

(* A step of one request changes nothing of the server. *)
LEMMA RequestOnly ==
    ASSUME NEW r \in Requests, RequestStep(r)
    PROVE  UNCHANGED <<server, main, relaying, notified, blocks, haskell>>
<1>1. CASE Accept(r) \/ ReturnStream(r) \/ SendBlockItem(r)
  BY <1>1 DEF Accept, ReturnStream, SendBlockItem
<1>2. CASE EnqueueMessages(r) \/ SendState(r) \/ Take(r)
  BY <1>2 DEF EnqueueMessages, SendState, Take
<1>3. CASE StartJob(r) \/ FinishJob(r)
  BY Zenon, <1>3 DEF StartJob, FinishJob
<1>4. CASE Abandon(r) \/ Return(r) \/ EndOfStream(r) \/ DryRunEnd(r)
  BY Zenon, <1>4 DEF Abandon, Return, EndOfStream, DryRunEnd, Close
<1>5. ASSUME NEW op \in SessionOperations, DryRun(r, op)
      PROVE  UNCHANGED <<server, main, relaying, notified, blocks, haskell>>
  BY <1>5 DEF DryRun, Close
<1>6. ASSUME NEW e \in Offered[r],
             Refuse(r, e) \/ RunBlocking(r, e) \/ Subscribe(r, e) \/ DryRunStart(r, e) \/ Answer(r, e)
      PROVE  UNCHANGED <<server, main, relaying, notified, blocks, haskell>>
  BY <1>6 DEF Refuse, RunBlocking, Subscribe, DryRunStart, Answer
<1> QED BY Zenon, <1>1, <1>2, <1>3, <1>4, <1>5, <1>6 DEF RequestStep

(* What a step does to the blocks that wait for a relay. *)
LEMMA StepNotified ==
    ASSUME Wired, [Next]_vars
    PROVE  /\ Wired'
           /\ \A w \in Relays :
                \/ notified'[w] = notified[w] /\ blocks'[w] \in {blocks[w], blocks[w] + 1}
                \/ notified'[w] = Append(notified[w], blocks[w] + 1) /\ blocks'[w] = blocks[w] + 1
                \/ notified[w] # <<>> /\ notified'[w] = Tail(notified[w]) /\ blocks'[w] = blocks[w]
<1>1. CASE UNCHANGED <<notified, blocks>>
  BY <1>1 DEF Wired
<1>2. ASSUME NEW w \in Relays, NotifyCallback(w)
      PROVE  /\ Wired'
             /\ \A v \in Relays :
                \/ notified'[v] = notified[v] /\ blocks'[v] \in {blocks[v], blocks[v] + 1}
                \/ notified'[v] = Append(notified[v], blocks[v] + 1) /\ blocks'[v] = blocks[v] + 1
  <2>1. blocks[w] \in Nat /\ notified[w] \in Seq(Nat) /\ blocks' = [blocks EXCEPT ![w] = @ + 1]
    BY <1>2 DEF NotifyCallback, Wired
  <2>2. PICK t \in Seq(Nat) : notified' = [notified EXCEPT ![w] = t] /\ t \in {notified[w], Append(notified[w], blocks[w] + 1)}
    <3>1. Append(notified[w], blocks[w] + 1) \in Seq(Nat)
      BY <2>1, Channels
    <3>2. notified' = [notified EXCEPT ![w] = IF relaying THEN Append(notified[w], blocks[w] + 1) ELSE notified[w]]
      BY <1>2 DEF NotifyCallback
    <3>3. CASE relaying
      BY Zenon, <3>1, <3>2, <3>3
    <3>4. CASE ~relaying
      BY Zenon, <2>1, <3>2, <3>4
    <3> QED BY <3>3, <3>4
  <2>3. Wired'
    BY <2>1, <2>2 DEF Wired
  <2>4. /\ blocks'[w] = blocks[w] + 1 /\ notified'[w] = t
        /\ \A v \in Relays \ {w} : blocks'[v] = blocks[v] /\ notified'[v] = notified[v]
    BY <2>1, <2>2 DEF Wired
  <2> QED BY <2>2, <2>3, <2>4
<1>3. ASSUME NEW w \in Relays, Relay(w)
      PROVE  /\ Wired'
             /\ \A v \in Relays :
                \/ notified'[v] = notified[v] /\ blocks'[v] = blocks[v]
                \/ notified[v] # <<>> /\ notified'[v] = Tail(notified[v]) /\ blocks'[v] = blocks[v]
  <2>1. /\ notified[w] \in Seq(Nat) /\ notified[w] # <<>> /\ blocks' = blocks
        /\ notified' = [notified EXCEPT ![w] = Tail(notified[w])]
    BY <1>3 DEF Relay, Wired
  <2>2. Tail(notified[w]) \in Seq(Nat)
    BY <2>1, Channels
  <2> QED BY <2>1, <2>2 DEF Wired
<1>4. CASE \E w \in Relays : NotifyCallback(w) \/ Relay(w)
  BY <1>2, <1>3, <1>4
<1>5. CASE \E r \in Requests : RequestStep(r)
  BY <1>1, <1>5, RequestOnly
<1>6. CASE ServerFails \/ Signal \/ ServerEnds \/ ShutdownReturns \/ StopHaskell \/ UNCHANGED vars
  BY <1>1, <1>6 DEF ServerFails, Signal, ServerEnds, ShutdownReturns, StopHaskell, vars
<1> QED BY Zenon, <1>4, <1>5, <1>6 DEF Next, RequestStep

(* The blocks of subscribers and relays are in order. *)
Order ==
    \A w \in Relays :
        /\ Fits(<<>>, notified[w], blocks[w])
        /\ \A r \in Requests : req[r].ep # None /\ req[r].ep.kind = w /\ req[r].stage = "streaming" =>
            Fits(req[r].got \o req[r].chan, notified[w], blocks[w])

(* Every step keeps the order of the notifications: what a subscriber has got and
   what is in its channel stay a stretch of what the consensus announced. *)
LEMMA OrderNext ==
    ASSUME SoundAll, Wired, Order, [Next]_vars
    PROVE  Order'
<1>1. AllMove /\ SoundAll'
  BY StepNext
<1> SUFFICES ASSUME NEW w \in Relays
             PROVE  /\ Fits(<<>>, notified'[w], blocks'[w])
                    /\ \A r \in Requests : req'[r].ep # None /\ req'[r].ep.kind = w /\ req'[r].stage = "streaming" =>
                            Fits(req'[r].got \o req'[r].chan, notified'[w], blocks'[w])
  BY Zenon DEF Order
<1> DEFINE t == notified[w]
           n == blocks[w]
<1>2. t \in Seq(Nat) /\ n \in Nat /\ <<>> \in Seq(Nat)
  BY DEF Wired
<1>3. \/ notified'[w] = t /\ blocks'[w] \in {n, n + 1}
      \/ notified'[w] = Append(t, n + 1) /\ blocks'[w] = n + 1
      \/ t # <<>> /\ notified'[w] = Tail(t) /\ blocks'[w] = n
  BY StepNotified
<1>4. ASSUME NEW s \in Seq(Nat), Fits(s, t, n) PROVE Fits(s, notified'[w], blocks'[w])
  BY Zenon, <1>2, <1>3, <1>4, FitsNotified, FitsRelayed
<1>5. Fits(<<>>, notified'[w], blocks'[w])
  BY Zenon, <1>2, <1>4 DEF Order
<1>6. ASSUME NEW r \in Requests, req'[r].ep # None, req'[r].ep.kind = w, req'[r].stage = "streaming"
      PROVE  Fits(req'[r].got \o req'[r].chan, notified'[w], blocks'[w])
  <2> DEFINE q == req[r]
             p == req'[r]
             s == q.got \o q.chan
  <2>1. Moves(q, p)
    BY <1>1 DEF AllMove
  <2>2. q.got \in Seq(Nat) /\ q.chan \in Seq(Nat)
    BY DEF SoundAll, Request
  <2>3. s \in Seq(Nat)
    BY <2>2
  <2>4. \/ p.got \o p.chan = <<>>
        \/ /\ q.ep # None /\ q.ep.kind = w /\ q.stage = "streaming"
           /\ \/ p.got \o p.chan = s
              \/ /\ t # <<>> /\ notified' = [notified EXCEPT ![w] = Tail(@)]
                 /\ p.got \o p.chan = Append(s, Head(t))
    BY Zenon, <1>6, <2>1 DEF Moves
  <2>5. q.ep # None /\ q.ep.kind = w /\ q.stage = "streaming" => Fits(s, t, n)
    BY Zenon DEF Order
  <2> HIDE DEF s, q, p
  <2>6. CASE p.got \o p.chan = <<>>
    BY <1>5, <2>6 DEF p
  <2>7. CASE p.got \o p.chan = s /\ Fits(s, t, n)
    BY <1>4, <2>3, <2>7 DEF p
  <2>8. CASE t # <<>> /\ notified' = [notified EXCEPT ![w] = Tail(@)] /\ p.got \o p.chan = Append(s, Head(t)) /\ Fits(s, t, n)
    <3>1. notified'[w] = Tail(t) /\ blocks'[w] \in {n, n + 1}
      BY <1>3, <2>8 DEF Wired
    <3>2. Fits(Append(s, Head(t)), Tail(t), n) /\ Append(s, Head(t)) \in Seq(Nat) /\ Tail(t) \in Seq(Nat)
      BY <1>2, <2>3, <2>8, FitsRelayed, Channels
    <3>3. Fits(Append(s, Head(t)), Tail(t), n + 1)
      BY Zenon, <1>2, <3>2, FitsNotified
    <3> QED BY Zenon, <2>8, <3>1, <3>2, <3>3 DEF p
  <2> QED BY Zenon, <2>4, <2>5, <2>6, <2>7, <2>8
<1> QED BY <1>5, <1>6
-----------------------------------------------------------------------------
(* The permits that are left and the sessions are as many as there were
   permits. *)
sessions == {r \in Requests : session(req[r])}
PermitsKept == permits \in Nat /\ permits + Cardinality(sessions) = MaxDryRuns

(* A permit is taken with every dry-run session that begins, and comes back when it ends. *)
LEMMA PermitsNext ==
    ASSUME PermitsKept, Permits
    PROVE  PermitsKept'
<1>1. IsFiniteSet(sessions) /\ Cardinality(sessions) \in Nat
  BY Zenon, ServerAssumption, FS_Subset, FS_CardinalityType DEF sessions
<1>2. CASE permits' = permits /\ \A r \in Requests : Steady(req[r], req'[r])
  <2>1. sessions' = sessions
    BY Zenon, <1>2 DEF sessions, Steady
  <2> QED BY <1>2, <2>1 DEF PermitsKept
<1>3. ASSUME NEW r \in Requests, Begins(r), \A s \in Requests \ {r} : Steady(req[s], req'[s])
      PROVE  PermitsKept'
  <2>1. sessions' = sessions \cup {r} /\ r \notin sessions
    BY <1>3 DEF sessions, Steady, Begins
  <2>2. Cardinality(sessions') = Cardinality(sessions) + 1
    BY Zenon, <1>1, <2>1, FS_AddElement
  <2> QED BY <1>1, <1>3, <2>2 DEF PermitsKept, Begins
<1>4. ASSUME NEW r \in Requests, Ends(r), \A s \in Requests \ {r} : Steady(req[s], req'[s])
      PROVE  PermitsKept'
  <2>1. sessions' = sessions \ {r} /\ r \in sessions
    BY <1>4 DEF sessions, Steady, Ends
  <2>2. Cardinality(sessions') = Cardinality(sessions) - 1
    BY <1>1, <2>1, FS_RemoveElement
  <2> QED BY <1>1, <1>4, <2>2 DEF PermitsKept, Ends
<1> QED BY Zenon, <1>2, <1>3, <1>4 DEF Permits

(* A transaction is accepted by a call for a request that is still awaited,
   or was cancelled. *)
LEMMA StepAccepted ==
    ASSUME SoundAll, [Next]_vars
    PROVE  /\ relayed => relayed'
           /\ accepted' => \/ accepted
                           \/ \E r \in Requests : /\ req'[r].ep = send_block_item /\ req'[r].job = "ok"
                                                  /\ req'[r].stage = "waiting" \/ req'[r].result = "cancelled"
<1>1. CASE UNCHANGED <<accepted, relayed>>
  BY <1>1
<1>2. ASSUME NEW r \in Requests, FinishJob(r)
      PROVE  /\ relayed' = relayed
             /\ accepted' => \/ accepted
                             \/ \E s \in Requests : /\ req'[s].ep = send_block_item /\ req'[s].job = "ok"
                                                    /\ req'[s].stage = "waiting" \/ req'[s].result = "cancelled"
  <2> DEFINE q == req[r]
  <2>1. PICK ok \in BOOLEAN :
            /\ req' = [req EXCEPT ![r] = answered(q, ok)]
            /\ accepted' = accepted \/ (q.ep.kind = "submit" /\ accepted' = (accepted \/ ok))
    BY Zenon, <1>2 DEF FinishJob
  <2>2. q.job = "calling" /\ relayed' = relayed /\ q \in Request /\ Sound(q)
    BY Zenon, <1>2 DEF FinishJob, SoundAll
  <2>3. CASE q.ep.kind = "submit" /\ ok
    <3>1. q.ep \in Endpoints /\ (q.stage = "waiting" \/ q.result = "cancelled")
      BY Zenon, <2>2 DEF Sound, Request
    <3>2. q.ep = send_block_item
      BY <2>3, <3>1, EndpointFacts
    <3>3. /\ answered(q, ok).ep = q.ep /\ answered(q, ok).job = "ok"
          /\ answered(q, ok).stage = q.stage /\ answered(q, ok).result = q.result
      BY <2>2, <2>3 DEF answered, Request
    <3>4. req'[r] = answered(q, ok)
      BY Zenon, <2>1 DEF SoundAll
    <3> QED BY Zenon, <2>2, <3>1, <3>2, <3>3, <3>4
  <2>4. CASE ~(q.ep.kind = "submit" /\ ok)
    <3>1. accepted' => accepted
      BY Zenon, <2>1, <2>4
    <3> QED BY Zenon, <2>2, <3>1
  <2> QED BY <2>3, <2>4
<1>3. ASSUME NEW r \in Requests, SendBlockItem(r)
      PROVE  accepted' = accepted /\ (relayed => relayed')
  BY Zenon, <1>3 DEF SendBlockItem
<1>4. ASSUME NEW r \in Requests, RequestStep(r), ~FinishJob(r), ~SendBlockItem(r)
      PROVE  UNCHANGED <<accepted, relayed>>
  <2>1. CASE Accept(r) \/ ReturnStream(r) \/ StartJob(r) \/ EnqueueMessages(r) \/ SendState(r) \/ Take(r)
    BY Zenon, <2>1 DEF Accept, ReturnStream, StartJob, EnqueueMessages, SendState, Take
  <2>2. CASE Abandon(r) \/ Return(r) \/ EndOfStream(r) \/ DryRunEnd(r)
    BY Zenon, <2>2 DEF Abandon, Return, EndOfStream, DryRunEnd, Close
  <2>3. ASSUME NEW op \in SessionOperations, DryRun(r, op)
        PROVE  UNCHANGED <<accepted, relayed>>
    BY <2>3 DEF DryRun, Close
  <2>4. ASSUME NEW e \in Offered[r],
               Refuse(r, e) \/ RunBlocking(r, e) \/ Subscribe(r, e) \/ DryRunStart(r, e) \/ Answer(r, e)
        PROVE  UNCHANGED <<accepted, relayed>>
    BY <2>4 DEF Refuse, RunBlocking, Subscribe, DryRunStart, Answer
  <2> QED BY Zenon, <1>4, <2>1, <2>2, <2>3, <2>4 DEF RequestStep
<1>5. CASE (\E w \in Relays : NotifyCallback(w) \/ Relay(w)) \/ ServerFails \/ Signal \/ ServerEnds \/ ShutdownReturns
           \/ StopHaskell \/ UNCHANGED vars
  BY Zenon, <1>1, <1>5 DEF NotifyCallback, Relay, ServerFails, Signal, ServerEnds, ShutdownReturns, StopHaskell, vars
<1>6. CASE \E r \in Requests : RequestStep(r)
  BY Zenon, <1>1, <1>2, <1>3, <1>4, <1>6
<1> QED BY Zenon, <1>5, <1>6 DEF Next, RequestStep

(* It is sent, or its request remembers why not. *)
LEMMA AcceptedNext ==
    ASSUME SoundAll, Wired, AcceptedIsSent, [Next]_vars
    PROVE  AcceptedIsSent'
<1> SUFFICES ASSUME accepted', ~relayed'
             PROVE  \E r \in Requests : /\ req'[r].ep = send_block_item /\ req'[r].job = "ok"
                                        /\ req'[r].stage = "waiting" \/ req'[r].result \in {"internal", "cancelled"}
  BY DEF AcceptedIsSent
<1>1. AllMove
  BY StepNext
<1>2. CASE accepted
  <2>1. PICK r \in Requests : /\ req[r].ep = send_block_item /\ req[r].job = "ok"
                              /\ req[r].stage = "waiting" \/ req[r].result \in {"internal", "cancelled"}
    BY <1>2, StepAccepted DEF AcceptedIsSent
  <2>2. Moves(req[r], req'[r]) /\ Sound(req[r])
    BY <1>1 DEF AllMove, SoundAll
  <2>3. send_block_item # None /\ send_block_item.kind = "submit"
    BY ServerAssumption DEF Endpoints, send_block_item, Endpoint
  <2>4. req'[r].ep = send_block_item /\ req'[r].job = "ok"
    BY Zenon, <2>1, <2>2, <2>3 DEF Moves
  <2>5. CASE req[r].stage = "waiting"
    BY Zenon, <2>1, <2>2, <2>3, <2>4, <2>5 DEF Moves
  <2>6. CASE req[r].stage # "waiting"
    <3>1. req[r].stage = "closed" /\ req[r].result \in {"internal", "cancelled"}
      BY Zenon, <2>1, <2>2, <2>6, NoResult DEF Sound
    <3> QED BY Zenon, <2>2, <2>4, <3>1 DEF Moves
  <2> QED BY <2>5, <2>6
<1>3. CASE ~accepted
  BY <1>3, StepAccepted
<1> QED BY Zenon, <1>2, <1>3

(* A call of Haskell that is late is one for a request that the server could
   still serve, or whose job, thread or task is left. *)
Outlives(q) ==
    server \in {"serving", "failed"} \/ q.stage = "streaming" \/ q.job \in {"queued", "calling"} \/ q.thread

(* Only a request that outlives the server can call a stopped consensus. *)
LEMMA StepLate ==
    ASSUME late \subseteq Requests, [Next]_vars
    PROVE  \/ late' = late
           \/ haskell' = "stopped" /\ \E S \in SUBSET Requests : late' = late \cup S /\ \A r \in S : Outlives(req[r])
<1>1. ASSUME NEW r \in Requests, lateCall(r), Outlives(req[r]), haskell' = haskell
      PROVE  late' = late \/ (haskell' = "stopped" /\ \E S \in SUBSET Requests : late' = late \cup S /\ \A s \in S : Outlives(req[s]))
  <2>1. CASE haskell = "stopped"
    <3>1. late' = late \cup {r} /\ {r} \in SUBSET Requests /\ \A s \in {r} : Outlives(req[s])
      BY <1>1, <2>1 DEF lateCall
    <3> QED BY Zenon, <1>1, <2>1, <3>1
  <2>2. CASE haskell # "stopped"
    BY <1>1, <2>2 DEF lateCall
  <2> QED BY <2>1, <2>2
<1>2. ASSUME NEW r \in Requests, RequestStep(r)
      PROVE  haskell' = haskell /\ (late' = late \/ (lateCall(r) /\ Outlives(req[r])))
  <2>1. haskell' = haskell
    BY <1>2, RequestOnly
  <2>2. CASE Accept(r) \/ ReturnStream(r) \/ SendBlockItem(r) \/ EnqueueMessages(r) \/ Take(r) \/ FinishJob(r)
    BY Zenon, <2>1, <2>2 DEF Accept, ReturnStream, SendBlockItem, EnqueueMessages, Take, FinishJob
  <2>3. CASE StartJob(r)
    BY <2>1, <2>3 DEF StartJob, Outlives
  <2>4. CASE SendState(r)
    BY <2>1, <2>4 DEF SendState, Outlives
  <2>5. ASSUME NEW result, Close(r, result)
        PROVE  late' = late \/ (lateCall(r) /\ Outlives(req[r]))
    BY <2>5 DEF Close, session, Outlives
  <2>6. CASE Abandon(r) \/ Return(r) \/ EndOfStream(r) \/ DryRunEnd(r)
    BY <2>1, <2>5, <2>6 DEF Abandon, Return, EndOfStream, DryRunEnd
  <2>7. ASSUME NEW op \in SessionOperations, DryRun(r, op)
        PROVE  late' = late \/ (lateCall(r) /\ Outlives(req[r]))
    BY <2>5, <2>7 DEF DryRun, session, Outlives
  <2>8. ASSUME NEW e \in Offered[r],
               Refuse(r, e) \/ RunBlocking(r, e) \/ Subscribe(r, e) \/ DryRunStart(r, e) \/ Answer(r, e)
        PROVE  late' = late \/ (lateCall(r) /\ Outlives(req[r]))
    BY <2>8 DEF Refuse, RunBlocking, Subscribe, DryRunStart, Answer, Handle, Receives, Outlives
  <2> QED BY Zenon, <1>2, <2>1, <2>2, <2>3, <2>4, <2>6, <2>7, <2>8 DEF RequestStep
<1>3. CASE StopHaskell
  <2>1. haskell' = "stopped" /\ late' = late \cup calling /\ calling \in SUBSET Requests
    BY <1>3 DEF StopHaskell, calling
  <2>2. \A r \in calling : Outlives(req[r])
    BY DEF calling, Outlives
  <2> QED BY <2>1, <2>2
<1>4. CASE (\E w \in Relays : NotifyCallback(w) \/ Relay(w)) \/ ServerFails \/ Signal \/ ServerEnds \/ ShutdownReturns
           \/ UNCHANGED vars
  BY Zenon, <1>4 DEF NotifyCallback, Relay, ServerFails, Signal, ServerEnds, ShutdownReturns, vars
<1>5. CASE \E r \in Requests : RequestStep(r)
  BY <1>1, <1>2, <1>5
<1> QED BY Zenon, <1>3, <1>4, <1>5 DEF Next, RequestStep

(* How far the main thread, the server and Haskell are; once the server has
   stopped, all its requests are closed, and those that Haskell is called for
   were cancelled. *)
Shutdown ==
    /\ main \in {"running", "shutdown", "after", "end"}
    /\ main = "running" => server \in {"serving", "failed"}
    /\ main = "shutdown" => server \in {"draining", "stopped"}
    /\ main \in {"after", "end"} => server \in {"failed", "stopped", "detached"}
    /\ haskell = "stopped" => main = "end"
    /\ late # {} => haskell = "stopped"
    /\ late \subseteq Requests
    /\ server = "stopped" =>
        /\ \A r \in Requests : req[r].stage \notin {"waiting", "streaming"}
        /\ \A r \in late : req[r].stage = "closed" /\ req[r].result = "cancelled"

(* Every step keeps what is known of a server that stops. *)
LEMMA ShutdownNext ==
    ASSUME SoundAll, Wired, Shutdown, [Next]_vars
    PROVE  Shutdown'
<1>1. AllMove
  BY StepNext
<1>2. \/ late' = late
      \/ haskell' = "stopped" /\ \E S \in SUBSET Requests : late' = late \cup S /\ \A r \in S : Outlives(req[r])
  BY StepLate DEF Shutdown
<1>3. ASSUME server = "stopped", NEW r \in Requests, Outlives(req[r])
      PROVE  req[r].stage = "closed" /\ req[r].result = "cancelled"
  <2>1. Sound(req[r]) /\ req[r].stage \notin {"waiting", "streaming"}
    BY <1>3 DEF SoundAll, Shutdown
  <2>2. req[r].ep # None /\ (req[r].job \in {"queued", "calling"} \/ req[r].thread)
    BY Zenon, <1>3, <2>1 DEF Sound, Outlives
  <2> QED BY Zenon, <2>1, <2>2 DEF Sound
<1>4. /\ main' \in {"running", "shutdown", "after", "end"}
      /\ main' = "running" => server' \in {"serving", "failed"}
      /\ main' = "shutdown" => server' \in {"draining", "stopped"}
      /\ main' \in {"after", "end"} => server' \in {"failed", "stopped", "detached"}
      /\ haskell' = "stopped" => main' = "end"
      /\ haskell = "stopped" => haskell' = "stopped"
      /\ server' = "stopped" /\ server # "stopped" => ServerEnds
  <2>1. CASE UNCHANGED <<server, main, haskell>>
    BY <2>1 DEF Shutdown
  <2>2. CASE \E r \in Requests : RequestStep(r)
    BY <2>1, <2>2, RequestOnly
  <2>3. CASE (\E w \in Relays : NotifyCallback(w) \/ Relay(w)) \/ UNCHANGED vars
    BY <2>1, <2>3 DEF NotifyCallback, Relay, vars
  <2>4. CASE ServerFails
    BY Zenon, <2>4 DEF ServerFails, Shutdown
  <2>5. CASE Signal
    BY <2>5 DEF Signal, Shutdown
  <2>6. CASE ServerEnds
    BY <2>6 DEF ServerEnds, Shutdown
  <2>7. CASE ShutdownReturns
    BY <2>7 DEF ShutdownReturns, Shutdown
  <2>8. CASE StopHaskell
    BY <2>8 DEF StopHaskell, Shutdown
  <2> QED BY Zenon, <2>2, <2>3, <2>4, <2>5, <2>6, <2>7, <2>8 DEF Next, RequestStep
<1>5. (late # {} => haskell = "stopped")' /\ (late \subseteq Requests)'
  BY <1>2, <1>4 DEF Shutdown
<1>6. ASSUME server' = "stopped"
      PROVE  /\ \A r \in Requests : req'[r].stage \notin {"waiting", "streaming"}
             /\ \A r \in late' : req'[r].stage = "closed" /\ req'[r].result = "cancelled"
  <2>1. CASE server = "stopped"
    <3>1. \A r \in Requests : req'[r].stage \notin {"waiting", "streaming"}
      BY Zenon, <1>1, <2>1 DEF AllMove, Moves, Shutdown
    <3>2. \A r \in late' : r \in Requests /\ req[r].stage = "closed" /\ req[r].result = "cancelled"
      BY <1>2, <1>3, <2>1 DEF Shutdown
    <3> QED BY Zenon, <1>1, <3>1, <3>2 DEF AllMove, Moves
  <2>2. CASE server # "stopped"
    <3>1. ServerEnds
      BY <1>4, <1>6, <2>2
    <3>2. late' = late /\ req' = req /\ at("waiting") \cup at("streaming") = {} /\ server = "draining"
      BY <3>1 DEF ServerEnds
    <3>3. late = {}
      BY <3>2 DEF Shutdown
    <3> QED BY <3>2, <3>3 DEF at
  <2> QED BY <2>1, <2>2
<1> QED BY <1>4, <1>5, <1>6 DEF Shutdown
-----------------------------------------------------------------------------
Inv == SoundAll /\ Wired /\ Order /\ PermitsKept /\ AcceptedIsSent /\ Shutdown

(* Before the server starts there are no requests. *)
LEMMA InvInit == Init => Inv
<1> SUFFICES ASSUME Init PROVE Inv
  OBVIOUS
<1> USE DEF Init
<1>1. Sound(newRequest) /\ ~session(newRequest)
  <2>1. newRequest \in Request
    <3>1. 0 \in 0 .. MaxItems /\ <<>> \in Seq(Nat) /\ "none" \in Jobs /\ "none" \in Senders
      BY ServerAssumption DEF Jobs, Senders
    <3> QED BY Zenon, <3>1 DEF newRequest, Request
  <2>2. /\ newRequest.ep = None /\ newRequest.stage = "new" /\ newRequest.job = "none" /\ newRequest.result = None
        /\ newRequest.sender = "none" /\ newRequest.thread = FALSE /\ newRequest.chan = <<>>
        /\ newRequest.made = 0 /\ newRequest.got = <<>>
    BY DEF newRequest
  <2> QED BY Zenon, <2>1, <2>2 DEF Sound, session, Relays
<1>2. newRequest \in Request /\ newRequest.ep = None
  BY Zenon, <1>1 DEF Sound, newRequest
<1>3. SoundAll
  BY <1>1, <1>2 DEF SoundAll
<1>4. Wired
  BY DEF Wired
<1>5. Order
  <2>1. Fits(<<>>, <<>>, 0)
    BY DEF Fits, increasing
  <2>2. \A r \in Requests : req[r].ep = None
    BY <1>2
  <2>3. \A w \in Relays : notified[w] = <<>> /\ blocks[w] = 0
    OBVIOUS
  <2> QED BY <2>1, <2>2, <2>3 DEF Order
<1>6. PermitsKept
  <2>1. sessions = {}
    BY <1>1 DEF sessions
  <2>2. Cardinality(sessions) = 0
    BY <2>1, FS_EmptySet
  <2> QED BY <2>2, ServerAssumption DEF PermitsKept
<1>7. AcceptedIsSent /\ Shutdown
  BY DEF AcceptedIsSent, Shutdown
<1> QED BY <1>3, <1>4, <1>5, <1>6, <1>7 DEF Inv

(* Every step keeps the inductive invariant. *)
LEMMA InvNext == Inv /\ [Next]_vars => Inv'
<1> SUFFICES ASSUME Inv, [Next]_vars PROVE Inv'
  OBVIOUS
<1>1. SoundAll /\ Wired
  BY DEF Inv
<1>2. SoundAll' /\ Permits
  BY <1>1, StepNext
<1>3. Wired'
  BY <1>1, StepNotified
<1>4. Order'
  BY <1>1, OrderNext DEF Inv
<1>5. PermitsKept'
  BY <1>2, PermitsNext DEF Inv
<1>6. AcceptedIsSent'
  BY <1>1, AcceptedNext DEF Inv
<1>7. Shutdown'
  BY <1>1, ShutdownNext DEF Inv
<1> QED BY <1>2, <1>3, <1>4, <1>5, <1>6, <1>7 DEF Inv

(* All this holds of the server in every state. *)
THEOREM InvHolds == Spec => []Inv
  BY InvInit, InvNext, PTL DEF Spec

(* In particular the states are the known ones, and no permit is given out
   twice. *)
THEOREM TypeHolds == Spec => []TypeOK
<1>1. Inv => TypeOK
  <2> SUFFICES ASSUME Inv PROVE TypeOK
    OBVIOUS
  <2>1. \A r \in Requests : req[r] \in Request
    BY DEF Inv, SoundAll
  <2>2. permits \in 0 .. MaxDryRuns
    <3>1. Cardinality(sessions) \in Nat
      BY ServerAssumption, FS_Subset, FS_CardinalityType DEF sessions
    <3> QED BY <3>1, ServerAssumption DEF Inv, PermitsKept
  <2>3. /\ server \in {"serving", "failed", "draining", "stopped", "detached"}
        /\ main \in {"running", "shutdown", "after", "end"} /\ late \subseteq Requests
    BY DEF Inv, Shutdown
  <2> QED BY <2>1, <2>2, <2>3 DEF TypeOK, Request, Jobs, Senders
<1> QED BY <1>1, InvHolds, PTL

(* A sender is used by exactly the thread that owns it, whatever is answered,
   cancelled or retried, and the permits of dry runs come back however
   sessions end. *)
THEOREM ResourcesHaveOneOwnerHolds == Spec => []ResourcesHaveOneOwner
<1>1. Inv => ResourcesHaveOneOwner
  BY Zenon DEF Inv, SoundAll, Sound, PermitsKept, sessions, ResourcesHaveOneOwner
<1> QED BY <1>1, InvHolds, PTL

(* A client that reads a stream to its end has every item of it, in order, and
   a subscriber has the blocks in order and keeps its subscription, with any
   sizes of channels and any number of items and blocks. *)
THEOREM StreamsAreWholeHolds == Spec => []StreamsAreWhole
<1>1. Inv => StreamsAreWhole
  <2> SUFFICES ASSUME Inv, NEW r \in Requests, req[r].ep # None
               PROVE  /\ req[r].ep.kind \in {"stream", "state"} =>
                            /\ req[r].stage = "streaming" => req[r].got \o req[r].chan = items(req[r].made)
                            /\ req[r].result = "ok" => req[r].got = items(MaxItems)
                      /\ req[r].ep.kind \in Relays /\ req[r].stage = "streaming" =>
                            req[r].sender = req[r].ep.kind /\ increasing(req[r].got \o req[r].chan)
    BY Zenon DEF StreamsAreWhole
  <2>1. Sound(req[r]) /\ Order
    BY DEF Inv, SoundAll
  <2> QED BY Zenon, <2>1 DEF Sound, Itemwise, Order, Fits
<1> QED BY <1>1, InvHolds, PTL

(* A transaction that the consensus has accepted is sent, or the client was
   told that it was not, or left. *)
THEOREM AcceptedIsSentHolds == Spec => []AcceptedIsSent
<1>1. Inv => AcceptedIsSent
  BY DEF Inv
<1> QED BY <1>1, InvHolds, PTL

(* A server that came to its end leaves no call of Haskell behind, but for
   requests that were cancelled. *)
THEOREM LateCallsAreForsakenHolds == Spec => []LateCallsAreForsaken
<1>1. Inv => LateCallsAreForsaken
  BY DEF Inv, Shutdown, LateCallsAreForsaken
<1> QED BY <1>1, InvHolds, PTL
=============================================================================
