------------------------------ MODULE QueryApi ------------------------------
(***************************************************************************)
(* The endpoints of the gRPC interface (grpc2.rs) and the functions that   *)
(* ask the consensus for them (consensus_ffi/ffi.rs), by what their        *)
(* handling does: which steps a request takes, and who owns the sender of  *)
(* a stream when a step fails.  Endpoints that are handled alike are equal *)
(* as values.  GrpcServer runs them.                                       *)
(***************************************************************************)
EXTENDS Integers

CONSTANTS
    Short,          \* the size of a channel of 10
    Long            \* the size of a channel of 100

(* A function that asks the consensus: whether it checks its arguments first,
   whether the answer is sure to be a success, whether it hands a sender to
   Haskell, and whether it takes that back when the answer is an error. *)
Lookup == [validates |-> TRUE, sure |-> FALSE, sender |-> FALSE, frees |-> FALSE]
Listing == [Lookup EXCEPT !.sender = TRUE]

get_account_info_v2 == Lookup
get_next_account_sequence_number_v2 == [Lookup EXCEPT !.sure = TRUE]
get_consensus_info_v2 == [Lookup EXCEPT !.validates = FALSE, !.sure = TRUE]
get_cryptographic_parameters_v2 == Lookup
get_account_list_v2 == [Listing EXCEPT !.frees = TRUE]
get_module_list_v2 == Listing
get_module_source_v2 == Lookup
get_instance_list_v2 == Listing
get_instance_info_v2 == Lookup
get_instance_state_v2 == Lookup
get_ancestors_v2 == Listing
get_first_block_epoch_v2 == Lookup
get_winning_bakers_epoch_v2 == Listing
get_block_item_status_v2 == Lookup
invoke_instance_v2 == Lookup
get_block_info_v2 == Lookup
get_baker_list_v2 == Listing
get_pool_info_v2 == Lookup
get_passive_delegation_info_v2 == Lookup
get_blocks_at_height_v2 == [Lookup EXCEPT !.sure = TRUE]
get_tokenomics_info_v2 == Lookup
get_pool_delegators_v2 == Listing
get_pool_delegators_reward_period_v2 == Listing
get_passive_delegators_v2 == Listing
get_passive_delegators_reward_period_v2 == Listing
get_branches_v2 == [Lookup EXCEPT !.validates = FALSE, !.sure = TRUE]
get_election_info_v2 == Lookup
get_identity_providers_v2 == Listing
get_anonymity_revokers_v2 == Listing
get_account_non_finalized_transactions_v2 == [Listing EXCEPT !.sure = TRUE]
get_block_items_v2 == Listing
get_block_transaction_events_v2 == Listing
get_block_special_events_v2 == Listing
get_block_pending_updates_v2 == Listing
get_next_update_sequence_numbers_v2 == Lookup
get_block_chain_parameters_v2 == Lookup
get_block_finalization_summary_v2 == Lookup
get_bakers_reward_period_v2 == Listing
get_block_certificates_v2 == Lookup
get_baker_earliest_win_time_v2 == [Lookup EXCEPT !.validates = FALSE]
send_transaction == Lookup
in_baking_committee == [Lookup EXCEPT !.validates = FALSE, !.sure = TRUE]
get_last_finalized_block_slot_time_v2 == [Lookup EXCEPT !.validates = FALSE, !.sure = TRUE]
-----------------------------------------------------------------------------
(* An endpoint: the thread pool asks the consensus (run_blocking), and the
   answer is returned (Unary), or items come over a channel (Stream). *)
Endpoint(kind, ffi, size) == [kind |-> kind, ffi |-> ffi, size |-> size]
Unary(ffi) == Endpoint("unary", ffi, 0)
Stream(ffi, size) == Endpoint("stream", ffi, size)

get_account_info == Unary(get_account_info_v2)
get_account_list == Stream(get_account_list_v2, Long)
get_module_list == Stream(get_module_list_v2, Long)
get_module_source == Unary(get_module_source_v2)
get_instance_list == Stream(get_instance_list_v2, Long)
get_instance_info == Unary(get_instance_info_v2)
instance_state_lookup == Unary(get_instance_state_v2)
get_next_account_sequence_number == Unary(get_next_account_sequence_number_v2)
get_consensus_info == Unary(get_consensus_info_v2)
get_ancestors == Stream(get_ancestors_v2, Long)
get_block_item_status == Unary(get_block_item_status_v2)
invoke_instance == Unary(invoke_instance_v2)
get_cryptographic_parameters == Unary(get_cryptographic_parameters_v2)
get_block_info == Unary(get_block_info_v2)
get_baker_list == Stream(get_baker_list_v2, Long)
get_pool_info == Unary(get_pool_info_v2)
get_passive_delegation_info == Unary(get_passive_delegation_info_v2)
get_blocks_at_height == Unary(get_blocks_at_height_v2)
get_tokenomics_info == Unary(get_tokenomics_info_v2)
get_pool_delegators == Stream(get_pool_delegators_v2, Long)
get_pool_delegators_reward_period == Stream(get_pool_delegators_reward_period_v2, Long)
get_passive_delegators == Stream(get_passive_delegators_v2, Long)
get_passive_delegators_reward_period == Stream(get_passive_delegators_reward_period_v2, Long)
get_branches == Unary(get_branches_v2)
get_election_info == Unary(get_election_info_v2)
get_identity_providers == Stream(get_identity_providers_v2, Short)
get_anonymity_revokers == Stream(get_anonymity_revokers_v2, Short)
get_account_non_finalized_transactions == Stream(get_account_non_finalized_transactions_v2, Short)
get_block_transaction_events == Stream(get_block_transaction_events_v2, Short)
get_block_special_events == Stream(get_block_special_events_v2, Short)
get_block_pending_updates == Stream(get_block_pending_updates_v2, Short)
get_next_update_sequence_numbers == Unary(get_next_update_sequence_numbers_v2)
get_block_chain_parameters == Unary(get_block_chain_parameters_v2)
get_block_finalization_summary == Unary(get_block_finalization_summary_v2)
get_bakers_reward_period == Stream(get_bakers_reward_period_v2, Short)
get_baker_earliest_win_time == Unary(get_baker_earliest_win_time_v2)
get_block_items == Stream(get_block_items_v2, Long)
get_block_certificates == Unary(get_block_certificates_v2)
get_first_block_epoch == Unary(get_first_block_epoch_v2)
get_winning_bakers_epoch == Stream(get_winning_bakers_epoch_v2, Long)

(* The state of a contract is fetched at once and then sent by a task. *)
get_instance_state == Endpoint("state", get_instance_state_v2, Short)

send_block_item == Endpoint("submit", send_transaction, 0)

(* Subscriptions, served by the relays. *)
get_blocks == Endpoint("arrived", Lookup, Long)
get_finalized_blocks == Endpoint("finalized", Lookup, Long)

(* A session of dry runs, each of which is a call of the consensus. *)
dry_run == Endpoint("session", Lookup, 0)

load_block_state == Lookup
dry_get_account_info == Lookup
dry_get_instance_info == [Lookup EXCEPT !.validates = FALSE]
dry_invoke_instance == Lookup
set_timestamp == [Lookup EXCEPT !.validates = FALSE]
mint_to_account == Lookup
transaction == Lookup

SessionOperations ==
    {load_block_state, dry_get_account_info, dry_get_instance_info, dry_invoke_instance, set_timestamp,
     mint_to_account, transaction}

(* The rest is answered by the worker itself: from the consensus, *)
get_node_info == Endpoint("worker", in_baking_committee, 0)
health_check == Endpoint("worker", get_last_finalized_block_slot_time_v2, 0)

(* or without it.  (shutdown is in NodeShutdown; what peer_connect,
   peer_disconnect, ban_peer and unban_peer do is in PollLoop; the network
   dump is not modelled.) *)
Local == Endpoint("local", Lookup, 0)
get_banned_peers == Local
get_peers_info == Local
get_account_transaction_sign_hash == Local

Unaries ==
    {get_account_info, get_module_source, get_instance_info, instance_state_lookup,
     get_next_account_sequence_number, get_consensus_info, get_block_item_status, invoke_instance,
     get_cryptographic_parameters, get_block_info, get_pool_info, get_passive_delegation_info,
     get_blocks_at_height, get_tokenomics_info, get_branches, get_election_info,
     get_next_update_sequence_numbers, get_block_chain_parameters, get_block_finalization_summary,
     get_baker_earliest_win_time, get_block_certificates, get_first_block_epoch}

Streams ==
    {get_account_list, get_module_list, get_instance_list, get_ancestors, get_baker_list,
     get_pool_delegators, get_pool_delegators_reward_period, get_passive_delegators,
     get_passive_delegators_reward_period, get_identity_providers, get_anonymity_revokers,
     get_account_non_finalized_transactions, get_block_transaction_events, get_block_special_events,
     get_block_pending_updates, get_bakers_reward_period, get_block_items, get_winning_bakers_epoch}

Endpoints ==
    Unaries \cup Streams \cup
    {get_instance_state, send_block_item, get_blocks, get_finalized_blocks, dry_run, get_node_info,
     health_check, get_banned_peers, get_peers_info, get_account_transaction_sign_hash}
=============================================================================
