---------------------------- MODULE SessionState ----------------------------
(***************************************************************************)
(* One session, the state of the Double Ratchet with one peer: SessionState*)
(* of rust/protocol/src/state/session.rs, its initialisation in ratchet.rs *)
(* and its use in session_cipher.rs.                                       *)
(*                                                                         *)
(* Keys are symbolic.  A key pair is one value.  An agreement is the set   *)
(* of the two pairs it is computed from, so both sides compute the same    *)
(* one.  A root key is the sequence of agreements that went into it, and   *)
(* so is a chain key, which also carries its index: two parties hold the   *)
(* same key exactly when they mixed in the same agreements in the same     *)
(* order.  The message key of a message is its chain key and its counter.  *)
(* Version numbers (always 3 here), registration ids and previous_counter, *)
(* which no receiver reads, are left out.                                  *)
(***************************************************************************)
EXTENDS Chain

CONSTANT MAX_RECEIVER_CHAINS  \* how many receiving chains a session keeps

ASSUME SessionStateAssumption == MAX_RECEIVER_CHAINS \in Nat \ {0}

\* An Option<T> is a sequence of length at most one.
None == <<>>
Some(x) == <<x>>
----------------------------------------------------------------------------
\* Key derivation.

calculate_agreement(theirs, ours) == {theirs, ours}

\* HKDF over the concatenated agreements.
derive_keys(secrets) == <<secrets>>

\* RootKey::create_chain: the new root and the new chain come from the same
\* HKDF output.
create_chain(root, theirs, ours) == Append(root, calculate_agreement(theirs, ours))

AliceSecrets(our_identity, our_base, their_identity, their_signed, their_one_time) ==
    <<calculate_agreement(their_signed, our_identity),
      calculate_agreement(their_identity, our_base),
      calculate_agreement(their_signed, our_base)>>
    \o (IF their_one_time = None THEN <<>>
        ELSE <<calculate_agreement(their_one_time[1], our_base)>>)

BobSecrets(our_identity, our_signed, our_one_time, their_identity, their_base) ==
    <<calculate_agreement(their_identity, our_signed),
      calculate_agreement(their_base, our_identity),
      calculate_agreement(their_base, our_signed)>>
    \o (IF our_one_time = None THEN <<>>
        ELSE <<calculate_agreement(their_base, our_one_time[1])>>)
----------------------------------------------------------------------------
\* Chains of a session.

NewReceiverChain(ratchet, key) ==
    [ratchet |-> ratchet, key |-> key, index |-> 0, message_keys |-> <<>>]

\* The chain goes to the end and the oldest one is removed when there are
\* too many.
add_receiver_chain(state, ratchet, key) ==
    LET all == Append(state.receivers, NewReceiverChain(ratchet, key))
    IN  [state EXCEPT !.receivers =
            IF Len(all) > MAX_RECEIVER_CHAINS THEN Tail(all) ELSE all]

set_sender_chain(state, ratchet, key) ==
    [state EXCEPT !.sender = [ratchet |-> ratchet, key |-> key, index |-> 0]]

\* Mutant: the sender chain is not moved on.
step_sender_chain_Forgotten(state) == state

\* set_sender_chain_key(next_chain_key()).
step_sender_chain(state) == [state EXCEPT !.sender.index = @ + 1]

\* Place of the chain with this ratchet key, 0 if there is none.
get_receiver_chain(state, ratchet) ==
    first_place(state.receivers, LAMBDA c : c.ratchet = ratchet)

\* A new session before any chain is set.  The None of pre_key_id is stored
\* as 0, and 0 is read back as None.
NewSession(local, remote, root, base) ==
    [alice_base_key |-> base, local_identity |-> local, remote_identity |-> remote,
     root_key |-> root, sender |-> [ratchet |-> base, key |-> root, index |-> 0],
     receivers |-> <<>>, pending |-> None]

set_unacknowledged_pre_key_message(state, pre_key_id, base) ==
    [state EXCEPT !.pending =
        Some([pre_key_id |-> IF pre_key_id = None THEN 0 ELSE pre_key_id[1],
              base_key |-> base])]

\* The pre_key_id a PreKeySignalMessage gets from the pending pre key.
pending_pre_key_id(state) ==
    LET id == state.pending[1].pre_key_id
    IN  IF id = 0 THEN None ELSE Some(id)

clear_unacknowledged_pre_key_message(state) == [state EXCEPT !.pending = None]
----------------------------------------------------------------------------
\* The two ways a session starts.

\* From a bundle.  The signed pre key is also the peer's first ratchet key.
initialize_alice_session(identity, base, ratchet, bundle) ==
    LET root == derive_keys(AliceSecrets(identity, base, bundle.identity,
                                         bundle.signed, bundle.one_time))
        sending == create_chain(root, bundle.signed, ratchet)
    IN  set_sender_chain(
            add_receiver_chain(NewSession(identity, bundle.identity, sending, base),
                               bundle.signed, root),
            ratchet, sending)

\* From the first message of the peer.  There is no receiving chain yet.
initialize_bob_session(identity, signed, one_time, their_identity, their_base) ==
    LET root == derive_keys(BobSecrets(identity, signed, one_time,
                                       their_identity, their_base))
    IN  set_sender_chain(NewSession(identity, their_identity, root, their_base),
                         signed, root)
----------------------------------------------------------------------------
\* Receiving.

\* Mutant: the new sending chain comes from the old root key.
get_or_create_chain_key_OldRoot(state, ratchet, fresh) ==
    IF get_receiver_chain(state, ratchet) # 0 THEN state
    ELSE LET receiving == create_chain(state.root_key, ratchet, state.sender.ratchet)
             sending == create_chain(state.root_key, ratchet, fresh)
         IN  set_sender_chain(
                 add_receiver_chain([state EXCEPT !.root_key = sending],
                                    ratchet, receiving),
                 fresh, sending)

\* An unknown ratchet key turns the ratchet: a receiving chain from the key
\* we sent with, then a sending chain with a new key of ours.
get_or_create_chain_key(state, ratchet, fresh) ==
    IF get_receiver_chain(state, ratchet) # 0 THEN state
    ELSE LET receiving == create_chain(state.root_key, ratchet, state.sender.ratchet)
             sending == create_chain(receiving, ratchet, fresh)
         IN  set_sender_chain(
                 add_receiver_chain([state EXCEPT !.root_key = sending],
                                    ratchet, receiving),
                 fresh, sending)

\* ChainKey::message_keys: a function of the chain and the counter.
message_keys(key, counter) == <<key, counter>>

\* The MAC covers the message and both identity keys under the message key.
compute_mac(key, counter, from, to) == <<message_keys(key, counter), from, to>>

verify_mac(message, key, from, to) ==
    message.mac = compute_mac(key, message.counter, from, to)

\* The answer, and the state when it is "Ok".
decrypt_message_with_state(state, message, fresh) ==
    LET ratcheted == get_or_create_chain_key(state, message.ratchet, fresh)
        place == get_receiver_chain(ratcheted, message.ratchet)
        chain == ratcheted.receivers[place]
        found == message_key_result(chain, message.counter)
        result == CASE found # "Ok" -> found
                    [] ~ verify_mac(message, chain.key, state.remote_identity,
                                    state.local_identity) -> "InvalidCiphertext"
                    [] OTHER -> "Ok"
    IN  [result |-> result,
         state  |-> IF result # "Ok" THEN state
                    ELSE clear_unacknowledged_pre_key_message(
                           [ratcheted EXCEPT !.receivers[place] =
                               get_or_create_message_key(chain, message.counter)])]
=============================================================================
