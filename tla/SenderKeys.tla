---------------------------- MODULE SenderKeys ----------------------------
(***************************************************************************)
(* sender_keys.rs: what a group member keeps about one sender.  A state is *)
(* the sender key it was built from (its id stands for the seed and the    *)
(* signing key drawn with it), the iteration of its chain key, whether it  *)
(* has the private signing key, and the iterations of the skipped messages *)
(* whose keys it holds, oldest first.                                      *)
(* A record is the sequence of states, newest first.                       *)
(***************************************************************************)
EXTENDS Vec

CONSTANTS MAX_FORWARD_JUMPS, MAX_MESSAGE_KEYS, MAX_SENDER_KEY_STATES

ASSUME SenderKeysAssumption ==
    /\ MAX_FORWARD_JUMPS \in Nat /\ MAX_MESSAGE_KEYS \in Nat
    /\ MAX_SENDER_KEY_STATES \in Nat \ {0}

\* The last n elements of s, or all of them.
LastOf(s, n) == SubSeq(s, IF Len(s) > n THEN Len(s) - n + 1 ELSE 1, Len(s))

\* SenderChainKey::next.  The seed, and the message key derived from it, are a
\* function of the sender key and the iteration.
next(iteration) == iteration + 1

States == [sender_key_id : Nat, iteration : Nat, private : {"yes", "no"},
           sender_message_keys : Seq(Nat)]

\* SenderKeyState::new
SenderKeyState(id, iteration, private) ==
    [sender_key_id |-> id, iteration |-> iteration, private |-> private,
     sender_message_keys |-> <<>>]

\* Mutant: the new state goes last, and not at all into a full record.
add_sender_key_state_Last(record, id, iteration, private) ==
    IF Len(record) < MAX_SENDER_KEY_STATES
    THEN Append(record, SenderKeyState(id, iteration, private)) ELSE record

\* Mutant: the state starts at the beginning of the chain.
add_sender_key_state_FromStart(record, id, iteration, private) ==
    SubSeq(<<SenderKeyState(id, 0, private)>> \o record, 1,
           IF Len(record) >= MAX_SENDER_KEY_STATES THEN MAX_SENDER_KEY_STATES
           ELSE Len(record) + 1)

\* add_sender_key_state: the new state goes first and the oldest ones go.
add_sender_key_state(record, id, iteration, private) ==
    SubSeq(<<SenderKeyState(id, iteration, private)>> \o record, 1,
           IF Len(record) >= MAX_SENDER_KEY_STATES THEN MAX_SENDER_KEY_STATES
           ELSE Len(record) + 1)

\* set_sender_key_state: the record is emptied first.
set_sender_key_state(id, iteration, private) ==
    add_sender_key_state(<<>>, id, iteration, private)

\* sender_key_state_for_keyid: the index of the newest state of the id, 0 if none.
sender_key_state_for_keyid(record, id) ==
    first_place(record, LAMBDA state : state.sender_key_id = id)

\* Mutant: the newest keys beyond the limit go.
add_sender_message_keys_Oldest(keys, more) ==
    SubSeq(keys \o more, 1, IF Len(keys \o more) > MAX_MESSAGE_KEYS
                            THEN MAX_MESSAGE_KEYS ELSE Len(keys \o more))

\* add_sender_message_key, once for each skipped iteration: the keys are
\* appended and the oldest beyond MAX_MESSAGE_KEYS go.
add_sender_message_keys(keys, more) == LastOf(keys \o more, MAX_MESSAGE_KEYS)

\* The outcome of get_sender_key.
sender_key_result(state, iteration) ==
    IF state.iteration > iteration
    THEN IF contains(state.sender_message_keys, iteration)
         THEN "stored key" ELSE "DuplicatedMessage"
    ELSE IF iteration - state.iteration > MAX_FORWARD_JUMPS
         THEN "InvalidMessage" ELSE "chain key"

\* remove_sender_message_key: the first key of the iteration is taken out.
remove_sender_message_key(keys, iteration) ==
    remove(keys, first_place(keys, LAMBDA k : k = iteration))

\* Mutant: the key is not taken out.
get_sender_key_Kept(state, iteration) ==
    IF state.iteration > iteration THEN state
    ELSE [state EXCEPT
            !.iteration = next(iteration),
            !.sender_message_keys = add_sender_message_keys(@,
                [i \in 1..(iteration - state.iteration) |-> state.iteration + i - 1])]

\* get_sender_key, when it finds a key: a stored key is taken out; otherwise the
\* keys of the iterations in between are kept and the chain moves past this one.
get_sender_key(state, iteration) ==
    IF state.iteration > iteration
    THEN [state EXCEPT !.sender_message_keys = remove_sender_message_key(@, iteration)]
    ELSE [state EXCEPT
            !.iteration = next(iteration),
            !.sender_message_keys = add_sender_message_keys(@,
                [i \in 1..(iteration - state.iteration) |-> state.iteration + i - 1])]
=============================================================================
