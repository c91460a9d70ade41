------------------------------- MODULE Chain -------------------------------
(***************************************************************************)
(* One receiving chain of a session: session_structure::Chain, with the    *)
(* functions of rust/protocol/src/session_cipher.rs and                    *)
(* rust/protocol/src/state/session.rs that take a message key from it.     *)
(*                                                                         *)
(* A chain is a record.  "index" is the counter of the next message key    *)
(* the chain key yields.  "message_keys" holds the counters of the keys    *)
(* that were derived for skipped messages and not used yet, in the order   *)
(* of the code's vector.  The key bytes are a function of the chain and    *)
(* the counter, so the counter stands for the key.                         *)
(***************************************************************************)
EXTENDS Integers, Vec

CONSTANTS
    MAX_FORWARD_JUMPS,  \* how far ahead of the chain a counter may be
    MAX_MESSAGE_KEYS    \* how many skipped keys a chain keeps

ASSUME ChainAssumption ==
    /\ MAX_FORWARD_JUMPS \in Nat
    /\ MAX_MESSAGE_KEYS \in Nat \ {0}

Chains == [index : Nat, message_keys : Seq(Nat)]

NewChain == [index |-> 0, message_keys |-> <<>>]
----------------------------------------------------------------------------
\* The place of a counter in the vector.  Counters are distinct there
\* (KeysOrdered in ReceiverChain), so it is the first such place.
position(keys, counter) == CHOOSE i \in DOMAIN keys : keys[i] = counter

\* Mutant: the key stays in the vector.
get_message_keys_Kept(chain, counter) == chain

\* The key is taken out of the vector: it is used at most once.
get_message_keys(chain, counter) ==
    LET keys == chain.message_keys
    IN  [chain EXCEPT !.message_keys = remove(keys, position(keys, counter))]

\* The counters the loop derives keys for, the latest first: every insertion
\* is at the front of the vector.
Skipped(chain, counter) == [i \in 1..(counter - chain.index) |-> counter - i]

\* Mutant: the limit is off by one.
set_message_keys_OneFewer(chain, counter) ==
    LET all == Skipped(chain, counter) \o chain.message_keys
    IN  SubSeq(all, 1, IF Len(all) < MAX_MESSAGE_KEYS THEN Len(all)
                       ELSE MAX_MESSAGE_KEYS - 1)

\* The loop inserts at the front and drops the last key whenever the vector
\* has outgrown MAX_MESSAGE_KEYS, so the first MAX_MESSAGE_KEYS survive.
set_message_keys(chain, counter) ==
    LET all == Skipped(chain, counter) \o chain.message_keys
    IN  SubSeq(all, 1, IF Len(all) <= MAX_MESSAGE_KEYS THEN Len(all)
                       ELSE MAX_MESSAGE_KEYS)

\* The forward branch: skipped keys are stored, the chain key moves past the
\* message.
advance(chain, counter) ==
    [chain EXCEPT !.index = counter + 1,
                  !.message_keys = set_message_keys(chain, counter)]

\* What get_or_create_message_key answers; "Ok" means a key was found.
message_key_result(chain, counter) ==
    IF chain.index > counter
    THEN IF contains(chain.message_keys, counter) THEN "Ok" ELSE "DuplicatedMessage"
    ELSE IF counter - chain.index > MAX_FORWARD_JUMPS THEN "InvalidMessage"
         ELSE "Ok"

\* The chain it leaves when it answers "Ok".
get_or_create_message_key(chain, counter) ==
    IF chain.index > counter
    THEN get_message_keys(chain, counter)
    ELSE advance(chain, counter)
=============================================================================
