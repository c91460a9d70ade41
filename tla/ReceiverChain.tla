---------------------------- MODULE ReceiverChain ---------------------------
(***************************************************************************)
(* One receiving chain under a network that loses, repeats and reorders    *)
(* messages.  Decrypt is decrypt_message_with_state on a chain the session *)
(* already has, together with the commit or the discard of the updated     *)
(* copy in decrypt_message_with_record.                                    *)
(***************************************************************************)
EXTENDS Chain

CONSTANT MaxCounter  \* bound: the peer sends the counters 0..MaxCounter

ASSUME MaxCounterAssumption == MaxCounter \in Nat

Counters == 0..MaxCounter

VARIABLES
    chain,      \* the stored chain
    returned,   \* how often each message was handed to the application
    last        \* the last call: its counter and its result

chainVars == <<chain, returned, last>>

Results == {"Ok", "DuplicatedMessage", "InvalidMessage", "InvalidCiphertext"}

ChainInit ==
    /\ chain = NewChain
    /\ returned = [c \in Counters |-> 0]
    /\ last = [counter |-> 0, result |-> "None"]

\* Mutant: the result is stored before the MAC is checked.
DecryptBadMac_Stored(counter) ==
    /\ message_key_result(chain, counter) = "Ok"
    /\ chain' = get_or_create_message_key(chain, counter)
    /\ last' = [counter |-> counter, result |-> "InvalidCiphertext"]
    /\ UNCHANGED returned

\* The key was found and the MAC verifies: the copy becomes the state.
DecryptOk(counter) ==
    /\ message_key_result(chain, counter) = "Ok"
    /\ chain' = get_or_create_message_key(chain, counter)
    /\ returned' = [returned EXCEPT ![counter] = @ + 1]
    /\ last' = [counter |-> counter, result |-> "Ok"]

\* The key was found but the body was damaged on the way: the MAC fails and
\* the updated copy, with the key taken or the chain advanced, is dropped.
DecryptBadMac(counter) ==
    /\ message_key_result(chain, counter) = "Ok"
    /\ last' = [counter |-> counter, result |-> "InvalidCiphertext"]
    /\ UNCHANGED <<chain, returned>>

\* No key: an old counter, or one too far ahead.
DecryptNoKey(counter) ==
    /\ message_key_result(chain, counter) # "Ok"
    /\ last' = [counter |-> counter, result |-> message_key_result(chain, counter)]
    /\ UNCHANGED <<chain, returned>>

ChainNext == \E counter \in Counters :
            \/ DecryptOk(counter)
            \/ DecryptBadMac(counter)
            \/ DecryptNoKey(counter)

ChainSpec == ChainInit /\ [][ChainNext]_chainVars
----------------------------------------------------------------------------
\* Types of the stored chain and of the history variables.
ChainTypeOK ==
    /\ chain \in Chains
    /\ chain.index \in 0..(MaxCounter + 1)
    /\ returned \in [Counters -> Nat]
    /\ last \in [counter : Counters, result : Results \cup {"None"}]

\* A message is handed to the application at most once, whatever the order
\* and the number of its deliveries (the DuplicatedMessage branch and the
\* removal in get_message_keys).
AtMostOnce == \A c \in Counters : returned[c] <= 1

\* Counters the chain has passed, whose key is gone though the message was
\* never handed over.
Lost == {c \in Counters : /\ c < chain.index
                          /\ returned[c] = 0
                          /\ ~ contains(chain.message_keys, c)}

\* The stored keys are sorted, the latest first, and belong to messages the
\* chain has passed and that were not handed over; nothing ahead of the chain
\* was handed over.  This is what set_message_keys, inserting at the front,
\* and get_message_keys, taking out what it returns, keep between them.
KeysOrdered ==
    LET keys == chain.message_keys
    IN  /\ Len(keys) <= MAX_MESSAGE_KEYS
        /\ \A i \in 1..Len(keys) : keys[i] < chain.index /\ returned[keys[i]] = 0
        /\ \A i \in 1..Len(keys) : keys[i] <= chain.index - i
        /\ \A i, j \in 1..Len(keys) : i < j => keys[i] > keys[j]
        /\ \A c \in Counters : c >= chain.index => returned[c] = 0

\* The pop in set_message_keys gives up only old messages: each of the last
\* MAX_MESSAGE_KEYS + 1 counters is still readable or was read.
RecentNeverLost == \A c \in Lost : chain.index - c > MAX_MESSAGE_KEYS + 1

\* ... and it gives up the oldest first.
OldestLostFirst ==
    \A c \in Lost : \A i \in 1..Len(chain.message_keys) : c < chain.message_keys[i]

\* A step from chain to chain' leaves no key of a message it hands over and brings
\* back none that was used or dropped.
NoKeyBack ==
    /\ chain'.index >= chain.index
    /\ \A c \in Counters :
         contains(chain'.message_keys, c) =>
             contains(chain.message_keys, c) \/ c >= chain.index
    /\ \A c \in Counters :
         returned'[c] # returned[c] =>
             c < chain'.index /\ ~contains(chain'.message_keys, c)

\* A key that is used is gone with the same step, one that was used or dropped
\* never comes back, and the chain never moves backwards: no step lets an old
\* message be read again.
KeysNeverReturn == [][NoKeyBack]_chainVars

\* The chain keeps the promise of ReceiveWindow.
Window == INSTANCE ReceiveWindow
            WITH delivered <- {c \in Counters : returned[c] > 0},
                 expired   <- Lost

ImplementsWindow == Window!Spec
=============================================================================
