---------------------------- MODULE GroupSession ----------------------------
(***************************************************************************)
(* group_cipher.rs: one sender and the members of a group.  The sender     *)
(* announces its sender key in SenderKeyDistributionMessages and encrypts  *)
(* group messages with it; both kinds stay in the network for ever, so     *)
(* every member may get them lost, late, reordered or many times over,     *)
(* and group messages also damaged.                                        *)
(* When the membership changes the application drops the sender's record,  *)
(* and the next announcement draws a new sender key.                       *)
(***************************************************************************)
EXTENDS SenderKeys, FiniteSets

CONSTANTS Members,       \* the group's other members
          Budgets        \* bounds, of which one is chosen at the start: sender
                         \* keys drawn, messages under one of them, and
                         \* distribution messages a member processes

ASSUME BudgetsAssumption == Budgets \subseteq [keys : Nat, sent : Nat, processed : Nat]

VARIABLES budget,
          sender,        \* the sender's own record: no state, or one
          drawn,         \* sender keys drawn so far, which are their ids
          announced,     \* SenderKeyDistributionMessages, [id, iteration]
          network,       \* SenderKeyMessages, [id, iteration]
          records,       \* each member's SenderKeyRecord for the sender
          processed,     \* the distribution messages each member processed
          delivered,     \* the messages each member has read
          again          \* those it has read more than once

vars == <<budget, sender, drawn, announced, network, records, processed, delivered, again>>

\* A SenderKeyMessage, and a SenderKeyDistributionMessage, of a state: the
\* sender key and the iteration, whose message key or chain key it carries.
SenderKeyMessage(state) ==
    [id |-> state.sender_key_id, iteration |-> state.iteration]
SenderKeyDistributionMessage(state) ==
    [id |-> state.sender_key_id, iteration |-> state.iteration]

Messages == [id : 1..budget.keys, iteration : 0..budget.sent]

\* What may arrive: a message as it was signed, or anything damage made of one,
\* which the sender's signature no longer fits.
Arrivals == [message : network, signed : {"yes"}] \cup [message : Messages, signed : {"no"}]

Init == /\ budget \in Budgets
        /\ sender = <<>> /\ drawn = 0 /\ announced = {} /\ network = {}
        /\ records = [p \in Members |-> <<>>]
        /\ processed = [p \in Members |-> <<>>]
        /\ delivered = [p \in Members |-> {}]
        /\ again = [p \in Members |-> {}]

\* A sender key is drawn if the record is empty; the message carries the chain
\* key as it stands, so those who get it later start later.
create_sender_key_distribution_message ==
    /\ \/ /\ sender = <<>> /\ drawn < budget.keys
          /\ drawn' = drawn + 1
          /\ sender' = set_sender_key_state(drawn + 1, 0, "yes")
       \/ sender # <<>> /\ UNCHANGED <<sender, drawn>>
    /\ announced' = announced \cup {SenderKeyDistributionMessage(sender'[1])}
    /\ UNCHANGED <<budget, network, records, processed, delivered, again>>

group_encrypt ==
    /\ sender # <<>> /\ sender[1].iteration < budget.sent
    /\ network' = network \cup {SenderKeyMessage(sender[1])}
    /\ sender' = [sender EXCEPT ![1].iteration = next(@)]
    /\ UNCHANGED <<budget, drawn, announced, records, processed, delivered, again>>

\* InvalidSenderKeyId: there is no record.
group_encrypt_fails == sender = <<>> /\ UNCHANGED vars

\* The application forgets the sender's record.
Drop ==
    /\ sender # <<>> /\ drawn < budget.keys
    /\ sender' = <<>>
    /\ UNCHANGED <<budget, drawn, announced, network, records, processed, delivered, again>>

process_sender_key_distribution_message(p, skdm) ==
    /\ Len(processed[p]) < budget.processed
    /\ processed' = [processed EXCEPT ![p] = Append(@, skdm)]
    /\ records' = [records EXCEPT ![p] =
                     add_sender_key_state(@, skdm.id, skdm.iteration, "no")]
    /\ UNCHANGED <<budget, sender, drawn, announced, network, delivered, again>>

verify_signature(arrival) == arrival.signed = "yes"

\* The state that a member reads m with, and what comes of an arrival.
StateFor(p, m) == sender_key_state_for_keyid(records[p], m.id)
result(p, arrival) ==
    CASE records[p] = <<>> -> "InvalidSenderKeyId"
      [] records[p] # <<>> /\ StateFor(p, arrival.message) = 0 -> "NoSenderKeyState"
      [] StateFor(p, arrival.message) # 0 /\ ~ verify_signature(arrival) ->
           "SignatureValidationFailed"
      [] OTHER -> sender_key_result(records[p][StateFor(p, arrival.message)],
                                    arrival.message.iteration)
CanRead(p, arrival) == result(p, arrival) \in {"stored key", "chain key"}

group_decrypt(p, arrival) ==
    LET m == arrival.message IN
    /\ CanRead(p, arrival)
    /\ records' = [records EXCEPT ![p][StateFor(p, m)] = get_sender_key(@, m.iteration)]
    /\ delivered' = [delivered EXCEPT ![p] = @ \cup {m}]
    /\ again' = [again EXCEPT ![p] = @ \cup ({m} \cap delivered[p])]
    /\ UNCHANGED <<budget, sender, drawn, announced, network, processed>>

\* The errors are returned before the record is stored.
group_decrypt_fails(p, arrival) == ~ CanRead(p, arrival) /\ UNCHANGED vars

Next == \/ create_sender_key_distribution_message
        \/ group_encrypt \/ group_encrypt_fails \/ Drop
        \/ \E p \in Members :
             \/ \E skdm \in announced : process_sender_key_distribution_message(p, skdm)
             \/ \E arrival \in Arrivals :
                  group_decrypt(p, arrival) \/ group_decrypt_fails(p, arrival)

Spec == Init /\ [][Next]_vars
-----------------------------------------------------------------------------
Announcements(p, id) == {i \in DOMAIN processed[p] : processed[p][i].id = id}

\* A member reads a message twice only if it processed two distribution messages
\* of that sender key: add_sender_key_state puts a state that starts over before
\* the one that knows what was read.
AgainOnlyAfterRestart ==
    \A p \in Members : \A m \in again[p] : Cardinality(Announcements(p, m.id)) > 1

\* A member reads no message sent before the chain key it was given: who joins
\* late cannot read what was said before.
NothingFromBefore ==
    \A p \in Members : \A m \in delivered[p] :
        \E i \in Announcements(p, m.id) : processed[p][i].iteration <= m.iteration

\* A message that a member has not read is readable while it is within
\* MAX_FORWARD_JUMPS ahead of, or MAX_MESSAGE_KEYS + 1 behind, the only state
\* the member ever had for its sender key.
Readable ==
    \A p \in Members : \A m \in network \ delivered[p] :
        LET i == StateFor(p, m) IN
        i # 0 /\ Cardinality(Announcements(p, m.id)) = 1 =>
            LET at == records[p][i].iteration
                from == processed[p][CHOOSE n \in Announcements(p, m.id) : TRUE].iteration
            IN  /\ m.iteration >= from
                /\ m.iteration <= at + MAX_FORWARD_JUMPS
                /\ at <= m.iteration + MAX_MESSAGE_KEYS + 1
                => CanRead(p, [message |-> m, signed |-> "yes"])

\* The record is the states of the last MAX_SENDER_KEY_STATES distribution
\* messages, newest first: a sender key is forgotten only behind that many
\* later announcements, but repeated ones count.
RecordIsRecent ==
    \A p \in Members :
        [i \in DOMAIN records[p] |-> records[p][i].sender_key_id] =
        LET last == LastOf(processed[p], MAX_SENDER_KEY_STATES)
        IN  [i \in DOMAIN last |-> last[Len(last) + 1 - i].id]
=============================================================================
