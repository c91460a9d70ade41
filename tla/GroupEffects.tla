---------------------------- MODULE GroupEffects ----------------------------
(***************************************************************************)
(* What one call of group_cipher.rs does to the SenderKeyRecord of one     *)
(* SenderKeyName.  A name is meant for one direction only, but nothing     *)
(* stops a caller from using it for both, so all four operations apply to  *)
(* it.  Keys with an id in OwnIds are drawn here, the others elsewhere.    *)
(***************************************************************************)
EXTENDS SenderKeys

CONSTANTS OwnIds,         \* ids this side may draw for its own sender keys
          Announcements,  \* SenderKeyDistributionMessages there can be
          Messages        \* SenderKeyMessages there can be

ASSUME GroupEffectsAssumption ==
    /\ Announcements \subseteq [id : Nat, iteration : Nat]
    /\ Messages \subseteq [id : Nat, iteration : Nat]
    /\ OwnIds \subseteq Nat

\* group_encrypt needs a first state with the private signing key.
CanEncrypt(record) == record # <<>> /\ record[1].private = "yes"

\* Mutant: the chain key stays.
group_encrypt_Stuck(record) == record

\* The message is sent under the first state, whose chain key moves on.
group_encrypt(record) == [record EXCEPT ![1].iteration = next(@)]

\* The id and the iteration of a state, which its messages carry.
Head1(record) == [id |-> record[1].sender_key_id, iteration |-> record[1].iteration]

StateFor(record, m) == sender_key_state_for_keyid(record, m.id)

CanDecrypt(record, m) ==
    /\ StateFor(record, m) # 0
    /\ sender_key_result(record[StateFor(record, m)], m.iteration)
         \in {"stored key", "chain key"}

group_decrypt(record, m) ==
    [record EXCEPT ![StateFor(record, m)] = get_sender_key(@, m.iteration)]

\* A state that can only read goes first.
process_sender_key_distribution_message(record, skdm) ==
    add_sender_key_state(record, skdm.id, skdm.iteration, "no")

\* Mutant: a record that is not empty gets a new sender key too.
NeedsKey_Always(record) == TRUE

\* create_sender_key_distribution_message draws a key only for an empty record.
NeedsKey(record) == record = <<>>

create_sender_key(id) == set_sender_key_state(id, 0, "yes")

\* What the Rust code returns when the operation cannot be done: the bytes of a
\* private signing key that is not there are empty, which is no key.
error(c, record) ==
    CASE c.op \in {"encrypt", "decrypt"} /\ record = <<>> -> "NoSenderKeyState"
      [] c.op = "encrypt" /\ record # <<>> /\ ~CanEncrypt(record) -> "BadKeyLength"
      [] c.op = "decrypt" /\ record # <<>> /\ StateFor(record, c.m) = 0 ->
            "NoSenderKeyState"
      [] c.op = "decrypt" /\ StateFor(record, c.m) # 0 /\ ~CanDecrypt(record, c.m) ->
            sender_key_result(record[StateFor(record, c.m)], c.m.iteration)
      [] OTHER -> "none"
=============================================================================
