-------------------------- MODULE AtomicGroupCalls --------------------------
(***************************************************************************)
(* What callers of the group operations are promised about the stored      *)
(* sender key record: it changes only by the whole effect of one call, on  *)
(* the record as it stands at that moment.  What the effect of an          *)
(* operation is, and when it has one, are parameters: GroupEffects.        *)
(***************************************************************************)
EXTENDS Sequences

CONSTANTS OwnIds, Announcements, Messages,
          CanEncrypt(_), group_encrypt(_),
          CanDecrypt(_, _), group_decrypt(_, _),
          process_sender_key_distribution_message(_, _),
          create_sender_key(_)

VARIABLE stored

Init == stored = <<>>

Encrypt == CanEncrypt(stored) /\ stored' = group_encrypt(stored)

Decrypt(m) == CanDecrypt(stored, m) /\ stored' = group_decrypt(stored, m)

Process(skdm) == stored' = process_sender_key_distribution_message(stored, skdm)

\* A sender key is drawn once: nothing ever empties the record.
Create(id) == stored = <<>> /\ stored' = create_sender_key(id)

Next == \/ Encrypt
        \/ \E m \in Messages : Decrypt(m)
        \/ \E skdm \in Announcements : Process(skdm)
        \/ \E id \in OwnIds : Create(id)

Spec == Init /\ [][Next]_stored
=============================================================================
