---------------------------- MODULE AtomicCalls ----------------------------
(***************************************************************************)
(* What callers of the session operations are promised about the stored    *)
(* record: it changes only by the whole effect of one call, computed from  *)
(* the record as it stands at that moment.  What the effect of an          *)
(* operation is, and when it has one, are parameters: CallEffects.         *)
(***************************************************************************)
CONSTANTS Messages, OwnSessions, FreshRecord,
          CanEncrypt(_), encrypt_with_record(_),
          CanDecrypt(_, _), decrypt_message_with_record(_, _),
          promote_state(_, _)

VARIABLE stored

Init == stored = FreshRecord

\* A message is encrypted in the current session.
Encrypt == CanEncrypt(stored) /\ stored' = encrypt_with_record(stored)

\* A message is read in a session that the record holds.
DecryptSignal(m) ==
    CanDecrypt(stored, m) /\ stored' = decrypt_message_with_record(stored, m)

\* A PreKeySignalMessage is read, in a session built for it if need be.
DecryptPreKey(m) ==
    LET base == IF m.session \in stored.sessions THEN stored
                ELSE promote_state(stored, m.session)
    IN  CanDecrypt(base, m) /\ stored' = decrypt_message_with_record(base, m)

\* A session is built from the peer's bundle and becomes the current one.
ProcessBundle(s) == stored' = promote_state(stored, s)

Next == \/ Encrypt
        \/ \E m \in Messages : DecryptSignal(m) \/ DecryptPreKey(m)
        \/ \E s \in OwnSessions : ProcessBundle(s)

Spec == Init /\ [][Next]_stored
=============================================================================
