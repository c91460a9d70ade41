---------------------------- MODULE SessionRecord ---------------------------
(***************************************************************************)
(* The sessions kept for one peer: the current one and the archived ones,  *)
(* the latest first (SessionRecord of rust/protocol/src/state/session.rs), *)
(* and decryption with a record (session_cipher.rs).                       *)
(***************************************************************************)
EXTENDS SessionState

CONSTANT ARCHIVED_STATES_MAX_LENGTH

ASSUME SessionRecordAssumption == ARCHIVED_STATES_MAX_LENGTH \in Nat

new_fresh == [current |-> None, previous |-> <<>>]

\* Every state of a record, in the order in which decryption tries them.
States(record) == record.current \o record.previous

\* Mutant: only the current session is looked at.
has_session_state_CurrentOnly(record, base) ==
    record.current # None /\ record.current[1].alice_base_key = base

has_session_state(record, base) ==
    \E i \in DOMAIN States(record) : States(record)[i].alice_base_key = base

archive_current_state(record) ==
    IF record.current = None THEN record
    ELSE LET all == record.current \o record.previous
         IN  [current  |-> None,
              previous |-> IF Len(all) > ARCHIVED_STATES_MAX_LENGTH
                           THEN SubSeq(all, 1, Len(all) - 1) ELSE all]

promote_state(record, state) ==
    [archive_current_state(record) EXCEPT !.current = Some(state)]

promote_old_session(record, place, state) ==
    promote_state([record EXCEPT !.previous = remove(@, place)], state)

\* The current state is tried first and the archived ones in their order.  A
\* state that fails is left as it was; a duplicate ends the search; an archived
\* state that succeeds is promoted.
decrypt_message_with_record(record, message, fresh) ==
    LET tried == [i \in DOMAIN States(record) |->
                     decrypt_message_with_state(States(record)[i], message, fresh)]
        place == first_place(tried, LAMBDA t : t.result \in {"Ok", "DuplicatedMessage"})
        failed(result) == [result |-> result, record |-> record]
        read(at, state) ==
            [result |-> "Ok",
             record |-> IF at = 1 THEN [record EXCEPT !.current = Some(state)]
                        ELSE promote_old_session(record, at - 1, state)]
    IN  CASE record.current = None -> failed("InvalidState")
          [] record.current # None /\ place = 0 -> failed("InvalidMessage")
          [] OTHER -> IF tried[place].result = "Ok" THEN read(place, tried[place].state)
                      ELSE failed("DuplicatedMessage")
=============================================================================
