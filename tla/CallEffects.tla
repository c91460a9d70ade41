---------------------------- MODULE CallEffects ----------------------------
(***************************************************************************)
(* What one call on a session does to the record kept for a contact, with  *)
(* the ratchet abstracted to what concurrent callers and crashes can       *)
(* disturb: which sessions the record holds, which of them is current, how *)
(* many message keys each has drawn for sending, and which messages it has *)
(* read.  The ratchet itself is the subject of SessionState and Session.   *)
(* A message is [session, prekey, pre_key, n]: the base key of its session,*)
(* whether it travels as a PreKeySignalMessage, the one-time pre-key it    *)
(* names (a sequence of length at most one) and its number in the session. *)
(***************************************************************************)
EXTENDS Naturals, Sequences

CONSTANTS Messages,     \* the messages the peer has sent
          OwnSessions   \* the base keys this side will generate

\* The state a Java SessionRecord starts with: a SessionStructure with no field
\* set, which has no sender chain and no base key.
Empty == "empty state"

Sessions == {m.session : m \in Messages} \cup OwnSessions

ASSUME SessionsAssumption == Empty \notin Sessions

Records == {r \in [current : Sessions \cup {Empty}, sessions : SUBSET Sessions,
                    drawn : [Sessions -> Nat], read : SUBSET Messages] :
              r.current \in (IF r.sessions = {} THEN {Empty} ELSE r.sessions)}

\* loadSession of an address with no stored record.
FreshRecord == [current |-> Empty, sessions |-> {},
                drawn |-> [s \in Sessions |-> 0], read |-> {}]

\* promote_state: the new state becomes current, the old ones stay as previous.
promote_state(record, s) ==
    [record EXCEPT !.current = s, !.sessions = @ \cup {s}]

\* message_encrypt needs a sender chain, which every state but the empty has.
CanEncrypt(record) == record.current # Empty

\* The chain key moves on by one for the message that is sent.
encrypt_with_record(record) ==
    [record EXCEPT !.drawn[record.current] = @ + 1]

\* decrypt_message_with_record tries the current and the previous states; the
\* state that reads the message is the current one afterwards.
CanDecrypt(record, m) == m.session \in record.sessions /\ m \notin record.read

decrypt_message_with_record(record, m) ==
    [record EXCEPT !.current = m.session, !.read = @ \cup {m}]
=============================================================================
