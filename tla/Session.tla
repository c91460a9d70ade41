------------------------------- MODULE Session ------------------------------
(***************************************************************************)
(* Two parties that talk through a network which loses, repeats, reorders  *)
(* and damages messages, with the operations of session.rs and             *)
(* session_cipher.rs over the stores of storage/inmem.rs.  Every operation *)
(* is one step here: the stores are not touched by anyone else while it    *)
(* runs (what happens when they are is the subject of SessionCalls).       *)
(***************************************************************************)
EXTENDS SessionRecord

CONSTANTS
    Parties,      \* two of them
    PreKeyIds,    \* ids of the one-time pre keys each party generates
    Budgets       \* bounds on the calls of a party; one is chosen at the start

\* Bundles processed, messages sent, messages decrypted (repetitions included),
\* times the party archives its session and starts over with new keys.
Budget == [sessions : Nat, sent : Nat, received : Nat, archives : Nat, installs : Nat]

ASSUME SessionAssumption ==
    /\ \E p, q \in Parties : p # q /\ Parties = {p, q}
    /\ PreKeyIds \subseteq Nat
    /\ Budgets \subseteq Budget

VARIABLES
    store,      \* what each party has stored
    network,    \* every message sent so far
    delivered,  \* messages handed to the application
    again,      \* messages handed to the application a second time
    dropped,    \* what each party's record no longer holds
    calls       \* calls made so far, with the budget

vars == <<store, network, delivered, again, dropped, calls>>

Peer(p) == CHOOSE q \in Parties : q # p

\* A key pair is named by its owner, its kind, the installation it belongs to
\* and a number.
Key(p, kind, n) == <<p, kind, calls[p].installs, n>>

\* A ratchet key never used before, numbered by the decryption that needs it.
FreshRatchet(p) == Key(p, "ratchet", calls[p].received)

NewStore(p, install) ==
    [record   |-> new_fresh,
     known    |-> None,
     identity |-> <<p, "identity", install, 0>>,
     signed   |-> <<p, "signed", install, 0>>,
     one_time |-> [id \in PreKeyIds |-> <<p, "one-time", install, id>>]]

NoCalls(budget) ==
    [budget |-> budget,
     sessions |-> 0, sent |-> 0, received |-> 0, archives |-> 0, installs |-> 0]

Init ==
    /\ store = [p \in Parties |-> NewStore(p, 0)]
    /\ network = {}
    /\ delivered = {}
    /\ again = {}
    /\ dropped = [p \in Parties |-> [sessions |-> {}, chains |-> {}]]
    /\ \E budget \in Budgets : calls = [p \in Parties |-> NoCalls(budget)]
----------------------------------------------------------------------------
\* Mutant: every identity is trusted.
is_trusted_identity_Always(p, identity) == TRUE

\* InMemIdentityKeyStore::is_trusted_identity: trust on first use.
is_trusted_identity(p, identity) == store[p].known \in {None, Some(identity)}

\* InMemIdentityKeyStore::save_identity: the latest key replaces the one before.
save_identity(stores, identity) == [stores EXCEPT !.known = Some(identity)]

\* Base keys and receiving chains a record holds.
Bases(record) == {States(record)[i].alice_base_key : i \in DOMAIN States(record)}

ChainKeys(record) ==
    UNION {{c.key : c \in Range(States(record)[i].receivers)} : i \in DOMAIN States(record)}

\* The updated stores, and the note of what the record lost.
store_session(p, stores) ==
    /\ store' = [store EXCEPT ![p] = stores]
    /\ dropped' = [dropped EXCEPT ![p] =
          [sessions |-> @.sessions \cup (Bases(store[p].record) \ Bases(stores.record)),
           chains   |-> @.chains \cup (ChainKeys(store[p].record) \ ChainKeys(stores.record))]]

\* A one-time pre key of the bundle is one the peer generated, or none: which
\* one the server picks is not under this code's control.  "valid" is the
\* answer of curve::verify_signature.
Bundles(q) ==
    LET keys == {None} \cup {Some(i) : i \in PreKeyIds}
        public(id) == IF id = None THEN None ELSE Some(Key(q, "one-time", id[1]))
    IN  {[identity |-> store[q].identity, signed |-> store[q].signed, valid |-> ok,
          id |-> id, one_time |-> public(id)] : id \in keys, ok \in BOOLEAN}

process_prekey_bundle(p, bundle) ==
    /\ calls[p].sessions < calls[p].budget.sessions
    /\ bundle.valid
    /\ is_trusted_identity(p, bundle.identity)
    /\ LET base == Key(p, "base", calls[p].sessions)
           ratchet == Key(p, "first", calls[p].sessions)
           session == set_unacknowledged_pre_key_message(
                         initialize_alice_session(store[p].identity, base, ratchet, bundle),
                         bundle.id, base)
       IN  store_session(p, [save_identity(store[p], bundle.identity) EXCEPT
                                !.record = promote_state(@, session)])
    /\ calls' = [calls EXCEPT ![p].sessions = @ + 1]
    /\ UNCHANGED <<network, delivered, again>>

process_prekey_bundle_fails(p, bundle) ==
    /\ ~ is_trusted_identity(p, bundle.identity) \/ ~ bundle.valid
    /\ UNCHANGED vars
----------------------------------------------------------------------------
\* A message of session s on the wire.  "to", "text" and "session" are for the
\* properties only; "pre_key" is what a PreKeySignalMessage adds.
SignalMessage(s, to, text) ==
    [to |-> to, text |-> text, session |-> s.alice_base_key,
     ratchet |-> s.sender.ratchet,
     counter |-> s.sender.index,
     mac |-> compute_mac(s.sender.key, s.sender.index, s.local_identity, s.remote_identity),
     pre_key |-> None]

PreKeySignalMessage(s, message) ==
    [message EXCEPT !.pre_key = Some([id       |-> pending_pre_key_id(s),
                                      base_key |-> s.pending[1].base_key,
                                      identity |-> s.local_identity])]

\* The message the current session of p sends next.
NextMessage(p) ==
    LET s == store[p].record.current[1]
        message == SignalMessage(s, Peer(p), Key(p, "text", calls[p].sent))
    IN  IF s.pending = None THEN message ELSE PreKeySignalMessage(s, message)

\* The sender chain moves on only if the peer's identity is still trusted.
message_encrypt(p) ==
    /\ calls[p].sent < calls[p].budget.sent
    /\ store[p].record.current # None
    /\ LET s == store[p].record.current[1]
       IN  /\ is_trusted_identity(p, s.remote_identity)
           /\ network' = network \cup {NextMessage(p)}
           /\ store_session(p, [save_identity(store[p], s.remote_identity) EXCEPT
                                   !.record.current = Some(step_sender_chain(s))])
    /\ calls' = [calls EXCEPT ![p].sent = @ + 1]
    /\ UNCHANGED <<delivered, again>>

\* SessionNotFound, no current session, or UntrustedIdentity: the moved chain
\* is not stored.
message_encrypt_fails(p) ==
    /\ store[p].record.current # None =>
          ~ is_trusted_identity(p, store[p].record.current[1].remote_identity)
    /\ UNCHANGED vars
----------------------------------------------------------------------------
\* Mutant: the identity is neither checked nor saved.
message_decrypt_signal_NoCheck(p, message) ==
    LET done == decrypt_message_with_record(store[p].record, message, FreshRatchet(p))
    IN  [result |-> done.result, stores |-> [store[p] EXCEPT !.record = done.record]]

\* The answer and the stores that are left.  The identity that must be trusted
\* is that of the session which is current after decryption.
message_decrypt_signal(p, message) ==
    LET done == decrypt_message_with_record(store[p].record, message, FreshRatchet(p))
        theirs == done.record.current[1].remote_identity
        refused(result) == [result |-> result, stores |-> store[p]]
    IN  CASE done.result # "Ok" -> refused(done.result)
          [] done.result = "Ok" /\ ~ is_trusted_identity(p, theirs) ->
               refused("UntrustedIdentity")
          [] OTHER -> [result |-> "Ok",
                       stores |-> [save_identity(store[p], theirs) EXCEPT
                                      !.record = done.record]]

\* The answer, the record that is left, and the pre key to be removed later.
process_prekey(p, message) ==
    LET record == store[p].record
        pre == message.pre_key[1]
        one_time == IF pre.id = None THEN None ELSE Some(store[p].one_time[pre.id[1]])
        session == initialize_bob_session(store[p].identity, store[p].signed,
                                          one_time, pre.identity, pre.base_key)
        answer(result) == [result |-> result, record |-> record, used |-> None]
    IN  CASE ~ is_trusted_identity(p, pre.identity) -> answer("UntrustedIdentity")
          [] is_trusted_identity(p, pre.identity) /\ has_session_state(record, pre.base_key) ->
               answer("Ok")
          [] OTHER ->
               IF pre.id # None /\ pre.id[1] \notin DOMAIN store[p].one_time
               THEN answer("InvalidPreKeyId")
               ELSE [result |-> "Ok",
                     record |-> promote_state(archive_current_state(record), session),
                     used   |-> pre.id]

\* Mutant: the pre key stays in the store.
remove_pre_key_Kept(keys, used) == keys

remove_pre_key(keys, used) ==
    [id \in {i \in DOMAIN keys : Some(i) # used} |-> keys[id]]

\* process_prekey has saved the identity when the bundled message turns out not
\* to decrypt: that stays, and nothing else of the failed call does.
message_decrypt_prekey(p, message) ==
    LET built == process_prekey(p, message)
        done == decrypt_message_with_record(built.record, message, FreshRatchet(p))
        saved == save_identity(store[p], message.pre_key[1].identity)
    IN  CASE built.result # "Ok" -> [result |-> built.result, stores |-> store[p]]
          [] built.result = "Ok" /\ done.result # "Ok" ->
               [result |-> done.result, stores |-> saved]
          [] OTHER -> [result |-> "Ok",
                       stores |-> [saved EXCEPT
                                      !.record = done.record,
                                      !.one_time = remove_pre_key(@, built.used)]]

message_decrypt(p, message) ==
    IF message.pre_key = None THEN message_decrypt_signal(p, message)
                              ELSE message_decrypt_prekey(p, message)

\* The application gets the plaintext.
Decrypt(p, message, done) ==
    /\ calls[p].received < calls[p].budget.received
    /\ done.result = "Ok"
    /\ store_session(p, done.stores)
    /\ calls' = [calls EXCEPT ![p].received = @ + 1]
    /\ delivered' = delivered \cup {message}
    /\ again' = again \cup ({message} \cap delivered)
    /\ UNCHANGED network

\* The application gets an error.
DecryptFails(p, done) ==
    /\ done.result # "Ok"
    /\ store_session(p, done.stores)
    /\ UNCHANGED <<network, delivered, again, calls>>

Damaged(message) == [message EXCEPT !.mac = <<>>]
----------------------------------------------------------------------------
\* SessionRecord::archive_current_state, called by the application, which
\* stores the record.
Archive(p) ==
    /\ calls[p].archives < calls[p].budget.archives
    /\ store[p].record.current # None
    /\ store_session(p, [store[p] EXCEPT !.record = archive_current_state(@)])
    /\ calls' = [calls EXCEPT ![p].archives = @ + 1]
    /\ UNCHANGED <<network, delivered, again>>

\* The party starts over on a new device: new keys, empty stores.
Install(p) ==
    /\ calls[p].installs < calls[p].budget.installs
    /\ store_session(p, NewStore(p, calls[p].installs + 1))
    /\ calls' = [calls EXCEPT ![p] = [NoCalls(@.budget) EXCEPT !.installs = calls[p].installs + 1]]
    /\ UNCHANGED <<network, delivered, again>>

\* The user accepts the peer's identity key of today (save_identity).
Approve(p) ==
    /\ store[p].known # None
    /\ store' = [store EXCEPT ![p] = save_identity(@, store[Peer(p)].identity)]
    /\ UNCHANGED <<network, delivered, again, dropped, calls>>

Next ==
    \E p \in Parties :
        \/ \E bundle \in Bundles(Peer(p)) :
              process_prekey_bundle(p, bundle) \/ process_prekey_bundle_fails(p, bundle)
        \/ message_encrypt(p)
        \/ message_encrypt_fails(p)
        \/ \E sent \in {m \in network : m.to = p} :
           \E message \in {sent, Damaged(sent)} :
           \E done \in {message_decrypt(p, message)} :
              Decrypt(p, message, done) \/ DecryptFails(p, done)
        \/ Archive(p)
        \/ Install(p)
        \/ Approve(p)

Spec == Init /\ [][Next]_vars
----------------------------------------------------------------------------
\* Fields of a message, and what p has for it.
ChainOf(m) == m.mac[1][1]
Sender(m) == m.mac[2]
Recipient(m) == m.mac[3]
Holds(p, m) == m.session \in Bases(store[p].record)
IndexOf(p, m) ==
    LET chains == UNION {Range(States(store[p].record)[i].receivers) :
                            i \in DOMAIN States(store[p].record)}
        mine == {c \in chains : c.key = ChainOf(m)}
    IN  IF mine = {} THEN 0 ELSE (CHOOSE c \in mine : TRUE).index

\* Two texts never go out under the same message key: the sender chain is
\* stored before message_encrypt returns, and every ratchet turn of
\* get_or_create_chain_key starts a chain with a key of its own.
UniqueKeys ==
    \A m, n \in network :
        ChainOf(m) = ChainOf(n) /\ m.counter = n.counter => m.text = n.text

\* A message is handed over once, unless it is a PreKeySignalMessage without
\* a one-time pre key: for the others either the stored chains or the removed
\* pre key stop a repetition, however long ago the session was dropped.
AtMostOnce ==
    \A m \in again : m.pre_key # None /\ m.pre_key[1].id = None

\* ... and even that one is read again only when the record has meanwhile
\* dropped the session (archive_current_state) or the party started over.
AgainOnlyAfterDrop ==
    [][\A m \in delivered : again' # again /\ m \in again' \ again =>
          m.session \in dropped[m.to].sessions]_vars

\* Whatever the two sides do in whatever order, a message that was not read
\* yet can be read now unless: an identity is not trusted or was replaced, no
\* session is current, or one of the limits was exceeded (archived sessions,
\* receiving chains, skipped keys, forward jumps).  Either side may have
\* exceeded the limit on sessions: a side that dropped one can build a
\* different one from a repeated PreKeySignalMessage.
Readable ==
    \A m \in network \ delivered :
        LET p == m.to
        IN  /\ Recipient(m) = store[p].identity
            /\ is_trusted_identity(p, Sender(m))
            /\ store[p].record.current # None \/ (m.pre_key # None /\ ~ Holds(p, m))
            /\ \A q \in Parties : m.session \notin dropped[q].sessions
            /\ ChainOf(m) \notin dropped[p].chains
            /\ \/ Holds(p, m)
               \/ m.pre_key # None /\ m.pre_key[1].id = None
               \/ m.pre_key # None /\ m.pre_key[1].id[1] \in DOMAIN store[p].one_time
            /\ m.counter - IndexOf(p, m) <= MAX_FORWARD_JUMPS
            /\ IndexOf(p, m) - m.counter <= MAX_MESSAGE_KEYS + 1
            => message_decrypt(p, m).result = "Ok"

\* Only the user replaces a recorded identity key; no message and no bundle
\* does (is_trusted_identity before every save_identity).
FirstUseStays ==
    [][\A p \in Parties : store'[p].known # store[p].known =>
          store[p].known = None \/ Approve(p) \/ Install(p)]_vars

\* A message is handed over only when the identity on record, if any, is its
\* sender's, also when an archived session of an earlier identity reads it.
FromKnownIdentity ==
    [][\A m \in network : m \in delivered' /\ m \notin delivered =>
          store[m.to].known \in {None, Some(Sender(m))}]_vars
=============================================================================
