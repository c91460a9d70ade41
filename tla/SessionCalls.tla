---------------------------- MODULE SessionCalls ----------------------------
(***************************************************************************)
(* Concurrent calls on the session with one contact, as the Java API makes *)
(* them: SessionCipher.encrypt, the two SessionCipher.decrypt and          *)
(* SessionBuilder.process each take SESSION_LOCK and run the Rust function *)
(* through JNI, which calls back into the application's stores.  A call is *)
(* the sequence of its store calls, with the in-memory work between them;  *)
(* any store call may throw, which ends the call at that point and leaves  *)
(* what earlier store calls did, and the process may die at any point,     *)
(* which loses everything but the stores.                                  *)
(***************************************************************************)
EXTENDS CallEffects, FiniteSets

CONSTANTS Threads,      \* the application's threads
          PreKeyIds,    \* ids of the one-time pre-keys in the store at first
          MaxEncrypts   \* bound: calls of encrypt

ASSUME CallsAssumption ==
    /\ MaxEncrypts \in Nat
    /\ \A m \in Messages : m.pre_key = <<>> \/ m.pre_key = <<m.pre_key[1]>>

\* A session's pre-key messages all name the one-time pre-key that the contact's
\* set_unacknowledged_pre_key_message noted when it made the session, the others
\* name none, and the base keys generated here are not among the contact's.
ASSUME MessagesAssumption ==
    /\ \A m, n \in Messages :
          m.prekey /\ n.prekey /\ m.session = n.session => m.pre_key = n.pre_key
    /\ \A m \in Messages : IF m.prekey THEN m.session \notin OwnSessions ELSE m.pre_key = <<>>

VARIABLES lock,         \* the threads inside synchronized (SESSION_LOCK)
          call,         \* the call a thread is in, [op |-> "none"] if none
          pc,           \* the step of that call the thread is at
          record,       \* the call's session_record, a copy
          pre_key_id,   \* the one-time pre-key the call has to remove
          stored,       \* the session store's record for the contact
          pre_keys,     \* ids in the one-time pre-key store
          known,        \* whether the contact's identity key is saved or none is
          begun,        \* base keys generated so far
          encrypts,     \* calls of encrypt so far
          sent, reused, \* message keys of returned messages, those returned twice
          given, again, \* messages whose text was returned, those returned twice
          stale         \* one-time pre-keys whose removal was cut off

local == <<lock, call, pc, record, pre_key_id>>
stores == <<stored, pre_keys, known>>
bounds == <<begun, encrypts>>
outputs == <<sent, reused, given, again>>
vars == <<local, stores, bounds, outputs, stale>>

NoCall == [op |-> "none"]
Calls == [op : {"encrypt"}]
           \cup [op : {"bundle"}, s : OwnSessions]
           \cup [op : {"prekey"}, m : {m \in Messages : m.prekey}]
           \cup [op : {"signal"}, m : {m \in Messages : ~m.prekey}]

\* Mutants: encrypt forgets to store, the one-time pre-key is removed before the
\* session is stored, the identity key is saved after it.
Orders(encrypt_save, decrypt, remove, process, save, store) ==
    [encrypt |-> [start |-> "load", load |-> "encrypt", encrypt |-> "trust",
                  trust |-> "save", save |-> encrypt_save, store |-> "return"],
     signal  |-> [start |-> "load", load |-> "decrypt", decrypt |-> "trust",
                  trust |-> "save", save |-> "store", store |-> "return"],
     prekey  |-> [start |-> "load", load |-> "trust", trust |-> "process",
                  process |-> process, save |-> save, decrypt |-> decrypt,
                  store |-> store, remove |-> remove],
     bundle  |-> [start |-> "trust", trust |-> "load", load |-> "save",
                  save |-> "promote", promote |-> "store", store |-> "return"]]
After_Unsaved == Orders("return", "store", "return", "save", "decrypt", "remove")
After_RemoveFirst == Orders("store", "remove", "store", "save", "decrypt", "return")
\* The order of the store calls and of the work between them in each operation.
After == [encrypt |-> [start |-> "load", load |-> "encrypt", encrypt |-> "trust",
                       trust |-> "save", save |-> "store", store |-> "return"],
          signal  |-> [start |-> "load", load |-> "decrypt", decrypt |-> "trust",
                       trust |-> "save", save |-> "store", store |-> "return"],
          prekey  |-> [start |-> "load", load |-> "trust", trust |-> "process",
                       process |-> "save", save |-> "decrypt", decrypt |-> "store",
                       store |-> "remove", remove |-> "return"],
          bundle  |-> [start |-> "trust", trust |-> "load", load |-> "save",
                       save |-> "promote", promote |-> "store", store |-> "return"]]

Steps == {"none", "start", "load", "encrypt", "decrypt", "trust", "process",
          "save", "promote", "store", "remove", "return"}

Init == /\ lock = {}
        /\ call = [t \in Threads |-> NoCall]
        /\ pc = [t \in Threads |-> "none"]
        /\ record = [t \in Threads |-> FreshRecord]
        /\ pre_key_id = [t \in Threads |-> <<>>]
        /\ stored = FreshRecord /\ pre_keys = PreKeyIds /\ known = "none"
        /\ begun = {} /\ encrypts = 0
        /\ sent = {} /\ reused = {} /\ given = {} /\ again = {} /\ stale = {}
-----------------------------------------------------------------------------
\* A thread calls the API and waits for the lock.
Call(t, c) ==
    /\ pc[t] = "none"
    /\ IF c.op = "encrypt" THEN encrypts < MaxEncrypts /\ encrypts' = encrypts + 1
                           ELSE UNCHANGED encrypts
    /\ IF c.op = "bundle" THEN c.s \notin begun /\ begun' = begun \cup {c.s}
                          ELSE UNCHANGED begun
    /\ call' = [call EXCEPT ![t] = c]
    /\ pc' = [pc EXCEPT ![t] = "start"]
    /\ UNCHANGED <<lock, record, pre_key_id, stores, outputs, stale>>

\* Mutant: the lock is taken though another thread holds it.
Enter_NoLock(t) ==
    /\ pc[t] = "start"
    /\ lock' = lock \cup {t}
    /\ pc' = [pc EXCEPT ![t] = After[call[t].op].start]
    /\ UNCHANGED <<call, record, pre_key_id, stores, bounds, outputs, stale>>

\* synchronized (SESSION_LOCK) {
Enter(t) ==
    /\ pc[t] = "start" /\ lock = {}
    /\ lock' = {t}
    /\ pc' = [pc EXCEPT ![t] = After[call[t].op].start]
    /\ UNCHANGED <<call, record, pre_key_id, stores, bounds, outputs, stale>>

\* } in either way: the call is over and the lock free.
Leave(t) ==
    /\ lock' = lock \ {t}
    /\ call' = [call EXCEPT ![t] = NoCall]
    /\ pc' = [pc EXCEPT ![t] = "none"]
    /\ record' = [record EXCEPT ![t] = FreshRecord]
    /\ pre_key_id' = [pre_key_id EXCEPT ![t] = <<>>]

At(t, step) == t \in lock /\ pc[t] = step
GoOn(t) == pc' = [pc EXCEPT ![t] = After[call[t].op][pc[t]]]

load_session(t) ==
    /\ At(t, "load") /\ GoOn(t)
    /\ record' = [record EXCEPT ![t] = stored]
    /\ UNCHANGED <<lock, call, pre_key_id, stores, bounds, outputs, stale>>

is_trusted_identity(t) ==
    /\ At(t, "trust") /\ GoOn(t)
    /\ UNCHANGED <<lock, call, record, pre_key_id, stores, bounds, outputs, stale>>

save_identity(t) ==
    /\ At(t, "save") /\ GoOn(t)
    /\ known' = "saved"
    /\ UNCHANGED <<lock, call, record, pre_key_id, stored, pre_keys, bounds,
                   outputs, stale>>

\* message_encrypt draws the message key and moves the chain key on.
EncryptStep(t) ==
    /\ At(t, "encrypt") /\ GoOn(t)
    /\ CanEncrypt(record[t])
    /\ record' = [record EXCEPT ![t] = encrypt_with_record(@)]
    /\ UNCHANGED <<lock, call, pre_key_id, stores, bounds, outputs, stale>>

DecryptStep(t) ==
    /\ At(t, "decrypt") /\ GoOn(t)
    /\ CanDecrypt(record[t], call[t].m)
    /\ record' = [record EXCEPT ![t] = decrypt_message_with_record(@, call[t].m)]
    /\ UNCHANGED <<lock, call, pre_key_id, stores, bounds, outputs, stale>>

\* get_pre_key finds the one-time pre-key, if the message names one.
HasPreKey(m) == \A i \in DOMAIN m.pre_key : m.pre_key[i] \in pre_keys

\* process_prekey_v3: a session the record has is used as it is; otherwise the
\* named one-time pre-key is fetched and a session is built from it.
process_prekey_v3(t) ==
    LET m == call[t].m IN
    /\ At(t, "process") /\ GoOn(t)
    /\ \/ /\ m.session \in record[t].sessions
          /\ UNCHANGED <<record, pre_key_id>>
       \/ /\ m.session \notin record[t].sessions
          /\ HasPreKey(m)
          /\ record' = [record EXCEPT ![t] = promote_state(@, m.session)]
          /\ pre_key_id' = [pre_key_id EXCEPT ![t] = m.pre_key]
    /\ UNCHANGED <<lock, call, stores, bounds, outputs, stale>>

\* process_prekey_bundle builds a session on a base key generated for it.
PromoteStep(t) ==
    /\ At(t, "promote") /\ GoOn(t)
    /\ record' = [record EXCEPT ![t] = promote_state(@, call[t].s)]
    /\ UNCHANGED <<lock, call, pre_key_id, stores, bounds, outputs, stale>>

store_session(t) ==
    /\ At(t, "store") /\ GoOn(t)
    /\ stored' = record[t]
    /\ UNCHANGED <<lock, call, record, pre_key_id, pre_keys, known, bounds,
                   outputs, stale>>

\* Mutant: the pre-key stays in the store.
remove_pre_key_Kept(t) ==
    /\ At(t, "remove") /\ GoOn(t)
    /\ UNCHANGED <<lock, call, record, pre_key_id, stores, bounds, outputs, stale>>

\* Only if process_prekey_v3 used one.
remove_pre_key(t) ==
    /\ At(t, "remove") /\ GoOn(t)
    /\ pre_keys' = {k \in pre_keys : <<k>> # pre_key_id[t]}
    /\ UNCHANGED <<lock, call, record, pre_key_id, stored, known, bounds, outputs,
                   stale>>

\* The call returns: a message under the key it drew, or a text.
Return(t) ==
    LET key == <<record[t].current, record[t].drawn[record[t].current]>> IN
    /\ At(t, "return")
    /\ CASE call[t].op = "encrypt" ->
              /\ sent' = sent \cup {key}
              /\ reused' = reused \cup ({key} \cap sent)
              /\ UNCHANGED <<given, again>>
         [] call[t].op \in {"signal", "prekey"} ->
              /\ given' = given \cup {call[t].m}
              /\ again' = again \cup ({call[t].m} \cap given)
              /\ UNCHANGED <<sent, reused>>
         [] OTHER -> UNCHANGED outputs
    /\ Leave(t)
    /\ UNCHANGED <<stores, bounds, stale>>

\* The one-time pre-key of a call that ends between the two stores' updates.
CutOff(t) == IF pc[t] = "remove" /\ pre_key_id[t] # <<>> THEN {pre_key_id[t][1]} ELSE {}

\* The exception Java sees for what the Rust code found wrong, if anything.
exception(t) ==
    CASE pc[t] = "encrypt" /\ ~CanEncrypt(record[t]) -> "IllegalStateException"
      [] pc[t] = "process" /\ call[t].m.session \notin record[t].sessions
                           /\ ~HasPreKey(call[t].m) -> "InvalidKeyIdException"
      [] pc[t] = "decrypt" /\ call[t].m \in record[t].read -> "DuplicateMessageException"
      [] pc[t] = "decrypt" /\ call[t].m.session \notin record[t].sessions ->
            "InvalidMessageException"
      [] OTHER -> "none"

\* Mutant: the exception path does not give the lock back.
Refuse_KeepsLock(t) ==
    /\ t \in lock /\ exception(t) # "none"
    /\ pc' = [pc EXCEPT ![t] = "none"]
    /\ UNCHANGED <<lock, call, record, pre_key_id, stores, bounds, outputs, stale>>

\* The operation fails and the exception leaves the synchronized block.
Refuse(t) ==
    /\ t \in lock /\ exception(t) # "none"
    /\ Leave(t)
    /\ UNCHANGED <<stores, bounds, outputs, stale>>

\* Whether the step that comes next calls a store.
CallsStore(t) ==
    \/ pc[t] \in {"load", "trust", "save", "store"}
    \/ pc[t] = "process" /\ call[t].m.session \notin record[t].sessions
    \/ pc[t] = "remove" /\ pre_key_id[t] # <<>>

\* A store's callback throws, or is_trusted_identity answers no.
StoreThrows(t) ==
    /\ t \in lock /\ CallsStore(t)
    /\ stale' = stale \cup CutOff(t)
    /\ Leave(t)
    /\ UNCHANGED <<stores, bounds, outputs>>

\* The process dies: the stores are all that is left.
Crash ==
    /\ lock # {}
    /\ lock' = {}
    /\ call' = [t \in Threads |-> NoCall]
    /\ pc' = [t \in Threads |-> "none"]
    /\ record' = [t \in Threads |-> FreshRecord]
    /\ pre_key_id' = [t \in Threads |-> <<>>]
    /\ stale' = stale \cup UNION {CutOff(t) : t \in lock}
    /\ UNCHANGED <<stores, bounds, outputs>>

Run(t) == \/ Enter(t)
          \/ load_session(t) \/ is_trusted_identity(t) \/ save_identity(t)
          \/ EncryptStep(t) \/ DecryptStep(t) \/ process_prekey_v3(t)
          \/ PromoteStep(t) \/ store_session(t) \/ remove_pre_key(t)
          \/ Return(t) \/ Refuse(t)

Next == \/ \E t \in Threads : \/ \E c \in Calls : Call(t, c)
                             \/ Run(t)
                             \/ StoreThrows(t)
        \/ Crash

Spec == Init /\ [][Next]_vars

\* A thread that can go on does so in the end: the operations never suspend
\* (expect_ready polls them once).  Nothing is said of who gets the lock next.
FairSpec == Spec /\ \A t \in Threads : WF_vars(Run(t))
-----------------------------------------------------------------------------
\* The local copies, the stores and the history are what the code can hold.
TypeOK ==
    /\ lock \subseteq Threads
    /\ call \in [Threads -> Calls \cup {NoCall}]
    /\ pc \in [Threads -> Steps]
    /\ record \in [Threads -> Records] /\ stored \in Records
    /\ pre_key_id \in [Threads -> {<<>>} \cup {<<k>> : k \in PreKeyIds}]
    /\ pre_keys \subseteq PreKeyIds /\ stale \subseteq PreKeyIds /\ known \in {"none", "saved"}
    /\ begun \subseteq OwnSessions /\ encrypts \in 0..MaxEncrypts
    /\ sent \subseteq Sessions \X Nat /\ reused \subseteq sent
    /\ given \subseteq Messages /\ again \subseteq given

\* Every change of the stored record is the whole effect of one call on the
\* record as stored at that moment: no call overwrites what another stored
\* between its load_session and its store_session.
Atomic == INSTANCE AtomicCalls
ImplementsAtomicCalls == Atomic!Spec

\* No two returned ciphertexts are under the same message key, whatever failed
\* or crashed between drawing the key and storing the advanced chain.
UniqueKeys == reused = {}

\* No text is returned twice, whatever failed or crashed between decrypting and
\* storing the record that remembers it.
AtMostOnce == again = {}

\* What a caller was given is in the store: after a crash the record still
\* knows every message read and every key drawn for a returned ciphertext.
DurableBeforeReturn ==
    /\ given \subseteq stored.read
    /\ \A k \in sent : k[2] <= stored.drawn[k[1]]

\* A one-time pre-key leaves the store only when a session built on it is in
\* the session store, so no crash makes its messages unreadable for good.
KeyOutlivesNeed ==
    \A k \in PreKeyIds \ pre_keys :
        \E m \in Messages : m.pre_key = <<k>> /\ m.session \in stored.sessions

\* Once a session built on a one-time pre-key is stored the key is gone, but for
\* calls still on their way to remove it and those cut off just before.
KeyLeftOnlyByFailure ==
    \A m \in stored.read :
        m.pre_key # <<>> /\ m.pre_key[1] \in pre_keys =>
            \/ m.pre_key[1] \in stale
            \/ \E t \in lock : pc[t] = "remove" /\ pre_key_id[t] = m.pre_key

\* No session is in the store before its peer's identity key is.
KnownBeforeStored == stored.sessions # {} => known = "saved"

\* A call that got the lock comes back, with a result or an exception, and the
\* lock is free for the next one: no path through an operation keeps it.
LockIsFreed == \A t \in Threads : t \in lock ~> lock = {}

\* "@throws NoSessionException if there is no established session for this
\* contact" (SessionCipher.java:119): what decrypt(SignalMessage) throws when
\* the store holds no session.
NoSessionMeansNoSessionException ==
    \A t \in lock : /\ call[t].op = "signal" /\ pc[t] = "decrypt"
                    /\ stored.sessions = {}
                    => exception(t) = "NoSessionException"
=============================================================================
