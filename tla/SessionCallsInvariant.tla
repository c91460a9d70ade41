------------------------ MODULE SessionCallsInvariant ----------------------
(***************************************************************************)
(* The inductive invariant of SessionCalls, for any set of threads,        *)
(* messages and keys.  The lock gives mutual exclusion, so the copy a call *)
(* works on is at every step the effect so far of that call on the record  *)
(* still in the store (Frame).  This module has the lemmas that every step *)
(* uses, and that calling, getting the lock and the steps of a call up to  *)
(* store_session, which work on its own copy, keep the invariant.          *)
(***************************************************************************)
EXTENDS SessionCalls, TLAPS

\* The lock is held by one thread at most and only such a thread is past it.
Mutex == /\ \A t, u \in lock : t = u
         /\ \A t \in Threads : t \in lock <=> pc[t] \notin {"none", "start"}
         /\ \A t \in Threads : pc[t] # "none" => call[t] \in Calls
         /\ \A t \in Threads \ lock : pre_key_id[t] = <<>>

\* Where a call can be.
StepsOf == [encrypt |-> {"load", "encrypt", "trust", "save", "store", "return"},
            signal  |-> {"load", "decrypt", "trust", "save", "store", "return"},
            prekey  |-> {"load", "trust", "process", "save", "decrypt", "store",
                         "remove", "return"},
            bundle  |-> {"trust", "load", "save", "promote", "store", "return"}]

EncryptFrame(t) ==
    /\ pc[t] \in StepsOf.encrypt
    /\ pc[t] = "encrypt" => record[t] = stored
    /\ pc[t] \in {"trust", "save", "store"} =>
         CanEncrypt(stored) /\ record[t] = encrypt_with_record(stored)
    /\ pc[t] = "return" =>
         /\ record[t] = stored /\ CanEncrypt(stored)
         /\ \A k \in sent : k[1] = stored.current => k[2] < stored.drawn[k[1]]

Consumed(m) == m \in stored.read /\ m \notin given

SignalFrame(t) ==
    /\ pc[t] \in StepsOf.signal
    /\ pc[t] = "decrypt" => record[t] = stored
    /\ pc[t] \in {"trust", "save", "store"} =>
         /\ CanDecrypt(stored, call[t].m)
         /\ record[t] = decrypt_message_with_record(stored, call[t].m)
    /\ pc[t] = "return" => Consumed(call[t].m)

\* The record process_prekey_v3 leaves: with a session for the message.
Base(m) == IF m.session \in stored.sessions THEN stored
           ELSE promote_state(stored, m.session)

PreKeyFrame(t) ==
    /\ pc[t] \in StepsOf.prekey
    /\ pre_key_id[t] \in {<<>>, call[t].m.pre_key}
    /\ pc[t] \in {"trust", "process"} => record[t] = stored
    /\ pc[t] \in {"save", "decrypt"} => record[t] = Base(call[t].m)
    /\ pc[t] = "store" =>
         /\ CanDecrypt(Base(call[t].m), call[t].m)
         /\ record[t] = decrypt_message_with_record(Base(call[t].m), call[t].m)
    /\ pc[t] = "remove" => call[t].m.session \in stored.sessions
    /\ pc[t] \in {"remove", "return"} => Consumed(call[t].m)

BundleFrame(t) ==
    /\ pc[t] \in StepsOf.bundle
    /\ pc[t] \in {"save", "promote"} => record[t] = stored
    /\ pc[t] = "store" => record[t] = promote_state(stored, call[t].s)

\* The identity key is saved by the time a call stores the session.
Saved(t) == /\ pc[t] \in {"store", "promote"} => known = "saved"
            /\ call[t].op = "prekey" /\ pc[t] = "decrypt" => known = "saved"

Frame(t) == /\ call[t].op = "encrypt" => EncryptFrame(t)
            /\ call[t].op = "signal" => SignalFrame(t)
            /\ call[t].op = "prekey" => PreKeyFrame(t)
            /\ call[t].op = "bundle" => BundleFrame(t)

Inv == /\ TypeOK /\ Mutex
       /\ \A t \in lock : Frame(t) /\ Saved(t)
       /\ UniqueKeys /\ AtMostOnce /\ DurableBeforeReturn
       /\ KeyOutlivesNeed /\ KnownBeforeStored
-----------------------------------------------------------------------------
\* What the operations on a record do to each of its parts.
LEMMA PromoteEffect ==
    ASSUME NEW r \in Records, NEW s \in Sessions
    PROVE  /\ promote_state(r, s) \in Records
           /\ promote_state(r, s).current = s
           /\ promote_state(r, s).sessions = r.sessions \cup {s}
           /\ promote_state(r, s).drawn = r.drawn
           /\ promote_state(r, s).read = r.read
BY Zenon DEF promote_state, Records

\* Encrypting draws one key of the current session and forgets nothing.
LEMMA EncryptEffect ==
    ASSUME NEW r \in Records, CanEncrypt(r)
    PROVE  /\ encrypt_with_record(r) \in Records
           /\ r.current \in Sessions
           /\ encrypt_with_record(r).current = r.current
           /\ encrypt_with_record(r).sessions = r.sessions
           /\ encrypt_with_record(r).drawn = [r.drawn EXCEPT ![r.current] = @ + 1]
           /\ encrypt_with_record(r).read = r.read
BY DEF encrypt_with_record, CanEncrypt, Records

\* Decrypting adds the message to those read and forgets nothing.
LEMMA DecryptEffect ==
    ASSUME NEW r \in Records, NEW m \in Messages, CanDecrypt(r, m)
    PROVE  /\ decrypt_message_with_record(r, m) \in Records
           /\ decrypt_message_with_record(r, m).current = m.session
           /\ decrypt_message_with_record(r, m).sessions = r.sessions
           /\ decrypt_message_with_record(r, m).drawn = r.drawn
           /\ decrypt_message_with_record(r, m).read = r.read \cup {m}
BY Zenon DEF decrypt_message_with_record, CanDecrypt, Records

\* The record of an unknown contact is a record.
LEMMA FreshIsRecord == FreshRecord \in Records
BY DEF FreshRecord, Records

\* The kinds of call and the fields they have.
LEMMA CallKinds ==
    ASSUME NEW c \in Calls
    PROVE  /\ c.op \in {"encrypt", "signal", "prekey", "bundle"}
           /\ c.op = "bundle" => c.s \in OwnSessions /\ c.s \in Sessions
           /\ c.op \in {"signal", "prekey"} =>
                c.m \in Messages /\ c.m.session \in Sessions
           /\ c # NoCall
BY DEF Calls, NoCall, Sessions

\* GoOn, spelled out for each kind of call.
LEMMA AfterSteps ==
    /\ After["encrypt"]["start"] = "load" /\ After["encrypt"]["load"] = "encrypt"
    /\ After["encrypt"]["encrypt"] = "trust" /\ After["encrypt"]["trust"] = "save"
    /\ After["encrypt"]["save"] = "store" /\ After["encrypt"]["store"] = "return"
    /\ After["signal"]["start"] = "load" /\ After["signal"]["load"] = "decrypt"
    /\ After["signal"]["decrypt"] = "trust" /\ After["signal"]["trust"] = "save"
    /\ After["signal"]["save"] = "store" /\ After["signal"]["store"] = "return"
    /\ After["prekey"]["start"] = "load" /\ After["prekey"]["load"] = "trust"
    /\ After["prekey"]["trust"] = "process" /\ After["prekey"]["process"] = "save"
    /\ After["prekey"]["save"] = "decrypt" /\ After["prekey"]["decrypt"] = "store"
    /\ After["prekey"]["store"] = "remove" /\ After["prekey"]["remove"] = "return"
    /\ After["bundle"]["start"] = "trust" /\ After["bundle"]["trust"] = "load"
    /\ After["bundle"]["load"] = "save" /\ After["bundle"]["save"] = "promote"
    /\ After["bundle"]["promote"] = "store" /\ After["bundle"]["store"] = "return"
BY DEF After

\* The initial state satisfies the invariant.
LEMMA InitInv == Init => Inv
<1> SUFFICES ASSUME Init PROVE Inv
  OBVIOUS
<1>1. TypeOK
  <2>1. pc \in [Threads -> Steps] /\ call \in [Threads -> Calls \cup {NoCall}]
    BY DEF Init, Steps
  <2>2. record \in [Threads -> Records] /\ stored \in Records
    BY FreshIsRecord DEF Init
  <2>3. pre_key_id \in [Threads -> {<<>>} \cup {<<k>> : k \in PreKeyIds}]
    BY DEF Init
  <2>4. known \in {"none", "saved"} /\ encrypts \in 0..MaxEncrypts
    BY CallsAssumption DEF Init
  <2> QED
    BY <2>1, <2>2, <2>3, <2>4 DEF Init, TypeOK
<1>2. Mutex /\ \A t \in lock : Frame(t) /\ Saved(t)
  BY DEF Init, Mutex
<1>3. UniqueKeys /\ AtMostOnce /\ DurableBeforeReturn /\ KeyOutlivesNeed
  BY DEF Init, UniqueKeys, AtMostOnce, DurableBeforeReturn, KeyOutlivesNeed, FreshRecord
<1>4. KnownBeforeStored
  BY DEF Init, KnownBeforeStored, FreshRecord
<1> QED
  BY <1>1, <1>2, <1>3, <1>4 DEF Inv

\* A thread inside the lock is alone there and in a call.
LEMMA Alone ==
    ASSUME Inv, NEW t \in lock
    PROVE  /\ lock = {t} /\ t \in Threads /\ call[t] \in Calls
           /\ pc[t] \notin {"none", "start"}
           /\ Frame(t) /\ Saved(t)
BY DEF Inv, Mutex, TypeOK

\* A step changes neither the session store, the pre-key store nor what callers
\* were given, and takes no identity key away.
Quiet == /\ stored' = stored /\ pre_keys' = pre_keys /\ known' \in {known, "saved"}
         /\ sent' = sent /\ reused' = reused /\ given' = given /\ again' = again

\* A step that touches none of them breaks no promise about the stores.
LEMMA QuietKeeps ==
    ASSUME Inv, Quiet
    PROVE  (UniqueKeys /\ AtMostOnce /\ DurableBeforeReturn /\ KeyOutlivesNeed
              /\ KnownBeforeStored)'
<1>1. UniqueKeys' /\ AtMostOnce'
  BY DEF Inv, Quiet, UniqueKeys, AtMostOnce
<1>2. DurableBeforeReturn'
  BY DEF Inv, Quiet, DurableBeforeReturn
<1>3. KeyOutlivesNeed'
  BY DEF Inv, Quiet, KeyOutlivesNeed
<1>4. KnownBeforeStored'
  BY DEF Inv, Quiet, KnownBeforeStored
<1> QED
  BY <1>1, <1>2, <1>3, <1>4

\* The frame of a thread is about its own variables, the stored record and what
\* callers were given.
LEMMA SameFrame ==
    ASSUME NEW t, Frame(t), Saved(t), Quiet,
           pc'[t] = pc[t], call'[t] = call[t], record'[t] = record[t],
           pre_key_id'[t] = pre_key_id[t]
    PROVE  (Frame(t) /\ Saved(t))'
<1>1. Base(call[t].m)' = Base(call[t].m) /\ (Consumed(call[t].m)' <=> Consumed(call[t].m))
  BY DEF Base, Consumed, Quiet
<1>2. Saved(t)'
  BY DEF Saved, Quiet
<1>3. EncryptFrame(t) => EncryptFrame(t)'
  BY DEF EncryptFrame, Quiet
<1>4. SignalFrame(t) => SignalFrame(t)'
  BY <1>1 DEF SignalFrame, Quiet
<1>5. PreKeyFrame(t) => PreKeyFrame(t)'
  BY <1>1 DEF PreKeyFrame, Quiet
<1>6. BundleFrame(t) => BundleFrame(t)'
  BY DEF BundleFrame, Quiet
<1> QED
  BY <1>2, <1>3, <1>4, <1>5, <1>6 DEF Frame

\* Calling the API only makes the caller wait: no frame is disturbed.
LEMMA CallInv ==
    ASSUME Inv, NEW t \in Threads, NEW c \in Calls, Call(t, c)
    PROVE  Inv'
<1>1. t \notin lock /\ pc[t] = "none"
  BY DEF Inv, Mutex, Call
<1>2. /\ call' = [call EXCEPT ![t] = c] /\ pc' = [pc EXCEPT ![t] = "start"]
      /\ lock' = lock /\ record' = record /\ pre_key_id' = pre_key_id /\ stale' = stale
  BY DEF Call
<1>3. Quiet
  BY DEF Call, Quiet, stores, outputs
<1>4. TypeOK'
  <2>1. begun' \subseteq OwnSessions
    BY CallKinds DEF Inv, TypeOK, Call
  <2>2. encrypts' \in 0..MaxEncrypts
    BY CallsAssumption DEF Inv, TypeOK, Call
  <2>3. pc' \in [Threads -> Steps] /\ call' \in [Threads -> Calls \cup {NoCall}]
    BY <1>2 DEF Inv, TypeOK, Steps
  <2> QED
    BY <1>2, <1>3, <2>1, <2>2, <2>3 DEF Inv, TypeOK, Quiet
<1>5. Mutex'
  BY <1>1, <1>2 DEF Inv, Mutex, TypeOK
<1>6. \A u \in lock' : (Frame(u) /\ Saved(u))'
  <2> TAKE u \in lock'
  <2>1. /\ Frame(u) /\ Saved(u) /\ pc'[u] = pc[u] /\ call'[u] = call[u]
        /\ record'[u] = record[u] /\ pre_key_id'[u] = pre_key_id[u]
    BY <1>1, <1>2 DEF Inv, TypeOK
  <2> QED
    BY <1>3, <2>1, SameFrame
<1> QED
  BY <1>3, <1>4, <1>5, <1>6, QuietKeeps DEF Inv

\* The thread that gets the lock is alone inside it (synchronized SESSION_LOCK).
LEMMA EnterInv ==
    ASSUME Inv, NEW t \in Threads, Enter(t)
    PROVE  Inv'
<1>1. /\ lock = {} /\ lock' = {t} /\ pc[t] = "start"
      /\ pc' = [pc EXCEPT ![t] = After[call[t].op]["start"]]
      /\ call' = call /\ record' = record /\ pre_key_id' = pre_key_id
      /\ begun' = begun /\ encrypts' = encrypts /\ stale' = stale
  BY DEF Enter, bounds
<1>2. Quiet
  BY DEF Enter, Quiet, stores, outputs
<1>3. call[t] \in Calls /\ pre_key_id[t] = <<>>
  BY <1>1 DEF Inv, Mutex
<1>4. pc'[t] = (IF call[t].op = "bundle" THEN "trust" ELSE "load")
  <2>1. pc'[t] = After[call[t].op]["start"]
    BY <1>1 DEF Inv, TypeOK
  <2> QED
    BY <1>3, <2>1, AfterSteps, CallKinds
<1>5. pc' \in [Threads -> Steps] /\ \A u \in Threads \ {t} : pc'[u] = pc[u]
  BY <1>1, <1>4 DEF Inv, TypeOK, Steps
<1>6. TypeOK'
  BY <1>1, <1>2, <1>5 DEF Inv, TypeOK, Quiet
<1>7. Mutex'
  BY <1>1, <1>3, <1>4, <1>5 DEF Inv, Mutex
<1>8. (Frame(t) /\ Saved(t))'
  <2>1. pc'[t] \in {"load", "trust"} /\ (pc'[t] = "trust" => call'[t].op = "bundle")
    BY <1>1, <1>4
  <2>2. pre_key_id'[t] = <<>>
    BY <1>1, <1>3
  <2>3. Saved(t)'
    BY <2>1 DEF Saved
  <2>4. call'[t].op \in {"encrypt", "signal", "prekey", "bundle"}
    BY <1>1, <1>3, CallKinds
  <2>5. call'[t].op # "bundle" => pc'[t] = "load"
    BY <1>1, <1>4
  <2>6. call'[t].op = "bundle" => pc'[t] = "trust"
    BY <1>1, <1>4
  <2> QED
    BY <2>2, <2>3, <2>5, <2>6
       DEF Frame, EncryptFrame, SignalFrame, PreKeyFrame, BundleFrame, StepsOf
<1> QED
  BY <1>1, <1>2, <1>6, <1>7, <1>8, QuietKeeps DEF Inv

\* Going on keeps a call among its own steps and touches no other thread.
LEMMA GoOnFacts ==
    ASSUME Inv, NEW t \in lock, GoOn(t), pc[t] # "return"
    PROVE  /\ pc' \in [Threads -> Steps]
           /\ pc'[t] = After[call[t].op][pc[t]]
           /\ pc'[t] \in Steps \ {"none", "start"}
           /\ \A u \in Threads \ {t} : pc'[u] = pc[u]
<1>1. Frame(t) /\ call[t] \in Calls /\ t \in Threads
  BY Alone
<1>2. After[call[t].op][pc[t]] \in Steps \ {"none", "start"}
  <2>1. CASE call[t].op = "encrypt"
    BY <1>1, <2>1, AfterSteps, SMTT(30) DEF Frame, EncryptFrame, StepsOf, Steps
  <2>2. CASE call[t].op = "signal"
    BY <1>1, <2>2, AfterSteps, SMTT(30) DEF Frame, SignalFrame, StepsOf, Steps
  <2>3. CASE call[t].op = "prekey"
    BY <1>1, <2>3, AfterSteps DEF Frame, PreKeyFrame, StepsOf, Steps
  <2>4. CASE call[t].op = "bundle"
    BY <1>1, <2>4, AfterSteps, SMTT(30) DEF Frame, BundleFrame, StepsOf, Steps
  <2> QED
    BY <1>1, <2>1, <2>2, <2>3, <2>4, CallKinds
<1> QED
  BY <1>1, <1>2 DEF GoOn, Inv, TypeOK

\* A step inside the lock keeps the lock's discipline, and only its own frame
\* is to be looked at.
LEMMA InsideStep ==
    ASSUME Inv, NEW t \in lock, GoOn(t), pc[t] # "return",
           lock' = lock, call' = call,
           \A u \in Threads \ {t} : pre_key_id'[u] = pre_key_id[u],
           (Frame(t) /\ Saved(t))'
    PROVE  Mutex' /\ \A u \in lock' : (Frame(u) /\ Saved(u))'
<1>1. lock = {t} /\ t \in Threads /\ pc[t] \notin {"none", "start"}
  BY Alone
<1>2. pc'[t] \notin {"none", "start"} /\ \A u \in Threads \ {t} : pc'[u] = pc[u]
  BY GoOnFacts
<1>3. Mutex'
  BY <1>1, <1>2 DEF Inv, Mutex
<1> QED
  BY <1>1, <1>3

\* A call's step leaves alone what is neither its own nor a store.
Inside == lock' = lock /\ call' = call /\ begun' = begun /\ encrypts' = encrypts
            /\ stale' = stale

\* A step on the call's own copy keeps the invariant if it keeps its frame.
LEMMA CopyStep ==
    ASSUME Inv, NEW t \in lock, GoOn(t), pc[t] # "return", Quiet, Inside,
           record' \in [Threads -> Records],
           pre_key_id' \in [Threads -> {<<>>} \cup {<<k>> : k \in PreKeyIds}],
           \A u \in Threads \ {t} : pre_key_id'[u] = pre_key_id[u],
           (Frame(t) /\ Saved(t))'
    PROVE  Inv'
<1>1. Mutex' /\ \A u \in lock' : (Frame(u) /\ Saved(u))'
  BY InsideStep DEF Inside
<1>2. pc' \in [Threads -> Steps]
  BY GoOnFacts
<1>3. TypeOK'
  BY <1>2 DEF Inv, TypeOK, Quiet, Inside
<1> QED
  BY <1>1, <1>3, QuietKeeps DEF Inv

\* load_session gives the call a copy that is the stored record.
LEMMA LoadInv ==
    ASSUME Inv, NEW t \in Threads, load_session(t)
    PROVE  Inv'
<1>1. /\ t \in lock /\ pc[t] = "load" /\ GoOn(t)
      /\ record' = [record EXCEPT ![t] = stored]
      /\ pre_key_id' = pre_key_id
  BY DEF load_session, At
<1>2. Quiet /\ Inside
  BY DEF load_session, Quiet, Inside, stores, bounds, outputs
<1>3. Frame(t) /\ Saved(t) /\ call[t] \in Calls /\ record[t] \in Records
  BY <1>1, Alone DEF Inv, TypeOK
<1>4. /\ call[t].op = "encrypt" => pc'[t] = "encrypt"
      /\ call[t].op = "signal" => pc'[t] = "decrypt"
      /\ call[t].op = "prekey" => pc'[t] = "trust"
      /\ call[t].op = "bundle" => pc'[t] = "save"
  BY <1>1, GoOnFacts, AfterSteps
<1>5. stored' = stored /\ call'[t] = call[t] /\ pre_key_id'[t] = pre_key_id[t]
  BY <1>1, <1>2 DEF Quiet, Inside
<1>6. record'[t] = stored
  BY <1>1 DEF Inv, TypeOK
<1>7. (Frame(t) /\ Saved(t))'
  <2>1. CASE call[t].op = "encrypt"
    BY <1>1, <1>3, <1>4, <1>5, <1>6, <2>1 DEF Frame, Saved, EncryptFrame, StepsOf
  <2>2. CASE call[t].op = "signal"
    BY <1>1, <1>3, <1>4, <1>5, <1>6, <2>2 DEF Frame, Saved, SignalFrame, StepsOf
  <2>3. CASE call[t].op = "prekey"
    BY <1>1, <1>3, <1>4, <1>5, <1>6, <2>3 DEF Frame, Saved, PreKeyFrame, StepsOf
  <2>4. CASE call[t].op = "bundle"
    BY <1>1, <1>3, <1>4, <1>5, <1>6, <2>4 DEF Frame, Saved, BundleFrame, StepsOf
  <2> QED
    BY <1>3, <2>1, <2>2, <2>3, <2>4, CallKinds
<1>8. /\ record' \in [Threads -> Records]
      /\ pre_key_id' \in [Threads -> {<<>>} \cup {<<k>> : k \in PreKeyIds}]
  BY <1>1 DEF Inv, TypeOK
<1> QED
  BY <1>1, <1>2, <1>7, <1>8, CopyStep

\* is_trusted_identity changes no store.
LEMMA TrustInv ==
    ASSUME Inv, NEW t \in Threads, is_trusted_identity(t)
    PROVE  Inv'
<1>1. /\ t \in lock /\ pc[t] = "trust" /\ GoOn(t)
      /\ record' = record
      /\ pre_key_id' = pre_key_id
  BY DEF is_trusted_identity, At
<1>2. Quiet /\ Inside
  BY DEF is_trusted_identity, Quiet, Inside, stores, bounds, outputs
<1>3. Frame(t) /\ Saved(t) /\ call[t] \in Calls /\ record[t] \in Records
  BY <1>1, Alone DEF Inv, TypeOK
<1>4. /\ call[t].op = "encrypt" => pc'[t] = "save"
      /\ call[t].op = "signal" => pc'[t] = "save"
      /\ call[t].op = "prekey" => pc'[t] = "process"
      /\ call[t].op = "bundle" => pc'[t] = "load"
  BY <1>1, GoOnFacts, AfterSteps
<1>5. stored' = stored /\ call'[t] = call[t] /\ pre_key_id'[t] = pre_key_id[t]
  BY <1>1, <1>2 DEF Quiet, Inside
<1>6. record'[t] = record[t]
  BY <1>1 DEF Inv, TypeOK
<1>7. (Frame(t) /\ Saved(t))'
  <2>1. CASE call[t].op = "encrypt"
    BY <1>1, <1>3, <1>4, <1>5, <1>6, <2>1 DEF Frame, Saved, EncryptFrame, StepsOf
  <2>2. CASE call[t].op = "signal"
    BY <1>1, <1>3, <1>4, <1>5, <1>6, <2>2 DEF Frame, Saved, SignalFrame, StepsOf
  <2>3. CASE call[t].op = "prekey"
    BY <1>1, <1>3, <1>4, <1>5, <1>6, <2>3 DEF Frame, Saved, PreKeyFrame, StepsOf
  <2>4. CASE call[t].op = "bundle"
    BY <1>1, <1>3, <1>4, <1>5, <1>6, <2>4 DEF Frame, Saved, BundleFrame, StepsOf
  <2> QED
    BY <1>3, <2>1, <2>2, <2>3, <2>4, CallKinds
<1>8. /\ record' \in [Threads -> Records]
      /\ pre_key_id' \in [Threads -> {<<>>} \cup {<<k>> : k \in PreKeyIds}]
  BY <1>1 DEF Inv, TypeOK
<1> QED
  BY <1>1, <1>2, <1>7, <1>8, CopyStep

\* save_identity only adds the identity key.
LEMMA SaveInv ==
    ASSUME Inv, NEW t \in Threads, save_identity(t)
    PROVE  Inv'
<1>1. /\ t \in lock /\ pc[t] = "save" /\ GoOn(t)
      /\ record' = record /\ known' = "saved"
      /\ pre_key_id' = pre_key_id
  BY DEF save_identity, At
<1>2. Quiet /\ Inside
  BY DEF save_identity, Quiet, Inside, stores, bounds, outputs
<1>3. Frame(t) /\ Saved(t) /\ call[t] \in Calls /\ record[t] \in Records
  BY <1>1, Alone DEF Inv, TypeOK
<1>4. /\ call[t].op = "encrypt" => pc'[t] = "store"
      /\ call[t].op = "signal" => pc'[t] = "store"
      /\ call[t].op = "prekey" => pc'[t] = "decrypt"
      /\ call[t].op = "bundle" => pc'[t] = "promote"
  BY <1>1, GoOnFacts, AfterSteps
<1>5. stored' = stored /\ call'[t] = call[t] /\ pre_key_id'[t] = pre_key_id[t]
  BY <1>1, <1>2 DEF Quiet, Inside
<1>6. record'[t] = record[t] /\ known' = "saved"
  BY <1>1 DEF Inv, TypeOK
<1>7. (Frame(t) /\ Saved(t))'
  <2>1. CASE call[t].op = "encrypt"
    BY <1>1, <1>3, <1>4, <1>5, <1>6, <2>1 DEF Frame, Saved, EncryptFrame, StepsOf
  <2>2. CASE call[t].op = "signal"
    BY <1>1, <1>3, <1>4, <1>5, <1>6, <2>2 DEF Frame, Saved, SignalFrame, StepsOf
  <2>3. CASE call[t].op = "prekey"
    <3>1. Base(call[t].m)' = Base(call[t].m)
      BY <1>5 DEF Base
    <3>2. record[t] = Base(call[t].m) /\ pre_key_id[t] \in {<<>>, call[t].m.pre_key}
      BY <1>1, <1>3, <2>3 DEF Frame, PreKeyFrame
    <3>3. pc'[t] = "decrypt"
      BY <1>4, <2>3
    <3>4. PreKeyFrame(t)'
      BY <1>5, <1>6, <3>1, <3>2, <3>3 DEF PreKeyFrame, StepsOf
    <3> QED
      BY <1>5, <1>6, <2>3, <3>4 DEF Frame, Saved
  <2>4. CASE call[t].op = "bundle"
    BY <1>1, <1>3, <1>4, <1>5, <1>6, <2>4 DEF Frame, Saved, BundleFrame, StepsOf
  <2> QED
    BY <1>3, <2>1, <2>2, <2>3, <2>4, CallKinds
<1>8. /\ record' \in [Threads -> Records]
      /\ pre_key_id' \in [Threads -> {<<>>} \cup {<<k>> : k \in PreKeyIds}]
  BY <1>1 DEF Inv, TypeOK
<1> QED
  BY <1>1, <1>2, <1>7, <1>8, CopyStep

\* message_encrypt works on its copy; the store is as it was.
LEMMA EncryptInv ==
    ASSUME Inv, NEW t \in Threads, EncryptStep(t)
    PROVE  Inv'
<1>1. /\ t \in lock /\ pc[t] = "encrypt" /\ GoOn(t)
      /\ CanEncrypt(record[t]) /\ record' = [record EXCEPT ![t] = encrypt_with_record(@)]
      /\ pre_key_id' = pre_key_id
  BY DEF EncryptStep, At
<1>2. Quiet /\ Inside
  BY DEF EncryptStep, Quiet, Inside, stores, bounds, outputs
<1>3. Frame(t) /\ Saved(t) /\ call[t] \in Calls /\ record[t] \in Records
  BY <1>1, Alone DEF Inv, TypeOK
<1>4. /\ call[t].op = "encrypt" => pc'[t] = "trust"
  BY <1>1, GoOnFacts, AfterSteps
<1>5. stored' = stored /\ call'[t] = call[t] /\ pre_key_id'[t] = pre_key_id[t]
  BY <1>1, <1>2 DEF Quiet, Inside
<1>6. call[t].op = "encrypt"
  BY <1>1, <1>3, CallKinds DEF Frame, SignalFrame, PreKeyFrame, BundleFrame, StepsOf
<1>7. (Frame(t) /\ Saved(t))'
  <2>1. record[t] = stored
    BY <1>1, <1>3, <1>6 DEF Frame, EncryptFrame
  <2>2. record'[t] = encrypt_with_record(record[t])
    BY <1>1 DEF Inv, TypeOK
  <2>3. CanEncrypt(stored)' /\ record'[t] = encrypt_with_record(stored)'
    BY <1>1, <1>5, <2>1, <2>2
  <2> QED
    BY <1>4, <1>5, <1>6, <2>3 DEF Frame, Saved, EncryptFrame, StepsOf
<1>8. /\ record' \in [Threads -> Records]
      /\ pre_key_id' \in [Threads -> {<<>>} \cup {<<k>> : k \in PreKeyIds}]
  <2>1. encrypt_with_record(record[t]) \in Records
    BY <1>1, <1>3, EncryptEffect, Zenon
  <2> QED
    BY <1>1, <2>1 DEF Inv, TypeOK
<1> QED
  BY <1>1, <1>2, <1>7, <1>8, CopyStep

\* decrypt_message_with_record works on the call's copy.
LEMMA DecryptInv ==
    ASSUME Inv, NEW t \in Threads, DecryptStep(t)
    PROVE  Inv'
<1>1. /\ t \in lock /\ pc[t] = "decrypt" /\ GoOn(t)
      /\ CanDecrypt(record[t], call[t].m)
      /\ record' = [record EXCEPT ![t] = decrypt_message_with_record(@, call[t].m)]
      /\ pre_key_id' = pre_key_id
  BY DEF DecryptStep, At
<1>2. Quiet /\ Inside
  BY DEF DecryptStep, Quiet, Inside, stores, bounds, outputs
<1>3. Frame(t) /\ Saved(t) /\ call[t] \in Calls /\ record[t] \in Records
  BY <1>1, Alone DEF Inv, TypeOK
<1>4. /\ call[t].op = "signal" => pc'[t] = "trust"
      /\ call[t].op = "prekey" => pc'[t] = "store"
  BY <1>1, GoOnFacts, AfterSteps
<1>5. stored' = stored /\ call'[t] = call[t] /\ pre_key_id'[t] = pre_key_id[t]
  BY <1>1, <1>2 DEF Quiet, Inside
<1>6. call[t].op \in {"signal", "prekey"} /\ call[t].m \in Messages
  <2>1. call[t].op \in {"signal", "prekey"}
    BY <1>1, <1>3, CallKinds DEF Frame, EncryptFrame, BundleFrame, StepsOf
  <2> QED
    BY <1>3, <2>1, CallKinds
<1>9. record'[t] = decrypt_message_with_record(record[t], call[t].m)
  BY <1>1 DEF Inv, TypeOK
<1>7. (Frame(t) /\ Saved(t))'
  <2>1. CASE call[t].op = "signal"
    <3>1. record[t] = stored
      BY <1>1, <1>3, <2>1 DEF Frame, SignalFrame
    <3>2. /\ CanDecrypt(stored, call[t].m)'
          /\ record'[t] = decrypt_message_with_record(stored, call[t].m)'
      BY <1>1, <1>5, <1>9, <3>1
    <3> QED
      BY <1>4, <1>5, <2>1, <3>2 DEF Frame, Saved, SignalFrame, StepsOf
  <2>2. CASE call[t].op = "prekey"
    <3>1. record[t] = Base(call[t].m) /\ pre_key_id[t] \in {<<>>, call[t].m.pre_key}
      BY <1>1, <1>3, <2>2 DEF Frame, PreKeyFrame
    <3>2. Base(call[t].m)' = Base(call[t].m)
      BY <1>5 DEF Base
    <3>3. /\ CanDecrypt(Base(call[t].m), call[t].m)'
          /\ record'[t] = decrypt_message_with_record(Base(call[t].m), call[t].m)'
      BY <1>1, <1>5, <1>9, <3>1, <3>2
    <3>4. pc'[t] = "store" /\ known = "saved"
      BY <1>1, <1>3, <1>4, <2>2 DEF Saved
    <3>5. PreKeyFrame(t)'
      BY <1>5, <3>1, <3>3, <3>4 DEF PreKeyFrame, StepsOf
    <3>6. Saved(t)'
      BY <1>2, <3>4 DEF Saved, Quiet
    <3> QED
      BY <1>5, <2>2, <3>5, <3>6 DEF Frame
  <2> QED
    BY <1>6, <2>1, <2>2
<1>8. /\ record' \in [Threads -> Records]
      /\ pre_key_id' \in [Threads -> {<<>>} \cup {<<k>> : k \in PreKeyIds}]
  <2>1. decrypt_message_with_record(record[t], call[t].m) \in Records
    BY <1>1, <1>3, <1>6, DecryptEffect
  <2> QED
    BY <1>1, <2>1 DEF Inv, TypeOK
<1> QED
  BY <1>1, <1>2, <1>7, <1>8, CopyStep

\* process_prekey_v3 works on the copy and notes the pre-key to remove.
LEMMA ProcessInv ==
    ASSUME Inv, NEW t \in Threads, process_prekey_v3(t)
    PROVE  Inv'
<1> DEFINE m == call[t].m
<1>1. /\ t \in lock /\ pc[t] = "process" /\ GoOn(t)
      /\ \/ m.session \in record[t].sessions /\ record' = record /\ pre_key_id' = pre_key_id
         \/ /\ m.session \notin record[t].sessions /\ HasPreKey(m)
            /\ record' = [record EXCEPT ![t] = promote_state(@, m.session)]
            /\ pre_key_id' = [pre_key_id EXCEPT ![t] = m.pre_key]
  BY DEF process_prekey_v3, At
<1>2. Quiet /\ Inside
  BY DEF process_prekey_v3, Quiet, Inside, stores, bounds, outputs
<1>3. Frame(t) /\ call[t] \in Calls /\ record[t] \in Records
  BY <1>1, Alone DEF Inv, TypeOK
<1>4. call[t].op = "prekey"
  BY <1>1, <1>3, CallKinds DEF Frame, EncryptFrame, SignalFrame, BundleFrame, StepsOf
<1>5. m \in Messages /\ m.session \in Sessions
  BY <1>3, <1>4, CallKinds
<1>6. record[t] = stored /\ pre_key_id[t] \in {<<>>, m.pre_key}
  BY <1>1, <1>3, <1>4 DEF Frame, PreKeyFrame
<1>7. pre_key_id' \in [Threads -> {<<>>} \cup {<<k>> : k \in PreKeyIds}]
  <2>1. CASE pre_key_id' = pre_key_id
    BY <2>1 DEF Inv, TypeOK
  <2>2. CASE HasPreKey(m) /\ pre_key_id' = [pre_key_id EXCEPT ![t] = m.pre_key]
    <3>1. m.pre_key \in {<<>>} \cup {<<k>> : k \in PreKeyIds}
      <4>1. CASE m.pre_key = <<>>
        BY <4>1
      <4>2. CASE m.pre_key = <<m.pre_key[1]>>
        <5>1. PICK k : m.pre_key = <<k>>
          BY <4>2
        <5>2. 1 \in DOMAIN <<k>> /\ <<k>>[1] = k
          OBVIOUS
        <5>3. k \in pre_keys
          BY <2>2, <5>1, <5>2 DEF HasPreKey
        <5>4. k \in PreKeyIds
          BY <5>3 DEF Inv, TypeOK
        <5> QED
          BY <5>1, <5>4
      <4> QED
        BY <1>5, <4>1, <4>2, CallsAssumption
    <3> QED
      BY <2>2, <3>1 DEF Inv, TypeOK
  <2> QED
    BY <1>1, <2>1, <2>2
<1>8. \A u \in Threads \ {t} : pre_key_id'[u] = pre_key_id[u]
  BY <1>1 DEF Inv, TypeOK
<1>9. record' \in [Threads -> Records]
  <2>1. promote_state(record[t], m.session) \in Records
    BY <1>3, <1>5, PromoteEffect
  <2> QED
    BY <1>1, <2>1 DEF Inv, TypeOK
<1>10. (Frame(t) /\ Saved(t))'
  <2>1. record'[t] = Base(m) /\ pre_key_id'[t] \in {<<>>, m.pre_key}
    <3>1. CASE /\ m.session \in record[t].sessions
               /\ record' = record /\ pre_key_id' = pre_key_id
      BY <1>6, <3>1 DEF Base
    <3>2. CASE /\ m.session \notin record[t].sessions
               /\ record' = [record EXCEPT ![t] = promote_state(@, m.session)]
               /\ pre_key_id' = [pre_key_id EXCEPT ![t] = m.pre_key]
      <4>1. record'[t] = promote_state(record[t], m.session) /\ pre_key_id'[t] = m.pre_key
        BY <3>2 DEF Inv, TypeOK
      <4> QED
        BY <1>6, <3>2, <4>1 DEF Base
    <3> QED
      BY <1>1, <3>1, <3>2
  <2>2. pc'[t] = "save"
    BY <1>1, <1>4, GoOnFacts, AfterSteps
  <2>3. call'[t] = call[t] /\ stored' = stored
    BY <1>2 DEF Quiet, Inside
  <2>4. Base(m)' = Base(m)
    BY <2>3 DEF Base
  <2>5. PreKeyFrame(t)'
    BY <2>1, <2>2, <2>3, <2>4 DEF PreKeyFrame, StepsOf
  <2> QED
    BY <1>4, <2>2, <2>3, <2>5 DEF Frame, Saved
<1> QED
  BY <1>1, <1>2, <1>7, <1>8, <1>9, <1>10, CopyStep

\* The session built from a bundle is in the copy only.
LEMMA PromoteInv ==
    ASSUME Inv, NEW t \in Threads, PromoteStep(t)
    PROVE  Inv'
<1>1. /\ t \in lock /\ pc[t] = "promote" /\ GoOn(t)
      /\ record' = [record EXCEPT ![t] = promote_state(@, call[t].s)]
      /\ pre_key_id' = pre_key_id
  BY DEF PromoteStep, At
<1>2. Quiet /\ Inside
  BY DEF PromoteStep, Quiet, Inside, stores, bounds, outputs
<1>3. Frame(t) /\ Saved(t) /\ call[t] \in Calls /\ record[t] \in Records
  BY <1>1, Alone DEF Inv, TypeOK
<1>4. /\ call[t].op = "bundle" => pc'[t] = "store"
  BY <1>1, GoOnFacts, AfterSteps
<1>5. stored' = stored /\ call'[t] = call[t] /\ pre_key_id'[t] = pre_key_id[t]
  BY <1>1, <1>2 DEF Quiet, Inside
<1>6. call[t].op = "bundle"
  BY <1>1, <1>3, CallKinds DEF Frame, EncryptFrame, SignalFrame, PreKeyFrame, StepsOf
<1>7. (Frame(t) /\ Saved(t))'
  <2>1. record[t] = stored /\ known = "saved"
    BY <1>1, <1>3, <1>6 DEF Frame, BundleFrame, Saved
  <2>2. record'[t] = promote_state(record[t], call[t].s)
    BY <1>1 DEF Inv, TypeOK
  <2>3. record'[t] = promote_state(stored, call[t].s)' /\ known' = "saved"
    BY <1>2, <1>5, <2>1, <2>2 DEF Quiet
  <2> QED
    BY <1>4, <1>5, <1>6, <2>3 DEF Frame, Saved, BundleFrame, StepsOf
<1>8. /\ record' \in [Threads -> Records]
      /\ pre_key_id' \in [Threads -> {<<>>} \cup {<<k>> : k \in PreKeyIds}]
  <2>1. promote_state(record[t], call[t].s) \in Records
    BY <1>3, <1>6, CallKinds, PromoteEffect
  <2> QED
    BY <1>1, <2>1 DEF Inv, TypeOK
<1> QED
  BY <1>1, <1>2, <1>7, <1>8, CopyStep
=============================================================================
