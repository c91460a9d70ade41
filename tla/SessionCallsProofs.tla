------------------------ MODULE SessionCallsProofs ------------------------
(***************************************************************************)
(* Proofs about SessionCalls for any set of threads, messages and keys:    *)
(* the steps that change a store, return, fail or crash keep its invariant *)
(* too, and from it follow the refinement, that outputs are never          *)
(* repeated, and what a crash between two stores can leave behind.         *)
(***************************************************************************)
EXTENDS SessionCallsInvariant

\* What the message of a prekey call finds in the record once it has a session.
LEMMA BaseEffect ==
    ASSUME TypeOK, NEW m \in Messages, m.session \in Sessions
    PROVE  /\ Base(m) \in Records /\ m.session \in Base(m).sessions
           /\ stored.sessions \subseteq Base(m).sessions
           /\ Base(m).drawn = stored.drawn /\ Base(m).read = stored.read
BY PromoteEffect DEF Base, TypeOK

\* What is about to be stored forgets nothing that is in the store.
LEMMA NothingForgotten ==
    ASSUME Inv, NEW t \in lock, pc[t] = "store"
    PROVE  /\ record[t] \in Records
           /\ stored.sessions \subseteq record[t].sessions
           /\ stored.read \subseteq record[t].read
           /\ \A s \in Sessions : stored.drawn[s] <= record[t].drawn[s]
<1>1. /\ TypeOK /\ Frame(t) /\ call[t] \in Calls /\ record[t] \in Records
      /\ stored \in Records
  BY Alone DEF Inv, TypeOK
<1>0. stored.drawn \in [Sessions -> Nat] /\ \A s \in Sessions : stored.drawn[s] \in Nat
  BY <1>1 DEF Records
<1>2. CASE call[t].op = "encrypt"
  <2>1. CanEncrypt(stored) /\ record[t] = encrypt_with_record(stored)
    BY <1>1, <1>2 DEF Frame, EncryptFrame
  <2>2. \A s \in Sessions : stored.drawn[s] <= record[t].drawn[s]
    <3>1. record[t].drawn = [stored.drawn EXCEPT ![stored.current] = @ + 1]
      BY <1>1, <2>1, EncryptEffect
    <3> QED
      BY <1>0, <3>1
  <2> QED
    BY <1>1, <2>1, <2>2, EncryptEffect, Zenon
<1>3. CASE call[t].op = "signal"
  <2>1. /\ CanDecrypt(stored, call[t].m) /\ call[t].m \in Messages
        /\ record[t] = decrypt_message_with_record(stored, call[t].m)
    BY <1>1, <1>3, CallKinds DEF Frame, SignalFrame
  <2> QED
    BY <1>1, <1>0, <2>1, DecryptEffect
<1>4. CASE call[t].op = "prekey"
  <2>1. /\ call[t].m \in Messages /\ call[t].m.session \in Sessions
        /\ CanDecrypt(Base(call[t].m), call[t].m)
        /\ record[t] = decrypt_message_with_record(Base(call[t].m), call[t].m)
    BY <1>1, <1>4, CallKinds DEF Frame, PreKeyFrame
  <2>2. /\ record[t].sessions = Base(call[t].m).sessions
        /\ record[t].drawn = stored.drawn
        /\ record[t].read = stored.read \cup {call[t].m}
    BY <1>1, <2>1, DecryptEffect, BaseEffect
  <2> QED
    BY <1>1, <1>0, <2>1, <2>2, BaseEffect
<1>5. CASE call[t].op = "bundle"
  <2>1. call[t].s \in Sessions /\ record[t] = promote_state(stored, call[t].s)
    BY <1>1, <1>5, CallKinds DEF Frame, BundleFrame
  <2> QED
    BY <1>1, <1>0, <2>1, PromoteEffect
<1> QED
  BY <1>1, <1>2, <1>3, <1>4, <1>5, CallKinds

\* store_session keeps every promise about the store, for it forgets nothing.
LEMMA StoreInv ==
    ASSUME Inv, NEW t \in Threads, store_session(t)
    PROVE  Inv'
<1>1. /\ t \in lock /\ pc[t] = "store" /\ GoOn(t) /\ stored' = record[t]
      /\ record' = record /\ pre_key_id' = pre_key_id /\ pre_keys' = pre_keys
      /\ known' = known
  BY DEF store_session, At
<1>2. Inside /\ sent' = sent /\ reused' = reused /\ given' = given /\ again' = again
  BY DEF store_session, Inside, bounds, outputs
<1>3. Frame(t) /\ Saved(t) /\ call[t] \in Calls
  BY <1>1, Alone
<1>4. TypeOK /\ stored \in Records /\ record[t] \in Records
  BY DEF Inv, TypeOK
<1>5. /\ call[t].op = "prekey" => pc'[t] = "remove"
      /\ call[t].op \in {"encrypt", "signal", "bundle"} => pc'[t] = "return"
  BY <1>1, GoOnFacts, AfterSteps
<1>6. call'[t] = call[t] /\ record'[t] = record[t] /\ pre_key_id'[t] = pre_key_id[t]
  BY <1>1, <1>2 DEF Inside
<1>7. (Frame(t) /\ Saved(t))'
  <2>1. CASE call[t].op = "encrypt"
    <3>1. CanEncrypt(stored) /\ stored' = encrypt_with_record(stored)
      BY <1>1, <1>3, <2>1 DEF Frame, EncryptFrame
    <3>2. /\ stored'.current = stored.current /\ stored.current \in Sessions
          /\ stored'.drawn = [stored.drawn EXCEPT ![stored.current] = @ + 1]
      BY <1>4, <3>1, EncryptEffect, Zenon
    <3>3. \A k \in sent' : k[1] = stored'.current => k[2] < stored'.drawn[k[1]]
      <4>1. stored.drawn \in [Sessions -> Nat]
        BY <1>4 DEF Records
      <4>2. \A k \in sent : k[2] <= stored.drawn[k[1]] /\ k[2] \in Nat
        BY DEF Inv, DurableBeforeReturn, TypeOK
      <4> QED
        BY <1>2, <3>2, <4>1, <4>2
    <3>4. CanEncrypt(stored)'
      BY <3>1, <3>2 DEF CanEncrypt
    <3>5. EncryptFrame(t)'
      BY <1>1, <1>5, <1>6, <2>1, <3>3, <3>4 DEF EncryptFrame, StepsOf
    <3> QED
      BY <1>5, <1>6, <2>1, <3>5 DEF Frame, Saved
  <2>2. CASE call[t].op = "signal"
    <3>1. /\ CanDecrypt(stored, call[t].m) /\ call[t].m \in Messages
          /\ stored' = decrypt_message_with_record(stored, call[t].m)
      BY <1>1, <1>3, <2>2, CallKinds DEF Frame, SignalFrame
    <3>2. stored'.read = stored.read \cup {call[t].m}
      BY <1>4, <3>1, DecryptEffect
    <3>3. call[t].m \notin given'
      BY <1>2, <3>1 DEF Inv, DurableBeforeReturn, CanDecrypt
    <3>4. Consumed(call[t].m)'
      BY <1>6, <3>2, <3>3 DEF Consumed
    <3>5. SignalFrame(t)'
      BY <1>5, <2>2, <3>4 DEF SignalFrame, StepsOf
    <3> QED
      BY <1>5, <1>6, <2>2, <3>5 DEF Frame, Saved
  <2>3. CASE call[t].op = "prekey"
    <3>1. /\ call[t].m \in Messages /\ call[t].m.session \in Sessions
          /\ CanDecrypt(Base(call[t].m), call[t].m)
          /\ stored' = decrypt_message_with_record(Base(call[t].m), call[t].m)
          /\ pre_key_id[t] \in {<<>>, call[t].m.pre_key}
      BY <1>1, <1>3, <2>3, CallKinds DEF Frame, PreKeyFrame
    <3>2. /\ Base(call[t].m) \in Records /\ Base(call[t].m).read = stored.read
          /\ call[t].m.session \in Base(call[t].m).sessions
      BY <1>4, <3>1, BaseEffect
    <3>3. /\ call[t].m.session \in stored'.sessions
          /\ stored'.read = stored.read \cup {call[t].m}
      BY <3>1, <3>2, DecryptEffect
    <3>4. call[t].m \notin given'
      BY <1>2, <3>1, <3>2 DEF Inv, DurableBeforeReturn, CanDecrypt
    <3>5. Consumed(call[t].m)'
      BY <1>6, <3>3, <3>4 DEF Consumed
    <3>6. PreKeyFrame(t)'
      BY <1>5, <1>6, <2>3, <3>1, <3>3, <3>5 DEF PreKeyFrame, StepsOf
    <3> QED
      BY <1>5, <1>6, <2>3, <3>6 DEF Frame, Saved
  <2>4. CASE call[t].op = "bundle"
    BY <1>5, <1>6, <2>4 DEF Frame, Saved, BundleFrame, StepsOf
  <2> QED
    BY <1>3, <2>1, <2>2, <2>3, <2>4, CallKinds
<1>8. TypeOK'
  <2>1. pc' \in [Threads -> Steps]
    BY <1>1, GoOnFacts
  <2> QED
    BY <1>1, <1>2, <1>4, <2>1 DEF TypeOK, Inside
<1>9. Mutex' /\ \A u \in lock' : (Frame(u) /\ Saved(u))'
  BY <1>1, <1>2, <1>7, InsideStep DEF Inside
<1>10. UniqueKeys' /\ AtMostOnce' /\ KnownBeforeStored'
  BY <1>1, <1>2, <1>3 DEF Inv, UniqueKeys, AtMostOnce, KnownBeforeStored, Saved
<1>11. /\ stored.sessions \subseteq stored'.sessions /\ stored.read \subseteq stored'.read
       /\ \A s \in Sessions : stored.drawn[s] <= stored'.drawn[s]
  BY <1>1, NothingForgotten
<1>12. DurableBeforeReturn'
  <2>1. given' \subseteq stored'.read
    BY <1>2, <1>11 DEF Inv, DurableBeforeReturn
  <2>2. \A k \in sent' : k[2] <= stored'.drawn[k[1]]
    <3> TAKE k \in sent'
    <3>1. k[1] \in Sessions /\ k[2] \in Nat /\ k[2] <= stored.drawn[k[1]]
      BY <1>2 DEF Inv, TypeOK, DurableBeforeReturn
    <3>2. stored.drawn[k[1]] <= stored'.drawn[k[1]]
      BY <1>11, <3>1
    <3>3. stored.drawn[k[1]] \in Nat /\ stored'.drawn[k[1]] \in Nat
      BY <1>1, <1>4, <3>1 DEF Records
    <3> QED
      BY <3>1, <3>2, <3>3
  <2> QED
    BY <2>1, <2>2 DEF DurableBeforeReturn
<1>13. KeyOutlivesNeed'
  BY <1>1, <1>11 DEF Inv, KeyOutlivesNeed
<1> QED
  BY <1>8, <1>9, <1>10, <1>12, <1>13 DEF Inv

\* remove_pre_key comes after the session that needs the key was stored.
LEMMA RemoveInv ==
    ASSUME Inv, NEW t \in Threads, remove_pre_key(t)
    PROVE  Inv'
<1>1. /\ t \in lock /\ pc[t] = "remove" /\ GoOn(t)
      /\ pre_keys' = {k \in pre_keys : <<k>> # pre_key_id[t]}
      /\ record' = record /\ pre_key_id' = pre_key_id /\ stored' = stored /\ known' = known
  BY DEF remove_pre_key, At
<1>2. Inside /\ sent' = sent /\ reused' = reused /\ given' = given /\ again' = again
  BY DEF remove_pre_key, Inside, bounds, outputs
<1>3. Frame(t) /\ call[t] \in Calls
  BY <1>1, Alone
<1>4. call[t].op = "prekey"
  BY <1>1, <1>3, CallKinds DEF Frame, EncryptFrame, SignalFrame, BundleFrame, StepsOf
<1>5. call[t].m \in Messages
  BY <1>3, <1>4, CallKinds
<1>6. /\ pre_key_id[t] \in {<<>>, call[t].m.pre_key}
      /\ call[t].m.session \in stored.sessions /\ Consumed(call[t].m)
  BY <1>1, <1>3, <1>4 DEF Frame, PreKeyFrame
<1>7. (Frame(t) /\ Saved(t))'
  <2>1. pc'[t] = "return"
    BY <1>1, <1>4, GoOnFacts, AfterSteps
  <2>2. call'[t] = call[t] /\ pre_key_id'[t] = pre_key_id[t]
    BY <1>1, <1>2 DEF Inside
  <2>3. Consumed(call[t].m)'
    BY <1>1, <1>2, <1>6, <2>2 DEF Consumed
  <2>4. PreKeyFrame(t)'
    BY <1>6, <2>1, <2>2, <2>3 DEF PreKeyFrame, StepsOf
  <2> QED
    BY <1>4, <2>1, <2>2, <2>4 DEF Frame, Saved
<1>8. TypeOK'
  <2>1. pc' \in [Threads -> Steps]
    BY <1>1, GoOnFacts
  <2> QED
    BY <1>1, <1>2, <2>1 DEF Inv, TypeOK, Inside
<1>9. Mutex' /\ \A u \in lock' : (Frame(u) /\ Saved(u))'
  BY <1>1, <1>2, <1>7, InsideStep DEF Inside
<1>10. (UniqueKeys /\ AtMostOnce /\ DurableBeforeReturn /\ KnownBeforeStored)'
  BY <1>1, <1>2 DEF Inv, UniqueKeys, AtMostOnce, DurableBeforeReturn, KnownBeforeStored
<1>11. KeyOutlivesNeed'
  <2> SUFFICES ASSUME NEW k \in PreKeyIds \ pre_keys'
               PROVE  \E m \in Messages : m.pre_key = <<k>> /\ m.session \in stored.sessions
    BY <1>1 DEF KeyOutlivesNeed
  <2>1. CASE k \notin pre_keys
    BY <2>1 DEF Inv, KeyOutlivesNeed
  <2>2. CASE k \in pre_keys
    <3>1. <<k>> = pre_key_id[t]
      BY <1>1, <2>2
    <3>2. <<k>> # <<>>
      OBVIOUS
    <3>3. call[t].m.pre_key = <<k>>
      BY <1>6, <3>1, <3>2, Zenon
    <3> QED
      BY <1>5, <1>6, <3>3
  <2> QED
    BY <2>1, <2>2
<1> QED
  BY <1>8, <1>9, <1>10, <1>11 DEF Inv

\* The end of a call, in whatever way, keeps the lock's discipline.
LEMMA LeaveKeeps ==
    ASSUME Inv, NEW t \in lock, Leave(t)
    PROVE  /\ lock' = {} /\ Mutex'
           /\ call' \in [Threads -> Calls \cup {NoCall}]
           /\ pc' \in [Threads -> Steps] /\ record' \in [Threads -> Records]
           /\ pre_key_id' \in [Threads -> {<<>>} \cup {<<k>> : k \in PreKeyIds}]
<1> USE DEF Leave
<1>1. lock = {t} /\ t \in Threads
  BY Alone
<1>2. \A u \in Threads \ {t} : pc[u] \in {"none", "start"} /\ pre_key_id[u] = <<>>
  BY <1>1 DEF Inv, Mutex
<1>3. /\ call' \in [Threads -> Calls \cup {NoCall}]
      /\ pc' \in [Threads -> Steps] /\ record' \in [Threads -> Records]
  BY <1>1, FreshIsRecord DEF Inv, TypeOK, Steps
<1>4. pre_key_id' \in [Threads -> {<<>>} \cup {<<k>> : k \in PreKeyIds}]
  BY <1>1 DEF Inv, TypeOK
<1>5. Mutex'
  BY <1>1, <1>2 DEF Inv, Mutex, TypeOK
<1> QED
  BY <1>1, <1>3, <1>4, <1>5

\* A removal that is cut off is of a key that was in the store at first.
LEMMA CutOffKeys ==
    ASSUME Inv, NEW t \in Threads
    PROVE  CutOff(t) \subseteq PreKeyIds
<1>1. pre_key_id[t] \in {<<>>} \cup {<<k>> : k \in PreKeyIds}
  BY DEF Inv, TypeOK
<1>2. CASE pre_key_id[t] = <<>>
  BY <1>2 DEF CutOff
<1>3. CASE \E k \in PreKeyIds : pre_key_id[t] = <<k>>
  <2>1. PICK k \in PreKeyIds : pre_key_id[t] = <<k>>
    BY <1>3
  <2>2. <<k>>[1] = k
    OBVIOUS
  <2> QED
    BY <2>1, <2>2 DEF CutOff
<1> QED
  BY <1>1, <1>2, <1>3

\* A call that fails leaves the stores as they are at that point.
LEMMA FailInv ==
    ASSUME Inv, NEW t \in Threads, Refuse(t) \/ StoreThrows(t)
    PROVE  Inv'
<1>1. /\ t \in lock /\ Leave(t) /\ begun' = begun /\ encrypts' = encrypts
      /\ stale' \in {stale, stale \cup CutOff(t)}
  BY DEF Refuse, StoreThrows, bounds
<1>2. Quiet
  BY DEF Refuse, StoreThrows, Quiet, stores, outputs
<1>3. stale' \subseteq PreKeyIds
  BY <1>1, CutOffKeys DEF Inv, TypeOK
<1>4. /\ lock' = {} /\ Mutex' /\ call' \in [Threads -> Calls \cup {NoCall}]
      /\ pc' \in [Threads -> Steps] /\ record' \in [Threads -> Records]
      /\ pre_key_id' \in [Threads -> {<<>>} \cup {<<k>> : k \in PreKeyIds}]
  BY <1>1, LeaveKeeps
<1>5. TypeOK'
  BY <1>1, <1>2, <1>3, <1>4 DEF Inv, TypeOK, Quiet
<1> QED
  BY <1>2, <1>4, <1>5, QuietKeeps DEF Inv

\* A crash leaves nothing but the stores.
LEMMA CrashInv ==
    ASSUME Inv, Crash
    PROVE  Inv'
<1>1. /\ lock' = {} /\ call' = [t \in Threads |-> NoCall] /\ pc' = [t \in Threads |-> "none"]
      /\ record' = [t \in Threads |-> FreshRecord] /\ begun' = begun /\ encrypts' = encrypts
      /\ pre_key_id' = [t \in Threads |-> <<>>]
      /\ stale' = stale \cup UNION {CutOff(t) : t \in lock}
  BY DEF Crash, bounds
<1>2. Quiet
  BY DEF Crash, Quiet, stores, outputs
<1>3. stale' \subseteq PreKeyIds
  BY <1>1, CutOffKeys DEF Inv, TypeOK
<1>4. /\ call' \in [Threads -> Calls \cup {NoCall}] /\ pc' \in [Threads -> Steps]
      /\ record' \in [Threads -> Records]
  BY <1>1, FreshIsRecord DEF Steps
<1>5. pre_key_id' \in [Threads -> {<<>>} \cup {<<k>> : k \in PreKeyIds}]
  BY <1>1
<1>6. TypeOK'
  BY <1>1, <1>2, <1>3, <1>4, <1>5 DEF Inv, TypeOK, Quiet
<1>7. Mutex'
  BY <1>1 DEF Mutex
<1> QED
  BY <1>1, <1>2, <1>6, <1>7, QuietKeeps DEF Inv

\* What a call returns is new, and was stored before.
LEMMA ReturnInv ==
    ASSUME Inv, NEW t \in Threads, Return(t)
    PROVE  Inv'
<1> USE DEF Return, At, stores, bounds
<1>1. /\ t \in lock /\ pc[t] = "return" /\ Frame(t) /\ call[t] \in Calls /\ Leave(t)
      /\ stored' = stored /\ pre_keys' = pre_keys /\ known' = known
      /\ begun' = begun /\ encrypts' = encrypts /\ stale' = stale
  BY Alone
<1>2. (KeyOutlivesNeed /\ KnownBeforeStored)'
  BY <1>1 DEF Inv, KeyOutlivesNeed, KnownBeforeStored
<1>3. (UniqueKeys /\ AtMostOnce /\ DurableBeforeReturn)'
      /\ (sent \subseteq Sessions \X Nat /\ reused \subseteq sent)'
      /\ (given \subseteq Messages /\ again \subseteq given)'
  <2>1. CASE call[t].op = "encrypt"
    <3> DEFINE key == <<record[t].current, record[t].drawn[record[t].current]>>
    <3>1. /\ sent' = sent \cup {key} /\ reused' = reused \cup ({key} \cap sent)
          /\ given' = given /\ again' = again
      BY <2>1
    <3>2. /\ record[t] = stored /\ CanEncrypt(stored)
          /\ \A k \in sent : k[1] = stored.current => k[2] < stored.drawn[k[1]]
      BY <1>1, <2>1 DEF Frame, EncryptFrame
    <3>3. /\ stored.current \in Sessions /\ stored.drawn[stored.current] \in Nat
      <4>1. stored \in Records
        BY DEF Inv, TypeOK
      <4>2. stored.current \in Sessions
        BY <3>2, <4>1, EncryptEffect, Zenon
      <4> QED
        BY <4>1, <4>2 DEF Records
    <3>4. /\ key = <<stored.current, stored.drawn[stored.current]>>
          /\ key[1] = stored.current /\ key[2] = stored.drawn[stored.current]
          /\ key \in Sessions \X Nat
      BY <3>2, <3>3
    <3> HIDE DEF key
    <3>5. key \notin sent
      BY <3>2, <3>3, <3>4
    <3> QED
      BY <1>1, <3>1, <3>3, <3>4, <3>5
         DEF Inv, TypeOK, UniqueKeys, AtMostOnce, DurableBeforeReturn
  <2>2. CASE call[t].op \in {"signal", "prekey"}
    <3>1. /\ given' = given \cup {call[t].m} /\ again' = again \cup ({call[t].m} \cap given)
          /\ sent' = sent /\ reused' = reused
      BY <2>2
    <3>2. Consumed(call[t].m) /\ call[t].m \in Messages
      BY <1>1, <2>2, CallKinds DEF Frame, SignalFrame, PreKeyFrame
    <3> QED
      BY <1>1, <3>1, <3>2
         DEF Inv, TypeOK, UniqueKeys, AtMostOnce, DurableBeforeReturn, Consumed
  <2>3. CASE call[t].op = "bundle"
    <3>1. given' = given /\ again' = again /\ sent' = sent /\ reused' = reused
      BY <2>3 DEF outputs
    <3> QED
      BY <1>1, <3>1 DEF Inv, TypeOK, UniqueKeys, AtMostOnce, DurableBeforeReturn
  <2> QED
    BY <1>1, <2>1, <2>2, <2>3, CallKinds
<1>4. TypeOK'
  BY <1>1, <1>3, LeaveKeeps DEF Inv, TypeOK
<1> QED
  BY <1>1, <1>2, <1>3, <1>4, LeaveKeeps DEF Inv

\* A stuttering step changes nothing.
LEMMA StutterInv ==
    ASSUME Inv, UNCHANGED vars
    PROVE  Inv'
<1>1. Quiet /\ Inside
  BY DEF vars, local, stores, bounds, outputs, Quiet, Inside
<1>2. pc' = pc /\ record' = record /\ pre_key_id' = pre_key_id /\ known' = known
  BY DEF vars, local, stores
<1>3. TypeOK' /\ Mutex'
  BY <1>1, <1>2 DEF Inv, TypeOK, Mutex, Quiet, Inside
<1>4. \A t \in lock' : (Frame(t) /\ Saved(t))'
  BY <1>1, <1>2, SameFrame DEF Inv, Inside
<1> QED
  BY <1>1, <1>3, <1>4, QuietKeeps DEF Inv

\* Every step of every thread keeps the invariant.
LEMMA StepInv == Inv /\ [Next]_vars => Inv'
<1> SUFFICES ASSUME Inv, [Next]_vars PROVE Inv'
  OBVIOUS
<1>1. ASSUME NEW t \in Threads, NEW c \in Calls, Call(t, c) PROVE Inv'
  BY <1>1, CallInv
<1>2. ASSUME NEW t \in Threads, Run(t) PROVE Inv'
  BY <1>2, EnterInv, LoadInv, TrustInv, SaveInv, EncryptInv, DecryptInv, ProcessInv,
     PromoteInv, StoreInv, RemoveInv, ReturnInv, FailInv DEF Run
<1>3. ASSUME NEW t \in Threads, StoreThrows(t) PROVE Inv'
  BY <1>3, FailInv
<1>4. CASE Crash
  BY <1>4, CrashInv
<1>5. CASE UNCHANGED vars
  BY <1>5, StutterInv
<1> QED
  BY <1>1, <1>2, <1>3, <1>4, <1>5 DEF Next

\* The invariant holds in every reachable state.
LEMMA AlwaysInv == Spec => []Inv
BY InitInv, StepInv, PTL DEF Spec

-----------------------------------------------------------------------------
\* However calls interleave, fail and crash, no two ciphertexts that callers got
\* are under one message key.
THEOREM KeysNeverReused == Spec => []UniqueKeys
BY AlwaysInv, PTL DEF Inv

\* However calls interleave, fail and crash, no caller gets a text again.
THEOREM TextsNeverRepeated == Spec => []AtMostOnce
BY AlwaysInv, PTL DEF Inv

\* A crash never takes back what a caller was given.
THEOREM OutputsAreDurable == Spec => []DurableBeforeReturn
BY AlwaysInv, PTL DEF Inv

\* A one-time pre-key is removed only behind a stored session built on it.
THEOREM PreKeysOutliveNeed == Spec => []KeyOutlivesNeed
BY AlwaysInv, PTL DEF Inv

\* The identity key is in its store before a session of the peer is in its own.
THEOREM IdentityFirst == Spec => []KnownBeforeStored
BY AlwaysInv, PTL DEF Inv

\* A store_session is the whole effect of its call on the record in the store.
LEMMA StoreIsAtomic ==
    ASSUME Inv, NEW t \in Threads, store_session(t)
    PROVE  Atomic!Next
<1>1. /\ pc[t] = "store" /\ Frame(t) /\ call[t] \in Calls /\ stored' = record[t]
  BY Alone DEF store_session, At
<1>2. CASE call[t].op = "encrypt"
  <2>1. CanEncrypt(stored) /\ stored' = encrypt_with_record(stored)
    BY <1>1, <1>2 DEF Frame, EncryptFrame
  <2>2. Atomic!Encrypt
    BY <2>1 DEF Atomic!Encrypt
  <2> QED
    BY <2>2 DEF Atomic!Next
<1>3. CASE call[t].op = "signal"
  <2>1. /\ CanDecrypt(stored, call[t].m) /\ call[t].m \in Messages
        /\ stored' = decrypt_message_with_record(stored, call[t].m)
    BY <1>1, <1>3, CallKinds DEF Frame, SignalFrame
  <2>2. Atomic!DecryptSignal(call[t].m)
    BY <2>1 DEF Atomic!DecryptSignal
  <2> QED
    BY <2>1, <2>2 DEF Atomic!Next
<1>4. CASE call[t].op = "prekey"
  <2>1. /\ call[t].m \in Messages /\ CanDecrypt(Base(call[t].m), call[t].m)
        /\ stored' = decrypt_message_with_record(Base(call[t].m), call[t].m)
    BY <1>1, <1>4, CallKinds DEF Frame, PreKeyFrame
  <2>2. Atomic!DecryptPreKey(call[t].m)
    BY <2>1 DEF Atomic!DecryptPreKey, Base
  <2> QED
    BY <2>1, <2>2 DEF Atomic!Next
<1>5. CASE call[t].op = "bundle"
  <2>1. call[t].s \in OwnSessions /\ stored' = promote_state(stored, call[t].s)
    BY <1>1, <1>5, CallKinds DEF Frame, BundleFrame
  <2>2. Atomic!ProcessBundle(call[t].s)
    BY <2>1 DEF Atomic!ProcessBundle
  <2> QED
    BY <2>1, <2>2 DEF Atomic!Next
<1> QED
  BY <1>1, <1>2, <1>3, <1>4, <1>5, CallKinds

\* Every other step leaves the stored record alone.
LEMMA StepIsAtomic == Inv /\ [Next]_vars => [Atomic!Next]_stored
<1> SUFFICES ASSUME Inv, [Next]_vars PROVE Atomic!Next \/ stored' = stored
  OBVIOUS
<1>1. ASSUME NEW t \in Threads, Run(t) PROVE Atomic!Next \/ stored' = stored
  <2>1. CASE store_session(t)
    BY <2>1, StoreIsAtomic
  <2>2. CASE ~store_session(t)
    BY <1>1, <2>2 DEF Run, stores, Enter, load_session, is_trusted_identity, save_identity,
       EncryptStep, DecryptStep, process_prekey_v3, PromoteStep, remove_pre_key, Return,
       Refuse
  <2> QED
    BY <2>1, <2>2
<1>2. ASSUME NEW t \in Threads, NEW c \in Calls, Call(t, c) PROVE stored' = stored
  BY <1>2 DEF Call, stores
<1>3. ASSUME NEW t \in Threads, StoreThrows(t) PROVE stored' = stored
  BY <1>3 DEF StoreThrows, stores
<1>4. CASE Crash
  BY <1>4 DEF Crash, stores
<1>5. CASE UNCHANGED vars
  BY <1>5 DEF vars, stores
<1> QED
  BY <1>1, <1>2, <1>3, <1>4, <1>5 DEF Next

\* SESSION_LOCK makes each call's load_session .. store_session one atomic step
\* on the stored record: no update is lost and none is made of a stale copy.
THEOREM CallsAreAtomic == Spec => ImplementsAtomicCalls
<1>1. Init => Atomic!Init
  BY DEF Init, Atomic!Init
<1> QED
  BY <1>1, AlwaysInv, StepIsAtomic, PTL DEF Spec, ImplementsAtomicCalls, Atomic!Spec
-----------------------------------------------------------------------------
(***************************************************************************)
(* What is left of one-time pre-keys.  The property is about messages that *)
(* were read; the invariant is about every message whose session is in the *)
(* store, because the first of them to be stored brings the key's removal. *)
(***************************************************************************)
\* A call that brings a new session to the store has the message's pre-key to
\* remove.
Owes(t) ==
    /\ call[t].op = "prekey" /\ pc[t] \in {"save", "decrypt", "store"}
    /\ call[t].m.session \notin stored.sessions
    => pre_key_id[t] = call[t].m.pre_key

KeysGone ==
    \A m \in Messages :
        m.session \in stored.sessions /\ m.pre_key # <<>> /\ m.pre_key[1] \in pre_keys =>
            \/ m.pre_key[1] \in stale
            \/ \E t \in lock : pc[t] = "remove" /\ pre_key_id[t] = m.pre_key

KeyInv ==
    /\ KeysGone
    /\ \A m \in stored.read : m.session \in stored.sessions
    /\ \A t \in lock : Owes(t)

\* A step that leaves the stores alone keeps the keys' account, if every removal
\* on its way at most becomes one that was cut off.
LEMMA SameStoresKeys ==
    ASSUME Inv, KeyInv, stored' = stored, pre_keys' = pre_keys, stale \subseteq stale',
           \A t \in lock : CutOff(t) \subseteq stale',
           \A t \in lock' : Owes(t)'
    PROVE  KeyInv'
<1>1. KeysGone'
  <2> SUFFICES ASSUME NEW m \in Messages, m.session \in stored.sessions, m.pre_key # <<>>,
                      m.pre_key[1] \in pre_keys
               PROVE  m.pre_key[1] \in stale'
    BY DEF KeysGone
  <2>1. CASE m.pre_key[1] \in stale
    BY <2>1
  <2>2. CASE \E t \in lock : pc[t] = "remove" /\ pre_key_id[t] = m.pre_key
    BY <2>2 DEF CutOff
  <2> QED
    BY <2>1, <2>2 DEF KeyInv, KeysGone
<1> QED
  BY <1>1 DEF KeyInv

\* Where a prekey call comes from, step by step.
LEMMA PreKeySteps ==
    ASSUME Inv, NEW t \in lock, GoOn(t), pc[t] # "return", call[t].op = "prekey",
           pc'[t] \in {"save", "decrypt", "store"}
    PROVE  pc[t] \in {"process", "save", "decrypt"}
<1>1. Frame(t) /\ call[t] \in Calls
  BY Alone
<1>2. pc[t] \in StepsOf.prekey /\ pc'[t] = After[call[t].op][pc[t]]
  BY <1>1, GoOnFacts DEF Frame, PreKeyFrame
<1> QED
  BY <1>2, AfterSteps DEF StepsOf

\* The steps on the call's own copy.
LEMMA CopyStepKeys ==
    ASSUME Inv, KeyInv, NEW t \in lock, GoOn(t), lock' = lock, call' = call,
           stored' = stored, pre_keys' = pre_keys, stale' = stale,
           pc[t] \notin {"store", "remove", "return"},
           pc[t] = "process" =>
               (call[t].m.session \notin stored.sessions => pre_key_id'[t] = call[t].m.pre_key),
           pc[t] # "process" => pre_key_id' = pre_key_id
    PROVE  KeyInv'
<1>1. lock = {t}
  BY Alone
<1>2. Owes(t)'
  <2> SUFFICES ASSUME call[t].op = "prekey", pc'[t] \in {"save", "decrypt", "store"},
                      call[t].m.session \notin stored.sessions
               PROVE  pre_key_id'[t] = call[t].m.pre_key
    BY DEF Owes
  <2>1. pc[t] \in {"process", "save", "decrypt"}
    BY PreKeySteps
  <2> QED
    BY <2>1 DEF KeyInv, Owes
<1>3. CutOff(t) = {}
  BY DEF CutOff
<1> QED
  BY <1>1, <1>2, <1>3, SameStoresKeys

\* process_prekey_v3 takes the pre-key of the message along when it builds the
\* session.
LEMMA CopyKeys ==
    ASSUME Inv, KeyInv, NEW t \in Threads,
           \/ load_session(t) \/ is_trusted_identity(t) \/ save_identity(t)
           \/ EncryptStep(t) \/ DecryptStep(t) \/ process_prekey_v3(t) \/ PromoteStep(t)
    PROVE  KeyInv'
<1>1. /\ t \in lock /\ GoOn(t) /\ lock' = lock /\ call' = call
      /\ stored' = stored /\ pre_keys' = pre_keys /\ stale' = stale
      /\ pc[t] \notin {"store", "remove", "return"}
  BY DEF load_session, is_trusted_identity, save_identity, EncryptStep, DecryptStep,
         process_prekey_v3, PromoteStep, At, stores
<1>2. pc[t] # "process" => pre_key_id' = pre_key_id
  BY DEF load_session, is_trusted_identity, save_identity, EncryptStep, DecryptStep,
         process_prekey_v3, PromoteStep, At
<1>3. ASSUME pc[t] = "process", call[t].m.session \notin stored.sessions
      PROVE  pre_key_id'[t] = call[t].m.pre_key
  <2>1. process_prekey_v3(t)
    BY <1>3 DEF load_session, is_trusted_identity, save_identity, EncryptStep, DecryptStep,
                PromoteStep, At
  <2>2. Frame(t) /\ call[t] \in Calls
    BY <1>1, Alone
  <2>3. record[t] = stored
    BY <1>3, <2>2, CallKinds DEF Frame, EncryptFrame, SignalFrame, PreKeyFrame, BundleFrame,
                                StepsOf
  <2> QED
    BY <1>3, <2>1, <2>3 DEF process_prekey_v3, Inv, TypeOK
<1> QED
  BY <1>1, <1>2, <1>3, CopyStepKeys

\* store_session: if the session is new, so is the removal that the call goes on
\* to, and it is of the pre-key that all messages of the session name.
LEMMA StoreKeys ==
    ASSUME Inv, KeyInv, NEW t \in Threads, store_session(t)
    PROVE  KeyInv'
<1>1. /\ t \in lock /\ pc[t] = "store" /\ GoOn(t) /\ stored' = record[t]
      /\ lock' = lock /\ call' = call /\ pre_key_id' = pre_key_id
      /\ pre_keys' = pre_keys /\ stale' = stale
  BY DEF store_session, At
<1>2. lock = {t} /\ Frame(t) /\ call[t] \in Calls /\ CutOff(t) = {}
  BY <1>1, Alone DEF CutOff
<1>3. TypeOK /\ stored \in Records
  BY DEF Inv, TypeOK
<1>4. /\ call[t].op = "prekey" => pc'[t] = "remove"
      /\ call[t].op \in {"encrypt", "signal", "bundle"} => pc'[t] = "return"
  BY <1>1, GoOnFacts, AfterSteps
<1>5. Owes(t)'
  BY <1>2, <1>4, CallKinds DEF Owes
<1>6. ASSUME NEW m \in Messages, m.session \in stored.sessions, m.pre_key # <<>>,
             m.pre_key[1] \in pre_keys
      PROVE  m.pre_key[1] \in stale
  BY <1>1, <1>2, <1>6 DEF KeyInv, KeysGone
<1>7. CASE call[t].op \in {"encrypt", "signal"}
  <2>1. stored'.sessions = stored.sessions /\ \A m \in stored'.read : m.session \in stored.sessions
    <3>1. CASE call[t].op = "encrypt"
      <4>1. CanEncrypt(stored) /\ stored' = encrypt_with_record(stored)
        BY <1>1, <1>2, <3>1 DEF Frame, EncryptFrame
      <4>2. stored'.sessions = stored.sessions /\ stored'.read = stored.read
        BY <1>3, <4>1, EncryptEffect, Zenon
      <4> QED
        BY <4>2 DEF KeyInv
    <3>2. CASE call[t].op = "signal"
      <4>1. /\ CanDecrypt(stored, call[t].m) /\ call[t].m \in Messages
            /\ stored' = decrypt_message_with_record(stored, call[t].m)
        BY <1>1, <1>2, <3>2, CallKinds DEF Frame, SignalFrame
      <4>2. stored'.sessions = stored.sessions /\ stored'.read = stored.read \cup {call[t].m}
        BY <1>3, <4>1, DecryptEffect, Zenon
      <4> QED
        BY <4>1, <4>2 DEF KeyInv, CanDecrypt
    <3> QED
      BY <1>7, <3>1, <3>2
  <2> QED
    BY <1>1, <1>2, <1>5, <1>6, <2>1 DEF KeyInv, KeysGone
<1>8. CASE call[t].op = "bundle"
  <2>1. /\ call[t].s \in OwnSessions /\ call[t].s \in Sessions
        /\ stored'.sessions = stored.sessions \cup {call[t].s} /\ stored'.read = stored.read
    BY <1>1, <1>2, <1>3, <1>8, CallKinds, PromoteEffect DEF Frame, BundleFrame
  <2>2. \A m \in Messages : m.pre_key # <<>> => m.session # call[t].s
    BY <2>1, MessagesAssumption
  <2> QED
    BY <1>1, <1>2, <1>5, <1>6, <2>1, <2>2 DEF KeyInv, KeysGone
<1>9. CASE call[t].op = "prekey"
  <2> DEFINE n == call[t].m
  <2>1. n \in Messages /\ n.prekey /\ n.session \in Sessions
    BY <1>2, <1>9, CallKinds DEF Calls
  <2>2. CanDecrypt(Base(n), n) /\ stored' = decrypt_message_with_record(Base(n), n)
    BY <1>1, <1>2, <1>9 DEF Frame, PreKeyFrame
  <2>3. /\ Base(n) \in Records /\ Base(n).sessions = stored.sessions \cup {n.session}
        /\ Base(n).read = stored.read
    BY <1>3, <2>1, PromoteEffect DEF Base
  <2>4. /\ stored'.sessions = stored.sessions \cup {n.session}
        /\ stored'.read = stored.read \cup {n}
    BY <2>1, <2>2, <2>3, DecryptEffect
  <2>5. \A m \in stored'.read : m.session \in stored'.sessions
    BY <2>4 DEF KeyInv
  <2>6. ASSUME NEW m \in Messages, m.session = n.session, n.session \notin stored.sessions,
               m.pre_key # <<>>
        PROVE  pre_key_id[t] = m.pre_key
    <3>1. pre_key_id[t] = n.pre_key
      BY <1>1, <1>9, <2>6 DEF KeyInv, Owes
    <3> QED
      BY <2>1, <2>6, <3>1, MessagesAssumption
  <2>7. KeysGone'
    BY <1>1, <1>4, <1>6, <1>9, <2>4, <2>6 DEF KeysGone
  <2> QED
    BY <1>1, <1>2, <1>5, <2>5, <2>7 DEF KeyInv
<1> QED
  BY <1>2, <1>7, <1>8, <1>9, CallKinds

\* remove_pre_key takes away the key that was still owed.
LEMMA RemoveKeys ==
    ASSUME Inv, KeyInv, NEW t \in Threads, remove_pre_key(t)
    PROVE  KeyInv'
<1>1. /\ t \in lock /\ pc[t] = "remove" /\ GoOn(t)
      /\ pre_keys' = {k \in pre_keys : <<k>> # pre_key_id[t]}
      /\ lock' = lock /\ call' = call /\ stored' = stored /\ stale' = stale
      /\ pre_key_id' = pre_key_id
  BY DEF remove_pre_key, At
<1>2. lock = {t}
  BY <1>1, Alone
<1>3. Owes(t)'
  <2>1. call[t].op = "prekey" => pc'[t] \notin {"save", "decrypt", "store"}
    BY <1>1, PreKeySteps
  <2> QED
    BY <1>1, <2>1 DEF Owes
<1>4. KeysGone'
  <2> SUFFICES ASSUME NEW m \in Messages, m.session \in stored.sessions, m.pre_key # <<>>,
                      m.pre_key[1] \in pre_keys'
               PROVE  m.pre_key[1] \in stale
    BY <1>1 DEF KeysGone
  <2>1. m.pre_key = <<m.pre_key[1]>>
    BY CallsAssumption
  <2> QED
    BY <1>1, <1>2, <2>1 DEF KeyInv, KeysGone
<1> QED
  BY <1>1, <1>2, <1>3, <1>4 DEF KeyInv

\* The end of a call, and a crash: a removal that does not happen is cut off.
LEMMA EndKeys ==
    ASSUME Inv, KeyInv,
           Crash \/ \E t \in Threads : Return(t) \/ Refuse(t) \/ StoreThrows(t)
    PROVE  KeyInv'
<1>1. CASE Crash
  BY <1>1, SameStoresKeys DEF Crash, stores
<1>2. ASSUME NEW t \in Threads, Return(t) \/ Refuse(t) \/ StoreThrows(t)
      PROVE  KeyInv'
  <2>1. /\ t \in lock /\ Leave(t) /\ stored' = stored /\ pre_keys' = pre_keys
        /\ stale \subseteq stale' /\ (pc[t] = "remove" => CutOff(t) \subseteq stale')
    <3>1. CASE Return(t)
      BY <3>1 DEF Return, At, stores
    <3>2. CASE Refuse(t)
      BY <3>2 DEF Refuse, stores, exception
    <3>3. CASE StoreThrows(t)
      BY <3>3 DEF StoreThrows, stores
    <3> QED
      BY <1>2, <3>1, <3>2, <3>3
  <2>2. lock = {t} /\ lock' = {}
    BY <2>1, Alone, LeaveKeeps
  <2>3. CutOff(t) \subseteq stale'
    BY <2>1 DEF CutOff
  <2> QED
    BY <2>1, <2>2, <2>3, SameStoresKeys
<1> QED
  BY <1>1, <1>2

\* Calling and getting the lock owe nothing yet.
LEMMA BeginKeys ==
    ASSUME Inv, KeyInv,
           \/ \E t \in Threads : Enter(t) \/ \E c \in Calls : Call(t, c)
           \/ UNCHANGED vars
    PROVE  KeyInv'
<1>1. ASSUME NEW t \in Threads, Enter(t) PROVE KeyInv'
  <2>1. /\ lock = {} /\ lock' = {t} /\ call' = call /\ pc[t] = "start"
        /\ stored' = stored /\ pre_keys' = pre_keys /\ stale' = stale
        /\ pc'[t] = After[call[t].op]["start"]
    BY <1>1 DEF Enter, stores, Inv, TypeOK
  <2>2. call[t] \in Calls
    BY <2>1 DEF Inv, Mutex
  <2>3. Owes(t)'
    BY <2>1, <2>2, AfterSteps, CallKinds DEF Owes
  <2> QED
    BY <2>1, <2>3, SameStoresKeys
<1>2. ASSUME NEW t \in Threads, NEW c \in Calls, Call(t, c) PROVE KeyInv'
  <2>1. /\ t \notin lock /\ lock' = lock /\ pre_key_id' = pre_key_id
        /\ stored' = stored /\ pre_keys' = pre_keys /\ stale' = stale
        /\ \A u \in lock : call'[u] = call[u] /\ pc'[u] = pc[u]
    BY <1>2 DEF Call, stores, Inv, Mutex, TypeOK
  <2> QED
    BY <2>1 DEF KeyInv, KeysGone, Owes
<1>3. CASE UNCHANGED vars
  BY <1>3 DEF vars, local, stores, KeyInv, KeysGone, Owes
<1> QED
  BY <1>1, <1>2, <1>3

\* The account of the keys holds in every reachable state.
LEMMA AlwaysKeyInv == Spec => [](Inv /\ KeyInv)
<1>1. Init => KeyInv
  BY DEF Init, KeyInv, KeysGone, FreshRecord
<1>2. Inv /\ KeyInv /\ [Next]_vars => KeyInv'
  BY CopyKeys, StoreKeys, RemoveKeys, EndKeys, BeginKeys DEF Next, Run
<1> QED
  BY <1>1, <1>2, InitInv, StepInv, PTL DEF Spec

\* Whatever fails or crashes, a one-time pre-key survives the first message that
\* used it only if the call was cut off between the two stores.
THEOREM KeysLeftOnlyByFailure == Spec => []KeyLeftOnlyByFailure
<1>1. Inv /\ KeyInv => KeyLeftOnlyByFailure
  <2>1. Inv => stored.read \subseteq Messages
    BY DEF Inv, TypeOK, Records
  <2> QED
    BY <2>1 DEF KeyInv, KeysGone, KeyLeftOnlyByFailure
<1> QED
  BY <1>1, AlwaysKeyInv, PTL
=============================================================================
