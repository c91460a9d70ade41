-------------------------- MODULE GroupCallsProofs --------------------------
(***************************************************************************)
(* Concurrent calls on one SenderKeyName, for any number of threads, any   *)
(* limits and any bounds.  With or without a lock, a message key is used   *)
(* twice, or a second sender key announced, only after a lost update.      *)
(* Under GroupCipher.LOCK no update is lost, no message is read twice      *)
(* while no announcement is processed, a name that receives never sends    *)
(* again, and the calls implement AtomicGroupCalls.                        *)
(***************************************************************************)
EXTENDS GroupCalls, SenderKeysProofs

\* The ids of a record's states.
IdsIn(r) == {r[i].sender_key_id : i \in 1..Len(r)}

\* The message's iteration is consumed in the state that is found for it.
Read(r, m) == StateFor(r, m) # 0 /\ Consumed(r[StateFor(r, m)], m.iteration)

Records == Seq(KeyStates)

\* The first state of a record that is not empty.
LEMMA FirstState ==
    ASSUME NEW r \in Records, r # <<>>
    PROVE  /\ 1 \in 1..Len(r) /\ r[1] \in KeyStates /\ r[1].iteration \in Nat
           /\ r[1].sender_key_id \in Nat /\ r[1].private \in {"yes", "no"}
           /\ r[1].sender_key_id \in IdsIn(r)
<1>1. 1 \in 1..Len(r) /\ r[1] \in KeyStates
  BY DEF Records
<1>2. r[1] \in States
  BY <1>1 DEF KeyStates
<1> QED BY <1>1, <1>2 DEF States, IdsIn

\* A read message stays read when the ids stay and no state gives keys back.
LEMMA ReadStays ==
    ASSUME NEW r \in Records, NEW new \in Records, Len(new) = Len(r),
           \A j \in 1..Len(r) : new[j].sender_key_id = r[j].sender_key_id,
           \A j \in 1..Len(r) : \A k \in Nat : Consumed(r[j], k) => Consumed(new[j], k)
    PROVE  /\ IdsIn(new) = IdsIn(r)
           /\ \A m \in Messages : /\ StateFor(new, m) = StateFor(r, m)
                                  /\ Read(r, m) => Read(new, m)
<1>1. IdsIn(new) = IdsIn(r)
  BY DEF IdsIn
<1>2. ASSUME NEW m \in Messages
      PROVE  StateFor(new, m) = StateFor(r, m) /\ (Read(r, m) => Read(new, m))
  <2>1. StateFor(new, m) = StateFor(r, m)
    BY SameStates, Zenon DEF StateFor, Records
  <2>2. m.iteration \in Nat
    BY GroupEffectsAssumption
  <2>3. StateFor(r, m) # 0 => StateFor(r, m) \in 1..Len(r)
    BY FoundState, Zenon DEF StateFor, Records
  <2> QED BY <2>1, <2>2, <2>3, Zenon DEF Read
<1> QED BY <1>1, <1>2

\* group_encrypt moves the first chain key on and keeps the signing key.
LEMMA EncryptEffect ==
    ASSUME NEW r \in Records, CanEncrypt(r)
    PROVE  LET new == group_encrypt(r)
           IN  /\ new \in Records /\ new # <<>>
               /\ new[1].private = "yes" /\ new[1].iteration > r[1].iteration
               /\ IdsIn(new) = IdsIn(r)
               /\ \A m \in Messages : Read(r, m) => Read(new, m)
<1> DEFINE s == [r[1] EXCEPT !.iteration = next(@)]
           new == [r EXCEPT ![1] = s]
<1>1. 1 \in 1..Len(r) /\ r[1] \in KeyStates /\ r[1].private = "yes" /\ r[1].iteration \in Nat
  BY FirstState DEF CanEncrypt
<1>2. r[1] \in States
  BY <1>1 DEF KeyStates
<1>3. next(r[1].iteration) = r[1].iteration + 1 /\ next(r[1].iteration) \in Nat
  BY <1>1 DEF next
<1>4. /\ s \in States /\ s.private = "yes" /\ s.iteration = r[1].iteration + 1
      /\ s.sender_message_keys = r[1].sender_message_keys
      /\ s.sender_key_id = r[1].sender_key_id
  BY <1>1, <1>2, <1>3 DEF States
<1>5. group_encrypt(r) = new
  BY DEF group_encrypt
<1> HIDE DEF s
<1>6. s \in KeyStates
  <2>1. r[1].sender_message_keys \in Seq(Nat)
    BY <1>2 DEF States
  <2>2. \A i \in 1..Len(r[1].sender_message_keys) :
            r[1].sender_message_keys[i] < r[1].iteration + 1
    BY <1>1, <2>1 DEF KeyStates
  <2> QED BY <1>1, <1>4, <2>2 DEF KeyStates
<1>7. \A k \in Nat : Consumed(r[1], k) => Consumed(s, k)
  BY <1>1, <1>4 DEF Consumed
<1>8. /\ new \in Records /\ Len(new) = Len(r) /\ new[1] = s /\ new # <<>>
      /\ \A j \in 1..Len(r) : j # 1 => new[j] = r[j]
  BY <1>1, <1>6 DEF Records
<1> HIDE DEF new
<1>9. /\ \A j \in 1..Len(r) : new[j].sender_key_id = r[j].sender_key_id
      /\ \A j \in 1..Len(r) : \A k \in Nat : Consumed(r[j], k) => Consumed(new[j], k)
  BY <1>4, <1>7, <1>8, Zenon
<1>10. IdsIn(new) = IdsIn(r) /\ \A m \in Messages : Read(r, m) => Read(new, m)
  BY <1>8, <1>9, ReadStays, Zenon
<1>11. new[1].iteration > r[1].iteration
  BY <1>1, <1>4, <1>8
<1> QED BY <1>4, <1>5, <1>8, <1>10, <1>11, Zenon

\* group_decrypt uses up the key of a message that had one, gives no key back,
\* moves no chain key back and touches no signing key.
LEMMA DecryptEffect ==
    ASSUME NEW r \in Records, NEW m \in Messages, CanDecrypt(r, m)
    PROVE  LET new == group_decrypt(r, m)
           IN  /\ r # <<>> /\ new \in Records /\ new # <<>>
               /\ new[1].private = r[1].private
               /\ new[1].iteration >= r[1].iteration
               /\ IdsIn(new) = IdsIn(r)
               /\ ~Read(r, m) /\ Read(new, m)
               /\ \A o \in Messages : Read(r, o) => Read(new, o)
<1> DEFINE i == StateFor(r, m)
           s == get_sender_key(r[i], m.iteration)
           new == group_decrypt(r, m)
<1>1. i \in 1..Len(r) /\ i # 0
  BY FoundState, Zenon DEF StateFor, Records, CanDecrypt
<1>2. Finds(r[i], m.iteration)
  BY Zenon DEF Finds, CanDecrypt
<1>3. m.iteration \in Nat
  BY GroupEffectsAssumption
<1>4. new = [r EXCEPT ![i] = get_sender_key(r[i], m.iteration)]
  BY Zenon DEF group_decrypt
<1> HIDE DEF i, new
<1>5. r \in Seq(KeyStates) /\ r[i] \in KeyStates
  BY <1>1 DEF Records
<1>6. /\ s \in KeyStates
      /\ s.sender_key_id = r[i].sender_key_id /\ s.private = r[i].private
      /\ s.iteration >= r[i].iteration
      /\ ~Consumed(r[i], m.iteration) /\ Consumed(s, m.iteration)
      /\ \A k \in Nat : Consumed(r[i], k) => Consumed(s, k)
  BY <1>2, <1>3, <1>5, GotKey, Zenon
<1>7. /\ new \in Seq(KeyStates) /\ Len(new) = Len(r) /\ new[i] = s
      /\ \A j \in 1..Len(r) : j # i => new[j] = r[j]
      /\ \A j \in 1..Len(r) : new[j].sender_key_id = r[j].sender_key_id
  BY <1>1, <1>2, <1>3, <1>4, <1>5, ReadState
<1> HIDE DEF s
<1>8. \A j \in 1..Len(r) : \A k \in Nat : Consumed(r[j], k) => Consumed(new[j], k)
  BY <1>6, <1>7, Zenon
<1>9. /\ IdsIn(new) = IdsIn(r)
      /\ \A o \in Messages : /\ StateFor(new, o) = StateFor(r, o)
                             /\ Read(r, o) => Read(new, o)
  BY <1>7, <1>8, ReadStays, Zenon DEF Records
<1>10. ~Read(r, m) /\ Read(new, m)
  BY <1>1, <1>6, <1>7, <1>9, Zenon DEF Read, i
<1>11. r # <<>> /\ new # <<>> /\ 1 \in 1..Len(r)
  BY <1>1, <1>7
<1>12. r[1].iteration \in Nat
  BY <1>5, <1>11, FirstState DEF Records
<1>13. new[1].private = r[1].private /\ new[1].iteration >= r[1].iteration
  <2>1. CASE i = 1
    BY <1>6, <1>7, <2>1, Zenon
  <2>2. CASE i # 1
    <3>1. new[1] = r[1]
      BY <1>7, <1>11, <2>2, Zenon
    <3> QED BY <1>12, <3>1
  <2> QED BY <2>1, <2>2
<1> QED BY <1>7, <1>9, <1>10, <1>11, <1>13, Zenon DEF new, Records

\* A processed announcement leaves a state without a signing key in front.
LEMMA ProcessEffect ==
    ASSUME NEW r \in Records, NEW skdm \in Announcements
    PROVE  LET new == process_sender_key_distribution_message(r, skdm)
           IN  /\ new \in Records /\ new # <<>> /\ new[1].private = "no"
               /\ IdsIn(new) \subseteq IdsIn(r) \cup {skdm.id}
<1> DEFINE new == process_sender_key_distribution_message(r, skdm)
           s == SenderKeyState(skdm.id, skdm.iteration, "no")
<1>1. /\ r \in Seq(KeyStates) /\ skdm \in [id : Nat, iteration : Nat]
      /\ new = add_sender_key_state(r, skdm.id, skdm.iteration, "no")
  BY GroupEffectsAssumption DEF process_sender_key_distribution_message, Records
<1> HIDE DEF new
<1>2. /\ new \in Seq(KeyStates) /\ Len(new) >= 1 /\ new[1] = s
      /\ \A i \in 2..Len(new) : i - 1 \in 1..Len(r) /\ new[i] = r[i - 1]
  BY <1>1, AnnouncementAdded, Zenon
<1>3. s.private = "no" /\ s.sender_key_id = skdm.id
  BY DEF SenderKeyState
<1> HIDE DEF s
<1>5. ASSUME NEW i \in 1..Len(new)
      PROVE  new[i].sender_key_id \in IdsIn(r) \cup {skdm.id}
  <2>1. CASE i = 1
    BY <1>2, <1>3, <2>1
  <2>2. CASE i # 1
    <3>1. i \in 2..Len(new)
      BY <1>2, <2>2
    <3> QED BY <1>2, <3>1 DEF IdsIn
  <2> QED BY <2>1, <2>2
<1>6. new # <<>>
  BY <1>2
<1> QED BY <1>2, <1>3, <1>5, <1>6 DEF IdsIn, Records, new

\* A drawn sender key is one state with a signing key.
LEMMA CreateEffect ==
    ASSUME NEW id \in OwnIds
    PROVE  LET new == create_sender_key(id)
           IN  /\ new \in Records /\ new # <<>> /\ new[1].private = "yes"
               /\ IdsIn(new) = {id}
<1> DEFINE s == SenderKeyState(id, 0, "yes")
<1>1. create_sender_key(id) = <<s>>
  BY GroupEffectsAssumption, OnlyState DEF create_sender_key
<1>2. s \in KeyStates /\ s.private = "yes" /\ s.sender_key_id = id
  BY GroupEffectsAssumption, FreshState
<1> HIDE DEF s
<1>3. <<s>> \in Records /\ <<s>> # <<>> /\ <<s>>[1] = s
  BY <1>2 DEF Records
<1>4. IdsIn(<<s>>) = {id}
  BY <1>2 DEF IdsIn
<1> QED BY <1>1, <1>2, <1>3, <1>4
-----------------------------------------------------------------------------
\* What call c may make of the record old.
Effect(c, old, new) ==
    \/ c.op = "encrypt" /\ CanEncrypt(old) /\ new = group_encrypt(old)
    \/ c.op = "decrypt" /\ CanDecrypt(old, c.m) /\ new = group_decrypt(old, c.m)
    \/ c.op = "process" /\ new = process_sender_key_distribution_message(old, c.skdm)
    \/ c.op = "create" /\ old = <<>> /\ \E id \in OwnIds : new = create_sender_key(id)

\* The arguments of a call are messages and announcements.
LEMMA CallArguments ==
    ASSUME NEW c \in Calls
    PROVE  /\ c.op \in {"encrypt", "decrypt", "process", "create"}
           /\ c.op = "decrypt" => c.m \in Messages
           /\ c.op = "process" => c.skdm \in Announcements
  BY DEF Calls

\* The effect of a call keeps the record a record and empties it never.
LEMMA EffectRecords ==
    ASSUME NEW c \in Calls, NEW old \in Records, NEW new, Effect(c, old, new)
    PROVE  new \in Records /\ new # <<>>
<1>1. CASE c.op = "encrypt" /\ CanEncrypt(old) /\ new = group_encrypt(old)
  BY <1>1, EncryptEffect, Zenon
<1>2. CASE c.op = "decrypt" /\ CanDecrypt(old, c.m) /\ new = group_decrypt(old, c.m)
  BY <1>2, DecryptEffect, CallArguments, Zenon
<1>3. CASE c.op = "process" /\ new = process_sender_key_distribution_message(old, c.skdm)
  BY <1>3, ProcessEffect, CallArguments, Zenon
<1>4. CASE c.op = "create" /\ old = <<>> /\ \E id \in OwnIds : new = create_sender_key(id)
  BY <1>4, CreateEffect, Zenon
<1> QED BY <1>1, <1>2, <1>3, <1>4, Zenon DEF Effect

\* What the effect of a call leaves in front: a chain key that is no older if the
\* signing key is still there.
LEMMA EffectFront ==
    ASSUME NEW c \in Calls, NEW old \in Records, NEW new, Effect(c, old, new)
    PROVE  /\ old # <<>> /\ old[1].private = "no" => new[1].private = "no"
           /\ CanEncrypt(new) /\ old # <<>> =>
                CanEncrypt(old) /\ new[1].iteration >= old[1].iteration
           /\ c.op = "encrypt" => CanEncrypt(old) /\ new[1].iteration > old[1].iteration
<1>0. old # <<>> => old[1].private \in {"yes", "no"} /\ old[1].iteration \in Nat
  BY FirstState
<1>1. CASE c.op = "encrypt" /\ CanEncrypt(old) /\ new = group_encrypt(old)
  <2>1. new[1].private = "yes" /\ new[1].iteration > old[1].iteration /\ new # <<>>
        /\ new \in Records
    BY <1>1, EncryptEffect, Zenon
  <2>2. new[1].iteration \in Nat
    BY <2>1, FirstState
  <2> QED BY <1>0, <1>1, <2>1, <2>2 DEF CanEncrypt
<1>2. CASE c.op = "decrypt" /\ CanDecrypt(old, c.m) /\ new = group_decrypt(old, c.m)
  <2>1. new[1].private = old[1].private /\ new[1].iteration >= old[1].iteration /\ old # <<>>
    BY <1>2, DecryptEffect, CallArguments, Zenon
  <2> QED BY <1>2, <2>1 DEF CanEncrypt
<1>3. CASE c.op = "process" /\ new = process_sender_key_distribution_message(old, c.skdm)
  <2>1. new[1].private = "no"
    BY <1>3, ProcessEffect, CallArguments, Zenon
  <2> QED BY <1>3, <2>1 DEF CanEncrypt
<1>4. CASE c.op = "create" /\ old = <<>> /\ \E id \in OwnIds : new = create_sender_key(id)
  BY <1>4
<1> QED BY <1>1, <1>2, <1>3, <1>4, Zenon DEF Effect

\* What the effect of a call does to the ids of the record.
LEMMA EffectIds ==
    ASSUME NEW c \in Calls, NEW old \in Records, NEW new, Effect(c, old, new)
    PROVE  \/ IdsIn(new) = IdsIn(old) /\ old # <<>>
           \/ c.op = "process" /\ IdsIn(new) \subseteq IdsIn(old) \cup {c.skdm.id}
           \/ old = <<>> /\ \E id \in OwnIds : IdsIn(new) = {id}
<1>1. CASE c.op = "encrypt" /\ CanEncrypt(old) /\ new = group_encrypt(old)
  BY <1>1, EncryptEffect, Zenon DEF CanEncrypt
<1>2. CASE c.op = "decrypt" /\ CanDecrypt(old, c.m) /\ new = group_decrypt(old, c.m)
  BY <1>2, DecryptEffect, CallArguments, Zenon
<1>3. CASE c.op = "process" /\ new = process_sender_key_distribution_message(old, c.skdm)
  BY <1>3, ProcessEffect, CallArguments, Zenon
<1>4. CASE c.op = "create" /\ old = <<>> /\ \E id \in OwnIds : new = create_sender_key(id)
  BY <1>4, CreateEffect, Zenon
<1> QED BY <1>1, <1>2, <1>3, <1>4, Zenon DEF Effect

\* What the effect of a call does to the messages that were read.
LEMMA EffectReads ==
    ASSUME NEW c \in Calls, NEW old \in Records, NEW new, Effect(c, old, new)
    PROVE  /\ \/ c.op = "process" \/ old = <<>>
              \/ \A m \in Messages : Read(old, m) => Read(new, m)
           /\ c.op = "decrypt" => ~Read(old, c.m) /\ Read(new, c.m)
<1>1. CASE c.op = "encrypt" /\ CanEncrypt(old) /\ new = group_encrypt(old)
  <2>1. \A m \in Messages : Read(old, m) => Read(new, m)
    BY <1>1, EncryptEffect, Zenon
  <2> QED BY <1>1, <2>1
<1>2. CASE c.op = "decrypt" /\ CanDecrypt(old, c.m) /\ new = group_decrypt(old, c.m)
  BY <1>2, DecryptEffect, CallArguments, Zenon
<1>3. CASE c.op = "process" /\ new = process_sender_key_distribution_message(old, c.skdm)
  BY <1>3
<1>4. CASE c.op = "create" /\ old = <<>> /\ \E id \in OwnIds : new = create_sender_key(id)
  BY <1>4
<1> QED BY <1>1, <1>2, <1>3, <1>4, Zenon DEF Effect
-----------------------------------------------------------------------------
Keys == [id : Nat, iteration : Nat]

Types ==
    /\ inside \subseteq Threads
    /\ call \in [Threads -> Calls \cup {NoCall}]
    /\ pc \in [Threads -> {"none", "start", "load", "work", "store", "return"}]
    /\ record \in [Threads -> Records] /\ loaded \in [Threads -> Records]
    /\ stored \in Records
    /\ sent \subseteq Keys /\ announced \subseteq Keys /\ given \subseteq Messages

\* What a call holds at each step: at "store" its effect on what it loaded, and
\* at "return" a record with a state to announce or to have sent under.  An own
\* announcement that it processes was returned by a call before.
Steps ==
    \A t \in Threads :
        /\ t \in inside <=> pc[t] \notin {"none", "start"}
        /\ pc[t] # "none" => call[t] \in Calls
        /\ pc[t] = "work" => record[t] = loaded[t]
        /\ pc[t] = "store" => Effect(call[t], loaded[t], record[t])
        /\ pc[t] = "return" =>
              record[t] # <<>> /\ (call[t].op = "encrypt" => CanEncrypt(loaded[t]))
        /\ pc[t] # "none" /\ call[t].op = "process" /\ call[t].skdm.id \in OwnIds =>
              call[t].skdm \in announced

Base == Types /\ Steps

\* The threads that are about to return a group message.
Sends(t) == pc[t] = "return" /\ call[t].op = "encrypt"

\* The key that the first state will draw is past every key that was used; no
\* two returning calls have drawn the same, and none has drawn one that was used.
Fresh ==
    /\ stored = <<>> => sent = {}
    /\ CanEncrypt(stored) => \A k \in sent : k.iteration < stored[1].iteration
    /\ \A t \in Threads :
         Sends(t) =>
             /\ loaded[t] # <<>> /\ stored # <<>>
             /\ \A k \in sent : k.iteration # loaded[t][1].iteration
             /\ CanEncrypt(stored) => loaded[t][1].iteration < stored[1].iteration
    /\ \A t, u \in Threads :
         Sends(t) /\ Sends(u) /\ t # u => loaded[t][1].iteration # loaded[u][1].iteration
    /\ reused = {}

\* The own ids that the store, the calls and what they returned refer to.
Ids ==
    {id \in OwnIds :
        \/ id \in IdsIn(stored)
        \/ \E t \in Threads : id \in IdsIn(loaded[t])
        \/ \E t \in Threads : pc[t] = "return" /\ id \in IdsIn(record[t])
        \/ \E m \in sent \cup announced : id = m.id}

\* One own sender key at most is referred to; while the store is empty nothing is.
OneId ==
    /\ \A x, y \in Ids : x = y
    /\ stored = <<>> =>
         /\ sent = {} /\ announced = {}
         /\ \A t \in Threads : loaded[t] = <<>> /\ pc[t] # "return"

Clean == Fresh /\ OneId

\* The invariant with or without the lock.
Inv == Base /\ (lost = "no" => Clean)
\* The invariant holds at the start.
LEMMA InitInv == Init => Inv
<1> SUFFICES ASSUME Init PROVE Inv
  OBVIOUS
<1>1. <<>> \in Records /\ IdsIn(<<>>) = {}
  BY DEF Records, IdsIn
<1>2. Base
  BY <1>1 DEF Init, Base, Types, Steps, NoCall, Keys
<1>3. Fresh
  BY DEF Init, Fresh, CanEncrypt, Sends
<1>4. Ids = {}
  <2>1. /\ IdsIn(stored) = {} /\ \A t \in Threads : IdsIn(loaded[t]) = {}
        /\ \A t \in Threads : pc[t] # "return"
        /\ sent = {} /\ announced = {}
    BY <1>1 DEF Init
  <2> QED BY <2>1 DEF Ids
<1>5. OneId
  BY <1>4 DEF Init, OneId
<1> QED BY <1>2, <1>3, <1>5 DEF Inv, Clean

\* Starting a call keeps the types and what the calls hold.
LEMMA CallBase ==
    ASSUME Base, NEW t \in Threads, NEW c \in Calls, Call(t, c)
    PROVE  Base'
<1>1. Types'
  BY DEF Base, Types, Call, outputs
<1>2. Steps'
  BY DEF Base, Types, Steps, Call, outputs, Announced
<1> QED BY <1>1, <1>2 DEF Base

\* Taking the lock, or going on without one, does too.
LEMMA EnterBase ==
    ASSUME Base, NEW t \in Threads, Enter(t)
    PROVE  Base'
<1>1. Types'
  BY DEF Base, Types, Enter, outputs
<1>2. Steps'
  BY DEF Base, Types, Steps, Enter, outputs
<1> QED BY <1>1, <1>2 DEF Base

\* Loading the record does too.
LEMMA LoadBase ==
    ASSUME Base, NEW t \in Threads, load_sender_key(t)
    PROVE  Base'
<1>1. Types'
  BY DEF Base, Types, load_sender_key, At, GoTo, outputs
<1>2. Steps'
  BY DEF Base, Types, Steps, load_sender_key, At, GoTo, outputs
<1> QED BY <1>1, <1>2 DEF Base

\* The work of a call on its copy does too, if it is the call's effect and is to
\* be stored.
LEMMA WorksBase ==
    ASSUME Base, NEW t \in Threads, NEW new, Works(t, new, "store"),
           Effect(call[t], record[t], new)
    PROVE  Base'
<1>0. call[t] \in Calls /\ record[t] = loaded[t] /\ record[t] \in Records /\ new \in Records
  <2>1. call[t] \in Calls /\ record[t] = loaded[t] /\ record[t] \in Records
    BY DEF Base, Types, Steps, Works, At
  <2> QED BY <2>1, EffectRecords
<1>1. Types'
  BY <1>0 DEF Base, Types, Works, At, GoTo, outputs
<1>2. Steps'
  BY <1>0 DEF Base, Types, Steps, Works, At, GoTo, outputs
<1> QED BY <1>1, <1>2 DEF Base

\* The ways of working on the copy that end with a store.
Stores(t) ==
    \/ EncryptStep(t) \/ DecryptStep(t) \/ ProcessStep(t)
    \/ call[t].op = "create" /\ \E id \in OwnIds : Works(t, create_sender_key(id), "store")
                             /\ NeedsKey(record[t])

\* Each of them is the work of the call's effect.
LEMMA StoresWork ==
    ASSUME NEW t \in Threads, Stores(t)
    PROVE  \E new : Works(t, new, "store") /\ Effect(call[t], record[t], new)
  BY Zenon DEF Stores, EncryptStep, DecryptStep, ProcessStep, Effect, NeedsKey

\* The only other work is that of a create call that needs no key.
LEMMA WorkCases ==
    ASSUME NEW t \in Threads,
           EncryptStep(t) \/ DecryptStep(t) \/ ProcessStep(t) \/ CreateStep(t)
    PROVE  \/ Stores(t)
           \/ /\ call[t].op = "create" /\ record[t] # <<>>
              /\ Works(t, record[t], "return")
  BY Zenon DEF Stores, CreateStep, NeedsKey

\* Every work keeps the types and what the calls hold.
LEMMA WorkBase ==
    ASSUME Base, NEW t \in Threads,
           EncryptStep(t) \/ DecryptStep(t) \/ ProcessStep(t) \/ CreateStep(t)
    PROVE  Base'
<1>1. CASE Stores(t)
  BY <1>1, StoresWork, WorksBase, Zenon
<1>2. ASSUME call[t].op = "create", record[t] # <<>>, Works(t, record[t], "return")
      PROVE  Base'
  <2>1. Types'
    BY <1>2 DEF Base, Types, Works, At, GoTo, outputs
  <2>2. Steps'
    BY <1>2 DEF Base, Types, Steps, Works, At, GoTo, outputs
  <2> QED BY <2>1, <2>2 DEF Base
<1> QED BY <1>1, <1>2, WorkCases, Zenon

\* Storing the record does too.
LEMMA StoreBase ==
    ASSUME Base, NEW t \in Threads, store_sender_key(t)
    PROVE  Base'
<1>0. record[t] # <<>> /\ (call[t].op = "encrypt" => CanEncrypt(loaded[t]))
  <2>1. /\ call[t] \in Calls /\ loaded[t] \in Records
        /\ Effect(call[t], loaded[t], record[t])
    BY DEF Base, Types, Steps, store_sender_key, At
  <2> QED BY <2>1, EffectRecords, EffectFront
<1>1. Types'
  BY DEF Base, Types, store_sender_key, At, GoTo
<1>2. Steps'
  BY <1>0 DEF Base, Types, Steps, store_sender_key, At, GoTo
<1> QED BY <1>1, <1>2 DEF Base

\* A thread that leaves disturbs no other.
LEMMA LeaveBase ==
    ASSUME Base, NEW t \in inside, Leave(t), stored' = stored, sent' \subseteq Keys,
           announced \subseteq announced', announced' \subseteq Keys, given' \subseteq Messages
    PROVE  Base'
<1>0. t \in Threads /\ <<>> \in Records
  BY DEF Base, Types, Records
<1>1. Types'
  BY <1>0 DEF Base, Types, Leave
<1>2. Steps'
  BY <1>0 DEF Base, Types, Steps, Leave
<1> QED BY <1>1, <1>2 DEF Base

\* A crash leaves the store and what was returned.
LEMMA CrashBase ==
    ASSUME Base, Crash
    PROVE  Base'
<1>0. <<>> \in Records
  BY DEF Records
<1>1. Types'
  BY <1>0 DEF Base, Types, Crash, outputs
<1>2. Steps'
  BY DEF Base, Types, Steps, Crash
<1> QED BY <1>1, <1>2 DEF Base
-----------------------------------------------------------------------------
\* Whose ids are referred to.
LEMMA IdsMembers ==
    ASSUME NEW id
    PROVE  id \in Ids <=>
             /\ id \in OwnIds
             /\ \/ id \in IdsIn(stored)
                \/ \E t \in Threads : id \in IdsIn(loaded[t])
                \/ \E t \in Threads : pc[t] = "return" /\ id \in IdsIn(record[t])
                \/ \E m \in sent \cup announced : id = m.id
  BY Zenon DEF Ids

\* The same after a step.
LEMMA IdsMembersNext ==
    ASSUME NEW id
    PROVE  id \in Ids' <=>
             /\ id \in OwnIds
             /\ \/ id \in IdsIn(stored')
                \/ \E t \in Threads : id \in IdsIn(loaded'[t])
                \/ \E t \in Threads : pc'[t] = "return" /\ id \in IdsIn(record'[t])
                \/ \E m \in sent' \cup announced' : id = m.id
  BY DEF Ids, IdsIn

\* A step that changes neither the store nor what was returned, loads at most
\* what is stored, and brings to "return" only a create call that found a key.
LEMMA QuietClean ==
    ASSUME Base, Clean, UNCHANGED <<stored, sent, reused, announced>>,
           \A u \in Threads : loaded'[u] = loaded[u] \/ loaded'[u] = stored \/ loaded'[u] = <<>>,
           \A u \in Threads : pc'[u] = "return" =>
               /\ loaded'[u] = loaded[u]
               /\ \/ pc[u] = "return" /\ record'[u] = record[u] /\ call'[u] = call[u]
                  \/ /\ call'[u].op # "encrypt"
                     /\ record'[u] = loaded[u] /\ loaded[u] # <<>>
    PROVE  Clean'
<1>1. \A u \in Threads : Sends(u)' => Sends(u) /\ loaded'[u] = loaded[u]
  BY DEF Sends
<1>2. Fresh'
  BY <1>1 DEF Clean, Fresh, CanEncrypt
<1>3. IdsIn(<<>>) = {}
  BY DEF IdsIn
<1>4. ASSUME NEW id \in Ids' PROVE id \in Ids
  <2>1. /\ id \in OwnIds
        /\ \/ id \in IdsIn(stored')
           \/ \E t \in Threads : id \in IdsIn(loaded'[t])
           \/ \E t \in Threads : pc'[t] = "return" /\ id \in IdsIn(record'[t])
           \/ \E m \in sent \cup announced : id = m.id
    BY <1>4, IdsMembersNext
  <2>2. stored' = stored
    OBVIOUS
  <2>3. \/ id \in IdsIn(stored)
        \/ \E t \in Threads : id \in IdsIn(loaded[t])
        \/ \E t \in Threads : pc[t] = "return" /\ id \in IdsIn(record[t])
        \/ \E m \in sent \cup announced : id = m.id
    BY <1>3, <2>1, <2>2, Zenon
  <2> QED BY <2>1, <2>3, IdsMembers, Zenon
<1>5. stored' = <<>> =>
         /\ sent' = {} /\ announced' = {}
         /\ \A t \in Threads : loaded'[t] = <<>> /\ pc'[t] # "return"
  BY DEF Clean, OneId
<1>6. OneId'
  BY <1>4, <1>5 DEF Clean, OneId
<1> QED BY <1>2, <1>6 DEF Clean

\* Storing the effect of a call on the stored record keeps the keys fresh: a
\* sending call drew the first chain key, which moved on.
LEMMA StoreFresh ==
    ASSUME Base, Clean, NEW t \in Threads, store_sender_key(t), loaded[t] = stored
    PROVE  Fresh'
<1>0. /\ call[t] \in Calls /\ stored \in Records /\ Effect(call[t], stored, stored')
      /\ loaded' = loaded /\ call' = call /\ sent' = sent /\ reused' = reused
      /\ pc' = [pc EXCEPT ![t] = "return"] /\ pc[t] = "store"
  BY DEF Base, Types, Steps, store_sender_key, At, GoTo
<1>1. /\ stored' # <<>> /\ stored' \in Records
      /\ CanEncrypt(stored') /\ stored # <<>> =>
           CanEncrypt(stored) /\ stored'[1].iteration >= stored[1].iteration
      /\ call[t].op = "encrypt" =>
           CanEncrypt(stored) /\ stored'[1].iteration > stored[1].iteration
  BY <1>0, EffectRecords, EffectFront
<1>2. stored'[1].iteration \in Nat /\ (stored # <<>> => stored[1].iteration \in Nat)
  BY <1>0, <1>1, FirstState
<1>3. \A k \in sent : k.iteration \in Nat
  BY DEF Base, Types, Keys
<1>4. \A u \in Threads : Sends(u)' => Sends(u) \/ (u = t /\ call[t].op = "encrypt")
  BY <1>0 DEF Sends, Base, Types
<1>5. \A u \in Threads : Sends(u) => loaded[u] # <<>> /\ loaded[u][1].iteration \in Nat
  BY FirstState DEF Base, Types, Clean, Fresh
<1>6. CanEncrypt(stored') => \A k \in sent : k.iteration < stored'[1].iteration
  BY <1>1, <1>2, <1>3 DEF Clean, Fresh
<1>7. ASSUME NEW u \in Threads, Sends(u)'
      PROVE  /\ loaded[u] # <<>>
             /\ \A k \in sent : k.iteration # loaded[u][1].iteration
             /\ CanEncrypt(stored') => loaded[u][1].iteration < stored'[1].iteration
  <2>1. CASE Sends(u)
    BY <1>1, <1>2, <1>5, <2>1 DEF Clean, Fresh
  <2>2. CASE u = t /\ call[t].op = "encrypt"
    BY <1>1, <1>2, <1>3, <2>2 DEF Clean, Fresh, CanEncrypt
  <2> QED BY <1>4, <1>7, <2>1, <2>2
<1>8. ASSUME NEW u \in Threads, NEW v \in Threads, Sends(u)', Sends(v)', u # v
      PROVE  loaded[u][1].iteration # loaded[v][1].iteration
  <2>1. CASE Sends(u) /\ Sends(v)
    BY <1>8, <2>1 DEF Clean, Fresh
  <2>2. ASSUME NEW w \in Threads, Sends(w), call[t].op = "encrypt"
        PROVE  loaded[w][1].iteration # loaded[t][1].iteration
    BY <1>1, <1>2, <1>5, <2>2 DEF Clean, Fresh
  <2> QED BY <1>4, <1>8, <2>1, <2>2
<1> QED BY <1>0, <1>1, <1>6, <1>7, <1>8 DEF Clean, Fresh, CanEncrypt

\* It refers to no other own sender key.
LEMMA StoreOneId ==
    ASSUME Base, Clean, NEW t \in Threads, store_sender_key(t), loaded[t] = stored
    PROVE  OneId'
<1>0. /\ call[t] \in Calls /\ stored \in Records /\ Effect(call[t], stored, stored')
      /\ loaded' = loaded /\ sent' = sent /\ announced' = announced
      /\ record' = record /\ stored' = record[t]
      /\ pc' = [pc EXCEPT ![t] = "return"] /\ pc[t] = "store"
  BY DEF Base, Types, Steps, store_sender_key, At, GoTo
<1>1. stored' # <<>>
  BY <1>0, EffectRecords
<1>2. ASSUME NEW id \in Ids' PROVE id \in Ids \/ (id \in OwnIds /\ id \in IdsIn(record[t]))
  <2>1. /\ id \in OwnIds
        /\ \/ id \in IdsIn(record[t])
           \/ \E u \in Threads : id \in IdsIn(loaded[u])
           \/ \E u \in Threads : pc'[u] = "return" /\ id \in IdsIn(record[u])
           \/ \E m \in sent \cup announced : id = m.id
    BY <1>0, <1>2, IdsMembersNext
  <2>2. \A u \in Threads : pc'[u] = "return" => u = t \/ pc[u] = "return"
    BY <1>0 DEF Base, Types
  <2> QED BY <2>1, <2>2, IdsMembers, Zenon
<1>3. \/ IdsIn(record[t]) = IdsIn(stored)
      \/ IdsIn(record[t]) \subseteq IdsIn(stored) \cup {call[t].skdm.id}
         /\ call[t].op = "process"
      \/ stored = <<>> /\ \E id \in OwnIds : IdsIn(record[t]) = {id}
  BY <1>0, EffectIds
<1>4. \A id \in OwnIds : id \in IdsIn(stored) => id \in Ids
  BY IdsMembers, Zenon
<1>5. CASE IdsIn(record[t]) = IdsIn(stored)
  BY <1>1, <1>2, <1>4, <1>5 DEF Clean, OneId
<1>6. CASE IdsIn(record[t]) \subseteq IdsIn(stored) \cup {call[t].skdm.id}
           /\ call[t].op = "process"
  <2>1. call[t].skdm.id \in OwnIds => call[t].skdm.id \in Ids
    <3>1. call[t].skdm.id \in OwnIds => call[t].skdm \in announced
      BY <1>0, <1>6 DEF Base, Steps
    <3> QED BY <3>1, IdsMembers, Zenon
  <2> QED BY <1>1, <1>2, <1>4, <1>6, <2>1 DEF Clean, OneId
<1>7. CASE stored = <<>> /\ \E id \in OwnIds : IdsIn(record[t]) = {id}
  <2>1. Ids = {}
    <3>1. IdsIn(<<>>) = {}
      BY DEF IdsIn
    <3>2. /\ stored = <<>> /\ sent = {} /\ announced = {}
          /\ \A u \in Threads : loaded[u] = <<>> /\ pc[u] # "return"
      BY <1>7 DEF Clean, OneId
    <3> QED BY <3>1, <3>2, IdsMembers, Zenon
  <2> QED BY <1>1, <1>2, <1>7, <2>1 DEF OneId
<1> QED BY <1>3, <1>5, <1>6, <1>7
\* A call that leaves keeps it, whether it returns a message under the key that
\* it drew, an announcement, or nothing.
LEMMA LeaveClean ==
    ASSUME Base, Clean, NEW t \in inside, Leave(t), stored' = stored,
           \/ sent' = sent /\ reused' = reused
           \/ /\ Sends(t) /\ sent' = sent \cup {Head1(loaded[t])}
              /\ reused' = reused \cup ({Head1(loaded[t])} \cap sent),
           \/ announced' = announced
           \/ pc[t] = "return" /\ announced' = announced \cup {Head1(record[t])}
    PROVE  Clean'
<1>0. /\ t \in Threads /\ loaded[t] \in Records /\ record[t] \in Records
      /\ \A u \in Threads : pc'[u] = "return" =>
            u # t /\ pc[u] = "return" /\ loaded'[u] = loaded[u] /\ record'[u] = record[u]
            /\ call'[u] = call[u]
      /\ \A u \in Threads : loaded'[u] = loaded[u] \/ loaded'[u] = <<>>
  BY DEF Base, Types, Leave
<1>1. pc[t] = "return" => record[t] # <<>> /\ (call[t].op = "encrypt" => loaded[t] # <<>>)
  BY <1>0 DEF Base, Steps, CanEncrypt
<1>2. \A u \in Threads : Sends(u)' => u # t /\ Sends(u) /\ loaded'[u] = loaded[u]
  BY <1>0 DEF Sends
<1>3. stored = <<>> => sent' = sent /\ announced' = announced
  BY <1>0 DEF Clean, OneId, Sends
<1>4. Fresh'
  <2>1. CASE sent' = sent /\ reused' = reused
    BY <1>2, <2>1 DEF Clean, Fresh, CanEncrypt
  <2>2. CASE /\ Sends(t) /\ sent' = sent \cup {Head1(loaded[t])}
             /\ reused' = reused \cup ({Head1(loaded[t])} \cap sent)
    <3>1. Head1(loaded[t]).iteration = loaded[t][1].iteration
      BY DEF Head1
    <3>2. Head1(loaded[t]) \notin sent
      BY <1>0, <2>2, <3>1 DEF Clean, Fresh
    <3> QED BY <1>0, <1>2, <1>3, <2>2, <3>1, <3>2 DEF Clean, Fresh, CanEncrypt
  <2> QED BY <2>1, <2>2
<1>5. ASSUME NEW id \in Ids' PROVE id \in Ids
  <2>1. /\ id \in OwnIds
        /\ \/ id \in IdsIn(stored')
           \/ \E u \in Threads : id \in IdsIn(loaded'[u])
           \/ \E u \in Threads : pc'[u] = "return" /\ id \in IdsIn(record'[u])
           \/ \E m \in sent' \cup announced' : id = m.id
    BY <1>5, IdsMembersNext
  <2>2. IdsIn(<<>>) = {}
    BY DEF IdsIn
  <2>3. pc[t] = "return" => Head1(record[t]).id \in IdsIn(record[t])
    BY <1>0, <1>1, FirstState DEF Head1
  <2>4. Sends(t) => Head1(loaded[t]).id \in IdsIn(loaded[t])
    BY <1>0, <1>1, FirstState DEF Head1, Sends
  <2>5. \/ id \in IdsIn(stored)
        \/ \E u \in Threads : id \in IdsIn(loaded[u])
        \/ \E u \in Threads : pc[u] = "return" /\ id \in IdsIn(record[u])
        \/ \E m \in sent \cup announced : id = m.id
    <3>1. ASSUME NEW m \in sent', id = m.id
          PROVE  m \in sent \/ \E u \in Threads : id \in IdsIn(loaded[u])
      BY <1>0, <2>4, <3>1, Zenon
    <3>2. ASSUME NEW m \in announced', id = m.id
          PROVE  \/ m \in announced
                 \/ \E u \in Threads : pc[u] = "return" /\ id \in IdsIn(record[u])
      BY <1>0, <2>3, <3>2, Zenon
    <3> QED BY <1>0, <2>1, <2>2, <3>1, <3>2, Zenon
  <2> QED BY <2>1, <2>5, IdsMembers, Zenon
<1>6. OneId'
  BY <1>0, <1>3, <1>5 DEF Clean, OneId
<1> QED BY <1>4, <1>6 DEF Clean

\* Returning from a call.
LEMMA ReturnInv ==
    ASSUME Base, NEW t \in Threads, Return(t)
    PROVE  Base' /\ (Clean => Clean')
<1>0. /\ t \in inside /\ pc[t] = "return" /\ Leave(t) /\ stored' = stored
      /\ call[t] \in Calls /\ loaded[t] \in Records /\ record[t] \in Records
      /\ record[t] # <<>> /\ (call[t].op = "encrypt" => loaded[t] # <<>>)
  BY DEF Base, Types, Steps, Return, At, CanEncrypt
<1>1. call[t].op \in {"encrypt", "decrypt", "process", "create"}
      /\ (call[t].op = "decrypt" => call[t].m \in Messages)
  BY <1>0, CallArguments
<1>2. /\ \/ sent' = sent /\ reused' = reused
         \/ /\ Sends(t) /\ sent' = sent \cup {Head1(loaded[t])}
            /\ reused' = reused \cup ({Head1(loaded[t])} \cap sent)
      /\ \/ announced' = announced
         \/ announced' = announced \cup {Head1(record[t])}
      /\ given' = given \/ (call[t].op = "decrypt" /\ given' = given \cup {call[t].m})
  BY <1>0, <1>1 DEF Return, Sends, outputs
<1>3. \A r \in Records : r # <<>> => Head1(r) \in Keys
  BY FirstState DEF Head1, Keys
<1>4. sent' \subseteq Keys /\ announced' \subseteq Keys /\ given' \subseteq Messages
      /\ announced \subseteq announced'
  BY <1>0, <1>1, <1>2, <1>3 DEF Base, Types, Sends
<1> QED BY <1>0, <1>2, <1>4, LeaveBase, LeaveClean

\* A call that ends without a result.
LEMMA EndInv ==
    ASSUME Base, NEW t \in Threads, Refuse(t) \/ StoreFails(t)
    PROVE  Base' /\ (Clean => Clean')
<1>1. /\ t \in inside /\ Leave(t) /\ UNCHANGED <<stored, outputs>>
  BY DEF Refuse, StoreFails, At
<1>2. /\ stored' = stored /\ sent' = sent /\ reused' = reused /\ announced' = announced
      /\ given' = given
  BY <1>1 DEF outputs
<1>3. sent' \subseteq Keys /\ announced' \subseteq Keys /\ given' \subseteq Messages
  BY <1>2 DEF Base, Types
<1> QED BY <1>1, <1>2, <1>3, LeaveBase, LeaveClean

\* A step that is only of the thread's own.
LEMMA QuietSteps ==
    ASSUME Base, NEW t \in Threads,
           \/ \E c \in Calls : Call(t, c)
           \/ Enter(t) \/ load_sender_key(t)
           \/ EncryptStep(t) \/ DecryptStep(t) \/ ProcessStep(t) \/ CreateStep(t)
    PROVE  Base' /\ (Clean => Clean')
<1> SUFFICES Base' /\
      /\ UNCHANGED <<stored, sent, reused, announced>>
      /\ \A u \in Threads : loaded'[u] = loaded[u] \/ loaded'[u] = stored \/ loaded'[u] = <<>>
      /\ \A u \in Threads : pc'[u] = "return" =>
             /\ loaded'[u] = loaded[u]
             /\ \/ pc[u] = "return" /\ record'[u] = record[u] /\ call'[u] = call[u]
                \/ /\ call'[u].op # "encrypt"
                   /\ record'[u] = loaded[u] /\ loaded[u] # <<>>
  BY QuietClean
<1>1. CASE \E c \in Calls : Call(t, c)
  BY <1>1, CallBase DEF Call, outputs, Base, Types
<1>2. CASE Enter(t)
  BY <1>2, EnterBase DEF Enter, outputs, Base, Types
<1>3. CASE load_sender_key(t)
  BY <1>3, LoadBase DEF load_sender_key, GoTo, outputs, Base, Types
<1>4. CASE EncryptStep(t) \/ DecryptStep(t) \/ ProcessStep(t) \/ CreateStep(t)
  <2>1. Base'
    BY <1>4, WorkBase, Zenon
  <2>2. ASSUME NEW new, Works(t, new, "store")
        PROVE  /\ UNCHANGED <<stored, sent, reused, announced>> /\ loaded' = loaded
               /\ \A u \in Threads : pc'[u] = "return" =>
                     pc[u] = "return" /\ record'[u] = record[u] /\ call'[u] = call[u]
    BY <2>2 DEF Works, GoTo, outputs, Base, Types
  <2>3. CASE Stores(t)
    BY <2>1, <2>2, <2>3, StoresWork, Zenon
  <2>4. CASE call[t].op = "create" /\ record[t] # <<>> /\ Works(t, record[t], "return")
    BY <2>1, <2>4 DEF Works, At, GoTo, outputs, Base, Types, Steps
  <2> QED BY <1>4, <2>3, <2>4, WorkCases, Zenon
<1> QED BY <1>1, <1>2, <1>3, <1>4

\* Every step keeps the invariant.
LEMMA NextInv ==
    ASSUME Inv, [Next]_vars
    PROVE  Inv'
<1>1. ASSUME NEW t \in Threads, \/ \E c \in Calls : Call(t, c)
                                \/ Enter(t) \/ load_sender_key(t)
                                \/ EncryptStep(t) \/ DecryptStep(t) \/ ProcessStep(t)
                                \/ CreateStep(t)
      PROVE  Inv'
  <2>1. lost' = lost
    BY <1>1, WorkCases, StoresWork, Zenon DEF Call, Enter, load_sender_key, Works
  <2> QED BY <1>1, <2>1, QuietSteps DEF Inv
<1>2. ASSUME NEW t \in Threads, store_sender_key(t) PROVE Inv'
  <2>1. lost' = "no" => lost = "no" /\ loaded[t] = stored
    BY <1>2 DEF store_sender_key
  <2> QED BY <1>2, <2>1, StoreBase, StoreFresh, StoreOneId DEF Inv, Clean
<1>3. ASSUME NEW t \in Threads, Return(t) \/ Refuse(t) \/ StoreFails(t) PROVE Inv'
  <2>1. lost' = lost
    BY <1>3 DEF Return, Refuse, StoreFails
  <2> QED BY <1>3, <2>1, ReturnInv, EndInv DEF Inv
<1>4. CASE Crash
  <2>1. lost' = lost /\ UNCHANGED <<stored, sent, reused, announced>>
        /\ \A u \in Threads : loaded'[u] = <<>> /\ pc'[u] # "return"
    BY <1>4 DEF Crash, outputs
  <2> QED BY <1>4, <2>1, CrashBase, QuietClean DEF Inv
<1>5. CASE UNCHANGED vars
  <2>1. lost' = lost /\ UNCHANGED <<stored, sent, reused, announced, given>>
        /\ UNCHANGED <<inside, call, pc, record, loaded>>
    BY <1>5 DEF vars, local, outputs
  <2>2. Base'
    BY <2>1 DEF Inv, Base, Types, Steps
  <2> QED BY <2>1, <2>2, QuietClean DEF Inv
<1> QED BY <1>1, <1>2, <1>3, <1>4, <1>5, Zenon DEF Next, Run

\* The invariant gives the property.
LEMMA InvHurts == Inv => OnlyLostUpdatesHurt
<1> SUFFICES ASSUME Inv, lost = "no" PROVE UniqueKeys /\ OneSenderKey
  BY DEF OnlyLostUpdatesHurt
<1>1. UniqueKeys
  BY DEF Inv, Clean, Fresh, UniqueKeys
<1>2. ASSUME NEW m \in Own, NEW n \in Own PROVE m.id = n.id
  <2>1. m.id \in Ids /\ n.id \in Ids
    BY IdsMembers, Zenon DEF Own
  <2> QED BY <2>1 DEF Inv, Clean, OneId
<1> QED BY <1>1, <1>2 DEF OneSenderKey

\* Whether the calls take a lock or not, a message key is used for two messages,
\* or a second own sender key announced, only after a lost update.
THEOREM OnlyLostUpdates == Spec => []OnlyLostUpdatesHurt
<1>1. Inv /\ [Next]_vars => Inv'
  BY NextInv
<1> QED BY <1>1, InitInv, InvHurts, PTL DEF Spec
-----------------------------------------------------------------------------
\* Under the lock one thread is inside, what it loaded is what is stored, and so
\* no update is lost.
Held ==
    /\ \A t, u \in inside : t = u
    /\ \A t \in Threads : pc[t] \in {"work", "store"} => loaded[t] = stored
    /\ lost = "no"

\* The store knows every message that was handed out, and the one that is about
\* to be, which was not handed out before.
Known ==
    /\ \A m \in given : Read(stored, m)
    /\ \A t \in Threads : pc[t] = "return" /\ call[t].op = "decrypt" =>
           Read(stored, call[t].m) /\ call[t].m \notin given
    /\ again = {}

LInv == Inv /\ Held /\ Known

\* Storing, and what it does to the record as it is stored.
LEMMA HeldStore ==
    ASSUME Inv, Held, NEW t \in Threads, store_sender_key(t)
    PROVE  /\ call[t] \in Calls /\ stored \in Records /\ Effect(call[t], stored, stored')
           /\ lost' = "no" /\ pc[t] = "store"
           /\ \A u \in Threads : pc[u] \notin {"none", "start"} => u = t
  BY DEF Inv, Base, Types, Steps, Held, store_sender_key, At

\* Every step of a call under the lock keeps Held.
LEMMA NextHeld ==
    ASSUME Locked, Inv, Held, [Next]_vars
    PROVE  Held'
<1> USE DEF Inv, Base, Types, Steps, Held
<1>1. ASSUME NEW t \in Threads, NEW c \in Calls, Call(t, c) PROVE Held'
  BY <1>1 DEF Call
<1>2. ASSUME NEW t \in Threads, Enter(t) PROVE Held'
  BY <1>2 DEF Enter
<1>3. ASSUME NEW t \in Threads, load_sender_key(t) PROVE Held'
  BY <1>3 DEF load_sender_key, At, GoTo
<1>4. ASSUME NEW t \in Threads, NEW new, NEW step, Works(t, new, step) PROVE Held'
  BY <1>4 DEF Works, At, GoTo
<1>5. ASSUME NEW t \in Threads, store_sender_key(t) PROVE Held'
  <2>1. lost' = "no"
    BY <1>5, HeldStore
  <2> QED BY <1>5, <2>1 DEF store_sender_key, At, GoTo
<1>6. ASSUME NEW t \in Threads, t \in inside, Leave(t), stored' = stored, lost' = lost
      PROVE  Held'
  BY <1>6 DEF Leave
<1>7. ASSUME NEW t \in Threads, Return(t) \/ Refuse(t) \/ StoreFails(t) PROVE Held'
  BY <1>6, <1>7, Zenon DEF Return, Refuse, StoreFails, At
<1>8. CASE Crash
  BY <1>8 DEF Crash
<1>9. CASE UNCHANGED vars
  BY <1>9 DEF vars, local
<1>10. ASSUME NEW t \in Threads,
              EncryptStep(t) \/ DecryptStep(t) \/ ProcessStep(t) \/ CreateStep(t)
       PROVE  Held'
  BY <1>4, <1>10, WorkCases, StoresWork, Zenon
<1> QED BY <1>1, <1>2, <1>3, <1>5, <1>7, <1>8, <1>9, <1>10, Zenon DEF Next, Run

\* Storing the effect of a call keeps what was read known, and adds the message
\* that was not known.
LEMMA StoreKnown ==
    ASSUME Inv, Held, Known, NEW t \in Threads, store_sender_key(t)
    PROVE  Known'
<1>0. /\ call[t] \in Calls /\ stored \in Records /\ Effect(call[t], stored, stored')
      /\ pc[t] = "store" /\ \A u \in Threads : pc[u] \notin {"none", "start"} => u = t
  BY HeldStore
<1>1. /\ \/ call[t].op = "process" \/ stored = <<>>
         \/ \A m \in Messages : Read(stored, m) => Read(stored', m)
      /\ call[t].op = "decrypt" => ~Read(stored, call[t].m) /\ Read(stored', call[t].m)
  BY <1>0, EffectReads
<1>2. \A u \in Threads : pc'[u] = "return" => u = t
  BY <1>0 DEF Inv, Base, Types, store_sender_key, GoTo
<1>3. call' = call
      /\ (call[t].op = "process" => given' = {} /\ again' = {})
      /\ (call[t].op # "process" => given' = given /\ again' = again)
  BY DEF store_sender_key
<1>4. stored = <<>> => given = {}
  <2>1. \A m \in Messages : ~Read(<<>>, m)
    <3>1. \A id : sender_key_state_for_keyid(<<>>, id) = 0
      <4>1. 1..Len(<<>>) = {}
        OBVIOUS
      <4> QED BY <4>1, Zenon DEF sender_key_state_for_keyid, first_place
    <3> QED BY <3>1, Zenon DEF Read, StateFor
  <2> QED BY <2>1 DEF Known, Inv, Base, Types
<1>5. given \subseteq Messages /\ \A m \in given : Read(stored, m)
  BY DEF Known, Inv, Base, Types
<1>6. \A m \in given' : Read(stored', m)
  BY <1>1, <1>3, <1>4, <1>5, Zenon
<1>7. again' = {}
  BY <1>3 DEF Known
<1>8. call[t].op = "decrypt" => Read(stored', call[t].m) /\ call[t].m \notin given'
  BY <1>1, <1>3, <1>5
<1>9. /\ \A m \in given' : Read(stored, m)'
      /\ call[t].op = "decrypt" => Read(stored, call[t].m)'
  BY <1>3, <1>6, <1>8, Zenon DEF Read, StateFor, Consumed
<1> QED BY <1>2, <1>3, <1>7, <1>8, <1>9, Zenon DEF Known

\* A step that leaves the store, what was handed out and the calls that are about
\* to return keeps it.
LEMMA QuietKnown ==
    ASSUME Known, UNCHANGED <<stored, given, again>>,
           \A u \in Threads : pc'[u] = "return" =>
               call'[u].op # "decrypt" \/ (pc[u] = "return" /\ call'[u] = call[u])
    PROVE  Known'
<1>1. \A m : Read(stored, m)' <=> Read(stored, m)
  BY Zenon DEF Read, StateFor
<1> QED BY <1>1, Zenon DEF Known

\* Every step under the lock keeps Known.
LEMMA NextKnown ==
    ASSUME Locked, Inv, Held, Known, [Next]_vars
    PROVE  Known'
<1>1. ASSUME NEW t \in Threads, NEW c \in Calls, Call(t, c) PROVE Known'
  <2>1. /\ UNCHANGED <<stored, given, again>>
        /\ \A u \in Threads : pc'[u] = "return" => pc[u] = "return" /\ call'[u] = call[u]
    BY <1>1 DEF Call, outputs, Inv, Base, Types
  <2> QED BY <2>1, QuietKnown
<1>2. ASSUME NEW t \in Threads, Enter(t) \/ load_sender_key(t) PROVE Known'
  <2>1. /\ UNCHANGED <<stored, given, again>>
        /\ \A u \in Threads : pc'[u] = "return" => pc[u] = "return" /\ call'[u] = call[u]
    BY <1>2 DEF Enter, load_sender_key, GoTo, outputs, Inv, Base, Types
  <2> QED BY <2>1, QuietKnown
<1>3. ASSUME NEW t \in Threads, NEW new, NEW step, Works(t, new, step),
             step = "store" \/ call[t].op = "create"
      PROVE  Known'
  <2>1. /\ UNCHANGED <<stored, given, again>>
        /\ \A u \in Threads : pc'[u] = "return" =>
             call'[u].op # "decrypt" \/ (pc[u] = "return" /\ call'[u] = call[u])
    BY <1>3 DEF Works, GoTo, outputs, Inv, Base, Types
  <2> QED BY <2>1, QuietKnown
<1>4. ASSUME NEW t \in Threads,
             EncryptStep(t) \/ DecryptStep(t) \/ ProcessStep(t) \/ CreateStep(t)
      PROVE  Known'
  BY <1>3, <1>4, WorkCases, StoresWork, Zenon
<1>5. ASSUME NEW t \in Threads, store_sender_key(t) PROVE Known'
  BY <1>5, StoreKnown
<1>6. ASSUME NEW t \in inside, Leave(t) PROVE \A u \in Threads : pc'[u] # "return"
  BY <1>6 DEF Leave, Inv, Base, Types, Steps, Held
<1>7. ASSUME NEW t \in Threads, Refuse(t) \/ StoreFails(t) PROVE Known'
  <2>1. t \in inside /\ Leave(t) /\ UNCHANGED <<stored, given, again>>
    BY <1>7 DEF Refuse, StoreFails, At, outputs
  <2> QED BY <1>6, <2>1, QuietKnown
<1>8. ASSUME NEW t \in Threads, Return(t) PROVE Known'
  <2>1. /\ t \in inside /\ Leave(t) /\ stored' = stored /\ pc[t] = "return"
        /\ call[t] \in Calls
    BY <1>8 DEF Return, At, Inv, Base, Steps
  <2>2. call[t].op \in {"encrypt", "decrypt", "process", "create"}
    BY <2>1, CallArguments
  <2>3. \/ UNCHANGED <<given, again>>
        \/ /\ call[t].op = "decrypt"
           /\ given' = given \cup {call[t].m}
           /\ again' = again \cup ({call[t].m} \cap given)
    BY <1>8, <2>2 DEF Return, outputs
  <2>4. CASE UNCHANGED <<given, again>>
    BY <1>6, <2>1, <2>4, QuietKnown
  <2>5. CASE /\ call[t].op = "decrypt"
             /\ given' = given \cup {call[t].m}
             /\ again' = again \cup ({call[t].m} \cap given)
    <3>1. Read(stored, call[t].m) /\ call[t].m \notin given
      BY <1>8, <2>1, <2>5 DEF Known
    <3>2. \A m \in given' : Read(stored, m)
      BY <2>5, <3>1 DEF Known
    <3>3. \A m : Read(stored, m)' <=> Read(stored, m)
      BY <2>1, Zenon DEF Read, StateFor
    <3>4. again' = {}
      BY <2>5, <3>1 DEF Known
    <3> QED BY <1>6, <2>1, <3>2, <3>3, <3>4, Zenon DEF Known
  <2> QED BY <2>3, <2>4, <2>5
<1>9. CASE Crash
  BY <1>9, QuietKnown DEF Crash, outputs
<1>10. CASE UNCHANGED vars
  BY <1>10, QuietKnown DEF vars, local, outputs
<1> QED BY <1>1, <1>2, <1>4, <1>5, <1>7, <1>8, <1>9, <1>10, Zenon DEF Next, Run

\* The invariant of the calls under the lock.
LEMMA LockedInv ==
    ASSUME Locked
    PROVE  (Init => LInv) /\ (LInv /\ [Next]_vars => LInv')
<1>1. Init => Held /\ Known
  BY DEF Init, Held, Known
<1> QED BY <1>1, InitInv, NextInv, NextHeld, NextKnown DEF LInv
\* The stored record changes by the whole effect of one call on it.
LEMMA StoredSteps ==
    ASSUME Inv, Held, [Next]_vars
    PROVE  stored' = stored \/ \E c \in Calls : Effect(c, stored, stored')
<1>1. ASSUME NEW t \in Threads, store_sender_key(t)
      PROVE  \E c \in Calls : Effect(c, stored, stored')
  BY <1>1, HeldStore, Zenon
<1>2. ASSUME NEW t \in Threads,
             EncryptStep(t) \/ DecryptStep(t) \/ ProcessStep(t) \/ CreateStep(t)
      PROVE  stored' = stored
  BY <1>2, WorkCases, StoresWork, Zenon DEF Works
<1>3. ASSUME NEW t \in Threads,
             \/ \E c \in Calls : Call(t, c)
             \/ Enter(t) \/ load_sender_key(t) \/ Return(t) \/ Refuse(t) \/ StoreFails(t)
      PROVE  stored' = stored
  BY <1>3, Zenon DEF Call, Enter, load_sender_key, Return, Refuse, StoreFails
<1>4. Crash \/ UNCHANGED vars => stored' = stored
  BY DEF Crash, vars
<1> QED BY <1>1, <1>2, <1>3, <1>4, Zenon DEF Next, Run

\* With GroupCipher.LOCK no two returned group messages are under the same key.
THEOREM GroupKeysAreUnique ==
    ASSUME Locked
    PROVE  Spec => []UniqueKeys
<1>1. LInv => UniqueKeys
  BY InvHurts DEF LInv, Held, OnlyLostUpdatesHurt
<1> QED BY <1>1, LockedInv, PTL DEF Spec

\* With the lock no group message is read twice unless an announcement was
\* processed in between, whatever fails or crashes.
THEOREM GroupTextsNeverRepeated ==
    ASSUME Locked
    PROVE  Spec => []AtMostOnce
<1>1. LInv => AtMostOnce
  BY DEF LInv, Known, AtMostOnce
<1> QED BY <1>1, LockedInv, PTL DEF Spec

\* With the lock a name that has a receiving state in front never sends again.
THEOREM ReceivingNamesStay ==
    ASSUME Locked
    PROVE  Spec => ReceivingStays
<1>1. LInv /\ [Next]_vars =>
        [stored # <<>> /\ stored[1].private = "no" => stored'[1].private = "no"]_vars
  <2> SUFFICES ASSUME LInv, [Next]_vars, stored # <<>>, stored[1].private = "no"
               PROVE  stored'[1].private = "no"
    OBVIOUS
  <2>1. stored' = stored \/ \E c \in Calls : Effect(c, stored, stored')
    BY StoredSteps DEF LInv
  <2>2. stored \in Records
    BY DEF LInv, Inv, Base, Types
  <2> QED BY <2>1, <2>2, EffectFront, Zenon
<1> QED BY <1>1, LockedInv, PTL DEF Spec, ReceivingStays

\* With GroupCipher.LOCK around group_encrypt, group_decrypt, process and create,
\* the stored sender key record changes only by the whole effect of one call on
\* the record as stored, whatever fails or crashes.
THEOREM LockedCallsAreAtomic ==
    ASSUME Locked
    PROVE  Spec => ImplementsAtomicGroupCalls
<1>1. Init => Atomic!Init
  BY DEF Init, Atomic!Init
<1>2. LInv /\ [Next]_vars => [Atomic!Next]_stored
  <2>1. ASSUME NEW c \in Calls, Effect(c, stored, stored') PROVE Atomic!Next
    BY <2>1, CallArguments, Zenon
    DEF Effect, Atomic!Next, Atomic!Encrypt, Atomic!Decrypt, Atomic!Process, Atomic!Create
  <2> QED BY <2>1, StoredSteps, Zenon DEF LInv
<1> QED
  BY LockedInv, <1>1, <1>2, PTL DEF Spec, ImplementsAtomicGroupCalls, Atomic!Spec
=============================================================================
