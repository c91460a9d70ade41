----------------------------- MODULE GroupCalls -----------------------------
(***************************************************************************)
(* Concurrent calls on one SenderKeyName.  The Java API takes              *)
(* GroupCipher.LOCK around each of the four operations (Locked); the Swift *)
(* API and the C bridge take no lock.  Each operation loads a copy of the  *)
(* record, works on it and stores it; a store call may fail, which ends    *)
(* the call, and the process may die, which leaves only the store.         *)
(***************************************************************************)
EXTENDS GroupEffects, FiniteSets

CONSTANTS Threads,
          Locked,         \* whether the calls take the lock
          MaxEncrypts,    \* bound: calls of group_encrypt
          MaxProcessed    \* bound: calls of process_sender_key_distribution_message

ASSUME GroupCallsAssumption ==
    Locked \in BOOLEAN /\ MaxEncrypts \in Nat /\ MaxProcessed \in Nat

VARIABLES inside,         \* the threads between entering and leaving a call
          call, pc,       \* each thread's call and the step it is at
          record,         \* the call's sender_key_record, a copy
          loaded,         \* what load_sender_key returned to the call
          stored,         \* the store's record for the name
          encrypts, processes,  \* calls so far
          sent, reused,   \* returned group messages, those returned twice
          announced,      \* returned distribution messages
          given, again,   \* messages read since the last announcement was
                          \* processed, those read twice since
          lost            \* whether a store overwrote what its call had not loaded

local == <<inside, call, pc, record, loaded>>
bounds == <<encrypts, processes>>
outputs == <<sent, reused, announced, given, again>>
vars == <<local, stored, bounds, outputs, lost>>

NoCall == [op |-> "none"]
Calls == [op : {"encrypt", "create"}] \cup [op : {"decrypt"}, m : Messages]
           \cup [op : {"process"}, skdm : Announcements]

\* Own messages and announcements exist once a call has returned them.
Arrived == {m \in Messages : m.id \in OwnIds => m \in sent}
Announced == {a \in Announcements : a.id \in OwnIds => a \in announced}

\* The ids of own keys that anything still refers to: a new one is none of them.
InUse == {m.id : m \in sent \cup announced}
           \cup UNION {{r[i].sender_key_id : i \in DOMAIN r} :
                         r \in {stored} \cup {record[t] : t \in Threads}
                                        \cup {loaded[t] : t \in Threads}}

Init == /\ inside = {}
        /\ call = [t \in Threads |-> NoCall]
        /\ pc = [t \in Threads |-> "none"]
        /\ record = [t \in Threads |-> <<>>]
        /\ loaded = [t \in Threads |-> <<>>]
        /\ stored = <<>>
        /\ encrypts = 0 /\ processes = 0
        /\ sent = {} /\ reused = {} /\ announced = {} /\ given = {} /\ again = {}
        /\ lost = "no"
-----------------------------------------------------------------------------
Call(t, c) ==
    /\ pc[t] = "none"
    /\ c.op = "decrypt" => c.m \in Arrived
    /\ c.op = "process" => c.skdm \in Announced
    /\ IF c.op = "encrypt" THEN encrypts < MaxEncrypts /\ encrypts' = encrypts + 1
                           ELSE UNCHANGED encrypts
    /\ IF c.op = "process" THEN processes < MaxProcessed /\ processes' = processes + 1
                           ELSE UNCHANGED processes
    /\ call' = [call EXCEPT ![t] = c]
    /\ pc' = [pc EXCEPT ![t] = "start"]
    /\ UNCHANGED <<inside, record, loaded, stored, outputs, lost>>

\* Mutant: the lock is not waited for.
Enter_NoLock(t) ==
    /\ pc[t] = "start"
    /\ inside' = inside \cup {t}
    /\ pc' = [pc EXCEPT ![t] = "load"]
    /\ UNCHANGED <<call, record, loaded, stored, bounds, outputs, lost>>

\* synchronized (LOCK) {, or nothing at all.
Enter(t) ==
    /\ pc[t] = "start"
    /\ Locked => inside = {}
    /\ inside' = inside \cup {t}
    /\ pc' = [pc EXCEPT ![t] = "load"]
    /\ UNCHANGED <<call, record, loaded, stored, bounds, outputs, lost>>

Leave(t) ==
    /\ inside' = inside \ {t}
    /\ call' = [call EXCEPT ![t] = NoCall]
    /\ pc' = [pc EXCEPT ![t] = "none"]
    /\ record' = [record EXCEPT ![t] = <<>>]
    /\ loaded' = [loaded EXCEPT ![t] = <<>>]

At(t, step) == t \in inside /\ pc[t] = step
GoTo(t, step) == pc' = [pc EXCEPT ![t] = step]

\* The store hands out a copy, and an empty record where it has none: a Java
\* store must, and what a nil of a Swift store does differs only in the error.
load_sender_key(t) ==
    /\ At(t, "load") /\ GoTo(t, "work")
    /\ record' = [record EXCEPT ![t] = stored]
    /\ loaded' = [loaded EXCEPT ![t] = stored]
    /\ UNCHANGED <<inside, call, stored, bounds, outputs, lost>>

\* The work between the two store calls, when it succeeds.
Works(t, new, step) ==
    /\ At(t, "work") /\ GoTo(t, step)
    /\ record' = [record EXCEPT ![t] = new]
    /\ UNCHANGED <<inside, call, loaded, stored, bounds, outputs, lost>>

\* Mutant: the message is returned before the record is stored.
EncryptStep_Unsaved(t) ==
    /\ call[t].op = "encrypt" /\ pc[t] = "work" /\ CanEncrypt(record[t])
    /\ Works(t, group_encrypt(record[t]), "return")

\* Mutant: the private signing key is not asked for.
EncryptStep_NoKey(t) ==
    /\ call[t].op = "encrypt" /\ pc[t] = "work" /\ record[t] # <<>>
    /\ Works(t, group_encrypt(record[t]), "store")

EncryptStep(t) ==
    /\ call[t].op = "encrypt" /\ pc[t] = "work" /\ CanEncrypt(record[t])
    /\ Works(t, group_encrypt(record[t]), "store")

DecryptStep(t) ==
    /\ call[t].op = "decrypt" /\ pc[t] = "work" /\ CanDecrypt(record[t], call[t].m)
    /\ Works(t, group_decrypt(record[t], call[t].m), "store")

ProcessStep(t) ==
    /\ call[t].op = "process" /\ pc[t] = "work"
    /\ Works(t, process_sender_key_distribution_message(record[t], call[t].skdm), "store")

\* With a key in the record there is nothing to store.
CreateStep(t) ==
    /\ call[t].op = "create" /\ pc[t] = "work"
    /\ \/ NeedsKey(record[t])
          /\ \E id \in OwnIds \ InUse : Works(t, create_sender_key(id), "store")
       \/ ~NeedsKey(record[t]) /\ Works(t, record[t], "return")

store_sender_key(t) ==
    /\ At(t, "store") /\ GoTo(t, "return")
    /\ stored' = record[t]
    /\ lost' = IF stored = loaded[t] THEN lost ELSE "yes"
    /\ given' = IF call[t].op = "process" THEN {} ELSE given
    /\ again' = IF call[t].op = "process" THEN {} ELSE again
    /\ UNCHANGED <<inside, call, record, loaded, bounds, sent, reused, announced>>

\* The call returns a message under the key it drew, a text, or an announcement
\* of the first state.
Return(t) ==
    LET key == Head1(loaded[t]) IN
    /\ At(t, "return")
    /\ CASE call[t].op = "encrypt" ->
              /\ sent' = sent \cup {key}
              /\ reused' = reused \cup ({key} \cap sent)
              /\ UNCHANGED <<announced, given, again>>
         [] call[t].op = "decrypt" ->
              /\ given' = given \cup {call[t].m}
              /\ again' = again \cup ({call[t].m} \cap given)
              /\ UNCHANGED <<sent, reused, announced>>
         [] call[t].op = "create" ->
              /\ announced' = announced \cup {Head1(record[t])}
              /\ UNCHANGED <<sent, reused, given, again>>
         [] OTHER -> UNCHANGED outputs
    /\ Leave(t)
    /\ UNCHANGED <<stored, bounds, lost>>

\* The operation cannot be done: nothing is stored.
Refuse(t) ==
    /\ At(t, "work") /\ error(call[t], record[t]) # "none"
    /\ Leave(t)
    /\ UNCHANGED <<stored, bounds, outputs, lost>>

\* A callback of the store throws, or returns an error code.
StoreFails(t) ==
    /\ t \in inside /\ pc[t] \in {"load", "store"}
    /\ Leave(t)
    /\ UNCHANGED <<stored, bounds, outputs, lost>>

Crash ==
    /\ inside # {}
    /\ inside' = {}
    /\ call' = [t \in Threads |-> NoCall]
    /\ pc' = [t \in Threads |-> "none"]
    /\ record' = [t \in Threads |-> <<>>]
    /\ loaded' = [t \in Threads |-> <<>>]
    /\ UNCHANGED <<stored, bounds, outputs, lost>>

Run(t) == \/ Enter(t) \/ load_sender_key(t)
          \/ EncryptStep(t) \/ DecryptStep(t) \/ ProcessStep(t) \/ CreateStep(t)
          \/ store_sender_key(t) \/ Return(t) \/ Refuse(t)

Next == \/ \E t \in Threads : \/ \E c \in Calls : Call(t, c)
                             \/ Run(t)
                             \/ StoreFails(t)
        \/ Crash

Spec == Init /\ [][Next]_vars
-----------------------------------------------------------------------------
\* No two returned group messages are under the same message key.
UniqueKeys == reused = {}

\* No message is read twice unless a distribution message was processed in
\* between, whatever failed or crashed.
AtMostOnce == again = {}

Own == {m \in sent \cup announced : m.id \in OwnIds}

\* All returned messages and own announcements are of one sender key: who got
\* any announcement can read what is sent, though two threads may both have
\* found the record empty.
OneSenderKey == \A m, n \in Own : m.id = n.id

\* A name with a state that can only receive in front never sends again: a
\* sender that processes its own announcement has lost its sending key.
ReceivingStays ==
    [][stored # <<>> /\ stored[1].private = "no" => stored'[1].private = "no"]_vars

\* Without a lock keys are reused, and two sender keys announced, only through a
\* lost update: a store_sender_key that overwrites a record its call did not load.
OnlyLostUpdatesHurt == lost = "no" => UniqueKeys /\ OneSenderKey

Atomic == INSTANCE AtomicGroupCalls

\* With the lock, every change of the stored record is the whole effect of one
\* call on the record as stored at that moment: the stored record is the same
\* variable in both specifications.
ImplementsAtomicGroupCalls == Atomic!Spec
=============================================================================
