---------------------------- MODULE SessionProofs ----------------------------
(***************************************************************************)
(* What is proved of Session, for any number of calls, sessions, chains    *)
(* and installations and any limits: no message key is used for two texts, *)
(* only the user replaces an identity key, and a message is handed over    *)
(* only from the identity on record.                                       *)
(*                                                                         *)
(* That no key is used twice is not inductive.  Two sending chains could   *)
(* have the same key, in two states of a record or with the two parties;   *)
(* a chain could fall behind a message that was sent with it; a new chain  *)
(* could get the key of an old one.  SessionInv rules these out: ApartInv, *)
(* AheadInv, and for the last MadeInv, by which every chain key ends in an *)
(* agreement of key pairs that were made, while the one of a new chain     *)
(* ends in an agreement with a key pair that was not.  All this holds of   *)
(* the sessions that have a receiving chain only: the one                  *)
(* initialize_bob_session builds has a sending chain that begins with the  *)
(* signed pre key and is replaced before anything is sent (TurnedInv).     *)
(***************************************************************************)
EXTENDS Session, SequenceTheorems, WellFoundedInduction, TLAPS

\* The values the model is made of: names of key pairs, agreements, root keys.
Kinds == {"identity", "signed", "one-time", "base", "first", "ratchet", "text"}
KeyPairs == Parties \X Kinds \X Nat \X Nat
Agreements == SUBSET KeyPairs
RootKeys == Seq(Agreements \cup Seq(Agreements))

\* Chains and sessions; an archived session has the same type as the current one.
SenderChains == [ratchet : KeyPairs, key : RootKeys, index : Nat]
ReceiverChains == [ratchet : KeyPairs, key : RootKeys, index : Nat, message_keys : Seq(Nat)]
Pendings == [pre_key_id : Nat, base_key : KeyPairs]
SessionStates ==
    [alice_base_key : KeyPairs, local_identity : KeyPairs, remote_identity : KeyPairs,
     root_key : RootKeys, sender : SenderChains, receivers : Seq(ReceiverChains),
     pending : Seq(Pendings)]
Records == {r \in [current : Seq(SessionStates), previous : Seq(SessionStates)] :
                Len(r.current) <= 1}

\* What a party stores, and what it sends.
Stores == [record : Records, known : Seq(KeyPairs), identity : KeyPairs, signed : KeyPairs,
           one_time : UNION {[ids -> KeyPairs] : ids \in SUBSET PreKeyIds}]

Macs == (RootKeys \X Nat) \X KeyPairs \X KeyPairs
Messages ==
    [to : Parties, text : KeyPairs, session : KeyPairs, ratchet : KeyPairs, counter : Nat,
     mac : Macs, pre_key : Seq([id : Seq(Nat), base_key : KeyPairs, identity : KeyPairs])]

\* The calls of a party, and the types of the variables the proofs need.
Counts == [budget : Budget, sessions : Nat, sent : Nat, received : Nat, archives : Nat,
           installs : Nat]

SessionTypes ==
    /\ store \in [Parties -> Stores]
    /\ network \subseteq Messages
    /\ calls \in [Parties -> Counts]

\* A key pair that was made, if it is one of the ratchet keys.
Made(c, k) ==
    /\ k[3] <= c[k[1]].installs
    /\ k[2] = "ratchet" /\ k[3] = c[k[1]].installs => k[4] < c[k[1]].received
    /\ k[2] = "first" /\ k[3] = c[k[1]].installs => k[4] < c[k[1]].sessions

\* A chain key whose last agreement is of two key pairs that were made.
Mixed(c, key) == key # <<>> /\ key[Len(key)] \in Agreements /\ \A k \in key[Len(key)] : Made(c, k)

\* A session that has read a message or was built from a bundle.
Turned(s) == s.receivers # <<>>

\* The sending chains of such sessions; no two of them have the same key.
Senders(states) == {states[i].sender : i \in {j \in 1..Len(states) : Turned(states[j])}}

\* No two such chains of a record have the same key.
Apart(states) ==
    \A i, j \in 1..Len(states) :
        Turned(states[i]) /\ Turned(states[j]) /\ states[i].sender.key = states[j].sender.key
            => i = j

\* The sending chains of a party.
Sending(p) == Senders(States(store[p].record))

\* A chain made of keys that were made.
Good(c, chain) == Made(c, chain.ratchet) /\ Mixed(c, chain.key)

\* Signed pre keys, sending chains and messages are made of such keys.
MadeInv ==
    /\ \A p \in Parties : Made(calls, store[p].signed)
    /\ \A p \in Parties : \A x \in Sending(p) : Good(calls, x)
    /\ \A m \in network : Made(calls, m.ratchet) /\ Mixed(calls, ChainOf(m))

\* The current session has a receiving chain.
TurnedInv ==
    \A p \in Parties : store[p].record.current # None => Turned(store[p].record.current[1])

\* Sending chains have different keys, within a record and between the parties.
ApartInv ==
    /\ \A p \in Parties : Apart(States(store[p].record))
    /\ \A p, q \in Parties : \A x \in Sending(p), y \in Sending(q) : x.key = y.key => p = q

\* A sending chain is ahead of every message sent with it.
AheadInv ==
    \A p \in Parties : \A x \in Sending(p), m \in network :
        ChainOf(m) = x.key => m.counter < x.index

\* The identity in a PreKeySignalMessage is the one its MAC is for.
SenderInv ==
    \A m \in network : m.pre_key # None => m.pre_key[1].identity = Sender(m)

\* The inductive invariant.
SessionInv ==
    /\ SessionTypes /\ MadeInv /\ TurnedInv /\ ApartInv /\ AheadInv /\ SenderInv /\ UniqueKeys
-----------------------------------------------------------------------------
\* The least of a non-empty set of numbers is in it.
LEMMA LeastIsIn ==
    ASSUME NEW I \in SUBSET Nat, I # {}
    PROVE  Min(I) \in I
<1> DEFINE R == OpToRel(<, Nat)
<1>1. \E x \in I : \A y \in I : ~(<<y, x>> \in R)
  <2> IsWellFoundedOn(R, Nat)
    BY NatLessThanWellFounded, Zenon
  <2> HIDE DEF R
  <2> QED BY WFMin, Zenon
<1>2. ASSUME NEW x \in I, NEW y \in I, ~(<<y, x>> \in R) PROVE x <= y
  BY <1>2 DEF OpToRel
<1>3. \E x \in I : \A y \in I : x <= y
  BY <1>1, <1>2, Zenon
<1> QED
  BY <1>3 DEF Min

\* remove closes up the place it takes out, in a sequence of anything.
LEMMA RemovedFrom ==
    ASSUME NEW T, NEW v \in Seq(T), NEW p \in 1..Len(v)
    PROVE  /\ remove(v, p) \in Seq(T)
           /\ Len(remove(v, p)) = Len(v) - 1
           /\ \A i \in 1..(Len(v) - 1) :
                 remove(v, p)[i] = IF i < p THEN v[i] ELSE v[i + 1]
<1> DEFINE a == SubSeq(v, 1, p - 1)
           b == SubSeq(v, p + 1, Len(v))
           c == a \o b
<1>1. a \in Seq(T) /\ Len(a) = p - 1 /\ \A i \in 1..(p - 1) : a[i] = v[i]
  OBVIOUS
<1>2. /\ b \in Seq(T) /\ Len(b) = Len(v) - p
      /\ \A i \in 1..(Len(v) - p) : b[i] = v[p + i]
  OBVIOUS
<1> HIDE DEF a, b
<1>3. /\ c \in Seq(T)
      /\ Len(c) = Len(a) + Len(b)
      /\ \A i \in 1..(Len(a) + Len(b)) :
            c[i] = IF i <= Len(a) THEN a[i] ELSE b[i - Len(a)]
  BY <1>1, <1>2, ConcatProperties, Zenon
<1> HIDE DEF c
<1>4. ASSUME NEW i \in 1..(Len(v) - 1)
      PROVE  c[i] = IF i < p THEN v[i] ELSE v[i + 1]
  <2>1. i \in 1..(Len(a) + Len(b)) /\ i \in Nat /\ p \in Nat /\ Len(v) \in Nat
    BY <1>1, <1>2
  <2>2. CASE i < p
    BY <1>1, <1>3, <2>1, <2>2
  <2>3. CASE ~(i < p)
    <3> DEFINE j == i - Len(a)
    <3>1. ~(i <= Len(a)) /\ j \in 1..(Len(v) - p) /\ p + j = i + 1
      BY <1>1, <2>1, <2>3
    <3>2. c[i] = b[j]
      BY <1>3, <2>1, <3>1
    <3> HIDE DEF j
    <3>3. b[j] = v[i + 1]
      BY <1>2, <3>1
    <3> QED BY <2>3, <3>2, <3>3
  <2> QED BY <2>2, <2>3
<1>5. Len(c) = Len(v) - 1
  BY <1>1, <1>2, <1>3
<1> QED BY <1>3, <1>4, <1>5, Zenon DEF remove, a, b, c

\* A chain that gave a key is still a chain, of the same key.
LEMMA KeyTaken ==
    ASSUME NEW ch \in ReceiverChains, NEW counter \in Nat,
           message_key_result(ch, counter) = "Ok"
    PROVE  get_or_create_message_key(ch, counter) \in ReceiverChains
<1> DEFINE keys == ch.message_keys
<1>1. keys \in Seq(Nat) /\ ch.index \in Nat
  BY DEF ReceiverChains
<1>2. CASE ch.index > counter
  <2>1. contains(keys, counter)
    BY <1>2 DEF message_key_result
  <2>2. position(keys, counter) \in 1..Len(keys)
    BY <1>1, <2>1 DEF contains, position
  <2>3. remove(keys, position(keys, counter)) \in Seq(Nat)
    BY <1>1, <2>2, RemovedFrom
  <2> QED BY <1>2, <2>3 DEF get_or_create_message_key, get_message_keys, ReceiverChains
<1>3. CASE ~(ch.index > counter)
  <2> DEFINE skip == Skipped(ch, counter)
             all == skip \o keys
             n == IF Len(all) <= MAX_MESSAGE_KEYS THEN Len(all) ELSE MAX_MESSAGE_KEYS
  <2>1. skip \in Seq(Nat)
    BY <1>1, <1>3 DEF Skipped
  <2> HIDE DEF skip, keys
  <2>2. all \in Seq(Nat)
    BY <1>1, <2>1
  <2> HIDE DEF all
  <2>3. n \in Nat /\ n <= Len(all)
    BY <2>2, ChainAssumption
  <2>4. SubSeq(all, 1, n) \in Seq(Nat)
    BY <2>2, <2>3
  <2>5. set_message_keys(ch, counter) \in Seq(Nat)
    BY <2>4 DEF set_message_keys, all, skip, keys
  <2> DEFINE one == counter + 1
  <2>6. one \in Nat /\ get_or_create_message_key(ch, counter) =
              [[ch EXCEPT !.index = one] EXCEPT !.message_keys = set_message_keys(ch, counter)]
    BY <1>3 DEF get_or_create_message_key, advance
  <2> HIDE DEF one
  <2> QED BY <2>5, <2>6 DEF ReceiverChains
<1> QED BY <1>2, <1>3
-----------------------------------------------------------------------------
\* A new sending chain of p: its key ends in the agreement of the peer's ratchet
\* key and the new one.
NewSender(s, theirs, fresh) ==
    [ratchet |-> fresh,
     key |-> Append(Append(s.root_key, {theirs, s.sender.ratchet}), {theirs, fresh}),
     index |-> 0]

\* A session with other chains, another root key or another pending pre key.
LEMMA StateWith ==
    ASSUME NEW s \in SessionStates
    PROVE  /\ \A root \in RootKeys :
                 LET t == [s EXCEPT !.root_key = root]
                 IN  /\ t \in SessionStates /\ t.alice_base_key = s.alice_base_key
                     /\ t.local_identity = s.local_identity
                     /\ t.remote_identity = s.remote_identity
                     /\ t.receivers = s.receivers /\ t.sender = s.sender
           /\ \A list \in Seq(ReceiverChains) :
                 LET t == [s EXCEPT !.receivers = list]
                 IN  /\ t \in SessionStates /\ t.alice_base_key = s.alice_base_key
                     /\ t.local_identity = s.local_identity
                     /\ t.remote_identity = s.remote_identity
                     /\ t.receivers = list /\ t.sender = s.sender
           /\ \A sender \in SenderChains :
                 LET t == [s EXCEPT !.sender = sender]
                 IN  /\ t \in SessionStates /\ t.alice_base_key = s.alice_base_key
                     /\ t.local_identity = s.local_identity
                     /\ t.remote_identity = s.remote_identity
                     /\ t.receivers = s.receivers /\ t.sender = sender
           /\ \A pending \in Seq(Pendings) :
                 LET t == [s EXCEPT !.pending = pending]
                 IN  /\ t \in SessionStates /\ t.alice_base_key = s.alice_base_key
                     /\ t.local_identity = s.local_identity
                     /\ t.remote_identity = s.remote_identity
                     /\ t.receivers = s.receivers /\ t.sender = s.sender
                     /\ t.pending = pending
  BY DEF SessionStates

\* get_or_create_chain_key: the chain is there, or the ratchet turns.
LEMMA ChainKey ==
    ASSUME NEW s \in SessionStates, NEW theirs \in KeyPairs, NEW fresh \in KeyPairs
    PROVE  LET r == get_or_create_chain_key(s, theirs, fresh)
           IN  /\ r \in SessionStates /\ Turned(r)
               /\ r.alice_base_key = s.alice_base_key
               /\ r.local_identity = s.local_identity /\ r.remote_identity = s.remote_identity
               /\ \/ Turned(s) /\ r.sender = s.sender
                  \/ r.sender = NewSender(s, theirs, fresh)
               /\ get_receiver_chain(r, theirs) \in 1..Len(r.receivers)
<1> DEFINE r == get_or_create_chain_key(s, theirs, fresh)
<1>1. \A t \in SessionStates :
         LET I == {i \in 1..Len(t.receivers) : t.receivers[i].ratchet = theirs}
         IN  /\ I = {} => get_receiver_chain(t, theirs) = 0
             /\ I # {} => get_receiver_chain(t, theirs) \in I
  <2> TAKE t \in SessionStates
  <2> DEFINE I == {i \in 1..Len(t.receivers) : t.receivers[i].ratchet = theirs}
  <2>1. get_receiver_chain(t, theirs) = IF I = {} THEN 0 ELSE Min(I)
    BY DEF get_receiver_chain, first_place
  <2>2. I \in SUBSET Nat
    BY DEF SessionStates
  <2> HIDE DEF I
  <2>3. I # {} => Min(I) \in I
    BY <2>2, LeastIsIn
  <2> QED BY <2>1, <2>3 DEF I
<1>2. CASE get_receiver_chain(s, theirs) # 0
  <2>1. r = s
    BY <1>2 DEF get_or_create_chain_key
  <2>2. get_receiver_chain(s, theirs) \in 1..Len(s.receivers)
    BY <1>1, <1>2
  <2>3. Turned(s)
    BY <2>2 DEF Turned, SessionStates
  <2> QED BY <2>1, <2>2, <2>3
<1>3. CASE get_receiver_chain(s, theirs) = 0
  <2> DEFINE receiving == create_chain(s.root_key, theirs, s.sender.ratchet)
             sending == create_chain(receiving, theirs, fresh)
             s1 == [s EXCEPT !.root_key = sending]
             new == NewReceiverChain(theirs, receiving)
             all == Append(s.receivers, new)
             cut == IF Len(all) > MAX_RECEIVER_CHAINS THEN Tail(all) ELSE all
  <2>1. receiving \in RootKeys /\ sending \in RootKeys
    BY DEF create_chain, calculate_agreement, RootKeys, Agreements, SessionStates, SenderChains
  <2>2. new \in ReceiverChains /\ new.ratchet = theirs
    BY <2>1 DEF NewReceiverChain, ReceiverChains
  <2>3. /\ s.receivers \in Seq(ReceiverChains)
        /\ all \in Seq(ReceiverChains) /\ Len(all) = Len(s.receivers) + 1 /\ all[Len(all)] = new
    BY <2>2 DEF SessionStates
  <2>4. /\ cut \in Seq(ReceiverChains) /\ Len(cut) > 0 /\ cut[Len(cut)] = new
    <3> HIDE DEF all, new
    <3>1. CASE Len(all) > MAX_RECEIVER_CHAINS
      <4>1. cut = Tail(all) /\ Len(all) > 1
        BY <2>3, <3>1, SessionStateAssumption
      <4> QED BY <2>3, <4>1
    <3> QED BY <2>3, <3>1
  <2> DEFINE s2 == [s1 EXCEPT !.receivers = cut]
             chain2 == [ratchet |-> fresh, key |-> sending, index |-> 0]
  <2>5. /\ s1.receivers = s.receivers
        /\ r = [s2 EXCEPT !.sender = chain2]
    BY <1>3 DEF get_or_create_chain_key, set_sender_chain, add_receiver_chain, SessionStates
  <2>6. sending = Append(Append(s.root_key, {theirs, s.sender.ratchet}), {theirs, fresh})
    BY DEF create_chain, calculate_agreement
  <2>7. /\ r \in SessionStates /\ r.receivers = cut
        /\ r.alice_base_key = s.alice_base_key
        /\ r.local_identity = s.local_identity /\ r.remote_identity = s.remote_identity
        /\ r.sender = [ratchet |-> fresh, key |-> sending, index |-> 0]
    <3> HIDE DEF sending, receiving, cut, all, new, r
    <3>1. chain2 \in SenderChains
      BY <2>1 DEF SenderChains
    <3>2. /\ s1 \in SessionStates /\ s1.alice_base_key = s.alice_base_key
          /\ s1.local_identity = s.local_identity /\ s1.remote_identity = s.remote_identity
      BY <2>1, StateWith
    <3> HIDE DEF s1
    <3>3. /\ s2 \in SessionStates /\ s2.alice_base_key = s.alice_base_key
          /\ s2.local_identity = s.local_identity /\ s2.remote_identity = s.remote_identity
          /\ s2.receivers = cut
      BY <2>4, <3>2, StateWith
    <3> HIDE DEF s2, chain2
    <3>4. /\ r \in SessionStates /\ r.receivers = cut
          /\ r.alice_base_key = s.alice_base_key
          /\ r.local_identity = s.local_identity /\ r.remote_identity = s.remote_identity
          /\ r.sender = chain2
      BY <2>5, <3>1, <3>3, StateWith
    <3> QED BY <3>4 DEF chain2
  <2> HIDE DEF sending, receiving, cut, all, new
  <2>8. Turned(r)
    BY <2>4, <2>7 DEF Turned
  <2>9. get_receiver_chain(r, theirs) \in 1..Len(r.receivers)
    <3>1. Len(cut) \in {i \in 1..Len(r.receivers) : r.receivers[i].ratchet = theirs}
      BY <2>2, <2>4, <2>7
    <3> HIDE DEF r
    <3> QED BY <1>1, <2>7, <3>1
  <2> QED BY <2>6, <2>7, <2>8, <2>9 DEF NewSender
<1> QED BY <1>2, <1>3

\* decrypt_message_with_state: the session that has read a message.
LEMMA StateReads ==
    ASSUME NEW s \in SessionStates, NEW m, m.ratchet \in KeyPairs, m.counter \in Nat,
           NEW fresh \in KeyPairs,
           decrypt_message_with_state(s, m, fresh).result = "Ok"
    PROVE  LET t == decrypt_message_with_state(s, m, fresh).state
           IN  /\ t \in SessionStates /\ Turned(t)
               /\ t.alice_base_key = s.alice_base_key
               /\ t.local_identity = s.local_identity /\ t.remote_identity = s.remote_identity
               /\ \/ Turned(s) /\ t.sender = s.sender
                  \/ t.sender = NewSender(s, m.ratchet, fresh)
               /\ \E key : m.mac = compute_mac(key, m.counter, s.remote_identity,
                                               s.local_identity)
<1> DEFINE r == get_or_create_chain_key(s, m.ratchet, fresh)
           place == get_receiver_chain(r, m.ratchet)
           ch == r.receivers[place]
           t == decrypt_message_with_state(s, m, fresh).state
           ch2 == get_or_create_message_key(ch, m.counter)
<1>1. /\ r \in SessionStates /\ Turned(r)
      /\ r.alice_base_key = s.alice_base_key
      /\ r.local_identity = s.local_identity /\ r.remote_identity = s.remote_identity
      /\ \/ Turned(s) /\ r.sender = s.sender
         \/ r.sender = NewSender(s, m.ratchet, fresh)
      /\ place \in 1..Len(r.receivers)
  BY ChainKey, Zenon
<1>2. /\ message_key_result(ch, m.counter) = "Ok"
      /\ verify_mac(m, ch.key, s.remote_identity, s.local_identity)
      /\ t = clear_unacknowledged_pre_key_message([r EXCEPT !.receivers[place] = ch2])
  BY Zenon DEF decrypt_message_with_state
<1> HIDE DEF r, place, t
<1>3. ch \in ReceiverChains /\ r.receivers \in Seq(ReceiverChains)
  BY <1>1 DEF SessionStates
<1>4. ch2 \in ReceiverChains
  BY <1>2, <1>3, KeyTaken
<1> HIDE DEF ch2, ch
<1> DEFINE list == [r.receivers EXCEPT ![place] = ch2]
<1>5. list \in Seq(ReceiverChains) /\ Len(list) = Len(r.receivers)
  BY <1>1, <1>3, <1>4
<1> DEFINE u == [r EXCEPT !.receivers = list]
<1>6. t = [u EXCEPT !.pending = <<>>]
  BY <1>2 DEF clear_unacknowledged_pre_key_message, None
<1>7. Len(list) > 0
  BY <1>1, <1>5
<1> HIDE DEF list
<1>8. /\ t \in SessionStates /\ t.receivers = list
      /\ t.alice_base_key = r.alice_base_key
      /\ t.local_identity = r.local_identity /\ t.remote_identity = r.remote_identity
      /\ t.sender = r.sender
  <2>1. /\ u \in SessionStates /\ u.receivers = list
        /\ u.alice_base_key = r.alice_base_key
        /\ u.local_identity = r.local_identity /\ u.remote_identity = r.remote_identity
        /\ u.sender = r.sender
    BY <1>1, <1>5, StateWith
  <2> HIDE DEF u
  <2>2. <<>> \in Seq(Pendings)
    OBVIOUS
  <2> QED BY <1>6, <2>1, <2>2, StateWith
<1>9. Turned(t)
  BY <1>5, <1>7, <1>8 DEF Turned
<1> QED BY <1>1, <1>2, <1>8, <1>9 DEF verify_mac, t
-----------------------------------------------------------------------------
\* The states of a record after the one at the place "at" has moved to the
\* front as s, or s was put there (at behind the end); the last may be gone.
Origin(at, i) == IF i <= at THEN i - 1 ELSE i

Moved(old, new, at, s) ==
    /\ Len(new) > 0 /\ new[1] = s
    /\ \A i \in 2..Len(new) :
          Origin(at, i) \in 1..Len(old) /\ new[i] = old[Origin(at, i)]

\* The states are the current one, if there is one, and then the archived ones.
LEMMA RecordParts ==
    ASSUME NEW r \in Records
    PROVE  /\ r.current \in Seq(SessionStates) /\ r.previous \in Seq(SessionStates)
           /\ Len(r.current) \in Nat /\ Len(r.previous) \in Nat
           /\ r.current # None => Len(r.current) = 1
<1>1. r.current \in Seq(SessionStates) /\ r.previous \in Seq(SessionStates) /\ Len(r.current) <= 1
  BY DEF Records
<1>2. r.current # <<>> => Len(r.current) \in Nat \ {0}
  BY <1>1, EmptySeq
<1>3. Len(r.current) \in Nat /\ Len(r.previous) \in Nat
  <2> ASSUME NEW x \in Seq(SessionStates) PROVE Len(x) \in Nat
    OBVIOUS
  <2> QED BY <1>1
<1>4. ASSUME r.current # <<>> PROVE Len(r.current) = 1
  <2> DEFINE n == Len(r.current)
  <2>1. n \in Nat \ {0} /\ n <= 1
    BY <1>1, <1>2, <1>4
  <2> HIDE DEF n
  <2>2. n = 1
    BY <2>1
  <2> QED BY <2>2 DEF n
<1> QED BY <1>1, <1>3, <1>4 DEF None

\* The states of a record are sessions.
LEMMA StatesOf ==
    ASSUME NEW r \in Records
    PROVE  /\ States(r) \in Seq(SessionStates) /\ Len(States(r)) \in Nat
           /\ Len(States(r)) = Len(r.current) + Len(r.previous)
           /\ \A i \in 1..Len(States(r)) : States(r)[i] \in SessionStates
<1> DEFINE c == r.current
           v == r.previous
<1>1. c \in Seq(SessionStates) /\ v \in Seq(SessionStates)
  BY RecordParts
<1> HIDE DEF c, v
<1>2. c \o v \in Seq(SessionStates) /\ Len(c \o v) = Len(c) + Len(v)
  BY <1>1, ConcatProperties, Zenon
<1> DEFINE all == c \o v
<1>3. all \in Seq(SessionStates)
  BY <1>2
<1> HIDE DEF all
<1>4. Len(all) \in Nat /\ \A i \in 1..Len(all) : all[i] \in SessionStates
  BY <1>3
<1> QED BY <1>2, <1>4 DEF States, all, c, v

\* Without a current session the archived ones are all there is.
LEMMA NoCurrent ==
    ASSUME NEW r \in Records, r.current = None
    PROVE  States(r) = r.previous
  BY RecordParts DEF States, None

\* The current session is the first.
LEMMA Current ==
    ASSUME NEW r \in Records, r.current # None
    PROVE  /\ Len(States(r)) = Len(r.previous) + 1
           /\ States(r)[1] = r.current[1]
           /\ \A i \in 2..Len(States(r)) : States(r)[i] = r.previous[i - 1]
<1> DEFINE c == r.current
           v == r.previous
           all == c \o v
<1>1. c \in Seq(SessionStates) /\ v \in Seq(SessionStates) /\ Len(c) = 1 /\ Len(v) \in Nat
  BY RecordParts
<1> HIDE DEF c, v
<1>2. /\ Len(all) = Len(c) + Len(v)
      /\ \A i \in 1..(Len(c) + Len(v)) : all[i] = IF i <= Len(c) THEN c[i] ELSE v[i - Len(c)]
  BY <1>1, ConcatProperties, Zenon
<1> HIDE DEF all
<1>3. all[1] = c[1] /\ \A i \in 2..Len(all) : all[i] = v[i - 1]
  BY <1>1, <1>2
<1>4. Len(all) = Len(v) + 1
  BY <1>1, <1>2
<1>5. States(r) = all
  BY DEF States, all, c, v
<1> QED BY <1>3, <1>4, <1>5 DEF c, v

\* A record with another current state or other archived ones.
LEMMA RecordWith ==
    ASSUME NEW r \in Records
    PROVE  /\ \A s \in SessionStates :
                 LET a == [r EXCEPT !.current = Some(s)]
                 IN  /\ a \in Records /\ a.current = Some(s) /\ a.previous = r.previous
                     /\ a.current # None /\ a.current[1] = s
           /\ \A v \in Seq(SessionStates) :
                 LET a == [r EXCEPT !.previous = v]
                 IN  a \in Records /\ a.current = r.current /\ a.previous = v
<1>1. ASSUME NEW s \in SessionStates
      PROVE  /\ Some(s) \in Seq(SessionStates) /\ Len(Some(s)) = 1
             /\ Some(s) # None /\ Some(s)[1] = s
  BY DEF Some, None
<1>2. /\ r \in [current : Seq(SessionStates), previous : Seq(SessionStates)]
      /\ Len(r.current) <= 1
  BY DEF Records
<1>3. ASSUME NEW s \in SessionStates, NEW x \in Seq(SessionStates), Len(x) = 1
      PROVE  LET a == [r EXCEPT !.current = x]
             IN  a \in Records /\ a.current = x /\ a.previous = r.previous
  <2> DEFINE a == [r EXCEPT !.current = x]
  <2>1. /\ a \in [current : Seq(SessionStates), previous : Seq(SessionStates)]
        /\ a.current = x /\ a.previous = r.previous
    BY <1>2
  <2> HIDE DEF a
  <2>2. a \in Records
    <3>1. Len(a.current) <= 1
      BY <1>3, <2>1
    <3> QED BY <2>1, <3>1 DEF Records
  <2> QED BY <2>1, <2>2 DEF a
<1>4. ASSUME NEW v \in Seq(SessionStates)
      PROVE  LET a == [r EXCEPT !.previous = v]
             IN  a \in Records /\ a.current = r.current /\ a.previous = v
  <2> DEFINE a == [r EXCEPT !.previous = v]
  <2>1. /\ a \in [current : Seq(SessionStates), previous : Seq(SessionStates)]
        /\ a.current = r.current /\ a.previous = v
    BY <1>2
  <2> HIDE DEF a
  <2>2. a \in Records
    BY <1>2, <2>1 DEF Records
  <2> QED BY <2>1, <2>2 DEF a
<1> QED BY <1>1, <1>3, <1>4, Zenon

\* archive_current_state: nothing is current; the last state may be gone.
LEMMA Archived ==
    ASSUME NEW r \in Records
    PROVE  LET a == archive_current_state(r)
           IN  /\ a \in Records /\ a.current = None /\ States(a) = a.previous
               /\ Len(States(a)) <= Len(States(r))
               /\ \A i \in 1..Len(States(a)) : States(a)[i] = States(r)[i]
<1> DEFINE a == archive_current_state(r)
           all == States(r)
<1>1. all \in Seq(SessionStates)
  BY StatesOf
<1>2. CASE r.current = None
  <2>1. a = r
    BY <1>2 DEF archive_current_state
  <2>2. States(r) = r.previous
    BY <1>2, NoCurrent
  <2> QED BY <1>1, <1>2, <2>1, <2>2
<1>3. CASE r.current # None
  <2>1. a = [current |-> None,
             previous |-> IF Len(all) > ARCHIVED_STATES_MAX_LENGTH
                          THEN SubSeq(all, 1, Len(all) - 1) ELSE all]
    BY <1>3 DEF archive_current_state, States
  <2> HIDE DEF all
  <2>2. Len(all) \in Nat /\ (Len(all) > ARCHIVED_STATES_MAX_LENGTH => Len(all) > 0)
    BY <1>1, SessionRecordAssumption
  <2>3. Len(all) > 0 => /\ SubSeq(all, 1, Len(all) - 1) \in Seq(SessionStates)
                        /\ Len(SubSeq(all, 1, Len(all) - 1)) = Len(all) - 1
                        /\ \A i \in 1..(Len(all) - 1) : SubSeq(all, 1, Len(all) - 1)[i] = all[i]
    <3> SUFFICES ASSUME Len(all) > 0 PROVE <2>3!2
      OBVIOUS
    <3> DEFINE n == Len(all) - 1
    <3>1. n \in 0..Len(all) /\ 1 \in 1..(Len(all) + 1) /\ n \in (1 - 1)..Len(all)
      BY <2>2
    <3> HIDE DEF n
    <3>2. /\ SubSeq(all, 1, n) \in Seq(SessionStates) /\ Len(SubSeq(all, 1, n)) = n
          /\ \A i \in 1..n : SubSeq(all, 1, n)[i] = all[i]
      BY <1>1, <2>2, <3>1
    <3> QED BY <3>2 DEF n
  <2>4. /\ a.current = None /\ a.previous \in Seq(SessionStates)
        /\ Len(a.previous) <= Len(all)
        /\ \A i \in 1..Len(a.previous) : a.previous[i] = all[i]
    BY <1>1, <2>1, <2>2, <2>3
  <2>5. a \in Records
    BY <2>1, <2>4 DEF Records, None
  <2>6. States(a) = a.previous
    BY <2>4, <2>5, NoCurrent
  <2> QED BY <2>4, <2>5, <2>6 DEF all
<1> QED BY <1>2, <1>3

\* promote_state: s is current, what was current is the first of the archived.
LEMMA Promoted ==
    ASSUME NEW r \in Records, NEW s \in SessionStates
    PROVE  LET a == promote_state(r, s)
           IN  /\ a \in Records /\ a.current = Some(s)
               /\ Moved(States(r), States(a), Len(States(r)) + 1, s)
<1> DEFINE b == archive_current_state(r)
           a == promote_state(r, s)
<1>1. /\ b \in Records /\ States(b) = b.previous /\ Len(States(b)) <= Len(States(r))
      /\ \A i \in 1..Len(States(b)) : States(b)[i] = States(r)[i]
  BY Archived
<1>2. a = [b EXCEPT !.current = Some(s)]
  BY DEF promote_state
<1> HIDE DEF b
<1>3. /\ a \in Records /\ a.current = Some(s) /\ a.previous = b.previous
      /\ a.current # None /\ a.current[1] = s
  BY <1>1, <1>2, RecordWith
<1> HIDE DEF a
<1>4. /\ Len(States(a)) = Len(States(b)) + 1 /\ States(a)[1] = s
      /\ \A i \in 2..Len(States(a)) : States(a)[i] = States(b)[i - 1]
  <2> QED BY <1>1, <1>3, Current
<1>5. ASSUME NEW i \in 2..Len(States(a))
      PROVE  /\ Origin(Len(States(r)) + 1, i) = i - 1 /\ i - 1 \in 1..Len(States(r))
             /\ States(a)[i] = States(r)[i - 1]
  <2>1. Len(States(b)) \in Nat /\ Len(States(r)) \in Nat
    BY <1>1, StatesOf
  <2>2. i - 1 \in 1..Len(States(b))
    BY <1>4, <2>1
  <2> QED BY <1>1, <1>4, <2>1, <2>2 DEF Origin
<1>6. Len(States(a)) > 0
  BY <1>1, <1>4, StatesOf
<1> QED BY <1>3, <1>4, <1>5, <1>6 DEF Moved, a
\* promote_old_session: the archived state at the place is taken out, and s is
\* current in its stead.
LEMMA PromotedOld ==
    ASSUME NEW r \in Records, r.current # None, NEW s \in SessionStates,
           NEW at \in 2..Len(States(r))
    PROVE  LET a == promote_old_session(r, at - 1, s)
           IN  /\ a \in Records /\ a.current = Some(s)
               /\ Moved(States(r), States(a), at, s)
<1> DEFINE old == r.previous
           place == at - 1
           gone == remove(old, place)
           b == [r EXCEPT !.previous = gone]
           a == promote_old_session(r, place, s)
           S == States(r)
           T == States(b)
           N == States(a)
<1>1. /\ old \in Seq(SessionStates) /\ Len(S) = 1 + Len(old) /\ Len(old) \in Nat
      /\ S[1] = r.current[1] /\ \A i \in 2..Len(S) : S[i] = old[i - 1]
  BY RecordParts, Current
<1>2. place \in 1..Len(old) /\ at = place + 1
  BY <1>1
<1>3. /\ gone \in Seq(SessionStates) /\ Len(gone) = Len(old) - 1
      /\ \A i \in 1..(Len(old) - 1) : gone[i] = IF i < place THEN old[i] ELSE old[i + 1]
  <2> HIDE DEF old, place
  <2> QED BY <1>1, <1>2, RemovedFrom
<1> HIDE DEF gone
<1>4. b \in Records /\ b.current = r.current /\ b.previous = gone
  BY <1>3, RecordWith
<1>5. a = promote_state(b, s)
  BY DEF promote_old_session, gone
<1> HIDE DEF b
<1>6. a \in Records /\ a.current = Some(s) /\ Moved(T, N, Len(T) + 1, s)
  BY <1>4, <1>5, Promoted
<1>7. /\ Len(T) = Len(old) /\ T[1] = S[1]
      /\ \A i \in 2..Len(T) : T[i] = gone[i - 1]
  <2>1. b.current # None
    BY <1>4
  <2> QED BY <1>1, <1>3, <1>4, <2>1, Current
<1> HIDE DEF a, S, T, old
<1>8. ASSUME NEW i \in 2..Len(N)
      PROVE  Origin(at, i) \in 1..Len(S) /\ N[i] = S[Origin(at, i)]
  <2>1. Len(N) \in Nat
    BY <1>6, StatesOf
  <2>2. i - 1 \in 1..Len(T) /\ N[i] = T[i - 1]
    BY <1>6, <2>1 DEF Moved, Origin
  <2>3. CASE i = 2
    BY <1>1, <1>2, <1>7, <2>2, <2>3 DEF Origin
  <2>4. CASE i # 2
    <3> DEFINE j == i - 2
    <3>1. /\ j \in 1..(Len(old) - 1) /\ i - 1 \in 2..Len(T) /\ (i - 1) - 1 = j
          /\ i \in 2..Len(S) /\ i - 1 \in 2..Len(S) /\ j + 1 = i - 1
      BY <1>1, <1>7, <2>1, <2>2, <2>4
    <3>2. N[i] = gone[j]
      BY <1>7, <2>2, <3>1
    <3>3. S[i - 1] = old[j] /\ S[i] = old[j + 1]
      BY <1>1, <3>1
    <3> HIDE DEF j
    <3>4. gone[j] = IF j < place THEN old[j] ELSE old[j + 1]
      BY <1>3, <3>1
    <3>5. j < place <=> i <= at
      BY <1>2, <3>1, <2>1 DEF j
    <3> QED BY <3>1, <3>2, <3>3, <3>4, <3>5 DEF Origin
  <2> QED BY <2>3, <2>4
<1> QED BY <1>6, <1>8 DEF Moved, S, a

\* decrypt_message_with_record: one state reads the message and becomes the
\* current one.
LEMMA RecordReads ==
    ASSUME NEW r \in Records, NEW m, m.ratchet \in KeyPairs, m.counter \in Nat,
           NEW fresh \in KeyPairs,
           decrypt_message_with_record(r, m, fresh).result = "Ok"
    PROVE  LET a == decrypt_message_with_record(r, m, fresh).record
           IN  \E at \in 1..Len(States(r)) :
                 LET t == decrypt_message_with_state(States(r)[at], m, fresh)
                 IN  /\ t.result = "Ok" /\ t.state \in SessionStates
                     /\ a \in Records /\ a.current = Some(t.state)
                     /\ Moved(States(r), States(a), at, t.state)
<1> DEFINE S == States(r)
           tried == [i \in DOMAIN S |-> decrypt_message_with_state(S[i], m, fresh)]
           I == {i \in 1..Len(tried) : tried[i].result \in {"Ok", "DuplicatedMessage"}}
           at == IF I = {} THEN 0 ELSE Min(I)
           t == tried[at]
           a == decrypt_message_with_record(r, m, fresh).record
<1>1. S \in Seq(SessionStates) /\ DOMAIN S = 1..Len(S) /\ Len(S) \in Nat
  <2>1. S \in Seq(SessionStates) /\ Len(S) \in Nat
    BY StatesOf
  <2> HIDE DEF S
  <2> QED BY <2>1
<1>2. tried = [i \in 1..Len(S) |-> decrypt_message_with_state(S[i], m, fresh)] /\ Len(tried) = Len(S)
  BY <1>1
<1>3. first_place(tried, LAMBDA x : x.result \in {"Ok", "DuplicatedMessage"}) = at
  BY Zenon DEF first_place
<1>4. /\ r.current # None /\ at # 0 /\ t.result = "Ok"
      /\ a = IF at = 1 THEN [r EXCEPT !.current = Some(t.state)]
             ELSE promote_old_session(r, at - 1, t.state)
  <2> HIDE DEF at
  <2> QED BY <1>3, SMTT(30) DEF decrypt_message_with_record
<1>5. at \in 1..Len(S)
  <2>1. I \in SUBSET Nat /\ I # {} /\ at = Min(I)
    <3>1. 1..Len(tried) \subseteq Nat
      OBVIOUS
    <3>2. I \subseteq 1..Len(tried)
      OBVIOUS
    <3> QED BY <1>4, <3>1, <3>2, Zenon
  <2> HIDE DEF I, at
  <2>2. at \in I
    BY <2>1, LeastIsIn
  <2> QED BY <1>2, <2>2 DEF I
<1>6. t = decrypt_message_with_state(S[at], m, fresh) /\ S[at] \in SessionStates
  <2> HIDE DEF at, tried, S
  <2>1. tried[at] = decrypt_message_with_state(S[at], m, fresh)
    BY <1>2, <1>5, Zenon
  <2> QED BY <1>1, <1>5, <2>1
<1> HIDE DEF at, tried, I, t, a
<1>7. t.state \in SessionStates
  BY <1>4, <1>6, StateReads
<1>8. CASE at = 1
  <2>1. a = [r EXCEPT !.current = Some(t.state)]
    BY <1>4, <1>8
  <2>2. /\ a \in Records /\ a.current = Some(t.state) /\ a.previous = r.previous
        /\ a.current # None /\ a.current[1] = t.state
    BY <1>7, <2>1, RecordWith
  <2>4. /\ Len(States(a)) = 1 + Len(a.previous) /\ Len(S) = 1 + Len(a.previous)
        /\ States(a)[1] = t.state /\ Len(a.previous) \in Nat
        /\ \A i \in 2..Len(States(a)) : States(a)[i] = a.previous[i - 1]
        /\ \A i \in 2..Len(S) : S[i] = a.previous[i - 1]
    <3>1. Len(a.previous) \in Nat
      BY <2>2, RecordParts
    <3>2. /\ Len(States(a)) = Len(a.previous) + 1 /\ States(a)[1] = t.state
          /\ \A i \in 2..Len(States(a)) : States(a)[i] = a.previous[i - 1]
      BY <2>2, Current
    <3>3. Len(S) = Len(r.previous) + 1 /\ \A i \in 2..Len(S) : S[i] = r.previous[i - 1]
      BY <1>4, Current
    <3> QED BY <2>2, <3>1, <3>2, <3>3
  <2>5. Moved(S, States(a), at, t.state)
    <3> HIDE DEF S
    <3> QED BY <1>8, <2>4 DEF Moved, Origin
  <2> QED BY <1>4, <1>5, <1>6, <1>7, <2>2, <2>5 DEF a
<1>9. CASE at # 1
  <2>1. at \in 2..Len(S) /\ a = promote_old_session(r, at - 1, t.state)
    BY <1>1, <1>4, <1>5, <1>9
  <2>2. a \in Records /\ a.current = Some(t.state) /\ Moved(S, States(a), at, t.state)
    BY <1>4, <1>7, <2>1, PromotedOld
  <2> QED BY <1>4, <1>5, <1>6, <1>7, <2>2 DEF a
<1> QED BY <1>8, <1>9
-----------------------------------------------------------------------------
\* A key pair that is not made yet takes part in the last agreement.
Unheard(c, key) == \E k \in key[Len(key)] : ~Made(c, k)

\* Keys that were made stay made.
LEMMA StaysMade ==
    ASSUME NEW c \in [Parties -> Counts], NEW p \in Parties, NEW x \in Counts,
           \/ /\ x.installs = c[p].installs
              /\ x.received >= c[p].received /\ x.sessions >= c[p].sessions
           \/ x.installs > c[p].installs
    PROVE  \A k \in KeyPairs : Made(c, k) => Made([c EXCEPT ![p] = x], k)
<1> DEFINE d == [c EXCEPT ![p] = x]
<1> SUFFICES ASSUME NEW k \in KeyPairs, Made(c, k) PROVE Made(d, k)
  OBVIOUS
<1>1. k[1] \in Parties /\ k[3] \in Nat /\ k[4] \in Nat
  BY DEF KeyPairs
<1>2. d[k[1]] = IF k[1] = p THEN x ELSE c[k[1]]
  BY <1>1
<1>3. /\ x.installs \in Nat /\ x.received \in Nat /\ x.sessions \in Nat
      /\ c[p].installs \in Nat /\ c[p].received \in Nat /\ c[p].sessions \in Nat
  BY DEF Counts
<1> HIDE DEF d
<1> QED BY <1>1, <1>2, <1>3 DEF Made

\* Chain keys of keys that were made stay so.
LEMMA StaysMixed ==
    ASSUME NEW c, NEW d, \A k \in KeyPairs : Made(c, k) => Made(d, k),
           NEW key, Mixed(c, key)
    PROVE  Mixed(d, key)
  BY DEF Mixed, Agreements

\* Sending chains of a record.
LEMMA SenderTypes ==
    ASSUME NEW r \in Records
    PROVE  Senders(States(r)) \subseteq SenderChains
<1>1. \A i \in 1..Len(States(r)) : States(r)[i] \in SessionStates
  BY StatesOf
<1>2. \A s \in SessionStates : s.sender \in SenderChains
  BY DEF SessionStates
<1> QED BY <1>1, <1>2 DEF Senders

\* A step of p that sends nothing: every sending chain is one that p had, or its
\* key is one that nobody has heard of.
LEMMA QuietStep ==
    ASSUME SessionInv, NEW p \in Parties, NEW st \in Stores,
           store' = [store EXCEPT ![p] = st], network' = network,
           calls' \in [Parties -> Counts],
           \A k \in KeyPairs : Made(calls, k) => Made(calls', k),
           Made(calls', st.signed),
           st.record.current # None => Turned(st.record.current[1]),
           Apart(States(st.record)),
           \A x \in Senders(States(st.record)) :
               x \in Sending(p) \/ (Unheard(calls, x.key) /\ Good(calls', x))
    PROVE  SessionInv'
<1>1. /\ store \in [Parties -> Stores] /\ store' \in [Parties -> Stores]
      /\ store'[p] = st /\ \A q \in Parties : q # p => store'[q] = store[q]
  BY DEF SessionInv, SessionTypes
<1>2. SessionTypes'
  BY <1>1 DEF SessionInv, SessionTypes
<1>3. /\ Sending(p)' = Senders(States(st.record))
      /\ \A q \in Parties : q # p => Sending(q)' = Sending(q)
  BY <1>1 DEF Sending
<1>4. \A q \in Parties : \A x \in Sending(q)' :
         x \in Sending(q) \/ (q = p /\ Unheard(calls, x.key) /\ Good(calls', x))
  BY <1>3
<1>5. \A q \in Parties : \A x \in Sending(q) : Good(calls, x) /\ ~Unheard(calls, x.key)
  BY DEF SessionInv, MadeInv, Good, Mixed, Unheard
<1>6. \A m \in network : Mixed(calls, ChainOf(m)) /\ ~Unheard(calls, ChainOf(m))
  BY DEF SessionInv, MadeInv, Mixed, Unheard
<1>7. MadeInv'
  <2>1. \A q \in Parties : Made(calls', store'[q].signed)
    <3>1. \A q \in Parties : store[q].signed \in KeyPairs /\ Made(calls, store[q].signed)
      BY DEF SessionInv, SessionTypes, Stores, MadeInv
    <3> QED BY <1>1, <3>1
  <2>2. ASSUME NEW q \in Parties, NEW x \in Sending(q)' PROVE Good(calls', x)
    <3>1. CASE x \in Sending(q)
      <4>1. x.ratchet \in KeyPairs
        <5>1. store[q].record \in Records
          BY DEF SessionInv, SessionTypes, Stores
        <5> QED BY <3>1, <5>1, SenderTypes DEF Sending, SenderChains
      <4> QED BY <1>5, <3>1, <4>1, StaysMixed DEF Good
    <3> QED BY <1>4, <2>2, <3>1
  <2>3. \A m \in network' : Made(calls', m.ratchet) /\ Mixed(calls', ChainOf(m))
    <3>1. \A m \in network : m.ratchet \in KeyPairs /\ Made(calls, m.ratchet)
      BY DEF SessionInv, SessionTypes, Messages, MadeInv
    <3> QED BY <1>6, <3>1, StaysMixed
  <2> QED BY <2>1, <2>2, <2>3 DEF MadeInv
<1>8. TurnedInv'
  BY <1>1 DEF SessionInv, TurnedInv
<1>9. ApartInv'
  <2>1. \A q \in Parties : Apart(States(store'[q].record))
    BY <1>1 DEF SessionInv, ApartInv
  <2>2. ASSUME NEW q \in Parties, NEW r \in Parties, NEW x \in Sending(q)', NEW y \in Sending(r)',
               x.key = y.key
        PROVE  q = r
    BY <1>4, <1>5, <2>2 DEF SessionInv, ApartInv, Unheard
  <2> QED BY <2>1, <2>2 DEF ApartInv
<1>10. AheadInv'
  <2>1. ASSUME NEW q \in Parties, NEW x \in Sending(q)', NEW m \in network', ChainOf(m) = x.key
        PROVE  m.counter < x.index
    BY <1>4, <1>6, <2>1 DEF SessionInv, AheadInv
  <2> QED BY <2>1 DEF AheadInv
<1> QED BY <1>2, <1>7, <1>8, <1>9, <1>10 DEF SessionInv, SenderInv, UniqueKeys
-----------------------------------------------------------------------------
\* A state moves to the front, or a new one is put there.
LEMMA MovedSenders ==
    ASSUME NEW old \in Seq(SessionStates), NEW new \in Seq(SessionStates),
           NEW at \in 1..(Len(old) + 1), NEW s, Moved(old, new, at, s), Apart(old),
           \/ ~Turned(s)
           \/ at <= Len(old) /\ Turned(old[at]) /\ s.sender = old[at].sender
           \/ \A x \in Senders(old) : x.key # s.sender.key
    PROVE  /\ Apart(new)
           /\ \A x \in Senders(new) : x \in Senders(old) \/ (Turned(s) /\ x = s.sender)
<1> DEFINE from(i) == Origin(at, i)
<1>1. Len(old) \in Nat /\ Len(new) \in Nat
  OBVIOUS
<1>2. ASSUME NEW i \in 2..Len(new)
      PROVE  from(i) \in 1..Len(old) /\ from(i) # at /\ new[i] = old[from(i)]
  BY <1>1 DEF Moved, Origin
<1>3. ASSUME NEW i \in 2..Len(new), NEW j \in 2..Len(new), from(i) = from(j)
      PROVE  i = j
  BY <1>1, <1>3 DEF Origin
<1>4. new[1] = s /\ \A i \in 1..Len(new) : i = 1 \/ i \in 2..Len(new)
  BY <1>1 DEF Moved
<1> HIDE DEF from
<1>5. \A i \in 1..Len(old) : Turned(old[i]) => old[i].sender \in Senders(old)
  BY DEF Senders
<1>6. ASSUME NEW i \in 2..Len(new), Turned(new[i]), Turned(s), new[i].sender.key = s.sender.key
      PROVE  FALSE
  <2>1. from(i) \in 1..Len(old) /\ from(i) # at /\ new[i] = old[from(i)]
    BY <1>2
  <2>2. CASE at <= Len(old) /\ Turned(old[at]) /\ s.sender = old[at].sender
    <3>1. at \in 1..Len(old)
      BY <1>1, <2>2
    <3> QED BY <1>6, <2>1, <2>2, <3>1 DEF Apart
  <2> QED BY <1>5, <1>6, <2>1, <2>2
<1>7. Apart(new)
  <2> SUFFICES ASSUME NEW i \in 1..Len(new), NEW j \in 1..Len(new), Turned(new[i]), Turned(new[j]),
                      new[i].sender.key = new[j].sender.key
               PROVE  i = j
    BY DEF Apart
  <2>1. CASE i \in 2..Len(new) /\ j \in 2..Len(new)
    <3>1. from(i) = from(j)
      BY <1>2, <2>1 DEF Apart
    <3> QED BY <1>3, <2>1, <3>1
  <2> QED BY <1>4, <1>6, <2>1
<1>8. ASSUME NEW x \in Senders(new) PROVE x \in Senders(old) \/ (Turned(s) /\ x = s.sender)
  <2>1. PICK i \in 1..Len(new) : Turned(new[i]) /\ x = new[i].sender
    BY DEF Senders
  <2> QED BY <1>2, <1>4, <1>5, <2>1
<1> QED BY <1>7, <1>8

\* The last state is dropped, or none.
LEMMA CutSenders ==
    ASSUME NEW old \in Seq(SessionStates), NEW new \in Seq(SessionStates),
           Len(new) <= Len(old), \A i \in 1..Len(new) : new[i] = old[i], Apart(old)
    PROVE  Apart(new) /\ Senders(new) \subseteq Senders(old)
<1>1. \A i \in 1..Len(new) : i \in 1..Len(old) /\ new[i] = old[i]
  OBVIOUS
<1>2. Apart(new)
  BY <1>1 DEF Apart
<1>3. Senders(new) \subseteq Senders(old)
  BY <1>1 DEF Senders
<1> QED BY <1>2, <1>3

\* A key that ends in an agreement.
LEMMA EndsIn ==
    ASSUME NEW key \in RootKeys, NEW last \in Agreements
    PROVE  LET k == Append(key, last)
           IN  k \in RootKeys /\ k # <<>> /\ k[Len(k)] = last
  BY DEF RootKeys

\* What is left of a record of which one state has read a message.
AfterReading(r, m, fresh, a) ==
    /\ a \in Records /\ a.current # None /\ Turned(a.current[1])
    /\ Apart(States(a))
    /\ \A x \in Senders(States(a)) :
          \/ x \in Senders(States(r))
          \/ /\ x.ratchet = fresh /\ x.key # <<>>
             /\ x.key[Len(x.key)] = {m.ratchet, fresh}
    /\ \E key : m.mac = compute_mac(key, m.counter, a.current[1].remote_identity,
                                    a.current[1].local_identity)

\* decrypt_message_with_record leaves a record like that.
LEMMA ReadSenders ==
    ASSUME NEW r \in Records, NEW m, m.ratchet \in KeyPairs, m.counter \in Nat,
           NEW fresh \in KeyPairs, NEW c, ~Made(c, fresh), Apart(States(r)),
           \A x \in Senders(States(r)) : Mixed(c, x.key),
           decrypt_message_with_record(r, m, fresh).result = "Ok"
    PROVE  AfterReading(r, m, fresh, decrypt_message_with_record(r, m, fresh).record)
<1> DEFINE a == decrypt_message_with_record(r, m, fresh).record
           S == States(r)
<1>1. PICK at \in 1..Len(S) :
         LET t == decrypt_message_with_state(S[at], m, fresh)
         IN  /\ t.result = "Ok" /\ t.state \in SessionStates
             /\ a \in Records /\ a.current = Some(t.state)
             /\ Moved(S, States(a), at, t.state)
  BY RecordReads
<1> DEFINE s == S[at]
           t == decrypt_message_with_state(s, m, fresh).state
<1>2. S \in Seq(SessionStates) /\ Len(S) \in Nat /\ s \in SessionStates
  BY StatesOf
<1>3. /\ t \in SessionStates /\ Turned(t)
      /\ t.local_identity = s.local_identity /\ t.remote_identity = s.remote_identity
      /\ \/ Turned(s) /\ t.sender = s.sender
         \/ t.sender = NewSender(s, m.ratchet, fresh)
      /\ \E key : m.mac = compute_mac(key, m.counter, s.remote_identity, s.local_identity)
  <2>1. decrypt_message_with_state(s, m, fresh).result = "Ok" /\ s \in SessionStates
    BY <1>1, <1>2
  <2> HIDE DEF s
  <2> QED BY <2>1, StateReads, SMTT(30)
<1>4. a \in Records /\ a.current = Some(t) /\ Moved(S, States(a), at, t)
  BY <1>1
<1>5. States(a) \in Seq(SessionStates)
  BY <1>4, StatesOf
<1>6. a.current # None /\ a.current[1] = t
  BY <1>4 DEF Some, None
<1>7. t.sender = NewSender(s, m.ratchet, fresh) =>
         /\ t.sender.ratchet = fresh /\ t.sender.key # <<>>
         /\ t.sender.key[Len(t.sender.key)] = {m.ratchet, fresh}
  <2> DEFINE root == Append(s.root_key, {m.ratchet, s.sender.ratchet})
  <2>1. s.root_key \in RootKeys /\ s.sender.ratchet \in KeyPairs
    BY <1>2 DEF SessionStates, SenderChains
  <2>2. {m.ratchet, s.sender.ratchet} \in Agreements /\ {m.ratchet, fresh} \in Agreements
    BY <2>1 DEF Agreements
  <2>3. root \in RootKeys
    BY <2>1, <2>2, EndsIn
  <2> HIDE DEF root
  <2>4. LET k == Append(root, {m.ratchet, fresh}) IN k # <<>> /\ k[Len(k)] = {m.ratchet, fresh}
    BY <2>2, <2>3, EndsIn
  <2> QED BY <2>4 DEF NewSender, root
<1> HIDE DEF t, a, s
<1>8. \/ at <= Len(S) /\ Turned(S[at]) /\ t.sender = S[at].sender
      \/ \A x \in Senders(S) : x.key # t.sender.key
  <2>1. CASE Turned(s) /\ t.sender = s.sender
    BY <1>2, <2>1 DEF s
  <2>2. CASE t.sender = NewSender(s, m.ratchet, fresh)
    BY <1>7, <2>2 DEF Mixed
  <2> QED BY <1>3, <2>1, <2>2
<1> HIDE DEF S
<1>9. /\ Apart(States(a))
      /\ \A x \in Senders(States(a)) : x \in Senders(S) \/ x = t.sender
  <2>1. at \in 1..(Len(S) + 1) /\ Apart(S)
    BY <1>2 DEF S
  <2> QED BY <1>2, <1>4, <1>5, <1>8, <2>1, MovedSenders
<1>10. ASSUME NEW x \in Senders(States(a))
       PROVE  \/ x \in Senders(S)
              \/ x.ratchet = fresh /\ x.key # <<>> /\ x.key[Len(x.key)] = {m.ratchet, fresh}
  <2>1. CASE Turned(s) /\ t.sender = s.sender
    <3>1. t.sender \in Senders(S)
      BY <1>2, <2>1 DEF Senders, s
    <3> QED BY <1>9, <3>1
  <2> QED BY <1>3, <1>7, <1>9, <2>1
<1> QED BY <1>3, <1>4, <1>6, <1>9, <1>10 DEF a, S, AfterReading
-----------------------------------------------------------------------------
\* The stores of a party with another record, known identity or pre keys.
LEMMA StoreWith ==
    ASSUME NEW st \in Stores
    PROVE  /\ st.record \in Records /\ st.signed \in KeyPairs /\ st.identity \in KeyPairs
           /\ \A k \in KeyPairs :
                 LET new == save_identity(st, k)
                 IN  /\ new \in Stores /\ new.record = st.record /\ new.signed = st.signed
                     /\ new.known = Some(k)
           /\ \A r \in Records :
                 LET new == [st EXCEPT !.record = r]
                 IN  /\ new \in Stores /\ new.record = r /\ new.signed = st.signed
                     /\ new.known = st.known
           /\ \A keys \in UNION {[ids -> KeyPairs] : ids \in SUBSET PreKeyIds} :
                 LET new == [st EXCEPT !.one_time = keys]
                 IN  /\ new \in Stores /\ new.record = st.record /\ new.signed = st.signed
                     /\ new.known = st.known
<1>1. \A k \in KeyPairs : Some(k) \in Seq(KeyPairs)
  BY DEF Some
<1> HIDE DEF KeyPairs
<1> DEFINE OneTimes == UNION {[ids -> KeyPairs] : ids \in SUBSET PreKeyIds}
<1>2. st \in [record : Records, known : Seq(KeyPairs), identity : KeyPairs, signed : KeyPairs,
              one_time : OneTimes]
  BY DEF Stores
<1>3. Stores = [record : Records, known : Seq(KeyPairs), identity : KeyPairs, signed : KeyPairs,
              one_time : OneTimes]
  BY DEF Stores
<1> HIDE DEF OneTimes
<1>4. st.record \in Records /\ st.signed \in KeyPairs /\ st.identity \in KeyPairs
  BY <1>2
<1>5. ASSUME NEW k \in KeyPairs
      PROVE LET new == save_identity(st, k)
            IN  /\ new \in Stores /\ new.record = st.record /\ new.signed = st.signed
                /\ new.known = Some(k)
  BY <1>1, <1>2, <1>3 DEF save_identity
<1>6. ASSUME NEW r \in Records
      PROVE LET new == [st EXCEPT !.record = r]
            IN  /\ new \in Stores /\ new.record = r /\ new.signed = st.signed
                /\ new.known = st.known
  BY <1>2, <1>3
<1>7. ASSUME NEW keys \in OneTimes
      PROVE LET new == [st EXCEPT !.one_time = keys]
            IN  /\ new \in Stores /\ new.record = st.record /\ new.signed = st.signed
                /\ new.known = st.known
  BY <1>2, <1>3
<1> QED BY <1>4, <1>5, <1>6, <1>7, Zenon DEF OneTimes

\* The first root key of a session: three agreements, or four.
LEMMA FirstRoot ==
    ASSUME NEW x \in Agreements, NEW y \in Agreements, NEW z \in Agreements,
           NEW more, more = <<>> \/ \E w \in Agreements : more = <<w>>
    PROVE  derive_keys(<<x, y, z>> \o more) \in RootKeys
<1> DEFINE three == <<x, y, z>>
<1>1. three \in Seq(Agreements) /\ more \in Seq(Agreements)
  <2>1. three \in Seq(Agreements)
    OBVIOUS
  <2>2. ASSUME NEW w \in Agreements PROVE <<w>> \in Seq(Agreements)
    OBVIOUS
  <2>3. <<>> \in Seq(Agreements)
    OBVIOUS
  <2> QED BY <2>1, <2>2, <2>3, Zenon
<1> HIDE DEF three
<1>2. three \o more \in Seq(Agreements)
  BY <1>1, ConcatProperties, Zenon
<1> DEFINE all == three \o more
<1>3. all \in Agreements \cup Seq(Agreements)
  BY <1>2
<1> HIDE DEF all
<1>4. <<all>> \in RootKeys
  BY <1>3 DEF RootKeys
<1> QED BY <1>4 DEF derive_keys, all, three

\* A session before any chain is set.
LEMMA PlainSession ==
    ASSUME NEW local \in KeyPairs, NEW remote \in KeyPairs, NEW root \in RootKeys,
           NEW base \in KeyPairs
    PROVE  LET s == NewSession(local, remote, root, base)
           IN  s \in SessionStates /\ s.receivers = <<>>
<1>1. [ratchet |-> base, key |-> root, index |-> 0] \in SenderChains
  BY DEF SenderChains
<1>2. <<>> \in Seq(ReceiverChains) /\ <<>> \in Seq(Pendings)
  OBVIOUS
<1> HIDE DEF KeyPairs, RootKeys, SenderChains
<1> QED BY <1>1, <1>2 DEF NewSession, SessionStates, None

\* The session process_prekey_bundle builds.
BundleSession(identity, base, ratchet, b) ==
    set_unacknowledged_pre_key_message(
        initialize_alice_session(identity, base, ratchet, b), b.id, base)

\* What a bundle holds.
BundleTypes(b) ==
    /\ b.identity \in KeyPairs /\ b.signed \in KeyPairs
    /\ b.one_time = None \/ \E k \in KeyPairs : b.one_time = Some(k)
    /\ b.id = None \/ \E n \in Nat : b.id = Some(n)

\* initialize_alice_session: a session that can be sent with.
LEMMA AliceBegins ==
    ASSUME NEW identity \in KeyPairs, NEW base \in KeyPairs, NEW ratchet \in KeyPairs,
           NEW b, BundleTypes(b)
    PROVE  LET s == BundleSession(identity, base, ratchet, b)
           IN  /\ s \in SessionStates /\ Turned(s) /\ s.sender.ratchet = ratchet
               /\ s.sender.key # <<>> /\ s.sender.key[Len(s.sender.key)] = {b.signed, ratchet}
<1> DEFINE root == derive_keys(AliceSecrets(identity, base, b.identity, b.signed, b.one_time))
           sending == create_chain(root, b.signed, ratchet)
           plain == NewSession(identity, b.identity, sending, base)
           chain == NewReceiverChain(b.signed, root)
           all == Append(plain.receivers, chain)
           list == IF Len(all) > MAX_RECEIVER_CHAINS THEN Tail(all) ELSE all
           s1 == [plain EXCEPT !.receivers = list]
           sender == [ratchet |-> ratchet, key |-> sending, index |-> 0]
           s2 == [s1 EXCEPT !.sender = sender]
           pending == Some([pre_key_id |-> IF b.id = None THEN 0 ELSE b.id[1], base_key |-> base])
           s3 == [s2 EXCEPT !.pending = pending]
<1>0. /\ b.identity \in KeyPairs /\ b.signed \in KeyPairs
      /\ b.one_time = None \/ \E k \in KeyPairs : b.one_time = Some(k)
      /\ b.id = None \/ \E n \in Nat : b.id = Some(n)
  BY DEF BundleTypes
<1>1. root \in RootKeys
  <2>1. /\ {b.signed, identity} \in Agreements /\ {b.identity, base} \in Agreements
        /\ {b.signed, base} \in Agreements
        /\ b.one_time # <<>> => {b.one_time[1], base} \in Agreements
    BY <1>0 DEF Agreements, Some, None
  <2> DEFINE more == IF b.one_time = <<>> THEN <<>> ELSE <<{b.one_time[1], base}>>
  <2>2. more = <<>> \/ \E w \in Agreements : more = <<w>>
    BY <2>1, Zenon
  <2>3. root = derive_keys(<<{b.signed, identity}, {b.identity, base}, {b.signed, base}>> \o more)
    BY Zenon DEF AliceSecrets, calculate_agreement, None
  <2> HIDE DEF more, root
  <2> QED BY <2>1, <2>2, <2>3, FirstRoot, Zenon
<1> HIDE DEF root
<1>2. /\ sending \in RootKeys /\ sending # <<>>
      /\ sending[Len(sending)] = {b.signed, ratchet}
  <2>1. {b.signed, ratchet} \in Agreements
    BY <1>0 DEF Agreements
  <2> QED BY <1>1, <2>1, EndsIn DEF create_chain, calculate_agreement
<1> HIDE DEF sending
<1>3. plain \in SessionStates /\ plain.receivers = <<>>
  BY <1>0, <1>2, PlainSession
<1> HIDE DEF plain
<1>4. chain \in ReceiverChains
  BY <1>0, <1>1 DEF NewReceiverChain, ReceiverChains
<1> HIDE DEF chain
<1>5. list = <<chain>>
  BY <1>3, SessionStateAssumption
<1> HIDE DEF list
<1>6. list \in Seq(ReceiverChains) /\ list # <<>>
  <2>1. ASSUME NEW c \in ReceiverChains PROVE <<c>> \in Seq(ReceiverChains) /\ <<c>> # <<>>
    OBVIOUS
  <2> QED BY <1>4, <1>5, <2>1, Zenon
<1>7. s1 \in SessionStates /\ s1.receivers = list
  BY <1>3, <1>6, StateWith
<1> HIDE DEF s1
<1>8. sender \in SenderChains
  BY <1>2 DEF SenderChains
<1>9. s2 \in SessionStates /\ s2.receivers = list /\ s2.sender = sender
  <2> HIDE DEF sender
  <2> QED BY <1>7, <1>8, StateWith
<1> HIDE DEF s2
<1>10. pending \in Seq(Pendings)
  BY <1>0 DEF Pendings, Some, None
<1>11. s3 \in SessionStates /\ s3.receivers = list /\ s3.sender = sender
  <2> HIDE DEF sender, pending
  <2> QED BY <1>9, <1>10, StateWith
<1>12. BundleSession(identity, base, ratchet, b) = s3
  BY DEF BundleSession, set_unacknowledged_pre_key_message, initialize_alice_session, set_sender_chain,
         add_receiver_chain, s3, s2, s1, plain, list, chain, sending, root
<1> HIDE DEF s3
<1> QED BY <1>2, <1>6, <1>11, <1>12 DEF Turned

\* initialize_bob_session: nothing was read yet.
LEMMA BobBegins ==
    ASSUME NEW identity \in KeyPairs, NEW signed \in KeyPairs,
           NEW one_time, one_time = None \/ \E k \in KeyPairs : one_time = Some(k),
           NEW theirs \in KeyPairs, NEW base \in KeyPairs
    PROVE  LET s == initialize_bob_session(identity, signed, one_time, theirs, base)
           IN  s \in SessionStates /\ ~Turned(s)
<1> DEFINE root == derive_keys(BobSecrets(identity, signed, one_time, theirs, base))
           plain == NewSession(identity, theirs, root, base)
           sender == [ratchet |-> signed, key |-> root, index |-> 0]
<1>1. root \in RootKeys
  <2>1. /\ {theirs, signed} \in Agreements /\ {base, identity} \in Agreements
        /\ {base, signed} \in Agreements
        /\ one_time # <<>> => {base, one_time[1]} \in Agreements
    BY DEF Agreements, Some, None
  <2> DEFINE more == IF one_time = <<>> THEN <<>> ELSE <<{base, one_time[1]}>>
  <2>2. more = <<>> \/ \E w \in Agreements : more = <<w>>
    BY <2>1, Zenon
  <2>3. root = derive_keys(<<{theirs, signed}, {base, identity}, {base, signed}>> \o more)
    BY Zenon DEF BobSecrets, calculate_agreement, None
  <2> HIDE DEF more, root
  <2> QED BY <2>1, <2>2, <2>3, FirstRoot, Zenon
<1> HIDE DEF root
<1>2. plain \in SessionStates /\ plain.receivers = <<>>
  BY <1>1, PlainSession
<1> HIDE DEF plain
<1>3. sender \in SenderChains
  BY <1>1 DEF SenderChains
<1> HIDE DEF sender
<1>4. LET s == [plain EXCEPT !.sender = sender] IN s \in SessionStates /\ s.receivers = <<>>
  BY <1>2, <1>3, StateWith
<1> QED BY <1>4 DEF initialize_bob_session, set_sender_chain, Turned, plain, root, sender
-----------------------------------------------------------------------------
\* The other party is one.
LEMMA PeerIsAnother ==
    ASSUME NEW p \in Parties
    PROVE  Peer(p) \in Parties /\ Peer(p) # p
<1>1. \E q \in Parties : q # p
  BY SessionAssumption
<1> QED BY <1>1, Zenon DEF Peer

\* What the invariant says of one party.
LEMMA Known ==
    ASSUME SessionInv, NEW p \in Parties
    PROVE  /\ store[p] \in Stores /\ calls \in [Parties -> Counts] /\ calls[p] \in Counts
           /\ store[p].record \in Records /\ States(store[p].record) \in Seq(SessionStates)
           /\ Made(calls, store[p].signed) /\ store[p].signed \in KeyPairs
           /\ store[p].identity \in KeyPairs
           /\ Apart(States(store[p].record)) /\ Sending(p) = Senders(States(store[p].record))
           /\ \A x \in Sending(p) : Mixed(calls, x.key)
           /\ store[p].record.current # None => Turned(store[p].record.current[1])
<1>1. store[p] \in Stores /\ calls \in [Parties -> Counts] /\ calls[p] \in Counts
  BY DEF SessionInv, SessionTypes
<1>2. store[p].record \in Records /\ store[p].signed \in KeyPairs /\ store[p].identity \in KeyPairs
  BY <1>1, StoreWith
<1>3. States(store[p].record) \in Seq(SessionStates)
  BY <1>2, StatesOf
<1>4. Made(calls, store[p].signed) /\ \A x \in Sending(p) : Mixed(calls, x.key)
  BY DEF SessionInv, MadeInv, Good
<1>5. Apart(States(store[p].record)) /\ Sending(p) = Senders(States(store[p].record))
  BY DEF SessionInv, ApartInv, Sending
<1>6. store[p].record.current # None => Turned(store[p].record.current[1])
  BY DEF SessionInv, TurnedInv
<1> QED BY <1>1, <1>2, <1>3, <1>4, <1>5, <1>6

\* One more call is counted: the keys that were made stay made, and the next
\* key of the kind that is counted is among them.
LEMMA OneMore ==
    ASSUME NEW c \in [Parties -> Counts], NEW p \in Parties
    PROVE  /\ LET d == [c EXCEPT ![p].received = @ + 1]
                  k == <<p, "ratchet", c[p].installs, c[p].received>>
              IN  /\ d \in [Parties -> Counts] /\ \A l \in KeyPairs : Made(c, l) => Made(d, l)
                  /\ k \in KeyPairs /\ ~Made(c, k) /\ Made(d, k)
           /\ LET d == [c EXCEPT ![p].sessions = @ + 1]
                  k == <<p, "first", c[p].installs, c[p].sessions>>
              IN  /\ d \in [Parties -> Counts] /\ \A l \in KeyPairs : Made(c, l) => Made(d, l)
                  /\ k \in KeyPairs /\ ~Made(c, k) /\ Made(d, k)
           /\ LET d == [c EXCEPT ![p].sent = @ + 1]
              IN  d \in [Parties -> Counts] /\ \A l \in KeyPairs : Made(c, l) => Made(d, l)
           /\ LET d == [c EXCEPT ![p].archives = @ + 1]
              IN  d \in [Parties -> Counts] /\ \A l \in KeyPairs : Made(c, l) => Made(d, l)
<1> DEFINE x == c[p]
           later(y) == [c EXCEPT ![p] = y]
<1>1. /\ x \in Counts /\ x.received \in Nat /\ x.sessions \in Nat /\ x.sent \in Nat
      /\ x.archives \in Nat /\ x.installs \in Nat
  BY DEF Counts
<1>2. ASSUME NEW y \in Counts, y.installs = x.installs, y.received >= x.received,
             y.sessions >= x.sessions
      PROVE  /\ later(y) \in [Parties -> Counts] /\ later(y)[p] = y
             /\ \A l \in KeyPairs : Made(c, l) => Made(later(y), l)
  BY <1>2, StaysMade
<1>3. LET y == [x EXCEPT !.received = @ + 1]
      IN  /\ y \in Counts /\ y.installs = x.installs /\ y.received = x.received + 1
          /\ y.sessions = x.sessions
  BY <1>1 DEF Counts
<1>4. LET y == [x EXCEPT !.sessions = @ + 1]
      IN  /\ y \in Counts /\ y.installs = x.installs /\ y.received = x.received
          /\ y.sessions = x.sessions + 1
  BY <1>1 DEF Counts
<1>5. LET y == [x EXCEPT !.sent = @ + 1]
      IN  /\ y \in Counts /\ y.installs = x.installs /\ y.received = x.received
          /\ y.sessions = x.sessions
  BY <1>1 DEF Counts
<1>6. LET y == [x EXCEPT !.archives = @ + 1]
      IN  /\ y \in Counts /\ y.installs = x.installs /\ y.received = x.received
          /\ y.sessions = x.sessions
  BY <1>1 DEF Counts
<1> HIDE DEF x
<1>7. LET d == later([x EXCEPT !.received = @ + 1])
          k == <<p, "ratchet", x.installs, x.received>>
      IN  /\ d \in [Parties -> Counts] /\ \A l \in KeyPairs : Made(c, l) => Made(d, l)
          /\ k \in KeyPairs /\ ~Made(c, k) /\ Made(d, k)
  <2> DEFINE y == [x EXCEPT !.received = @ + 1]
             k == <<p, "ratchet", x.installs, x.received>>
             d == later(y)
  <2>0. /\ y \in Counts /\ y.installs = x.installs /\ y.received = x.received + 1
        /\ y.sessions = x.sessions
    BY <1>3
  <2> HIDE DEF y
  <2>5. y.received >= x.received /\ y.sessions >= x.sessions
    BY <1>1, <2>0
  <2>1. /\ d \in [Parties -> Counts] /\ \A l \in KeyPairs : Made(c, l) => Made(d, l)
        /\ d[p] = y
    BY <1>2, <2>0, <2>5
  <2> HIDE DEF d, later
  <2>2. k \in KeyPairs
    <3>1. x.installs \in Nat /\ x.received \in Nat /\ x.sessions \in Nat
      BY <1>1
    <3> QED BY <3>1 DEF KeyPairs, Kinds
  <2>3. ~Made(c, k)
    BY <1>1 DEF Made, x
  <2>4. Made(d, k)
    BY <1>1, <2>0, <2>1 DEF Made
  <2> QED BY <2>1, <2>2, <2>3, <2>4 DEF d, y
<1>8. LET d == later([x EXCEPT !.sessions = @ + 1])
          k == <<p, "first", x.installs, x.sessions>>
      IN  /\ d \in [Parties -> Counts] /\ \A l \in KeyPairs : Made(c, l) => Made(d, l)
          /\ k \in KeyPairs /\ ~Made(c, k) /\ Made(d, k)
  <2> DEFINE y == [x EXCEPT !.sessions = @ + 1]
             k == <<p, "first", x.installs, x.sessions>>
             d == later(y)
  <2>0. /\ y \in Counts /\ y.installs = x.installs /\ y.received = x.received
        /\ y.sessions = x.sessions + 1
    BY <1>4
  <2> HIDE DEF y
  <2>5. y.received >= x.received /\ y.sessions >= x.sessions
    BY <1>1, <2>0
  <2>1. /\ d \in [Parties -> Counts] /\ \A l \in KeyPairs : Made(c, l) => Made(d, l)
        /\ d[p] = y
    BY <1>2, <2>0, <2>5
  <2> HIDE DEF d, later
  <2>2. k \in KeyPairs
    <3>1. x.installs \in Nat /\ x.received \in Nat /\ x.sessions \in Nat
      BY <1>1
    <3> QED BY <3>1 DEF KeyPairs, Kinds
  <2>3. ~Made(c, k)
    BY <1>1 DEF Made, x
  <2>4. Made(d, k)
    BY <1>1, <2>0, <2>1 DEF Made
  <2> QED BY <2>1, <2>2, <2>3, <2>4 DEF d, y
<1>9. LET d == later([x EXCEPT !.sent = @ + 1])
      IN  d \in [Parties -> Counts] /\ \A l \in KeyPairs : Made(c, l) => Made(d, l)
  <2> DEFINE y == [x EXCEPT !.sent = @ + 1]
  <2>1. y \in Counts /\ y.installs = x.installs /\ y.received >= x.received /\ y.sessions >= x.sessions
    BY <1>1, <1>5
  <2> HIDE DEF y
  <2>2. later(y) \in [Parties -> Counts] /\ \A l \in KeyPairs : Made(c, l) => Made(later(y), l)
    BY <1>2, <2>1
  <2> QED BY <2>2 DEF y
<1>10. LET d == later([x EXCEPT !.archives = @ + 1])
      IN  d \in [Parties -> Counts] /\ \A l \in KeyPairs : Made(c, l) => Made(d, l)
  <2> DEFINE y == [x EXCEPT !.archives = @ + 1]
  <2>1. y \in Counts /\ y.installs = x.installs /\ y.received >= x.received /\ y.sessions >= x.sessions
    BY <1>1, <1>6
  <2> HIDE DEF y
  <2>2. later(y) \in [Parties -> Counts] /\ \A l \in KeyPairs : Made(c, l) => Made(later(y), l)
    BY <1>2, <2>1
  <2> QED BY <2>2 DEF y
<1> QED BY <1>7, <1>8, <1>9, <1>10, Zenon DEF x
-----------------------------------------------------------------------------
\* The keys of a party that starts: none of them is a ratchet key.
LEMMA NewStoreIs ==
    ASSUME NEW p \in Parties, NEW i \in Nat
    PROVE  LET st == NewStore(p, i)
           IN  /\ st \in Stores /\ st.record.current = None /\ States(st.record) = <<>>
               /\ st.signed = <<p, "signed", i, 0>> /\ st.known = None
<1> DEFINE st == NewStore(p, i)
           keys == [id \in PreKeyIds |-> <<p, "one-time", i, id>>]
<1>1. keys \in [PreKeyIds -> KeyPairs]
  <2>1. ASSUME NEW id \in PreKeyIds PROVE <<p, "one-time", i, id>> \in KeyPairs
    BY SessionAssumption DEF KeyPairs, Kinds
  <2> QED BY <2>1
<1>2. keys \in UNION {[ids -> KeyPairs] : ids \in SUBSET PreKeyIds}
  BY <1>1, Zenon
<1>3. <<p, "identity", i, 0>> \in KeyPairs /\ <<p, "signed", i, 0>> \in KeyPairs
  BY DEF KeyPairs, Kinds
<1>4. new_fresh \in Records /\ new_fresh.current = None /\ new_fresh.previous = <<>>
  BY DEF Records, new_fresh, None
<1>5. States(new_fresh) = <<>>
  BY <1>4, NoCurrent
<1>6. None \in Seq(KeyPairs)
  BY DEF None
<1>7. st = [record |-> new_fresh, known |-> None, identity |-> <<p, "identity", i, 0>>,
            signed |-> <<p, "signed", i, 0>>, one_time |-> keys]
  BY DEF NewStore
<1> HIDE DEF keys, st
<1>8. st \in Stores
  <2> HIDE DEF KeyPairs
  <2> QED BY <1>2, <1>3, <1>4, <1>6, <1>7 DEF Stores
<1> QED BY <1>4, <1>5, <1>7, <1>8 DEF st

\* An empty record has no sending chains.
LEMMA NoSenders == Apart(<<>>) /\ Senders(<<>>) = {}
  BY DEF Apart, Senders

\* At the start nobody has a session.
LEMMA InitSession == Init => SessionInv
<1> SUFFICES ASSUME Init PROVE SessionInv
  OBVIOUS
<1>1. \A p \in Parties : store[p] = NewStore(p, 0)
  BY DEF Init
<1>2. \A p \in Parties : /\ store[p] \in Stores /\ store[p].record.current = None
                         /\ States(store[p].record) = <<>>
                         /\ store[p].signed = <<p, "signed", 0, 0>>
  BY <1>1, NewStoreIs
<1>3. store \in [Parties -> Stores]
  BY <1>2 DEF Init
<1>4. PICK budget \in Budgets : calls = [p \in Parties |-> NoCalls(budget)]
  BY DEF Init
<1>5. NoCalls(budget) \in Counts /\ NoCalls(budget).installs = 0
  BY SessionAssumption DEF NoCalls, Counts
<1>6. calls \in [Parties -> Counts] /\ \A p \in Parties : calls[p].installs = 0
  BY <1>4, <1>5
<1>7. SessionTypes
  BY <1>3, <1>6 DEF SessionTypes, Init
<1>8. \A p \in Parties : Sending(p) = {} /\ Apart(States(store[p].record))
  BY <1>2, NoSenders DEF Sending
<1>9. \A p \in Parties : Made(calls, store[p].signed)
  <2> TAKE p \in Parties
  <2>1. store[p].signed = <<p, "signed", 0, 0>> /\ calls[p].installs = 0
    BY <1>2, <1>6
  <2> QED BY <2>1 DEF Made
<1>10. MadeInv /\ TurnedInv /\ ApartInv /\ AheadInv /\ SenderInv /\ UniqueKeys
  BY <1>2, <1>8, <1>9 DEF MadeInv, TurnedInv, ApartInv, AheadInv, SenderInv, UniqueKeys, Init
<1> QED BY <1>7, <1>10 DEF SessionInv

\* Install: an empty record, and keys of a new installation.
LEMMA InstallInv ==
    ASSUME SessionInv, NEW p \in Parties, Install(p)
    PROVE  SessionInv'
<1> DEFINE n == calls[p].installs + 1
           st == NewStore(p, n)
           x == [NoCalls(calls[p].budget) EXCEPT !.installs = n]
<1>1. calls \in [Parties -> Counts] /\ calls[p] \in Counts
  BY Known
<1>2. n \in Nat /\ n > calls[p].installs /\ calls[p].installs \in Nat /\ calls[p].budget \in Budget
  BY <1>1 DEF Counts
<1>3. /\ store' = [store EXCEPT ![p] = st] /\ network' = network
      /\ calls' = [calls EXCEPT ![p] = x]
  BY DEF Install, store_session
<1> HIDE DEF n
<1>4. x \in Counts /\ x.installs = n
  BY <1>2 DEF NoCalls, Counts
<1> HIDE DEF x
<1>5. calls' \in [Parties -> Counts] /\ calls'[p] = x
  BY <1>1, <1>3, <1>4
<1>6. \A k \in KeyPairs : Made(calls, k) => Made(calls', k)
  BY <1>1, <1>2, <1>3, <1>4, StaysMade
<1>7. /\ st \in Stores /\ st.record.current = None /\ States(st.record) = <<>>
      /\ st.signed = <<p, "signed", n, 0>>
  BY <1>2, NewStoreIs
<1> HIDE DEF st
<1>8. Made(calls', st.signed)
  BY <1>2, <1>4, <1>5, <1>7 DEF Made
<1> QED BY <1>3, <1>5, <1>6, <1>7, <1>8, NoSenders, QuietStep

\* Archive: the same chains, or fewer.
LEMMA ArchiveInv ==
    ASSUME SessionInv, NEW p \in Parties, Archive(p)
    PROVE  SessionInv'
<1> DEFINE r == archive_current_state(store[p].record)
           st == [store[p] EXCEPT !.record = r]
<1>1. /\ store[p] \in Stores /\ calls \in [Parties -> Counts] /\ store[p].record \in Records
      /\ Made(calls, store[p].signed) /\ store[p].signed \in KeyPairs
      /\ States(store[p].record) \in Seq(SessionStates)
      /\ Apart(States(store[p].record)) /\ Sending(p) = Senders(States(store[p].record))
  BY Known
<1>2. /\ store' = [store EXCEPT ![p] = st] /\ network' = network
      /\ calls' = [calls EXCEPT ![p].archives = @ + 1]
  BY DEF Archive, store_session
<1>3. calls' \in [Parties -> Counts] /\ \A k \in KeyPairs : Made(calls, k) => Made(calls', k)
  BY <1>1, <1>2, OneMore
<1>4. /\ r \in Records /\ r.current = None /\ Len(States(r)) <= Len(States(store[p].record))
      /\ \A i \in 1..Len(States(r)) : States(r)[i] = States(store[p].record)[i]
  BY <1>1, Archived
<1> HIDE DEF r
<1>5. st \in Stores /\ st.record = r /\ st.signed = store[p].signed
  BY <1>1, <1>4, StoreWith
<1> HIDE DEF st
<1>6. Apart(States(r)) /\ Senders(States(r)) \subseteq Sending(p)
  <2>1. States(r) \in Seq(SessionStates)
    BY <1>4, StatesOf
  <2> QED BY <1>1, <1>4, <2>1, CutSenders
<1> QED BY <1>1, <1>2, <1>3, <1>4, <1>5, <1>6, QuietStep

\* A step that changes at most the known identity of p.
LEMMA IdentityStep ==
    ASSUME SessionInv, NEW p \in Parties, NEW st \in Stores,
           store' = [store EXCEPT ![p] = st], network' = network, calls' = calls,
           st.record = store[p].record, st.signed = store[p].signed
    PROVE  SessionInv'
<1>1. /\ calls \in [Parties -> Counts] /\ Made(calls, store[p].signed)
      /\ Apart(States(store[p].record)) /\ Sending(p) = Senders(States(store[p].record))
      /\ store[p].record.current # None => Turned(store[p].record.current[1])
  BY Known
<1> QED BY <1>1, QuietStep

\* Approve: only the known identity changes.
LEMMA ApproveInv ==
    ASSUME SessionInv, NEW p \in Parties, Approve(p)
    PROVE  SessionInv'
<1> DEFINE k == store[Peer(p)].identity
           st == save_identity(store[p], k)
<1>1. store[p] \in Stores /\ k \in KeyPairs
  BY Known, PeerIsAnother
<1>2. store' = [store EXCEPT ![p] = st] /\ network' = network /\ calls' = calls
  BY DEF Approve
<1> HIDE DEF k
<1>3. st \in Stores /\ st.record = store[p].record /\ st.signed = store[p].signed
  BY <1>1, StoreWith
<1> HIDE DEF st
<1> QED BY <1>2, <1>3, IdentityStep
-----------------------------------------------------------------------------
\* A chain whose last agreement has a key made in this step.
LEMMA FreshChain ==
    ASSUME NEW c, NEW d, NEW theirs \in KeyPairs, NEW fresh \in KeyPairs,
           Made(d, theirs), Made(d, fresh), ~Made(c, fresh),
           NEW x, x.ratchet = fresh, x.key # <<>>, x.key[Len(x.key)] = {theirs, fresh}
    PROVE  Unheard(c, x.key) /\ Good(d, x)
  BY DEF Unheard, Good, Mixed, Agreements

\* process_prekey_bundle: one new chain, with a new ratchet key.
LEMMA BundleInv ==
    ASSUME SessionInv, NEW p \in Parties, NEW bundle \in Bundles(Peer(p)),
           process_prekey_bundle(p, bundle)
    PROVE  SessionInv'
<1> DEFINE q == Peer(p)
           base == Key(p, "base", calls[p].sessions)
           ratchet == Key(p, "first", calls[p].sessions)
           s == set_unacknowledged_pre_key_message(
                    initialize_alice_session(store[p].identity, base, ratchet, bundle),
                    bundle.id, base)
           saved == save_identity(store[p], bundle.identity)
           r == promote_state(store[p].record, s)
           st == [saved EXCEPT !.record = r]
<1>1. /\ store[p] \in Stores /\ calls \in [Parties -> Counts] /\ store[p].record \in Records
      /\ Made(calls, store[p].signed) /\ store[p].signed \in KeyPairs
      /\ store[p].identity \in KeyPairs /\ calls[p] \in Counts
      /\ States(store[p].record) \in Seq(SessionStates)
      /\ Apart(States(store[p].record)) /\ Sending(p) = Senders(States(store[p].record))
      /\ \A x \in Sending(p) : Mixed(calls, x.key)
  BY Known
<1>2. /\ q \in Parties /\ store[q].identity \in KeyPairs /\ store[q].signed \in KeyPairs
      /\ Made(calls, store[q].signed) /\ calls[q] \in Counts
  BY Known, PeerIsAnother
<1>3. /\ bundle.identity \in KeyPairs /\ bundle.signed = store[q].signed
      /\ bundle.one_time = None \/ \E k \in KeyPairs : bundle.one_time = Some(k)
      /\ bundle.id = None \/ \E n \in Nat : bundle.id = Some(n)
  <2> DEFINE keys == {None} \cup {Some(i) : i \in PreKeyIds}
             public(id) == IF id = None THEN None ELSE Some(Key(q, "one-time", id[1]))
  <2>1. PICK id \in keys, ok \in BOOLEAN :
           bundle = [identity |-> store[q].identity, signed |-> store[q].signed, valid |-> ok,
                     id |-> id, one_time |-> public(id)]
    BY DEF Bundles
  <2>2. /\ bundle.identity = store[q].identity /\ bundle.signed = store[q].signed
        /\ bundle.id = id /\ bundle.one_time = public(id)
    BY <2>1
  <2>3. id = None \/ \E n \in Nat : id = Some(n)
    BY SessionAssumption
  <2>4. ASSUME NEW n \in Nat PROVE Key(q, "one-time", n) \in KeyPairs
    BY <1>2 DEF Key, KeyPairs, Kinds, Counts
  <2>5. public(id) = None \/ \E k \in KeyPairs : public(id) = Some(k)
    <3>1. CASE id = None
      BY <3>1
    <3>2. ASSUME NEW n \in Nat, id = Some(n) PROVE \E k \in KeyPairs : public(id) = Some(k)
      BY <2>4, <3>2 DEF Some, None
    <3> QED BY <2>3, <3>1, <3>2
  <2> QED BY <1>2, <2>2, <2>3, <2>5
<1>4. base \in KeyPairs
  BY <1>1 DEF Key, KeyPairs, Kinds, Counts
<1>5. /\ store' = [store EXCEPT ![p] = st] /\ network' = network
      /\ calls' = [calls EXCEPT ![p].sessions = @ + 1]
  <2>1. saved.record = store[p].record
    BY <1>1, <1>3, StoreWith
  <2>2. /\ store' = [store EXCEPT ![p] = [saved EXCEPT !.record = promote_state(saved.record, s)]]
        /\ network' = network /\ calls' = [calls EXCEPT ![p].sessions = @ + 1]
    BY Zenon DEF process_prekey_bundle, store_session
  <2> QED BY <2>1, <2>2
<1>6. /\ calls' \in [Parties -> Counts] /\ \A l \in KeyPairs : Made(calls, l) => Made(calls', l)
      /\ ratchet \in KeyPairs /\ ~Made(calls, ratchet) /\ Made(calls', ratchet)
  BY <1>1, <1>5, OneMore, Zenon DEF Key
<1> HIDE DEF base, ratchet
<1>7. /\ s \in SessionStates /\ Turned(s) /\ s.sender.ratchet = ratchet
      /\ s.sender.key # <<>> /\ s.sender.key[Len(s.sender.key)] = {bundle.signed, ratchet}
  <2>1. store[p].identity \in KeyPairs /\ ratchet \in KeyPairs /\ BundleTypes(bundle)
    BY <1>1, <1>2, <1>3, <1>6 DEF BundleTypes
  <2>2. s = BundleSession(store[p].identity, base, ratchet, bundle)
    BY DEF BundleSession
  <2> HIDE DEF s
  <2> QED BY <1>4, <2>1, <2>2, AliceBegins
<1> HIDE DEF s, q
<1>8. Unheard(calls, s.sender.key) /\ Good(calls', s.sender)
  <2>1. bundle.signed \in KeyPairs /\ Made(calls', bundle.signed)
    BY <1>2, <1>3, <1>6
  <2> DEFINE x == s.sender
             theirs == bundle.signed
             d == calls'
  <2>2. /\ x.ratchet = ratchet /\ x.key # <<>> /\ x.key[Len(x.key)] = {theirs, ratchet}
        /\ theirs \in KeyPairs /\ Made(d, theirs) /\ Made(d, ratchet) /\ ~Made(calls, ratchet)
        /\ ratchet \in KeyPairs
    BY <1>6, <1>7, <2>1
  <2> HIDE DEF x, theirs, d
  <2>3. Unheard(calls, x.key) /\ Good(d, x)
    BY <2>2, FreshChain
  <2> QED BY <2>3 DEF x, d
<1>9. /\ r \in Records /\ r.current = Some(s)
      /\ Moved(States(store[p].record), States(r), Len(States(store[p].record)) + 1, s)
  BY <1>1, <1>7, Promoted
<1> HIDE DEF r
<1>10. /\ Apart(States(r))
       /\ \A x \in Senders(States(r)) : x \in Sending(p) \/ x = s.sender
  <2> DEFINE S == States(store[p].record)
  <2>1. States(r) \in Seq(SessionStates) /\ Len(S) \in Nat
    BY <1>1, <1>9, StatesOf
  <2>2. \A x \in Senders(S) : x.key # s.sender.key
    BY <1>1, <1>8 DEF Mixed, Unheard
  <2> DEFINE at == Len(S) + 1
  <2>3. at \in 1..(Len(S) + 1)
    BY <2>1
  <2>4. S \in Seq(SessionStates) /\ Moved(S, States(r), at, s) /\ Apart(S) /\ Sending(p) = Senders(S)
    BY <1>1, <1>9
  <2> HIDE DEF S, at
  <2> QED BY <2>1, <2>2, <2>3, <2>4, MovedSenders
<1>11. r.current # None /\ r.current[1] = s
  BY <1>9 DEF Some, None
<1>12. saved \in Stores /\ saved.signed = store[p].signed
  BY <1>1, <1>3, StoreWith
<1> HIDE DEF saved
<1>13. st \in Stores /\ st.record = r /\ st.signed = store[p].signed
  BY <1>9, <1>12, StoreWith
<1> HIDE DEF st
<1> QED BY <1>1, <1>5, <1>6, <1>7, <1>8, <1>10, <1>11, <1>13, QuietStep
-----------------------------------------------------------------------------
\* What comes in is what was sent, but for the MAC of a damaged message.
PreKeys == [id : Seq(Nat), base_key : KeyPairs, identity : KeyPairs]

\* The fields of a message that comes in.
LEMMA Arrived ==
    ASSUME NEW sent \in Messages, NEW m \in {sent, Damaged(sent)}
    PROVE  /\ m.ratchet = sent.ratchet /\ m.counter = sent.counter /\ m.pre_key = sent.pre_key
           /\ m.ratchet \in KeyPairs /\ m.counter \in Nat /\ m.pre_key \in Seq(PreKeys)
           /\ m = sent \/ m.mac = <<>>
<1>1. /\ sent.ratchet \in KeyPairs /\ sent.counter \in Nat /\ sent.pre_key \in Seq(PreKeys)
  BY DEF Messages, PreKeys
<1>2. LET d == [sent EXCEPT !.mac = <<>>]
      IN  /\ d.ratchet = sent.ratchet /\ d.counter = sent.counter
          /\ d.pre_key = sent.pre_key /\ d.mac = <<>>
  BY DEF Messages
<1> QED BY <1>1, <1>2 DEF Damaged

\* The fields a PreKeySignalMessage adds.
LEMMA PreKeyIs ==
    ASSUME NEW x \in Seq(PreKeys), x # None
    PROVE  x[1].id \in Seq(Nat) /\ x[1].base_key \in KeyPairs /\ x[1].identity \in KeyPairs
<1>1. x[1] \in PreKeys
  BY DEF None
<1> QED BY <1>1 DEF PreKeys

\* process_prekey: the session it builds has read nothing, so it has no sending
\* chain that counts; the others stay.
LEMMA Built ==
    ASSUME SessionInv, NEW p \in Parties, NEW m, m.pre_key \in Seq(PreKeys), m.pre_key # None,
           process_prekey(p, m).result = "Ok"
    PROVE  LET a == process_prekey(p, m).record
           IN  /\ is_trusted_identity(p, m.pre_key[1].identity)
               /\ a \in Records /\ Apart(States(a)) /\ Senders(States(a)) \subseteq Sending(p)
<1> DEFINE record == store[p].record
           pre == m.pre_key[1]
           one_time == IF pre.id = None THEN None ELSE Some(store[p].one_time[pre.id[1]])
           s == initialize_bob_session(store[p].identity, store[p].signed, one_time,
                                       pre.identity, pre.base_key)
           b == archive_current_state(record)
           a == promote_state(b, s)
<1>1. /\ store[p] \in Stores /\ record \in Records /\ store[p].signed \in KeyPairs
      /\ store[p].identity \in KeyPairs /\ States(record) \in Seq(SessionStates)
      /\ Apart(States(record)) /\ Sending(p) = Senders(States(record))
  BY Known
<1>2. pre.id \in Seq(Nat) /\ pre.base_key \in KeyPairs /\ pre.identity \in KeyPairs
  BY PreKeyIs
<1>3. /\ is_trusted_identity(p, pre.identity)
      /\ \/ process_prekey(p, m).record = record
         \/ /\ process_prekey(p, m).record = a
            /\ pre.id = None \/ pre.id[1] \in DOMAIN store[p].one_time
  BY Zenon DEF process_prekey
<1>4. CASE process_prekey(p, m).record = record
  BY <1>1, <1>3, <1>4
<1>5. CASE /\ process_prekey(p, m).record = a
           /\ pre.id = None \/ pre.id[1] \in DOMAIN store[p].one_time
  <2>1. one_time = None \/ \E k \in KeyPairs : one_time = Some(k)
    <3>1. store[p].one_time \in UNION {[ids -> KeyPairs] : ids \in SUBSET PreKeyIds}
      BY <1>1 DEF Stores
    <3>2. \A id \in DOMAIN store[p].one_time : store[p].one_time[id] \in KeyPairs
      BY <3>1
    <3> QED BY <1>5, <3>2, Zenon
  <2> HIDE DEF one_time
  <2>2. s \in SessionStates /\ ~Turned(s)
    BY <1>1, <1>2, <2>1, BobBegins, Zenon
  <2> HIDE DEF s
  <2>3. /\ b \in Records /\ Len(States(b)) <= Len(States(record))
        /\ \A i \in 1..Len(States(b)) : States(b)[i] = States(record)[i]
    BY <1>1, Archived
  <2> HIDE DEF b
  <2>4. States(b) \in Seq(SessionStates) /\ Len(States(b)) \in Nat
    BY <2>3, StatesOf
  <2>5. Apart(States(b)) /\ Senders(States(b)) \subseteq Sending(p)
    BY <1>1, <2>3, <2>4, CutSenders
  <2>6. a \in Records /\ Moved(States(b), States(a), Len(States(b)) + 1, s)
    BY <2>2, <2>3, Promoted
  <2> HIDE DEF a
  <2>7. States(a) \in Seq(SessionStates)
    BY <2>6, StatesOf
  <2>8. Apart(States(a)) /\ Senders(States(a)) \subseteq Senders(States(b))
    <3> DEFINE at == Len(States(b)) + 1
    <3>1. at \in 1..(Len(States(b)) + 1) /\ Moved(States(b), States(a), at, s)
      <4> DEFINE n == Len(States(b))
      <4>1. n \in Nat
        BY <2>4
      <4> HIDE DEF n
      <4>2. n + 1 \in 1..(n + 1)
        BY <4>1
      <4> QED BY <2>6, <4>2 DEF n
    <3> HIDE DEF at
    <3> QED BY <2>2, <2>4, <2>5, <2>7, <3>1, MovedSenders
  <2> QED BY <1>3, <1>5, <2>5, <2>6, <2>8
<1> QED BY <1>3, <1>4, <1>5

\* Pre keys that are left.
LEMMA PreKeysLeft ==
    ASSUME NEW st \in Stores, NEW used
    PROVE  remove_pre_key(st.one_time, used) \in UNION {[ids -> KeyPairs] : ids \in SUBSET PreKeyIds}
<1>1. PICK ids \in SUBSET PreKeyIds : st.one_time \in [ids -> KeyPairs]
  BY DEF Stores
<1> DEFINE left == {i \in DOMAIN st.one_time : Some(i) # used}
<1>2. left \in SUBSET PreKeyIds /\ \A i \in left : st.one_time[i] \in KeyPairs
  BY <1>1
<1> HIDE DEF left, KeyPairs
<1>3. [id \in left |-> st.one_time[id]] \in [left -> KeyPairs]
  BY <1>2
<1>4. remove_pre_key(st.one_time, used) = [id \in left |-> st.one_time[id]]
  BY DEF remove_pre_key, left
<1> QED BY <1>2, <1>3, <1>4, Zenon
-----------------------------------------------------------------------------
\* The stores message_decrypt leaves when it answers Ok: a record one state of
\* which has read the message.
ReadStores(p, m, st) ==
    /\ st \in Stores /\ st.signed = store[p].signed
    /\ st.record.current # None /\ Turned(st.record.current[1])
    /\ Apart(States(st.record))
    /\ \A x \in Senders(States(st.record)) :
          \/ x \in Sending(p)
          \/ /\ x.ratchet = FreshRatchet(p) /\ x.key # <<>>
             /\ x.key[Len(x.key)] = {m.ratchet, FreshRatchet(p)}

\* ... from an identity that is trusted: the one the MAC is for, and the one in
\* a PreKeySignalMessage.
ReadFrom(p, m) ==
    /\ m.mac # <<>>
    /\ m.pre_key = None => is_trusted_identity(p, m.mac[2])
    /\ m.pre_key # None => is_trusted_identity(p, m.pre_key[1].identity)

\* The stores it leaves otherwise: at most the known identity is another.
SameSessions(p, st) ==
    st \in Stores /\ st.record = store[p].record /\ st.signed = store[p].signed

\* The ratchet key a decryption would use is not made yet.
LEMMA FreshIs ==
    ASSUME SessionInv, NEW p \in Parties
    PROVE  FreshRatchet(p) \in KeyPairs /\ ~Made(calls, FreshRatchet(p))
<1>1. calls \in [Parties -> Counts]
  BY Known
<1> QED BY <1>1, OneMore, Zenon DEF FreshRatchet, Key

\* What a MAC is computed with can be read off it.
LEMMA MacParts ==
    ASSUME NEW key, NEW n, NEW from, NEW to
    PROVE  compute_mac(key, n, from, to) # <<>> /\ compute_mac(key, n, from, to)[2] = from
  BY DEF compute_mac

\* message_decrypt_signal: the answer and the stores.
LEMMA SignalAnswer ==
    ASSUME SessionInv, NEW p \in Parties, NEW m, m.ratchet \in KeyPairs, m.counter \in Nat,
           m.pre_key = None
    PROVE  LET done == message_decrypt(p, m)
           IN  /\ done.result # "Ok" => SameSessions(p, done.stores)
               /\ done.result = "Ok" => ReadStores(p, m, done.stores) /\ ReadFrom(p, m)
               /\ done.stores.known # store[p].known => store[p].known = None
<1> DEFINE fresh == FreshRatchet(p)
           tried == decrypt_message_with_record(store[p].record, m, fresh)
           a == tried.record
           theirs == a.current[1].remote_identity
           saved == save_identity(store[p], theirs)
           st == [saved EXCEPT !.record = a]
           done == message_decrypt(p, m)
<1>1. /\ store[p] \in Stores /\ store[p].record \in Records
      /\ Apart(States(store[p].record)) /\ Sending(p) = Senders(States(store[p].record))
      /\ \A x \in Sending(p) : Mixed(calls, x.key)
  BY Known
<1>2. fresh \in KeyPairs /\ ~Made(calls, fresh)
  BY FreshIs
<1>3. \/ done.result # "Ok" /\ done.stores = store[p]
      \/ /\ done.result = "Ok" /\ tried.result = "Ok" /\ is_trusted_identity(p, theirs)
         /\ done.stores = st
  BY Zenon DEF message_decrypt, message_decrypt_signal
<1> HIDE DEF done, fresh, tried
<1>4. CASE done.result # "Ok" /\ done.stores = store[p]
  BY <1>1, <1>4 DEF SameSessions, done
<1>5. CASE /\ done.result = "Ok" /\ tried.result = "Ok" /\ is_trusted_identity(p, theirs)
           /\ done.stores = st
  <2>1. /\ a \in Records /\ a.current # None /\ Turned(a.current[1])
        /\ Apart(States(a))
        /\ \A x \in Senders(States(a)) :
              \/ x \in Senders(States(store[p].record))
              \/ x.ratchet = fresh /\ x.key # <<>> /\ x.key[Len(x.key)] = {m.ratchet, fresh}
        /\ \E key : m.mac = compute_mac(key, m.counter, a.current[1].remote_identity,
                                        a.current[1].local_identity)
    <3> DEFINE r == store[p].record
    <3>1. /\ r \in Records /\ Apart(States(r)) /\ \A x \in Senders(States(r)) : Mixed(calls, x.key)
          /\ decrypt_message_with_record(r, m, fresh).result = "Ok"
      BY <1>1, <1>5 DEF tried
    <3> HIDE DEF r
    <3>2. AfterReading(r, m, fresh, decrypt_message_with_record(r, m, fresh).record)
      BY <1>2, <3>1, ReadSenders
    <3> QED BY <3>2 DEF AfterReading, tried, r
  <2> HIDE DEF a
  <2>2. theirs \in KeyPairs
    <3>1. a.current \in Seq(SessionStates) /\ Len(a.current) = 1
      BY <2>1, RecordParts
    <3>2. a.current[1] \in SessionStates
      BY <3>1
    <3> QED BY <3>2 DEF SessionStates
  <2>3. m.mac # <<>> /\ m.mac[2] = theirs
    BY <2>1, MacParts
  <2> HIDE DEF theirs
  <2>4. saved \in Stores /\ saved.signed = store[p].signed /\ saved.known = Some(theirs)
    BY <1>1, <2>2, StoreWith
  <2> HIDE DEF saved
  <2>5. st \in Stores /\ st.record = a /\ st.signed = store[p].signed /\ st.known = Some(theirs)
    BY <2>1, <2>4, StoreWith
  <2> HIDE DEF st
  <2>6. ReadStores(p, m, st)
    BY <1>1, <2>1, <2>5 DEF ReadStores, fresh
  <2>7. ReadFrom(p, m)
    BY <1>5, <2>3 DEF ReadFrom
  <2>8. st.known # store[p].known => store[p].known = None
    BY <1>5, <2>5 DEF is_trusted_identity
  <2> QED BY <1>5, <2>6, <2>7, <2>8 DEF done
<1> QED BY <1>3, <1>4, <1>5

\* message_decrypt_prekey: the answer and the stores.
LEMMA PreKeyAnswer ==
    ASSUME SessionInv, NEW p \in Parties, NEW m, m.ratchet \in KeyPairs, m.counter \in Nat,
           m.pre_key \in Seq(PreKeys), m.pre_key # None
    PROVE  LET done == message_decrypt(p, m)
           IN  /\ done.result # "Ok" => SameSessions(p, done.stores)
               /\ done.result = "Ok" => ReadStores(p, m, done.stores) /\ ReadFrom(p, m)
               /\ done.stores.known # store[p].known => store[p].known = None
<1> DEFINE fresh == FreshRatchet(p)
           built == process_prekey(p, m)
           b == built.record
           tried == decrypt_message_with_record(b, m, fresh)
           a == tried.record
           theirs == m.pre_key[1].identity
           saved == save_identity(store[p], theirs)
           st1 == [saved EXCEPT !.record = a]
           left == remove_pre_key(saved.one_time, built.used)
           st == [st1 EXCEPT !.one_time = left]
           done == message_decrypt(p, m)
<1>1. /\ store[p] \in Stores /\ store[p].record \in Records
      /\ Sending(p) = Senders(States(store[p].record))
      /\ \A x \in Sending(p) : Mixed(calls, x.key)
  BY Known
<1>2. fresh \in KeyPairs /\ ~Made(calls, fresh)
  BY FreshIs
<1>3. theirs \in KeyPairs
  BY PreKeyIs
<1>4. /\ saved \in Stores /\ saved.record = store[p].record /\ saved.signed = store[p].signed
      /\ saved.known = Some(theirs)
  BY <1>1, <1>3, StoreWith
<1>5. \/ done.result # "Ok" /\ done.stores = store[p]
      \/ done.result # "Ok" /\ built.result = "Ok" /\ done.stores = saved
      \/ /\ done.result = "Ok" /\ built.result = "Ok" /\ tried.result = "Ok"
         /\ done.stores = [saved EXCEPT !.record = a, !.one_time = left]
  BY Zenon DEF message_decrypt, message_decrypt_prekey
<1> HIDE DEF done, fresh, tried, built, saved
<1>6. built.result = "Ok" =>
         /\ is_trusted_identity(p, theirs)
         /\ b \in Records /\ Apart(States(b)) /\ Senders(States(b)) \subseteq Sending(p)
  BY Built, Zenon DEF built
<1> HIDE DEF theirs
<1>7. built.result = "Ok" => store[p].known \in {None, saved.known}
  BY <1>4, <1>6 DEF is_trusted_identity
<1>8. CASE done.result # "Ok" /\ done.stores = store[p]
  BY <1>1, <1>8 DEF SameSessions, done
<1>9. CASE done.result # "Ok" /\ built.result = "Ok" /\ done.stores = saved
  <2>1. SameSessions(p, saved)
    BY <1>4 DEF SameSessions
  <2> QED BY <1>7, <1>9, <2>1 DEF done
<1>10. CASE /\ done.result = "Ok" /\ built.result = "Ok" /\ tried.result = "Ok"
            /\ done.stores = [saved EXCEPT !.record = a, !.one_time = left]
  <2> HIDE DEF b
  <2>1. \A x \in Senders(States(b)) : Mixed(calls, x.key)
    BY <1>1, <1>6, <1>10
  <2>2. /\ a \in Records /\ a.current # None /\ Turned(a.current[1])
        /\ Apart(States(a))
        /\ \A x \in Senders(States(a)) :
              \/ x \in Senders(States(b))
              \/ x.ratchet = fresh /\ x.key # <<>> /\ x.key[Len(x.key)] = {m.ratchet, fresh}
        /\ \E key : m.mac = compute_mac(key, m.counter, a.current[1].remote_identity,
                                        a.current[1].local_identity)
    <3>1. b \in Records /\ Apart(States(b)) /\ decrypt_message_with_record(b, m, fresh).result = "Ok"
      BY <1>6, <1>10 DEF tried
    <3>2. AfterReading(b, m, fresh, decrypt_message_with_record(b, m, fresh).record)
      BY <1>2, <2>1, <3>1, ReadSenders
    <3> QED BY <3>2 DEF AfterReading, tried
  <2> HIDE DEF a
  <2>3. m.mac # <<>>
    BY <2>2, MacParts
  <2>4. st1 \in Stores /\ st1.record = a /\ st1.signed = store[p].signed /\ st1.known = saved.known
    BY <1>4, <2>2, StoreWith
  <2>5. left \in UNION {[ids -> KeyPairs] : ids \in SUBSET PreKeyIds}
    BY <1>4, PreKeysLeft
  <2>6. done.stores = st
    <3> HIDE DEF left
    <3> QED BY <1>4, <1>10 DEF Stores
  <2> HIDE DEF left, st1
  <2>7. st \in Stores /\ st.record = a /\ st.signed = store[p].signed /\ st.known = saved.known
    BY <2>4, <2>5, StoreWith
  <2> HIDE DEF st
  <2>8. ReadStores(p, m, st)
    BY <1>6, <1>10, <2>2, <2>7 DEF ReadStores, fresh
  <2>9. ReadFrom(p, m)
    BY <1>6, <1>10, <2>3 DEF ReadFrom, theirs
  <2> QED BY <1>7, <1>10, <2>6, <2>7, <2>8, <2>9 DEF done
<1> QED BY <1>5, <1>8, <1>9, <1>10
-----------------------------------------------------------------------------
\* message_decrypt: the answer and the stores.
LEMMA Answer ==
    ASSUME SessionInv, NEW p \in Parties, NEW sent \in network,
           NEW m \in {sent, Damaged(sent)}
    PROVE  LET done == message_decrypt(p, m)
           IN  /\ done.result # "Ok" => SameSessions(p, done.stores)
               /\ done.result = "Ok" => ReadStores(p, m, done.stores) /\ ReadFrom(p, m)
               /\ done.stores.known # store[p].known => store[p].known = None
<1>1. sent \in Messages
  BY DEF SessionInv, SessionTypes
<1>2. m.ratchet \in KeyPairs /\ m.counter \in Nat /\ m.pre_key \in Seq(PreKeys)
  BY <1>1, Arrived
<1>3. CASE m.pre_key = None
  BY <1>2, <1>3, SignalAnswer
<1>4. CASE m.pre_key # None
  BY <1>2, <1>4, PreKeyAnswer
<1> QED BY <1>3, <1>4

\* A message that is read: the chain is one of before, or its ratchet key is new.
LEMMA DecryptInv ==
    ASSUME SessionInv, NEW p \in Parties, NEW sent \in network,
           NEW m \in {sent, Damaged(sent)}, Decrypt(p, m, message_decrypt(p, m))
    PROVE  SessionInv'
<1> DEFINE done == message_decrypt(p, m)
           st == done.stores
           fresh == FreshRatchet(p)
<1>1. /\ done.result = "Ok" /\ store' = [store EXCEPT ![p] = st] /\ network' = network
      /\ calls' = [calls EXCEPT ![p].received = @ + 1]
  BY DEF Decrypt, store_session
<1>2. ReadStores(p, m, st)
  BY <1>1, Answer
<1> HIDE DEF done
<1>3. m.ratchet \in KeyPairs /\ Made(calls, m.ratchet)
  <2>1. sent \in Messages /\ Made(calls, sent.ratchet)
    BY DEF SessionInv, SessionTypes, MadeInv
  <2> QED BY <2>1, Arrived
<1>4. /\ calls \in [Parties -> Counts] /\ Made(calls, store[p].signed)
      /\ store[p].signed \in KeyPairs
  BY Known
<1>5. /\ calls' \in [Parties -> Counts] /\ \A l \in KeyPairs : Made(calls, l) => Made(calls', l)
      /\ fresh \in KeyPairs /\ ~Made(calls, fresh) /\ Made(calls', fresh)
  BY <1>1, <1>4, OneMore, Zenon DEF FreshRatchet, Key
<1>6. /\ st \in Stores /\ st.signed = store[p].signed
      /\ st.record.current # None /\ Turned(st.record.current[1])
      /\ Apart(States(st.record))
      /\ \A x \in Senders(States(st.record)) :
            \/ x \in Sending(p)
            \/ x.ratchet = fresh /\ x.key # <<>> /\ x.key[Len(x.key)] = {m.ratchet, fresh}
  BY <1>2 DEF ReadStores
<1> HIDE DEF fresh, st
<1>7. ASSUME NEW x \in Senders(States(st.record)), x \notin Sending(p)
      PROVE  Unheard(calls, x.key) /\ Good(calls', x)
  <2> DEFINE theirs == m.ratchet
             d == calls'
  <2>1. /\ theirs \in KeyPairs /\ Made(d, theirs) /\ Made(d, fresh) /\ fresh \in KeyPairs
        /\ x.ratchet = fresh /\ x.key # <<>> /\ x.key[Len(x.key)] = {theirs, fresh}
    BY <1>3, <1>5, <1>6, <1>7
  <2> HIDE DEF theirs, d
  <2>2. Unheard(calls, x.key) /\ Good(d, x)
    BY <1>5, <2>1, FreshChain
  <2> QED BY <2>2 DEF d
<1>8. Made(calls', st.signed)
  BY <1>4, <1>5, <1>6
<1> QED BY <1>1, <1>5, <1>6, <1>7, <1>8, QuietStep

\* A message that is not read: at most the known identity changes.
LEMMA DecryptFailsInv ==
    ASSUME SessionInv, NEW p \in Parties, NEW sent \in network,
           NEW m \in {sent, Damaged(sent)}, DecryptFails(p, message_decrypt(p, m))
    PROVE  SessionInv'
<1> DEFINE done == message_decrypt(p, m)
           st == done.stores
<1>1. /\ done.result # "Ok" /\ store' = [store EXCEPT ![p] = st] /\ network' = network
      /\ calls' = calls
  BY DEF DecryptFails, store_session
<1>2. SameSessions(p, st)
  BY <1>1, Answer
<1> HIDE DEF st
<1> QED BY <1>1, <1>2, IdentityStep DEF SameSessions
-----------------------------------------------------------------------------
\* The message a session sends.
LEMMA Encrypted ==
    ASSUME SessionInv, NEW p \in Parties, store[p].record.current # None
    PROVE  LET s == store[p].record.current[1]
               m == NextMessage(p)
           IN  /\ s \in SessionStates /\ m \in Messages
               /\ m.ratchet = s.sender.ratchet /\ m.counter = s.sender.index
               /\ ChainOf(m) = s.sender.key
               /\ m.pre_key # None => m.pre_key[1].identity = Sender(m)
<1> DEFINE s == store[p].record.current[1]
           text == Key(p, "text", calls[p].sent)
           plain == SignalMessage(s, Peer(p), text)
           m == NextMessage(p)
<1>1. s \in SessionStates
  <2>1. store[p].record \in Records
    BY Known
  <2>2. store[p].record.current \in Seq(SessionStates) /\ Len(store[p].record.current) = 1
    BY <2>1, RecordParts
  <2> QED BY <2>2
<1>2. Peer(p) \in Parties /\ text \in KeyPairs
  <2>1. calls[p] \in Counts
    BY Known
  <2> QED BY <2>1, PeerIsAnother DEF Key, KeyPairs, Kinds, Counts
<1>3. /\ s.alice_base_key \in KeyPairs /\ s.local_identity \in KeyPairs
      /\ s.remote_identity \in KeyPairs /\ s.sender.ratchet \in KeyPairs
      /\ s.sender.key \in RootKeys /\ s.sender.index \in Nat /\ s.pending \in Seq(Pendings)
  BY <1>1 DEF SessionStates, SenderChains
<1>4. m = IF s.pending = None THEN plain ELSE PreKeySignalMessage(s, plain)
  BY DEF NextMessage
<1> DEFINE mac == compute_mac(s.sender.key, s.sender.index, s.local_identity, s.remote_identity)
<1>5. /\ mac \in Macs /\ mac[1][1] = s.sender.key /\ mac[2] = s.local_identity
  <2> HIDE DEF s
  <2> QED BY <1>3 DEF compute_mac, message_keys, Macs
<1>6. plain = [to |-> Peer(p), text |-> text, session |-> s.alice_base_key,
               ratchet |-> s.sender.ratchet, counter |-> s.sender.index, mac |-> mac,
               pre_key |-> None]
  BY DEF SignalMessage
<1> HIDE DEF s, text, mac, plain, m
<1> DEFINE Pre == [id : Seq(Nat), base_key : KeyPairs, identity : KeyPairs]
<1>7. /\ plain \in Messages /\ plain.ratchet = s.sender.ratchet /\ plain.counter = s.sender.index
      /\ plain.mac = mac /\ plain.pre_key = None
  <2>1. None \in Seq(Pre)
    BY DEF None
  <2> HIDE DEF Pre, KeyPairs, Macs
  <2> QED BY <1>2, <1>3, <1>5, <1>6, <2>1 DEF Messages, Pre
<1>8. CASE s.pending = None
  <2>1. m = plain
    BY <1>4, <1>8
  <2> QED BY <1>1, <1>5, <1>7, <2>1 DEF ChainOf, s, m
<1>9. CASE s.pending # None
  <2> DEFINE pre == [id |-> pending_pre_key_id(s), base_key |-> s.pending[1].base_key,
                     identity |-> s.local_identity]
             full == [plain EXCEPT !.pre_key = Some(pre)]
  <2>1. m = full
    BY <1>4, <1>9 DEF PreKeySignalMessage
  <2>2. s.pending[1] \in Pendings
    BY <1>3, <1>9 DEF None
  <2>3. pending_pre_key_id(s) \in Seq(Nat)
    <3>1. s.pending[1].pre_key_id \in Nat
      BY <2>2 DEF Pendings
    <3> DEFINE id == s.pending[1].pre_key_id
    <3> HIDE DEF id
    <3>2. id \in Nat
      BY <3>1 DEF id
    <3>3. <<id>> \in Seq(Nat) /\ <<>> \in Seq(Nat)
      BY <3>2
    <3> QED BY <3>3, Zenon DEF pending_pre_key_id, Some, None, id
  <2>4. pre \in Pre /\ pre.identity = s.local_identity
    BY <1>3, <2>2, <2>3 DEF Pendings
  <2> HIDE DEF pre, Pre
  <2>5. Some(pre) \in Seq(Pre) /\ Some(pre)[1] = pre
    BY <2>4 DEF Some
  <2>6. /\ full \in Messages /\ full.ratchet = plain.ratchet /\ full.counter = plain.counter
        /\ full.mac = plain.mac /\ full.pre_key = Some(pre)
    <3> HIDE DEF KeyPairs, Macs
    <3> QED BY <1>7, <2>5 DEF Messages, Pre
  <2> HIDE DEF full
  <2> QED BY <1>1, <1>5, <1>7, <2>1, <2>4, <2>5, <2>6 DEF ChainOf, Sender, s, m
<1> QED BY <1>8, <1>9

\* The sending chain moves on.
LEMMA Stepped ==
    ASSUME NEW s \in SessionStates
    PROVE  LET t == step_sender_chain(s)
           IN  /\ t \in SessionStates /\ t.receivers = s.receivers
               /\ t.sender.ratchet = s.sender.ratchet /\ t.sender.key = s.sender.key
               /\ t.sender.index = s.sender.index + 1
<1> DEFINE x == [s.sender EXCEPT !.index = @ + 1]
<1>1. s.sender \in SenderChains
  BY DEF SessionStates
<1>2. /\ x \in SenderChains /\ x.ratchet = s.sender.ratchet /\ x.key = s.sender.key
      /\ x.index = s.sender.index + 1
  BY <1>1 DEF SenderChains
<1>3. step_sender_chain(s) = [s EXCEPT !.sender = x]
  BY <1>1 DEF step_sender_chain, SessionStates, SenderChains
<1> HIDE DEF x
<1>4. LET t == [s EXCEPT !.sender = x]
      IN  t \in SessionStates /\ t.receivers = s.receivers /\ t.sender = x
  BY <1>2, StateWith
<1> QED BY <1>2, <1>3, <1>4
-----------------------------------------------------------------------------
\* message_encrypt: the message takes the key the chain is at, and the chain moves on.
LEMMA EncryptInv ==
    ASSUME SessionInv, NEW p \in Parties, message_encrypt(p)
    PROVE  SessionInv'
<1> DEFINE r == store[p].record
           s == r.current[1]
           t == step_sender_chain(s)
           m == NextMessage(p)
           saved == save_identity(store[p], s.remote_identity)
           a == [r EXCEPT !.current = Some(t)]
           st == [saved EXCEPT !.record = a]
           S == States(r)
           T == States(a)
<1>1. /\ store[p] \in Stores /\ calls \in [Parties -> Counts] /\ r \in Records
      /\ S \in Seq(SessionStates) /\ Apart(S) /\ Sending(p) = Senders(S)
  BY Known
<1>2. r.current # None /\ Turned(s)
  BY Known DEF message_encrypt
<1>3. /\ s \in SessionStates /\ m \in Messages
      /\ m.ratchet = s.sender.ratchet /\ m.counter = s.sender.index
      /\ ChainOf(m) = s.sender.key
      /\ m.pre_key # None => m.pre_key[1].identity = Sender(m)
  BY <1>2, Encrypted
<1>4. /\ t \in SessionStates /\ t.receivers = s.receivers
      /\ t.sender.ratchet = s.sender.ratchet /\ t.sender.key = s.sender.key
      /\ t.sender.index = s.sender.index + 1
  BY <1>3, Stepped
<1>5. s.remote_identity \in KeyPairs /\ s.sender.index \in Nat
  BY <1>3 DEF SessionStates, SenderChains
<1>6. /\ saved \in Stores /\ saved.record = r /\ saved.signed = store[p].signed
  BY <1>1, <1>5, StoreWith
<1>7. /\ store' = [store EXCEPT ![p] = st] /\ network' = network \cup {m}
      /\ calls' = [calls EXCEPT ![p].sent = @ + 1]
  <2>1. /\ store' = [store EXCEPT ![p] = [saved EXCEPT !.record.current = Some(t)]]
        /\ network' = network \cup {m} /\ calls' = [calls EXCEPT ![p].sent = @ + 1]
    BY DEF message_encrypt, store_session
  <2>2. [saved EXCEPT !.record.current = Some(t)]
           = [saved EXCEPT !.record = [saved.record EXCEPT !.current = Some(t)]]
    <3> HIDE DEF saved, t
    <3> QED OBVIOUS
  <2> QED BY <1>6, <2>1, <2>2
<1> HIDE DEF s, t, m, saved
<1>8. /\ a \in Records /\ a.previous = r.previous /\ a.current # None /\ a.current[1] = t
  BY <1>1, <1>4, RecordWith
<1> HIDE DEF r
<1>9. /\ Len(T) = Len(r.previous) + 1 /\ T[1] = t
      /\ \A i \in 2..Len(T) : T[i] = r.previous[i - 1]
  BY <1>8, Current
<1>10. /\ Len(S) = Len(r.previous) + 1 /\ S[1] = s
       /\ \A i \in 2..Len(S) : S[i] = r.previous[i - 1]
  BY <1>1, <1>2, Current DEF s
<1>11. st \in Stores /\ st.record = a /\ st.signed = store[p].signed
  BY <1>6, <1>8, StoreWith
<1> HIDE DEF a, st, S
<1>12. T \in Seq(SessionStates) /\ Len(T) = Len(S) /\ Len(T) \in Nat /\ 1 \in 1..Len(S)
  <2>1. T \in Seq(SessionStates) /\ Len(r.previous) \in Nat
    BY <1>1, <1>8, StatesOf, RecordParts
  <2> DEFINE n == Len(r.previous)
  <2>2. n \in Nat /\ Len(T) = n + 1 /\ Len(S) = n + 1
    BY <1>9, <1>10, <2>1
  <2> HIDE DEF n, T
  <2> QED BY <2>1, <2>2
<1> HIDE DEF T
<1>13. \A i \in 1..Len(S) : /\ Turned(S[i]) <=> Turned(T[i])
                            /\ T[i].sender.key = S[i].sender.key
                            /\ i # 1 => T[i] = S[i]
  <2> TAKE i \in 1..Len(S)
  <2>1. CASE i = 1
    BY <1>4, <1>9, <1>10, <2>1 DEF Turned
  <2>2. CASE i # 1
    BY <1>9, <1>10, <1>12, <2>2
  <2> QED BY <2>1, <2>2
<1>14. Apart(T)
  BY <1>1, <1>12, <1>13 DEF Apart
<1>15. s.sender \in Sending(p)
  BY <1>1, <1>2, <1>10, <1>12 DEF Senders
<1>16. ASSUME NEW x \in Senders(T)
       PROVE  x = t.sender \/ (x \in Sending(p) /\ x.key # s.sender.key)
  <2>1. PICK i \in 1..Len(T) : Turned(T[i]) /\ x = T[i].sender
    BY DEF Senders
  <2>2. CASE i = 1
    BY <1>9, <2>1, <2>2
  <2>3. CASE i # 1
    <3>1. i \in 1..Len(S) /\ T[i] = S[i] /\ Turned(S[i])
      BY <1>12, <1>13, <2>1, <2>3
    <3>2. S[i].sender.key # S[1].sender.key
      BY <1>1, <1>2, <1>10, <1>12, <2>3, <3>1 DEF Apart
    <3>3. x \in Senders(S)
      BY <2>1, <3>1 DEF Senders
    <3> QED BY <1>1, <1>10, <2>1, <3>1, <3>2, <3>3
  <2> QED BY <2>2, <2>3
<1>17. /\ store \in [Parties -> Stores] /\ store' \in [Parties -> Stores]
       /\ store'[p] = st /\ \A q \in Parties : q # p => store'[q] = store[q]
  BY <1>7, <1>11 DEF SessionInv, SessionTypes
<1>18. calls' \in [Parties -> Counts] /\ \A k \in KeyPairs : Made(calls, k) => Made(calls', k)
  BY <1>1, <1>7, OneMore
<1>19. SessionTypes'
  BY <1>3, <1>7, <1>17, <1>18 DEF SessionInv, SessionTypes
<1>20. /\ Sending(p)' = Senders(T)
       /\ \A q \in Parties : q # p => Sending(q)' = Sending(q)
  BY <1>11, <1>17 DEF Sending, T
<1>21. \A q \in Parties : \A x \in Sending(q)' :
          \/ x \in Sending(q) /\ (q = p => x.key # s.sender.key)
          \/ q = p /\ x = t.sender
  BY <1>16, <1>20
<1>22. \A q \in Parties : \A x \in Sending(q) : Made(calls, x.ratchet) /\ Mixed(calls, x.key)
  BY DEF SessionInv, MadeInv, Good
<1>23. \A q \in Parties : \A x \in Sending(q) : x.ratchet \in KeyPairs
  <2> TAKE q \in Parties
  <2>1. store[q].record \in Records
    BY Known
  <2> QED BY <2>1, SenderTypes DEF Sending, SenderChains
<1>24. ASSUME NEW q \in Parties, NEW x \in Sending(q) PROVE Good(calls', x)
  BY <1>18, <1>22, <1>23, StaysMixed DEF Good
<1>25. MadeInv'
  <2>1. \A q \in Parties : Made(calls', store'[q].signed)
    <3>1. \A q \in Parties : store[q].signed \in KeyPairs /\ Made(calls, store[q].signed)
      BY Known
    <3> QED BY <1>11, <1>17, <1>18, <3>1
  <2>2. ASSUME NEW q \in Parties, NEW x \in Sending(q)' PROVE Good(calls', x)
    <3>1. CASE q = p /\ x = t.sender
      BY <1>4, <1>15, <1>24, <3>1 DEF Good
    <3> QED BY <1>21, <1>24, <3>1
  <2>3. ASSUME NEW n \in network' PROVE Made(calls', n.ratchet) /\ Mixed(calls', ChainOf(n))
    <3>1. CASE n = m
      BY <1>3, <1>15, <1>24, <3>1 DEF Good
    <3>2. CASE n \in network
      <4>1. n.ratchet \in KeyPairs /\ Made(calls, n.ratchet) /\ Mixed(calls, ChainOf(n))
        BY <3>2 DEF SessionInv, SessionTypes, Messages, MadeInv
      <4> QED BY <1>18, <4>1, StaysMixed
    <3> QED BY <1>7, <3>1, <3>2
  <2> QED BY <2>1, <2>2, <2>3 DEF MadeInv
<1>26. TurnedInv'
  <2>1. a.current # None => Turned(a.current[1])
    BY <1>2, <1>4, <1>8 DEF Turned
  <2> QED BY <1>11, <1>17, <2>1 DEF SessionInv, TurnedInv
<1>27. ApartInv'
  <2>1. \A q \in Parties : Apart(States(store'[q].record))
    BY <1>11, <1>14, <1>17 DEF SessionInv, ApartInv, T
  <2>2. \A q \in Parties : \A x \in Sending(q)' : \E y \in Sending(q) : y.key = x.key
    BY <1>4, <1>15, <1>21
  <2>3. ASSUME NEW q \in Parties, NEW u \in Parties, NEW x \in Sending(q)', NEW y \in Sending(u)',
               x.key = y.key
        PROVE  q = u
    BY <2>2, <2>3 DEF SessionInv, ApartInv
  <2> QED BY <2>1, <2>3 DEF ApartInv
<1>28. AheadInv'
  <2>1. ASSUME NEW q \in Parties, NEW x \in Sending(q)', NEW n \in network', ChainOf(n) = x.key
        PROVE  n.counter < x.index
    <3>1. CASE q = p /\ x = t.sender
      <4>1. CASE n = m
        BY <1>3, <1>4, <1>5, <3>1, <4>1
      <4>2. CASE n \in network
        <5>1. n.counter < s.sender.index
          BY <1>4, <1>15, <2>1, <3>1, <4>2 DEF SessionInv, AheadInv
        <5>2. n.counter \in Nat
          BY <4>2 DEF SessionInv, SessionTypes, Messages
        <5> QED BY <1>4, <1>5, <3>1, <5>1, <5>2
      <4> QED BY <1>7, <4>1, <4>2
    <3>2. CASE x \in Sending(q) /\ (q = p => x.key # s.sender.key)
      <4>1. n # m
        BY <1>3, <1>15, <2>1, <3>2 DEF SessionInv, ApartInv
      <4> QED BY <1>7, <2>1, <3>2, <4>1 DEF SessionInv, AheadInv
    <3> QED BY <1>21, <3>1, <3>2
  <2> QED BY <2>1 DEF AheadInv
<1>29. SenderInv'
  BY <1>3, <1>7 DEF SessionInv, SenderInv
<1>30. UniqueKeys'
  <2>1. \A n \in network : ChainOf(n) = ChainOf(m) => n.counter # m.counter
    <3> TAKE n \in network
    <3>1. n.counter \in Nat
      BY DEF SessionInv, SessionTypes, Messages
    <3>2. ChainOf(n) = s.sender.key => n.counter < s.sender.index
      BY <1>15 DEF SessionInv, AheadInv
    <3> QED BY <1>3, <1>5, <3>1, <3>2
  <2> QED BY <1>7, <2>1 DEF SessionInv, UniqueKeys
<1> QED BY <1>19, <1>25, <1>26, <1>27, <1>28, <1>29, <1>30 DEF SessionInv
-----------------------------------------------------------------------------
\* Every step keeps the invariant.
LEMMA NextSession == SessionInv /\ [Next]_vars => SessionInv'
<1> SUFFICES ASSUME SessionInv, [Next]_vars PROVE SessionInv'
  OBVIOUS
<1>1. CASE UNCHANGED vars
  <2>1. store' = store /\ network' = network /\ calls' = calls
    BY <1>1 DEF vars
  <2>2. SessionTypes' /\ UniqueKeys' /\ SenderInv'
    BY <2>1 DEF SessionInv, SessionTypes, UniqueKeys, SenderInv
  <2>3. MadeInv' /\ TurnedInv' /\ ApartInv' /\ AheadInv'
    BY <2>1 DEF SessionInv, MadeInv, TurnedInv, ApartInv, AheadInv, Sending
  <2> QED BY <2>2, <2>3 DEF SessionInv
<1>2. CASE Next
  <2> PICK p \in Parties :
         \/ \E bundle \in Bundles(Peer(p)) :
               process_prekey_bundle(p, bundle) \/ process_prekey_bundle_fails(p, bundle)
         \/ message_encrypt(p)
         \/ message_encrypt_fails(p)
         \/ \E sent \in {m \in network : m.to = p} :
            \E message \in {sent, Damaged(sent)} :
            \E done \in {message_decrypt(p, message)} :
               Decrypt(p, message, done) \/ DecryptFails(p, done)
         \/ Archive(p)
         \/ Install(p)
         \/ Approve(p)
    BY <1>2, Zenon DEF Next
  <2>1. CASE \E bundle \in Bundles(Peer(p)) : process_prekey_bundle(p, bundle)
    BY <2>1, BundleInv
  <2>2. CASE \E bundle \in Bundles(Peer(p)) : process_prekey_bundle_fails(p, bundle)
    BY <1>1, <2>2 DEF process_prekey_bundle_fails
  <2>3. CASE message_encrypt(p)
    BY <2>3, EncryptInv
  <2>4. CASE message_encrypt_fails(p)
    BY <1>1, <2>4 DEF message_encrypt_fails
  <2>5. ASSUME NEW sent \in network, NEW message \in {sent, Damaged(sent)},
               \/ Decrypt(p, message, message_decrypt(p, message))
               \/ DecryptFails(p, message_decrypt(p, message))
        PROVE  SessionInv'
    BY <2>5, DecryptInv, DecryptFailsInv
  <2>6. CASE Archive(p)
    BY <2>6, ArchiveInv
  <2>7. CASE Install(p)
    BY <2>7, InstallInv
  <2>8. CASE Approve(p)
    BY <2>8, ApproveInv
  <2> QED BY <2>1, <2>2, <2>3, <2>4, <2>5, <2>6, <2>7, <2>8, Zenon
<1> QED BY <1>1, <1>2

\* The invariant holds throughout.
LEMMA SessionInvariant == Spec => []SessionInv
  BY InitSession, NextSession, PTL DEF Spec

\* Two texts never go out under the same message key, whatever the two parties
\* do, for any number of calls and any limits on states, chains and keys.
THEOREM KeysAreUnique == Spec => []UniqueKeys
<1>1. SessionInv => UniqueKeys
  BY DEF SessionInv
<1> QED BY <1>1, SessionInvariant, PTL

\* What a step may do to the known identities.
KnownStep ==
    \A p \in Parties : store'[p].known # store[p].known =>
        store[p].known = None \/ Approve(p) \/ Install(p)

\* Every step keeps to that: is_trusted_identity is asked before save_identity.
LEMMA StepKnown == SessionInv /\ [Next]_vars => [KnownStep]_vars
<1> SUFFICES ASSUME SessionInv, Next, NEW q \in Parties, store'[q].known # store[q].known
             PROVE  store[q].known = None \/ Approve(q) \/ Install(q)
  BY DEF KnownStep
<1>0. store \in [Parties -> Stores]
  BY DEF SessionInv, SessionTypes
<1> PICK p \in Parties :
       \/ \E bundle \in Bundles(Peer(p)) :
             process_prekey_bundle(p, bundle) \/ process_prekey_bundle_fails(p, bundle)
       \/ message_encrypt(p)
       \/ message_encrypt_fails(p)
       \/ \E sent \in {m \in network : m.to = p} :
          \E message \in {sent, Damaged(sent)} :
          \E done \in {message_decrypt(p, message)} :
             Decrypt(p, message, done) \/ DecryptFails(p, done)
       \/ Archive(p)
       \/ Install(p)
       \/ Approve(p)
  BY Zenon DEF Next
<1>1. ASSUME NEW st, store' = [store EXCEPT ![p] = st]
      PROVE  q = p /\ st.known # store[p].known
  BY <1>0, <1>1
<1>2. ASSUME NEW bundle \in Bundles(Peer(p)), process_prekey_bundle(p, bundle)
      PROVE  q = p /\ store[p].known = None
  <2> DEFINE saved == save_identity(store[p], bundle.identity)
  <2>1. /\ is_trusted_identity(p, bundle.identity)
        /\ \E r : store' = [store EXCEPT ![p] = [saved EXCEPT !.record = r]]
    BY <1>2, Zenon DEF process_prekey_bundle, store_session
  <2>2. \A r : [saved EXCEPT !.record = r].known = Some(bundle.identity)
    BY <1>0 DEF save_identity, Stores
  <2> HIDE DEF saved
  <2> QED BY <1>1, <2>1, <2>2 DEF is_trusted_identity
<1>3. ASSUME message_encrypt(p) PROVE q = p /\ store[p].known = None
  <2> DEFINE theirs == store[p].record.current[1].remote_identity
             saved == save_identity(store[p], theirs)
  <2>1. /\ is_trusted_identity(p, theirs)
        /\ \E c : store' = [store EXCEPT ![p] = [saved EXCEPT !.record.current = c]]
    BY <1>3, Zenon DEF message_encrypt, store_session
  <2>2. \A c : [saved EXCEPT !.record.current = c].known = Some(theirs)
    BY <1>0 DEF save_identity, Stores
  <2> HIDE DEF saved, theirs
  <2> QED BY <1>1, <2>1, <2>2 DEF is_trusted_identity
<1>4. ASSUME NEW sent \in network, NEW message \in {sent, Damaged(sent)},
             \/ Decrypt(p, message, message_decrypt(p, message))
             \/ DecryptFails(p, message_decrypt(p, message))
      PROVE  q = p /\ store[p].known = None
  <2>1. store' = [store EXCEPT ![p] = message_decrypt(p, message).stores]
    BY <1>4, Zenon DEF Decrypt, DecryptFails, store_session
  <2>2. message_decrypt(p, message).stores.known # store[p].known => store[p].known = None
    BY Answer
  <2> QED BY <1>1, <2>1, <2>2
<1>5. ~Archive(p)
  <2> SUFFICES ASSUME Archive(p) PROVE FALSE
    OBVIOUS
  <2> DEFINE r == archive_current_state(store[p].record)
  <2>1. store' = [store EXCEPT ![p] = [store[p] EXCEPT !.record = r]]
    BY DEF Archive, store_session
  <2> HIDE DEF r
  <2>2. [store[p] EXCEPT !.record = r].known = store[p].known
    BY <1>0 DEF Stores
  <2> QED BY <1>1, <2>1, <2>2
<1>6. Install(p) \/ Approve(p) => q = p
  <2>1. Install(p) \/ Approve(p) => \E st : store' = [store EXCEPT ![p] = st]
    BY Zenon DEF Install, Approve, store_session
  <2> QED BY <1>1, <2>1
<1>7. store' # store
  OBVIOUS
<1>8. ~message_encrypt_fails(p) /\ \A bundle : ~process_prekey_bundle_fails(p, bundle)
  BY <1>7 DEF message_encrypt_fails, process_prekey_bundle_fails, vars
<1> QED BY <1>2, <1>3, <1>4, <1>5, <1>6, <1>8, Zenon

\* Only the user replaces a recorded identity key: no bundle and no message
\* does, however a call ends (is_trusted_identity before every save_identity).
THEOREM IdentitiesStay == Spec => FirstUseStays
<1>1. SessionInv /\ [Next]_vars => [KnownStep]_vars
  BY StepKnown
<1> QED BY <1>1, SessionInvariant, PTL DEF Spec, FirstUseStays, KnownStep
\* What a step may hand over.
HandedStep ==
    \A m \in network : m \in delivered' /\ m \notin delivered =>
        store[m.to].known \in {None, Some(Sender(m))}

\* Every step keeps to that.
LEMMA StepHanded == SessionInv /\ [Next]_vars => [HandedStep]_vars
<1> SUFFICES ASSUME SessionInv, Next, NEW m \in network, m \in delivered', m \notin delivered
             PROVE  store[m.to].known \in {None, Some(Sender(m))}
  BY DEF HandedStep
<1>1. PICK p \in Parties : \E sent \in {n \in network : n.to = p} :
         \E message \in {sent, Damaged(sent)} : Decrypt(p, message, message_decrypt(p, message))
  BY Zenon DEF Next, process_prekey_bundle, process_prekey_bundle_fails, message_encrypt,
               message_encrypt_fails, DecryptFails, Archive, Install, Approve, vars
<1> PICK sent \in {n \in network : n.to = p} :
         \E message \in {sent, Damaged(sent)} : Decrypt(p, message, message_decrypt(p, message))
  BY <1>1, Zenon
<1> PICK message \in {sent, Damaged(sent)} : Decrypt(p, message, message_decrypt(p, message))
  BY Zenon
<1>2. message_decrypt(p, message).result = "Ok" /\ delivered' = delivered \cup {message}
  BY <1>1 DEF Decrypt
<1>3. ReadFrom(p, message)
  BY <1>1, <1>2, Answer
<1>4. m = message
  BY <1>2
<1>5. m = sent /\ m.to = p
  <2>1. sent \in Messages
    BY <1>1 DEF SessionInv, SessionTypes
  <2> QED BY <1>1, <1>3, <1>4, <2>1, Arrived DEF ReadFrom
<1>6. is_trusted_identity(p, Sender(m))
  BY <1>3, <1>4 DEF ReadFrom, Sender, SessionInv, SenderInv
<1> QED BY <1>5, <1>6 DEF is_trusted_identity

\* A message is handed over only when the identity on record, if there is one,
\* is the one whose key its MAC was computed with: also when an archived session
\* of an earlier identity reads it, and when the message came damaged.
THEOREM HandedOverFromKnown == Spec => FromKnownIdentity
<1>1. SessionInv /\ [Next]_vars => [HandedStep]_vars
  BY StepHanded
<1> QED BY <1>1, SessionInvariant, PTL DEF Spec, FromKnownIdentity, HandedStep
=============================================================================
