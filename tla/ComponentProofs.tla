--------------------------- MODULE ComponentProofs --------------------------
(***************************************************************************)
(* What is proved of three components that stand alone: the two parts that *)
(* the Java library has to itself, the sealed-sender cipher (SealedSender) *)
(* and the life of the native objects behind Java objects (JniCalls), and  *)
(* one receiving chain (ReceiverChain).                                    *)
(*                                                                         *)
(* Sealed sender, whatever the numbers of messages, sessions, keys and     *)
(* threads.  The properties compare things that no line of the code        *)
(* compares, so the invariants follow them through the sender and the      *)
(* recipient: IInv the identity keys of a session, of the message that is  *)
(* encrypted and not yet sealed and of the envelopes on their way,         *)
(* ChosenInv what a thread found out about an envelope before it waits for *)
(* the lock, ReadInv the sessions each address has read with.              *)
(*                                                                         *)
(* Java objects, for any number of objects and addresses.  The inductive   *)
(* invariant JniInv is what JniCalls is checked for, the handles of the    *)
(* native methods under way and the types: that a finalizer frees nothing  *)
(* that is in use needs that no two wrappers own the same address, and     *)
(* that a new address is nobody's needs that the heap is what the wrappers *)
(* and the generator own and what was boxed in vain.                       *)
(*                                                                         *)
(* The receiving chain, for every limit and every bound on the counters:   *)
(* it hands a message over at most once, loses only messages that fell out *)
(* of the window, and implements ReceiveWindow.  ChainInv is the           *)
(* conjunction of the properties and the types.                            *)
(***************************************************************************)
EXTENDS ReceiverChain, SealedSender, JniCalls, SequenceTheorems, TLAPS

\* Alice's session.
SessionType ==
    [id : Nat, peer : Nat, key : Nat, oneTime : BOOLEAN, type : {"PREKEY", "WHISPER"}, sent : Nat]

\* The keys and the clock are numbers; Alice never knows a key that Bob
\* does not have yet.
Numbers ==
    /\ time \in Nat /\ aliceKey \in Nat /\ bobKey \in Nat /\ known \in Nat /\ made \in Nat
    /\ known <= bobKey

\* A session is Alice's present key's, with a key of Bob's that Alice has known.
SessionInv ==
    session # <<>> =>
        session[1] \in SessionType /\ session[1].key = aliceKey /\ session[1].peer <= known

\* So is a message that waits to be sealed, also when another key of Bob's is
\* saved meanwhile.
PendingInv ==
    pending # <<>> =>
        pending[1].key = aliceKey /\ pending[1].peer \in Nat /\ pending[1].peer <= known

\* An envelope is sealed by the key of its message's session, for a key of Bob's
\* that is not older than the one the message is for.
NetInv ==
    \A e \in net :
        /\ e.static = e.inner.key
        /\ e.to \in Nat /\ e.inner.peer \in Nat
        /\ e.inner.peer <= e.to /\ e.to <= bobKey
        /\ e.certificate.expires \in Nat

\* What holds of an envelope that is opened and of the address chosen for it,
\* as long as the choice waits for the lock.
Waits(envelopes, c) ==
    LET k == c.envelope.certificate
    IN /\ c.envelope \in envelopes /\ c.address \in Addresses
       /\ k.root = "root" /\ c.time <= k.expires /\ k.key = c.envelope.static
       /\ "e164" \in k.names /\ c.address = "uuid" => c.uuid
       /\ "uuid" \in k.names /\ c.address = "e164" => ~c.uuid

\* The choices that Bob's threads have made.
ChosenInv ==
    /\ DOMAIN chosen = Threads
    /\ \A t \in Threads : chosen[t] # <<>> => Waits(net, chosen[t][1])

\* The invariant for what Bob is handed.
IInv == Numbers /\ SessionInv /\ PendingInv /\ NetInv /\ DeliveredIsCertified

\* Nothing is there at first.
LEMMA InitIInv == Init => IInv
  BY DEF Init, IInv, Numbers, SessionInv, PendingInv, NetInv, DeliveredIsCertified

\* NewSession and BobStarts: the session is made with the keys of now, and Alice
\* knew none of Bob's or the one Bob has.
LEMMA SessionMadeIInv ==
    ASSUME IInv, NewSession \/ \E a \in Addresses : BobStarts(a)
    PROVE  IInv'
  <1>1. /\ made' = made + 1 /\ known' = bobKey /\ known \in {0, bobKey}
        /\ \E o \in BOOLEAN, t \in {"PREKEY", "WHISPER"} :
              session' = <<[id |-> made + 1, peer |-> bobKey, key |-> aliceKey, oneTime |-> o,
                            type |-> t, sent |-> 0]>>
        /\ UNCHANGED <<time, aliceKey, bobKey, pending, net, delivered>>
    BY DEF NewSession, BobStarts, bob
  <1>2. Numbers'
    BY <1>1 DEF IInv, Numbers
  <1>3. SessionInv'
    BY <1>1 DEF IInv, Numbers, SessionInv, SessionType
  <1>4. PendingInv'
    BY <1>1 DEF IInv, Numbers, PendingInv
  <1>5. NetInv' /\ DeliveredIsCertified'
    BY <1>1 DEF IInv, NetInv, DeliveredIsCertified
  <1> QED BY <1>2, <1>3, <1>4, <1>5 DEF IInv

\* EncryptInner: the message takes its keys from the session.
LEMMA EncryptInnerIInv ==
    ASSUME IInv, EncryptInner
    PROVE  IInv'
  <1>1. /\ session # <<>> /\ pending'[1].key = session[1].key
        /\ pending'[1].peer = session[1].peer
        /\ session' = <<[session[1] EXCEPT !.sent = @ + 1]>>
        /\ UNCHANGED <<time, aliceKey, bobKey, known, net, made, delivered>>
    BY DEF EncryptInner, bob
  <1>2. session[1] \in SessionType /\ session[1].key = aliceKey /\ session[1].peer <= known
    BY <1>1 DEF IInv, SessionInv
  <1>3. SessionInv'
    BY <1>1, <1>2 DEF SessionInv, SessionType
  <1>4. PendingInv'
    BY <1>1, <1>2 DEF PendingInv, SessionType
  <1>5. Numbers' /\ NetInv' /\ DeliveredIsCertified'
    BY <1>1 DEF IInv, Numbers, NetInv, DeliveredIsCertified
  <1> QED BY <1>3, <1>4, <1>5 DEF IInv

\* Seal: the envelope is for the key Alice knows now, which is not older than
\* the message's.
LEMMA SealIInv ==
    ASSUME IInv, Seal
    PROVE  IInv'
  <1>1. PICK key \in 1..aliceKey : \E c \in Certificates(key) :
            net' = net \cup {[to |-> known, static |-> aliceKey, certificate |-> c,
                              inner |-> pending[1]]}
    BY DEF Seal
  <1>2. PICK c \in Certificates(key) :
            net' = net \cup {[to |-> known, static |-> aliceKey, certificate |-> c,
                              inner |-> pending[1]]}
    BY <1>1
  <1>3. c.expires \in Nat
    BY <1>2, BoundsAssumption DEF Certificates
  <1>4. /\ pending # <<>> /\ pending' = <<>>
        /\ UNCHANGED <<time, aliceKey, bobKey, known, session, made, delivered>>
    BY DEF Seal, bob
  <1>5. NetInv'
    BY <1>2, <1>3, <1>4 DEF IInv, Numbers, PendingInv, NetInv
  <1>6. Numbers' /\ SessionInv' /\ PendingInv' /\ DeliveredIsCertified'
    BY <1>4 DEF IInv, Numbers, SessionInv, PendingInv, DeliveredIsCertified
  <1> QED BY <1>5, <1>6 DEF IInv

\* Decrypt: the certificate's key was compared with the envelope's, which is that
\* of the message's session.
LEMMA DecryptIInv ==
    ASSUME IInv, ChosenInv, NEW t \in Threads, Decrypt(t)
    PROVE  IInv'
  <1> DEFINE c == chosen[t][1]
             e == c.envelope
  <1>1. UNCHANGED <<time, aliceKey, bobKey, net, known, session, pending, made>>
    BY DEF Decrypt, alice
  <1>2. Waits(net, c)
    BY DEF Decrypt, ChosenInv
  <1>3. \A d \in delivered' : d \in delivered \/ (d.envelope = e /\ d.time = c.time)
    BY DEF Decrypt
  <1> HIDE DEF c
  <1>4. /\ e.certificate.root = "root" /\ c.time <= e.certificate.expires
        /\ e.certificate.key = e.inner.key
    BY <1>2 DEF Waits, IInv, NetInv
  <1>5. DeliveredIsCertified'
    BY <1>3, <1>4 DEF IInv, DeliveredIsCertified
  <1> QED BY SMTT(30), <1>1, <1>5 DEF IInv, Numbers, SessionInv, PendingInv, NetInv

\* The other steps change a key, the clock or Bob's stores only.
LEMMA OthersIInv ==
    ASSUME IInv,
           \/ Tick \/ Reply \/ AliceReinstalls \/ BobReinstalls \/ SaveIdentity
           \/ \E a \in Addresses : Approve(a)
           \/ \E e \in net : Refuse(e) \/ \E t \in Threads : Choose(t, e)
           \/ UNCHANGED vars
    PROVE  IInv'
  <1>1. CASE Tick
    <2>1. /\ time' = time + 1
          /\ UNCHANGED <<aliceKey, bobKey, known, session, pending, net, made, delivered>>
      BY <1>1 DEF Tick, alice, bob
    <2>2. Numbers'
      BY <2>1 DEF IInv, Numbers
    <2>3. SessionInv'
      BY <2>1 DEF IInv, SessionInv
    <2>4. PendingInv'
      BY <2>1 DEF IInv, PendingInv
    <2>5. NetInv' /\ DeliveredIsCertified'
      BY <2>1 DEF IInv, NetInv, DeliveredIsCertified
    <2> QED BY <2>2, <2>3, <2>4, <2>5 DEF IInv
  <1>2. CASE Reply
    <2>1. /\ session # <<>> /\ session' = <<[session[1] EXCEPT !.type = "WHISPER"]>>
          /\ UNCHANGED <<time, aliceKey, bobKey, known, pending, net, made, delivered>>
      BY <1>2 DEF Reply, bob
    <2>2. SessionInv'
      BY <2>1 DEF IInv, SessionInv, SessionType
    <2> QED BY <2>1, <2>2 DEF IInv, Numbers, PendingInv, NetInv, DeliveredIsCertified
  <1>3. CASE AliceReinstalls
    <2>1. /\ pending = <<>> /\ aliceKey' = aliceKey + 1 /\ session' = <<>> /\ known' = 0
          /\ UNCHANGED <<time, bobKey, pending, net, made, delivered>>
      BY <1>3 DEF AliceReinstalls, bob
    <2>2. Numbers'
      BY <2>1 DEF IInv, Numbers
    <2>3. SessionInv'
      BY <2>1 DEF IInv, SessionInv
    <2>4. PendingInv'
      BY <2>1 DEF IInv, PendingInv
    <2>5. NetInv' /\ DeliveredIsCertified'
      BY <2>1 DEF IInv, NetInv, DeliveredIsCertified
    <2> QED BY <2>2, <2>3, <2>4, <2>5 DEF IInv
  <1>4. CASE BobReinstalls
    <2>1. /\ bobKey' = bobKey + 1
          /\ UNCHANGED <<time, aliceKey, known, session, pending, net, made, delivered>>
      BY <1>4 DEF BobReinstalls, alice
    <2>2. Numbers'
      BY <2>1 DEF IInv, Numbers
    <2>3. SessionInv'
      BY <2>1 DEF IInv, SessionInv
    <2>4. PendingInv'
      BY <2>1 DEF IInv, PendingInv
    <2>5. NetInv' /\ DeliveredIsCertified'
      BY <2>1 DEF IInv, Numbers, NetInv, DeliveredIsCertified
    <2> QED BY <2>2, <2>3, <2>4, <2>5 DEF IInv
  <1>5. CASE SaveIdentity
    <2>1. /\ known' = bobKey
          /\ UNCHANGED <<time, aliceKey, bobKey, session, pending, net, made, delivered>>
      BY <1>5 DEF SaveIdentity, bob
    <2>2. Numbers'
      BY <2>1 DEF IInv, Numbers
    <2>3. SessionInv'
      BY <2>1 DEF IInv, Numbers, SessionInv, SessionType
    <2>4. PendingInv'
      BY <2>1 DEF IInv, Numbers, PendingInv
    <2>5. NetInv' /\ DeliveredIsCertified'
      BY <2>1 DEF IInv, NetInv, DeliveredIsCertified
    <2> QED BY <2>2, <2>3, <2>4, <2>5 DEF IInv
  <1>6. CASE \/ \E a \in Addresses : Approve(a)
             \/ \E e \in net : Refuse(e) \/ \E t \in Threads : Choose(t, e)
             \/ UNCHANGED vars
    <2>1. UNCHANGED <<time, aliceKey, bobKey, known, session, pending, net, made, delivered>>
      BY <1>6 DEF Approve, Refuse, Choose, vars, alice, bob
    <2> QED BY <2>1 DEF IInv, Numbers, SessionInv, PendingInv, NetInv, DeliveredIsCertified
  <1> QED BY <1>1, <1>2, <1>3, <1>4, <1>5, <1>6

\* A choice is right when it is made, whichever records change before it is used.
LEMMA ChooseChosenInv ==
    ASSUME IInv, ChosenInv, NEW t \in Threads, NEW e \in net, Choose(t, e)
    PROVE  ChosenInv'
  <1> DEFINE c == [envelope |-> e, time |-> time, address |-> getPreferredAddress(e.certificate),
                   uuid |-> record["uuid"] # {}]
  <1>1. chosen' = [chosen EXCEPT ![t] = <<c>>] /\ net' = net /\ Opens(e, time)
    BY DEF Choose
  <1>2. e.certificate.root = "root" /\ time <= e.certificate.expires
        /\ e.certificate.key = e.static
    BY <1>1 DEF Opens, validate, IInv, Numbers, NetInv
  <1>3. Waits(net, c)
    BY <1>2 DEF Waits, getPreferredAddress, Addresses
  <1> HIDE DEF c
  <1>4. \A u \in Threads : chosen[u] # <<>> => Waits(net, chosen[u][1])
    BY DEF ChosenInv
  <1>5. DOMAIN chosen' = Threads
    BY <1>1 DEF ChosenInv
  <1>6. ASSUME NEW u \in Threads, chosen'[u] # <<>>
        PROVE  Waits(net', chosen'[u][1])
    <2>1. CASE u = t
      <3>1. chosen'[u][1] = c
        BY <1>1, <2>1 DEF ChosenInv
      <3> QED BY <3>1, <1>1, <1>3
    <2>2. CASE u # t
      <3>1. chosen'[u] = chosen[u]
        BY <1>1, <2>2 DEF ChosenInv
      <3> QED BY <3>1, <1>1, <1>4, <1>6
    <2> QED BY <2>1, <2>2
  <1> QED BY <1>5, <1>6 DEF ChosenInv

\* No other step makes a choice, and the envelopes stay.
LEMMA NextChosenInv ==
    ASSUME IInv, ChosenInv, [Next]_vars
    PROVE  ChosenInv'
  <1>1. CASE \E e \in net, t \in Threads : Choose(t, e)
    BY <1>1, ChooseChosenInv
  <1>2. CASE \E t \in Threads : Decrypt(t)
    <2>1. PICK t \in Threads : chosen' = [chosen EXCEPT ![t] = <<>>] /\ net' = net
      BY <1>2 DEF Decrypt
    <2> QED BY <2>1 DEF ChosenInv, Waits
  <1>3. CASE BobReinstalls
    BY <1>3 DEF BobReinstalls, ChosenInv
  <1>4. CASE \/ Tick \/ NewSession \/ AliceReinstalls \/ SaveIdentity
             \/ Reply \/ EncryptInner \/ Seal
             \/ \E a \in Addresses : BobStarts(a) \/ Approve(a)
             \/ \E e \in net : Refuse(e)
             \/ UNCHANGED vars
    <2>1. chosen' = chosen
      BY <1>4 DEF Tick, NewSession, AliceReinstalls, SaveIdentity, Reply, EncryptInner, Seal,
                  BobStarts, Approve, Refuse, vars, bob
    <2>2. net \subseteq net'
      BY <1>4 DEF Tick, NewSession, AliceReinstalls, SaveIdentity, Reply, EncryptInner, Seal,
                  BobStarts, Approve, Refuse, vars
    <2> QED BY <2>1, <2>2 DEF ChosenInv, Waits
  <1> QED BY <1>1, <1>2, <1>3, <1>4 DEF Next

\* Both hold at first, and no step of Alice, Bob, the service or the network
\* breaks them.
LEMMA AlwaysIInv == Spec => [](IInv /\ ChosenInv)
  <1>1. Init => ChosenInv
    BY DEF Init, ChosenInv
  <1>2. IInv /\ ChosenInv /\ [Next]_vars => (IInv /\ ChosenInv)'
    BY NextChosenInv, SessionMadeIInv, EncryptInnerIInv, SealIInv, DecryptIInv, OthersIInv
       DEF Next
  <1> QED BY <1>1, <1>2, InitIInv, PTL DEF Spec

\* What Bob is handed was sealed under a certificate that held, for the very key
\* of the session it was encrypted with.
THEOREM CertificateIsTheSessions == Spec => []DeliveredIsCertified
  <1>1. IInv => DeliveredIsCertified
    BY DEF IInv
  <1> QED BY <1>1, AlwaysIInv, PTL

\* Reading the identity again after the session's lock is released seals no
\* message for a key that its reader does not have.
THEOREM SealedForTheReader == Spec => []SealedForSession
  <1>1. IInv => SealedForSession
    BY DEF IInv, NetInv, SealedForSession, Numbers
  <1> QED BY <1>1, AlwaysIInv, PTL
----------------------------------------------------------------------------
(***************************************************************************)
(* What Bob reads twice, and what Bob misses.  A session's number stands   *)
(* for the session everywhere: whoever holds it agrees on the identity it  *)
(* is with and on its one-time pre-key.                                    *)
(***************************************************************************)
About(id, peer, o) == [session |-> id, peer |-> peer, oneTime |-> o]

\* What a message says of its session.
Stated(m) == About(m.session, m.peer, m.oneTime)

\* What Alice's session, the message to be sealed and the envelopes say.
Statements ==
    {Stated(e.inner) : e \in net}
        \cup (IF pending = <<>> THEN {} ELSE {Stated(pending[1])})
        \cup (IF session = <<>> THEN {}
              ELSE {About(session[1].id, session[1].peer, session[1].oneTime)})

\* They name sessions that were made, and do not contradict each other.
Agree ==
    \A x, y \in Statements :
        x.session \in 1..made /\ (x.session = y.session => x = y)

\* Bob's records hold sessions with Bob's present identity; one with a one-time
\* pre-key is under one address only, and its pre-key is used.
RecordsInv ==
    /\ record \in [Addresses -> SUBSET (1..made)]
    /\ oneTime \subseteq 1..made
    /\ received \in [Addresses -> SUBSET {e.inner : e \in net}]
    /\ \A x \in Statements, a \in Addresses :
          x.session \in record[a] =>
              /\ x.peer = bobKey
              /\ x.oneTime => /\ x.session \in oneTime
                              /\ \A b \in Addresses : x.session \in record[b] => b = a

\* A text was read under the identity it was encrypted for; while Bob has that
\* identity, the record it was read with remembers it.
DeliveredInv ==
    \A d \in delivered :
        /\ d.envelope \in net /\ d.address \in Addresses
        /\ d.bob \in Nat /\ d.bob <= bobKey /\ d.envelope.inner.peer = d.bob
        /\ d.bob = bobKey => /\ d.envelope.inner \in received[d.address]
                             /\ d.envelope.inner.session \in record[d.address]

\* A certificate names Alice by the two addresses only.
NamesInv == \A e \in net : e.certificate.names \subseteq Addresses

\* The invariant for what is read twice or missed.
ReadInv ==
    /\ Agree /\ RecordsInv /\ DeliveredInv /\ NamesInv
    /\ AgainOnlyAcrossAddresses /\ MissedBehindUuidOrTooLate

\* A step that says nothing new about sessions and leaves Bob's stores alone.
LEMMA QuietReadInv ==
    ASSUME ReadInv, Statements' \subseteq Statements, net \subseteq net', NamesInv',
           UNCHANGED <<bobKey, made, record, oneTime, received, delivered>>,
           missed' = missed \/ missed' = {}
    PROVE  ReadInv'
  <1>1. Agree'
    BY DEF ReadInv, Agree
  <1>2. RecordsInv'
    <2>1. received' \in [Addresses -> SUBSET {e.inner : e \in net'}]
      BY DEF ReadInv, RecordsInv
    <2> QED BY <2>1 DEF ReadInv, RecordsInv
  <1>3. DeliveredInv'
    BY DEF ReadInv, DeliveredInv
  <1>4. AgainOnlyAcrossAddresses' /\ MissedBehindUuidOrTooLate'
    BY DEF ReadInv, AgainOnlyAcrossAddresses, MissedBehindUuidOrTooLate
  <1> QED BY <1>1, <1>2, <1>3, <1>4 DEF ReadInv

\* NewSession and BobStarts: the number is new, so no statement, record or
\* delivery is about it.
LEMMA SessionMadeReadInv ==
    ASSUME IInv, ReadInv, NewSession \/ \E a \in Addresses : BobStarts(a)
    PROVE  ReadInv'
  <1>1. PICK o \in BOOLEAN, t \in {"PREKEY", "WHISPER"} :
            session' = <<[id |-> made + 1, peer |-> bobKey, key |-> aliceKey, oneTime |-> o,
                          type |-> t, sent |-> 0]>>
    BY DEF NewSession, BobStarts
  <1>2. /\ made' = made + 1
        /\ UNCHANGED <<bobKey, pending, net, received, oneTime, delivered, missed>>
        /\ \/ record' = record
           \/ session'[1].oneTime = FALSE
              /\ \E a \in Addresses : record' = [record EXCEPT ![a] = @ \cup {made + 1}]
    BY DEF NewSession, BobStarts, bob
  <1>3. made \in Nat
    BY DEF IInv, Numbers
  <1>4. Statements' \subseteq Statements \cup {About(made + 1, bobKey, o)}
    BY <1>1, <1>2 DEF Statements
  <1>5. /\ About(made + 1, bobKey, o).session = made + 1
        /\ About(made + 1, bobKey, o).peer = bobKey
        /\ About(made + 1, bobKey, o).oneTime = o
        /\ \A x \in Statements : x.session \in 1..made /\ x.session # made + 1
    BY <1>3 DEF About, ReadInv, Agree
  <1>6. Agree'
    <2> SUFFICES ASSUME NEW x \in Statements', NEW y \in Statements'
                 PROVE  x.session \in 1..made' /\ (x.session = y.session => x = y)
      BY DEF Agree
    <2> QED BY <1>2, <1>3, <1>4, <1>5 DEF ReadInv, Agree
  <1>7. record' \in [Addresses -> SUBSET (1..made')] /\ oneTime' \subseteq 1..made'
    BY <1>2, <1>3 DEF ReadInv, RecordsInv
  <1>8. \A a \in Addresses : record[a] \subseteq record'[a] /\ made + 1 \notin record[a]
                               /\ record'[a] \subseteq record[a] \cup {made + 1}
    BY <1>2, <1>3 DEF ReadInv, RecordsInv
  <1>9. ASSUME NEW x \in Statements', NEW a \in Addresses, x.session \in record'[a]
        PROVE  /\ x.peer = bobKey'
               /\ x.oneTime => /\ x.session \in oneTime'
                               /\ \A b \in Addresses : x.session \in record'[b] => b = a
    <2>1. CASE x \in Statements
      BY <2>1, <1>2, <1>5, <1>8, <1>9 DEF ReadInv, RecordsInv
    <2>2. CASE x = About(made + 1, bobKey, o)
      <3>1. record' # record
        BY <2>2, <1>5, <1>8, <1>9
      <3>2. ~o
        BY SMTT(30), <3>1, <1>1, <1>2
      <3> QED BY SMTT(30), <3>2, <2>2, <1>2, <1>5
    <2> QED BY SMTT(30), <2>1, <2>2, <1>4
  <1>10. RecordsInv'
    BY SMTT(30), <1>2, <1>7, <1>9 DEF ReadInv, RecordsInv
  <1>11. DeliveredInv' /\ NamesInv'
    BY <1>2, <1>8 DEF ReadInv, DeliveredInv, NamesInv
  <1>12. AgainOnlyAcrossAddresses' /\ MissedBehindUuidOrTooLate'
    BY <1>2 DEF ReadInv, AgainOnlyAcrossAddresses, MissedBehindUuidOrTooLate
  <1> QED BY <1>6, <1>10, <1>11, <1>12 DEF ReadInv

\* Decrypt: the session of the text is with Bob's present identity, so whatever
\* was handed over of it before, the record it was read with remembers.
LEMMA DecryptReadInv ==
    ASSUME IInv, ChosenInv, ReadInv, NEW t \in Threads, Decrypt(t)
    PROVE  ReadInv'
  <1> DEFINE c == chosen[t][1]
             a == c.address
             e == c.envelope
             m == e.inner
             x == Stated(m)
             d == [envelope |-> e, address |-> a, time |-> c.time, bob |-> bobKey]
  <1>w. Waits(net, c)
    BY DEF Decrypt, ChosenInv
  <1>1. UNCHANGED <<time, bobKey, net, session, pending, made>> /\ bobKey \in Nat
    BY DEF Decrypt, alice, IInv, Numbers
  <1>2. /\ e \in net /\ a \in Addresses /\ x \in Statements /\ x.session = m.session
        /\ x.peer = m.peer /\ x.oneTime = m.oneTime
    BY <1>w DEF Waits, Statements, Stated, About
  <1>3. Statements' = Statements
    BY <1>1 DEF Statements
  <1>4. Agree' /\ NamesInv'
    BY <1>1, <1>3 DEF ReadInv, Agree, NamesInv
  <1>5. CASE ~CanRead(a, m)
    <2>1. /\ missed' = {[under |-> b, asked |-> a, uuid |-> c.uuid] :
                           b \in {b \in e.certificate.names :
                                    CanRead(b, m) /\ m.session \in record[b]}}
          /\ UNCHANGED <<record, trusted, received, oneTime, delivered>>
      BY <1>5 DEF Decrypt
    <2>2. RecordsInv' /\ DeliveredInv' /\ AgainOnlyAcrossAddresses'
      BY <1>1, <1>3, <2>1 DEF ReadInv, RecordsInv, DeliveredInv, AgainOnlyAcrossAddresses
    <2>3. e.certificate.names \subseteq {"uuid", "e164"}
      BY <1>2 DEF ReadInv, NamesInv, Addresses
    <2> HIDE DEF c
    <2>4. ASSUME NEW b \in e.certificate.names, CanRead(b, m)
          PROVE  \/ b = "e164" /\ a = "uuid" /\ c.uuid
                 \/ b = "uuid" /\ a = "e164" /\ ~c.uuid
      BY <1>w, <1>2, <1>5, <2>3, <2>4 DEF Waits, Addresses
    <2>5. MissedBehindUuidOrTooLate'
      BY <2>1, <2>4 DEF MissedBehindUuidOrTooLate
    <2> QED BY <1>4, <2>2, <2>5 DEF ReadInv
  <1>6. CASE CanRead(a, m)
    <2>1. /\ record' = [record EXCEPT ![a] = @ \cup {m.session}]
          /\ received' = [received EXCEPT ![a] = @ \cup {m}]
          /\ oneTime' = IF m.oneTime THEN oneTime \cup {m.session} ELSE oneTime
          /\ delivered' = delivered \cup {d}
          /\ missed' = {}
      BY <1>6 DEF Decrypt
    <2>2. /\ m \notin received[a]
          /\ m.session \in record[a] \/ (m.peer = bobKey /\ (m.oneTime => m.session \notin oneTime))
      BY <1>6 DEF CanRead
    <2>d. d.envelope = e /\ d.address = a /\ d.bob = bobKey /\ e.inner = m
      OBVIOUS
    <2> HIDE DEF c, a, e, m, x, d
    <2>3. m.session \in 1..made /\ m.peer = bobKey
      BY <1>2, <2>2 DEF ReadInv, Agree, RecordsInv
    <2>4. \A b \in Addresses : /\ record[b] \subseteq record'[b]
                               /\ received[b] \subseteq received'[b]
                               /\ b # a => record'[b] = record[b]
      BY <1>2, <2>1 DEF ReadInv, RecordsInv
    <2>5. record'[a] = record[a] \cup {m.session} /\ received'[a] = received[a] \cup {m}
      BY <1>2, <2>1 DEF ReadInv, RecordsInv
    <2>6. /\ record' \in [Addresses -> SUBSET (1..made)]
          /\ oneTime \subseteq oneTime' /\ oneTime' \subseteq 1..made
          /\ received' \in [Addresses -> SUBSET {f.inner : f \in net}]
      <3>1. {m} \subseteq {f.inner : f \in net}
        BY <1>2, <2>d, Zenon
      <3> QED BY <1>2, <2>1, <2>3, <3>1 DEF ReadInv, RecordsInv
    <2>7. ASSUME NEW y \in Statements, NEW f \in Addresses, y.session \in record'[f]
          PROVE  /\ y.peer = bobKey
                 /\ y.oneTime => /\ y.session \in oneTime'
                                 /\ \A b \in Addresses : y.session \in record'[b] => b = f
      <3>1. CASE y.session # m.session
        <4>1. \A b \in Addresses : y.session \in record'[b] => y.session \in record[b]
          BY <3>1, <2>4, <2>5
        <4> QED BY <4>1, <2>6, <2>7 DEF ReadInv, RecordsInv
      <3>2. CASE y.session = m.session
        <4>1. y = x
          BY <3>2, <1>2 DEF ReadInv, Agree
        <4>2. m.oneTime => m.session \in oneTime'
          BY <2>1
        <4>3. ASSUME m.oneTime, NEW b \in Addresses, m.session \in record[b]
              PROVE  b = a
          BY <4>3, <1>2, <2>2 DEF ReadInv, RecordsInv
        <4> QED BY <4>1, <4>2, <4>3, <1>2, <2>3, <2>4, <2>7
      <3> QED BY <3>1, <3>2
    <2>8. RecordsInv'
      BY <1>1, <1>3, <2>6, <2>7 DEF RecordsInv
    <2>9. DeliveredInv'
      <3> SUFFICES ASSUME NEW f \in delivered'
                   PROVE  /\ f.envelope \in net /\ f.address \in Addresses
                          /\ f.bob \in Nat /\ f.bob <= bobKey /\ f.envelope.inner.peer = f.bob
                          /\ f.bob = bobKey =>
                                /\ f.envelope.inner \in received'[f.address]
                                /\ f.envelope.inner.session \in record'[f.address]
        BY <1>1 DEF DeliveredInv
      <3>1. CASE f \in delivered
        BY <3>1, <2>4 DEF ReadInv, DeliveredInv
      <3>2. CASE f = d
        BY <3>2, <1>1, <1>2, <2>d, <2>3, <2>5
      <3> QED BY <3>1, <3>2, <2>1
    <2>10. ASSUME NEW f \in delivered, f.envelope.inner = m
           PROVE  {f.address, a} = Addresses /\ ~m.oneTime
      <3>1. f.address \in Addresses /\ m \in received[f.address] /\ m.session \in record[f.address]
        BY <2>3, <2>10 DEF ReadInv, DeliveredInv
      <3>2. f.address # a
        BY <3>1, <2>2
      <3>3. ~m.oneTime
        BY <3>1, <3>2, <1>2, <2>2 DEF ReadInv, RecordsInv
      <3> QED BY <3>1, <3>2, <3>3, <1>2 DEF Addresses
    <2>11. AgainOnlyAcrossAddresses'
      <3> SUFFICES ASSUME NEW d1 \in delivered', NEW d2 \in delivered',
                          d1.envelope.inner = d2.envelope.inner, d1 # d2
                   PROVE  {d1.address, d2.address} = Addresses /\ ~d1.envelope.inner.oneTime
        BY DEF AgainOnlyAcrossAddresses
      <3>1. CASE d1 \in delivered /\ d2 \in delivered
        BY <3>1 DEF ReadInv, AgainOnlyAcrossAddresses
      <3>2. CASE d1 = d /\ d2 \in delivered
        BY <3>2, <2>d, <2>10
      <3>3. CASE d2 = d /\ d1 \in delivered
        BY <3>3, <2>d, <2>10
      <3> QED BY <3>1, <3>2, <3>3, <2>1
    <2>12. MissedBehindUuidOrTooLate'
      BY <2>1 DEF MissedBehindUuidOrTooLate
    <2> QED BY <1>4, <2>8, <2>9, <2>11, <2>12 DEF ReadInv
  <1> QED BY <1>5, <1>6

\* Bob's new installation has read nothing yet, and what the old one read was
\* for another identity.
LEMMA BobReinstallsReadInv ==
    ASSUME IInv, ReadInv, BobReinstalls
    PROVE  ReadInv'
  <1>1. /\ bobKey \in Nat /\ bobKey' = bobKey + 1
        /\ record' = [b \in Addresses |-> {}] /\ received' = [b \in Addresses |-> {}]
        /\ oneTime' = {} /\ missed' = {}
        /\ UNCHANGED <<net, session, pending, made, delivered>>
    BY DEF BobReinstalls, alice, IInv, Numbers
  <1>2. Statements' = Statements
    BY <1>1 DEF Statements
  <1>3. Agree' /\ NamesInv' /\ AgainOnlyAcrossAddresses' /\ MissedBehindUuidOrTooLate'
    BY <1>1, <1>2 DEF ReadInv, Agree, NamesInv, AgainOnlyAcrossAddresses, MissedBehindUuidOrTooLate
  <1>4. RecordsInv'
    BY <1>1 DEF RecordsInv
  <1>5. DeliveredInv'
    BY <1>1 DEF ReadInv, DeliveredInv
  <1> QED BY <1>3, <1>4, <1>5 DEF ReadInv

\* EncryptInner and Seal hand on what the session says of itself.
LEMMA SealedReadInv ==
    ASSUME IInv, ReadInv, EncryptInner \/ Seal
    PROVE  ReadInv'
  <1>1. CASE EncryptInner
    <2>1. /\ session # <<>> /\ pending' # <<>>
          /\ Stated(pending'[1]) = About(session[1].id, session[1].peer, session[1].oneTime)
          /\ session' = <<[session[1] EXCEPT !.sent = @ + 1]>>
          /\ UNCHANGED <<bobKey, net, made, record, oneTime, received, delivered, missed>>
      BY <1>1 DEF EncryptInner, bob, Stated
    <2>2. session[1] \in SessionType
      BY <2>1 DEF IInv, SessionInv
    <2>3. /\ session'[1].id = session[1].id /\ session'[1].peer = session[1].peer
          /\ session'[1].oneTime = session[1].oneTime
      BY <2>1, <2>2 DEF SessionType
    <2>4. Statements' \subseteq Statements
      BY <2>1, <2>3 DEF Statements
    <2> QED BY <2>1, <2>4, QuietReadInv DEF ReadInv, NamesInv
  <1>2. CASE Seal
    <2>1. PICK key \in 1..aliceKey : \E c \in Certificates(key) :
              net' = net \cup {[to |-> known, static |-> aliceKey, certificate |-> c,
                                inner |-> pending[1]]}
      BY <1>2 DEF Seal
    <2>2. PICK c \in Certificates(key) :
              net' = net \cup {[to |-> known, static |-> aliceKey, certificate |-> c,
                                inner |-> pending[1]]}
      BY <2>1
    <2>3. c.names \subseteq Addresses
      <3>1. \E names \in SUBSET Addresses :
                \/ c = [key |-> key, root |-> "root", expires |-> 1, names |-> names]
                \/ c = [key |-> key, root |-> "other", expires |-> MaxTime, names |-> names]
                \/ c = [key |-> key, root |-> "root", expires |-> MaxTime, names |-> names]
        BY <2>2, Zenon DEF Certificates
      <3>2. c.names \in SUBSET Addresses
        BY <3>1
      <3> QED BY <3>2
    <2> DEFINE e == [to |-> known, static |-> aliceKey, certificate |-> c,
                     inner |-> pending[1]]
    <2>7. net' = net \cup {e} /\ e.inner = pending[1] /\ e.certificate = c
      BY <2>2
    <2> HIDE DEF e
    <2>4. /\ pending # <<>> /\ pending' = <<>>
          /\ UNCHANGED <<bobKey, session, made, record, oneTime, received, delivered, missed>>
      BY <1>2 DEF Seal, bob
    <2>5. Statements' \subseteq Statements
      <3>1. {Stated(x.inner) : x \in net'}
              = {Stated(x.inner) : x \in net} \cup {Stated(pending[1])}
        BY <2>7, Zenon
      <3> QED BY <2>4, <3>1 DEF Statements
    <2>6. net \subseteq net' /\ NamesInv'
      BY <2>3, <2>7 DEF ReadInv, NamesInv
    <2> QED BY <2>4, <2>5, <2>6, QuietReadInv
  <1> QED BY <1>1, <1>2

\* The other steps change a key, the clock or whom Bob trusts.
LEMMA OthersReadInv ==
    ASSUME IInv, ReadInv,
           \/ Tick \/ Reply \/ AliceReinstalls \/ SaveIdentity
           \/ \E a \in Addresses : Approve(a)
           \/ \E e \in net : Refuse(e) \/ \E t \in Threads : Choose(t, e)
           \/ UNCHANGED vars
    PROVE  ReadInv'
  <1>1. /\ UNCHANGED <<bobKey, net, pending, made, record, oneTime, received, delivered>>
        /\ missed' = missed \/ missed' = {}
        /\ \/ session' = session \/ session' = <<>>
           \/ session # <<>> /\ session' = <<[session[1] EXCEPT !.type = "WHISPER"]>>
    BY DEF Tick, Reply, AliceReinstalls, SaveIdentity, Approve, Refuse, Choose, vars, alice, bob
  <1>2. Statements' \subseteq Statements
    <2>1. CASE session' = session \/ session' = <<>>
      BY <1>1, <2>1 DEF Statements
    <2>2. CASE session # <<>> /\ session' = <<[session[1] EXCEPT !.type = "WHISPER"]>>
      <3>1. session[1] \in SessionType
        BY <2>2 DEF IInv, SessionInv
      <3>2. /\ session'[1].id = session[1].id /\ session'[1].peer = session[1].peer
            /\ session'[1].oneTime = session[1].oneTime
        BY <2>2, <3>1 DEF SessionType
      <3> QED BY <1>1, <2>2, <3>2 DEF Statements
    <2> QED BY <1>1, <2>1, <2>2
  <1> QED BY <1>1, <1>2, QuietReadInv DEF ReadInv, NamesInv

\* It holds at first, and no step breaks it.
LEMMA AlwaysReadInv == Spec => []ReadInv
  <1>1. Init => ReadInv
    <2>1. Init => Statements = {}
      BY SMTT(30) DEF Init, Statements
    <2> QED BY <2>1 DEF Init, ReadInv, Agree, RecordsInv, DeliveredInv, NamesInv,
                  AgainOnlyAcrossAddresses, MissedBehindUuidOrTooLate
  <1>2. IInv /\ ChosenInv /\ ReadInv /\ [Next]_vars => ReadInv'
    BY SessionMadeReadInv, DecryptReadInv, BobReinstallsReadInv, SealedReadInv,
       OthersReadInv DEF Next
  <1> QED BY <1>1, <1>2, AlwaysIInv, PTL DEF Spec

\* Although decrypt remembers what it read per address only, Bob is handed a text
\* again at most under the other address, and never in a session that used up a
\* one-time pre-key; not even across reinstalls of either side.
THEOREM ReadAgainOnlyAcrossAddresses == Spec => []AgainOnlyAcrossAddresses
  <1>1. ReadInv => AgainOnlyAcrossAddresses
    BY DEF ReadInv
  <1> QED BY <1>1, AlwaysReadInv, PTL

\* Although the address is chosen before the lock is taken, a session is passed by
\* only if it is under the number and another was under the UUID, or if it is under
\* the UUID and there was none when the address was chosen.
THEOREM PassedByOnlyBehindUuidOrTooLate == Spec => []MissedBehindUuidOrTooLate
  <1>1. ReadInv => MissedBehindUuidOrTooLate
    BY DEF ReadInv
  <1> QED BY <1>1, AlwaysReadInv, PTL
-----------------------------------------------------------------------------
\* NothingLeaks, one address at a time.
Accounted ==
    /\ \A u \in built : handle[u] # null => handle[u] \in heap /\ handle[u] \notin orphans
    /\ generated # null => generated \in heap /\ generated \notin orphans
    /\ orphans \subseteq heap
    /\ \A m \in heap : m = generated \/ m \in orphans \/ \E u \in built : m = handle[u]

\* Whoever refers to an object can use it.
Usable == \A w \in Reachable : w \in built /\ handle[w] \in heap

\* The handle of a native method is its wrapper's until the wrapper is finalized.
LentInv == \A p \in UnderWay : p.of \in built => p.handle = handle[p.of]

\* The invariant of the Java bridge.
JniInv == TypeOK /\ Usable /\ LentInv /\ OneOwner /\ Accounted

\* It implies the properties.
LEMMA JniInvOwnedOnce ==
    ASSUME JniInv
    PROVE  OwnedOnce
  <1>1. \A m \in heap : m # null
    BY NullAssumption DEF JniInv, TypeOK
  <1>2. NothingLeaks
    <2> DEFINE owned == ({handle[w] : w \in built} \cup {generated}) \ {null}
    <2>1. \A m \in heap : m \in owned \cup orphans
      BY <1>1 DEF JniInv, Accounted
    <2>2. \A m \in owned : m \in heap /\ m \notin orphans
      BY DEF JniInv, Accounted
    <2>3. orphans \subseteq heap
      BY DEF JniInv, Accounted
    <2> HIDE DEF owned
    <2>4. heap = owned \cup orphans /\ owned \cap orphans = {}
      BY <2>1, <2>2, <2>3
    <2> QED BY <2>4 DEF NothingLeaks, owned
  <1>3. ReachableIsUsable
    BY DEF JniInv, Usable, LentInv, ReachableIsUsable
  <1> QED BY <1>2, <1>3 DEF OwnedOnce, JniInv

\* Nothing is there at first.
LEMMA InitJniInv == JniInit => JniInv
  BY DEF JniInit, JniInv, TypeOK, Usable, LentInv, OneOwner, Accounted, Reachable, UnderWay

\* References: a step may let some go, and may add the objects ws.
Refers(ws) == Reachable' \subseteq Reachable \cup ws /\ loaded' \subseteq local'

\* A step that neither makes nor frees anything: it moves references to objects
\* that are in use, and lends the handles of such objects.
LEMMA QuietJniInv ==
    ASSUME JniInv, Refers({}), UNCHANGED <<heap, built, handle, generated, orphans>>,
           UnderWay' \subseteq UnderWay \cup {[of |-> w, handle |-> handle[w]] : w \in held}
    PROVE  JniInv'
  <1>1. held \subseteq Reachable /\ Reachable' \subseteq Reachable
    BY DEF Refers, Reachable
  <1>2. Usable'
    BY <1>1 DEF JniInv, Usable
  <1>3. ASSUME NEW p \in UnderWay'
        PROVE  /\ p \in [of : Wrappers, handle : Memory]
               /\ p.of \in built' => p.handle = handle'[p.of]
    <2>1. CASE p \in UnderWay
      BY <2>1 DEF JniInv, TypeOK, LentInv
    <2>2. CASE \E w \in held : p = [of |-> w, handle |-> handle[w]]
      BY <2>2, <1>1 DEF JniInv, TypeOK, Usable
    <2> QED BY <2>1, <2>2
  <1>4. LentInv' /\ UnderWay' \subseteq [of : Wrappers, handle : Memory]
    BY <1>3 DEF LentInv
  <1>5. held' \subseteq Wrappers /\ kept' \subseteq Wrappers /\ local' \subseteq Wrappers
    BY <1>1 DEF Reachable, JniInv, TypeOK
  <1>6. TypeOK'
    BY <1>4, <1>5 DEF JniInv, TypeOK, Refers
  <1> QED BY <1>2, <1>4, <1>6 DEF JniInv, OneOwner, Accounted

\* A step that makes a wrapper for a new address.
Adds(w, m) ==
    /\ w \in Fresh /\ m \in Memory \ heap
    /\ heap' = heap \cup {m} /\ built' = built \cup {w}
    /\ handle' = [handle EXCEPT ![w] = m]
    /\ UNCHANGED <<generated, orphans>>
    /\ UnderWay' \subseteq UnderWay /\ Refers({w})

\* A wrapper for a new address (a constructor, a method that wraps its result
\* or jobject_from_native_handle) owns it alone, and the others keep theirs.
LEMMA AddsJniInv ==
    ASSUME JniInv, NEW w, NEW m, Adds(w, m)
    PROVE  JniInv'
  <1>1. /\ handle \in [Wrappers -> Memory \cup {null}] /\ built \subseteq Wrappers
        /\ heap \subseteq Memory /\ w \in Wrappers /\ w \notin built
        /\ m \in Memory /\ m \notin heap /\ m # null
        /\ \A p \in UnderWay : p.of # w
    BY NullAssumption DEF JniInv, TypeOK, Adds, Fresh
  <1>2. /\ handle'[w] = m
        /\ \A u \in built : handle'[u] = handle[u]
        /\ handle' \in [Wrappers -> Memory \cup {null}]
    BY <1>1 DEF Adds
  <1>3. (\A u \in built : handle[u] # m) /\ generated # m /\ m \notin orphans
    BY <1>1 DEF JniInv, Accounted
  <1>4. OneOwner'
    BY <1>1, <1>2, <1>3 DEF OneOwner, Adds, JniInv
  <1>5. Accounted'
    BY <1>1, <1>2, <1>3 DEF Accounted, Adds, JniInv
  <1>6. LentInv'
    BY <1>1, <1>2 DEF LentInv, Adds, JniInv
  <1>7. Usable'
    BY <1>1, <1>2 DEF Usable, Adds, Refers, JniInv
  <1>8. held' \subseteq Wrappers /\ kept' \subseteq Wrappers /\ local' \subseteq Wrappers
    <2>1. Reachable' \subseteq Wrappers
      BY <1>1 DEF Adds, Refers, Reachable, JniInv, TypeOK
    <2> QED BY <2>1 DEF Reachable
  <1>9. TypeOK'
    BY <1>1, <1>2, <1>8 DEF TypeOK, Adds, Refers, JniInv
  <1> QED BY <1>4, <1>5, <1>6, <1>7, <1>9 DEF JniInv

\* A constructor that throws leaves a wrapper that owns nothing.
LEMMA ConstructJniInv ==
    ASSUME JniInv, NEW e, NEW w \in Wrappers, Construct(e, w), method' \subseteq method
    PROVE  JniInv'
  <1>1. /\ UnderWay' \subseteq UnderWay /\ w \in Fresh
        /\ UNCHANGED <<kept, local, calling, loaded, generated, orphans>>
    BY DEF Construct, UnderWay
  <1>2. CASE e = "none"
    <2>1. PICK m \in Memory \ heap :
              /\ heap' = heap \cup {m} /\ built' = built \cup {w}
              /\ handle' = [handle EXCEPT ![w] = m] /\ held' = held \cup {w}
      BY <1>2 DEF Construct
    <2>2. Refers({w})
      BY <1>1, <2>1 DEF Refers, Reachable, JniInv, TypeOK
    <2> QED BY <1>1, <2>1, <2>2, AddsJniInv DEF Adds
  <1>3. CASE e # "none"
    <2>1. /\ built' = built \cup {w} /\ handle' = [handle EXCEPT ![w] = null]
          /\ UNCHANGED <<heap, held>>
      BY <1>3 DEF Construct
    <2>2. /\ w \notin built /\ handle'[w] = null
          /\ \A u \in built : handle'[u] = handle[u]
          /\ handle' \in [Wrappers -> Memory \cup {null}]
          /\ \A p \in UnderWay : p.of # w
      BY <1>1, <2>1 DEF JniInv, TypeOK, Fresh
    <2>3. TypeOK'
      BY <1>1, <2>1, <2>2 DEF JniInv, TypeOK
    <2>4. Usable'
      BY <1>1, <2>1, <2>2 DEF JniInv, Usable, Reachable
    <2>5. OneOwner'
      BY <1>1, <2>1, <2>2 DEF JniInv, OneOwner
    <2>6. Accounted'
      BY <1>1, <2>1, <2>2 DEF JniInv, Accounted
    <2>7. LentInv'
      BY <1>1, <2>1, <2>2 DEF JniInv, LentInv
    <2> QED BY <2>3, <2>4, <2>5, <2>6, <2>7 DEF JniInv
  <1> QED BY <1>2, <1>3

\* Wrap: a wrapper with a new object, or nothing.
LEMMA WrapJniInv ==
    ASSUME JniInv, NEW e, NEW w \in Wrappers, Wrap(e, w), method' \subseteq method
    PROVE  JniInv'
  <1>1. /\ UnderWay' \subseteq UnderWay /\ w \in Fresh
        /\ UNCHANGED <<kept, local, calling, loaded, generated, orphans>>
    BY DEF Wrap, UnderWay
  <1>2. CASE e = "none"
    <2>1. PICK m \in Memory \ heap :
              /\ heap' = heap \cup {m} /\ built' = built \cup {w}
              /\ handle' = [handle EXCEPT ![w] = m] /\ held' = held \cup {w}
      BY <1>2 DEF Wrap
    <2>2. Refers({w})
      BY <1>1, <2>1 DEF Refers, Reachable, JniInv, TypeOK
    <2> QED BY <1>1, <2>1, <2>2, AddsJniInv DEF Adds
  <1>3. CASE e # "none"
    <2>1. UNCHANGED <<heap, built, handle, held>>
      BY <1>3 DEF Wrap
    <2>2. Refers({})
      BY <1>1, <2>1 DEF Refers, Reachable, JniInv, TypeOK
    <2> QED BY <1>1, <2>1, <2>2, QuietJniInv
  <1> QED BY <1>2, <1>3

\* A new address of the generator's, or of nobody: when a Java object cannot be
\* made.
Takes(m) ==
    /\ m \in Memory \ heap /\ heap' = heap \cup {m}
    /\ UNCHANGED <<built, handle>>
    /\ \/ generated = null /\ generated' = m /\ orphans' = orphans
       \/ generated' = generated /\ orphans' = orphans \cup {m}
    /\ UnderWay' \subseteq UnderWay /\ Refers({})

\* No wrapper has it.
LEMMA TakesJniInv ==
    ASSUME JniInv, NEW m, Takes(m)
    PROVE  JniInv'
  <1>1. /\ m \in Memory /\ m \notin heap /\ m # null /\ heap' = heap \cup {m}
        /\ built' = built /\ handle' = handle
    BY NullAssumption DEF Takes
  <1>2. /\ (\A u \in built : handle[u] # m) /\ generated # m /\ m \notin orphans
        /\ null \notin heap
    BY <1>1, NullAssumption DEF JniInv, Accounted, TypeOK
  <1>3. OneOwner'
    BY <1>1, <1>2 DEF OneOwner, Takes, JniInv
  <1>4. Accounted'
    <2>1. CASE generated = null /\ generated' = m /\ orphans' = orphans
      BY <1>1, <1>2, <2>1 DEF Accounted, JniInv
    <2>2. CASE generated' = generated /\ orphans' = orphans \cup {m}
      BY <1>1, <1>2, <2>2 DEF Accounted, JniInv
    <2> QED BY <2>1, <2>2 DEF Takes
  <1>5. LentInv' /\ Usable'
    BY <1>1 DEF LentInv, Usable, Takes, Refers, JniInv
  <1>6. held' \subseteq Wrappers /\ kept' \subseteq Wrappers /\ local' \subseteq Wrappers
    <2>1. Reachable' \subseteq Wrappers
      BY DEF Takes, Refers, Reachable, JniInv, TypeOK
    <2> QED BY <2>1 DEF Reachable
  <1>7. TypeOK'
    BY <1>1, <1>6 DEF TypeOK, Takes, Refers, JniInv
  <1> QED BY <1>3, <1>4, <1>5, <1>7 DEF JniInv

\* Generate: the new address is the generator's.
LEMMA GenerateJniInv ==
    ASSUME JniInv, NEW e, Generate(e), method' \subseteq method
    PROVE  JniInv'
  <1>1. /\ UNCHANGED <<built, handle, held, kept, local, calling, loaded, orphans>>
        /\ generated = null
        /\ \/ UNCHANGED <<heap, generated>>
           \/ \E m \in Memory \ heap : heap' = heap \cup {m} /\ generated' = m
    BY DEF Generate
  <1>2. UnderWay' \subseteq UnderWay /\ Refers({})
    BY <1>1 DEF UnderWay, Refers, Reachable, JniInv, TypeOK
  <1>3. CASE UNCHANGED <<heap, generated>>
    BY <1>1, <1>2, <1>3, QuietJniInv
  <1>4. CASE \E m \in Memory \ heap : heap' = heap \cup {m} /\ generated' = m
    BY <1>1, <1>2, <1>4, TakesJniInv DEF Takes
  <1> QED BY <1>1, <1>3, <1>4

\* Generated: what createFor destroys is no wrapper's.
LEMMA GeneratedJniInv ==
    ASSUME JniInv, Generated
    PROVE  JniInv'
  <1>1. /\ UNCHANGED <<built, handle, held, kept, local, method, calling, loaded, orphans>>
        /\ generated # null /\ generated' = null /\ heap' = heap \ {generated}
    BY DEF Generated
  <1>2. /\ \A u \in built : handle[u] # null => handle[u] # generated
        /\ generated \notin orphans /\ null \notin heap
    BY <1>1, NullAssumption DEF JniInv, OneOwner, Accounted, TypeOK
  <1>3. TypeOK' /\ LentInv'
    BY <1>1 DEF JniInv, TypeOK, LentInv, UnderWay
  <1>4. Usable'
    BY <1>1, <1>2 DEF JniInv, Usable, Reachable
  <1>5. OneOwner'
    BY <1>1 DEF JniInv, OneOwner
  <1>6. Accounted'
    BY <1>1, <1>2 DEF JniInv, Accounted
  <1> QED BY <1>3, <1>4, <1>5, <1>6 DEF JniInv

\* Finalize: what a finalizer frees is no other wrapper's, reachable or not; a
\* method that has it was called with a wrapper nobody refers to any more.
LEMMA FinalizeJniInv ==
    ASSUME JniInv, NEW w \in Wrappers, Finalize(w)
    PROVE  JniInv'
  <1>1. /\ UNCHANGED <<held, kept, local, method, calling, loaded, generated, orphans>>
        /\ w \in built /\ w \notin Reachable
        /\ built' = built \ {w} /\ handle' = [handle EXCEPT ![w] = null]
        /\ heap' = IF handle[w] = null THEN heap ELSE heap \ {handle[w]}
    BY DEF Finalize, jni_fn_destroy
  <1>2. /\ handle \in [Wrappers -> Memory \cup {null}] /\ built \subseteq Wrappers
        /\ heap \subseteq Memory
    BY DEF JniInv, TypeOK
  <1>3. /\ \A u \in built' : u \in built /\ u # w /\ handle'[u] = handle[u]
        /\ handle' \in [Wrappers -> Memory \cup {null}]
    BY <1>1, <1>2
  <1>4. /\ \A u \in built' : handle[w] # null => handle[u] # handle[w]
        /\ handle[w] # null => generated # handle[w] /\ handle[w] \notin orphans
    BY <1>1, <1>3 DEF JniInv, OneOwner, Accounted
  <1>5. TypeOK'
    BY <1>1, <1>2, <1>3 DEF JniInv, TypeOK, UnderWay
  <1>6. Usable'
    BY <1>1, <1>3, <1>4 DEF JniInv, Usable, Reachable
  <1>7. OneOwner'
    BY <1>1, <1>3 DEF JniInv, OneOwner
  <1>8. Accounted'
    <2>1. \A u \in built' : handle'[u] # null => handle'[u] \in heap' /\ handle'[u] \notin orphans'
      BY <1>1, <1>3, <1>4 DEF JniInv, Accounted
    <2>2. /\ generated' # null => generated' \in heap' /\ generated' \notin orphans'
          /\ orphans' \subseteq heap'
      BY <1>1, <1>4 DEF JniInv, Accounted
    <2>3. ASSUME NEW m \in heap'
          PROVE  m = generated' \/ m \in orphans' \/ \E u \in built' : m = handle'[u]
      <3>1. m \in heap /\ (handle[w] # null => m # handle[w]) /\ m # null
        BY <1>1, <1>2, NullAssumption
      <3>2. m = generated \/ m \in orphans \/ \E u \in built : m = handle[u]
        BY <3>1 DEF JniInv, Accounted
      <3>3. ASSUME NEW u \in built, m = handle[u]
            PROVE  u \in built' /\ m = handle'[u]
        BY <1>1, <1>3, <3>1, <3>3
      <3> QED BY <1>1, <3>2, <3>3
    <2> QED BY <2>1, <2>2, <2>3 DEF Accounted
  <1>9. LentInv'
    BY <1>1, <1>3 DEF JniInv, LentInv, UnderWay
  <1> QED BY <1>5, <1>6, <1>7, <1>8, <1>9 DEF JniInv

\* A call that uses stores boxes an object for Java: a new wrapper's, or nobody's.
LEMMA JobjectJniInv ==
    ASSUME JniInv, NEW w \in Wrappers, StoreSenderKey(w) \/ ReturnObject(w)
    PROVE  JniInv'
  <1>1. loaded = {} /\ loaded' = {} /\ UNCHANGED <<method, generated>>
    BY DEF StoreSenderKey, ReturnObject, jobject_from_native_handle
  <1>2. calling' \subseteq calling
    BY DEF StoreSenderKey, ReturnObject, Return
  <1>3. UnderWay' \subseteq UnderWay
    BY <1>1, <1>2 DEF UnderWay
  <1>4. CASE /\ jobject_from_native_handle(w, TRUE)
             /\ held' \subseteq held \cup {w} /\ kept' \subseteq kept \cup {w}
             /\ local' \subseteq local \cup {w}
    <2>1. PICK m \in Memory \ heap :
              /\ heap' = heap \cup {m} /\ built' = built \cup {w}
              /\ handle' = [handle EXCEPT ![w] = m] /\ orphans' = orphans
      BY <1>4 DEF jobject_from_native_handle
    <2>2. Refers({w}) /\ w \in Fresh
      BY <1>1, <1>4 DEF Refers, Reachable, jobject_from_native_handle
    <2> QED BY <1>1, <1>3, <2>1, <2>2, AddsJniInv DEF Adds
  <1>5. CASE /\ jobject_from_native_handle(w, FALSE)
             /\ held' = held /\ kept' = kept /\ local' = {}
    <2>1. PICK m \in Memory \ heap :
              /\ heap' = heap \cup {m} /\ built' = built /\ handle' = handle
              /\ orphans' = orphans \cup {m}
      BY <1>5 DEF jobject_from_native_handle
    <2>2. Refers({})
      BY <1>1, <1>5 DEF Refers, Reachable
    <2> QED BY <1>1, <1>3, <2>1, <2>2, TakesJniInv DEF Takes
  <1>6. CASE StoreSenderKey(w)
    BY <1>4, <1>5, <1>6 DEF StoreSenderKey, Return
  <1>7. CASE ReturnObject(w)
    BY <1>4, <1>5, <1>7 DEF ReturnObject, Return
  <1> QED BY <1>6, <1>7

\* The other steps move references to objects that are in use and lend their
\* handles, or do nothing.
LEMMA ReferencesJniInv ==
    ASSUME JniInv,
           \/ \E w \in Wrappers : Begin(w) \/ Keep(w) \/ Forget(w) \/ \E e : Enter(w, e)
           \/ Value /\ method' \subseteq method
           \/ Callback \/ get_object_with_native_handle \/ ReturnValue
           \/ UNCHANGED jniVars
    PROVE  JniInv'
  <1>1. UNCHANGED <<heap, built, handle, generated, orphans>>
    BY DEF Begin, Keep, Forget, Value, Enter, Callback, get_object_with_native_handle,
           ReturnValue, jniVars
  <1>2. /\ held' \subseteq held /\ kept' \subseteq kept \cup held
        /\ local' \subseteq local \cup kept \cup held
    BY DEF Begin, Keep, Forget, Value, Enter, Callback, get_object_with_native_handle,
           ReturnValue, Return, jniVars
  <1>3. loaded' \subseteq local'
    BY DEF JniInv, TypeOK, Begin, Keep, Forget, Value, Enter, Callback,
           get_object_with_native_handle, ReturnValue, Return, jniVars
  <1>4. /\ method' \subseteq method \cup {[of |-> w, handle |-> handle[w]] : w \in held}
        /\ calling' \subseteq calling \cup {[of |-> w, handle |-> handle[w]] : w \in held}
    BY DEF Begin, Keep, Forget, Value, Enter, Callback, get_object_with_native_handle,
           ReturnValue, Return, jniVars
  <1>5. Refers({})
    BY <1>2, <1>3 DEF Refers, Reachable
  <1>6. UnderWay' \subseteq UnderWay \cup {[of |-> w, handle |-> handle[w]] : w \in held}
    BY <1>4 DEF UnderWay
  <1> QED BY <1>1, <1>5, <1>6, QuietJniInv

\* No step of Java code, of a native call or of the collector breaks it.
LEMMA NextJniInv ==
    ASSUME JniInv, [JniNext]_jniVars
    PROVE  JniInv'
  <1>1. CASE \E lent \in {{}, method} : End(lent)
    <2>1. PICK lent : End(lent)
      BY <1>1
    <2>2. method' \subseteq method
      BY <2>1 DEF End
    <2>3. \/ \E w \in Wrappers : \E e : Construct(e, w) \/ Wrap(e, w)
          \/ Value
          \/ \E e : Generate(e)
      BY <2>1 DEF End
    <2> QED BY <2>2, <2>3, ConstructJniInv, WrapJniInv, GenerateJniInv, ReferencesJniInv
  <1>2. CASE Generated
    BY <1>2, GeneratedJniInv
  <1>3. CASE \E w \in Wrappers : Finalize(w) \/ StoreSenderKey(w) \/ ReturnObject(w)
    BY <1>3, FinalizeJniInv, JobjectJniInv
  <1>4. CASE \/ \E w \in Wrappers : Begin(w) \/ Keep(w) \/ Forget(w) \/ \E e : Enter(w, e)
             \/ Callback \/ get_object_with_native_handle \/ ReturnValue
             \/ UNCHANGED jniVars
    BY <1>4, ReferencesJniInv
  <1> QED BY <1>1, <1>2, <1>3, <1>4 DEF JniNext

\* The handle that a method under way has is an address, and no other error
\* becomes the exception of the handle 0.
LEMMA JniInvNeverNull ==
    ASSUME JniInv
    PROVE  NeverNullHandle
  <1> SUFFICES ASSUME NEW f \in DOMAIN Native, NEW p \in Passed(f, method),
                      NEW e \in run_ffi_safe(Native[f], p)
               PROVE  Exception(e) # throw_error("NullHandle")
    BY DEF NeverNullHandle, Ends
  <1>1. \A i \in DOMAIN Native[f].args : Native[f].args[i] = "handle" => p.handle # null
    <2>1. \A q \in method : q.handle # null
      BY NullAssumption DEF JniInv, TypeOK, UnderWay
    <2> QED BY <2>1 DEF Passed
  <1>2. \A i \in DOMAIN Native[f].args :
            ArgErrors(Native[f].args[i], p.handle) \subseteq {"none", "Jni", "IntegerOverflow"}
    BY <1>1 DEF ArgErrors
  <1>3. e \in {"none", "absent", "Jni", "IntegerOverflow", "UnexpectedPanic", "InvalidMessage"}
    BY <1>2 DEF run_ffi_safe
  <1> QED BY <1>3 DEF Exception, throw_error, KeyIdErrors, KeyErrors, StateErrors

\* Any number of wrappers and addresses: whatever order constructors that throw,
\* finalizers and native calls with their callbacks run in, what can still be used
\* is alive, also for a native method that works on it; nothing is freed twice;
\* and nothing leaks but what was boxed for a Java object that was not made.
THEOREM NativeObjectsLive == JniSpec => []OwnedOnce
  <1> QED BY JniInvOwnedOnce, InitJniInv, NextJniInv, PTL DEF JniSpec

\* ... and no native method is ever called with the handle 0: a constructor
\* that throws publishes no object.
THEOREM HandlesAreNeverNull == JniSpec => []NeverNullHandle
  <1> QED BY JniInvNeverNull, InitJniInv, NextJniInv, PTL DEF JniSpec
-----------------------------------------------------------------------------
\* What set_message_keys leaves in the vector, element by element: the
\* counters that were skipped, the latest first, then the old keys, cut
\* after MAX_MESSAGE_KEYS.
LEMMA SetMessageKeys ==
    ASSUME NEW ch \in Chains, NEW counter \in Nat, counter >= ch.index
    PROVE  LET keys == set_message_keys(ch, counter)
               n == counter - ch.index
               old == ch.message_keys
           IN  /\ keys \in Seq(Nat)
               /\ Len(keys) <= MAX_MESSAGE_KEYS
               /\ Len(keys) = n + Len(old) \/ Len(keys) = MAX_MESSAGE_KEYS
               /\ Len(keys) <= n + Len(old)
               /\ \A i \in 1..Len(keys) :
                    keys[i] = IF i <= n THEN counter - i ELSE old[i - n]
<1> DEFINE n == counter - ch.index
           old == ch.message_keys
           skip == Skipped(ch, counter)
           all == skip \o old
           m == IF Len(all) <= MAX_MESSAGE_KEYS THEN Len(all) ELSE MAX_MESSAGE_KEYS
<1>1. n \in Nat /\ old \in Seq(Nat) /\ ch.index \in Nat
  BY DEF Chains
<1>2. skip \in Seq(Nat) /\ Len(skip) = n /\ \A i \in 1..n : skip[i] = counter - i
  BY <1>1 DEF Skipped
<1>3. /\ all \in Seq(Nat)
      /\ Len(all) = n + Len(old)
      /\ \A i \in 1..Len(all) : all[i] = IF i <= n THEN counter - i ELSE old[i - n]
  <2> HIDE DEF skip, old, n
  <2>1. /\ all \in Seq(Nat)
        /\ Len(all) = Len(skip) + Len(old)
        /\ \A i \in 1..(Len(skip) + Len(old)) :
             all[i] = IF i <= Len(skip) THEN skip[i] ELSE old[i - Len(skip)]
    BY <1>1, <1>2, ConcatProperties
  <2> HIDE DEF all
  <2> QED BY <1>1, <1>2, <2>1
<1>4. m \in Nat /\ m <= Len(all) /\ m <= MAX_MESSAGE_KEYS
  BY <1>3, ChainAssumption
<1>5. /\ SubSeq(all, 1, m) \in Seq(Nat)
      /\ Len(SubSeq(all, 1, m)) = m
      /\ \A i \in 1..m : SubSeq(all, 1, m)[i] = all[i]
  <2> HIDE DEF all, m
  <2> QED BY <1>3, <1>4
<1>6. set_message_keys(ch, counter) = SubSeq(all, 1, m)
  BY DEF set_message_keys
<1>7. m = n + Len(old) \/ m = MAX_MESSAGE_KEYS
  BY <1>3
<1> HIDE DEF n, old, skip, all, m
<1> DEFINE keys == SubSeq(all, 1, m)
<1>8. keys \in Seq(Nat) /\ Len(keys) = m /\ \A i \in 1..m : keys[i] = all[i]
  BY <1>5
<1> HIDE DEF keys
<1>9. \A i \in 1..m : keys[i] = IF i <= n THEN counter - i ELSE old[i - n]
  <2> TAKE i \in 1..m
  <2>1. i \in 1..Len(all)
    BY <1>3, <1>4
  <2>2. keys[i] = all[i]
    BY <1>8
  <2> QED BY <2>1, <2>2, <1>3
<1>10. m <= n + Len(old)
  BY <1>3, <1>4
<1> QED
  BY <1>4, <1>6, <1>7, <1>8, <1>9, <1>10 DEF n, old, keys

\* What get_message_keys leaves in the vector: the key's place is closed up.
LEMMA GetMessageKeys ==
    ASSUME NEW ch \in Chains, NEW counter \in Nat,
           contains(ch.message_keys, counter)
    PROVE  LET old == ch.message_keys
               p == position(old, counter)
               keys == get_message_keys(ch, counter).message_keys
           IN  /\ p \in 1..Len(old) /\ old[p] = counter
               /\ keys \in Seq(Nat)
               /\ Len(keys) = Len(old) - 1
               /\ \A i \in 1..Len(keys) :
                    keys[i] = IF i < p THEN old[i] ELSE old[i + 1]
               /\ get_message_keys(ch, counter) \in Chains
               /\ get_message_keys(ch, counter).index = ch.index
<1> DEFINE old == ch.message_keys
           p == position(old, counter)
<1>1. old \in Seq(Nat)
  BY DEF Chains
<1>2. p \in 1..Len(old) /\ old[p] = counter
  <2> HIDE DEF old
  <2> \E i \in DOMAIN old : old[i] = counter
    BY <1>1 DEF contains, old
  <2> QED BY <1>1 DEF position
<1>3. /\ remove(old, p) \in Seq(Nat)
      /\ Len(remove(old, p)) = Len(old) - 1
      /\ \A i \in 1..(Len(old) - 1) :
            remove(old, p)[i] = IF i < p THEN old[i] ELSE old[i + 1]
  <2> HIDE DEF old, p
  <2> DEFINE a == SubSeq(old, 1, p - 1)
             b == SubSeq(old, p + 1, Len(old))
  <2>1. a \in Seq(Nat) /\ Len(a) = p - 1 /\ \A i \in 1..(p - 1) : a[i] = old[i]
    BY <1>1, <1>2
  <2>2. /\ b \in Seq(Nat) /\ Len(b) = Len(old) - p
        /\ \A i \in 1..(Len(old) - p) : b[i] = old[p + i]
    BY <1>1, <1>2
  <2> HIDE DEF a, b
  <2> DEFINE c == a \o b
  <2>3. /\ c \in Seq(Nat)
        /\ Len(c) = Len(a) + Len(b)
        /\ \A i \in 1..(Len(a) + Len(b)) :
              c[i] = IF i <= Len(a) THEN a[i] ELSE b[i - Len(a)]
    BY <2>1, <2>2, ConcatProperties, Zenon
  <2> HIDE DEF c
  <2>4. ASSUME NEW i \in 1..(Len(old) - 1)
        PROVE  c[i] = IF i < p THEN old[i] ELSE old[i + 1]
    <3>1. i \in 1..(Len(a) + Len(b)) /\ i \in Nat /\ p \in Nat /\ Len(old) \in Nat
      BY <2>1, <2>2, <1>1, <1>2
    <3>2. CASE i < p
      <4>1. i <= Len(a) /\ i \in 1..(p - 1)
        BY <3>1, <3>2, <2>1
      <4> QED BY <3>1, <3>2, <4>1, <2>3, <2>1
    <3>3. CASE ~(i < p)
      <4>1. /\ ~(i <= Len(a))
            /\ i - Len(a) = i - p + 1
            /\ i - p + 1 \in 1..(Len(old) - p)
            /\ p + (i - p + 1) = i + 1
        BY <3>1, <3>3, <2>1, SMTT(30)
      <4>2. c[i] = b[i - Len(a)]
        BY <3>1, <4>1, <2>3
      <4>3. b[i - p + 1] = old[i + 1]
        BY <4>1, <2>2
      <4> QED BY <3>3, <4>1, <4>2, <4>3
    <3> QED BY <3>2, <3>3
  <2>5. Len(c) = Len(old) - 1
    BY <2>1, <2>2, <2>3, <1>1, <1>2
  <2> QED BY <2>3, <2>4, <2>5, Zenon DEF remove, a, b, c
<1> QED
  BY <1>1, <1>2, <1>3, Zenon DEF get_message_keys, Chains
-----------------------------------------------------------------------------
(***************************************************************************)
(* The inductive invariant.  AtMostOnce needs to know that a key still in  *)
(* the vector belongs to a message that was not handed over, and that      *)
(* nothing ahead of the chain was; RecentNeverLost needs the order of the  *)
(* vector and that its i-th key is at least i counters behind the chain.   *)
(***************************************************************************)
ChainInv == ChainTypeOK /\ KeysOrdered /\ AtMostOnce /\ RecentNeverLost /\ OldestLostFirst

\* A new chain satisfies the invariant.
LEMMA InitInv == ChainInit => ChainInv
  BY ChainAssumption, MaxCounterAssumption
  DEF ChainInit, ChainInv, ChainTypeOK, KeysOrdered, AtMostOnce, RecentNeverLost, OldestLostFirst,
      Lost, NewChain, Chains, Counters, contains

\* A late message: its key leaves the vector and nothing else changes.
LEMMA LateStep ==
    ASSUME ChainInv, NEW counter \in Counters, DecryptOk(counter),
           chain.index > counter
    PROVE  /\ ChainInv' 
           /\ Lost' = Lost
           /\ chain'.index = chain.index
           /\ \A c \in Counters : contains(chain'.message_keys, c) => contains(chain.message_keys, c)
           /\ returned[counter] = 0
<1> DEFINE K == chain.message_keys
           L == chain'.message_keys
           p == position(K, counter)
<1>1. /\ chain \in Chains /\ chain.index \in Nat /\ K \in Seq(Nat)
      /\ counter \in Nat /\ Len(K) \in Nat
  BY MaxCounterAssumption DEF ChainInv, ChainTypeOK, Chains, Counters
<1>2. contains(K, counter) /\ chain' = get_message_keys(chain, counter)
  BY <1>1 DEF DecryptOk, message_key_result, get_or_create_message_key
<1>3. /\ p \in 1..Len(K) /\ K[p] = counter
      /\ L \in Seq(Nat)
      /\ Len(L) = Len(K) - 1
      /\ \A i \in 1..Len(L) : L[i] = IF i < p THEN K[i] ELSE K[i + 1]
      /\ chain' \in Chains
      /\ chain'.index = chain.index
  BY <1>1, <1>2, GetMessageKeys, Zenon
<1>4. /\ returned \in [Counters -> Nat]
      /\ returned' = [returned EXCEPT ![counter] = @ + 1]
  BY DEF ChainInv, ChainTypeOK, DecryptOk
<1>5. /\ \A i \in 1..Len(K) : K[i] < chain.index /\ returned[K[i]] = 0
      /\ \A i \in 1..Len(K) : K[i] <= chain.index - i
      /\ \A i, j \in 1..Len(K) : i < j => K[i] > K[j]
      /\ Len(K) <= MAX_MESSAGE_KEYS
      /\ \A c \in Counters : c >= chain.index => returned[c] = 0
  BY DEF ChainInv, KeysOrdered
<1> HIDE DEF K, L, p
<1>6. \A i \in 1..Len(K) : K[i] \in Counters
  <2>1. chain.index <= MaxCounter + 1
    BY MaxCounterAssumption DEF ChainInv, ChainTypeOK
  <2>2. \A i \in 1..Len(K) : K[i] \in Nat
    BY <1>1
  <2> QED BY <1>1, <1>5, <2>1, <2>2, MaxCounterAssumption DEF Counters
<1>7. returned[counter] = 0
  BY <1>3, <1>5
<1>8. ASSUME NEW i \in 1..Len(L)
      PROVE  \E k \in 1..Len(K) : k # p /\ k >= i /\ L[i] = K[k] /\ (i < p => k = i) /\ (i >= p => k = i + 1)
  <2>1. CASE i < p
    BY <1>1, <1>3, <2>1, SMTT(30)
  <2>2. CASE i >= p
    <3>1. i + 1 \in 1..Len(K) /\ i + 1 # p /\ i + 1 >= i /\ L[i] = K[i + 1]
      BY <1>1, <1>3, <2>2
    <3> QED BY <2>2, <3>1, <1>3, <1>1
  <2> QED BY <2>1, <2>2, <1>1, <1>3
<1>9. ASSUME NEW k \in 1..Len(K), k # p
      PROVE  \E i \in 1..Len(L) : L[i] = K[k]
  <2>1. CASE k < p
    <3>1. k \in 1..Len(L)
      BY <1>1, <1>3, <2>1
    <3> QED BY <1>3, <2>1, <3>1
  <2>2. CASE k > p
    <3>1. k - 1 \in 1..Len(L) /\ ~(k - 1 < p) /\ (k - 1) + 1 = k
      BY <1>1, <1>3, <2>2
    <3>2. L[k - 1] = K[k]
      BY <1>3, <3>1
    <3> QED BY <3>1, <3>2
  <2> QED BY <1>9, <2>1, <2>2, <1>1, <1>3
<1>10. ASSUME NEW k \in 1..Len(K), k # p
       PROVE  K[k] # counter
  <2>1. K[k] \in Nat /\ k \in Nat /\ p \in Nat
    BY <1>1, <1>3
  <2>2. K[k] > K[p] \/ K[p] > K[k]
    BY <1>3, <1>5, <1>10, <2>1
  <2> QED BY <1>1, <1>3, <2>1, <2>2
<1>11. \A i \in 1..Len(L) : /\ L[i] < chain.index /\ returned'[L[i]] = 0
                            /\ L[i] <= chain.index - i
  <2> TAKE i \in 1..Len(L)
  <2>1. PICK k \in 1..Len(K) : k # p /\ k >= i /\ L[i] = K[k]
    BY <1>8
  <2>2. K[k] # counter
    BY <1>10, <2>1
  <2>3. returned'[K[k]] = 0
    BY <1>4, <1>5, <1>6, <2>2
  <2>4. K[k] \in Nat
    BY <1>1
  <2> QED BY <1>1, <1>5, <2>1, <2>3, <2>4
<1>12. \A i, j \in 1..Len(L) : i < j => L[i] > L[j]
  <2> TAKE i, j \in 1..Len(L)
  <2> HAVE i < j
  <2>1. PICK k \in 1..Len(K) : L[i] = K[k] /\ (i < p => k = i) /\ (i >= p => k = i + 1)
    BY <1>8
  <2>2. PICK m \in 1..Len(K) : L[j] = K[m] /\ (j < p => m = j) /\ (j >= p => m = j + 1)
    BY SMTT(30), <1>8
  <2>3. k < m
    <3>1. i \in Nat /\ j \in Nat /\ p \in Nat
      BY <1>1, <1>3
    <3> QED BY <2>1, <2>2, <3>1
  <2> QED BY <1>5, <2>1, <2>2, <2>3
<1>13. \A c \in Counters : contains(L, c) => contains(K, c)
  BY <1>8 DEF contains
<1>14. \A c \in Counters : contains(K, c) /\ c # counter => contains(L, c)
  BY <1>3, <1>9, Zenon DEF contains
<1>15. Lost' = Lost
  <2>1. ASSUME NEW c \in Counters
        PROVE  /\ c < chain'.index /\ returned'[c] = 0 /\ ~ contains(L, c)
               <=> c < chain.index /\ returned[c] = 0 /\ ~ contains(K, c)
    <3>1. CASE c = counter
      BY <3>1, <1>2, <1>4, <1>7 DEF K
    <3>2. CASE c # counter
      BY <3>2, <1>3, <1>4, <1>13, <1>14
    <3> QED BY <3>1, <3>2
  <2> QED BY <2>1 DEF Lost, K, L
<1>16. ChainTypeOK'
  <2>1. returned' \in [Counters -> Nat]
    BY <1>4
  <2>2. last' \in [counter : Counters, result : Results \cup {"None"}]
    BY DEF DecryptOk, Results
  <2> QED BY <1>3, <2>1, <2>2 DEF ChainInv, ChainTypeOK
<1>17. KeysOrdered'
  <2>1. \A c \in Counters : c >= chain'.index => returned'[c] = 0
    BY <1>1, <1>3, <1>4, <1>5 DEF Counters
  <2>2. Len(L) <= MAX_MESSAGE_KEYS
    BY <1>1, <1>3, <1>5, ChainAssumption
  <2> QED BY <1>3, <1>11, <1>12, <2>1, <2>2, Zenon DEF KeysOrdered, L
<1>18. AtMostOnce'
  BY <1>4, <1>7 DEF ChainInv, AtMostOnce
<1>19. RecentNeverLost'
  BY <1>3, <1>15 DEF ChainInv, RecentNeverLost
<1>20. OldestLostFirst'
  <2>1. \A c \in Lost : \A i \in 1..Len(L) : c < L[i]
    BY <1>8 DEF ChainInv, OldestLostFirst, K
  <2> QED BY <2>1, <1>15 DEF OldestLostFirst, L
<1> QED
  BY <1>3, <1>7, <1>13, <1>15, <1>16, <1>17, <1>18, <1>19, <1>20 DEF ChainInv, K, L

\* A message at or ahead of the chain: the keys of the messages in between
\* are stored in front of the old ones and the oldest may drop out.
LEMMA ForwardStep ==
    ASSUME ChainInv, NEW counter \in Counters, DecryptOk(counter),
           chain.index <= counter
    PROVE  /\ ChainInv'
           /\ Lost \subseteq Lost'
           /\ \A c \in Lost' \ Lost : c < counter
           /\ chain'.index = counter + 1
           /\ \A c \in Counters : contains(chain'.message_keys, c) =>
                    contains(chain.message_keys, c) \/ c >= chain.index
           /\ returned[counter] = 0
<1> DEFINE K == chain.message_keys
           L == chain'.message_keys
           x == chain.index
           n == counter - x
<1>1. /\ chain \in Chains /\ x \in Nat /\ K \in Seq(Nat)
      /\ counter \in Nat /\ Len(K) \in Nat /\ n \in Nat
  BY MaxCounterAssumption DEF ChainInv, ChainTypeOK, Chains, Counters
<1>2. chain' = advance(chain, counter)
  BY <1>1 DEF DecryptOk, get_or_create_message_key
<1>3. L = set_message_keys(chain, counter) /\ chain'.index = counter + 1
  BY <1>2 DEF advance
<1>4. /\ L \in Seq(Nat)
      /\ Len(L) <= MAX_MESSAGE_KEYS
      /\ Len(L) = n + Len(K) \/ Len(L) = MAX_MESSAGE_KEYS
      /\ Len(L) <= n + Len(K)
  BY <1>1, <1>3, SetMessageKeys
<1>5. \A i \in 1..Len(L) : L[i] = IF i <= n THEN counter - i ELSE K[i - n]
  BY <1>1, <1>3, SetMessageKeys
<1>6. /\ returned \in [Counters -> Nat]
      /\ returned' = [returned EXCEPT ![counter] = @ + 1]
  BY DEF ChainInv, ChainTypeOK, DecryptOk
<1>7. /\ \A i \in 1..Len(K) : K[i] < x /\ returned[K[i]] = 0
      /\ \A i \in 1..Len(K) : K[i] <= x - i
      /\ \A i, j \in 1..Len(K) : i < j => K[i] > K[j]
      /\ \A c \in Counters : c >= x => returned[c] = 0
  BY DEF ChainInv, KeysOrdered
<1>8. \A i \in 1..Len(K) : K[i] \in Nat
  BY <1>1, SMTT(30)
<1>9. Len(L) \in Nat /\ MAX_MESSAGE_KEYS \in Nat /\ counter <= MaxCounter
  BY <1>4, ChainAssumption, MaxCounterAssumption DEF Counters
<1>10. returned[counter] = 0
  BY <1>1, <1>7
<1>11. \A c \in Lost : c \in Nat /\ c < x /\ returned[c] = 0 /\ ~ contains(K, c)
  BY DEF Lost, Counters
<1>12. \A c \in Lost : \A k \in 1..Len(K) : c < K[k]
  BY DEF ChainInv, OldestLostFirst
<1>13. \A c \in Lost : x - c > MAX_MESSAGE_KEYS + 1
  BY DEF ChainInv, RecentNeverLost
<1>14. Lost' = {c \in Counters : c < counter + 1 /\ returned'[c] = 0 /\ ~ contains(L, c)}
  BY <1>3 DEF Lost
<1> HIDE DEF K, L, x, n
\* A key in the new vector is one of the skipped ones or an old one.
<1>15. ASSUME NEW i \in 1..Len(L)
       PROVE  \/ i <= n /\ L[i] = counter - i
              \/ i > n /\ i - n \in 1..Len(K) /\ L[i] = K[i - n]
  BY <1>1, <1>4, <1>5, <1>9
<1>16. x = counter - n
  BY <1>1 DEF n, x
<1>17. ASSUME NEW i \in 1..Len(L)
       PROVE  /\ L[i] \in Nat /\ L[i] <= counter - i
              /\ L[i] \in Counters /\ returned[L[i]] = 0 /\ returned'[L[i]] = 0
  <2>1. i \in Nat /\ i >= 1
    BY <1>9
  <2>2. CASE i <= n /\ L[i] = counter - i
    <3>1. L[i] \in Counters /\ L[i] >= x /\ L[i] # counter /\ L[i] \in Nat
      BY <1>1, <1>9, <1>16, <2>1, <2>2, MaxCounterAssumption DEF Counters
    <3> QED BY <1>6, <1>7, <2>2, <3>1, <2>1, <1>1
  <2>3. CASE i > n /\ i - n \in 1..Len(K) /\ L[i] = K[i - n]
    <3>1. K[i - n] \in Nat /\ K[i - n] < x /\ returned[K[i - n]] = 0 /\ K[i - n] <= x - (i - n)
      BY <1>7, <1>8, <2>3
    <3>2. L[i] \in Counters /\ L[i] # counter /\ L[i] <= counter - i
      BY <1>1, <1>9, <1>16, <2>1, <2>3, <3>1, MaxCounterAssumption DEF Counters
    <3> QED BY <1>6, <2>3, <3>1, <3>2
  <2> QED BY <1>15, <2>2, <2>3
<1>18. ASSUME NEW i \in 1..Len(L), NEW j \in 1..Len(L), i < j
       PROVE  L[i] > L[j]
  <2>1. i \in Nat /\ j \in Nat /\ i >= 1
    BY <1>9
  <2>2. CASE j <= n
    BY <1>1, <1>15, <1>18, <2>1, <2>2
  <2>3. CASE j > n /\ i <= n
    <3>1. L[i] = counter - i /\ j - n \in 1..Len(K) /\ L[j] = K[j - n]
      BY <1>1, <1>15, <2>1, <2>3
    <3>2. K[j - n] < x /\ K[j - n] \in Nat
      BY <1>7, <1>8, <3>1
    <3> QED BY <1>1, <1>16, <2>1, <2>3, <3>1, <3>2
  <2>4. CASE i > n
    <3>1. /\ i - n \in 1..Len(K) /\ L[i] = K[i - n]
          /\ j - n \in 1..Len(K) /\ L[j] = K[j - n]
      BY <1>1, <1>15, <1>18, <2>1, <2>4
    <3>2. i - n < j - n
      BY <1>1, <1>18, <2>1
    <3> QED BY <1>7, <3>1, <3>2
  <2> QED BY <1>1, <2>1, <2>2, <2>3, <2>4
<1>19. \A c \in Counters : contains(L, c) => contains(K, c) \/ c >= x
  <2>1. ASSUME NEW i \in 1..Len(L)
        PROVE  contains(K, L[i]) \/ L[i] >= x
    BY <1>1, <1>15, <1>16, SMTT(30) DEF contains
  <2> QED BY <2>1 DEF contains
<1>20. Lost \subseteq Lost'
  <2> SUFFICES ASSUME NEW c \in Lost PROVE c \in Lost'
    OBVIOUS
  <2>1. c \in Counters /\ c \in Nat /\ c < x /\ c < counter + 1 /\ c # counter
    BY <1>1, <1>11, <1>16 DEF Lost
  <2>2. returned'[c] = 0
    BY <1>6, <1>11, <2>1
  <2>3. ~ contains(L, c)
    BY <1>1, <1>11, <1>19, <2>1
  <2> QED BY <1>14, <2>1, <2>2, <2>3
\* A message lost by this step lies behind everything the vector keeps.
<1>21. ASSUME NEW c \in Lost'
       PROVE  /\ c \in Nat /\ (c \in Lost \/ c < counter)
              /\ counter + 1 - c > MAX_MESSAGE_KEYS + 1
              /\ \A i \in 1..Len(L) : c < L[i]
  <2>1. c \in Counters /\ c \in Nat /\ c < counter + 1 /\ returned'[c] = 0 /\ ~ contains(L, c)
    BY <1>14 DEF Counters
  <2>2. c # counter /\ returned[c] = 0 /\ c < counter
    BY <1>1, <1>6, <1>10, <2>1
  <2>3. \A i \in 1..Len(L) : L[i] # c
    BY <2>1 DEF contains
  <2>4. CASE c >= x
    <3> DEFINE k == counter - c
    <3>1. k \in Nat /\ k >= 1 /\ k <= n /\ c = counter - k
      BY <1>1, <1>16, <2>1, <2>2, <2>4
    <3> HIDE DEF k
    <3>2. k > Len(L)
      BY <1>1, <1>9, <1>15, <2>3, <3>1
    <3>3. Len(L) = MAX_MESSAGE_KEYS
      BY <1>1, <1>4, <3>1, <3>2
    <3>4. ASSUME NEW i \in 1..Len(L) PROVE c < L[i]
      <4>1. i \in Nat /\ i < k /\ i <= n
        BY <1>1, <1>9, <3>1, <3>2
      <4> QED BY <1>1, <1>15, <3>1, <4>1
    <3> QED BY <1>1, <1>9, <2>1, <2>2, <3>1, <3>2, <3>3, <3>4
  <2>5. CASE c < x /\ contains(K, c)
    <3>1. PICK k \in 1..Len(K) : K[k] = c
      BY <2>5 DEF contains
    <3>2. k \in Nat /\ k >= 1 /\ c <= x - k
      BY <1>1, <1>7, <3>1
    <3>3. k + n > Len(L)
      <4> SUFFICES ASSUME k + n <= Len(L) PROVE FALSE
        BY <1>1, <1>9, <3>2
      <4>1. k + n \in 1..Len(L) /\ k + n > n /\ (k + n) - n = k
        BY <1>1, <1>9, <3>2
      <4>2. L[k + n] = K[k]
        BY <1>1, <1>5, <4>1
      <4> QED BY <2>3, <3>1, <4>1, <4>2
    <3>4. Len(L) = MAX_MESSAGE_KEYS
      BY <1>1, <1>4, <3>2, <3>3
    <3>5. ASSUME NEW i \in 1..Len(L) PROVE c < L[i]
      <4>1. i \in Nat /\ i < k + n
        BY <1>1, <1>9, <3>2, <3>3
      <4>2. CASE i <= n
        BY <1>1, <1>15, <1>16, <2>1, <2>5, <4>1, <4>2
      <4>3. CASE i > n
        <5>1. i - n \in 1..Len(K) /\ L[i] = K[i - n] /\ i - n < k
          BY <1>1, <1>15, <3>2, <4>1, <4>3
        <5>2. K[i - n] > K[k]
          BY <1>7, <5>1
        <5>3. K[i - n] \in Nat
          BY <1>8, <5>1
        <5> QED BY <2>1, <3>1, <5>1, <5>2, <5>3
      <4> QED BY <1>1, <4>1, <4>2, <4>3
    <3> QED BY <1>1, <1>9, <1>16, <2>1, <2>2, <3>2, <3>3, <3>4, <3>5
  <2>6. CASE c < x /\ ~ contains(K, c)
    <3>1. c \in Lost
      BY <2>1, <2>2, <2>6 DEF Lost, K, x
    <3>2. x - c > MAX_MESSAGE_KEYS + 1 /\ \A k \in 1..Len(K) : c < K[k]
      BY <1>12, <1>13, <3>1
    <3>3. counter + 1 - c > MAX_MESSAGE_KEYS + 1
      BY <1>1, <1>9, <1>16, <2>1, <3>2
    <3>4. ASSUME NEW i \in 1..Len(L) PROVE c < L[i]
      <4>1. CASE i <= n /\ L[i] = counter - i
        BY <1>1, <1>16, <2>1, <2>6, <4>1
      <4>2. CASE i > n /\ i - n \in 1..Len(K) /\ L[i] = K[i - n]
        BY <3>2, <4>2
      <4> QED BY <1>15, <4>1, <4>2
    <3> QED BY <2>1, <3>1, <3>3, <3>4
  <2> QED BY <1>1, <2>1, <2>4, <2>5, <2>6
<1>22. ChainTypeOK'
  <2>1. chain' \in Chains
    <3>1. set_message_keys(chain, counter) \in Seq(Nat) /\ counter + 1 \in Nat
      BY <1>1, <1>3, <1>4
    <3> QED BY <1>1, <1>2, <3>1, Zenon DEF advance, Chains
  <2>2. chain'.index \in 0..(MaxCounter + 1)
    BY <1>1, <1>3, <1>9, MaxCounterAssumption
  <2>3. returned' \in [Counters -> Nat]
    BY <1>6
  <2>4. last' \in [counter : Counters, result : Results \cup {"None"}]
    BY DEF DecryptOk, Results
  <2> QED BY <2>1, <2>2, <2>3, <2>4 DEF ChainTypeOK
<1>23. KeysOrdered'
  <2>1. \A c \in Counters : c >= chain'.index => returned'[c] = 0
    <3> TAKE c \in Counters
    <3> HAVE c >= chain'.index
    <3>1. c \in Nat /\ c # counter /\ c >= x
      BY <1>1, <1>3, <1>16 DEF Counters
    <3> QED BY <1>6, <1>7, <3>1
  <2>2. \A i \in 1..Len(L) : L[i] < chain'.index /\ L[i] <= chain'.index - i
    <3> TAKE i \in 1..Len(L)
    <3>1. i \in Nat /\ i >= 1 /\ L[i] \in Nat /\ L[i] <= counter - i
      BY <1>9, <1>17
    <3> QED BY <1>1, <1>3, <3>1
  <2> QED BY <1>4, <1>17, <1>18, <2>1, <2>2, Zenon DEF KeysOrdered, L
<1>24. AtMostOnce'
  BY <1>6, <1>10 DEF ChainInv, AtMostOnce
<1>25. RecentNeverLost'
  <2>1. ASSUME NEW c \in Lost' PROVE chain'.index - c > MAX_MESSAGE_KEYS + 1
    <3>1. counter + 1 - c > MAX_MESSAGE_KEYS + 1
      BY <1>21
    <3>2. chain'.index = counter + 1
      BY <1>3
    <3>3. counter \in Nat /\ c \in Nat /\ MAX_MESSAGE_KEYS \in Nat
      BY <1>1, <1>9, <1>21
    <3> QED BY <3>1, <3>2, <3>3
  <2> QED BY <2>1 DEF RecentNeverLost
<1>26. OldestLostFirst'
  BY <1>21 DEF OldestLostFirst, L
<1> QED
  BY <1>3, <1>10, <1>19, <1>20, <1>21, <1>22, <1>23, <1>24, <1>25, <1>26
  DEF ChainInv, K, L, x

\* What any step does to the invariant, and what it leaves alone.
LEMMA StepInv == ChainInv /\ [ChainNext]_chainVars => ChainInv'
<1> SUFFICES ASSUME ChainInv, [ChainNext]_chainVars PROVE ChainInv'
  OBVIOUS
<1>1. ASSUME NEW counter \in Counters, DecryptOk(counter) PROVE ChainInv'
  <2>1. chain.index \in Nat /\ counter \in Nat
    BY MaxCounterAssumption DEF ChainInv, ChainTypeOK, Chains, Counters
  <2>2. CASE chain.index > counter
    BY <1>1, <2>2, LateStep
  <2>3. CASE chain.index <= counter
    BY <1>1, <2>3, ForwardStep
  <2> QED BY <2>1, <2>2, <2>3
<1>2. ASSUME UNCHANGED <<chain, returned>>,
             last' \in [counter : Counters, result : Results \cup {"None"}]
      PROVE  ChainInv'
  <2>1. ChainTypeOK'
    BY <1>2 DEF ChainInv, ChainTypeOK
  <2>2. Lost' = Lost
    BY <1>2 DEF Lost
  <2> QED BY <1>2, <2>1, <2>2
          DEF ChainInv, KeysOrdered, AtMostOnce, RecentNeverLost, OldestLostFirst
<1>3. ASSUME NEW counter \in Counters, DecryptBadMac(counter) PROVE ChainInv'
  BY <1>2, <1>3 DEF DecryptBadMac, Results
<1>4. ASSUME NEW counter \in Counters, DecryptNoKey(counter) PROVE ChainInv'
  <2>1. message_key_result(chain, counter) \in Results
    BY DEF message_key_result, Results
  <2> QED BY <1>2, <1>4, <2>1 DEF DecryptNoKey
<1>5. CASE UNCHANGED chainVars
  <2>1. last \in [counter : Counters, result : Results \cup {"None"}]
    BY DEF ChainInv, ChainTypeOK
  <2> QED BY <1>2, <1>5, <2>1 DEF chainVars
<1> QED BY <1>1, <1>3, <1>4, <1>5 DEF ChainNext

\* The chain, the history variables and the last answer always have their
\* types (session_structure::Chain).
THEOREM TypeCorrect == ChainSpec => []ChainTypeOK
<1>1. ChainInv => ChainTypeOK
  BY DEF ChainInv
<1> QED BY <1>1, InitInv, StepInv, PTL DEF ChainSpec

\* For every MAX_FORWARD_JUMPS, every MAX_MESSAGE_KEYS > 0 and every number of
\* messages: get_or_create_message_key lets a message be read at most once.
THEOREM ReadAtMostOnce == ChainSpec => []AtMostOnce
<1>1. ChainInv => AtMostOnce
  BY DEF ChainInv
<1> QED BY <1>1, InitInv, StepInv, PTL DEF ChainSpec

\* The vector of skipped keys stays sorted, bounded and disjoint from what
\* was read.
THEOREM VectorOrdered == ChainSpec => []KeysOrdered
<1>1. ChainInv => KeysOrdered
  BY DEF ChainInv
<1> QED BY <1>1, InitInv, StepInv, PTL DEF ChainSpec

\* set_message_keys gives up a message only when more than
\* MAX_MESSAGE_KEYS + 1 counters lie between it and the chain, and always the
\* oldest ones.
THEOREM OnlyOldMessagesLost == ChainSpec => [](RecentNeverLost /\ OldestLostFirst)
<1>1. ChainInv => RecentNeverLost /\ OldestLostFirst
  BY DEF ChainInv
<1> QED BY <1>1, InitInv, StepInv, PTL DEF ChainSpec

\* No step of the chain leaves the key of a message it hands over (the removal in
\* get_message_keys, the chain key moved past the message), brings back a key that
\* was used or dropped, or moves the chain backwards.
THEOREM NoKeyReturns == ChainSpec => KeysNeverReturn
<1>1. ChainInv /\ [ChainNext]_chainVars => [NoKeyBack]_chainVars
  <2> SUFFICES ASSUME ChainInv, ChainNext PROVE NoKeyBack
    BY DEF chainVars
  <2>1. chain.index \in Nat
    BY DEF ChainInv, ChainTypeOK, Chains
  <2>2. ASSUME NEW counter \in Counters, DecryptOk(counter) PROVE NoKeyBack
    <3>1. counter \in Nat
      BY DEF Counters
    <3>4. ASSUME NEW c \in Counters, returned'[c] # returned[c]
          PROVE  c < chain'.index /\ ~contains(chain'.message_keys, c)
      <4>1. ChainTypeOK' /\ KeysOrdered'
        BY <2>2, StepInv DEF ChainNext, ChainInv
      <4>2. returned'[c] = returned[c] + 1 /\ returned[c] \in Nat
        BY <2>2, <3>4 DEF DecryptOk, ChainInv, ChainTypeOK
      <4>3. returned'[c] # 0
        BY <4>2
      <4>4. c \in Nat /\ chain'.index \in Nat
        BY <4>1 DEF ChainTypeOK, Chains, Counters
      <4>5. c < chain'.index
        BY <4>1, <4>3, <4>4 DEF KeysOrdered
      <4>6. ~contains(chain'.message_keys, c)
        BY <4>1, <4>3 DEF KeysOrdered, contains, ChainTypeOK, Chains
      <4> QED BY <4>5, <4>6
    <3>2. CASE chain.index > counter
      <4>1. chain'.index = chain.index
        BY <2>2, <3>2, LateStep
      <4>2. \A c \in Counters :
                contains(chain'.message_keys, c) => contains(chain.message_keys, c)
        BY <2>2, <3>2, LateStep
      <4>3. chain'.index >= chain.index
        BY <2>1, <4>1
      <4> QED BY <3>4, <4>2, <4>3, Zenon DEF NoKeyBack
    <3>3. CASE chain.index <= counter
      <4>1. chain'.index = counter + 1
        BY <2>2, <3>3, ForwardStep
      <4>2. \A c \in Counters : contains(chain'.message_keys, c) =>
                contains(chain.message_keys, c) \/ c >= chain.index
        BY <2>2, <3>3, ForwardStep
      <4>3. chain'.index >= chain.index
        BY <2>1, <3>1, <3>3, <4>1
      <4> QED BY <3>4, <4>2, <4>3, Zenon DEF NoKeyBack
    <3> QED BY <2>1, <3>1, <3>2, <3>3
  <2>3. CASE UNCHANGED <<chain, returned>>
    BY <2>1, <2>3 DEF NoKeyBack
  <2> QED BY <2>2, <2>3 DEF ChainNext, DecryptBadMac, DecryptNoKey
<1> QED BY <1>1, InitInv, StepInv, PTL DEF ChainSpec, KeysNeverReturn
-----------------------------------------------------------------------------
\* Every step of the chain is a Deliver step of the abstract window or leaves
\* the window alone: the chain implements ReceiveWindow.
THEOREM ChainImplementsWindow == ChainSpec => ImplementsWindow
<1>1. ChainInit => Window!Init
  BY DEF ChainInit, Window!Init, Lost, NewChain, Counters
<1>2. ChainInv /\ [ChainNext]_chainVars => [Window!Next]_(Window!vars)
  <2> SUFFICES ASSUME ChainInv, [ChainNext]_chainVars PROVE [Window!Next]_(Window!vars)
    OBVIOUS
  <2> DEFINE D == {c \in Counters : returned[c] > 0}
  <2>1. ASSUME UNCHANGED <<chain, returned>> PROVE UNCHANGED Window!vars
    BY <2>1 DEF Window!vars, Lost
  <2>2. ASSUME NEW counter \in Counters, DecryptOk(counter) PROVE Window!Next
    <3>1. /\ chain.index \in Nat /\ counter \in Nat
          /\ returned \in [Counters -> Nat]
          /\ returned' = [returned EXCEPT ![counter] = @ + 1]
      BY <2>2 DEF ChainInv, ChainTypeOK, Chains, Counters, DecryptOk
    <3>2. /\ ChainInv' /\ Lost \subseteq Lost' /\ returned[counter] = 0
          /\ \A c \in Lost' \ Lost : c < counter
          /\ counter < chain'.index
      <4>1. CASE chain.index > counter
        BY <2>2, <3>1, <4>1, LateStep
      <4>2. CASE chain.index <= counter
        BY <2>2, <3>1, <4>2, ForwardStep
      <4> QED BY <3>1, <4>1, <4>2
    <3>3. counter \notin D
      BY <3>2
    <3>4. counter \notin Lost
      BY <2>2, <3>1 DEF Lost, DecryptOk, message_key_result
    <3>5. D' = D \cup {counter}
      BY <3>1, <3>2
    <3>6. \A c \in Counters : returned[c] = 0 <=> c \notin D
      BY <3>1
    <3> DEFINE W == {w \in Counters : w < counter} \ (D \cup Lost)
               old == Lost' \ Lost
    <3>7. old \subseteq W
      <4> SUFFICES ASSUME NEW c \in old PROVE c \in W
        OBVIOUS
      <4>1. c \in Counters /\ returned'[c] = 0 /\ c < counter
        BY <3>2 DEF Lost
      <4>2. returned[c] = 0
        BY <3>1, <4>1 DEF Counters
      <4> QED BY <3>6, <4>1, <4>2
    <3>8. ASSUME NEW o \in old, NEW w \in W \ old PROVE o < w
      <4>1. w \in Counters /\ w < counter /\ returned[w] = 0 /\ w \notin Lost'
        BY <3>6
      <4>2. w < chain'.index /\ returned'[w] = 0
        <5>1. chain'.index \in Nat /\ w \in Nat
          BY <3>2, <4>1 DEF ChainInv, ChainTypeOK, Chains, Counters
        <5> QED BY <3>1, <3>2, <4>1, <5>1
      <4>3. contains(chain'.message_keys, w)
        BY <4>1, <4>2 DEF Lost
      <4>4. \A i \in 1..Len(chain'.message_keys) : o < chain'.message_keys[i]
        BY <3>2 DEF ChainInv, OldestLostFirst
      <4> QED BY <4>3, <4>4 DEF contains
    <3>9. Lost' = Lost \cup old
      BY <3>2
    <3>10. Window!Waiting(counter) = W
      BY DEF Window!Waiting, Window!Counters, Counters
    <3> HIDE DEF W, old
    <3>11. Window!Deliver(counter)
      BY SMTT(30), <3>3, <3>4, <3>5, <3>7, <3>8, <3>9, <3>10 DEF Window!Deliver
    <3> QED BY <3>11 DEF Window!Next, Window!Counters, Counters
  <2> QED BY <2>1, <2>2 DEF ChainNext, DecryptBadMac, DecryptNoKey, chainVars
<1> QED BY <1>1, <1>2, InitInv, StepInv, PTL DEF ChainSpec, ImplementsWindow, Window!Spec
=============================================================================
