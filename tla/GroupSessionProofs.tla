------------------------- MODULE GroupSessionProofs -------------------------
(***************************************************************************)
(* The properties of group sessions, for any members, any limits and any   *)
(* number of sender keys, messages and announcements.  What a member keeps *)
(* is put in relation with the announcements that it processed: the state  *)
(* at place j comes from the j-th last of them.                            *)
(***************************************************************************)
EXTENDS GroupSession, SenderKeysProofs, FiniteSetTheorems

Keys == [id : Nat, iteration : Nat]

\* The place of the announcement that the state at place j comes from.
Origin(a, j) == Len(a) + 1 - j

\* Two announcements of the sender key were processed.
Twice(a, id) == \E i, k \in 1..Len(a) : i # k /\ a[i].id = id /\ a[k].id = id

\* The states are those of the last announcements, newest first.
Recent(r, a) ==
    /\ Len(r) = IF Len(a) >= MAX_SENDER_KEY_STATES THEN MAX_SENDER_KEY_STATES ELSE Len(a)
    /\ \A j \in 1..Len(r) : r[j].sender_key_id = a[Origin(a, j)].id

\* No state has a key from before the chain key that it was given.
Later(r, a) ==
    \A j \in 1..Len(r) :
        /\ a[Origin(a, j)].iteration <= r[j].iteration
        /\ \A k \in Nat : contains(r[j].sender_message_keys, k) =>
                             a[Origin(a, j)].iteration <= k

\* Every message read is of an announced sender key and not from before it.
Announced(a, d) ==
    \A m \in d : \E i \in 1..Len(a) : a[i].id = m.id /\ a[i].iteration <= m.iteration

\* A message read is consumed in every state of its sender key, unless that was
\* announced twice.
Spent(r, a, d) ==
    \A m \in d : \/ Twice(a, m.id)
                 \/ \A j \in 1..Len(r) : r[j].sender_key_id = m.id =>
                                            Consumed(r[j], m.iteration)

\* What a state has consumed since its announcement was read, or is too old.
Kept(r, a, d) ==
    \A j \in 1..Len(r) : \A k \in Nat :
        Consumed(r[j], k) /\ a[Origin(a, j)].iteration <= k =>
            \/ [id |-> r[j].sender_key_id, iteration |-> k] \in d
            \/ k + MAX_MESSAGE_KEYS + 1 < r[j].iteration

\* What holds between a member's record, the announcements it processed, the
\* messages it read and those it read again.
Good(r, a, d, g) ==
    /\ r \in Seq(KeyStates) /\ a \in Seq(Keys) /\ d \subseteq Keys
    /\ Recent(r, a) /\ Later(r, a) /\ Announced(a, d) /\ Spent(r, a, d) /\ Kept(r, a, d)
    /\ \A m \in g : Twice(a, m.id)

\* The sender has one state at most; all ids and iterations are numbers.
Sender ==
    /\ budget \in Budgets /\ drawn \in Nat
    /\ sender \in Seq(States) /\ (sender # <<>> => Len(sender) = 1)
    /\ announced \subseteq Keys /\ network \subseteq Keys

\* Each member's part of the invariant.
MembersGood ==
    /\ records = [p \in Members |-> records[p]] /\ processed = [p \in Members |-> processed[p]]
    /\ delivered = [p \in Members |-> delivered[p]] /\ again = [p \in Members |-> again[p]]
    /\ \A p \in Members : Good(records[p], processed[p], delivered[p], again[p])

Inv == Sender /\ MembersGood

\* The announcement of a state is one of those processed, and another for each.
LEMMA Origins ==
    ASSUME NEW r \in Seq(KeyStates), NEW a \in Seq(Keys), Recent(r, a)
    PROVE  /\ \A j \in 1..Len(r) : Origin(a, j) \in 1..Len(a) /\ a[Origin(a, j)] \in Keys
           /\ \A j, k \in 1..Len(r) : j # k => Origin(a, j) # Origin(a, k)
<1>1. Len(a) \in Nat /\ Len(r) \in Nat /\ Len(r) <= Len(a)
  BY SenderKeysAssumption DEF Recent
<1>2. \A n, k \in Nat : k <= n =>
          /\ \A j \in 1..k : n + 1 - j \in 1..n
          /\ \A i, j \in 1..k : i # j => n + 1 - i # n + 1 - j
  OBVIOUS
<1>3. \A j \in 1..Len(r) : Origin(a, j) \in 1..Len(a)
  BY <1>1, <1>2, Zenon DEF Origin
<1>4. \A j, k \in 1..Len(r) : j # k => Origin(a, j) # Origin(a, k)
  BY <1>1, <1>2, Zenon DEF Origin
<1> QED BY <1>3, <1>4

\* At the start the member has nothing.
LEMMA GoodStart == Good(<<>>, <<>>, {}, {})
<1>1. /\ <<>> \in Seq(KeyStates) /\ <<>> \in Seq(Keys) /\ Len(<<>>) = 0
      /\ ~(0 >= MAX_SENDER_KEY_STATES) /\ \A j : j \notin 1..0
  BY SenderKeysAssumption
<1>2. Recent(<<>>, <<>>)
  BY <1>1 DEF Recent
<1>3. Later(<<>>, <<>>) /\ Kept(<<>>, <<>>, {})
  BY <1>1, Zenon DEF Later, Kept
<1>4. Announced(<<>>, {}) /\ Spent(<<>>, <<>>, {})
  BY Zenon DEF Announced, Spent
<1> QED BY <1>1, <1>2, <1>3, <1>4, Zenon DEF Good

\* Processing an announcement: its state goes first, the others move on by one.
LEMMA ProcessedPlaces ==
    ASSUME NEW r \in Seq(KeyStates), NEW a \in Seq(Keys), Recent(r, a), NEW skdm \in Keys,
           NEW b \in Seq(Keys), Len(b) = Len(a) + 1, b[Len(a) + 1] = skdm,
           \A i \in 1..Len(a) : b[i] = a[i],
           NEW new, new = add_sender_key_state(r, skdm.id, skdm.iteration, "no"),
           NEW s, s = SenderKeyState(skdm.id, skdm.iteration, "no")
    PROVE  /\ new \in Seq(KeyStates) /\ b \in Seq(Keys) /\ Recent(new, b)
           /\ Len(a) + 1 \in 1..Len(b) /\ b[Len(a) + 1] = skdm
           /\ \A i \in 1..Len(a) : i \in 1..Len(b) /\ b[i] = a[i] /\ i # Len(a) + 1
           /\ \A j \in 1..Len(new) :
                \/ new[j] = s /\ b[Origin(b, j)] = skdm
                \/ \E i \in 1..Len(r) : new[j] = r[i] /\ b[Origin(b, j)] = a[Origin(a, i)]
<1>1. skdm.id \in Nat /\ skdm.iteration \in Nat /\ "no" \in {"yes", "no"}
  BY DEF Keys
<1>2. /\ new \in Seq(KeyStates) /\ Len(new) >= 1
      /\ Len(new) = IF Len(r) >= MAX_SENDER_KEY_STATES THEN MAX_SENDER_KEY_STATES
                    ELSE Len(r) + 1
      /\ new[1] = s
      /\ \A i \in 2..Len(new) : i - 1 \in 1..Len(r) /\ new[i] = r[i - 1]
  BY <1>1, AddedState
<1>3. s.sender_key_id = skdm.id
  BY DEF SenderKeyState
<1>5. Len(a) \in Nat /\ Len(r) \in Nat /\ Len(new) \in Nat
  BY <1>2
<1>6. \A i \in 1..Len(a) : i \in 1..Len(b) /\ b[i] = a[i] /\ i # Len(a) + 1
  BY <1>5
<1>7. Len(a) + 1 \in 1..Len(b)
  BY <1>5
<1>8. ASSUME NEW j \in 1..Len(new)
      PROVE  \/ new[j] = s /\ b[Origin(b, j)] = skdm
             \/ \E i \in 1..Len(r) : new[j] = r[i] /\ b[Origin(b, j)] = a[Origin(a, i)]
  <2>1. CASE j = 1
    <3>1. Origin(b, j) = Len(a) + 1
      BY <1>5, <2>1 DEF Origin
    <3> QED BY <1>2, <2>1, <3>1
  <2>2. CASE j # 1
    <3>1. j \in 2..Len(new)
      BY <1>5, <2>2
    <3>2. j - 1 \in 1..Len(r) /\ new[j] = r[j - 1]
      BY <1>2, <3>1
    <3>3. Origin(b, j) = Origin(a, j - 1)
      BY <1>5 DEF Origin
    <3>4. Origin(a, j - 1) \in 1..Len(a)
      BY <3>2, Origins, Zenon
    <3>5. b[Origin(b, j)] = a[Origin(a, j - 1)]
      BY <1>6, <3>3, <3>4, Zenon
    <3> QED BY <3>2, <3>5, Zenon
  <2> QED BY <2>1, <2>2
<1>9. Recent(new, b)
  <2>a. \A j \in 1..Len(r) : r[j].sender_key_id = a[Origin(a, j)].id
    BY Zenon DEF Recent
  <2>1. ASSUME NEW j \in 1..Len(new) PROVE new[j].sender_key_id = b[Origin(b, j)].id
    <3>1. CASE new[j] = s /\ b[Origin(b, j)] = skdm
      BY <1>3, <3>1, Zenon
    <3>2. CASE \E i \in 1..Len(r) : new[j] = r[i] /\ b[Origin(b, j)] = a[Origin(a, i)]
      BY <2>a, <3>2, Zenon
    <3> QED BY <1>8, <3>1, <3>2, Zenon
  <2>2. Len(new) = IF Len(b) >= MAX_SENDER_KEY_STATES THEN MAX_SENDER_KEY_STATES ELSE Len(b)
    BY <1>2, <1>5, SenderKeysAssumption DEF Recent
  <2> QED BY <2>1, <2>2, Zenon DEF Recent
<1> QED BY <1>2, <1>6, <1>7, <1>8, <1>9, Zenon

\* Processing an announcement keeps a member good.
LEMMA GoodProcess ==
    ASSUME NEW r, NEW a, NEW d, NEW g, Good(r, a, d, g), NEW skdm \in Keys,
           NEW b \in Seq(Keys), Len(b) = Len(a) + 1, b[Len(a) + 1] = skdm,
           \A i \in 1..Len(a) : b[i] = a[i],
           NEW new, new = add_sender_key_state(r, skdm.id, skdm.iteration, "no")
    PROVE  Good(new, b, d, g)
<1>0. PICK s : s = SenderKeyState(skdm.id, skdm.iteration, "no")
  OBVIOUS
<1>1. /\ r \in Seq(KeyStates) /\ a \in Seq(Keys) /\ d \subseteq Keys /\ Recent(r, a)
      /\ Later(r, a) /\ Announced(a, d) /\ Spent(r, a, d) /\ Kept(r, a, d)
      /\ \A m \in g : Twice(a, m.id)
  BY DEF Good
<1>2. /\ new \in Seq(KeyStates) /\ b \in Seq(Keys) /\ Recent(new, b)
      /\ Len(a) + 1 \in 1..Len(b) /\ b[Len(a) + 1] = skdm
      /\ \A i \in 1..Len(a) : i \in 1..Len(b) /\ b[i] = a[i] /\ i # Len(a) + 1
      /\ \A j \in 1..Len(new) :
           \/ new[j] = s /\ b[Origin(b, j)] = skdm
           \/ \E i \in 1..Len(r) : new[j] = r[i] /\ b[Origin(b, j)] = a[Origin(a, i)]
  BY <1>0, <1>1, ProcessedPlaces, SMTT(30)
<1>3. skdm.id \in Nat /\ skdm.iteration \in Nat /\ "no" \in {"yes", "no"}
  BY DEF Keys
<1>4. /\ s.sender_key_id = skdm.id /\ s.iteration = skdm.iteration
      /\ \A k : ~contains(s.sender_message_keys, k)
  BY <1>0, AnnouncedState, Zenon DEF Keys
<1>5. /\ skdm.iteration <= s.iteration
      /\ \A k \in Nat : ~(Consumed(s, k) /\ skdm.iteration <= k)
  BY <1>3, <1>4 DEF Consumed
<1>6. ASSUME NEW id, Twice(a, id) PROVE Twice(b, id)
  <2>1. PICK i, k \in 1..Len(a) : i # k /\ a[i].id = id /\ a[k].id = id
    BY <1>6, Zenon DEF Twice
  <2>2. i \in 1..Len(b) /\ k \in 1..Len(b) /\ b[i].id = id /\ b[k].id = id
    BY <1>2, <2>1, Zenon
  <2> QED BY <2>1, <2>2, Zenon DEF Twice
<1>7. \A i \in 1..Len(a) : a[i].id = skdm.id => Twice(b, skdm.id)
  BY <1>2, Zenon DEF Twice
<1>8. Later(new, b)
  BY <1>1, <1>2, <1>4, <1>5, Zenon DEF Later
<1>9. Announced(b, d)
  BY <1>1, <1>2, Zenon DEF Announced
<1>10. Spent(new, b, d)
  <2>1. ASSUME NEW m \in d, ~Twice(b, m.id), NEW j \in 1..Len(new),
               new[j].sender_key_id = m.id
        PROVE  Consumed(new[j], m.iteration)
    <3>1. m.id # skdm.id
      BY <1>1, <1>7, <2>1, Zenon DEF Announced
    <3>2. PICK i \in 1..Len(r) : new[j] = r[i]
      BY <1>2, <1>4, <2>1, <3>1, Zenon
    <3> QED BY <1>1, <1>6, <2>1, <3>2, Zenon DEF Spent
  <2> QED BY <2>1, Zenon DEF Spent
<1>11. Kept(new, b, d)
  BY <1>1, <1>2, <1>5, Zenon DEF Kept
<1> QED BY <1>1, <1>2, <1>6, <1>8, <1>9, <1>10, <1>11, Zenon DEF Good

\* Reading a message keeps a member good.
LEMMA GoodRead ==
    ASSUME NEW r, NEW a, NEW d, NEW g, Good(r, a, d, g), NEW m \in Keys,
           NEW i, i = sender_key_state_for_keyid(r, m.id), i # 0, Finds(r[i], m.iteration),
           NEW new, new = [r EXCEPT ![i] = get_sender_key(r[i], m.iteration)]
    PROVE  Good(new, a, d \cup {m}, g \cup ({m} \cap d))
<1> DEFINE s == get_sender_key(r[i], m.iteration)
           o == a[Origin(a, i)]
<1>1. /\ r \in Seq(KeyStates) /\ a \in Seq(Keys) /\ d \subseteq Keys /\ Recent(r, a)
      /\ Later(r, a) /\ Announced(a, d) /\ Spent(r, a, d) /\ Kept(r, a, d)
      /\ \A x \in g : Twice(a, x.id)
  BY DEF Good
<1>2. i \in 1..Len(r) /\ r[i].sender_key_id = m.id /\ m.id \in Nat /\ m.iteration \in Nat
  <2>1. i \in 1..Len(r) /\ r[i].sender_key_id = m.id
    BY <1>1, FoundState, Zenon
  <2> QED BY <2>1 DEF Keys
<1>3. r[i] \in KeyStates /\ r[i].iteration \in Nat
  <2>1. r[i] \in KeyStates
    BY <1>1, <1>2
  <2> QED BY <2>1 DEF KeyStates, States
<1>4. /\ s \in KeyStates
      /\ s.sender_key_id = r[i].sender_key_id
      /\ s.iteration >= r[i].iteration
      /\ ~Consumed(r[i], m.iteration) /\ Consumed(s, m.iteration)
      /\ \A k \in Nat : Consumed(r[i], k) => Consumed(s, k)
      /\ \A k \in Nat : contains(s.sender_message_keys, k) =>
            contains(r[i].sender_message_keys, k) \/ r[i].iteration <= k
      /\ \A k \in Nat : Consumed(s, k) /\ k # m.iteration =>
            Consumed(r[i], k) \/ k + MAX_MESSAGE_KEYS + 1 < s.iteration
  BY <1>2, <1>3, GotKey, Zenon
<1>5. s.iteration \in Nat
  BY <1>4 DEF KeyStates, States
<1>6. /\ new \in Seq(KeyStates) /\ Len(new) = Len(r) /\ new[i] = s
      /\ \A j \in 1..Len(r) : j # i => new[j] = r[j]
      /\ \A j \in 1..Len(r) : new[j].sender_key_id = r[j].sender_key_id
  BY <1>1, <1>2, ReadState
<1> HIDE DEF s
<1>7. /\ \A j \in 1..Len(r) : Origin(a, j) \in 1..Len(a) /\ a[Origin(a, j)] \in Keys
      /\ \A j, k \in 1..Len(r) : j # k => Origin(a, j) # Origin(a, k)
      /\ \A j \in 1..Len(r) : a[Origin(a, j)].id = r[j].sender_key_id
  BY <1>1, Origins DEF Recent
<1>8. /\ Origin(a, i) \in 1..Len(a) /\ o.id = m.id /\ o.iteration \in Nat
      /\ o.iteration <= r[i].iteration
      /\ \A k \in Nat : contains(r[i].sender_message_keys, k) => o.iteration <= k
  <2>1. o \in Keys /\ Origin(a, i) \in 1..Len(a) /\ o.id = m.id
    BY <1>2, <1>7, Zenon
  <2> QED BY <1>1, <1>2, <2>1 DEF Later, Keys
<1> HIDE DEF o
<1>9. o.iteration <= s.iteration
      /\ \A k \in Nat : contains(s.sender_message_keys, k) => o.iteration <= k
  BY <1>3, <1>4, <1>5, <1>8
<1>10. o.iteration <= m.iteration
  BY <1>2, <1>3, <1>4, <1>8 DEF Consumed
<1>11. Recent(new, a)
  BY <1>1, <1>6, Zenon DEF Recent
<1>12. Later(new, a)
  BY <1>1, <1>6, <1>9, Zenon DEF Later, o
<1>13. Announced(a, d \cup {m})
  BY <1>1, <1>8, <1>10, Zenon DEF Announced, o
<1>14. ASSUME NEW j \in 1..Len(r), r[j].sender_key_id = m.id, ~Twice(a, m.id)
       PROVE  j = i
  BY <1>2, <1>7, <1>14, Zenon DEF Twice
<1>15. Spent(new, a, d \cup {m})
  <2>1. ASSUME NEW x \in d, ~Twice(a, x.id), NEW j \in 1..Len(r), r[j].sender_key_id = x.id
        PROVE  Consumed(new[j], x.iteration)
    <3>1. x.iteration \in Nat /\ Consumed(r[j], x.iteration)
      BY <1>1, <2>1 DEF Spent, Keys
    <3> QED BY <1>4, <1>6, <3>1, Zenon
  <2>2. ASSUME ~Twice(a, m.id), NEW j \in 1..Len(r), r[j].sender_key_id = m.id
        PROVE  Consumed(new[j], m.iteration)
    BY <1>4, <1>6, <1>14, <2>2, Zenon
  <2> QED BY <1>6, <2>1, <2>2, Zenon DEF Spent
<1>16. Kept(new, a, d \cup {m})
  <2>1. ASSUME NEW j \in 1..Len(r), j # i, NEW k \in Nat,
               Consumed(new[j], k), a[Origin(a, j)].iteration <= k
        PROVE  \/ [id |-> new[j].sender_key_id, iteration |-> k] \in d
               \/ k + MAX_MESSAGE_KEYS + 1 < new[j].iteration
    BY <1>1, <1>6, <2>1, Zenon DEF Kept
  <2>2. ASSUME NEW k \in Nat, Consumed(s, k), o.iteration <= k
        PROVE  \/ [id |-> m.id, iteration |-> k] \in d \cup {m}
               \/ k + MAX_MESSAGE_KEYS + 1 < s.iteration
    <3>1. CASE k = m.iteration
      <4>1. m = [id |-> m.id, iteration |-> k]
        BY <3>1 DEF Keys
      <4> QED BY <4>1
    <3>2. CASE k # m.iteration /\ Consumed(r[i], k)
      <4>1. \/ [id |-> m.id, iteration |-> k] \in d
            \/ k + MAX_MESSAGE_KEYS + 1 < r[i].iteration
        BY <1>1, <1>2, <2>2, <3>2, Zenon DEF Kept, o
      <4> QED BY <1>3, <1>4, <1>5, <4>1, SenderKeysAssumption
    <3> QED BY <1>4, <2>2, <3>1, <3>2, Zenon
  <2>3. new[i].sender_key_id = m.id
    BY <1>2, <1>6
  <2> QED BY <1>6, <2>1, <2>2, <2>3, Zenon DEF Kept, o
<1>17. ASSUME m \in d PROVE Twice(a, m.id)
  BY <1>1, <1>2, <1>4, <1>17, Zenon DEF Spent
<1> QED BY <1>1, <1>6, <1>11, <1>12, <1>13, <1>15, <1>16, <1>17, Zenon DEF Good
-----------------------------------------------------------------------------
\* A member can read an arrival if it is signed and the state found has its key.
LEMMA ReadsWith ==
    ASSUME NEW p \in Members, NEW arrival, CanRead(p, arrival)
    PROVE  /\ StateFor(p, arrival.message) # 0
           /\ Finds(records[p][StateFor(p, arrival.message)], arrival.message.iteration)
<1>1. result(p, arrival) \in {"stored key", "chain key"}
  BY DEF CanRead
<1>2. /\ "InvalidSenderKeyId" \notin {"stored key", "chain key"}
      /\ "NoSenderKeyState" \notin {"stored key", "chain key"}
      /\ "SignatureValidationFailed" \notin {"stored key", "chain key"}
  BY Zenon
<1>3. records[p] # <<>>
  BY <1>1, <1>2, Zenon DEF result
<1>4. StateFor(p, arrival.message) # 0
  BY <1>1, <1>2, <1>3, Zenon DEF result
<1>5. verify_signature(arrival)
  BY <1>1, <1>2, <1>4, Zenon DEF result
<1> QED BY <1>1, <1>3, <1>4, <1>5, Zenon DEF result, Finds

\* The converse.
LEMMA CanReadWith ==
    ASSUME NEW p \in Members, NEW m, records[p] # <<>>, StateFor(p, m) # 0,
           Finds(records[p][StateFor(p, m)], m.iteration)
    PROVE  CanRead(p, [message |-> m, signed |-> "yes"])
<1> DEFINE arrival == [message |-> m, signed |-> "yes"]
<1>1. arrival.message = m /\ arrival.signed = "yes"
  BY Zenon
<1> HIDE DEF arrival
<1>2. verify_signature(arrival)
  BY <1>1 DEF verify_signature
<1>3. result(p, arrival) = sender_key_result(records[p][StateFor(p, m)], m.iteration)
  BY <1>1, <1>2, Zenon DEF result
<1> QED BY <1>3, Zenon DEF CanRead, Finds, arrival

\* A key that was not consumed is found within MAX_FORWARD_JUMPS.
LEMMA FindsWithin ==
    ASSUME NEW s \in KeyStates, NEW n \in Nat, ~Consumed(s, n),
           n <= s.iteration + MAX_FORWARD_JUMPS
    PROVE  Finds(s, n)
<1>1. s.iteration \in Nat
  BY DEF KeyStates, States
<1>2. ~(n - s.iteration > MAX_FORWARD_JUMPS)
  BY <1>1, SenderKeysAssumption
<1> QED BY <1>2, Zenon DEF Finds, sender_key_result, Consumed

\* What arrives has a number for its id and for its iteration.
LEMMA ArrivalKeys ==
    ASSUME Sender, NEW arrival \in Arrivals
    PROVE  arrival.message \in Keys
<1>1. budget.keys \in Nat /\ budget.sent \in Nat /\ network \subseteq Keys
  BY BudgetsAssumption DEF Sender
<1>2. Messages \subseteq Keys
  BY <1>1 DEF Messages, Keys
<1> QED BY <1>1, <1>2 DEF Arrivals

\* The sender's operations keep the sender's part.
LEMMA SenderSteps ==
    ASSUME Sender, \/ create_sender_key_distribution_message \/ group_encrypt \/ Drop
    PROVE  Sender' /\ UNCHANGED <<records, processed, delivered, again>>
<1>1. ASSUME NEW r \in Seq(States), Len(r) = 1
      PROVE  /\ r[1] \in States /\ r[1].sender_key_id \in Nat /\ r[1].iteration \in Nat
             /\ [id |-> r[1].sender_key_id, iteration |-> r[1].iteration] \in Keys
  <2>1. r[1] \in States
    BY <1>1
  <2> QED BY <2>1 DEF States, Keys
<1>2. CASE create_sender_key_distribution_message
  <2>1. sender' \in Seq(States) /\ Len(sender') = 1 /\ drawn' \in Nat
    <3>1. CASE sender = <<>> /\ drawn' = drawn + 1
               /\ sender' = set_sender_key_state(drawn + 1, 0, "yes")
      <4>1. drawn + 1 \in Nat /\ 0 \in Nat /\ "yes" \in {"yes", "no"}
        BY DEF Sender
      <4>2. sender' = <<SenderKeyState(drawn + 1, 0, "yes")>>
        BY <3>1, <4>1, OnlyState, Zenon
      <4>3. SenderKeyState(drawn + 1, 0, "yes") \in States
        BY <4>1 DEF SenderKeyState, States
      <4>4. \A x \in States : <<x>> \in Seq(States) /\ Len(<<x>>) = 1
        OBVIOUS
      <4> QED BY <3>1, <4>1, <4>2, <4>3, <4>4, Zenon
    <3>2. CASE sender # <<>> /\ UNCHANGED <<sender, drawn>>
      BY <3>2 DEF Sender
    <3> QED BY <1>2, <3>1, <3>2, Zenon DEF create_sender_key_distribution_message
  <2>2. SenderKeyDistributionMessage(sender'[1]) \in Keys
    BY <1>1, <2>1, Zenon DEF SenderKeyDistributionMessage
  <2>3. /\ announced' = announced \cup {SenderKeyDistributionMessage(sender'[1])}
        /\ UNCHANGED <<budget, network, records, processed, delivered, again>>
    BY <1>2 DEF create_sender_key_distribution_message
  <2> QED BY <2>1, <2>2, <2>3 DEF Sender
<1>3. CASE group_encrypt
  <2>1. sender # <<>> /\ sender \in Seq(States) /\ Len(sender) = 1
    BY <1>3 DEF group_encrypt, Sender
  <2>2. /\ sender[1] \in States /\ sender[1].iteration \in Nat
        /\ SenderKeyMessage(sender[1]) \in Keys
    BY <1>1, <2>1 DEF SenderKeyMessage
  <2>3. next(sender[1].iteration) \in Nat
    BY <2>2 DEF next
  <2>4. [sender[1] EXCEPT !.iteration = next(@)] \in States
    BY <2>2, <2>3 DEF States
  <2>5. sender' = [sender EXCEPT ![1] = [sender[1] EXCEPT !.iteration = next(@)]]
    BY <1>3, Zenon DEF group_encrypt
  <2>6. sender' \in Seq(States) /\ Len(sender') = 1
    BY <2>1, <2>4, <2>5
  <2>7. /\ network' = network \cup {SenderKeyMessage(sender[1])}
        /\ UNCHANGED <<budget, drawn, announced, records, processed, delivered, again>>
    BY <1>3 DEF group_encrypt
  <2> QED BY <2>2, <2>6, <2>7 DEF Sender
<1>4. CASE Drop
  <2>1. <<>> \in Seq(States)
    OBVIOUS
  <2> QED BY <1>4, <2>1 DEF Drop, Sender
<1> QED BY <1>2, <1>3, <1>4

\* A step of one member changes what that member has, and keeps it good.
LEMMA MemberStep ==
    ASSUME MembersGood, NEW p \in Members, NEW r, NEW a, NEW d, NEW g,
           records' = [records EXCEPT ![p] = r], processed' = [processed EXCEPT ![p] = a],
           delivered' = [delivered EXCEPT ![p] = d], again' = [again EXCEPT ![p] = g],
           Good(r, a, d, g)
    PROVE  MembersGood'
<1>1. /\ records' = [q \in Members |-> IF q = p THEN r ELSE records[q]]
      /\ processed' = [q \in Members |-> IF q = p THEN a ELSE processed[q]]
      /\ delivered' = [q \in Members |-> IF q = p THEN d ELSE delivered[q]]
      /\ again' = [q \in Members |-> IF q = p THEN g ELSE again[q]]
  BY DEF MembersGood
<1>2. ASSUME NEW q \in Members
      PROVE  Good(records'[q], processed'[q], delivered'[q], again'[q])
  BY <1>1, Zenon DEF MembersGood
<1>3. /\ records' = [q \in Members |-> records'[q]]
      /\ processed' = [q \in Members |-> processed'[q]]
      /\ delivered' = [q \in Members |-> delivered'[q]]
      /\ again' = [q \in Members |-> again'[q]]
  BY <1>1
<1> QED BY <1>2, <1>3, Zenon DEF MembersGood, Good, Recent, Later, Announced, Spent, Kept,
     Twice, Origin

\* A step that changes no member keeps the members good.
LEMMA MembersSame ==
    ASSUME MembersGood, UNCHANGED <<records, processed, delivered, again>>
    PROVE  MembersGood'
<1>1. ASSUME NEW q \in Members
      PROVE  Good(records'[q], processed'[q], delivered'[q], again'[q])
  BY DEF MembersGood
<1>2. /\ records' = [q \in Members |-> records'[q]]
      /\ processed' = [q \in Members |-> processed'[q]]
      /\ delivered' = [q \in Members |-> delivered'[q]]
      /\ again' = [q \in Members |-> again'[q]]
  BY DEF MembersGood
<1> QED BY <1>1, <1>2, Zenon DEF MembersGood, Good, Recent, Later, Announced, Spent, Kept,
     Twice, Origin

\* The invariant holds at the start.
LEMMA InitInv == Init => Inv
<1> SUFFICES ASSUME Init PROVE Inv
  OBVIOUS
<1>1. Sender
  BY DEF Init, Sender, Keys
<1>2. MembersGood
  BY GoodStart DEF Init, MembersGood
<1> QED BY <1>1, <1>2 DEF Inv

\* Every step keeps the invariant.
LEMMA NextInv == Inv /\ [Next]_vars => Inv'
<1> SUFFICES ASSUME Inv, [Next]_vars PROVE Inv'
  OBVIOUS
<1>0. Sender /\ MembersGood
  BY DEF Inv
<1>1. CASE create_sender_key_distribution_message \/ group_encrypt \/ Drop
  <2>1. Sender' /\ UNCHANGED <<records, processed, delivered, again>>
    BY <1>0, <1>1, SenderSteps
  <2> QED BY <1>0, <2>1, MembersSame DEF Inv
<1>2. ASSUME NEW p \in Members, NEW skdm \in announced,
             process_sender_key_distribution_message(p, skdm)
      PROVE  Inv'
  <2> DEFINE a == Append(processed[p], skdm)
             r == add_sender_key_state(records[p], skdm.id, skdm.iteration, "no")
  <2>1. /\ records' = [records EXCEPT ![p] = r] /\ processed' = [processed EXCEPT ![p] = a]
        /\ UNCHANGED <<budget, sender, drawn, announced, network, delivered, again>>
    BY <1>2, Zenon DEF process_sender_key_distribution_message
  <2>2. skdm \in Keys /\ Good(records[p], processed[p], delivered[p], again[p])
    BY <1>0 DEF Sender, MembersGood
  <2>3. processed[p] \in Seq(Keys)
    BY <2>2 DEF Good
  <2>4. /\ a \in Seq(Keys) /\ Len(a) = Len(processed[p]) + 1
        /\ a[Len(processed[p]) + 1] = skdm
        /\ \A i \in 1..Len(processed[p]) : a[i] = processed[p][i]
    BY <2>2, <2>3
  <2> HIDE DEF a
  <2>5. Good(r, a, delivered[p], again[p])
    BY <2>2, <2>4, GoodProcess, Zenon
  <2> HIDE DEF r
  <2>6. /\ delivered' = [delivered EXCEPT ![p] = delivered[p]]
        /\ again' = [again EXCEPT ![p] = again[p]]
    BY <1>0, <2>1 DEF MembersGood
  <2>7. MembersGood'
    <3>1. records' = [records EXCEPT ![p] = r] /\ processed' = [processed EXCEPT ![p] = a]
      BY <2>1
    <3> QED BY <1>0, <2>5, <2>6, <3>1, MemberStep, Zenon
  <2> QED BY <1>0, <2>1, <2>7 DEF Inv, Sender
<1>3. ASSUME NEW p \in Members, NEW arrival \in Arrivals, group_decrypt(p, arrival)
      PROVE  Inv'
  <2> DEFINE m == arrival.message
             i == sender_key_state_for_keyid(records[p], m.id)
             r == [records[p] EXCEPT ![i] = get_sender_key(records[p][i], m.iteration)]
             d == delivered[p] \cup {m}
             g == again[p] \cup ({m} \cap delivered[p])
  <2>1. /\ records' = [records EXCEPT ![p] = r] /\ delivered' = [delivered EXCEPT ![p] = d]
        /\ again' = [again EXCEPT ![p] = g]
        /\ UNCHANGED <<budget, sender, drawn, announced, network, processed>>
    BY <1>3, Zenon DEF group_decrypt, StateFor
  <2>2. i # 0 /\ Finds(records[p][i], m.iteration)
    BY <1>3, ReadsWith, Zenon DEF group_decrypt, StateFor
  <2>3. m \in Keys /\ Good(records[p], processed[p], delivered[p], again[p])
    BY <1>0, ArrivalKeys DEF MembersGood
  <2> HIDE DEF m
  <2>4. Good(r, processed[p], d, g)
    BY <2>2, <2>3, GoodRead, Zenon
  <2> HIDE DEF r, d, g
  <2>5. processed' = [processed EXCEPT ![p] = processed[p]]
    BY <1>0, <2>1 DEF MembersGood
  <2>6. MembersGood'
    BY <1>0, <2>1, <2>4, <2>5, MemberStep, Zenon
  <2> QED BY <1>0, <2>1, <2>6 DEF Inv, Sender
<1>4. CASE UNCHANGED vars
  BY <1>0, <1>4, MembersSame DEF vars, Inv, Sender
<1>5. group_encrypt_fails \/ (\E p \in Members, arrival \in Arrivals :
                                  group_decrypt_fails(p, arrival)) => UNCHANGED vars
  BY DEF group_encrypt_fails, group_decrypt_fails
<1> QED BY <1>1, <1>2, <1>3, <1>4, <1>5, Zenon DEF Next

\* Two of a bounded set of numbers, and the only one of such a set.
LEMMA Counted ==
    ASSUME NEW n \in Nat, NEW S \in SUBSET (1..n)
    PROVE  /\ \A i, k \in S : i # k => Cardinality(S) > 1
           /\ Cardinality(S) = 1 => \E x : S = {x}
<1>1. IsFiniteSet(S) /\ Cardinality(S) \in Nat
  <2>1. 1 \in Int /\ n \in Int
    OBVIOUS
  <2>2. IsFiniteSet(1..n)
    BY <2>1, FS_Interval, Zenon
  <2>3. IsFiniteSet(S)
    BY <2>2, FS_Subset, Zenon
  <2> QED BY <2>3, FS_CardinalityType, Zenon
<1>2. Cardinality(S) = 0 <=> S = {}
  BY <1>1, FS_EmptySet
<1>3. Cardinality(S) = 1 <=> \E x : S = {x}
  BY <1>1, FS_Singleton
<1>4. ASSUME NEW i \in S, NEW k \in S, i # k PROVE Cardinality(S) > 1
  <2>1. S # {} /\ ~\E x : S = {x}
    BY <1>4
  <2>2. Cardinality(S) # 0 /\ Cardinality(S) # 1
    BY <1>2, <1>3, <2>1
  <2> QED BY <1>1, <2>2
<1> QED BY <1>3, <1>4

\* The places of the announcements of a sender key.
LEMMA AnnouncementPlaces ==
    ASSUME Inv, NEW p \in Members, NEW id
    PROVE  /\ Len(processed[p]) \in Nat
           /\ Announcements(p, id) = {i \in 1..Len(processed[p]) : processed[p][i].id = id}
           /\ Announcements(p, id) \in SUBSET (1..Len(processed[p]))
<1>1. processed[p] \in Seq(Keys)
  BY DEF Inv, MembersGood, Good
<1> QED BY <1>1 DEF Announcements

\* Read again only after two announcements.
LEMMA InvAgain == Inv => AgainOnlyAfterRestart
<1> SUFFICES ASSUME Inv, NEW p \in Members, NEW m \in again[p]
             PROVE  Cardinality(Announcements(p, m.id)) > 1
  BY DEF AgainOnlyAfterRestart
<1>1. Twice(processed[p], m.id)
  BY DEF Inv, MembersGood, Good
<1>2. PICK i, k \in 1..Len(processed[p]) :
          i # k /\ processed[p][i].id = m.id /\ processed[p][k].id = m.id
  BY <1>1, Zenon DEF Twice
<1>3. i \in Announcements(p, m.id) /\ k \in Announcements(p, m.id)
  BY <1>2, AnnouncementPlaces
<1> QED BY <1>2, <1>3, AnnouncementPlaces, Counted, Zenon

\* Nothing from before the chain key that was given.
LEMMA InvBefore == Inv => NothingFromBefore
<1> SUFFICES ASSUME Inv, NEW p \in Members, NEW m \in delivered[p]
             PROVE  \E i \in Announcements(p, m.id) : processed[p][i].iteration <= m.iteration
  BY DEF NothingFromBefore
<1>1. PICK i \in 1..Len(processed[p]) :
          processed[p][i].id = m.id /\ processed[p][i].iteration <= m.iteration
  BY DEF Inv, MembersGood, Good, Announced
<1> QED BY <1>1, AnnouncementPlaces

\* A message that was not read is readable within the two limits.
LEMMA InvReadable == Inv => Readable
<1> SUFFICES ASSUME Inv, NEW p \in Members, NEW m \in network \ delivered[p],
                    StateFor(p, m) # 0, Cardinality(Announcements(p, m.id)) = 1,
                    m.iteration >=
                      processed[p][CHOOSE n \in Announcements(p, m.id) : TRUE].iteration,
                    m.iteration <= records[p][StateFor(p, m)].iteration + MAX_FORWARD_JUMPS,
                    records[p][StateFor(p, m)].iteration
                      <= m.iteration + MAX_MESSAGE_KEYS + 1
             PROVE  CanRead(p, [message |-> m, signed |-> "yes"])
  BY Zenon DEF Readable
<1> DEFINE r == records[p]
           a == processed[p]
           i == StateFor(p, m)
           s == r[i]
<1>1. Good(r, a, delivered[p], again[p]) /\ m \in Keys
  BY DEF Inv, MembersGood, Sender
<1>2. r \in Seq(KeyStates) /\ a \in Seq(Keys) /\ Recent(r, a) /\ Kept(r, a, delivered[p])
  BY <1>1 DEF Good
<1>3. i \in 1..Len(r) /\ s.sender_key_id = m.id
  BY <1>2, FoundState, Zenon DEF StateFor
<1>4. s \in KeyStates /\ r # <<>>
  BY <1>2, <1>3
<1>5. s.iteration \in Nat /\ m.iteration \in Nat
  BY <1>1, <1>4 DEF KeyStates, States, Keys
<1>6. Origin(a, i) \in Announcements(p, m.id)
  <2>1. Origin(a, i) \in 1..Len(a) /\ a[Origin(a, i)].id = m.id
    BY <1>2, <1>3, Origins, Zenon DEF Recent
  <2> QED BY <2>1, AnnouncementPlaces
<1>7. (CHOOSE n \in Announcements(p, m.id) : TRUE) = Origin(a, i)
  <2>1. PICK x : Announcements(p, m.id) = {x}
    <3>1. /\ Len(processed[p]) \in Nat
          /\ Announcements(p, m.id) \in SUBSET (1..Len(processed[p]))
      BY AnnouncementPlaces
    <3> QED BY <3>1, Counted, Zenon
  <2> QED BY <1>6, <2>1
<1>8. ~Consumed(s, m.iteration)
  <2>1. m = [id |-> s.sender_key_id, iteration |-> m.iteration]
    BY <1>1, <1>3 DEF Keys
  <2>2. a[Origin(a, i)].iteration <= m.iteration
    <3>1. a[Origin(a, i)].iteration \in Nat
      BY <1>2, <1>3, Origins DEF Keys
    <3> QED BY <1>5, <1>7, <3>1
  <2>3. ~(m.iteration + MAX_MESSAGE_KEYS + 1 < s.iteration)
    BY <1>5, SenderKeysAssumption
  <2> QED BY <1>2, <1>3, <1>5, <2>1, <2>2, <2>3, Zenon DEF Kept
<1>9. Finds(s, m.iteration)
  BY <1>4, <1>5, <1>8, FindsWithin
<1> QED BY <1>4, <1>9, CanReadWith, Zenon

\* The states are those of the last announcements.
LEMMA InvRecent == Inv => RecordIsRecent
<1> SUFFICES ASSUME Inv, NEW p \in Members
             PROVE  [i \in DOMAIN records[p] |-> records[p][i].sender_key_id] =
                    LET last == LastOf(processed[p], MAX_SENDER_KEY_STATES)
                    IN  [i \in DOMAIN last |-> last[Len(last) + 1 - i].id]
  BY Zenon DEF RecordIsRecent
<1> DEFINE r == records[p]
           a == processed[p]
           from == IF Len(a) > MAX_SENDER_KEY_STATES THEN Len(a) - MAX_SENDER_KEY_STATES + 1
                   ELSE 1
           last == SubSeq(a, from, Len(a))
<1>1. r \in Seq(KeyStates) /\ a \in Seq(Keys) /\ Recent(r, a)
  BY DEF Inv, MembersGood, Good
<1>2. LastOf(a, MAX_SENDER_KEY_STATES) = last
  BY DEF LastOf
<1> HIDE DEF r, a
<1>3. /\ Len(r) = IF Len(a) >= MAX_SENDER_KEY_STATES THEN MAX_SENDER_KEY_STATES ELSE Len(a)
      /\ \A j \in 1..Len(r) : r[j].sender_key_id = a[Origin(a, j)].id
      /\ Len(a) \in Nat /\ Len(r) \in Nat
  BY <1>1 DEF Recent
<1>4. from \in 1..(Len(a) + 1) /\ Len(a) - from + 1 = Len(r)
  <2>1. \A n \in Nat, max \in Nat \ {0} :
            LET f == IF n > max THEN n - max + 1 ELSE 1
            IN  f \in 1..(n + 1) /\ n - f + 1 = IF n >= max THEN max ELSE n
    OBVIOUS
  <2> QED BY <1>3, <2>1, SenderKeysAssumption, Zenon
<1> HIDE DEF from
<1>5. last \in Seq(Keys) /\ Len(last) = Len(r)
      /\ \A k \in 1..Len(r) : last[k] = a[from + k - 1]
  BY <1>1, <1>3, <1>4
<1> HIDE DEF last
<1>6. ASSUME NEW j \in 1..Len(r) PROVE r[j].sender_key_id = last[Len(last) + 1 - j].id
  <2>1. Len(last) + 1 - j \in 1..Len(r) /\ from + (Len(last) + 1 - j) - 1 = Origin(a, j)
    <3>1. \A n, k \in Nat : \A f \in 1..(n + 1), x \in 1..k :
              n - f + 1 = k => k + 1 - x \in 1..k /\ f + (k + 1 - x) - 1 = n + 1 - x
      OBVIOUS
    <3>2. Len(r) + 1 - j \in 1..Len(r) /\ from + (Len(r) + 1 - j) - 1 = Origin(a, j)
      BY <1>3, <1>4, <3>1, Zenon DEF Origin
    <3>3. Len(last) = Len(r)
      BY <1>5
    <3> QED BY <3>2, <3>3, Zenon
  <2> QED BY <1>3, <1>5, <2>1
<1>7. DOMAIN r = 1..Len(r) /\ DOMAIN last = 1..Len(r)
  BY <1>1, <1>5
<1>8. [i \in DOMAIN r |-> r[i].sender_key_id] =
        [i \in DOMAIN last |-> last[Len(last) + 1 - i].id]
  BY <1>6, <1>7
<1> QED BY <1>2, <1>8, Zenon DEF r, a

\* A member reads a message twice only if it processed two announcements of its
\* sender key.
THEOREM ReadAgainOnlyAfterRestart == Spec => []AgainOnlyAfterRestart
  BY InitInv, NextInv, InvAgain, PTL DEF Spec

\* A member reads nothing from before the chain key that it was given.
THEOREM LateMembersReadNothingOlder == Spec => []NothingFromBefore
  BY InitInv, NextInv, InvBefore, PTL DEF Spec

\* With one announcement of a sender key, a message that was not read can be read
\* while it is within MAX_FORWARD_JUMPS ahead and MAX_MESSAGE_KEYS + 1 behind.
THEOREM WindowStaysReadable == Spec => []Readable
  BY InitInv, NextInv, InvReadable, PTL DEF Spec

\* The record holds the states of the last MAX_SENDER_KEY_STATES announcements,
\* newest first.
THEOREM RecordsAreRecent == Spec => []RecordIsRecent
  BY InitInv, NextInv, InvRecent, PTL DEF Spec
=============================================================================
