-------------------------- MODULE SenderKeysProofs --------------------------
(***************************************************************************)
(* What the operators of SenderKeys do to a state and to a record, for any *)
(* limits: the facts that the proofs about group sessions and about        *)
(* concurrent group calls rest on.                                         *)
(***************************************************************************)
EXTENDS SenderKeys, SequenceTheorems, WellFoundedInduction, TLAPS

\* The least of a non-empty set of numbers is in it.
LEMMA MinIsIn ==
    ASSUME NEW I \in SUBSET Nat, I # {}
    PROVE  Min(I) \in I /\ \A i \in I : Min(I) <= i
<1> DEFINE R == OpToRel(<, Nat)
<1>1. \E x \in I : \A y \in I : ~(<<y, x>> \in R)
  <2> IsWellFoundedOn(R, Nat)
    BY NatLessThanWellFounded, Zenon
  <2> HIDE DEF R
  <2> QED BY WFMin, Zenon
<1>2. ASSUME NEW x \in I, NEW y \in I, ~(<<y, x>> \in R) PROVE x <= y
  BY <1>2 DEF OpToRel
<1>3. \E x \in I : \A y \in I : x <= y
  BY <1>1, <1>2, Zenon
<1> QED
  BY <1>3 DEF Min

\* Vec::remove closes up the place it takes out.
LEMMA Removed ==
    ASSUME NEW v \in Seq(Nat), NEW p \in 1..Len(v)
    PROVE  /\ remove(v, p) \in Seq(Nat)
           /\ Len(remove(v, p)) = Len(v) - 1
           /\ \A i \in 1..(Len(v) - 1) :
                 remove(v, p)[i] = IF i < p THEN v[i] ELSE v[i + 1]
<1> DEFINE a == SubSeq(v, 1, p - 1)
           b == SubSeq(v, p + 1, Len(v))
           c == a \o b
<1>1. a \in Seq(Nat) /\ Len(a) = p - 1 /\ \A i \in 1..(p - 1) : a[i] = v[i]
  OBVIOUS
<1>2. /\ b \in Seq(Nat) /\ Len(b) = Len(v) - p
      /\ \A i \in 1..(Len(v) - p) : b[i] = v[p + i]
  OBVIOUS
<1> HIDE DEF a, b
<1>3. /\ c \in Seq(Nat)
      /\ Len(c) = Len(a) + Len(b)
      /\ \A i \in 1..(Len(a) + Len(b)) :
            c[i] = IF i <= Len(a) THEN a[i] ELSE b[i - Len(a)]
  BY <1>1, <1>2, ConcatProperties, Zenon
<1> HIDE DEF c
<1>4. ASSUME NEW i \in 1..(Len(v) - 1)
      PROVE  c[i] = IF i < p THEN v[i] ELSE v[i + 1]
  <2>1. i \in 1..(Len(a) + Len(b)) /\ i \in Nat /\ p \in Nat /\ Len(v) \in Nat
    BY <1>1, <1>2
  <2>2. CASE i < p
    BY <1>1, <1>3, <2>1, <2>2
  <2>3. CASE ~(i < p)
    <3> DEFINE j == i - Len(a)
    <3>1. ~(i <= Len(a)) /\ j \in 1..(Len(v) - p) /\ p + j = i + 1
      BY <1>1, <2>1, <2>3
    <3>2. c[i] = b[j]
      BY <1>3, <2>1, <3>1
    <3> HIDE DEF j
    <3>3. b[j] = v[i + 1]
      BY <1>2, <3>1
    <3> QED BY <2>3, <3>2, <3>3
  <2> QED BY <2>2, <2>3
<1>5. Len(c) = Len(v) - 1
  BY <1>1, <1>2, <1>3
<1> QED BY <1>3, <1>4, <1>5, Zenon DEF remove, a, b, c

\* remove_sender_message_key takes out the key it finds.
LEMMA RemovedKey ==
    ASSUME NEW keys \in Seq(Nat), NEW n \in Nat, contains(keys, n)
    PROVE  \E p \in 1..Len(keys) :
              keys[p] = n /\ remove_sender_message_key(keys, n) = remove(keys, p)
<1> DEFINE I == {i \in 1..Len(keys) : keys[i] = n}
<1>1. I \in SUBSET Nat /\ I # {}
  BY DEF contains
<1>2. remove_sender_message_key(keys, n) = remove(keys, Min(I))
  BY <1>1 DEF remove_sender_message_key, first_place
<1>3. Min(I) \in I
  <2> HIDE DEF I
  <2> QED BY <1>1, MinIsIn
<1> QED
  BY <1>2, <1>3

\* add_sender_message_key keeps the last MAX_MESSAGE_KEYS of all keys.
LEMMA AddedKeys ==
    ASSUME NEW keys \in Seq(Nat), NEW more \in Seq(Nat)
    PROVE  LET new == add_sender_message_keys(keys, more)
           IN  /\ new \in Seq(Nat)
               /\ \E gone \in Nat :
                    /\ gone + Len(new) = Len(keys) + Len(more)
                    /\ gone = 0 \/ Len(new) = MAX_MESSAGE_KEYS
                    /\ \A i \in 1..Len(new) :
                         new[i] = IF gone + i <= Len(keys) THEN keys[gone + i]
                                  ELSE more[gone + i - Len(keys)]
<1> DEFINE all == keys \o more
           gone == IF Len(all) > MAX_MESSAGE_KEYS THEN Len(all) - MAX_MESSAGE_KEYS ELSE 0
           new == SubSeq(all, gone + 1, Len(all))
<1>1. all \in Seq(Nat) /\ Len(all) \in Nat /\ Len(all) = Len(keys) + Len(more)
  OBVIOUS
<1>2. \A i \in 1..(Len(keys) + Len(more)) :
         all[i] = IF i <= Len(keys) THEN keys[i] ELSE more[i - Len(keys)]
  BY ConcatProperties, Zenon
<1>3. add_sender_message_keys(keys, more) = new
  BY <1>1, SenderKeysAssumption DEF add_sender_message_keys, LastOf
<1> HIDE DEF all
<1>4. gone \in 0..Len(all) /\ (gone = 0 \/ Len(all) - gone = MAX_MESSAGE_KEYS)
  BY <1>1, SenderKeysAssumption
<1> HIDE DEF gone
<1>5. /\ new \in Seq(Nat) /\ Len(new) = Len(all) - gone
      /\ \A i \in 1..(Len(all) - gone) : new[i] = all[gone + i]
  <2> DEFINE from == gone + 1
             to == Len(all)
  <2>1. from \in Int /\ to \in Int /\ \A i \in from..to : all[i] \in Nat
    BY <1>1, <1>4
  <2>2. new = SubSeq(all, from, to)
    OBVIOUS
  <2>3. from = gone + 1 /\ to = Len(all)
    OBVIOUS
  <2> HIDE DEF from, to, new
  <2>4. /\ new \in Seq(Nat)
        /\ Len(new) = IF from <= to THEN to - from + 1 ELSE 0
        /\ \A i \in 1..(to - from + 1) : new[i] = all[from + i - 1]
    BY <2>1, <2>2, SubSeqProperties
  <2> QED BY <1>1, <1>4, <2>3, <2>4, SMTT(30)
<1> HIDE DEF new
<1>6. ASSUME NEW i \in 1..Len(new)
      PROVE  new[i] = IF gone + i <= Len(keys) THEN keys[gone + i]
                      ELSE more[gone + i - Len(keys)]
  <2> DEFINE j == gone + i
  <2>a. /\ Len(all) \in Nat /\ Len(all) = Len(keys) + Len(more)
        /\ gone \in 0..Len(all) /\ Len(new) = Len(all) - gone
    BY <1>1, <1>4, <1>5, Zenon
  <2>1. j \in 1..(Len(keys) + Len(more)) /\ i \in 1..(Len(all) - gone)
    BY <2>a
  <2>2. new[i] = all[j]
    BY <1>5, <2>1, Zenon
  <2> HIDE DEF j
  <2>3. new[i] = IF j <= Len(keys) THEN keys[j] ELSE more[j - Len(keys)]
    BY <1>2, <2>1, <2>2, Zenon
  <2> QED BY <1>4, <2>3 DEF j
<1>7. /\ gone + Len(new) = Len(keys) + Len(more) /\ gone \in Nat
      /\ gone = 0 \/ Len(new) = MAX_MESSAGE_KEYS
  BY <1>1, <1>4, <1>5
<1> QED BY <1>3, <1>5, <1>6, <1>7, Zenon
-----------------------------------------------------------------------------
\* Numbers in order: between two of them there are as many numbers as places.
Ordered(v) == \A j \in 1..Len(v) : \A i \in 1..j : v[i] + (j - i) <= v[j]

\* Taking out one of the numbers leaves the others, in order.
LEMMA OrderedRemoved ==
    ASSUME NEW v \in Seq(Nat), NEW p \in 1..Len(v), Ordered(v)
    PROVE  /\ Ordered(remove(v, p))
           /\ \A k \in Nat : contains(remove(v, p), k) <=> contains(v, k) /\ k # v[p]
<1> DEFINE w == remove(v, p)
<1>0. /\ w \in Seq(Nat) /\ Len(w) = Len(v) - 1
      /\ \A i \in 1..(Len(v) - 1) : w[i] = IF i < p THEN v[i] ELSE v[i + 1]
  BY Removed, Zenon
<1> HIDE DEF w
<1>1. Len(w) = Len(v) - 1 /\ Len(v) \in Nat /\ Len(w) \in Nat /\ p \in Nat
  BY <1>0
<1>2. \A i \in 1..Len(v) : v[i] \in Nat
  OBVIOUS
<1>3. \A i \in 1..Len(w) : i < p => i \in 1..Len(v) /\ w[i] = v[i]
  BY <1>0
<1>4. \A i \in 1..Len(w) : ~(i < p) => i + 1 \in 1..Len(v) /\ w[i] = v[i + 1]
  BY <1>0
<1>5. \A i, j \in 1..Len(v) : i <= j => v[i] + (j - i) <= v[j]
  BY DEF Ordered
<1>6. ASSUME NEW j \in 1..Len(w), NEW i \in 1..j PROVE w[i] + (j - i) <= w[j]
  <2>0. i \in 1..Len(w) /\ i \in Nat /\ j \in Nat /\ i <= j
    BY <1>1
  <2>1. CASE j < p
    <3>0. i < p
      BY <1>1, <2>0, <2>1
    <3>1. w[i] = v[i] /\ w[j] = v[j] /\ i \in 1..Len(v) /\ j \in 1..Len(v)
      BY <1>3, <2>0, <2>1, <3>0, Zenon
    <3> QED BY <1>5, <2>0, <3>1
  <2>2. CASE i < p /\ ~(j < p)
    <3>1. w[i] = v[i] /\ w[j] = v[j + 1] /\ i \in 1..Len(v) /\ j + 1 \in 1..Len(v)
      BY <1>3, <1>4, <2>0, <2>2
    <3>2. v[i] + ((j + 1) - i) <= v[j + 1] /\ v[i] \in Nat /\ v[j + 1] \in Nat
      BY <1>2, <1>5, <2>0, <3>1
    <3>3. \A a, b \in Nat : a + ((j + 1) - i) <= b => a + (j - i) <= b
      BY <2>0
    <3>4. v[i] + (j - i) <= v[j + 1]
      BY <3>2, <3>3, Zenon
    <3> QED BY <3>1, <3>4
  <2>3. CASE ~(i < p)
    <3>0. ~(j < p)
      BY <1>1, <2>0, <2>3
    <3>1. /\ w[i] = v[i + 1] /\ w[j] = v[j + 1]
          /\ i + 1 \in 1..Len(v) /\ j + 1 \in 1..Len(v)
      BY <1>4, <2>0, <2>3, <3>0, Zenon
    <3>2. v[i + 1] + ((j + 1) - (i + 1)) <= v[j + 1] /\ v[i + 1] \in Nat /\ v[j + 1] \in Nat
      BY <1>2, <1>5, <2>0, <3>1
    <3>3. v[i + 1] + (j - i) <= v[j + 1]
      BY <2>0, <3>2
    <3> QED BY <3>1, <3>3
  <2> QED BY <1>1, <2>0, <2>1, <2>2, <2>3
<1>7. ASSUME NEW i \in 1..Len(w) PROVE contains(v, w[i]) /\ w[i] # v[p]
  <2>1. CASE i < p
    <3>1. w[i] = v[i] /\ i \in 1..Len(v)
      BY <1>3, <2>1
    <3>2. v[i] + (p - i) <= v[p] /\ v[i] \in Nat /\ v[p] \in Nat
      BY <1>1, <1>2, <1>5, <2>1, <3>1
    <3>3. v[i] # v[p]
      BY <1>1, <2>1, <3>2, SMTT(30)
    <3> QED BY <3>1, <3>3 DEF contains
  <2>2. CASE ~(i < p)
    <3>1. w[i] = v[i + 1] /\ i + 1 \in 1..Len(v) /\ p < i + 1
      BY <1>1, <1>4, <2>2
    <3>2. v[p] + ((i + 1) - p) <= v[i + 1] /\ v[i + 1] \in Nat /\ v[p] \in Nat
      BY <1>1, <1>2, <1>5, <3>1
    <3>3. v[i + 1] # v[p]
      BY <1>1, <3>1, <3>2, SMTT(30)
    <3> QED BY <3>1, <3>3 DEF contains
  <2> QED BY <2>1, <2>2
<1>8. ASSUME NEW i \in 1..Len(v), i # p PROVE contains(w, v[i])
  <2>1. CASE i < p
    <3>1. i \in 1..Len(w) /\ w[i] = v[i]
      BY <1>1, <1>3, <2>1
    <3> QED BY <3>1 DEF contains
  <2>2. CASE ~(i < p)
    <3> DEFINE h == i - 1
    <3>1. h \in 1..Len(w) /\ ~(h < p) /\ h + 1 = i
      BY <1>1, <1>8, <2>2
    <3> HIDE DEF h
    <3>2. w[h] = v[i]
      BY <1>4, <3>1
    <3> QED BY <3>1, <3>2 DEF contains
  <2> QED BY <2>1, <2>2
<1>9. Ordered(w)
  BY <1>6 DEF Ordered
<1> QED BY <1>7, <1>8, <1>9 DEF contains, w
\* Appending the iterations at..(n - 1), when all the others are before at, and
\* cutting leaves them in order, and what goes is MAX_MESSAGE_KEYS behind.
LEMMA OrderedAdded ==
    ASSUME NEW keys \in Seq(Nat), Ordered(keys),
           NEW at \in Nat, \A i \in 1..Len(keys) : keys[i] < at,
           NEW n \in Nat, at <= n,
           NEW more, more = [i \in 1..(n - at) |-> at + i - 1]
    PROVE  LET new == add_sender_message_keys(keys, more)
           IN  /\ new \in Seq(Nat) /\ Ordered(new)
               /\ \A i \in 1..Len(new) : new[i] < n
               /\ \A k \in Nat : contains(new, k) =>
                                    contains(keys, k) \/ (at <= k /\ k < n)
               /\ \A k \in Nat : contains(keys, k) \/ (at <= k /\ k < n) =>
                                    contains(new, k) \/ k + MAX_MESSAGE_KEYS < n
<1> DEFINE L == Len(keys)
           T == L + (n - at)
           A == [h \in 1..T |-> IF h <= L THEN keys[h] ELSE at + (h - L) - 1]
           new == add_sender_message_keys(keys, more)
<1>1. /\ more \in Seq(Nat) /\ Len(more) = n - at
      /\ \A i \in 1..(n - at) : more[i] = at + i - 1
  OBVIOUS
<1>2. PICK gone \in Nat :
        /\ gone + Len(new) = Len(keys) + Len(more)
        /\ gone = 0 \/ Len(new) = MAX_MESSAGE_KEYS
        /\ \A i \in 1..Len(new) :
             new[i] = IF gone + i <= Len(keys) THEN keys[gone + i]
                      ELSE more[gone + i - Len(keys)]
  <2> HIDE DEF new
  <2> QED BY <1>1, AddedKeys, Zenon DEF new
<1>3. new \in Seq(Nat) /\ Len(new) \in Nat
  <2>1. new \in Seq(Nat)
    BY <1>1, AddedKeys, Zenon
  <2> HIDE DEF new
  <2> QED BY <2>1
<1> HIDE DEF new
<1>4. L \in Nat /\ T \in Nat /\ \A i \in 1..L : keys[i] \in Nat /\ keys[i] < at
  OBVIOUS
<1>5. \A h \in 1..L : h \in 1..T /\ A[h] = keys[h]
  <2> HIDE DEF L
  <2> QED BY <1>4
<1>6. \A h \in 1..T : ~(h <= L) => A[h] = at + (h - L) - 1
  <2> HIDE DEF L
  <2> QED BY <1>4
<1>7. \A i, j \in 1..L : i <= j => keys[i] + (j - i) <= keys[j]
  BY DEF Ordered
<1>8. Len(more) = T - L /\ T - L = n - at /\ L + Len(more) = T
  BY <1>1
<1>9. \A i \in 1..Len(new) : gone + i \in 1..T /\ new[i] = A[gone + i]
  <2> SUFFICES ASSUME NEW i \in 1..Len(new)
               PROVE  gone + i \in 1..T /\ new[i] = A[gone + i]
    OBVIOUS
  <2>1. new[i] = IF gone + i <= L THEN keys[gone + i] ELSE more[gone + i - L]
    BY <1>2
  <2>2. gone + i \in 1..T /\ gone + i \in Nat
    <3> HIDE DEF L, T
    <3> QED BY <1>2, <1>3, <1>4, <1>8 DEF L
  <2> HIDE DEF T, A
  <2>3. CASE gone + i <= L
    <3>1. gone + i \in 1..L
      BY <1>4, <2>2, <2>3
    <3> QED BY <1>5, <2>1, <2>2, <2>3, <3>1
  <2>4. CASE ~(gone + i <= L)
    <3> DEFINE d == gone + i - L
    <3>1. d \in 1..(n - at)
      BY <1>4, <1>8, <2>2, <2>4
    <3>2. new[i] = more[d]
      BY <2>1, <2>4
    <3> HIDE DEF d
    <3>3. new[i] = at + d - 1
      BY <1>1, <3>1, <3>2
    <3> QED BY <1>6, <2>2, <2>4, <3>3 DEF d
  <2> QED BY <2>3, <2>4
<1> HIDE DEF L, T, A
<1>10. ASSUME NEW h \in 1..T
       PROVE  A[h] \in Nat /\ A[h] + (T - h) < n
  <2>1. CASE h <= L
    <3>1. h \in 1..L /\ L \in 1..L /\ h \in Nat
      BY <1>4, <2>1
    <3>2. /\ A[h] = keys[h] /\ keys[h] \in Nat /\ keys[L] \in Nat /\ keys[L] < at
          /\ keys[h] + (L - h) <= keys[L]
      BY <1>4, <1>5, <1>7, <2>1, <3>1
    <3>3. \A a, b \in Nat : a + (L - h) <= b /\ b < at => a + (T - h) < n
      BY <1>4, <1>8, <3>1
    <3> QED BY <3>2, <3>3, Zenon
  <2>2. CASE ~(h <= L)
    <3>1. A[h] = at + (h - L) - 1
      BY <1>6, <2>2
    <3> QED BY <1>4, <1>8, <2>2, <3>1
  <2> QED BY <2>1, <2>2
<1>11. ASSUME NEW h \in 1..T, NEW g \in 1..T, h <= g
       PROVE  A[h] + (g - h) <= A[g]
  <2>1. CASE g <= L
    <3>1. h \in 1..L /\ g \in 1..L
      BY <1>4, <1>11, <2>1
    <3> QED BY <1>5, <1>7, <1>11, <3>1
  <2>2. CASE h <= L /\ ~(g <= L)
    <3>1. h \in 1..L /\ L \in 1..L /\ h \in Nat /\ g \in Nat
      BY <1>4, <2>2
    <3>2. /\ A[h] = keys[h] /\ keys[h] \in Nat /\ keys[L] \in Nat /\ keys[L] < at
          /\ keys[h] + (L - h) <= keys[L] /\ A[g] = at + (g - L) - 1
      BY <1>4, <1>5, <1>6, <1>7, <2>2, <3>1
    <3>3. \A a, b \in Nat : a + (L - h) <= b /\ b < at => a + (g - h) <= at + (g - L) - 1
      BY <1>4, <2>2, <3>1
    <3>4. keys[h] + (g - h) <= at + (g - L) - 1
      BY <3>2, <3>3, Zenon
    <3> QED BY <3>2, <3>4, Zenon
  <2>3. CASE ~(h <= L)
    <3>1. ~(g <= L) /\ g \in Nat /\ h \in Nat
      BY <1>4, <1>11, <2>3
    <3>2. A[h] = at + (h - L) - 1 /\ A[g] = at + (g - L) - 1
      BY <1>6, <2>3, <3>1
    <3> QED BY <1>4, <3>1, <3>2
  <2> QED BY <2>1, <2>2, <2>3
<1>12. Ordered(new)
  <2> SUFFICES ASSUME NEW j \in 1..Len(new), NEW i \in 1..j
               PROVE  new[i] + (j - i) <= new[j]
    BY DEF Ordered
  <2>1. i \in 1..Len(new) /\ gone + i <= gone + j /\ (gone + j) - (gone + i) = j - i
    BY <1>2, <1>3
  <2>2. A[gone + i] + ((gone + j) - (gone + i)) <= A[gone + j]
    BY <1>9, <1>11, <2>1
  <2> QED BY <1>9, <2>1, <2>2
<1>13. \A i \in 1..Len(new) : new[i] < n
  <2> SUFFICES ASSUME NEW i \in 1..Len(new) PROVE new[i] < n
    OBVIOUS
  <2>1. gone + i \in 1..T /\ new[i] = A[gone + i]
    BY <1>9
  <2>2. A[gone + i] \in Nat /\ A[gone + i] + (T - (gone + i)) < n /\ T - (gone + i) \in Nat
    BY <1>4, <1>10, <2>1
  <2>3. \A a, b \in Nat : a + b < n => a < n
    OBVIOUS
  <2> QED BY <2>1, <2>2, <2>3, Zenon
<1>14. ASSUME NEW k \in Nat
       PROVE  contains(keys, k) \/ (at <= k /\ k < n) <=> \E h \in 1..T : A[h] = k
  <2>1. ASSUME NEW i \in 1..L, keys[i] = k PROVE \E h \in 1..T : A[h] = k
    BY <1>5, <2>1
  <2>2. ASSUME at <= k, k < n PROVE \E h \in 1..T : A[h] = k
    <3> DEFINE h == L + (k - at) + 1
    <3>1. h \in 1..T /\ ~(h <= L) /\ at + (h - L) - 1 = k
      BY <1>4, <1>8, <2>2
    <3> HIDE DEF h
    <3> QED BY <1>6, <3>1
  <2>3. ASSUME NEW h \in 1..T, A[h] = k PROVE contains(keys, k) \/ (at <= k /\ k < n)
    <3>1. CASE h <= L
      <4>1. h \in 1..L
        BY <1>4, <3>1
      <4> QED BY <1>5, <2>3, <4>1 DEF contains, L
    <3>2. CASE ~(h <= L)
      <4>1. k = at + (h - L) - 1
        BY <1>6, <2>3, <3>2
      <4> QED BY <1>4, <1>8, <3>2, <4>1
    <3> QED BY <3>1, <3>2
  <2> QED BY <2>1, <2>2, <2>3 DEF contains, L
<1>15. \A k \in Nat : contains(new, k) => \E h \in 1..T : A[h] = k
  BY <1>9 DEF contains
<1>16. ASSUME NEW k \in Nat, NEW h \in 1..T, A[h] = k
       PROVE  contains(new, k) \/ k + MAX_MESSAGE_KEYS < n
  <2>0. gone + Len(new) = T /\ h \in Nat
    <3>1. gone + Len(new) = L + Len(more)
      BY <1>2, Zenon DEF L
    <3>2. h \in Nat
      BY <1>4
    <3> QED BY <1>8, <3>1, <3>2, Zenon
  <2>1. CASE h <= gone
    <3>1. gone # 0 /\ Len(new) = MAX_MESSAGE_KEYS /\ T - h >= MAX_MESSAGE_KEYS
      BY <1>2, <1>3, <1>4, <2>0, <2>1
    <3>2. k + (T - h) < n
      BY <1>10, <1>16
    <3> QED BY <1>4, <2>0, <3>1, <3>2, SenderKeysAssumption
  <2>2. CASE ~(h <= gone)
    <3> DEFINE i == h - gone
    <3>1. i \in 1..Len(new) /\ gone + i = h
      BY <1>2, <1>3, <1>4, <2>0, <2>2
    <3> HIDE DEF i
    <3>2. new[i] = k
      BY <1>9, <1>16, <3>1
    <3> QED BY <3>1, <3>2 DEF contains
  <2> QED BY <2>1, <2>2
<1>17. /\ \A k \in Nat : contains(new, k) => contains(keys, k) \/ (at <= k /\ k < n)
       /\ \A k \in Nat : contains(keys, k) \/ (at <= k /\ k < n) =>
                            contains(new, k) \/ k + MAX_MESSAGE_KEYS < n
  BY <1>14, <1>15, <1>16, Zenon
<1> QED BY <1>3, <1>12, <1>13, <1>17, Zenon DEF new
-----------------------------------------------------------------------------
\* A state whose skipped keys are of iterations before its chain key, in order.
KeyStates ==
    {s \in States : /\ Ordered(s.sender_message_keys)
                    /\ \A i \in 1..Len(s.sender_message_keys) :
                          s.sender_message_keys[i] < s.iteration}

\* The state has no key for the iteration any more.
Consumed(s, n) == s.iteration > n /\ ~contains(s.sender_message_keys, n)

\* get_sender_key with a stored key takes out that key and nothing else.
LEMMA GotStoredKey ==
    ASSUME NEW s \in KeyStates, NEW n \in Nat, s.iteration > n,
           contains(s.sender_message_keys, n)
    PROVE  LET new == get_sender_key(s, n)
           IN  /\ new \in KeyStates
               /\ new.sender_key_id = s.sender_key_id /\ new.private = s.private
               /\ new.iteration = s.iteration
               /\ \A k \in Nat : contains(new.sender_message_keys, k)
                                    <=> contains(s.sender_message_keys, k) /\ k # n
<1> DEFINE old == s.sender_message_keys
           keys == remove_sender_message_key(old, n)
           new == [s EXCEPT !.sender_message_keys = keys]
<1>1. /\ old \in Seq(Nat) /\ s.iteration \in Nat /\ s \in States
      /\ Ordered(old) /\ \A i \in 1..Len(old) : old[i] < s.iteration
  BY DEF KeyStates, States
<1>2. get_sender_key(s, n) = new
  BY DEF get_sender_key
<1>3. contains(old, n)
  OBVIOUS
<1> HIDE DEF old
<1>4. PICK p \in 1..Len(old) : old[p] = n /\ keys = remove(old, p)
  BY <1>1, <1>3, RemovedKey
<1> HIDE DEF keys
<1>5. keys \in Seq(Nat)
  BY <1>1, <1>4, Removed, Zenon
<1>6. Ordered(keys) /\ \A k \in Nat : contains(keys, k) <=> contains(old, k) /\ k # n
  BY <1>1, <1>4, OrderedRemoved, Zenon
<1>7. /\ new \in States /\ new.sender_message_keys = keys
      /\ new.sender_key_id = s.sender_key_id /\ new.private = s.private
      /\ new.iteration = s.iteration
  BY <1>1, <1>5 DEF States
<1>8. ASSUME NEW i \in 1..Len(keys) PROVE keys[i] < s.iteration
  <2>1. keys[i] \in Nat /\ contains(keys, keys[i])
    BY <1>5 DEF contains
  <2>2. contains(old, keys[i])
    BY <1>6, <2>1
  <2> QED BY <1>1, <2>2 DEF contains
<1> HIDE DEF new
<1>9. new \in KeyStates
  BY <1>6, <1>7, <1>8 DEF KeyStates
<1> QED BY <1>2, <1>6, <1>7, <1>9 DEF old

\* get_sender_key with the chain key moves it past the iteration and keeps the
\* keys in between, the latest MAX_MESSAGE_KEYS of all.
LEMMA GotChainKey ==
    ASSUME NEW s \in KeyStates, NEW n \in Nat, s.iteration <= n
    PROVE  LET new == get_sender_key(s, n)
           IN  /\ new \in KeyStates
               /\ new.sender_key_id = s.sender_key_id /\ new.private = s.private
               /\ new.iteration = n + 1
               /\ ~contains(new.sender_message_keys, n)
               /\ \A k \in Nat : contains(new.sender_message_keys, k) =>
                     contains(s.sender_message_keys, k) \/ (s.iteration <= k /\ k < n)
               /\ \A k \in Nat :
                     contains(s.sender_message_keys, k) \/ (s.iteration <= k /\ k < n) =>
                     contains(new.sender_message_keys, k) \/ k + MAX_MESSAGE_KEYS < n
<1> DEFINE old == s.sender_message_keys
           at == s.iteration
           more == [i \in 1..(n - at) |-> at + i - 1]
           keys == add_sender_message_keys(old, more)
           new == [s EXCEPT !.iteration = next(n), !.sender_message_keys = keys]
<1>1. /\ old \in Seq(Nat) /\ at \in Nat /\ s \in States /\ at <= n
      /\ Ordered(old) /\ \A i \in 1..Len(old) : old[i] < at
  BY DEF KeyStates, States
<1>2. get_sender_key(s, n) = new
  BY <1>1 DEF get_sender_key
<1>3. /\ keys \in Seq(Nat) /\ Ordered(keys)
      /\ \A i \in 1..Len(keys) : keys[i] < n
      /\ \A k \in Nat : contains(keys, k) => contains(old, k) \/ (at <= k /\ k < n)
      /\ \A k \in Nat : contains(old, k) \/ (at <= k /\ k < n) =>
                           contains(keys, k) \/ k + MAX_MESSAGE_KEYS < n
  <2> HIDE DEF old, at
  <2> QED BY <1>1, OrderedAdded, Zenon
<1> HIDE DEF keys
<1>4. next(n) = n + 1 /\ n + 1 \in Nat
  BY DEF next
<1>5. /\ new \in States /\ new.sender_message_keys = keys
      /\ new.sender_key_id = s.sender_key_id /\ new.private = s.private
      /\ new.iteration = n + 1
  BY <1>1, <1>3, <1>4 DEF States
<1>6. ~contains(keys, n) /\ \A i \in 1..Len(keys) : keys[i] < n + 1
  BY <1>3 DEF contains
<1> HIDE DEF new
<1>7. new \in KeyStates
  BY <1>3, <1>5, <1>6 DEF KeyStates
<1> QED BY <1>2, <1>3, <1>5, <1>6, <1>7, Zenon

\* get_sender_key finds a key.
Finds(s, n) == sender_key_result(s, n) \in {"stored key", "chain key"}

\* get_sender_key, when it finds a key.
LEMMA GotKey ==
    ASSUME NEW s \in KeyStates, NEW n \in Nat, Finds(s, n)
    PROVE  LET new == get_sender_key(s, n)
           IN  /\ new \in KeyStates
               /\ new.sender_key_id = s.sender_key_id /\ new.private = s.private
               /\ new.iteration >= s.iteration
               /\ ~Consumed(s, n) /\ Consumed(new, n)
               /\ \A k \in Nat : Consumed(s, k) => Consumed(new, k)
               /\ \A k \in Nat : contains(new.sender_message_keys, k) =>
                     contains(s.sender_message_keys, k) \/ s.iteration <= k
               /\ \A k \in Nat : Consumed(new, k) /\ k # n =>
                     Consumed(s, k) \/ k + MAX_MESSAGE_KEYS + 1 < new.iteration
<1> DEFINE new == get_sender_key(s, n)
           at == s.iteration
           now == new.iteration
           Old == {k \in Nat : contains(s.sender_message_keys, k)}
           New == {k \in Nat : contains(new.sender_message_keys, k)}
<1>1. at \in Nat
  BY DEF KeyStates, States
<1>2. /\ new \in KeyStates
      /\ new.sender_key_id = s.sender_key_id /\ new.private = s.private
      /\ \/ /\ at > n /\ n \in Old /\ now = at
            /\ \A k \in Nat : k \in New <=> k \in Old /\ k # n
         \/ /\ at <= n /\ now = n + 1 /\ n \notin New
            /\ \A k \in Nat : k \in New => k \in Old \/ (at <= k /\ k < n)
            /\ \A k \in Nat : k \in Old \/ (at <= k /\ k < n) =>
                                 k \in New \/ k + MAX_MESSAGE_KEYS < n
  <2>1. CASE at > n
    <3>1. contains(s.sender_message_keys, n)
      BY <2>1, Zenon DEF Finds, sender_key_result
    <3> QED BY <2>1, <3>1, GotStoredKey, Zenon
  <2>2. CASE at <= n
    BY <2>2, GotChainKey, Zenon
  <2>3. at > n \/ at <= n
    BY <1>1
  <2> QED BY <2>1, <2>2, <2>3, Zenon
<1> HIDE DEF new, at, now, Old, New
<1>3. /\ now >= at
      /\ ~(at > n /\ n \notin Old) /\ now > n /\ n \notin New
      /\ \A k \in Nat : at > k /\ k \notin Old => now > k /\ k \notin New
      /\ \A k \in Nat : k \in New => k \in Old \/ at <= k
      /\ \A k \in Nat : now > k /\ k \notin New /\ k # n =>
            (at > k /\ k \notin Old) \/ k + MAX_MESSAGE_KEYS + 1 < now
  BY <1>1, <1>2, SenderKeysAssumption
<1>4. /\ \A k \in Nat : k \in Old <=> contains(s.sender_message_keys, k)
      /\ \A k \in Nat : k \in New <=> contains(new.sender_message_keys, k)
  BY DEF Old, New
<1> QED BY <1>2, <1>3, <1>4, Zenon DEF Consumed, new, at, now
-----------------------------------------------------------------------------
\* sender_key_state_for_keyid finds the first state of the id, if there is one.
LEMMA FoundState ==
    ASSUME NEW r \in Seq(KeyStates), NEW id, NEW i, i = sender_key_state_for_keyid(r, id)
    PROVE  /\ i = 0 => \A j \in 1..Len(r) : r[j].sender_key_id # id
           /\ i # 0 => /\ i \in 1..Len(r) /\ r[i].sender_key_id = id
                       /\ \A j \in 1..Len(r) : j < i => r[j].sender_key_id # id
<1> DEFINE I == {j \in 1..Len(r) : r[j].sender_key_id = id}
<1>1. i = IF I = {} THEN 0 ELSE Min(I)
  BY DEF sender_key_state_for_keyid, first_place
<1>2. I \in SUBSET Nat /\ 0 \notin I
  OBVIOUS
<1>3. I # {} => Min(I) \in I /\ \A j \in I : Min(I) <= j
  <2> HIDE DEF I
  <2> QED BY <1>2, MinIsIn
<1>4. CASE I = {}
  BY <1>1, <1>4
<1>5. CASE I # {}
  <2>1. i \in I /\ \A j \in I : i <= j
    BY <1>1, <1>3, <1>5, Zenon
  <2>2. i \in 1..Len(r) /\ r[i].sender_key_id = id /\ i # 0
    BY <1>2, <2>1
  <2>3. ASSUME NEW j \in 1..Len(r), j < i PROVE r[j].sender_key_id # id
    BY <2>1, <2>2, <2>3
  <2> QED BY <2>2, <2>3
<1> QED BY <1>4, <1>5

\* A fresh state is one, and has consumed what is before it.
LEMMA FreshState ==
    ASSUME NEW id \in Nat, NEW iteration \in Nat, NEW private \in {"yes", "no"},
           NEW s, s = SenderKeyState(id, iteration, private)
    PROVE  /\ s \in KeyStates /\ s.sender_key_id = id /\ s.iteration = iteration
           /\ s.private = private /\ \A k : ~contains(s.sender_message_keys, k)
<1>1. <<>> \in Seq(Nat) /\ Len(<<>>) = 0 /\ \A i \in 1..0 : FALSE
  OBVIOUS
<1>2. s \in States
  BY DEF SenderKeyState, States
<1> QED BY <1>1, <1>2 DEF SenderKeyState, KeyStates, contains, Ordered

\* The same for the state of an announcement.
LEMMA AnnouncedState ==
    ASSUME NEW skdm \in [id : Nat, iteration : Nat], NEW s,
           s = SenderKeyState(skdm.id, skdm.iteration, "no")
    PROVE  /\ s \in KeyStates /\ s.sender_key_id = skdm.id
           /\ s.iteration = skdm.iteration /\ s.private = "no"
           /\ \A k : ~contains(s.sender_message_keys, k)
  BY FreshState

\* add_sender_key_state puts the state first and cuts the record.
LEMMA AddedState ==
    ASSUME NEW r \in Seq(KeyStates), NEW id \in Nat, NEW iteration \in Nat,
           NEW private \in {"yes", "no"}, NEW new,
           new = add_sender_key_state(r, id, iteration, private)
    PROVE  /\ new \in Seq(KeyStates) /\ Len(new) >= 1
           /\ Len(new) = IF Len(r) >= MAX_SENDER_KEY_STATES THEN MAX_SENDER_KEY_STATES
                         ELSE Len(r) + 1
           /\ new[1] = SenderKeyState(id, iteration, private)
           /\ \A i \in 2..Len(new) : i - 1 \in 1..Len(r) /\ new[i] = r[i - 1]
<1> DEFINE s == SenderKeyState(id, iteration, private)
           n == IF Len(r) >= MAX_SENDER_KEY_STATES THEN MAX_SENDER_KEY_STATES
                ELSE Len(r) + 1
           all == <<s>> \o r
<1>1. s \in KeyStates
  BY FreshState
<1>2. n \in 1..(Len(r) + 1)
  BY SenderKeysAssumption
<1>3. new = SubSeq(all, 1, n)
  BY DEF add_sender_key_state
<1> HIDE DEF s, n
<1>4. /\ all \in Seq(KeyStates) /\ Len(all) = Len(r) + 1 /\ all[1] = s
      /\ \A i \in 2..(Len(r) + 1) : i - 1 \in 1..Len(r) /\ all[i] = r[i - 1]
  BY <1>1
<1> HIDE DEF all
<1>5. new \in Seq(KeyStates) /\ Len(new) = n /\ \A i \in 1..n : new[i] = all[i]
  BY <1>2, <1>3, <1>4
<1>6. ASSUME NEW i \in 2..Len(new) PROVE i - 1 \in 1..Len(r) /\ new[i] = r[i - 1]
  BY <1>2, <1>4, <1>5
<1>7. new[1] = s /\ Len(new) >= 1
  BY <1>2, <1>4, <1>5
<1> QED BY <1>5, <1>6, <1>7, Zenon DEF n, s

\* The same for the state of an announcement.
LEMMA AnnouncementAdded ==
    ASSUME NEW r \in Seq(KeyStates), NEW skdm \in [id : Nat, iteration : Nat],
           NEW new, new = add_sender_key_state(r, skdm.id, skdm.iteration, "no")
    PROVE  /\ new \in Seq(KeyStates) /\ Len(new) >= 1
           /\ new[1] = SenderKeyState(skdm.id, skdm.iteration, "no")
           /\ \A i \in 2..Len(new) : i - 1 \in 1..Len(r) /\ new[i] = r[i - 1]
<1>1. skdm.id \in Nat /\ skdm.iteration \in Nat
  OBVIOUS
<1> QED BY <1>1, AddedState

\* set_sender_key_state leaves that state alone.
LEMMA OnlyState ==
    ASSUME NEW id \in Nat, NEW iteration \in Nat, NEW private \in {"yes", "no"}
    PROVE  set_sender_key_state(id, iteration, private)
             = <<SenderKeyState(id, iteration, private)>>
<1>1. ASSUME NEW r \in Seq(KeyStates),
             NEW new, new = add_sender_key_state(r, id, iteration, private)
      PROVE  Len(r) = 0 => new = <<SenderKeyState(id, iteration, private)>>
  <2>1. /\ new \in Seq(KeyStates) /\ new[1] = SenderKeyState(id, iteration, private)
        /\ Len(new) = IF Len(r) >= MAX_SENDER_KEY_STATES THEN MAX_SENDER_KEY_STATES
                      ELSE Len(r) + 1
    BY <1>1, AddedState
  <2>2. Len(r) = 0 => Len(new) = 1
    BY <2>1, SenderKeysAssumption
  <2>3. \A q \in Seq(KeyStates) : Len(q) = 1 => q = <<q[1]>>
    OBVIOUS
  <2> QED BY <2>1, <2>2, <2>3, Zenon
<1>2. <<>> \in Seq(KeyStates) /\ Len(<<>>) = 0
  OBVIOUS
<1> QED
  <2>1. \A new : new = add_sender_key_state(<<>>, id, iteration, private) =>
             new = <<SenderKeyState(id, iteration, private)>>
    BY <1>1, <1>2, Zenon
  <2> QED BY <2>1, Zenon DEF set_sender_key_state

\* Reading with the state at i changes that state only.
LEMMA ReadState ==
    ASSUME NEW r \in Seq(KeyStates), NEW i \in 1..Len(r), NEW n \in Nat, Finds(r[i], n),
           NEW new, new = [r EXCEPT ![i] = get_sender_key(r[i], n)]
    PROVE  /\ new \in Seq(KeyStates) /\ Len(new) = Len(r)
           /\ new[i] = get_sender_key(r[i], n)
           /\ \A j \in 1..Len(r) : j # i => new[j] = r[j]
           /\ \A j \in 1..Len(r) : new[j].sender_key_id = r[j].sender_key_id
<1>1. r[i] \in KeyStates
  OBVIOUS
<1> DEFINE s == get_sender_key(r[i], n)
<1>2. s \in KeyStates /\ s.sender_key_id = r[i].sender_key_id
  BY <1>1, GotKey
<1>3. /\ new \in Seq(KeyStates) /\ Len(new) = Len(r) /\ new[i] = s
      /\ \A j \in 1..Len(r) : j # i => new[j] = r[j]
  BY <1>2
<1> HIDE DEF s
<1>4. \A j \in 1..Len(r) : new[j].sender_key_id = r[j].sender_key_id
  BY <1>2, <1>3
<1> QED BY <1>3, <1>4, Zenon DEF s

\* Which state is found depends on the ids only.
LEMMA SameStates ==
    ASSUME NEW r \in Seq(KeyStates), NEW new \in Seq(KeyStates), Len(new) = Len(r),
           \A j \in 1..Len(r) : new[j].sender_key_id = r[j].sender_key_id, NEW id
    PROVE  sender_key_state_for_keyid(new, id) = sender_key_state_for_keyid(r, id)
<1>1. {j \in 1..Len(new) : new[j].sender_key_id = id}
         = {j \in 1..Len(r) : r[j].sender_key_id = id}
  BY Zenon
<1> QED BY <1>1, Zenon DEF sender_key_state_for_keyid, first_place
=============================================================================
