---------------------------- MODULE SealedSender ----------------------------
(***************************************************************************)
(* Sealed sender (SealedSessionCipher.java): a message of a session inside *)
(* an envelope that hides its sender.  Alice encrypts with a session, then *)
(* seals for the identity key that Alice's store has for Bob, with a       *)
(* certificate.  Bob opens the envelope, validates the certificate,        *)
(* chooses one of Alice's two addresses, the UUID and the phone number     *)
(* (E164), and decrypts the message with the session under it.  The lock   *)
(* of the sessions is taken only for the last step: Bob's threads choose   *)
(* an address and decrypt in any order.                                    *)
(*                                                                         *)
(* Envelopes may be lost, repeated and reordered.  Keys are numbers, and a *)
(* layer opens for the key it was sealed for.  A session is a number; what *)
(* a record keeps of it is which of its messages were read.                *)
(***************************************************************************)
EXTENDS Naturals, FiniteSets, Sequences, TLC

CONSTANTS Threads,      \* Bob's
          MaxSent,      \* messages Alice encrypts (a bound)
          MaxSessions,  \* sessions that are made (a bound)
          MaxKey,       \* identity keys of a party (a bound)
          MaxTime       \* the clock (a bound)

ASSUME BoundsAssumption == {MaxSent, MaxSessions, MaxKey, MaxTime} \subseteq Nat

VARIABLES time,
          aliceKey, bobKey,   \* their identity keys
          known,              \* Alice's store: Bob's identity key, 0 if none
          session,            \* Alice's session, <<>> or one
          pending,            \* a message encrypted and not yet sealed, <<>> or one
          net,                \* the envelopes on their way
          made,               \* sessions made so far
          record,             \* Bob: address |-> the sessions under it
          trusted,            \* Bob: address |-> the identity key under it, 0 if none
          received,           \* Bob: address |-> the messages read there
          oneTime,            \* Bob: the one-time pre-keys used
          chosen,             \* Bob: thread |-> the envelope it has opened and the
                              \* address it has chosen, <<>> or one
          delivered,          \* texts handed over, with the address and the time
          missed              \* the sessions that could have read the last envelope
                              \* and were not asked

bob == <<record, trusted, received, oneTime, chosen, delivered, missed>>
alice == <<known, session, pending, made>>
vars == <<time, aliceKey, bobKey, net, alice, bob>>

\* Bob's threads are alike.
Symm == Permutations(Threads)

Addresses == {"uuid", "e164"}

\* What a certificate may say: the server's root, how long it holds, and which
\* names of Alice's it has.
Certificates(key) ==
    LET Kind(root, expires, names) ==
            [key |-> key, root |-> root, expires |-> expires, names |-> names]
    IN {Kind("root", 1, Addresses), Kind("other", MaxTime, Addresses)}
           \cup {Kind("root", MaxTime, names) : names \in (SUBSET Addresses) \ {{}}}
----------------------------------------------------------------------------
Init ==
    /\ time = 1 /\ aliceKey = 1 /\ bobKey = 1 /\ known = 0
    /\ session = <<>> /\ pending = <<>>
    /\ net = {} /\ made = 0
    /\ record = [a \in Addresses |-> {}] /\ trusted = [a \in Addresses |-> 0]
    /\ received = [a \in Addresses |-> {}] /\ oneTime = {}
    /\ chosen = [t \in Threads |-> <<>>] /\ delivered = {} /\ missed = {}

Tick ==
    /\ time < MaxTime
    /\ time' = time + 1
    /\ UNCHANGED <<aliceKey, bobKey, net, alice, bob>>

\* Alice processes a bundle of Bob's, with a one-time pre-key or without.
NewSession ==
    /\ made < MaxSessions /\ known \in {0, bobKey}
    /\ made' = made + 1
    /\ known' = bobKey
    /\ \E o \in BOOLEAN :
          session' = <<[id |-> made + 1, peer |-> bobKey, key |-> aliceKey, oneTime |-> o,
                        type |-> "PREKEY", sent |-> 0]>>
    /\ UNCHANGED <<time, aliceKey, bobKey, pending, net, bob>>

\* Bob starts a session under one of Alice's addresses, and Alice answers in it.
BobStarts(a) ==
    /\ made < MaxSessions /\ known \in {0, bobKey} /\ trusted[a] \in {0, aliceKey}
    /\ made' = made + 1
    /\ known' = bobKey
    /\ session' = <<[id |-> made + 1, peer |-> bobKey, key |-> aliceKey, oneTime |-> FALSE,
                     type |-> "WHISPER", sent |-> 0]>>
    /\ record' = [record EXCEPT ![a] = @ \cup {made + 1}]
    /\ trusted' = [trusted EXCEPT ![a] = aliceKey]
    /\ UNCHANGED <<time, aliceKey, bobKey, pending, net, received, oneTime, chosen,
                   delivered, missed>>

\* Bob answers, and Alice's messages are no longer pre-key messages.
Reply ==
    /\ session # <<>> /\ session[1].type = "PREKEY"
    /\ \E a \in Addresses : session[1].id \in record[a]
    /\ session' = <<[session[1] EXCEPT !.type = "WHISPER"]>>
    /\ UNCHANGED <<time, aliceKey, bobKey, known, pending, net, made, bob>>

AliceReinstalls ==
    /\ aliceKey < MaxKey /\ pending = <<>>
    /\ aliceKey' = aliceKey + 1 /\ session' = <<>> /\ known' = 0
    /\ UNCHANGED <<time, bobKey, pending, net, made, bob>>

BobReinstalls ==
    /\ bobKey < MaxKey
    /\ bobKey' = bobKey + 1
    /\ record' = [a \in Addresses |-> {}] /\ trusted' = [a \in Addresses |-> 0]
    /\ received' = [a \in Addresses |-> {}] /\ oneTime' = {} /\ missed' = {}
    /\ chosen' = [t \in Threads |-> <<>>]
    /\ UNCHANGED <<time, aliceKey, net, alice, delivered>>

\* Bob accepts Alice's new identity key.
Approve(a) ==
    /\ trusted[a] # 0
    /\ trusted' = [trusted EXCEPT ![a] = aliceKey]
    /\ UNCHANGED <<time, aliceKey, bobKey, net, alice, record, received, oneTime, chosen,
                   delivered, missed>>

\* Alice accepts Bob's new identity key, in another thread.
SaveIdentity ==
    /\ known \notin {0, bobKey}
    /\ known' = bobKey
    /\ UNCHANGED <<time, aliceKey, bobKey, session, pending, net, made, bob>>
----------------------------------------------------------------------------
\* encrypt: SessionCipher.encrypt advances the session, under its lock and if
\* the session's identity is trusted ...
EncryptInner ==
    /\ pending = <<>> /\ session # <<>> /\ session[1].peer = known
    /\ Cardinality(net) < MaxSent
    /\ pending' = <<[type |-> session[1].type, session |-> session[1].id,
                     oneTime |-> session[1].oneTime, key |-> session[1].key,
                     n |-> session[1].sent, peer |-> session[1].peer]>>
    /\ session' = <<[session[1] EXCEPT !.sent = @ + 1]>>
    /\ UNCHANGED <<time, aliceKey, bobKey, known, net, made, bob>>

\* ... and getIdentity and the rest follow without it, with a certificate that
\* the server gave Alice for an own key, perhaps one from before a reinstall.
Seal ==
    /\ pending # <<>>
    /\ \E key \in 1..aliceKey : \E c \in Certificates(key) :
          net' = net \cup {[to |-> known, static |-> aliceKey, certificate |-> c,
                            inner |-> pending[1]]}
    /\ pending' = <<>>
    /\ UNCHANGED <<time, aliceKey, bobKey, known, session, made, bob>>
----------------------------------------------------------------------------
\* CertificateValidator.validate, both certificates: no server is revoked.
validate(c, t) == c.root = "root" /\ ~(t > c.expires)

\* Mutant: the certificate's key is not compared with the one that sealed.
Opens_AnyKey(e, t) == e.to = bobKey /\ validate(e.certificate, t)

\* decrypt up to the session: both layers open for Bob's key, the certificate is
\* valid and names the key that sealed.  (Alice is not Bob: no self-send.)
Opens(e, t) ==
    /\ e.to = bobKey
    /\ validate(e.certificate, t)
    /\ e.certificate.key = e.static

\* Mutant: the number is looked for first.
getPreferredAddress_Number(c) ==
    IF "e164" \in c.names THEN "e164" ELSE "uuid"

\* getPreferredAddress; SenderCertificate.getSender prefers the number.
getPreferredAddress(c) ==
    IF "uuid" \in c.names /\ record["uuid"] # {} THEN "uuid"
    ELSE IF "e164" \in c.names /\ record["e164"] # {} THEN "e164"
    ELSE IF "e164" \in c.names THEN "e164" ELSE "uuid"

\* Mutant: the one-time pre-key is still there.
CanRead_KeyKept(a, m) ==
    /\ m \notin received[a]
    /\ trusted[a] \in {0, m.key}
    /\ m.session \in record[a] \/ (m.type = "PREKEY" /\ m.peer = bobKey)

\* SessionCipher.decrypt: what the session under the address makes of it.
CanRead(a, m) ==
    /\ m \notin received[a]
    /\ trusted[a] \in {0, m.key}
    /\ \/ m.session \in record[a]
       \/ /\ m.type = "PREKEY" /\ m.peer = bobKey
          /\ m.oneTime => m.session \notin oneTime

\* decrypt up to the choice of the address, which takes no lock.
Choose(t, e) ==
    /\ chosen[t] = <<>> /\ Opens(e, time)
    /\ chosen' = [chosen EXCEPT ![t] =
           <<[envelope |-> e, time |-> time, address |-> getPreferredAddress(e.certificate),
              uuid |-> record["uuid"] # {}]>>]
    /\ UNCHANGED <<time, aliceKey, bobKey, net, alice, record, trusted, received, oneTime,
                   delivered, missed>>

\* SessionCipher.decrypt under SESSION_LOCK, with the address chosen before.
Decrypt(t) ==
    /\ chosen[t] # <<>>
    /\ LET c == chosen[t][1]
           a == c.address
           m == c.envelope.inner
       IN IF CanRead(a, m)
          THEN /\ record' = [record EXCEPT ![a] = @ \cup {m.session}]
               /\ trusted' = [trusted EXCEPT ![a] = m.key]
               /\ received' = [received EXCEPT ![a] = @ \cup {m}]
               /\ oneTime' = IF m.oneTime THEN oneTime \cup {m.session} ELSE oneTime
               /\ delivered' = delivered \cup
                      {[envelope |-> c.envelope, address |-> a, time |-> c.time, bob |-> bobKey]}
               /\ missed' = {}
          ELSE /\ missed' = {[under |-> b, asked |-> a, uuid |-> c.uuid] :
                                b \in {b \in c.envelope.certificate.names :
                                         CanRead(b, m) /\ m.session \in record[b]}}
               /\ UNCHANGED <<record, trusted, received, oneTime, delivered>>
    /\ chosen' = [chosen EXCEPT ![t] = <<>>]
    /\ UNCHANGED <<time, aliceKey, bobKey, net, alice>>

\* InvalidMetadataMessageException or SelfSendException: nothing happens.
Refuse(e) ==
    /\ ~Opens(e, time)
    /\ missed' = {}
    /\ UNCHANGED <<time, aliceKey, bobKey, net, alice, record, trusted, received, oneTime,
                   chosen, delivered>>

Next ==
    \/ Tick \/ NewSession \/ AliceReinstalls \/ BobReinstalls \/ SaveIdentity
    \/ Reply \/ EncryptInner \/ Seal
    \/ \E a \in Addresses : BobStarts(a) \/ Approve(a)
    \/ \E e \in net : Refuse(e) \/ \E t \in Threads : Choose(t, e)
    \/ \E t \in Threads : Decrypt(t)

Spec == Init /\ [][Next]_vars
----------------------------------------------------------------------------
(* A text is handed over under a certificate of the right root that held   *)
(* when it was read, and the key the certificate names is the one of the   *)
(* session that the text was encrypted with, which no line compares: the   *)
(* key of the envelope stands between them.                                *)
DeliveredIsCertified ==
    \A d \in delivered :
        LET c == d.envelope.certificate
        IN c.root = "root" /\ d.time <= c.expires /\ c.key = d.envelope.inner.key

(* A text is handed over twice only if its envelope, repeated, is read     *)
(* under the number once and under the UUID once Bob has a session there,  *)
(* and only in a session that was made without a one-time pre-key.         *)
AgainOnlyAcrossAddresses ==
    \A d1, d2 \in delivered :
        d1.envelope.inner = d2.envelope.inner /\ d1 # d2 =>
            /\ {d1.address, d2.address} = Addresses
            /\ ~d1.envelope.inner.oneTime

(* A message misses a session that could read it only in two ways.  The   *)
(* session is under the number and another was under the UUID, which       *)
(* getPreferredAddress prefers.  Or it is under the UUID and was made      *)
(* after the address was chosen, when there was none: the choice is stale  *)
(* by the time the lock is taken.                                          *)
MissedBehindUuidOrTooLate ==
    \A s \in missed :
        \/ s.under = "e164" /\ s.asked = "uuid" /\ s.uuid
        \/ s.under = "uuid" /\ s.asked = "e164" /\ ~s.uuid

(* While Bob still has the identity that a message was encrypted for, its  *)
(* envelope is sealed for that identity, although encrypt reads the        *)
(* identity again after the session's lock is released.                    *)
SealedForSession ==
    \A e \in net : e.inner.peer = bobKey => e.to = bobKey
=============================================================================
