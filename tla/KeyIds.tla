------------------------------- MODULE KeyIds -------------------------------
(***************************************************************************)
(* The way of a pre-key id from the device that makes the key to the one   *)
(* that uses it and back: PreKeyRecord and SignedPreKeyRecord, the stores, *)
(* PreKeyBundle, the pending pre key of a session and PreKeySignalMessage. *)
(* Both applications are written in Java or in Swift, and the id is        *)
(* converted at every border it crosses: an integer of Java is signed, and *)
(* in the C bridge the largest value stands for none.  The width of an     *)
(* integer is a constant, so that TLC can go through all of them.          *)
(*                                                                         *)
(* Bob makes keys, stores them under the ids Bob's application knows, and  *)
(* publishes them.  Alice builds a bundle from the published numbers,      *)
(* starts a session with it and sends a message that names the keys.  Bob  *)
(* looks them up again.  What else the two do is in Session.               *)
(***************************************************************************)
EXTENDS Integers, Sequences, FiniteSets, Functions

CONSTANTS OneTimeKeys, SignedKeys,
          Width     \* bits of an integer, 32 in the code (a bound)

VARIABLES
    bob,        \* the language of Bob's application
    alice,      \* the language of Alice's application
    preKeys,    \* Bob's PreKeyStore: the application's ids to keys
    signedKeys, \* Bob's SignedPreKeyStore
    published,  \* numbers and keys on the server
    spent,      \* one-time keys Bob has removed
    bundle,     \* Alice's PreKeyBundle, and the number it was built from
    session,    \* the session Alice started: its pending pre key and its secret
    message,    \* the PreKeySignalMessage on its way
    established,\* whether Bob's record has a state with the base key of Alice's session
    received    \* how Bob's last decryption ended

vars == <<bob, alice, preKeys, signedKeys, published, spent, bundle, session,
          message, established, received>>

Languages == {"java", "swift"}
----------------------------------------------------------------------------
\* Integers across the bridges.  An Option, and a Result whose error does not
\* matter, is a sequence of length at most one.
Half == 2 ^ (Width - 1)
U32 == 0 .. 2 * Half - 1
Jint == -Half .. Half - 1
NoId == 2 * Half - 1          \* 0xFFFFFFFF

\* v as i32 and v as u32.
as_i32(v) == IF v >= Half THEN v - 2 * Half ELSE v
as_u32(v) == v % (2 * Half)

\* IntegerOverflow when the integer is negative.
jint_to_u32(v) == IF v < 0 THEN <<>> ELSE <<v>>

\* The check after the cast, that casting back gives the value, always holds.
jint_from_u32(value) == as_i32(value)

\* Optional ids of the Java bridge: the constructors and the getters.
jint_to_optional(v) == IF v < 0 THEN <<>> ELSE jint_to_u32(v)

\* Optional ids of the C bridge.  A null pointer is <<>>.
get_optional_uint32(p) == IF p = <<>> \/ p = <<NoId>> THEN <<>> ELSE p

\* The ids an application can write down.
AppIds(l) == IF l = "java" THEN Jint ELSE U32
----------------------------------------------------------------------------
\* Records and stores.

\* PreKeyRecord_New and signal_pre_key_record_new; the same for signed ones.
record_new(l, id) == IF l = "java" THEN jint_to_u32(id) ELSE <<id>>

\* PreKeyRecord.getId, and the id the bridge gives to a store callback.
record_id(l, id) == IF l = "java" THEN jint_from_u32(id) ELSE id

\* A function with one more pair.
With(f, x, y) == [z \in DOMAIN f \cup {x} |-> IF z = x THEN y ELSE f[z]]

\* Bob's application makes a record and stores it under the record's id, which it
\* has not given to another key of the kind ("the unique key ID for this PreKey").
MakePreKey(k, n) ==
    LET id == record_new(bob, n)
    IN  /\ k \notin Range(preKeys) \cup spent
        /\ id # <<>>
        /\ LET stored == record_id(bob, id[1])
           IN  /\ \A p \in published : p.key \in OneTimeKeys => p.id # stored
               /\ preKeys' = With(preKeys, stored, k)
               /\ published' = published \cup {[id |-> stored, key |-> k]}
        /\ UNCHANGED <<bob, alice, signedKeys, spent, bundle, session, message, established,
                       received>>

MakeSignedPreKey(k, n) ==
    LET id == record_new(bob, n)
    IN  /\ k \notin Range(signedKeys)
        /\ id # <<>>
        /\ LET stored == record_id(bob, id[1])
           IN  /\ stored \notin DOMAIN signedKeys
               /\ signedKeys' = With(signedKeys, stored, k)
               /\ published' = published \cup {[id |-> stored, key |-> k]}
        /\ UNCHANGED <<bob, alice, preKeys, spent, bundle, session, message, established,
                       received>>
----------------------------------------------------------------------------
\* Bundles.

\* PreKeyBundle::new; <<>> is InvalidPreKeyBundle.
PreKeyBundle(pre_key_id, pre_key, signed_id, signed) ==
    IF (pre_key_id # <<>>) # (pre_key # <<>>) THEN <<>>
    ELSE <<[pre_key_id |-> pre_key_id, pre_key |-> pre_key,
            signed_id |-> signed_id, signed |-> signed]>>

\* PreKeyBundle_New: a negative pre-key id is none, another negative id is
\* refused.  The application writes some integer also when it has no key.
PreKeyBundle_New(n, pre_key, signed_n, signed) ==
    LET signed_id == jint_to_u32(signed_n)
    IN  IF signed_id = <<>> THEN <<>>
        ELSE PreKeyBundle(jint_to_optional(n), pre_key, signed_id[1], signed)

\* signal_pre_key_bundle_new with a pointer to an id, or with null.
signal_pre_key_bundle_new(p, pre_key, signed_n, signed) ==
    PreKeyBundle(get_optional_uint32(p), pre_key, signed_n, signed)

\* The two initialisers of Swift's PreKeyBundle and the constructor of Java's.
NewBundle(n, pre_key, signed_n, signed) ==
    IF alice = "java" THEN PreKeyBundle_New(n, pre_key, signed_n, signed)
    ELSE signal_pre_key_bundle_new(IF pre_key = <<>> THEN <<>> ELSE <<n>>,
                                   pre_key, signed_n, signed)

\* Alice's application fetches a signed key and perhaps a one-time key, which the
\* server may have given to others before.
Fetch(p, n, s) ==
    LET built == NewBundle(n, IF p = <<>> THEN <<>> ELSE <<p[1].key>>, s.id, s.key)
    IN  /\ bundle = <<>> /\ session = <<>>
        /\ s \in published /\ s.key \in SignedKeys /\ s.id \in AppIds(alice)
        /\ p # <<>> => p[1] \in published /\ p[1].key \in OneTimeKeys /\ p[1].id = n
        /\ n \in AppIds(alice)
        /\ built # <<>>
        /\ bundle' = <<[built |-> built[1], n |-> n]>>
        /\ UNCHANGED <<bob, alice, preKeys, signedKeys, published, spent, session, message,
                       established, received>>
----------------------------------------------------------------------------
\* The session and its message.

\* None is stored as 0, and the signed id in a signed integer.
set_unacknowledged_pre_key_message(pre_key_id, signed_id) ==
    [pre_key_id |-> IF pre_key_id = <<>> THEN 0 ELSE pre_key_id[1],
     signed_id |-> as_i32(signed_id)]

\* Mutant: the one-time id is kept in a signed integer too, and only a positive
\* one is read back.
unacknowledged_pre_key_message_items_Signed(pending) ==
    [pre_key_id |-> IF as_i32(pending.pre_key_id) <= 0 THEN <<>>
                    ELSE <<pending.pre_key_id>>,
     signed_id |-> as_u32(pending.signed_id)]

\* 0 is read back as none.
unacknowledged_pre_key_message_items(pending) ==
    [pre_key_id |-> IF pending.pre_key_id = 0 THEN <<>> ELSE <<pending.pre_key_id>>,
     signed_id |-> as_u32(pending.signed_id)]

\* process_prekey_bundle: the secret is made of the keys, the ids are kept.  The
\* base key is new.
ProcessBundle ==
    /\ bundle # <<>>
    /\ LET b == bundle[1].built
       IN  session' = <<[pending |-> set_unacknowledged_pre_key_message(
                                         b.pre_key_id, b.signed_id),
                         named |-> b.pre_key_id,
                         secret |-> <<b.signed, b.pre_key>>]>>
    /\ bundle' = <<>> /\ established' = FALSE
    /\ UNCHANGED <<bob, alice, preKeys, signedKeys, published, spent, message, received>>

\* message_encrypt, as long as the pre key is pending.
Encrypt ==
    /\ session # <<>> /\ message = <<>>
    /\ message' = <<[items |-> unacknowledged_pre_key_message_items(session[1].pending),
                     named |-> session[1].named, secret |-> session[1].secret]>>
    /\ UNCHANGED <<bob, alice, preKeys, signedKeys, published, spent, bundle, session,
                   established, received>>

\* A lookup in a store; <<>> is InvalidKeyId.
get_key(store, id) ==
    LET n == record_id(bob, id) IN IF n \in DOMAIN store THEN <<store[n]>> ELSE <<>>

remove_pre_key(used) ==
    IF used = <<>> THEN preKeys
    ELSE Restrict(preKeys, DOMAIN preKeys \ {record_id(bob, used[1])})

\* process_prekey_v3 builds no session, and names no key to remove, when the record
\* has one for the base key (has_session_state).
process_prekey_v3(m) ==
    LET signed == get_key(signedKeys, m.items.signed_id)
        pre_key == IF m.items.pre_key_id = <<>> THEN <<>>
                   ELSE get_key(preKeys, m.items.pre_key_id[1])
    IN  IF established THEN [error |-> "none", secret |-> m.secret, used |-> <<>>]
        ELSE IF signed = <<>> \/ (m.items.pre_key_id # <<>> /\ pre_key = <<>>)
             THEN [error |-> "InvalidKeyId", secret |-> <<>>, used |-> <<>>]
        ELSE [error |-> "none", secret |-> <<signed[1], pre_key>>, used |-> m.items.pre_key_id]

\* process_prekey, the decryption and remove_pre_key.  The message can be read when
\* both sides mixed in the same keys; only then is the record stored and the
\* one-time key removed.
Decrypt ==
    /\ message # <<>>
    /\ LET m == message[1]
           processed == process_prekey_v3(m)
           ok == processed.error = "none" /\ processed.secret = m.secret
       IN  /\ received' = <<[sent |-> m, result |-> IF ok THEN "ok"
                                ELSE IF processed.error = "none" THEN "InvalidMessage"
                                ELSE processed.error]>>
           /\ preKeys' = IF ok THEN remove_pre_key(processed.used) ELSE preKeys
           /\ spent' = spent \cup (Range(preKeys) \ Range(preKeys'))
           /\ established' = (established \/ ok)
    /\ message' = <<>>
    /\ UNCHANGED <<bob, alice, signedKeys, published, bundle, session>>

\* Alice deletes the session and may start another.
Forget ==
    /\ session # <<>> /\ message = <<>>
    /\ session' = <<>> /\ received' = <<>>
    /\ UNCHANGED <<bob, alice, preKeys, signedKeys, published, spent, bundle, message,
                   established>>
----------------------------------------------------------------------------
Init ==
    /\ bob \in Languages /\ alice \in Languages
    /\ preKeys = <<>> /\ signedKeys = <<>> /\ published = {} /\ spent = {}
    /\ bundle = <<>> /\ session = <<>> /\ message = <<>> /\ received = <<>>
    /\ established = FALSE

Next ==
    \/ \E k \in OneTimeKeys, n \in AppIds(bob) : MakePreKey(k, n)
    \/ \E k \in SignedKeys, n \in AppIds(bob) : MakeSignedPreKey(k, n)
    \/ \E s \in published, n \in AppIds(alice) :
           \/ Fetch(<<>>, n, s)
           \/ \E p \in published : Fetch(<<p>>, n, s)
    \/ ProcessBundle
    \/ Encrypt
    \/ Decrypt
    \/ Forget

Spec == Init /\ [][Next]_vars
----------------------------------------------------------------------------
\* How Bob's decryption ends.  The two sides derive different secrets exactly when
\* the bundle's one-time key has the id 0, which set_unacknowledged_pre_key_message
\* cannot tell from none; every other id comes through all the conversions.  A key
\* is not found only if a message of another session has used it up
\* (remove_pre_key): the later messages of a session look for no key.
OnlyZeroAndSpentFail ==
    received # <<>> =>
        /\ received[1].result = "InvalidMessage" <=> received[1].sent.named = <<0>>
        /\ received[1].result = "InvalidKeyId" =>
               \E k \in spent : received[1].sent.secret[2] = <<k>>
=============================================================================
