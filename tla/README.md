# A TLA+ model of libsignal-client

libsignal-client implements the Signal Protocol: a Rust core
(`rust/protocol`), bridges that expose it to Java (`rust/bridge/jni`), to C and
Swift (`rust/bridge/ffi`) and to Node, and the Java and Swift libraries on top.
This directory models the parts of it that keep state, checks them with TLC on
small instances, and proves the most important results with TLAPS for every
value of the constants.

`PROJECT.json` lists components, runs, hazards, findings and theorems, and maps
every definition to the source lines it stands for.

## The system

| Part | Source | State it keeps | Operations |
|---|---|---|---|
| Receiving chain | `session_cipher.rs`, `state/session.rs` | chain index, skipped message keys | take the key of a counter, skip forward, evict |
| Session state | `state/session.rs`, `ratchet.rs`, `ratchet/keys.rs` | root key, sending chain, receiving chains, pending pre key | both initialisations, ratchet turn, decrypt |
| Session record | `state/session.rs` | current and archived states | archive, promote, decrypt with any of them |
| Session operations | `session.rs`, `session_cipher.rs` | the stores | process a bundle, encrypt, decrypt two kinds of message |
| Stores | `storage/inmem.rs`, Java `state/impl`, Swift `DataStoreInMemory` | identities, pre-keys, sessions, sender keys | load, store, remove, trust |
| Java calls | `SessionCipher.java`, `SessionBuilder.java`, `jni/src/lib.rs`, `jni/src/util.rs` | `SESSION_LOCK`, the call's copies | the session operations as sequences of store callbacks |
| Sender keys, groups | `sender_keys.rs`, `group_cipher.rs` | chain of each sender key, last states per sender | create and process a distribution message, encrypt, decrypt |
| Wire messages | `protocol.rs` | none | build, MAC or sign, parse |
| Group calls | `GroupCipher.java`, `GroupSessionBuilder.java`, Swift `Protocol.swift` | `GroupCipher.LOCK` or no lock, the call's copies | the group operations as sequences of store callbacks |
| C bridge and Swift | `ffi/src`, `swift/Sources` | native handles, callbacks | the same operations without a lock, constructors and getters |
| Java bridge objects | `jni/src`, Java wrappers | native handles, finalizers | constructors, getters, records exchanged with stores |
| Keys, key ids, errors | `curve.rs`, `identity_key.rs`, `bundle.rs`, `error.rs`, the bridges' `util.rs` | none | conversions at every border |
| Sealed sender | Java `metadata` | none of its own; uses sessions | certificates, two layers of encryption |
| Fingerprints, comparison | `fingerprint.rs`, `utils.rs` | none | algorithms |
| Cryptography | `curve25519.rs`, `kdf.rs`, `aes-gcm-siv`, `crypto.rs` | none | signatures, key derivation, authenticated encryption |

A session operation loads the record of a contact from the session store,
changes a copy of it, consults and updates the identity store and, for a first
message, the pre-key stores, and stores the copy. Three mechanisms carry its
correctness: the ratchet (which keys exist and on which side), the discipline
of copies (a failed operation leaves no trace in the record) and the order of
the store updates (what a crash can leave behind). The modules follow these
three.

## Modules

```
Vec ── Chain ── ReceiverChain                      (ReceiverChain => ReceiveWindow)
 │       └─ SessionState ── SessionRecord ── Session ── MCSession
 │                                              └─ SessionProofs
 └─ SenderKeys ── GroupSession ── MCGroupSession
       ├─ GroupEffects ── GroupCalls ── MCGroupCalls
       │                     │             (GroupCalls => AtomicGroupCalls)
       └─ SenderKeysProofs ──┼─ GroupCallsProofs
              └──────────────┴─ GroupSessionProofs (of GroupSession)
CallEffects ── SessionCalls ── MCSessionCalls      (SessionCalls => AtomicCalls)
                    └─ SessionCallsInvariant ── SessionCallsProofs
JniApi ── JniCalls                                 the Java objects
FfiApi ── FfiCalls                                 the C interface under Swift
Handles ── HandlesProofs                           the Swift objects
  MCBridges runs JniCalls, FfiCalls and Handles
Keys ── Wire, Fingerprints, Hkdf, GcmSiv           bytes and algorithms
KeyIds, ConstantTime, XEdDSA
  MCParts runs these seven
Keys ── KeyPairs
Errors (used by JniCalls, FfiCalls, Wire and Fingerprints)
SealedSender
  ComponentProofs has the proofs about ReceiverChain, SealedSender and JniCalls
JavaSessionStore
```

**Vec, Chain, ReceiverChain, ReceiveWindow.** `Vec` has the operations of Rust's
`Vec` and `VecDeque` that the code uses. A receiving chain is its index and the
vector of counters whose keys were skipped; the key bytes are a function of
both and are left out. `Chain` has the functions `get_message_keys`,
`set_message_keys` and `get_or_create_message_key`. The loop of the last one is
written in closed form: it inserts at the front and pops at the back, so the
first `MAX_MESSAGE_KEYS` entries of the concatenation survive. `ReceiverChain`
puts a chain under a network: a counter arrives, any number of times and in any
order, intact or damaged. The chain is advanced on a copy, and the copy is
kept only if the MAC verifies. `ReceiveWindow` is the promise without data
structures: at most once, and expiry from the oldest on.

**SessionState, SessionRecord.** The Double Ratchet with symbolic keys. A key
pair is one value, an agreement is the set of the two pairs it comes from, and
a root or chain key is the sequence of agreements mixed into it. Two sides
hold the same key exactly when they mixed the same agreements in the same
order, so a slip in either derivation shows as an unreadable message. The
pending pre key keeps the code's encoding of "none" as 0. The HKDF, the ciphers
and `previous_counter`, which no receiver reads, are left out.

**Session.** Two parties with their stores, and a network that keeps every
message for ever: it can lose, delay, reorder and repeat; `Damaged` messages
fail their MAC. Each operation of `session.rs` and `session_cipher.rs`
is one action per outcome. `message_decrypt` gives the answer of a decryption
and the stores it leaves; a failure leaves them as they were, but for one
(`message_decrypt_prekey`: the identity is already saved when the bundled
message turns out not to decrypt).
`Archive`, `Install` (the party starts over with new keys) and `Approve` (the
user accepts a changed identity) are what applications do around them. The
variables `delivered`, `again` and `dropped` are history; `calls` bounds the
model and names fresh keys.

**CallEffects, SessionCalls, AtomicCalls.** The same operations at the grain of
store callbacks. `SessionCalls` has threads that call `SessionCipher.encrypt`,
both `decrypt` and `SessionBuilder.process`; `After` is the order of callbacks
and work in each. Every callback may throw (`StoreThrows`; an untrusted
identity, a bad bundle signature and a missing signed pre-key end a call at the
same points and are part of it), every error of the Rust code ends the call
(`Refuse`), and the process may die at any point (`Crash`). The ratchet is
abstracted in `CallEffects` to which sessions a record holds, which is current,
how many keys each has drawn and which messages were read. A contact without
a record has `FreshRecord`: the Java store answers with a new `SessionRecord`,
whose empty state is a current state without a sender chain. Limits on archived
sessions are not part of this module; `Session` has them. `AtomicCalls` says
that the stored record changes only by the whole effect of one call; what the
effect of an operation is comes to it as parameters, for which `SessionCalls`
gives the operators of `CallEffects`. `AtomicGroupCalls` is built the same way.

**SenderKeys, GroupSession.** `SenderKeys` has the functions of `sender_keys.rs`
and `get_sender_key`. A state is the id of its sender key, the iteration and
the skipped iterations. `GroupSession` has one sender, who announces its key,
encrypts, and drops its record when the membership changes, and members who get
announcements and messages in any order and number, messages also damaged. Ids
of different sender keys are taken to be different; the code draws them from
31 bits.

`Session` and `GroupSession` take their bounds from a set of `Budgets`, one of
which a behaviour has: long exchanges in one session, several sessions with
archiving, and reinstallation; many messages under one sender key, and many
sender keys. All of them together would be out of TLC's reach.

**GroupEffects, GroupCalls, AtomicGroupCalls.** The group operations at the
grain of store callbacks, on one `SenderKeyName`. A name is meant for one
direction, but nothing enforces it, so all four operations apply to it,
processing one's own announcement included. With `Locked` the calls take
`GroupCipher.LOCK`, as in Java; without it they are the Swift and C functions.
A store callback may fail and the process may die at any step. The variable
`lost` is history: whether a store overwrote a record that its call had not
loaded. The locked calls implement `AtomicGroupCalls`
(`ImplementsAtomicGroupCalls`).

**Handles.** Ownership behind the Swift API. The first part lists the fourteen
callbacks of the five stores: what Rust lends, and what it makes of the integer
and the pointer that come back. The second has Swift objects that own, borrow or
have lost a handle, reference counts, nested native calls, and the shims of
`Utils.swift` statement by statement (`cloneOrTakeHandle`, the deferred end of a
borrow). Application code keeps or drops what a callback gives it, throws, and
calls the library again, up to `MaxDepth` calls within each other.

**FfiApi, FfiCalls.** `FfiApi` is the interface of the C bridge as a table: for
each function the pointers it checks in order, what its body may come to, and
its results. `FfiCalls` interprets the table as `run_ffi_safe` and the macros
do, with the helpers of `Utils.swift` and `checkError` around it. Functions with
the same row are one function to the model.

**JniApi, JniCalls.** The same for the Java bridge. `JniCalls` has wrappers with
finalizers that run at any time after the last reference is gone, constructors
that throw, native calls that read records from a store and hand records to it,
and the fingerprint generator, which frees by hand. A native method gets the
handle as a number, and the wrapper it was read from may be finalized while the
method runs: `method` and `calling` remember the number and the wrapper, and a
method whose object is gone may end in any way. `jobject_from_native_handle`
boxes the object first; when the class is not found or the Java object not made,
the address goes to `orphans`, which nobody frees. `MCBridges` puts the three
models of ownership side by side; a behaviour is one of one bridge, and one of
Swift either stays one call deep or uses two of the fourteen callbacks.

**KeyIds.** The conversions of integers of a given width between
Rust, Java and Swift with their encodings of none, and the way of a pre-key id
from the device that makes the key through bundle, session and message and back.
`established` says whether the receiver's record has the session already, in which
a further pre-key message looks for no pre-key (`has_session_state`).

**Errors, Keys, Wire, KeyPairs.** `Errors` is what a Rust error becomes in Java
and Swift. `Keys` has serialised keys by length and type byte. `Wire` builds,
damages, parses and checks the four kinds of messages; `KeyPairs` writes and
reads identity key pairs in three languages.

**Fingerprints, ConstantTime, XEdDSA, Hkdf, GcmSiv.** Algorithms, stepped where
the code loops: fingerprints of parties whose keys change, comparison with
masks over 8-bit arithmetic, signatures in a group of prime order with the hash
as an oracle (a verifier may get another message, other bytes of R and any other
last 32 bytes, an `s` that is not reduced or out of range included), HKDF with its
one-byte counter, and AES-GCM-SIV with its counter and in-place passes. Hashes, AES and POLYVAL are symbols. `MCParts` runs these,
`Wire` and `KeyIds`: a behaviour is one of one part.

**SealedSender, JavaSessionStore.** `SealedSender` is `SealedSessionCipher`
between one sender with two addresses and one receiver, over a network that
loses, repeats and reorders, while both reinstall, identities are approved and
certificates expire. The receiver has threads: each opens an envelope and chooses
an address (`Choose`, without a lock), and then decrypts under `SESSION_LOCK` with
the address it chose (`Decrypt`); the steps of the others may come in between.
Sessions are abstracted to which messages were read.
`JavaSessionStore` is the in-memory session store with the iteration order of
its map left open.

Definitions named `X_Something` with a comment that starts with "Mutant" are
slips of the definition `X`, kept to show that each property can fail.

## What the runs check

| Run | Configuration | Shows |
|---|---|---|
| `receiver_chain` | jumps 3, keys 2, counters 0..7 | only old messages are lost, no key returns, refinement of `ReceiveWindow` |
| `session` | 2 parties, 2 receiving chains, 1 archived session; per party 1 session, 3 messages and 4 decryptions, or 2 sessions with archiving, or a reinstallation | unique message keys, at most once, what is readable, what may be read again after a session was dropped, trust on first use, texts only from the identity on record |
| `session_calls` | 2 threads, 3 messages, 1 own session, 2 encryptions, fairness | atomic calls, durability, order of store updates under failures and crashes; the lock is always freed |
| `group_session` | 1 member; 1 sender key, 5 messages and 2 announcements processed, or 3 sender keys and 4 announcements; 2 states kept | what a member can read, cannot read, reads twice; which states a record holds |
| `group_calls` | 2 threads, 2 own sender keys and a foreign one, 2 encryptions, 1 announcement processed, lock | atomic calls, unique message keys, at most once, a receiving name stays one |
| `group_calls_unlocked` | same, no lock | reuse and double announcement come only from a lost update |
| `sealed_sender` | 2 messages, 2 sessions, 2 keys per party, clock to 2, 2 receiving threads | delivered texts are certified; what is read again or missed, and only why |
| `bridges` | Java: 4 addresses, 4 wrappers, at most 3 of each at a time, one native method and one call with stores under way. C: 5 addresses, 2 objects kept. Swift: 4 handles, 4 objects, all 14 callbacks one deep, and loading and storing a session nested 2 deep | one owner for every native object, buffer, string and error, but for those whose Java object could not be made; no dangling handle, no trap; errors of a store end the call |
| `parts` | see below | ids, wire formats, fingerprints and primitives |
| `no_session_exception` | 2 threads, one message of each kind | finding 1 |
| `delete_all_sessions` | 2 names, 2 devices, 2 versions | finding 2 |
| `portable_key_pair` | three bindings | finding 3 |

`parts` checks, each around its own boundaries (written in `MCParts`):

| Part | Bounds | Property |
|---|---|---|
| `KeyIds` | integers of 3 bits, 2 one-time keys, 1 signed key, both languages | `OnlyZeroAndSpentFail`: the id 0 and keys used up by another session are all that makes the two sides differ |
| `Wire` | counters 0 and 1, versions 3, 4, 19, lengths around every boundary | `ParseInvertsNew`; `CheckedIsSent`: what passes is what was sent |
| `Fingerprints` | 3 keys per party, versions 1 and 2, iterations around the limits | `ViewsAgree`: digits and scan agree exactly for the same keys |
| `ConstantTime` | all pairs of bytes; slices up to 3 of 5 edge values | `IsTheOrder` |
| `XEdDSA` | group of order 5, `s` below 8, 2 messages | `VerifiesUpToReduction`: which signatures verify, for both signs of the key; `s` and `s` plus the order of the group do, where that is in range |
| `Hkdf` | blocks of 2, counter of 4 values, lengths to 13 | `DerivesAsSpecified`: the bytes are those of RFC 5869 with the version's first number, as far as the counter goes, and what happens beyond |
| `GcmSiv` | blocks of 2, 2 blocks a pass, counter of 5 values | `AcceptsExactlySent`, and every byte is masked once, with a byte of pad of its own |

**Bounds.** The limits of the code (2000 keys, 25000 jumps, 5 chains, 40
sessions, 5 sender key states) are constants and are set to 1, 2 or 3, and the
number of calls is large enough to exceed each of them by at least one:
8 counters against 3 jumps and 2 keys; 3 messages each way against 2 receiving
chains; 3 sessions per record (own, peer's, and one more) against 1 archived;
5 group messages against 2 jumps and 1 key; 4 announcements against 2 states. A
larger instance of `Session` (2 sessions, 2 messages, 3 decryptions, 1 archive
each, 687,901 states) was explored with the same result. The one-time pre-key of
the `session` run has id 1; ids of every value, 0 (which `state/session.rs:365`
reads back as "none") and the negative ones of Java included, are the subject of
`KeyIds`. Widths are scaled down where only the end of the range matters: 3
bits for an id of 32, 4 values for the counter byte of HKDF, 5 for the 32-bit
counter of AES-GCM-SIV, 8 (`SLimit`) for the 2^253 that bounds `s`, as the next
power of two above the order of the group; `ConstantTime` keeps its 8 bits. Two
receiving threads are enough for a choice that is stale when it is used (2,185,287
states up to symmetry).

Deadlock is checked except in `sealed_sender`, `bridges` and `parts`, where the
messages, handles or ids of the instance are used up and the program may simply
stop.

**Symmetry.** The two parties, the threads of the group calls and of the
receiver of sealed messages, and the
addresses, handles, objects and wrappers of the bridges are interchangeable. The
bridges share their model values, so that one group of permutations serves them
all. `session_calls` checks liveness and uses no symmetry.

**Fairness.** `FairSpec` of `SessionCalls` assumes weak fairness of each
thread's own steps: the JNI entry points poll each future once and never suspend
(`expect_ready`), so a thread that can go on does. Nothing is assumed about who
gets the Java lock next, so no promise is made that a waiting call gets it.

`Readable` (of `Session` and of `GroupSession`) is the strongest of these
properties: it lists every reason for which an unread message may be
unreadable, and TLC shows that the list is complete within the bounds.
`MissedBehindUuidOrTooLate` and `AgainOnlyAcrossAddresses` of `SealedSender`,
`OnlyLostUpdatesHurt` of `GroupCalls` and `OnlyZeroAndSpentFail` of `KeyIds`
are of the same kind: each names the only way to an outcome one would rather not
see.

## Findings

1. `SessionCipher.java:119` documents `NoSessionException` "if there is no
   established session for this contact". A `SessionStore` answers a new record
   for an unknown contact, and decryption with its empty state ends in
   `InvalidMessageException`.
2. `InMemorySessionStore.deleteAllSessions` removes from the map it iterates
   over: after the first removal it throws, unless no key is left to visit.
   `SessionStore.java:65` promises to remove the records of all devices.
3. Swift's `IdentityKeyPair` (`IdentityKey.swift:39`, `:53`) exchanges the two
   keys when it reads and when it writes. Its own bytes come back; those of Java
   or Rust are read with the halves swapped.

Smaller disagreements met while modelling, with no run of their own:

- `SessionCipher.java:87` and `:116` document `DuplicateMessageException` for "a
  message that has already been received". Once a skipped key was evicted its
  message, never received, is answered the same way (`session_cipher.rs:402`).
- `GroupCipher.encrypt` declares `NoSessionException` only (`GroupCipher.java:48`).
  On a name whose first state came from a distribution message the private
  signing key is empty and `InvalidKeyException` is thrown.
- Swift's `PreKeyBundle.preKeyId` (`PreKeyBundle.swift:89`) calls the getter of
  the signed pre-key id.
- The Java constructors of messages declare some of the checked exceptions that
  parsing throws: a `SignalMessage` without a ratchet key gives
  `InvalidKeyException`, an old `PreKeySignalMessage` `LegacyMessageException`.
- `ScannableFingerprint.java:29` documents `FingerprintVersionMismatchException`.
  `throw_error` has no arm for the Rust error, and `RuntimeException` is thrown.

## What is proved

Every theorem holds for all values of the constants that satisfy the named
assumptions. The invariants were checked by TLC on the instances above before
they were proved.

**The receiving chain** (`ComponentProofs`), for all limits and any number of
messages: `ChainTypeOK`, `AtMostOnce`, `KeysOrdered`, `RecentNeverLost`,
`OldestLostFirst`, `KeysNeverReturn`, and that `ReceiverChain` implements
`ReceiveWindow`. The inductive invariant `ChainInv` is the conjunction of the
invariants among them. `AtMostOnce` alone is not inductive: a key still in the
vector must belong to a message that was not handed over, and nothing ahead of
the chain may have been (`KeysOrdered`). `RecentNeverLost` needs the vector to be
sorted with its i-th entry at least i counters behind the chain, so that what
falls off the end is old. The lemmas say what inserting the skipped counters and
removing one does to a sorted vector.

**Sessions** (`SessionProofs`), for any number of sessions, messages, archived
states, reinstallations and any limits: no two messages are under one message
key (`UniqueKeys`), only the user replaces a recorded identity
(`FirstUseStays`), and a message is handed over only from the identity on record
(`FromKnownIdentity`). The last two follow from the actions, the types and one
fact about messages (`SenderInv`: a first message names the identity that its
MAC is for). `UniqueKeys` is not inductive: two sending chains might hold the
same key, or a chain might fall behind a message sent with it. `SessionInv` adds

- `ApartInv`: no two sending chains, of one party or of both, have the same key;
- `AheadInv`: a sending chain is past every message on the network that was sent
  with it, also while it lies in an archived state;
- `MadeInv`: the last agreement mixed into a chain key is between key pairs that
  exist already. A ratchet turn makes a new pair, so the key of the new chain is
  none of those that exist, which is what keeps `ApartInv`;
- `TurnedInv`: the current session has a receiving chain. The session that
  `initialize_bob_session` makes has none and begins with a sending chain on the
  signed pre key, the same for every peer; it is replaced in the ratchet turn of
  the first decryption, before anything is sent, so the other parts of the
  invariant speak of sessions with a receiving chain only.

The lemmas follow the code upwards: a chain, a state (`decrypt_message_with_state`
either advances a receiving chain or turns the ratchet), a record (which state was
used, archiving, promotion), a store, and then one lemma for each action.

**Calls of the Java session API** (`SessionCallsInvariant`,
`SessionCallsProofs`), for any threads, messages, pre-keys and bounds:
`UniqueKeys`, `AtMostOnce`, `DurableBeforeReturn`, `KeyOutlivesNeed`,
`KnownBeforeStored`, `KeyLeftOnlyByFailure`, and that `SessionCalls` implements
`AtomicCalls`. The invariant adds two things to them: the lock admits one thread
(`Mutex`), and the copy of the thread inside is, at each step, the effect so far
of its call on the record that is still in the store (`Frame`). The second is
what a lost update would break. Each action has a lemma; a step of one thread
cannot disturb another's frame because nobody else is inside the lock.
`KeyLeftOnlyByFailure` has an invariant of its own on top (`KeyInv`): a pre-key
whose session is stored is about to be removed, or its removal was cut off. The
first module has the invariant and the steps that work on a call's copy, the
second the steps that change a store or end a call, and the theorems.

**Group sessions** (`GroupSessionProofs`), for any members, limits, sender keys
and messages: `AgainOnlyAfterRestart`, `NothingFromBefore`, `Readable` and
`RecordIsRecent`. The invariant puts what a member keeps in relation with what it
did: the state at place j of its record comes from the j-th last announcement it
processed (`Recent`) and has no key from before it (`Later`); a message that was
read is used up in every state of its sender key, unless that was announced twice
(`Spent`); and what a state used up since its announcement was read or is out of
the window (`Kept`). The four properties are read off from these.

**Calls of the group API** (`GroupCallsProofs`), for any threads, sender keys,
limits and bounds. With or without a lock: `OnlyLostUpdatesHurt`. With the lock:
`UniqueKeys`, `AtMostOnce`, `ReceivingStays`, and that `GroupCalls` implements
`AtomicGroupCalls`. The common invariant says what a call holds at each step
(`Steps`) and, as long as no update was lost, that every message sent under an
own key is behind the next key that any call can draw (`Fresh`) and that only one
own sender key was ever made (`OneId`). The lock adds that a call's copy is what
it made so far of the record still stored (`Held`), so that no update is lost,
and that the store knows what was read (`Known`). `SenderKeysProofs` has what both
group proofs need: the effect of each operator of `SenderKeys` on a state and on
a record.

**Objects of the Java bridge** (`ComponentProofs`), for any memory and wrappers:
`OwnedOnce` (no wrapper somebody refers to has a freed handle, and a native method
called with its handle works on its object as long as that is so; no handle has
two owners; only what was boxed for a Java object that could not be made has
none), and no native method meets the handle 0. Nothing is claimed for a method
whose wrapper was let go while it runs: its object may be freed under it. The
invariant `JniInv` adds to the types that every object is accounted for
(`Accounted`) and that a method's number is its wrapper's handle until the wrapper
is finalized (`LentInv`); a finalizer is harmless to everybody else because its
wrapper is the only owner and is unreachable.

**Objects of the Swift library** (`HandlesProofs`), for any number of handles and
objects and any depth of calls within callbacks: `SwiftUsable`, `SwiftOwnedOnce`,
`SwiftNeverTraps` and `SwiftErrorsEndCalls`. None of the first three is inductive.
An object that a callback was lent borrows a handle that somebody else owns: Rust,
or the object that is the argument of the call, which a callback further out may
itself have been lent. The invariant `SwiftInv` says

- of each native call, what it holds at each of its steps (`Shapes`);
- of each object, that the references calls have to it are those their frames
  tell of (`Match`), so that `isKnownUniquelyReferenced` answers what the shims
  take it to answer;
- of each borrowed handle, that a call around the callback owns it or has the
  owning object as its argument (`Rooted`), so that it outlives the borrowing;
- of each address, that it is alive exactly while it has an owner, and has only
  one (`SoleOwner`).

**Sealed sender** (`ComponentProofs`), for any threads and bounds:
`DeliveredIsCertified`, `SealedForSession`, `AgainOnlyAcrossAddresses` and
`MissedBehindUuidOrTooLate`. The
invariant for the first two follows a message on its way: the session belongs to
the sender's present key (`SessionInv`), so does a message waiting to be sealed
(`PendingInv`), and an envelope is sealed by the key of its message's session for
a key of the receiver not older than the one the message is for (`NetInv`),
across reinstallations of both. The one for the other two (`ReadInv`) says which
sessions each address of the sender has read with, and that all statements about
a session agree. Both rest on what a thread remembers between its two steps
(`ChosenInv`): its envelope was valid when it was opened, and of two names in the
certificate it chose the UUID exactly if there was a session under it then.

**Assumptions.** Those named in the modules: the limits are natural numbers
(`MAX_MESSAGE_KEYS`, `MAX_RECEIVER_CHAINS` and `MAX_SENDER_KEY_STATES` at least
1), there are two parties,
the empty state is no session, a message names at most one pre-key, the pre-key
messages of one session name the same one, the null handle is no address and the missing object no
object; the theorems about locked group calls assume `Locked`. TLC evaluates
those of the modules in every run.

Proved and not listed in a configuration: `ChainTypeOK`, `AtMostOnce`,
`KeysOrdered` and `OldestLostFirst` of `ReceiverChain`; `UniqueKeys`,
`AtMostOnce` and `KnownBeforeStored` of `SessionCalls`; `NeverNullHandle` of
`JniCalls`; `SealedForSession` of `SealedSender`. TLC found each of them to hold
on the instances above.

**Only model-checked:**

- `AtMostOnce`, `AgainOnlyAfterDrop` and `Readable` of `Session`. They relate the
  receiving chains of one party to the sending chains and messages of the other
  through the whole history of the ratchet, archived and dropped states included;
  the invariant of `SessionProofs` speaks of the sending side only.
- `COwnedOnce` of `FfiCalls`: the interface is a table of more than a hundred
  functions, which TLC enumerates.
- All of `parts`: the arithmetic of `ConstantTime` is bitwise, and the loops of
  the others are folds or recursive functions over data, where a proof would need
  an induction that the prover's library cannot be instantiated for.
- `LockIsFreed`: liveness under fairness is outside the prover's reach.

## Assumed of the environment

- A Swift object is used from one thread, as `Handles` has only one.
- Java code passes only handles the library gave it.

## Not modelled

- The arithmetic of AES, HMAC, X25519 and POLYVAL and the code for particular
  instruction sets: symbolic, or replaced by a small group. No protocol state
  depends on it.
- The protobuf encoding: `Wire` has fields that are present, absent or damaged.
- Rotation of signed pre-keys and registration ids: the library only stores them.
- The Java copies of session state (`SessionRecord.archiveCurrentState`,
  `SessionState.java`), which applications use and the Rust core does not.
- Parsing of sealed envelopes and certificates, and the refusal of one's own
  messages; `SealedSender` begins with parsed contents.
- The Node bridge, which has one class with one key and no state.
- Logging, and the tests' helpers.

`PROJECT.json` gives the reason for each component.
