-------------------------------- MODULE Wire --------------------------------
(***************************************************************************)
(* The four messages of rust/protocol/src/protocol.rs as bytes: built by   *)
(* new, sent, perhaps damaged on the way, parsed by try_from and checked   *)
(* by the receiver.  Bytes are their length, the two halves of the first   *)
(* byte, the fields the protobuf body decodes to (none when it does not    *)
(* decode) and the tail, which is the MAC or the signature.  An optional   *)
(* field is a sequence of at most one element, a string of bytes its       *)
(* length, a key the bytes of Keys.                                        *)
(***************************************************************************)
EXTENDS Errors, Keys, FiniteSets

CONSTANTS Counters,     \* counters and ids, below 128
          Versions,     \* the u8 values given to new as message_version
          Nibbles,      \* the halves of a first byte that is not this crate's
          Lengths       \* how long damaged bytes may be

VARIABLES type,         \* the CiphertextMessageType sent with the bytes
          bytes,        \* the bytes under way, <<>> or one
          origin,       \* the object they were built from, <<>> or one
          sent,         \* the bytes before any damage, <<>> or one
          parsed,       \* the Result of try_from, <<>> or one
          received      \* the Result of the receiver's checks, <<>> or one

vars == <<type, bytes, origin, sent, parsed, received>>

CIPHERTEXT_MESSAGE_CURRENT_VERSION == 3
MAC_LENGTH == 8

Kinds == {"SignalMessage", "PreKeySignalMessage", "SenderKeyMessage",
          "SenderKeyDistributionMessage"}

message_type(kind) ==
    CASE kind = "SignalMessage" -> 2
      [] kind = "PreKeySignalMessage" -> 3
      [] kind = "SenderKeyMessage" -> 4
      [] OTHER -> 5

\* The receiver's choice of a class, from the type that came with the bytes.
KindOfType(t) ==
    CASE t = 2 -> "SignalMessage"
      [] t = 3 -> "PreKeySignalMessage"
      [] t = 4 -> "SenderKeyMessage"
      [] t = 5 -> "SenderKeyDistributionMessage"
----------------------------------------------------------------------------
(* The protobuf library: a field takes a tag byte, and a length byte or    *)
(* the one byte of a small number.                                         *)

IntLen(o) == IF o = <<>> THEN 0 ELSE 2
BytesLen(o) == IF o = <<>> THEN 0 ELSE 2 + o[1]
RecordLen(o) == IF o = <<>> THEN 0 ELSE 2 + o[1].len

encoded_len(kind, f) ==
    CASE kind = "SignalMessage" ->
             RecordLen(f.ratchet_key) + IntLen(f.counter) + IntLen(f.previous_counter)
                 + BytesLen(f.ciphertext)
      [] kind = "PreKeySignalMessage" ->
             IntLen(f.registration_id) + IntLen(f.pre_key_id) + IntLen(f.signed_pre_key_id)
                 + RecordLen(f.base_key) + RecordLen(f.identity_key) + RecordLen(f.message)
      [] kind = "SenderKeyMessage" ->
             IntLen(f.id) + IntLen(f.iteration) + BytesLen(f.ciphertext)
      [] kind = "SenderKeyDistributionMessage" ->
             IntLen(f.id) + IntLen(f.iteration) + BytesLen(f.chain_key)
                 + RecordLen(f.signing_key)

TailLen(kind) ==
    CASE kind = "SignalMessage" -> MAC_LENGTH
      [] kind = "SenderKeyMessage" -> SIGNATURE_LEN
      [] OTHER -> 0

NoTail == [len |-> 0]

\* What the MAC and the signature are computed over: all but the tail.
Content(v) == [hi |-> v.hi, lo |-> v.lo, body |-> v.body]

\* The bytes with room for the tail.
Encode(kind, hi, fields) ==
    [len |-> 1 + encoded_len(kind, fields) + TailLen(kind),
     hi |-> hi, lo |-> CIPHERTEXT_MESSAGE_CURRENT_VERSION, body |-> <<fields>>,
     tail |-> NoTail]

\* Decoding &value[1..len - tail]; a slice that ends before it starts panics.
Decode(v, tail) ==
    IF v.len < 1 + tail THEN Err("UnexpectedPanic")
    ELSE IF v.body = <<>> THEN Err("ProtobufDecodingError") ELSE Ok(v.body[1])
----------------------------------------------------------------------------
(* Building.                                                               *)

\* Mutant: the first byte is not covered by the MAC.
compute_mac_BodyOnly(sender, receiver, mac_key, content) ==
    IF mac_key.len # 32 THEN Err("InvalidMacKeyLength")
    ELSE Ok([key |-> mac_key, sender |-> sender, receiver |-> receiver,
             over |-> content.body])

compute_mac(sender, receiver, mac_key, content) ==
    IF mac_key.len # 32 THEN Err("InvalidMacKeyLength")
    ELSE Ok([key |-> mac_key, sender |-> sender, receiver |-> receiver,
             over |-> content])

\* Mutant: the two counters are encoded in each other's place.
SignalMessage_new_Swapped(version, mac_key, key, counter, previous, ciphertext, sender, receiver) ==
    LET fields == [ratchet_key |-> <<PublicKey_serialize(key)>>, counter |-> <<previous>>,
                   previous_counter |-> <<counter>>, ciphertext |-> <<ciphertext>>]
        v == Encode("SignalMessage", version % 16, fields)
        mac == compute_mac(sender, receiver, mac_key, Content(v))
    IN IF ~IsOk(mac) THEN mac
       ELSE Ok([message_version |-> version, sender_ratchet_key |-> key,
                counter |-> counter, previous_counter |-> previous,
                ciphertext |-> ciphertext,
                serialized |-> [v EXCEPT !.tail = mac.value[1]]])

\* The object keeps the whole version, the bytes its low half.
SignalMessage_new(version, mac_key, key, counter, previous, ciphertext, sender, receiver) ==
    LET fields == [ratchet_key |-> <<PublicKey_serialize(key)>>, counter |-> <<counter>>,
                   previous_counter |-> <<previous>>, ciphertext |-> <<ciphertext>>]
        v == Encode("SignalMessage", version % 16, fields)
        mac == compute_mac(sender, receiver, mac_key, Content(v))
    IN IF ~IsOk(mac) THEN mac
       ELSE Ok([message_version |-> version, sender_ratchet_key |-> key,
                counter |-> counter, previous_counter |-> previous,
                ciphertext |-> ciphertext,
                serialized |-> [v EXCEPT !.tail = mac.value[1]]])

PreKeySignalMessage_new(version, registration_id, pre_key_id, signed_pre_key_id, base_key, identity_key, message) ==
    LET fields == [registration_id |-> <<registration_id>>, pre_key_id |-> pre_key_id,
                   signed_pre_key_id |-> <<signed_pre_key_id>>,
                   base_key |-> <<PublicKey_serialize(base_key)>>,
                   identity_key |-> <<PublicKey_serialize(identity_key)>>,
                   message |-> <<message.serialized>>]
    IN Ok([message_version |-> version, registration_id |-> registration_id,
           pre_key_id |-> pre_key_id, signed_pre_key_id |-> signed_pre_key_id,
           base_key |-> base_key, identity_key |-> identity_key, message |-> message,
           serialized |-> Encode("PreKeySignalMessage", version % 16, fields)])

SenderKeyMessage_new(key_id, iteration, ciphertext, signature_key) ==
    LET fields == [id |-> <<key_id>>, iteration |-> <<iteration>>,
                   ciphertext |-> <<ciphertext>>]
        v == Encode("SenderKeyMessage", CIPHERTEXT_MESSAGE_CURRENT_VERSION, fields)
    IN Ok([message_version |-> CIPHERTEXT_MESSAGE_CURRENT_VERSION, key_id |-> key_id,
           iteration |-> iteration, ciphertext |-> ciphertext,
           serialized |-> [v EXCEPT !.tail = calculate_signature(signature_key, Content(v))]])

SenderKeyDistributionMessage_new(id, iteration, chain_key, signing_key) ==
    LET fields == [id |-> <<id>>, iteration |-> <<iteration>>, chain_key |-> <<chain_key>>,
                   signing_key |-> <<PublicKey_serialize(signing_key)>>]
    IN Ok([message_version |-> CIPHERTEXT_MESSAGE_CURRENT_VERSION, id |-> id,
           iteration |-> iteration, chain_key |-> chain_key, signing_key |-> signing_key,
           serialized |-> Encode("SenderKeyDistributionMessage",
                                 CIPHERTEXT_MESSAGE_CURRENT_VERSION, fields)])
----------------------------------------------------------------------------
(* Parsing.  A version is checked in the half of the first byte the code   *)
(* looks at, and fields are looked at in the order of the code.            *)

VersionError(version) ==
    IF version < CIPHERTEXT_MESSAGE_CURRENT_VERSION THEN "LegacyCiphertextVersion"
    ELSE IF version > CIPHERTEXT_MESSAGE_CURRENT_VERSION
         THEN "UnrecognizedCiphertextVersion"
    ELSE "none"

unwrap_or(o, default) == IF o = <<>> THEN default ELSE o[1]

SignalMessage_decode(v) ==
    LET f == v.body[1]
        key == PublicKey_deserialize(f.ratchet_key[1])
    IN IF f.ratchet_key = <<>> THEN Err("InvalidProtobufEncoding")
       ELSE IF ~IsOk(key) THEN key
       ELSE IF f.counter = <<>> \/ f.ciphertext = <<>>
            THEN Err("InvalidProtobufEncoding")
       ELSE Ok([message_version |-> v.hi, sender_ratchet_key |-> key.value[1],
                counter |-> f.counter[1],
                previous_counter |-> unwrap_or(f.previous_counter, 0),
                ciphertext |-> f.ciphertext[1], serialized |-> v])

SignalMessage_try_from(v) ==
    IF v.len < MAC_LENGTH + 1 THEN Err("CiphertextMessageTooShort")
    ELSE IF VersionError(v.lo) # "none" THEN Err(VersionError(v.lo))
    ELSE IF ~IsOk(Decode(v, MAC_LENGTH)) THEN Decode(v, MAC_LENGTH)
    ELSE SignalMessage_decode(v)

PreKeySignalMessage_try_from(v) ==
    IF v.len = 0 THEN Err("CiphertextMessageTooShort")
    ELSE IF VersionError(v.lo) # "none" THEN Err(VersionError(v.lo))
    ELSE IF ~IsOk(Decode(v, 0)) THEN Decode(v, 0)
    ELSE LET f == v.body[1]
             base_key == PublicKey_deserialize(f.base_key[1])
             identity_key == PublicKey_deserialize(f.identity_key[1])
             message == SignalMessage_try_from(f.message[1])
         IN IF \/ f.signed_pre_key_id = <<>> \/ f.base_key = <<>>
               \/ f.identity_key = <<>> \/ f.message = <<>>
            THEN Err("InvalidProtobufEncoding")
            ELSE IF ~IsOk(base_key) THEN base_key
            ELSE IF ~IsOk(identity_key) THEN identity_key
            ELSE IF ~IsOk(message) THEN message
            ELSE Ok([message_version |-> v.hi,
                     registration_id |-> unwrap_or(f.registration_id, 0),
                     pre_key_id |-> f.pre_key_id,
                     signed_pre_key_id |-> f.signed_pre_key_id[1],
                     base_key |-> base_key.value[1],
                     identity_key |-> identity_key.value[1],
                     message |-> message.value[1], serialized |-> v])

SenderKeyMessage_try_from(v) ==
    IF v.len < 1 + SIGNATURE_LEN THEN Err("CiphertextMessageTooShort")
    ELSE IF VersionError(v.lo) # "none" THEN Err(VersionError(v.lo))
    ELSE IF ~IsOk(Decode(v, SIGNATURE_LEN)) THEN Decode(v, SIGNATURE_LEN)
    ELSE LET f == v.body[1]
         IN IF f.id = <<>> \/ f.iteration = <<>> \/ f.ciphertext = <<>>
            THEN Err("InvalidProtobufEncoding")
            ELSE Ok([message_version |-> v.hi, key_id |-> f.id[1],
                     iteration |-> f.iteration[1], ciphertext |-> f.ciphertext[1],
                     serialized |-> v])

\* This one reads its version from the other half of the first byte.
SenderKeyDistributionMessage_try_from(v) ==
    IF v.len < 1 + 32 + 32 THEN Err("CiphertextMessageTooShort")
    ELSE IF VersionError(v.hi) # "none" THEN Err(VersionError(v.hi))
    ELSE IF ~IsOk(Decode(v, 0)) THEN Decode(v, 0)
    ELSE LET f == v.body[1]
             signing_key == PublicKey_deserialize(f.signing_key[1])
         IN IF \/ f.id = <<>> \/ f.iteration = <<>> \/ f.chain_key = <<>>
               \/ f.signing_key = <<>>
            THEN Err("InvalidProtobufEncoding")
            ELSE IF f.chain_key[1] # 32 \/ f.signing_key[1].len # 33
                 THEN Err("InvalidProtobufEncoding")
            ELSE IF ~IsOk(signing_key) THEN signing_key
            ELSE Ok([message_version |-> v.hi, id |-> f.id[1],
                     iteration |-> f.iteration[1], chain_key |-> f.chain_key[1],
                     signing_key |-> signing_key.value[1], serialized |-> v])

try_from(kind, v) ==
    CASE kind = "SignalMessage" -> SignalMessage_try_from(v)
      [] kind = "PreKeySignalMessage" -> PreKeySignalMessage_try_from(v)
      [] kind = "SenderKeyMessage" -> SenderKeyMessage_try_from(v)
      [] kind = "SenderKeyDistributionMessage" -> SenderKeyDistributionMessage_try_from(v)

(* Checking.                                                               *)

verify_mac(m, sender, receiver, mac_key) ==
    LET ours == compute_mac(sender, receiver, mac_key, Content(m.serialized))
    IN IF ~IsOk(ours) THEN ours ELSE Ok(ours.value[1] = m.serialized.tail)

aes_256_cbc_decrypt(ciphertext) ==
    IF ciphertext = 0 \/ ciphertext % 16 # 0 THEN Err("InvalidCiphertext") ELSE Ok(ciphertext)

\* The checks of decrypt_message_with_state on the message, for a session of
\* the current version.
decrypt_message_with_state(m, sender, receiver, mac_key) ==
    LET mac_valid == verify_mac(m, sender, receiver, mac_key)
    IN IF m.message_version # CIPHERTEXT_MESSAGE_CURRENT_VERSION
       THEN Err("UnrecognizedMessageVersion")
       ELSE IF ~IsOk(mac_valid) THEN mac_valid
       ELSE IF ~mac_valid.value[1] THEN Err("InvalidCiphertext")
       ELSE aes_256_cbc_decrypt(m.ciphertext)

\* The checks of group_decrypt, for the signing key of the sender's state.
group_decrypt(m, signing_key) ==
    LET valid == verify_signature(signing_key, Content(m.serialized), m.serialized.tail)
    IN IF ~IsOk(valid) THEN valid
       ELSE IF ~valid.value[1] THEN Err("SignatureValidationFailed")
       ELSE aes_256_cbc_decrypt(m.ciphertext)
----------------------------------------------------------------------------
(* The inputs.                                                             *)

Ciphertexts == {0, 15, 16}
MacKey(len) == [len |-> len, key |-> "mac"]
MacKeys == {MacKey(31), MacKey(32)}
Option(S) == {<<>>} \cup {<<x>> : x \in S}

\* Key fields of other implementations: empty, of another type, too short,
\* as this crate writes them, with data after the key.
KeyInputs == {KeyBytes(0, 0, "k"), KeyBytes(33, 4, "k"), KeyBytes(32, DJB, "k"),
              PublicKey_serialize("k"), KeyBytes(34, DJB, "k")}

SignalMessages ==
    {SignalMessage_new(v, k, "k", c, p, t, "A", "B") :
        v \in Versions, k \in MacKeys, c \in Counters, p \in Counters, t \in Ciphertexts}

Plain == SignalMessage_new(3, MacKey(32), "k", 0, 0, 16, "A", "B").value[1]

\* What an application of this crate builds; new may fail.
Objects(kind) ==
    CASE kind = "SignalMessage" -> SignalMessages
      [] kind = "PreKeySignalMessage" ->
             {PreKeySignalMessage_new(v, r, p, s, "b", "A", m.value[1]) :
                 v \in Versions, r \in Counters, p \in Option(Counters), s \in Counters,
                 m \in {x \in SignalMessages :
                           IsOk(x) /\ [x.value[1] EXCEPT !.message_version = 3,
                                                         !.serialized = Plain.serialized]
                                          = Plain}}
      [] kind = "SenderKeyMessage" ->
             {SenderKeyMessage_new(i, n, t, "s") :
                 i \in Counters, n \in Counters, t \in Ciphertexts}
      [] kind = "SenderKeyDistributionMessage" ->
             {SenderKeyDistributionMessage_new(i, n, c, "s") :
                 i \in Counters, n \in Counters, c \in {31, 32}}

\* Bodies of other implementations, which may leave fields out.
Bodies(kind) ==
    CASE kind = "SignalMessage" ->
             [ratchet_key : Option(KeyInputs), counter : Option(Counters),
              previous_counter : Option(Counters), ciphertext : Option(Ciphertexts)]
      [] kind = "PreKeySignalMessage" ->
             [registration_id : Option({1}), pre_key_id : Option({0}),
              signed_pre_key_id : Option({0}), base_key : Option(KeyInputs),
              identity_key : Option(KeyInputs),
              message : Option({Plain.serialized, [Plain.serialized EXCEPT !.lo = 2],
                                [Plain.serialized EXCEPT !.len = 8]})]
      [] kind = "SenderKeyMessage" ->
             [id : Option(Counters), iteration : Option(Counters),
              ciphertext : Option(Ciphertexts)]
      [] kind = "SenderKeyDistributionMessage" ->
             [id : Option(Counters), iteration : Option(Counters),
              chain_key : Option({31, 32}), signing_key : Option(KeyInputs)]

\* How another implementation seals a body.
Sealed(kind, hi, body) ==
    LET v == Encode(kind, hi, body)
    IN CASE kind = "SignalMessage" ->
                [v EXCEPT !.tail = compute_mac("A", "B", MacKey(32), Content(v)).value[1]]
         [] kind = "SenderKeyMessage" ->
                [v EXCEPT !.tail = calculate_signature("s", Content(v))]
         [] OTHER -> v

\* Another value of one field.
Damaged(kind, f) ==
    CASE kind = "SignalMessage" -> {[f EXCEPT !.counter = <<n>>] : n \in Counters}
      [] kind = "PreKeySignalMessage" ->
             {[f EXCEPT !.registration_id = <<n>>] : n \in Counters} \cup
             {[f EXCEPT !.message = <<[m EXCEPT !.hi = n]>>] :
                 m \in {f.message[i] : i \in DOMAIN f.message}, n \in Nibbles}
      [] OTHER -> {[f EXCEPT !.iteration = <<n>>] : n \in Counters}

\* Bytes of no message decode only if there are none before the tail.
BodyOfLength(kind, len) ==
    IF len # 1 + TailLen(kind) THEN <<>>
    ELSE <<CHOOSE b \in Bodies(kind) : \A f \in DOMAIN b : b[f] = <<>> >>

BadTail == [len |-> SIGNATURE_LEN, key |-> "none", message |-> <<>>]
----------------------------------------------------------------------------
(* The steps.                                                              *)

Init ==
    /\ type = 0
    /\ bytes = <<>> /\ origin = <<>> /\ sent = <<>>
    /\ parsed = <<>> /\ received = <<>>

\* The application builds a message and sends its bytes with its type.
New(kind) ==
    /\ bytes = <<>>
    /\ \E r \in Objects(kind) :
          /\ IsOk(r)
          /\ origin' = r.value
          /\ bytes' = <<r.value[1].serialized>> /\ sent' = bytes'
    /\ type' = message_type(kind)
    /\ UNCHANGED <<parsed, received>>

\* A message of another implementation.
Arrive(kind) ==
    /\ bytes = <<>>
    /\ \E hi \in Nibbles, body \in Bodies(kind) :
          bytes' = <<Sealed(kind, hi, body)>> /\ sent' = bytes'
    /\ type' = message_type(kind)
    /\ UNCHANGED <<origin, parsed, received>>

\* The bytes change on the way: the first byte, a field, the tail, or all.
Damage ==
    /\ bytes # <<>> /\ bytes = sent /\ parsed = <<>>
    /\ LET v == bytes[1]
       IN \/ \E hi \in Nibbles, lo \in Nibbles :
                bytes' = <<[v EXCEPT !.hi = hi, !.lo = lo]>>
          \/ \E f \in Damaged(KindOfType(type), v.body[1]) :
                bytes' = <<[v EXCEPT !.body = <<f>>]>>
          \/ TailLen(KindOfType(type)) # 0 /\ bytes' = <<[v EXCEPT !.tail = BadTail]>>
          \/ \E len \in Lengths :
                bytes' = <<[v EXCEPT !.len = len, !.body = BodyOfLength(KindOfType(type), len),
                                     !.tail = BadTail]>>
    /\ UNCHANGED <<type, origin, sent, parsed, received>>

\* The receiver makes an object of the class the type names.
Parse ==
    /\ bytes # <<>> /\ parsed = <<>>
    /\ parsed' = <<try_from(KindOfType(type), bytes[1])>>
    /\ UNCHANGED <<type, bytes, origin, sent, received>>

\* The receiver checks what it parsed with the keys of its session or group.
Receive(sender, receiver) ==
    /\ parsed # <<>> /\ received = <<>>
    /\ IsOk(parsed[1])
    /\ LET m == parsed[1].value[1]
       IN received' =
            << CASE KindOfType(type) = "SignalMessage" ->
                        decrypt_message_with_state(m, sender, receiver, MacKey(32))
                 [] KindOfType(type) = "PreKeySignalMessage" ->
                        decrypt_message_with_state(m.message, sender, receiver, MacKey(32))
                 [] KindOfType(type) = "SenderKeyMessage" -> group_decrypt(m, "s")
                 [] OTHER -> Ok(0),
               sender >>
    /\ UNCHANGED <<type, bytes, origin, sent, parsed>>

\* One message at a time; the next one starts afresh.
Done ==
    /\ parsed # <<>>
    /\ received # <<>> \/ ~IsOk(parsed[1])
    /\ type' = 0
    /\ bytes' = <<>> /\ origin' = <<>> /\ sent' = <<>>
    /\ parsed' = <<>> /\ received' = <<>>

Next ==
    \/ \E kind \in Kinds : New(kind)
    \/ \E kind \in Kinds : Arrive(kind)
    \/ Damage
    \/ Parse
    \/ Receive("A", "B")
    \/ Receive("B", "A")
    \/ Done

Spec == Init /\ [][Next]_vars
----------------------------------------------------------------------------
\* What an object looks like after its bytes were parsed again: a version
\* keeps its low half.
Reparsed(kind, m) ==
    IF kind = "PreKeySignalMessage"
    THEN [m EXCEPT !.message_version = @ % 16, !.message.message_version = @ % 16]
    ELSE [m EXCEPT !.message_version = @ % 16]

\* Every message new builds is parsed by the class its type names, to the same
\* object: only the upper half of the version is lost, and only a distribution
\* message whose chain key is not 32 bytes long is refused.
ParseInvertsNew ==
    origin # <<>> /\ bytes = sent /\ parsed # <<>> =>
        LET kind == KindOfType(type)
        IN \/ parsed[1] = Ok(Reparsed(kind, origin[1]))
           \/ /\ kind = "SenderKeyDistributionMessage"
              /\ origin[1].chain_key # 32
              /\ parsed[1] = Err("InvalidProtobufEncoding")

\* A message that passes the receiver's checks has the content its sender
\* sealed, version and all, and goes from that sender to that receiver.  (The
\* outer fields of a pre-key message are under no MAC of their own.)
CheckedIsSent ==
    received # <<>> /\ IsOk(received[1]) =>
        CASE KindOfType(type) = "SignalMessage" ->
                 Content(bytes[1]) = Content(sent[1]) /\ received[2] = "A"
          [] KindOfType(type) = "PreKeySignalMessage" ->
                 /\ Content(parsed[1].value[1].message.serialized) = Content(Plain.serialized)
                 /\ received[2] = "A"
          [] KindOfType(type) = "SenderKeyMessage" -> Content(bytes[1]) = Content(sent[1])
          [] OTHER -> TRUE
=============================================================================
