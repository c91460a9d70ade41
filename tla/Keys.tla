-------------------------------- MODULE Keys --------------------------------
(***************************************************************************)
(* Keys and signatures as bytes: rust/protocol/src/curve.rs.  The bytes of *)
(* a key are their length, the first byte, which names the type of a       *)
(* public key, and what the key is.  A Result is a record: error is "none" *)
(* and value holds the result, or value is empty.                          *)
(***************************************************************************)
EXTENDS Naturals, Sequences

Ok(x) == [error |-> "none", value |-> <<x>>]
Err(e) == [error |-> e, value |-> <<>>]
IsOk(r) == r.error = "none"

DJB == 5                 \* KeyType::Djb.value()
PUBLIC_KEY_LEN == 33
PRIVATE_KEY_LEN == 32
SIGNATURE_LEN == 64

KeyBytes(len, type, key) == [len |-> len, type |-> type, key |-> key]

\* Data after the key is allowed.
PublicKey_deserialize(v) ==
    IF v.len = 0 THEN Err("NoKeyTypeIdentifier")
    ELSE IF v.type # DJB THEN Err("BadKeyType")
    ELSE IF v.len < PUBLIC_KEY_LEN THEN Err("BadKeyLength")
    ELSE Ok(v.key)

PublicKey_serialize(key) == KeyBytes(PUBLIC_KEY_LEN, DJB, key)

\* A private key has no type byte.
PrivateKey_deserialize(v) ==
    IF v.len # PRIVATE_KEY_LEN THEN Err("BadKeyLength") ELSE Ok(v.key)

PrivateKey_serialize(key) == KeyBytes(PRIVATE_KEY_LEN, 0, key)

\* A signature names the key and the message it was made with.
calculate_signature(key, message) ==
    [len |-> SIGNATURE_LEN, key |-> key, message |-> message]

verify_signature(key, message, signature) ==
    IF signature.len # SIGNATURE_LEN THEN Err("MismatchedSignatureLengthForKey")
    ELSE Ok(signature.key = key /\ signature.message = message)
=============================================================================
