------------------------------ MODULE KeyPairs ------------------------------
(***************************************************************************)
(* An identity key pair leaves an application as bytes and is loaded from  *)
(* them again, perhaps by an application in another language.  Both key    *)
(* types of curve.rs hold 32 bytes and nothing else, so a pointer to the   *)
(* one that is cast to the other reads the same bytes: a key is its bytes. *)
(* Two people own the private keys "a" and "b"; "A" and "B" are the public *)
(* keys derived from them.                                                 *)
(***************************************************************************)
EXTENDS Keys

CONSTANT Bindings       \* the applications: subset of {"Rust", "Java", "Swift"}

VARIABLES pair,         \* the identity key pair of "a", <<>> or one
          file,         \* its bytes and who wrote them, <<>> or one
          loaded,       \* the Result of loading them and who did, <<>> or one
          used          \* a signature and an agreement made with the loaded pair

vars == <<pair, file, loaded, used>>

Pair(public, private) == [public |-> public, private |-> private]

\* curve25519::derive_public_key: other bytes than a private key give a key
\* nobody knows.
derive_public_key(k) == CASE k = "a" -> "A" [] k = "b" -> "B" [] OTHER -> "unknown"

\* KeyPair::generate, PrivateKey::public_key.
generate(private) == Pair(derive_public_key(private), private)

PrivateKey_calculate_signature(private, message) ==
    calculate_signature(derive_public_key(private), message)

\* Diffie and Hellman: the same secret from either side.
calculate_agreement(public, private) == {public, derive_public_key(private)}
----------------------------------------------------------------------------
IdentityKeyPair_serialize(p) ==
    [public_key |-> PublicKey_serialize(p.public),
     private_key |-> PrivateKey_serialize(p.private)]

IdentityKeyPair_try_from(bytes) ==
    IF bytes = <<>> THEN Err("ProtobufDecodingError")
    ELSE LET public == PublicKey_deserialize(bytes[1].public_key)
             private == PrivateKey_deserialize(bytes[1].private_key)
         IN IF ~IsOk(public) THEN public
            ELSE IF ~IsOk(private) THEN private
            ELSE Ok(Pair(public.value[1], private.value[1]))

\* The C functions take and give the private key first.
signal_identitykeypair_serialize(private_key, public_key) ==
    IdentityKeyPair_serialize(Pair(public_key, private_key))

signal_identitykeypair_deserialize(bytes) ==
    LET r == IdentityKeyPair_try_from(bytes)
    IN IF ~IsOk(r) THEN r ELSE Ok(<<r.value[1].private, r.value[1].public>>)

\* Java's arguments are in the order of the Java bridge.
Native_IdentityKeyPair_Serialize(publicKeyHandle, privateKeyHandle) ==
    IdentityKeyPair_serialize(Pair(publicKeyHandle, privateKeyHandle))

\* IdentityKeyPair of Swift passes its public key first, and takes its public
\* key from the first result.
SwiftSerialize(p) == signal_identitykeypair_serialize(p.public, p.private)

SwiftInit(bytes) ==
    LET r == signal_identitykeypair_deserialize(bytes)
    IN IF ~IsOk(r) THEN r ELSE Ok(Pair(r.value[1][1], r.value[1][2]))
----------------------------------------------------------------------------
Init == pair = <<>> /\ file = <<>> /\ loaded = <<>> /\ used = <<>>

Generate ==
    /\ pair = <<>>
    /\ pair' = <<generate("a")>>
    /\ UNCHANGED <<file, loaded, used>>

Serialize(b) ==
    /\ pair # <<>> /\ file = <<>>
    /\ LET p == pair[1]
       IN file' = << [by |-> b, damaged |-> FALSE, bytes |->
            << CASE b = "Rust" -> IdentityKeyPair_serialize(p)
                 [] b = "Java" -> Native_IdentityKeyPair_Serialize(p.public, p.private)
                 [] b = "Swift" -> SwiftSerialize(p) >>] >>
    /\ UNCHANGED <<pair, loaded, used>>

\* The file is cut short or a byte of it changes.
Damage ==
    /\ file # <<>> /\ loaded = <<>>
    /\ ~file[1].damaged
    /\ LET bytes == file[1].bytes[1]
       IN \/ \E len \in {0, 32, 33, 34}, type \in {4, DJB} :
                file' = <<[file[1] EXCEPT !.damaged = TRUE,
                            !.bytes = <<[bytes EXCEPT !.public_key.len = len,
                                                      !.public_key.type = type]>>]>>
          \/ \E len \in {31, 33} :
                file' = <<[file[1] EXCEPT !.damaged = TRUE,
                            !.bytes = <<[bytes EXCEPT !.private_key.len = len]>>]>>
          \/ file' = <<[file[1] EXCEPT !.damaged = TRUE, !.bytes = <<>>]>>
    /\ UNCHANGED <<pair, loaded, used>>

\* Java has no way to load a pair.
Load(b) ==
    /\ file # <<>> /\ loaded = <<>>
    /\ b # "Java"
    /\ loaded' = << [by |-> b, result |->
            IF b = "Swift" THEN SwiftInit(file[1].bytes)
                           ELSE IdentityKeyPair_try_from(file[1].bytes)] >>
    /\ UNCHANGED <<pair, file, used>>

\* The application signs with the pair it loaded, and agrees on a secret with "b".
Use ==
    /\ loaded # <<>> /\ used = <<>>
    /\ IsOk(loaded[1].result)
    /\ LET p == loaded[1].result.value[1]
       IN used' = << [signature |-> PrivateKey_calculate_signature(p.private, "m"),
                      secret |-> calculate_agreement("B", p.private)] >>
    /\ UNCHANGED <<pair, file, loaded>>

\* The file is loaded or written again.
Again ==
    /\ loaded # <<>>
    /\ loaded' = <<>> /\ used' = <<>>
    /\ file' \in {file, <<>>}
    /\ UNCHANGED pair

Next ==
    \/ Generate
    \/ \E b \in Bindings : Serialize(b)
    \/ \E b \in Bindings : Load(b)
    \/ Damage
    \/ Use
    \/ Again

Spec == Init /\ [][Next]_vars
----------------------------------------------------------------------------
\* identity_key.rs:145, test_serialize_identity_key_pair: the identity key read
\* from the bytes of a pair is the identity key of the pair.  Here for bytes
\* and readers of any two bindings.
PairIsPortable ==
    loaded # <<>> /\ ~file[1].damaged => loaded[1].result = Ok(pair[1])
=============================================================================
