-------------------------------- MODULE Hkdf --------------------------------
(***************************************************************************)
(* HKDF (rust/protocol/src/kdf.rs): expand makes blocks, each the HMAC of  *)
(* the block before it, the info and a counter of one byte, until there    *)
(* are enough bytes.  One action per block.                                *)
(*                                                                         *)
(* A block is symbolic: what was hashed.  The byte has Width values, and   *)
(* its addition wraps (a release build) or panics (a debug build).         *)
(***************************************************************************)
EXTENDS Keys

CONSTANTS HASH_OUTPUT_SIZE,   \* bytes of a block
          Width,              \* values of the counter, 256 in the code (a bound)
          MaxLength,          \* the longest output asked for (a bound)
          Salts

VARIABLES version, asked,     \* the arguments: the version, salt, info and length
          offset,             \* iteration_start_offset, <<>> if the version is refused
          blocks,             \* the blocks made
          output              \* what is returned, <<>> or one

vars == <<version, asked, offset, blocks, output>>

none == [block |-> "none"]
----------------------------------------------------------------------------
\* HKDF::new.
HKDF_new(v) ==
    CASE v = 2 -> Ok(0) [] v = 3 -> Ok(1) [] OTHER -> Err("UnrecognizedMessageVersion")

\* extract: without a salt, one of zeros.
extract(salt) == [prk |-> salt]

iterations(length) == (length + (HASH_OUTPUT_SIZE - 1)) \div HASH_OUTPUT_SIZE

\* Mutant: the counter starts at 1 whatever the version.
Counter_FromOne(i, start) ==
    LET sum == (i % Width) + 1
    IN IF sum < Width THEN {sum} ELSE {sum % Width, Width}

\* (i as u8) + iteration_start_offset: the values it may come to.
Counter(i, start) ==
    LET sum == (i % Width) + start
    IN IF sum < Width THEN {sum} ELSE {sum % Width, Width}

Block(prk, info, last, c) == [prk |-> prk, info |-> info, last |-> last, counter |-> c]

\* Bytes of the output: which byte of which block.
Bytes(bs) == [n \in 1 .. Len(bs) * HASH_OUTPUT_SIZE |->
                 <<bs[(n - 1) \div HASH_OUTPUT_SIZE + 1], (n - 1) % HASH_OUTPUT_SIZE>>]
----------------------------------------------------------------------------
Init ==
    /\ version \in 1 .. 4
    /\ asked \in [salt : Salts, info : {"i1", "i2"}, length : 0 .. MaxLength]
    /\ offset = <<>> /\ blocks = <<>> /\ output = <<>>

New ==
    /\ offset = <<>> /\ output = <<>>
    /\ IF IsOk(HKDF_new(version))
       THEN offset' = HKDF_new(version).value /\ UNCHANGED output
       ELSE output' = <<HKDF_new(version)>> /\ UNCHANGED offset
    /\ UNCHANGED <<version, asked, blocks>>

\* An iteration of expand.
expand ==
    /\ offset # <<>> /\ output = <<>>
    /\ Len(blocks) < iterations(asked.length)
    /\ \E c \in Counter(Len(blocks), offset[1]) :
          IF c = Width
          THEN output' = <<Err("UnexpectedPanic")>> /\ UNCHANGED blocks
          ELSE LET last == IF blocks = <<>> THEN none ELSE blocks[Len(blocks)]
               IN /\ blocks' = Append(blocks, Block(extract(asked.salt), asked.info, last, c))
                  /\ UNCHANGED output
    /\ UNCHANGED <<version, asked, offset>>

\* truncate.
Return ==
    /\ offset # <<>> /\ output = <<>>
    /\ Len(blocks) = iterations(asked.length)
    /\ output' = <<Ok(SubSeq(Bytes(blocks), 1, asked.length))>>
    /\ UNCHANGED <<version, asked, offset, blocks>>

Done == output # <<>> /\ UNCHANGED vars

Next == New \/ expand \/ Return \/ Done

Spec == Init /\ [][Next]_vars
----------------------------------------------------------------------------
\* Blocks that the counter numbers without overflow, and the n-th of them as RFC 5869
\* defines it, with the first number that the version has.
First == IF version = 2 THEN 0 ELSE 1
Numbered == Width - First
T[n \in 0..Numbered] ==
    IF n = 0 THEN none
    ELSE [prk |-> extract(asked.salt), info |-> asked.info, last |-> T[n - 1],
          counter |-> First + n - 1]

\* Every length asked for gives that many bytes, the bytes of T(1), T(2) and so on,
\* as long as the counter numbers the blocks: one block more in version 2 than in
\* version 3.  Beyond that version 2 still gives every byte asked for, and version 3
\* gives them or panics, as the build has it.
DerivesAsSpecified ==
    output # <<>> =>
        IF version \notin {2, 3} THEN output[1] = Err("UnrecognizedMessageVersion")
        ELSE /\ IsOk(output[1]) =>
                   LET bytes == output[1].value[1]
                   IN /\ Len(bytes) = asked.length
                      /\ \A k \in 1..Len(bytes) :
                            k <= Numbered * HASH_OUTPUT_SIZE =>
                               bytes[k] = <<T[(k - 1) \div HASH_OUTPUT_SIZE + 1],
                                            (k - 1) % HASH_OUTPUT_SIZE>>
             /\ ~IsOk(output[1]) =>
                   version = 3 /\ asked.length > Numbered * HASH_OUTPUT_SIZE
=============================================================================
