------------------------------- MODULE GcmSiv -------------------------------
(***************************************************************************)
(* AES-256-GCM-SIV (rust/aes-gcm-siv/src/aes_gcm_siv.rs): encrypt hashes   *)
(* the associated data and the buffer to a tag and masks the buffer in     *)
(* place, with pads that a counter of 32 bits numbers from a start that    *)
(* the tag gives; decrypt unmasks first and compares the tags after.       *)
(* Several blocks of pad are made at a time: one action per pass.          *)
(*                                                                         *)
(* AES and POLYVAL are symbolic.  A byte of the buffer is its value with   *)
(* the set of pad bytes on it, and a pad byte put on twice cancels.  A tag *)
(* is what was hashed.  Sizes are scaled down with their proportions kept: *)
(* PTEXT_MAX is as many blocks as the counter has values.                  *)
(***************************************************************************)
EXTENDS Keys, Integers, FiniteSets

CONSTANTS AES_BLOCK_SIZE, PAR_BLOCKS,
          Width,        \* values of the counter, 2^32 in the code (a bound)
          FullLength,   \* buffers up to this length have any bits (a bound)
          AAD_MAX       \* the longest associated data, 2^36 in the code (a bound)

VARIABLES phase,        \* "encrypt", "mask", "sent", "unmask", "compare" or "done"
          plain,        \* the text
          nonce, aad,   \* the arguments of the call; a nonce of -1 has a wrong size
          start,        \* the counter that the text's tag begins with
          sent,         \* what encrypt was given, and the tag it returned, <<>> or one
          received,     \* the buffer that decrypt was given
          buffer, tag,
          pass,         \* the passes of ctr32 done
          result        \* the result of the last call, <<>> or one

call == <<plain, start, nonce, aad>>
vars == <<phase, call, sent, received, buffer, tag, pass, result>>

PTEXT_MAX == AES_BLOCK_SIZE * Width
PAD_SIZE == AES_BLOCK_SIZE * PAR_BLOCKS
BitsUpTo(n) == UNION {[1..k -> {0, 1}] : k \in 0..n}

\* A string of bytes with no pad on it, and a zeroed one.
Bare(text) == [i \in 1..Len(text) |-> [value |-> text[i], pads |-> {}]]
Zeros(n) == Bare([i \in 1..n |-> 0])
noTag == [hash |-> <<>>, start |-> 0]
----------------------------------------------------------------------------
\* The keys of a nonce, which PadByte and compute_tag take the nonce for.
derive_keys(n) == IF n = -1 THEN Err("InvalidNonceSize") ELSE Ok([keys |-> n])

\* Polyval's update_padded: the blocks, the last one filled with zeros.
update_padded(data) ==
    LET padding == (AES_BLOCK_SIZE - (Len(data) % AES_BLOCK_SIZE)) % AES_BLOCK_SIZE
    IN data \o Zeros(padding)

\* Mutant: the lengths are not hashed.
compute_tag_NoLengths(data, associated, n) ==
    [hash |-> <<update_padded(Bare(associated)) \o update_padded(data), n>>, start |-> start]

\* The data and the text, padded each, then their lengths; then the nonce.
compute_tag(data, associated, n) ==
    [hash |-> <<update_padded(Bare(associated)) \o update_padded(data),
                n, Len(associated), Len(data)>>,
     start |-> start]

pads_required(length) == (length + PAD_SIZE) \div PAD_SIZE

\* Byte j of pass i: the keys are the nonce's, the block is the counter and the
\* rest of the tag.
PadByte(t, n, i, j) ==
    <<n, t.hash, (t.start + i * PAR_BLOCKS + (j - 1) \div AES_BLOCK_SIZE) % Width,
      (j - 1) % AES_BLOCK_SIZE>>

\* A pass of ctr32 over the buffer.
Xor(b, pad) == [b EXCEPT !.pads = (@ \ {pad}) \cup ({pad} \ @)]
Masked(data, t, n, i) ==
    [k \in 1..Len(data) |->
        IF k > i * PAD_SIZE /\ k <= (i + 1) * PAD_SIZE
        THEN Xor(data[k], PadByte(t, n, i, k - i * PAD_SIZE)) ELSE data[k]]
----------------------------------------------------------------------------
Init ==
    /\ phase = "encrypt"
    /\ plain \in BitsUpTo(FullLength) \cup {[i \in 1..n |-> 0] : n \in FullLength..(PTEXT_MAX + 1)}
    /\ nonce \in {-1, 1} /\ aad \in BitsUpTo(AAD_MAX + 1) /\ start \in 0..(Width - 1)
    /\ sent = <<>> /\ received = <<>> /\ buffer = Bare(plain) /\ tag = noTag /\ pass = 0 /\ result = <<>>

TooLong(data, associated) == Len(data) > PTEXT_MAX \/ Len(associated) > AAD_MAX

\* encrypt up to ctr32.
encrypt ==
    /\ phase = "encrypt"
    /\ IF TooLong(buffer, aad) \/ ~IsOk(derive_keys(nonce))
       THEN /\ phase' = "done"
            /\ result' = <<IF TooLong(buffer, aad) THEN Err("InvalidInputSize")
                           ELSE derive_keys(nonce)>>
            /\ UNCHANGED tag
       ELSE /\ phase' = "mask"
            /\ tag' = compute_tag(buffer, aad, nonce)
            /\ UNCHANGED result
    /\ UNCHANGED <<call, sent, received, buffer, pass>>

\* A pass of ctr32: the length left is unsigned and never goes below 0.
ctr32 ==
    /\ phase \in {"mask", "unmask"} /\ pass < pads_required(Len(buffer))
    /\ pass' = pass + 1
    /\ buffer' = Masked(buffer, tag, nonce, pass)
    /\ IF Len(buffer) - pass * PAD_SIZE < 0
       THEN phase' = "done" /\ result' = <<Err("UnexpectedPanic")>>
       ELSE UNCHANGED <<phase, result>>
    /\ UNCHANGED <<call, sent, received, tag>>

\* encrypt returns the tag.
Return ==
    /\ phase = "mask" /\ pass = pads_required(Len(buffer))
    /\ phase' = "sent" /\ pass' = 0
    /\ sent' = <<[nonce |-> nonce, aad |-> aad, buffer |-> buffer, tag |-> tag]>>
    /\ result' = <<Ok(tag)>>
    /\ UNCHANGED <<call, received, buffer, tag>>

\* decrypt is called, with what encrypt was called with and returned, or with
\* one thing changed on the way; the checks on the sizes.
decrypt ==
    /\ phase = "sent"
    /\ \/ UNCHANGED <<nonce, aad, buffer, tag>>
       \/ nonce' \in {-1, 2} /\ UNCHANGED <<aad, buffer, tag>>
       \/ aad' \in BitsUpTo(AAD_MAX + 1) /\ UNCHANGED <<nonce, buffer, tag>>
       \/ /\ \E t \in {noTag, [tag EXCEPT !.start = (@ + 1) % Width]} : tag' = t
          /\ UNCHANGED <<nonce, aad, buffer>>
       \/ /\ Len(buffer) > 0
          /\ \/ buffer' = SubSeq(buffer, 1, Len(buffer) - 1)
             \/ buffer' = [buffer EXCEPT ![Len(buffer)].value = 1 - @]
             \/ buffer' = Append(buffer, [value |-> 0, pads |-> {}])
          /\ UNCHANGED <<nonce, aad, tag>>
    /\ received' = buffer'
    /\ IF nonce' = -1 \/ tag' = noTag \/ TooLong(buffer', aad')
       THEN /\ phase' = "done"
            /\ result' = <<Err(IF nonce' = -1 THEN "InvalidNonceSize"
                               ELSE IF tag' = noTag THEN "InvalidTag"
                               ELSE "InvalidInputSize")>>
       ELSE phase' = "unmask" /\ result' = <<>>
    /\ UNCHANGED <<plain, start, sent, pass>>

\* decrypt compares the tags; if they differ it zeroes the buffer.
Compare ==
    /\ phase = "unmask" /\ pass = pads_required(Len(buffer))
    /\ phase' = "done"
    /\ IF compute_tag(buffer, aad, nonce) = tag
       THEN result' = <<Ok(buffer)>> /\ UNCHANGED buffer
       ELSE result' = <<Err("InvalidTag")>> /\ buffer' = Zeros(Len(buffer))
    /\ UNCHANGED <<call, sent, received, tag, pass>>

Done == phase = "done" /\ UNCHANGED vars

Next == encrypt \/ ctr32 \/ Return \/ decrypt \/ Compare \/ Done

Spec == Init /\ [][Next]_vars
----------------------------------------------------------------------------
(* Decrypt accepts exactly what encrypt made: what it accepts unmasks to   *)
(* the text, with the same associated data, nonce and tag, although the    *)
(* parts are hashed in one string with zeros between them; and what was    *)
(* not changed on the way is accepted, also where a pad is used in part    *)
(* and where the counter wraps.                                            *)
AcceptsExactlySent ==
    phase = "done" /\ sent # <<>> =>
        /\ IsOk(result[1]) =>
               /\ buffer = Bare(plain)
               /\ nonce = sent[1].nonce /\ aad = sent[1].aad /\ tag = sent[1].tag
        /\ sent[1] = [nonce |-> nonce, aad |-> aad, buffer |-> received, tag |-> tag]
               => IsOk(result[1])

(* What encrypt gives out has one byte of pad on every byte, and no byte   *)
(* of pad twice: the passes leave out none and the counter, which wraps    *)
(* within a long buffer, meets no value again.                             *)
MaskedOnce ==
    sent # <<>> =>
        LET pads == [k \in DOMAIN sent[1].buffer |-> sent[1].buffer[k].pads]
        IN \A k, l \in DOMAIN pads :
               Cardinality(pads[k]) = 1 /\ (k # l => pads[k] # pads[l])
=============================================================================
