------------------------------ MODULE MCParts ------------------------------
(***************************************************************************)
(* The parts of the library that nothing else runs beside, for TLC: the    *)
(* ids of keys on their way through the bridges, the wire formats, the     *)
(* fingerprints and the primitives.  A behaviour is one of one part; the   *)
(* variables of the others are empty.                                      *)
(***************************************************************************)
EXTENDS Integers, Sequences

CONSTANTS OneTimeKeys, SignedKeys, Messages

VARIABLES part,
          bob, alice, preKeys, signedKeys, published, spent, bundle, session, message,
          established, received,
          type, bytes, origin, sent, parsed, delivered,
          own, known, print, scan,
          x, y, i, mask, order,
          private, hash, signed, shown, verdict,
          version, asked, offset, blocks, output,
          phase, plain, nonce, aad, start, sealed, opened, buffer, tag, pass, result

ids == <<bob, alice, preKeys, signedKeys, published, spent, bundle, session, message,
         established, received>>
wire == <<type, bytes, origin, sent, parsed, delivered>>
prints == <<own, known, print, scan>>
compared == <<x, y, i, mask, order>>
signature == <<private, hash, signed, shown, verdict>>
expansion == <<version, asked, offset, blocks, output>>
siv == <<phase, plain, nonce, aad, start, sealed, opened, buffer, tag, pass, result>>

\* Ids of three bits: 0, both signs of an int and the widths' edges.
K == INSTANCE KeyIds WITH Width <- 3

\* Small ids, versions on both sides of 16, and every length at which a
\* parser's answer changes.
W == INSTANCE Wire WITH
        Counters <- {0, 1}, Versions <- {3, 4, 19}, Nibbles <- {2, 3, 4},
        Lengths <- {0, 1, 8, 9, 64, 65}, received <- delivered

\* Two versions, both ends of the allowed iteration counts and one beyond each.
F == INSTANCE Fingerprints WITH
        MaxKeys <- 3, Versions <- {1, 2}, Iterations <- {1, 2, 1000000, 1000001}

\* Every pair of bytes, and the bytes at which a mask could go wrong.
C == INSTANCE ConstantTime WITH
        Edges <- {0, 1, 127, 128, 255}, MaxLen <- 3, result <- mask

\* A group of five points, with every key, nonce and hash: three of the five
\* reduced scalars have an unreduced form below the limit.
X == INSTANCE XEdDSA WITH Q <- 5, SLimit <- 8

\* Blocks of two bytes and a counter of four values: outputs that end within
\* a block, at its end, at the counter's limit and beyond it.
H == INSTANCE Hkdf WITH
        HASH_OUTPUT_SIZE <- 2, Width <- 4, MaxLength <- 13, Salts <- {"zeros", "salt"}

\* Buffers that end within a block, within a run of blocks and beyond the
\* counter's limit, from every place the counter may start at.
G == INSTANCE GcmSiv WITH
        AES_BLOCK_SIZE <- 2, PAR_BLOCKS <- 2, Width <- 5, FullLength <- 3, AAD_MAX <- 2,
        sent <- sealed, received <- opened
----------------------------------------------------------------------------
NoIds ==
    /\ bob = <<>> /\ alice = <<>> /\ preKeys = <<>> /\ signedKeys = <<>> /\ published = <<>>
    /\ spent = <<>> /\ bundle = <<>> /\ session = <<>> /\ message = <<>> /\ received = <<>>
    /\ established = <<>>
NoWire == type = <<>> /\ bytes = <<>> /\ origin = <<>> /\ sent = <<>> /\ parsed = <<>> /\ delivered = <<>>
NoPrints == own = <<>> /\ known = <<>> /\ print = <<>> /\ scan = <<>>
NoCompared == x = <<>> /\ y = <<>> /\ i = <<>> /\ mask = <<>> /\ order = <<>>
NoSignature == private = <<>> /\ hash = <<>> /\ signed = <<>> /\ shown = <<>> /\ verdict = <<>>
NoExpansion == version = <<>> /\ asked = <<>> /\ offset = <<>> /\ blocks = <<>> /\ output = <<>>
NoSiv ==
    /\ phase = <<>> /\ plain = <<>> /\ nonce = <<>> /\ aad = <<>> /\ start = <<>>
    /\ sealed = <<>> /\ opened = <<>> /\ buffer = <<>> /\ tag = <<>> /\ pass = <<>> /\ result = <<>>

MCInit ==
    /\ part \in {"ids", "wire", "prints", "compared", "signature", "expansion", "siv"}
    /\ IF part = "ids" THEN K!Init ELSE NoIds
    /\ IF part = "wire" THEN W!Init ELSE NoWire
    /\ IF part = "prints" THEN F!Init ELSE NoPrints
    /\ IF part = "compared" THEN C!Init ELSE NoCompared
    /\ IF part = "signature" THEN X!Init ELSE NoSignature
    /\ IF part = "expansion" THEN H!Init ELSE NoExpansion
    /\ IF part = "siv" THEN G!Init ELSE NoSiv

MCNext ==
    /\ UNCHANGED part
    /\ \/ part = "ids" /\ K!Next /\ UNCHANGED <<wire, prints, compared, signature, expansion, siv>>
       \/ part = "wire" /\ W!Next /\ UNCHANGED <<ids, prints, compared, signature, expansion, siv>>
       \/ part = "prints" /\ F!Next /\ UNCHANGED <<ids, wire, compared, signature, expansion, siv>>
       \/ part = "compared" /\ C!Next /\ UNCHANGED <<ids, wire, prints, signature, expansion, siv>>
       \/ part = "signature" /\ X!Next /\ UNCHANGED <<ids, wire, prints, compared, expansion, siv>>
       \/ part = "expansion" /\ H!Next /\ UNCHANGED <<ids, wire, prints, compared, signature, siv>>
       \/ part = "siv" /\ G!Next /\ UNCHANGED <<ids, wire, prints, compared, signature, expansion>>

MCSpec ==
    MCInit /\ [][MCNext]_<<part, ids, wire, prints, compared, signature, expansion, siv>>
----------------------------------------------------------------------------
\* The id 0 and a key already used are all that makes Bob's decryption fail (KeyIds).
OnlyZeroAndSpentFail == part = "ids" => K!OnlyZeroAndSpentFail

\* try_from gives back what new was given (Wire).
ParseInvertsNew == part = "wire" => W!ParseInvertsNew

\* What passes the MAC or the signature is what was sent (Wire).
CheckedIsSent == part = "wire" => W!CheckedIsSent

\* Texts and scans agree exactly if the two parties see the same keys
\* (Fingerprints).
ViewsAgree == part = "prints" => F!ViewsAgree

\* constant_time_cmp is the lexicographic order (ConstantTime).
IsTheOrder == part = "compared" => C!IsTheOrder

\* A signature verifies exactly if it is the signer's, with s reduced or not (XEdDSA).
VerifiesUpToReduction == part = "signature" => X!VerifiesUpToReduction

\* The derived bytes are those of RFC 5869 as long as the counter lasts (Hkdf).
DerivesAsSpecified == part = "expansion" => H!DerivesAsSpecified

\* Encrypt masks every byte, with a pad of its own, and decrypt accepts exactly
\* what encrypt made (GcmSiv).
AcceptsExactlySent == part = "siv" => G!AcceptsExactlySent /\ G!MaskedOnce
=============================================================================
