------------------------------- MODULE XEdDSA -------------------------------
(***************************************************************************)
(* Signatures with a Diffie-Hellman key (rust/protocol/src/curve/          *)
(* curve25519.rs).  The key is a Montgomery point, which does not say      *)
(* which of two Edwards points it stands for; the signer puts the sign     *)
(* into a bit of the signature that is otherwise 0.                        *)
(*                                                                         *)
(* The group is the integers modulo Q, a point being its multiple of the   *)
(* base point.  The 32 bytes of s are a number of 255 bits and the sign    *)
(* above them; the verifier refuses an s with one of its two highest bits  *)
(* set and does not reduce the others.  The hash is an oracle whose        *)
(* answers are chosen when it is first asked.                              *)
(***************************************************************************)
EXTENDS Integers, Sequences, TLC

CONSTANTS Q,            \* the order of the group
          SLimit,       \* 2^253: the power of two above the order of the group
          Messages

VARIABLES private,      \* the signer's private key, <<>> or one
          hash,         \* the answers of the oracle: query |-> scalar
          signed,       \* the message signed and the signature, <<>> or one
          shown,        \* what a verifier gets, <<>> or one
          verdict       \* its answer, <<>> or one

vars == <<private, hash, signed, shown, verdict>>

Scalars == 0 .. Q - 1
Neg(p) == (Q - p) % Q

\* The bit of the sign, 2^255, and the two parts of the last 32 bytes.
Top == 4 * SLimit
SignBit(tail) == tail \div Top
S(tail) == tail % Top

\* The 32 bytes of R that are no point.
NoPoint == -1

\* The top bit of a compressed point: one of p and -p has it.
sign(p) == IF p > Q \div 2 THEN 1 ELSE 0

\* What p and -p have in common, and PublicKey::from a private key.
montgomery(p) == {p, Neg(p)}
PublicKey(a) == montgomery(a)

\* MontgomeryPoint::to_edwards.
to_edwards(u, bit) == CHOOSE p \in u : sign(p) = bit

\* The answers the oracle may give to a query.
Answers(q) == IF q \in DOMAIN hash THEN {hash[q]} ELSE Scalars
----------------------------------------------------------------------------
Init == private = <<>> /\ hash = <<>> /\ signed = <<>> /\ shown = <<>> /\ verdict = <<>>

\* KeyPair::new.
KeyPair_new ==
    /\ private = <<>>
    /\ \E a \in Scalars \ {0} : private' = <<a>>
    /\ UNCHANGED <<hash, signed, shown, verdict>>

\* calculate_signature: r is the hash of a fresh random string.
calculate_signature(m) ==
    /\ private # <<>> /\ signed = <<>>
    /\ \E r \in Scalars : \E h \in Answers(<<r, private[1], m>>) :
          /\ hash' = (<<r, private[1], m>> :> h) @@ hash
          /\ signed' = << [message |-> m, r |-> r,
                           tail |-> ((h * private[1] + r) % Q) + Top * sign(private[1])] >>
    /\ UNCHANGED <<private, shown, verdict>>

\* The signature reaches a verifier, as it is or with another message, other
\* bytes of R or other bytes of s and the sign.
Show ==
    /\ signed # <<>> /\ shown = <<>>
    /\ \/ \E m \in Messages : shown' = <<[signed[1] EXCEPT !.message = m]>>
       \/ \E r \in Scalars \cup {NoPoint} : shown' = <<[signed[1] EXCEPT !.r = r]>>
       \/ \E tail \in 0 .. 2 * Top - 1 : shown' = <<[signed[1] EXCEPT !.tail = tail]>>
    /\ UNCHANGED <<private, hash, signed, verdict>>

\* The check of the two highest bits of s, and the comparison of the points.
Verify(v, s) ==
    LET a == to_edwards(PublicKey(private[1]), SignBit(v.tail))
    IN IF s >= SLimit THEN verdict' = <<FALSE>> /\ UNCHANGED hash
       ELSE \E h \in Answers(<<v.r, a, v.message>>) :
               /\ hash' = (<<v.r, a, v.message>> :> h) @@ hash
               /\ verdict' = <<(s + h * Neg(a)) % Q = v.r>>

\* Mutant: the sign is not taken out of s.
verify_signature_SignKept ==
    /\ shown # <<>> /\ verdict = <<>>
    /\ Verify(shown[1], shown[1].tail)
    /\ UNCHANGED <<private, signed, shown>>

\* verify_signature.
verify_signature ==
    /\ shown # <<>> /\ verdict = <<>>
    /\ Verify(shown[1], S(shown[1].tail))
    /\ UNCHANGED <<private, signed, shown>>

Done == verdict # <<>> /\ UNCHANGED vars

Next ==
    \/ KeyPair_new
    \/ \E m \in Messages : calculate_signature(m)
    \/ Show \/ verify_signature \/ Done

Spec == Init /\ [][Next]_vars
----------------------------------------------------------------------------
\* The oracle's answer for a signature of the signer's, or with the other sign.
Answer(v) == hash[<<v.r, to_edwards(PublicKey(private[1]), SignBit(v.tail)), v.message>>]

\* What a signature verifies as, whichever of the two points the signer's key stands
\* for.  With its message, R and sign exactly two numbers pass for s: the signer's,
\* and the order of the group added to it where that is below the limit.  With
\* another message it passes only if the hash answers alike for both, with another
\* R only if it does not, with the other sign only if the answers are opposite.
VerifiesUpToReduction ==
    verdict # <<>> =>
        LET v == shown[1]
            o == signed[1]
            sameSign == SignBit(v.tail) = SignBit(o.tail)
        IN /\ v.message = o.message /\ v.r = o.r /\ sameSign =>
                  (verdict[1] <=> S(v.tail) \in {S(o.tail), S(o.tail) + Q}
                                     /\ S(v.tail) < SLimit)
           /\ verdict[1] /\ v.message # o.message => Answer(v) = Answer(o)
           /\ verdict[1] /\ v.r # o.r => v.r \in Scalars /\ Answer(v) # Answer(o)
           /\ verdict[1] /\ ~sameSign /\ S(v.tail) % Q = S(o.tail) =>
                  Answer(v) = Neg(Answer(o))
=============================================================================
