---------------------------- MODULE ConstantTime ----------------------------
(***************************************************************************)
(* constant_time_cmp (rust/protocol/src/utils.rs), by which public keys    *)
(* are ordered: a loop from the last byte to the first that selects with   *)
(* masks instead of branching.  One action per iteration.                  *)
(***************************************************************************)
EXTENDS Integers, Sequences, Bitwise

CONSTANTS Edges,        \* the bytes of the longer inputs
          MaxLen        \* and their length (a bound)

VARIABLES x, y,         \* the slices compared
          i,            \* iterations done
          result,       \* the u8 of the loop
          order         \* what is returned, "none" before

vars == <<x, y, i, result, order>>

Byte == 0 .. 255
----------------------------------------------------------------------------
wrapping_sub(a, b) == (a - b) % 256

expand_top_bit(a) == wrapping_sub(0, a \div 128)

ct_is_zero(a) == expand_top_bit((255 - a) & wrapping_sub(a, 1))

ct_is_eq(a, b) == ct_is_zero(a ^^ b)

ct_is_lt(a, b) == expand_top_bit(a ^^ ((a ^^ b) | (wrapping_sub(a, b) ^^ a)))

ct_select(mask, a, b) == b ^^ (mask & (a ^^ b))

\* Mutant: the first byte that differs decides, from the end.
Iterate_Keeps ==
    /\ order = "none" /\ Len(x) = Len(y) /\ i < Len(x)
    /\ LET a == x[Len(x) - i]
           b == y[Len(x) - i]
       IN result' = IF result # 0 THEN result
                    ELSE ct_select(ct_is_eq(a, b), result, ct_select(ct_is_lt(a, b), 1, 255))
    /\ i' = i + 1
    /\ UNCHANGED <<x, y, order>>

Iterate ==
    /\ order = "none" /\ Len(x) = Len(y) /\ i < Len(x)
    /\ LET a == x[Len(x) - i]
           b == y[Len(x) - i]
       IN result' = ct_select(ct_is_eq(a, b), result, ct_select(ct_is_lt(a, b), 1, 255))
    /\ i' = i + 1
    /\ UNCHANGED <<x, y, order>>

\* The early returns on the lengths, and the result.
Return ==
    /\ order = "none"
    /\ \/ Len(x) < Len(y) /\ order' = "Less"
       \/ Len(x) > Len(y) /\ order' = "Greater"
       \/ /\ Len(x) = Len(y) /\ i = Len(x)
          /\ order' = CASE result = 0 -> "Equal" [] result = 1 -> "Less"
                        [] OTHER -> "Greater"
    /\ UNCHANGED <<x, y, i, result>>

Done == order # "none" /\ UNCHANGED vars
----------------------------------------------------------------------------
Slices == UNION {[1 .. n -> Edges] : n \in 0 .. MaxLen}

\* All pairs of bytes, and longer slices of the bytes where bits change.
Init ==
    /\ \/ x \in [1 .. 1 -> Byte] /\ y \in [1 .. 1 -> Byte]
       \/ x \in Slices /\ y \in Slices
    /\ i = 0 /\ result = 0 /\ order = "none"

Next == Iterate \/ Return \/ Done

Spec == Init /\ [][Next]_vars
----------------------------------------------------------------------------
\* Slice a is before slice b of the same length.
Before(a, b) ==
    \E n \in DOMAIN a : a[n] < b[n] /\ \A k \in 1 .. n - 1 : a[k] = b[k]

\* The answer is the order of slices, a shorter one first.
IsTheOrder ==
    order # "none" =>
        order = (IF x = y THEN "Equal"
                 ELSE IF Len(x) < Len(y) \/ (Len(x) = Len(y) /\ Before(x, y)) THEN "Less"
                 ELSE "Greater")
=============================================================================
