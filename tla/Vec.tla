-------------------------------- MODULE Vec --------------------------------
(***************************************************************************)
(* The operations of Rust's Vec and VecDeque that the modelled code uses,  *)
(* on sequences.  (SequencesExt has the like of them, but it brings Bags   *)
(* into the context of every proof obligation, which makes each of them    *)
(* ten times as slow to prepare.)                                          *)
(***************************************************************************)
EXTENDS Naturals, Sequences, FiniteSetsExt

contains(v, x) == \E i \in 1..Len(v) : v[i] = x

\* The place of the first element that passes the test, 0 if none does.
first_place(v, Test(_)) ==
    LET places == {i \in 1..Len(v) : Test(v[i])}
    IN IF places = {} THEN 0 ELSE Min(places)

\* The element at the place is taken out.
remove(v, place) == SubSeq(v, 1, place - 1) \o SubSeq(v, place + 1, Len(v))
=============================================================================
