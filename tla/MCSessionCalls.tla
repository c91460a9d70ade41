--------------------------- MODULE MCSessionCalls ---------------------------
(***************************************************************************)
(* SessionCalls for TLC: two messages of a session on a one-time pre-key   *)
(* and a later plain one; or one of each kind, the last of a session       *)
(* without such a key.                                                     *)
(***************************************************************************)
EXTENDS SessionCalls, TLC

Message(s, prekey, id, n) == [session |-> s, prekey |-> prekey, pre_key |-> id, n |-> n]

MCMessages == {Message("a", TRUE, <<1>>, 0), Message("a", TRUE, <<1>>, 1),
               Message("a", FALSE, <<>>, 2)}
MCOneEach == {Message("a", TRUE, <<1>>, 0), Message("a", FALSE, <<>>, 1),
              Message("b", TRUE, <<>>, 0)}

Symmetry == Permutations(Threads)
=============================================================================
