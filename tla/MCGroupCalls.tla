---------------------------- MODULE MCGroupCalls ----------------------------
(***************************************************************************)
(* GroupCalls for TLC: own sender keys 1 and 2, and another's key 3 with   *)
(* two messages.                                                           *)
(***************************************************************************)
EXTENDS GroupCalls, TLC

Key(id, n) == [id |-> id, iteration |-> n]

MCAnnouncements == [id : OwnIds, iteration : {0, 1}] \cup {Key(3, 0)}
MCMessages == [id : OwnIds, iteration : {0}] \cup {Key(3, 0), Key(3, 2)}
MCOwnOnly == [id : OwnIds, iteration : 0..MaxEncrypts]

Symmetry == Permutations(Threads)
=============================================================================
