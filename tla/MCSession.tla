------------------------------ MODULE MCSession -----------------------------
(***************************************************************************)
(* Session for TLC: one long exchange, several sessions with archiving,    *)
(* and reinstallations.  The two parties are interchangeable.              *)
(***************************************************************************)
EXTENDS Session, TLC

Calls(sessions, sent, received, archives, installs) ==
    [sessions |-> sessions, sent |-> sent, received |-> received,
     archives |-> archives, installs |-> installs]

MCBudgets == {Calls(1, 3, 4, 0, 0), Calls(2, 1, 2, 1, 0), Calls(1, 1, 2, 0, 1)}

Swap == Permutations(Parties)
=============================================================================
