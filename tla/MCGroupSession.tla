--------------------------- MODULE MCGroupSession ---------------------------
(***************************************************************************)
(* GroupSession for TLC: many messages under one sender key, or several    *)
(* sender keys with repeated announcements.                                *)
(***************************************************************************)
EXTENDS GroupSession

MCBudgets == {[keys |-> 1, sent |-> 5, processed |-> 2],
              [keys |-> 3, sent |-> 1, processed |-> 4]}
=============================================================================
