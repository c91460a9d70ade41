--------------------------- MODULE JavaSessionStore ---------------------------
(***************************************************************************)
(* The session store in memory of the Java library                         *)
(* (InMemorySessionStore.java).  Its methods are synchronized, so a call   *)
(* is a step.  deleteAllSessions removes entries of the HashMap that it    *)
(* iterates over: the iterator's next step after a removal throws a        *)
(* ConcurrentModificationException, unless there is none.  The order in    *)
(* which a HashMap hands out its keys is any.                              *)
(***************************************************************************)
EXTENDS SequencesExt

CONSTANTS Names, Devices,
          MaxVersion   \* how often a session is stored (a bound)

VARIABLES sessions,    \* address |-> the version of its record
          deleted      \* the last call of deleteAllSessions, <<>> or one

vars == <<sessions, deleted>>

Addresses == Names \X Devices

Without(addresses) ==
    [a \in (DOMAIN sessions) \ addresses |-> sessions[a]]

Init ==
    /\ sessions = <<>>
    /\ deleted = <<>>

storeSession(address) ==
    \E version \in 1..MaxVersion :
        /\ address \in DOMAIN sessions => version > sessions[address]
        /\ sessions' = [a \in (DOMAIN sessions) \cup {address} |->
                            IF a = address THEN version ELSE sessions[a]]
        /\ deleted' = <<>>

deleteSession(address) ==
    /\ sessions' = Without({address})
    /\ deleted' = <<>>

\* The loop removes the first key that matches; if it is not the last key, the
\* iterator throws at the next one.
deleteAllSessions(name) ==
    \E keys \in SetToSeqs(DOMAIN sessions) :
        LET matches == {i \in 1..Len(keys) : keys[i][1] = name}
            first == CHOOSE i \in matches : \A j \in matches : i <= j
        IN /\ sessions' = IF matches = {} THEN sessions ELSE Without({keys[first]})
           /\ deleted' = <<[name |-> name, throws |-> matches # {} /\ first < Len(keys)]>>

Next ==
    \/ \E a \in Addresses : storeSession(a) \/ deleteSession(a)
    \/ \E name \in Names : deleteAllSessions(name)

Spec == Init /\ [][Next]_vars
----------------------------------------------------------------------------
(* What SessionStore.java promises of deleteAllSessions: it removes the    *)
(* records of all devices of the name.                                     *)
DeleteAllDeletesAll ==
    deleted # <<>> => \A a \in DOMAIN sessions : a[1] # deleted[1].name
=============================================================================
