----------------------------- MODULE MCBridges -----------------------------
(***************************************************************************)
(* Who owns native objects, for TLC: the objects of Java (JniCalls), those *)
(* of Swift (Handles) and the C interface under Swift (FfiCalls).  An      *)
(* application uses one of them, so a behaviour is one of that bridge; the *)
(* others stay as they were at the start.  Java has three objects at a     *)
(* time, so that one more may be finalized while a native method has its   *)
(* handle.  Swift is taken with calls within calls and two callbacks, and  *)
(* with all callbacks one deep.                                            *)
(***************************************************************************)
EXTENDS JniCalls, Handles

CONSTANTS CMemory, MaxOwned

VARIABLES bridge,
          cHeap, cOwned, cCall, cThrown, cTrapped

c == <<cHeap, cOwned, cCall, cThrown, cTrapped>>

C == INSTANCE FfiCalls WITH
        Memory <- CMemory, heap <- cHeap, owned <- cOwned, call <- cCall,
        thrown <- cThrown, trapped <- cTrapped

\* Swift's callbacks within callbacks, and the depth that all of them have.
Inner == {"none", "load_session", "store_session"}

MCInit ==
    /\ bridge \in {"java", "c", "swift nested", "swift flat"}
    /\ JniInit /\ C!Init /\ SwiftInit

MCNext ==
    \/ bridge = "java" /\ JniNext /\ UNCHANGED <<bridge, c, swiftVars>>
       /\ Cardinality(heap') <= 3 /\ Cardinality(built') <= 3
    \/ bridge = "c" /\ C!Next /\ UNCHANGED <<bridge, jniVars, swiftVars>>
    \/ bridge = "swift nested" /\ SwiftNext /\ UNCHANGED <<bridge, jniVars, c>>
       /\ \A i \in DOMAIN frames' : frames'[i].op \in Inner
    \/ bridge = "swift flat" /\ SwiftNext /\ UNCHANGED <<bridge, jniVars, c>>
       /\ Len(frames') <= 1

MCSpec == MCInit /\ [][MCNext]_<<bridge, jniVars, c, swiftVars>>

\* The bridges share their model values, so that one group of permutations
\* serves them all; the C bridge has one more address, which stays put.
Symm == Permutations(Memory) \cup Permutations(Wrappers)
----------------------------------------------------------------------------
\* Every piece of memory the C bridge hands out has one owner that frees it, and
\* no force unwrap or try! of the Swift library fails on what it hands out
\* (FfiCalls).
COwnedOnce == C!OwnedOnce /\ C!NeverTraps
=============================================================================
