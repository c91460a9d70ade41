------------------------------ MODULE JniCalls ------------------------------
(***************************************************************************)
(* Java objects that own native ones.  A wrapper (ECPublicKey,             *)
(* SenderKeyRecord, ...) holds the handle of a boxed Rust object, which    *)
(* its finalizer destroys.  Handles are made by the methods of JniApi, for *)
(* a constructor or for a method that wraps the result, and by a native    *)
(* call that hands a record to the application's store; a native call also *)
(* reads records the store returns.  The collector may finalize a wrapper  *)
(* as soon as nobody refers to it, also while a native method runs with    *)
(* its handle: the method has the number only, and no reachabilityFence    *)
(* follows it.  One native method and one call that uses stores are under  *)
(* way at a time, in two threads.                                          *)
(***************************************************************************)
EXTENDS JniApi, Errors, FiniteSets

CONSTANTS Memory,       \* addresses of the Rust heap (a bound)
          Wrappers,     \* Java objects (a bound)
          null          \* the handle 0

ASSUME NullAssumption == null \notin Memory

VARIABLES heap,         \* the addresses in use
          built,        \* the wrappers constructed and not yet finalized
          handle,       \* their field "handle"
          held,         \* the wrappers the application refers to
          kept,         \* ... and those its stores refer to
          local,        \* ... and those the native call under way refers to
          method,       \* the native method under way: the handle it has and the
                        \* wrapper that was read from, {} or one
          calling,      \* the native call that uses a store, likewise
          loaded,       \* the object a store returned and that is not read yet
          generated,    \* the handle NumericFingerprintGenerator has, or null
          orphans       \* the addresses boxed for Java objects that were not made

jniVars ==
    <<heap, built, handle, held, kept, local, method, calling, loaded, generated, orphans>>

Reachable == held \cup kept \cup local
UnderWay == method \cup calling

\* An object that Java allocates is none of those in use.
Fresh == Wrappers \ (built \cup {p.of : p \in UnderWay})

\* What a method has that takes no handle.
Nothing == [of |-> null, handle |-> null]
----------------------------------------------------------------------------
\* What the conversion of an argument may come to, when the handles are h.
\* Java code does not pass an address of its own making.
ArgErrors(arg, h) ==
    CASE arg = "handle" -> {IF h = null THEN "NullHandle" ELSE "none"}
      [] arg \in {"bytes", "string"} -> {"none", "Jni"}
      [] arg \in {"u8", "u32"} -> {"none", "IntegerOverflow"}
      [] OTHER -> {"none"}

\* run_ffi_safe: the errors a method may end with, "none" among them if its body
\* may be reached and succeed, "absent" if it may then give no object.  When the
\* object behind the handle p was freed meanwhile, the body reads what it finds.
run_ffi_safe(m, p) ==
    LET args == {ArgErrors(m.args[i], p.handle) : i \in DOMAIN m.args}
        errors == (UNION args) \ {"none"}
        freed == p # Nothing /\ p.of \notin built
        ends == IF freed THEN m.body \cup May ELSE m.body
        body == IF \E s \in args : "none" \notin s THEN {}
                ELSE {CASE b = "panic" -> "UnexpectedPanic"
                        [] b = "error" -> "InvalidMessage"
                        [] b = "none" -> "absent"
                        [] OTHER -> "none" : b \in ends}
    IN errors \cup body

Exception(e) == IF e \in {"none", "absent"} THEN e ELSE throw_error(e)

\* The methods Java constructors call; the others are called first and their
\* result is wrapped.
InConstructor ==
    {"ProtocolAddress_New", "ECPublicKey_Deserialize", "ECPrivateKey_Deserialize",
     "SignalMessage_Deserialize", "SignalMessage_New", "PreKeySignalMessage_Deserialize",
     "PreKeySignalMessage_New", "SenderKeyMessage_Deserialize", "SenderKeyMessage_New",
     "SenderKeyDistributionMessage_Deserialize", "SenderKeyDistributionMessage_New",
     "PreKeyBundle_New", "SignedPreKeyRecord_New", "SignedPreKeyRecord_Deserialize",
     "PreKeyRecord_New", "PreKeyRecord_Deserialize", "SenderKeyName_New",
     "SenderKeyRecord_New", "SenderKeyRecord_Deserialize"}

Wrapping ==
    {f \in DOMAIN Native : Native[f].out \in {"object", "optional"}}
        \ (InConstructor \cup {"NumericFingerprintGenerator_New"})

Valued == {f \in DOMAIN Native : Native[f].out = "value"}

\* The handle that f has: that of the method under way, if f takes one at all.
Passed(f, lent) ==
    IF \E i \in DOMAIN Native[f].args : Native[f].args[i] = "handle"
    THEN lent ELSE IF lent = {} THEN {Nothing} ELSE {}

\* How a call of one of the methods fs may end: "none" or "absent", or the
\* exception it throws.
Ends(fs, lent) ==
    UNION {UNION {{Exception(e) : e \in run_ffi_safe(Native[f], p)} :
                      p \in Passed(f, lent)} : f \in fs}
----------------------------------------------------------------------------
JniInit ==
    /\ heap = {} /\ built = {} /\ handle = [w \in Wrappers |-> null]
    /\ held = {} /\ kept = {} /\ local = {}
    /\ method = {} /\ calling = {} /\ loaded = {}
    /\ generated = null /\ orphans = {}

\* Java reads the field and calls a native method with it.
Begin(w) ==
    /\ method = {} /\ w \in held
    /\ method' = {[of |-> w, handle |-> handle[w]]}
    /\ UNCHANGED <<heap, built, handle, held, kept, local, calling, loaded, generated, orphans>>

\* A constructor.  When the native method throws, the field keeps 0 and the
\* object is garbage that will be finalized.
Construct(e, w) ==
    /\ w \in Fresh
    /\ built' = built \cup {w}
    /\ IF e = "none"
       THEN \E m \in Memory \ heap :
               /\ heap' = heap \cup {m}
               /\ handle' = [handle EXCEPT ![w] = m]
               /\ held' = held \cup {w}
       ELSE /\ handle' = [handle EXCEPT ![w] = null]
            /\ UNCHANGED <<heap, held>>
    /\ UNCHANGED <<kept, local, calling, loaded, generated, orphans>>

\* A method that wraps the handle it is given, if it is given one.
Wrap(e, w) ==
    /\ w \in Fresh
    /\ IF e # "none" THEN UNCHANGED <<heap, built, handle, held>>
       ELSE \E m \in Memory \ heap :
               /\ heap' = heap \cup {m}
               /\ built' = built \cup {w}
               /\ handle' = [handle EXCEPT ![w] = m]
               /\ held' = held \cup {w}
    /\ UNCHANGED <<kept, local, calling, loaded, generated, orphans>>

\* A method whose result belongs to Java.
Value ==
    UNCHANGED <<heap, built, handle, held, kept, local, calling, loaded, generated, orphans>>

\* NumericFingerprintGenerator.createFor keeps the handle itself ...
Generate(e) ==
    /\ generated = null
    /\ IF e # "none" THEN UNCHANGED <<heap, generated>>
       ELSE \E m \in Memory \ heap : heap' = heap \cup {m} /\ generated' = m
    /\ UNCHANGED <<built, handle, held, kept, local, calling, loaded, orphans>>

\* ... asks for the text and the encoding, and destroys it.
Generated ==
    /\ generated # null
    /\ heap' = heap \ {generated} /\ generated' = null
    /\ UNCHANGED <<built, handle, held, kept, local, method, calling, loaded, orphans>>
----------------------------------------------------------------------------
\* The application puts an object into a store, or forgets one.
Keep(w) ==
    /\ w \in held
    /\ kept' = {w}
    /\ UNCHANGED <<heap, built, handle, held, local, method, calling, loaded, generated, orphans>>

Forget(w) ==
    /\ w \in held \cup kept
    /\ held' = held \ {w} /\ kept' = kept \ {w}
    /\ UNCHANGED <<heap, built, handle, local, method, calling, loaded, generated, orphans>>

\* Mutant: the native object is not dropped.
jni_fn_destroy_Kept(h) == heap

\* jni_fn_destroy: Box::from_raw unless the handle is 0.
jni_fn_destroy(h) == IF h = null THEN heap ELSE heap \ {h}

\* finalize.
Finalize(w) ==
    /\ w \in built \ Reachable
    /\ heap' = jni_fn_destroy(handle[w])
    /\ built' = built \ {w} /\ handle' = [handle EXCEPT ![w] = null]
    /\ UNCHANGED <<held, kept, local, method, calling, loaded, generated, orphans>>
----------------------------------------------------------------------------
\* check_jobject_type, for a store: it is null, the class is not found or the
\* store is of another one.
check_jobject_type == {"none", "NullHandle", "Jni", "BadJniParameter"}

\* A native call that uses a store begins, with the handle of an address or of a
\* sender key's name.
Enter(w, e) ==
    /\ calling = {} /\ w \in held
    /\ calling' = IF e = "none" THEN {[of |-> w, handle |-> handle[w]]} ELSE {}
    /\ UNCHANGED <<heap, built, handle, held, kept, local, method, loaded, generated, orphans>>

\* loadSenderKey, loadPreKey or loadSignedPreKey returns what the store keeps,
\* or an object the application holds (a copy made for the caller), or null.
\* The call now refers to it.
Callback ==
    /\ calling # {} /\ loaded = {}
    /\ \E w \in kept \cup held : loaded' = {w} /\ local' = local \cup {w}
    /\ UNCHANGED <<heap, built, handle, held, kept, method, calling, generated, orphans>>

\* get_object_with_native_handle: nativeHandle, and a clone of the object.
get_object_with_native_handle ==
    /\ loaded # {}
    /\ loaded' = {}
    /\ UNCHANGED <<heap, built, handle, held, kept, local, method, calling, generated, orphans>>

\* The call ends, with an exception or without one, and its references go.
Return == calling' = {} /\ local' = {}

\* jobject_from_native_handle: the object is boxed before the class is looked for
\* and the Java object is made; when either fails, nobody has its address.
jobject_from_native_handle(w, made) ==
    /\ w \in Fresh
    /\ \E m \in Memory \ heap :
          /\ heap' = heap \cup {m}
          /\ IF made
             THEN /\ handle' = [handle EXCEPT ![w] = m] /\ built' = built \cup {w}
                  /\ UNCHANGED orphans
             ELSE orphans' = orphans \cup {m} /\ UNCHANGED <<handle, built>>
    /\ UNCHANGED <<method, loaded, generated>>

\* do_store_sender_key: a clone of the record for a new Java object, which
\* storeSenderKey keeps, unless it throws.
StoreSenderKey(w) ==
    /\ calling # {} /\ loaded = {}
    /\ \/ /\ jobject_from_native_handle(w, TRUE)
          /\ \/ kept' = {w} /\ local' = local \cup {w} /\ UNCHANGED calling
             \/ kept' = kept /\ Return
       \/ jobject_from_native_handle(w, FALSE) /\ kept' = kept /\ Return
    /\ UNCHANGED held

\* The call has a message for Java, as SessionCipher_EncryptMessage has.
ReturnObject(w) ==
    /\ calling # {} /\ loaded = {}
    /\ \/ jobject_from_native_handle(w, TRUE) /\ held' = held \cup {w} /\ Return
       \/ jobject_from_native_handle(w, FALSE) /\ held' = held /\ Return
    /\ UNCHANGED kept

\* The call has bytes or nothing for Java, or fails: in a callback or its own body.
ReturnValue ==
    /\ calling # {} /\ loaded = {}
    /\ Return
    /\ UNCHANGED <<heap, built, handle, held, kept, method, loaded, generated, orphans>>

\* A native method without stores ends: the one under way, or one that takes no
\* handle and so lends none.
End(lent) ==
    /\ method' = method \ lent
    /\ \/ \E w \in Wrappers :
             \/ \E e \in Ends(InConstructor, lent) : Construct(e, w)
             \/ \E e \in Ends(Wrapping, lent) : Wrap(e, w)
       \/ Ends(Valued, lent) # {} /\ Value
       \/ \E e \in Ends({"NumericFingerprintGenerator_New"}, lent) : Generate(e)

JniNext ==
    \/ \E lent \in {{}, method} : End(lent)
    \/ Generated
    \/ \E w \in Wrappers :
          \/ Begin(w) \/ Keep(w) \/ Forget(w) \/ Finalize(w)
          \/ \E e \in check_jobject_type : Enter(w, e)
          \/ StoreSenderKey(w) \/ ReturnObject(w)
    \/ Callback \/ get_object_with_native_handle \/ ReturnValue

JniSpec == JniInit /\ [][JniNext]_jniVars
----------------------------------------------------------------------------
TypeOK ==
    /\ heap \subseteq Memory /\ built \subseteq Wrappers
    /\ handle \in [Wrappers -> Memory \cup {null}]
    /\ held \subseteq Wrappers /\ kept \subseteq Wrappers /\ local \subseteq Wrappers
    /\ UnderWay \subseteq [of : Wrappers, handle : Memory]
    /\ loaded \subseteq local /\ orphans \subseteq Memory
    /\ generated \in Memory \cup {null}

\* Whatever order finalizers, callbacks and constructors run in, an object
\* somebody can still use has a native object that is alive; and a native method
\* works on that object as long as somebody refers to the wrapper it was called
\* with.  (Without such a reference the finalizer may run first.)
ReachableIsUsable ==
    /\ \A w \in Reachable : w \in built /\ handle[w] \in heap
    /\ \A p \in UnderWay : p.of \in Reachable => p.handle = handle[p.of]

\* No two wrappers own the same native object, and none owns the generator's:
\* each finalizer frees its own.
OneOwner ==
    \A w \in built : handle[w] # null =>
        handle[w] # generated /\ \A u \in built : u # w => handle[u] # handle[w]

\* Every native object is the object of a wrapper that will be finalized, or
\* the fingerprint createFor is about to destroy; and no wrapper, the ones
\* whose constructor threw included, is left with a handle already freed.  Only
\* what was boxed for a Java object that could not be made has no owner, and
\* nobody frees it.
NothingLeaks ==
    LET owned == ({handle[w] : w \in built} \cup {generated}) \ {null}
    IN heap = owned \cup orphans /\ owned \cap orphans = {}

\* Every native object behind the Java API has one owner that frees it, unless
\* its Java object could not be made, and no object somebody can still use has
\* lost its own, not even while a native method works on it.
OwnedOnce == ReachableIsUsable /\ OneOwner /\ NothingLeaks

\* No native method ends because it was called with the handle 0 of a wrapper: a
\* constructor that throws publishes no object.
NeverNullHandle == throw_error("NullHandle") \notin Ends(DOMAIN Native, method)
=============================================================================
