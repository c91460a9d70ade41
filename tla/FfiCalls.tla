------------------------------ MODULE FfiCalls ------------------------------
(***************************************************************************)
(* A Swift application calls the functions of FfiApi.  The C function      *)
(* runs under run_ffi_safe and gives memory of the Rust heap to the        *)
(* caller: an object, a buffer, a string or, when it fails, a              *)
(* SignalFfiError.  The Swift side copies what it needs and gives the      *)
(* memory back.  One call at a time: no function here calls a store.       *)
(***************************************************************************)
EXTENDS FfiApi, Errors, Naturals, FiniteSets, Sequences

CONSTANTS Memory,       \* addresses of the Rust heap (a bound)
          MaxOwned      \* objects the application keeps at a time (a bound)

VARIABLES heap,         \* the addresses in use
          owned,        \* the objects wrappers of the application own
          call,         \* the call under way, <<>> or one
          thrown,       \* what the last call threw, "none" if it returned
          trapped       \* a force unwrap or a try! failed

vars == <<heap, owned, call, thrown, trapped>>

nil == "nil"

\* What may be passed for an argument: Swift passes a null pointer for an
\* empty buffer, and for a wrapper that has no handle.
Passed(arg) ==
    CASE arg \in {"own handle", "bare handle"} -> {"valid"}
      [] arg \in {"handle", "option"} -> {"valid", "null"}
      [] arg = "slice" -> {"valid", "empty"}
      [] arg = "data" -> {"valid", "empty"}
      [] arg = "cstring" -> {"valid", "not UTF-8"}

\* native_handle_cast, as_slice, read_c_string and the tests for null.
ArgError(arg, value) ==
    CASE arg = "handle" /\ value = "null" -> "NullPointer"
      [] arg = "data" /\ value = "empty" -> "NullPointer"
      [] arg = "cstring" /\ value = "not UTF-8" -> "InvalidUtf8String"
      [] OTHER -> "none"

FirstError(fn, passed) ==
    LET bad == {i \in DOMAIN fn.args : ArgError(fn.args[i], passed[i]) # "none"}
    IN IF bad = {} THEN "none"
       ELSE LET i == CHOOSE i \in bad : \A j \in bad : i <= j
            IN ArgError(fn.args[i], passed[i])

\* run_ffi_safe: what the function comes to.  "error" stands for any error of
\* the crate, here one that decoding gives.
run_ffi_safe(fn, passed, body) ==
    IF FirstError(fn, passed) # "none" THEN FirstError(fn, passed)
    ELSE CASE body = "panic" -> "UnexpectedPanic"
           [] body = "error" -> "ProtobufDecodingError"
           [] OTHER -> "none"

\* box_object, box_optional_object, write_bytearray_to, write_cstr_to and
\* write_uint32_to: the result i, at the address m.
Write(out, body, m) ==
    CASE out \in {"object", "bytes", "string"} -> m
      [] out = "optional" -> IF body = "none" THEN nil ELSE m
      [] OTHER -> "value"

Outs(fn, body, m) == [i \in DOMAIN fn.outs |-> Write(fn.outs[i], body, m[i])]

Addresses(outs) == {outs[i] : i \in DOMAIN outs} \cap Memory

\* try! in Swift: the clones of ClonableHandleOwner, PublicKey.compare and the
\* parts of an address and of a sender key name.
TryNoThrow ==
    {"signal_publickey_compare", "signal_address_get_name", "signal_address_get_device_id",
     "signal_sender_key_name_get_group_id", "signal_sender_key_name_get_sender_name",
     "signal_sender_key_name_get_sender_device_id"}

\* The functions, and whether Swift calls them under try!.
Functions ==
    LET api == Api
    IN {[fn |-> api[f], tried |-> f \in TryNoThrow \/ api[f] = clone] : f \in DOMAIN api}
----------------------------------------------------------------------------
Init ==
    /\ heap = {} /\ owned = {} /\ call = <<>>
    /\ thrown = "none" /\ trapped = FALSE

\* The arguments a call may have: under try! they are good.
Arguments(fn, tried) ==
    {p \in [DOMAIN fn.args -> {"valid", "null", "empty", "not UTF-8"}] :
        \A i \in DOMAIN p : p[i] \in Passed(fn.args[i]) /\ (tried => p[i] = "valid")}

\* The C function runs; its memory is on the heap when it returns.
Invoke(fn, tried) ==
    /\ call = <<>> /\ Cardinality(owned) + Len(fn.outs) <= MaxOwned
    /\ \E end \in {[error |-> run_ffi_safe(fn, passed, body), body |-> body] :
                      passed \in Arguments(fn, tried), body \in fn.body},
          m \in {s \in [1 .. 2 -> Memory \ heap] : s[1] # s[2]} :
          LET ok == end.error = "none"
              outs == IF ok THEN Outs(fn, end.body, m) ELSE [i \in DOMAIN fn.outs |-> nil]
          IN /\ call' = << [kinds |-> fn.outs, tried |-> tried,
                            pc |-> IF ok THEN "returned" ELSE "failed",
                            outs |-> outs, code |-> SignalErrorCode(end.error),
                            error |-> IF ok THEN nil ELSE m[1], message |-> nil] >>
             /\ heap' = heap \cup (IF ok THEN Addresses(outs) ELSE {m[1]})
    /\ thrown' = "none"
    /\ UNCHANGED <<owned, trapped>>

\* checkError asks for the message of the error ...
GetMessage ==
    /\ call # <<>> /\ call[1].pc = "failed"
    /\ \E m \in Memory \ heap :
          /\ heap' = heap \cup {m}
          /\ call' = <<[call[1] EXCEPT !.pc = "message", !.message = m]>>
    /\ UNCHANGED <<owned, thrown, trapped>>

\* ... invokeFnReturningString copies and frees it ...
FreeMessage ==
    /\ call # <<>> /\ call[1].pc = "message"
    /\ heap' = heap \ {call[1].message}
    /\ call' = <<[call[1] EXCEPT !.pc = "copied", !.message = nil]>>
    /\ UNCHANGED <<owned, thrown, trapped>>

\* Mutant: the error is not freed.
Throw_Kept ==
    /\ call # <<>> /\ call[1].pc = "copied"
    /\ thrown' = checkError(call[1].code)
    /\ trapped' = (trapped \/ call[1].tried)
    /\ call' = <<>>
    /\ UNCHANGED <<heap, owned>>

\* ... and the error is freed and thrown as a Swift error.
Throw ==
    /\ call # <<>> /\ call[1].pc = "copied"
    /\ heap' = heap \ {call[1].error}
    /\ thrown' = checkError(call[1].code)
    /\ trapped' = (trapped \/ call[1].tried)
    /\ call' = <<>>
    /\ UNCHANGED owned

Kinds(k) == {i \in DOMAIN call[1].outs : call[1].kinds[i] \in k}

\* The caller unwraps what it was given: objects get wrappers, buffers and
\* strings are copied.
Take ==
    /\ call # <<>> /\ call[1].pc = "returned"
    /\ owned' = owned \cup ({call[1].outs[i] : i \in Kinds({"object", "optional"})} \ {nil})
    /\ trapped' = (trapped \/ \E i \in Kinds({"object", "string"}) : call[1].outs[i] = nil)
    /\ call' = IF Kinds({"bytes", "string"}) = {} THEN <<>>
               ELSE <<[call[1] EXCEPT !.pc = "copying"]>>
    /\ UNCHANGED <<heap, thrown>>

\* signal_free_buffer, signal_free_string.
FreeResult ==
    /\ call # <<>> /\ call[1].pc = "copying"
    /\ heap' = heap \ Addresses(call[1].outs)
    /\ call' = <<>>
    /\ UNCHANGED <<owned, thrown, trapped>>

\* ffi_fn_destroy, when the last reference to a wrapper goes.
Destroy(o) ==
    /\ call = <<>>
    /\ o \in owned
    /\ owned' = owned \ {o} /\ heap' = heap \ {o}
    /\ UNCHANGED <<call, thrown, trapped>>

Next ==
    \/ \E f \in Functions : Invoke(f.fn, f.tried)
    \/ GetMessage \/ FreeMessage \/ Throw
    \/ Take \/ FreeResult
    \/ \E o \in owned : Destroy(o)

Spec == Init /\ [][Next]_vars
----------------------------------------------------------------------------
\* Every piece of memory has one owner: when no call is under way the heap holds
\* the objects of the wrappers and nothing else, during a call also what the call
\* still has to free, and no call hands out memory twice.
OwnedOnce ==
    /\ heap = owned \cup
              (IF call = <<>> THEN {}
               ELSE (Addresses(call[1].outs) \cup {call[1].error, call[1].message}) \ {nil})
    /\ call # <<>> =>
           /\ call[1].pc = "returned" => Addresses(call[1].outs) \cap owned = {}
           /\ \A i, j \in DOMAIN call[1].outs :
                 i # j /\ call[1].outs[i] \in Memory => call[1].outs[i] # call[1].outs[j]

\* No force unwrap finds nil, and no try! meets an error.
NeverTraps == ~trapped
=============================================================================
