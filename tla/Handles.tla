------------------------------ MODULE Handles ------------------------------
(***************************************************************************)
(* Who owns the native objects behind the Swift API.  A Swift object       *)
(* (ClonableHandleOwner) owns a handle, has borrowed one, or has none; it  *)
(* goes when nothing refers to it any more, and frees the handle it owns.  *)
(* A native call keeps what it loads, and lends handles to the store       *)
(* callbacks, whose shims wrap them.  Application code runs outside native *)
(* calls and inside callbacks, where it may keep the objects it was given  *)
(* and call the library again.  Everything happens on one thread.          *)
(*                                                                         *)
(* The store callbacks of the C bridge come first: what each one is lent by *)
(* Rust, and what the Rust side makes of the integer it returns and of the *)
(* pointer it hands over.  Swift's shims (Utils.swift) return 0 or 1, and  *)
(* -1 when the application's store throws.                                 *)
(***************************************************************************)
EXTENDS Integers, Sequences

CONSTANTS Handles,    \* addresses of native objects
          NoHandle,   \* the null pointer
          Objects,    \* Swift objects
          NoObject,
          MaxDepth    \* bound: native calls within one another

ASSUME HandlesAssumption == NoHandle \notin Handles /\ NoObject \notin Objects /\ MaxDepth \in Nat

VARIABLES obj,        \* the Swift objects: their handle and who refers to them
          live,       \* the native objects allocated and not freed
          frames,     \* the native calls in progress, innermost last
          trapped     \* whether a precondition of ClonableHandleOwner failed

swiftVars == <<obj, live, frames, trapped>>
----------------------------------------------------------------------------
\* The callbacks that hand an object over, those that are lent one to store or to
\* check, and those that only exchange integers.
Loads == {"get_identity_key_pair", "get_identity", "load_pre_key",
          "load_signed_pre_key", "load_session", "load_sender_key"}
Stores == {"save_identity", "is_trusted_identity", "store_pre_key",
           "store_signed_pre_key", "store_session", "store_sender_key"}

Plain == {"get_local_registration_id", "remove_pre_key"}

Callbacks == Loads \cup Stores \cup Plain

\* The address or name of the call, and a record or key that Rust owns.
LendsArgument(op) == op \in {"get_identity", "save_identity", "is_trusted_identity",
                             "load_session", "store_session",
                             "load_sender_key", "store_sender_key"}
LendsRecord(op) == op \in Stores

\* Loads whose Swift signature lets the store answer nil.
Optional(op) == op \in {"get_identity", "load_session", "load_sender_key"}

\* The integers a shim answers when the store does not throw.
Answers(op) == IF op \in {"save_identity", "is_trusted_identity"} THEN {0, 1} ELSE {0}

CallbackError == "ApplicationCallbackReturnedIntegerError"

get_identity_key_pair(result, key) ==
    IF result # 0 THEN CallbackError
    ELSE IF key = NoHandle THEN "InternalError" ELSE "ok"

get_identity(result, key) == IF result # 0 THEN CallbackError ELSE "ok"

get_pre_key(result, record) ==
    IF result # 0 THEN CallbackError
    ELSE IF record = NoHandle THEN "InvalidPreKeyId" ELSE "ok"

get_signed_pre_key(result, record) ==
    IF result # 0 THEN CallbackError
    ELSE IF record = NoHandle THEN "InvalidSignedPreKeyId" ELSE "ok"

load_session(result, record) == IF result # 0 THEN CallbackError ELSE "ok"

load_sender_key(result, record) == IF result # 0 THEN CallbackError ELSE "ok"

save_identity(result) == IF result \in {0, 1} THEN "ok" ELSE CallbackError

\* Mutant: whatever is not 0 is true, as in C.
is_trusted_identity_NonZero(result) == "ok"

is_trusted_identity(result) == IF result \in {0, 1} THEN "ok" ELSE CallbackError

get_local_registration_id(result) == IF result # 0 THEN CallbackError ELSE "ok"

remove_pre_key(result) == IF result # 0 THEN CallbackError ELSE "ok"

save_pre_key(result) == IF result # 0 THEN CallbackError ELSE "ok"

save_signed_pre_key(result) == IF result # 0 THEN CallbackError ELSE "ok"

store_session(result) == IF result # 0 THEN CallbackError ELSE "ok"

store_sender_key(result) == IF result # 0 THEN CallbackError ELSE "ok"

\* What the call goes on with after the callback op.
outcome(op, result, pointer) ==
    CASE op = "get_identity_key_pair" -> get_identity_key_pair(result, pointer)
      [] op = "get_identity" -> get_identity(result, pointer)
      [] op = "load_pre_key" -> get_pre_key(result, pointer)
      [] op = "load_signed_pre_key" -> get_signed_pre_key(result, pointer)
      [] op = "load_session" -> load_session(result, pointer)
      [] op = "load_sender_key" -> load_sender_key(result, pointer)
      [] op = "save_identity" -> save_identity(result)
      [] op = "is_trusted_identity" -> is_trusted_identity(result)
      [] op = "get_local_registration_id" -> get_local_registration_id(result)
      [] op = "remove_pre_key" -> remove_pre_key(result)
      [] op = "store_pre_key" -> save_pre_key(result)
      [] op = "store_signed_pre_key" -> save_signed_pre_key(result)
      [] op = "store_session" -> store_session(result)
      [] op = "store_sender_key" -> store_sender_key(result)
----------------------------------------------------------------------------

\* References are held by the application, by its store, by the argument of the
\* n-th native call, and by the variables of the shim it called back.
App == <<"app", 0>>
Store == <<"store", 0>>
Argument(n) == <<"argument", n>>
Lent(n) == <<"lent", n>>
Loaded(n) == <<"loaded", n>>
Gone == [kind |-> "nil", handle |-> NoHandle, refs |-> {}]
Owning(h, refs) == [kind |-> "owned", handle |-> h, refs |-> refs]
Borrowing(h, refs) == [kind |-> "borrowed", handle |-> h, refs |-> refs]

Exists(o) == obj[o].refs # {}
Unique(o) == \E holder \in obj[o].refs : obj[o].refs = {holder}

depth == Len(frames)
Top == frames[depth]
Become(f) == frames' = [frames EXCEPT ![depth] = f]

\* Application code runs: no native call, or a callback of the innermost one.
AppRuns == depth > 0 => Top.pc = "body"

\* The objects application code can name: its own, its store's, and the
\* arguments of the callback.
Known(o) == obj[o].refs \cap {App, Store} # {} \/ (depth > 0 /\ o \in Top.lent)

SwiftInit ==
    /\ obj = [o \in Objects |-> Gone]
    /\ live = {} /\ frames = <<>> /\ trapped = "no"

Frame(arg) == [pc |-> "rust", own |-> {}, arg |-> arg, op |-> "none", lent |-> {},
               loaded |-> NoObject, code |-> 0, out |-> NoHandle]
-----------------------------------------------------------------------------
\* Native objects are allocated by box_object, also for the signal_*_clone
\* functions, and freed by the signal_*_destroy functions.
box_object(h) == h \in Handles \ live /\ live' = live \cup {h}
clone(h) == box_object(h)
destroy(handles) == live' = live \ handles

\* The holder's reference to o goes; deinit runs when it was the last one.
Owned(o) == IF obj[o].kind = "owned" THEN {obj[o].handle} ELSE {}
Without(o, holder) == [obj[o] EXCEPT !.refs = @ \ {holder}]

Release(o, holder) ==
    LET last == obj[o].refs = {holder} IN
    /\ obj' = [obj EXCEPT ![o] = IF last THEN Gone ELSE Without(o, holder)]
    /\ destroy(IF last THEN Owned(o) ELSE {})
    /\ trapped' = IF last /\ obj[o].kind = "borrowed" THEN "yes" ELSE trapped

\* A constructor or a deserialiser allocates: init(owned:).
New ==
    /\ AppRuns
    /\ \E o \in Objects, h \in Handles :
         /\ ~Exists(o)
         /\ obj' = [obj EXCEPT ![o] = Owning(h, {App})]
         /\ box_object(h)
    /\ UNCHANGED <<frames, trapped>>

\* The application or its store keeps an object, for instance in a dictionary.
Retain(o, holder) ==
    /\ AppRuns /\ Known(o)
    /\ obj' = [obj EXCEPT ![o].refs = @ \cup {holder}]
    /\ UNCHANGED <<live, frames, trapped>>

\* It forgets one: a variable ends, an entry is removed or replaced.
LetGo(o, holder) ==
    /\ AppRuns /\ holder \in obj[o].refs
    /\ Release(o, holder)
    /\ UNCHANGED frames
-----------------------------------------------------------------------------
\* signalEncrypt and the like, with o as the address or the name.
StartCall(o) ==
    /\ AppRuns /\ depth < MaxDepth /\ Known(o)
    /\ frames' = Append(frames, Frame(o))
    /\ obj' = [obj EXCEPT ![o].refs = @ \cup {Argument(depth + 1)}]
    /\ UNCHANGED <<live, trapped>>

\* Rust makes a record, a key or a message of its own.
Create ==
    /\ depth > 0 /\ Top.pc = "rust" /\ Top.own = {}
    /\ \E h \in Handles : Become([Top EXCEPT !.own = {h}]) /\ box_object(h)
    /\ UNCHANGED <<obj, trapped>>

\* The shim of op wraps each handle it is lent in a new object, borrowing.
Borrow(op, wrapped) ==
    /\ \A g, h \in DOMAIN wrapped : wrapped[g] = wrapped[h] => g = h
    /\ obj' = [o \in Objects |->
                 IF \E h \in DOMAIN wrapped : wrapped[h] = o
                 THEN Borrowing(CHOOSE h \in DOMAIN wrapped : wrapped[h] = o, {Lent(depth)})
                 ELSE obj[o]]
    /\ Become([Top EXCEPT !.pc = "body", !.op = op,
                          !.lent = {wrapped[h] : h \in DOMAIN wrapped}])

\* Rust calls back, lending its argument and a record of its own.
CallBack(op) ==
    /\ depth > 0 /\ Top.pc = "rust"
    /\ \E handles \in {IF LendsArgument(op) THEN {obj[Top.arg].handle} ELSE {}},
          records \in IF LendsRecord(op) THEN {{h} : h \in Top.own} ELSE {{}} :
       \E wrapped \in [handles \cup records -> {o \in Objects : ~Exists(o)}] :
         Borrow(op, wrapped)
    /\ UNCHANGED <<live, trapped>>

\* The store's method returns an object it or the application has.
Answer(o) ==
    /\ depth > 0 /\ Top.pc = "body" /\ Top.op \in Loads
    /\ Known(o) /\ o \notin Top.lent
    /\ obj' = [obj EXCEPT ![o].refs = @ \cup {Loaded(depth)}]
    /\ Become([Top EXCEPT !.pc = "convert", !.loaded = o])
    /\ UNCHANGED <<live, trapped>>

\* The store's method returns an object that nothing else refers to.
AnswerNew ==
    /\ depth > 0 /\ Top.pc = "body" /\ Top.op \in Loads
    /\ \E o \in Objects, h \in Handles :
         /\ ~Exists(o)
         /\ obj' = [obj EXCEPT ![o] = Owning(h, {Loaded(depth)})]
         /\ box_object(h)
         /\ Become([Top EXCEPT !.pc = "convert", !.loaded = o])
    /\ UNCHANGED trapped

\* It returns nil, or nothing, or whether the key changed or is trusted.
AnswerPlain ==
    /\ depth > 0 /\ Top.pc = "body"
    /\ Top.op \in Loads => Optional(Top.op)
    /\ \E result \in Answers(Top.op) : Become([Top EXCEPT !.pc = "defer", !.code = result])
    /\ UNCHANGED <<obj, live, trapped>>

\* It throws: the shim answers -1.
Throw ==
    /\ depth > 0 /\ Top.pc = "body"
    /\ Become([Top EXCEPT !.pc = "defer", !.code = -1])
    /\ UNCHANGED <<obj, live, trapped>>
-----------------------------------------------------------------------------
\* cloneOrTakeHandle: the handle of an object that only the shim refers to is
\* taken out of it, any other is cloned; then the shim's variable ends.
cloneOrTakeHandle ==
    LET o == Top.loaded IN
    /\ depth > 0 /\ Top.pc = "convert"
    /\ \/ /\ Unique(o)
          /\ Become([Top EXCEPT !.pc = "defer", !.loaded = NoObject, !.out = obj[o].handle])
          /\ obj' = [obj EXCEPT ![o] = Gone]
          /\ trapped' = IF obj[o].kind = "borrowed" THEN "yes" ELSE trapped
          /\ UNCHANGED live
       \/ /\ ~Unique(o)
          /\ \E h \in Handles :
               /\ Become([Top EXCEPT !.pc = "defer", !.loaded = NoObject, !.out = h])
               /\ clone(h)
          /\ obj' = [obj EXCEPT ![o].refs = @ \ {Loaded(depth)}]
          /\ UNCHANGED trapped

\* Mutant: the object keeps what it borrowed when others refer to it.
cloneOrForgetAsNeeded_Keeps(o) ==
    /\ Become([Top EXCEPT !.lent = @ \ {o}])
    /\ obj' = [obj EXCEPT ![o] =
                 IF Unique(o) THEN Gone ELSE Without(o, Lent(depth))]
    /\ UNCHANGED <<live, trapped>>

\* cloneOrForgetAsNeeded, when the shim is left: an object only the shim refers
\* to forgets what it borrowed, any other gets a clone of its own.
cloneOrForgetAsNeeded(o) ==
    /\ Become([Top EXCEPT !.lent = @ \ {o}])
    /\ trapped' = IF obj[o].kind = "borrowed" THEN trapped ELSE "yes"
    /\ \/ /\ Unique(o)
          /\ obj' = [obj EXCEPT ![o] = Gone]
          /\ UNCHANGED live
       \/ /\ ~Unique(o)
          /\ \E h \in Handles :
               /\ obj' = [obj EXCEPT ![o] = Owning(h, @.refs \ {Lent(depth)})]
               /\ clone(h)

\* Mutant: the shim is left without cloneOrForgetAsNeeded.
Defer_Omitted ==
    /\ depth > 0 /\ Top.pc = "defer"
    /\ \E o \in Top.lent :
         Become([Top EXCEPT !.lent = @ \ {o}]) /\ Release(o, Lent(depth))

\* The defer block of the shim, for each object that it wrapped.
Defer == /\ depth > 0 /\ Top.pc = "defer"
         /\ \E o \in Top.lent : cloneOrForgetAsNeeded(o)

\* Mutant: the pointer is looked at only for a required object.
Back_Ignores ==
    /\ depth > 0 /\ Top.pc = "defer" /\ Top.lent = {}
    /\ Become([Top EXCEPT !.pc = IF outcome(Top.op, Top.code, Top.out) = "ok"
                                 THEN "rust" ELSE "failed",
                          !.op = "none", !.code = 0, !.out = NoHandle,
                          !.own = IF Optional(Top.op) THEN @ ELSE @ \cup ({Top.out} \ {NoHandle})])
    /\ UNCHANGED <<obj, live, trapped>>

\* Back in Rust: Box::from_raw takes what was handed over, an error ends the call.
Back ==
    LET ok == outcome(Top.op, Top.code, Top.out) = "ok" IN
    /\ depth > 0 /\ Top.pc = "defer" /\ Top.lent = {}
    /\ Become([Top EXCEPT !.pc = IF ok THEN "rust" ELSE "failed",
                          !.op = "none", !.code = 0, !.out = NoHandle,
                          !.own = IF ok THEN @ \cup ({Top.out} \ {NoHandle}) ELSE @])
    /\ UNCHANGED <<obj, live, trapped>>

\* The call ends: Rust drops all it owns, the argument is no longer needed.
EndCall ==
    LET o == Top.arg last == obj[o].refs = {Argument(depth)} IN
    /\ depth > 0 /\ Top.pc \in {"rust", "failed"}
    /\ frames' = SubSeq(frames, 1, depth - 1)
    /\ obj' = [obj EXCEPT ![o] = IF last THEN Gone ELSE Without(o, Argument(depth))]
    /\ destroy(Top.own \cup (IF last THEN Owned(o) ELSE {}))
    /\ trapped' = IF last /\ obj[o].kind = "borrowed" THEN "yes" ELSE trapped

\* The result leaves Rust in a box, and a Swift object takes it.
HandOver ==
    /\ depth > 0 /\ Top.pc = "rust"
    /\ \E h \in Top.own, o \in Objects :
         /\ ~Exists(o)
         /\ obj' = [obj EXCEPT ![o] = Owning(h, {App})]
         /\ Become([Top EXCEPT !.own = @ \ {h}, !.pc = "failed"])
    /\ UNCHANGED <<live, trapped>>

SwiftNext ==
    \/ New
    \/ \E o \in Objects, holder \in {App, Store} : Retain(o, holder) \/ LetGo(o, holder)
    \/ \E o \in Objects : StartCall(o) \/ Answer(o)
    \/ \E op \in Callbacks : CallBack(op)
    \/ Create \/ AnswerNew \/ AnswerPlain \/ Throw
    \/ cloneOrTakeHandle \/ Defer \/ Back \/ EndCall \/ HandOver

SwiftSpec == SwiftInit /\ [][SwiftNext]_swiftVars
-----------------------------------------------------------------------------
\* The native objects the calls in progress hold.
InCalls == (UNION {frames[i].own \cup {frames[i].out} : i \in 1..depth}) \ {NoHandle}

\* Whatever refers to a Swift object can use it: its handle is there and not
\* freed, in a callback, after it and after the call that lent the handle.
SwiftUsable == \A o \in Objects : Exists(o) => obj[o].handle \in live

\* Every native object has one owner, a Swift object or a call in progress, that
\* will free it: none leaks and none is freed twice, whoever keeps a lent object.
SwiftOwnedOnce ==
    /\ live = InCalls \cup (UNION {Owned(o) : o \in Objects})
    /\ \A o, q \in Objects : Owned(o) \cap Owned(q) # {} => o = q
    /\ \A o \in Objects : Owned(o) \cap InCalls = {}
    /\ \A i, j \in 1..depth : frames[i].own \cap frames[j].own # {} => i = j
    /\ \A i, j \in 1..depth : frames[i].out \notin frames[j].own

\* An error of the application's store ends the native call: no callback takes
\* it for an answer, and an answer is never taken for an error.
SwiftErrorsEndCalls ==
    [][depth > 0 /\ Top.pc = "defer" /\ Top.lent = {} =>
           frames'[depth].pc = (IF Top.code = -1 THEN "failed" ELSE "rust")]_swiftVars

\* The preconditions of ClonableHandleOwner hold: nothing that was borrowed is
\* taken, cloned twice, or still borrowed when its object goes.
SwiftNeverTraps == trapped = "no"
=============================================================================
