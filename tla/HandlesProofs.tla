---------------------------- MODULE HandlesProofs ---------------------------
(***************************************************************************)
(* The life of the native objects behind the Swift API, for any number of  *)
(* objects and addresses and any depth of calls within calls.              *)
(*                                                                         *)
(* That a Swift object can be used follows from no line of the shims: an   *)
(* object lent to a callback has borrowed its handle from a call further   *)
(* out, or from the argument of such a call, which may itself be borrowed. *)
(* The inductive invariant SwiftInv therefore says, of every frame, what   *)
(* the call holds at each step (Shapes); of every object, that the         *)
(* references calls have to it are those their frames tell of (Match); of  *)
(* every lent handle, that a call around the callback owns it or has the   *)
(* owning object as its argument (Rooted); and of every address, that it   *)
(* is alive exactly as long as it has an owner, and has only one           *)
(* (SoleOwner).                                                            *)
(***************************************************************************)
EXTENDS Handles, TLAPS

\* Who can refer to an object, the objects, the frames of native calls.
Holders == {"app", "store", "argument", "lent", "loaded"} \X Nat

SwiftObjects == [kind : {"nil", "owned", "borrowed"}, handle : Handles \cup {NoHandle},
                 refs : SUBSET Holders]

NativeCalls == [pc : {"rust", "body", "convert", "defer", "failed"},
                own : SUBSET Handles, arg : Objects, op : Callbacks \cup {"none"},
                lent : SUBSET Objects, loaded : Objects \cup {NoObject},
                code : {-1, 0, 1}, out : Handles \cup {NoHandle}]

\* The types of the variables.
SwiftTypes ==
    /\ obj \in [Objects -> SwiftObjects]
    /\ live \in SUBSET Handles
    /\ frames \in Seq(NativeCalls)

\* What a call holds at each step of a callback.
Shape(f) ==
    /\ f.pc \in {"rust", "failed"} => f.lent = {}
    /\ f.pc # "convert" => f.loaded = NoObject
    /\ f.pc = "convert" => f.loaded # NoObject
    /\ f.pc # "defer" => f.out = NoHandle /\ f.code = 0
    /\ f.pc \in {"body", "convert", "defer"} => f.op \in Callbacks
    /\ f.pc = "convert" => f.op \in Loads
    /\ f.pc = "defer" =>
         /\ f.code \in Answers(f.op) \cup {-1}
         /\ (f.op \in Loads /\ ~Optional(f.op) /\ f.code = 0) => f.out # NoHandle
         /\ f.out # NoHandle => f.op \in Loads /\ f.code = 0

\* Every frame is like that, and all but the innermost one are in a callback.
Shapes(fs) == \A i \in 1..Len(fs) : Shape(fs[i]) /\ (i # Len(fs) => fs[i].pc = "body")

\* The references that calls have to the object o are those that their frames
\* tell of; an object that nothing refers to is gone; and the objects that have
\* borrowed their handle are the ones that a callback was lent.
Match(o, x, fs) ==
    /\ \A n \in Nat : /\ Argument(n) \in x.refs <=> n \in 1..Len(fs) /\ fs[n].arg = o
                      /\ Lent(n) \in x.refs <=> n \in 1..Len(fs) /\ o \in fs[n].lent
                      /\ Loaded(n) \in x.refs <=> n \in 1..Len(fs) /\ fs[n].loaded = o
    /\ x.refs = {} => x = Gone
    /\ x.refs # {} => x.kind # "nil"
    /\ x.kind = "owned" => x.handle \in Handles
    /\ x.kind = "borrowed" <=> \E n \in 1..Len(fs) : o \in fs[n].lent

\* An object is lent by one call only.
OneLender(fs) ==
    \A m, n \in 1..Len(fs) : \A o \in fs[m].lent : o \in fs[n].lent => m = n

\* A handle that was lent belongs to the call that lent it or to one around it,
\* or to the object that is the argument of such a call.
Root(ob, f, h) == \/ h \in f.own
                  \/ ob[f.arg].kind = "owned" /\ h = ob[f.arg].handle

\* Every lent handle has such a root, at the call that lent it or outside.
Rooted(ob, fs) ==
    \A n \in 1..Len(fs) : \A o \in fs[n].lent :
        \E k \in 1..n : Root(ob, fs[k], ob[o].handle)

\* The native object h is alive as long as it has an owner, and it has one only.
OwnedBy(x, h) == x.kind = "owned" /\ x.handle = h
\* ... or a call holds it: for itself, or to be returned to Rust.
HeldBy(f, h) == h \in f.own \/ h = f.out

\* It is alive exactly then, and only one object or one call owns it.
SoleOwner(ob, lv, fs, h) ==
    /\ h \in lv <=> \/ \E o \in Objects : OwnedBy(ob[o], h)
                    \/ \E i \in 1..Len(fs) : HeldBy(fs[i], h)
    /\ \A o, q \in Objects : OwnedBy(ob[o], h) /\ OwnedBy(ob[q], h) => o = q
    /\ \A o \in Objects, i \in 1..Len(fs) : ~(OwnedBy(ob[o], h) /\ HeldBy(fs[i], h))
    /\ \A i, j \in 1..Len(fs) : HeldBy(fs[i], h) /\ HeldBy(fs[j], h) => i = j
    /\ \A i \in 1..Len(fs) : h \in fs[i].own => h # fs[i].out

\* The inductive invariant.
SwiftInv ==
    /\ SwiftTypes /\ Shapes(frames)
    /\ \A o \in Objects : Match(o, obj[o], frames)
    /\ OneLender(frames) /\ Rooted(obj, frames)
    /\ \A h \in Handles : SoleOwner(obj, live, frames, h)
    /\ SwiftNeverTraps
-----------------------------------------------------------------------------
\* The objects after one of them has changed.
LEMMA ObjectChanged ==
    ASSUME SwiftTypes, NEW o \in Objects, NEW x \in SwiftObjects,
           obj' = [obj EXCEPT ![o] = x]
    PROVE  /\ obj' \in [Objects -> SwiftObjects]
           /\ obj'[o] = x
           /\ \A q \in Objects : q # o => obj'[q] = obj[q]
  BY DEF SwiftTypes

\* An object with other references.
With(o, refs) == [kind |-> obj[o].kind, handle |-> obj[o].handle, refs |-> refs]

\* Its handle and its kind stay.
LEMMA RefsChanged ==
    ASSUME SwiftTypes, NEW o \in Objects, NEW refs \in SUBSET Holders
    PROVE  /\ [obj[o] EXCEPT !.refs = refs] = With(o, refs)
           /\ With(o, refs) \in SwiftObjects
  BY DEF SwiftTypes, SwiftObjects, With

\* The calls after the innermost one has changed.
LEMMA CallChanged ==
    ASSUME SwiftTypes, depth > 0, NEW f \in NativeCalls, Become(f)
    PROVE  /\ depth \in Nat \ {0} /\ depth' = depth /\ frames' \in Seq(NativeCalls)
           /\ frames'[depth] = f
           /\ \A i \in 1..depth : i # depth => frames'[i] = frames[i]
  BY DEF SwiftTypes, Become, depth

-----------------------------------------------------------------------------
\* The holders of references are those of the model.
LEMMA HolderTypes ==
    /\ App \in Holders /\ Store \in Holders /\ App # Store
    /\ \A n \in Nat :
          /\ Argument(n) \in Holders /\ Lent(n) \in Holders /\ Loaded(n) \in Holders
          /\ Argument(n) # App /\ Lent(n) # App /\ Loaded(n) # App
          /\ Argument(n) # Store /\ Lent(n) # Store /\ Loaded(n) # Store
          /\ \A m \in Nat :
                /\ Argument(n) # Lent(m) /\ Argument(n) # Loaded(m) /\ Lent(n) # Loaded(m)
                /\ Argument(n) = Argument(m) => n = m
                /\ Lent(n) = Lent(m) => n = m
                /\ Loaded(n) = Loaded(m) => n = m
  BY DEF Holders, App, Store, Argument, Lent, Loaded

\* What application code can name exists.
LEMMA KnownExists ==
    ASSUME SwiftInv, NEW o \in Objects, Known(o)
    PROVE  obj[o].refs # {} /\ obj[o].kind # "nil"
<1>1. depth \in Nat /\ Match(o, obj[o], frames)
  BY DEF SwiftInv, SwiftTypes, depth
<1>2. CASE obj[o].refs \cap {App, Store} # {}
  BY <1>1, <1>2 DEF Match
<1>3. CASE depth > 0 /\ o \in Top.lent
  BY <1>1, <1>3 DEF Match, Top, depth
<1> QED BY <1>2, <1>3 DEF Known

\* The objects of a call: its argument, what it was lent and what it loaded.
LEMMA CallObjects ==
    ASSUME SwiftInv, NEW n \in 1..Len(frames)
    PROVE  /\ n \in Nat /\ frames[n] \in NativeCalls /\ Shape(frames[n])
           /\ frames[n].arg \in Objects /\ Argument(n) \in obj[frames[n].arg].refs
           /\ \A q \in frames[n].lent :
                q \in Objects /\ Lent(n) \in obj[q].refs /\ obj[q].kind = "borrowed"
<1>1. n \in Nat /\ frames[n] \in NativeCalls /\ Shape(frames[n])
  BY DEF SwiftInv, SwiftTypes, Shapes
<1>2. frames[n].arg \in Objects /\ frames[n].lent \in SUBSET Objects
  BY <1>1 DEF NativeCalls
<1>3. Argument(n) \in obj[frames[n].arg].refs
  BY <1>1, <1>2 DEF SwiftInv, Match
<1>4. ASSUME NEW q \in frames[n].lent
      PROVE  q \in Objects /\ Lent(n) \in obj[q].refs /\ obj[q].kind = "borrowed"
  BY <1>1, <1>2 DEF SwiftInv, Match
<1> QED BY <1>1, <1>2, <1>3, <1>4

\* An object that nothing refers to.
LEMMA NotExists ==
    ASSUME SwiftInv, NEW o \in Objects, ~Exists(o)
    PROVE  /\ obj[o].refs = {} /\ obj[o].kind = "nil" /\ Match(o, obj[o], frames)
           /\ \A n \in 1..Len(frames) :
                 frames[n].arg # o /\ o \notin frames[n].lent /\ frames[n].loaded # o
<1>1. obj[o].refs = {} /\ Match(o, obj[o], frames)
  BY DEF Exists, SwiftInv
<1>2. obj[o] = Gone
  BY <1>1 DEF Match
<1>3. obj[o].kind = "nil"
  BY <1>2 DEF Gone
<1>4. ASSUME NEW n \in 1..Len(frames)
      PROVE  frames[n].arg # o /\ o \notin frames[n].lent /\ frames[n].loaded # o
  BY <1>1 DEF Match
<1> QED BY <1>1, <1>3, <1>4

\* A step that leaves the object's handle alone; or the object was the owning
\* argument of no call and is not on loan.
Steady(o) ==
    \/ obj'[o].kind = obj[o].kind /\ obj'[o].handle = obj[o].handle
    \/ /\ obj[o].kind = "owned" => \A n \in 1..Len(frames) : frames[n].arg # o
       /\ \A n \in 1..Len(frames) : o \notin frames'[n].lent

\* What is lent has one lender and stays rooted if calls lend nothing new, those
\* that lend keep what they own, and objects are steady.
LEMMA LoansStay ==
    ASSUME SwiftInv, Len(frames') = Len(frames),
           \A n \in 1..Len(frames) :
              /\ frames'[n].arg = frames[n].arg /\ frames'[n].lent \subseteq frames[n].lent
              /\ \/ frames[n].own \subseteq frames'[n].own
                 \/ n = Len(frames) /\ frames[n].lent = {},
           \A o \in Objects : Steady(o)
    PROVE  OneLender(frames') /\ Rooted(obj', frames')
<1>1. OneLender(frames')
  BY DEF SwiftInv, OneLender
<1>2. ASSUME NEW n \in 1..Len(frames), NEW q \in frames'[n].lent
      PROVE  \E k \in 1..n : Root(obj', frames'[k], obj'[q].handle)
  <2>1. Len(frames) \in Nat /\ q \in frames[n].lent /\ q \in Objects
    BY CallObjects DEF SwiftInv, SwiftTypes
  <2>2. obj'[q].handle = obj[q].handle
    BY <2>1 DEF Steady
  <2>3. PICK k \in 1..n : Root(obj, frames[k], obj[q].handle)
    BY <2>1 DEF SwiftInv, Rooted
  <2>4. k \in 1..Len(frames) /\ frames[k].arg \in Objects /\ frames'[k].arg = frames[k].arg
    BY <2>1, CallObjects
  <2>5. frames[k].own \subseteq frames'[k].own
    BY <2>1, <2>4
  <2>6. Steady(frames[k].arg)
    BY <2>4
  <2>7. Root(obj', frames'[k], obj'[q].handle)
    BY <2>2, <2>3, <2>4, <2>5, <2>6 DEF Root, Steady
  <2> QED BY <2>7
<1> QED BY <1>1, <1>2 DEF Rooted

\* The references to an object match the calls after a step that changes none of
\* them.
LEMMA MatchStays ==
    ASSUME NEW q, NEW x, NEW fs, NEW fs2, Match(q, x, fs), Len(fs2) = Len(fs),
           \A n \in 1..Len(fs) : /\ fs2[n].arg = fs[n].arg
                                 /\ q \in fs2[n].lent <=> q \in fs[n].lent
                                 /\ fs2[n].loaded = q <=> fs[n].loaded = q
    PROVE  Match(q, x, fs2)
<1>1. \A n \in Nat : /\ Argument(n) \in x.refs <=> n \in 1..Len(fs2) /\ fs2[n].arg = q
                     /\ Lent(n) \in x.refs <=> n \in 1..Len(fs2) /\ q \in fs2[n].lent
                     /\ Loaded(n) \in x.refs <=> n \in 1..Len(fs2) /\ fs2[n].loaded = q
  BY DEF Match
<1>2. /\ x.refs = {} => x = Gone
      /\ x.refs # {} => x.kind # "nil"
      /\ x.kind = "owned" => x.handle \in Handles
      /\ x.kind = "borrowed" <=> \E n \in 1..Len(fs2) : q \in fs2[n].lent
  BY DEF Match
<1> QED BY <1>1, <1>2 DEF Match
-----------------------------------------------------------------------------
\* A step of the application that changes one object.
LEMMA ObjectStep ==
    ASSUME SwiftInv, frames' = frames, trapped' = trapped, live' \in SUBSET Handles,
           NEW o \in Objects, NEW x \in SwiftObjects,
           obj' = [obj EXCEPT ![o] = x], Match(o, x, frames),
           \/ x.kind = obj[o].kind /\ x.handle = obj[o].handle
           \/ \A n \in Nat : Argument(n) \notin obj[o].refs /\ Lent(n) \notin obj[o].refs,
           \A h \in Handles : SoleOwner(obj', live', frames, h)
    PROVE  SwiftInv'
<1>1. /\ obj' \in [Objects -> SwiftObjects]
      /\ obj'[o] = x
      /\ \A q \in Objects : q # o => obj'[q] = obj[q]
  BY ObjectChanged DEF SwiftInv
<1>2. SwiftTypes'
  BY <1>1 DEF SwiftInv, SwiftTypes
<1>3. ASSUME NEW q \in Objects PROVE Match(q, obj'[q], frames)
  BY <1>1 DEF SwiftInv
<1>4. ASSUME NEW q \in Objects PROVE Steady(q)
  <2>1. CASE q = o
    <3>1. CASE x.kind = obj[o].kind /\ x.handle = obj[o].handle
      BY <1>1, <2>1, <3>1 DEF Steady
    <3>2. CASE \A n \in Nat : Argument(n) \notin obj[o].refs /\ Lent(n) \notin obj[o].refs
      <4>1. \A n \in 1..Len(frames) : frames[n].arg # o /\ o \notin frames[n].lent
        BY <3>2, CallObjects
      <4> QED BY <2>1, <4>1 DEF Steady
    <3> QED BY <3>1, <3>2
  <2>2. CASE q # o
    BY <1>1, <2>2 DEF Steady
  <2> QED BY <2>1, <2>2
<1>5. OneLender(frames') /\ Rooted(obj', frames')
  BY <1>4, LoansStay
<1> QED BY <1>2, <1>3, <1>5 DEF SwiftInv, SwiftNeverTraps

\* A new object that owns a new handle.
LEMMA NewInv == SwiftInv /\ New => SwiftInv'
<1> SUFFICES ASSUME SwiftInv, New PROVE SwiftInv'
  OBVIOUS
<1>1. PICK o \in Objects, h \in Handles :
         /\ ~Exists(o) /\ h \notin live
         /\ obj' = [obj EXCEPT ![o] = Owning(h, {App})]
         /\ live' = live \cup {h}
  BY DEF New, box_object
<1>2. frames' = frames /\ trapped' = trapped /\ live' \in SUBSET Handles
  BY <1>1 DEF New, SwiftInv, SwiftTypes
<1> DEFINE x == Owning(h, {App})
<1>3. /\ x \in SwiftObjects
      /\ x.kind = "owned" /\ x.handle = h /\ x.refs = {App}
  BY HolderTypes DEF Owning, SwiftObjects
<1>4. obj' = [obj EXCEPT ![o] = x]
  BY <1>1
<1> HIDE DEF x
<1>5. obj'[o] = x /\ \A q \in Objects : q # o => obj'[q] = obj[q]
  BY <1>3, <1>4, ObjectChanged DEF SwiftInv
<1>6. obj[o].refs = {} /\ obj[o].kind = "nil" /\ Match(o, obj[o], frames)
  BY <1>1, NotExists
<1>7. Match(o, x, frames)
  BY <1>3, <1>6, HolderTypes DEF Match
<1>8. ASSUME NEW y \in Handles PROVE SoleOwner(obj', live', frames, y)
  <2>1. SoleOwner(obj, live, frames, y)
    BY DEF SwiftInv
  <2>2. CASE y = h
    BY <1>1, <1>3, <1>5, <1>6, <2>1, <2>2 DEF SoleOwner, OwnedBy
  <2>3. CASE y # h
    BY <1>1, <1>3, <1>5, <1>6, <2>1, <2>3 DEF SoleOwner, OwnedBy
  <2> QED BY <2>2, <2>3
<1> QED BY <1>2, <1>3, <1>4, <1>6, <1>7, <1>8, ObjectStep


\* The application or its store keeps an object that it can name.
LEMMA KeepInv ==
    ASSUME SwiftInv, NEW o \in Objects, NEW holder \in {App, Store}, Retain(o, holder)
    PROVE  SwiftInv'
<1> DEFINE x == With(o, obj[o].refs \cup {holder})
<1>1. obj[o] \in SwiftObjects /\ obj[o].refs \in SUBSET Holders
  BY DEF SwiftInv, SwiftTypes, SwiftObjects
<1>2. x \in SwiftObjects /\ [obj[o] EXCEPT !.refs = obj[o].refs \cup {holder}] = x
  BY <1>1, RefsChanged, HolderTypes DEF SwiftInv
<1>3. /\ x.kind = obj[o].kind /\ x.handle = obj[o].handle /\ x.refs = obj[o].refs \cup {holder}
  BY <1>1 DEF With
<1>4. obj' = [obj EXCEPT ![o] = x] /\ obj \in [Objects -> SwiftObjects]
  BY <1>2 DEF Retain, SwiftInv, SwiftTypes
<1> HIDE DEF x
<1>5. obj'[o] = x /\ \A q \in Objects : q # o => obj'[q] = obj[q]
  BY <1>4
<1>6. obj[o].refs # {} /\ obj[o].kind # "nil" /\ Match(o, obj[o], frames)
  BY KnownExists DEF Retain, SwiftInv
<1>7. Match(o, x, frames)
  BY <1>3, <1>6, HolderTypes DEF Match
<1>8. frames' = frames /\ trapped' = trapped /\ live' = live /\ live \in SUBSET Handles
  BY DEF Retain, SwiftInv, SwiftTypes
<1>9. ASSUME NEW y \in Handles PROVE SoleOwner(obj', live', frames, y)
  <2>1. SoleOwner(obj, live, frames, y)
    BY DEF SwiftInv
  <2>2. \A q \in Objects : OwnedBy(obj'[q], y) <=> OwnedBy(obj[q], y)
    BY <1>3, <1>5 DEF OwnedBy
  <2> QED BY <1>8, <2>1, <2>2 DEF SoleOwner
<1> QED BY <1>2, <1>3, <1>4, <1>7, <1>8, <1>9, ObjectStep

\* The last reference of the application goes, or one of several.
LEMMA ForgetInv ==
    ASSUME SwiftInv, NEW o \in Objects, NEW holder \in {App, Store}, LetGo(o, holder)
    PROVE  SwiftInv'
<1> DEFINE last == obj[o].refs = {holder}
           x == IF last THEN Gone ELSE With(o, obj[o].refs \ {holder})
<1>1. /\ obj[o] \in SwiftObjects /\ obj[o].refs \in SUBSET Holders
      /\ holder \in obj[o].refs /\ obj \in [Objects -> SwiftObjects]
      /\ live \in SUBSET Handles /\ Match(o, obj[o], frames)
  BY DEF SwiftInv, SwiftTypes, SwiftObjects, LetGo
<1>2. [obj[o] EXCEPT !.refs = obj[o].refs \ {holder}] = With(o, obj[o].refs \ {holder})
  BY <1>1, RefsChanged DEF SwiftInv
<1>3. obj' = [obj EXCEPT ![o] = x]
  BY <1>2 DEF LetGo, Release, Without
<1>4. x \in SwiftObjects
  <2>1. CASE last
    BY <2>1 DEF Gone, SwiftObjects
  <2>2. CASE ~last
    BY <1>1, <2>2, RefsChanged DEF SwiftInv, With
  <2> QED BY <2>1, <2>2
<1>5. obj'[o] = x /\ \A q \in Objects : q # o => obj'[q] = obj[q]
  BY <1>1, <1>3
<1>6. frames' = frames
  BY DEF LetGo
<1>7. CASE last
  <2>1. \A n \in Nat : /\ Argument(n) \notin obj[o].refs /\ Lent(n) \notin obj[o].refs
                       /\ Loaded(n) \notin obj[o].refs
    BY <1>7, HolderTypes
  <2>2. obj[o].kind = "owned"
    BY <1>1, <1>7, <2>1 DEF Match, SwiftObjects
  <2>3. live' = live \ {obj[o].handle} /\ trapped' = trapped
    BY <1>7, <2>2 DEF LetGo, Release, destroy, Owned
  <2>4. x = Gone /\ x.refs = {} /\ x.kind = "nil"
    BY <1>7 DEF Gone
  <2> HIDE DEF x
  <2>5. Match(o, x, frames)
    BY <1>1, <2>1, <2>2, <2>4 DEF Match
  <2>6. ASSUME NEW y \in Handles PROVE SoleOwner(obj', live', frames, y)
    <3>1. SoleOwner(obj, live, frames, y)
      BY DEF SwiftInv
    <3>2. ~OwnedBy(obj'[o], y)
      BY <1>5, <2>4 DEF OwnedBy
    <3>3. CASE y = obj[o].handle
      BY <1>5, <2>2, <2>3, <3>1, <3>2, <3>3 DEF SoleOwner, OwnedBy
    <3>4. CASE y # obj[o].handle
      <4>1. ~OwnedBy(obj[o], y)
        BY <3>4 DEF OwnedBy
      <4> QED BY <1>5, <2>3, <3>1, <3>2, <3>4, <4>1 DEF SoleOwner
    <3> QED BY <3>3, <3>4
  <2> QED BY <1>1, <1>3, <1>4, <1>6, <2>1, <2>3, <2>5, <2>6, ObjectStep
<1>8. CASE ~last
  <2>1. /\ x.kind = obj[o].kind /\ x.handle = obj[o].handle
        /\ x.refs = obj[o].refs \ {holder} /\ x.refs # {}
    BY <1>1, <1>8 DEF With
  <2>2. live' = live /\ trapped' = trapped
    BY <1>8 DEF LetGo, Release, destroy
  <2> HIDE DEF x
  <2>3. Match(o, x, frames)
    BY <1>1, <2>1, HolderTypes DEF Match
  <2>4. ASSUME NEW y \in Handles PROVE SoleOwner(obj', live', frames, y)
    <3>1. SoleOwner(obj, live, frames, y)
      BY DEF SwiftInv
    <3>2. \A q \in Objects : OwnedBy(obj'[q], y) <=> OwnedBy(obj[q], y)
      BY <1>5, <2>1 DEF OwnedBy
    <3> QED BY <2>2, <3>1, <3>2 DEF SoleOwner
  <2> QED BY <1>1, <1>3, <1>4, <1>6, <2>1, <2>2, <2>3, <2>4, ObjectStep
<1> QED BY <1>7, <1>8

-----------------------------------------------------------------------------
\* The innermost call.
LEMMA TopCall ==
    ASSUME SwiftInv, depth > 0
    PROVE  /\ depth = Len(frames) /\ depth \in Nat \ {0} /\ depth \in 1..Len(frames)
           /\ Top = frames[depth] /\ Top \in NativeCalls /\ Shape(Top)
<1>1. depth = Len(frames) /\ depth \in Nat /\ depth \in 1..Len(frames)
  BY DEF SwiftInv, SwiftTypes, depth
<1> QED BY <1>1, CallObjects DEF Top

\* The owner of a handle that a step does not touch.
LEMMA OwnerStays ==
    ASSUME NEW ob, NEW lv, NEW fs, NEW ob2, NEW lv2, NEW fs2, NEW h,
           SoleOwner(ob, lv, fs, h), Len(fs2) = Len(fs), h \in lv2 <=> h \in lv,
           \A o \in Objects : OwnedBy(ob2[o], h) <=> OwnedBy(ob[o], h),
           \A i \in 1..Len(fs) : /\ HeldBy(fs2[i], h) <=> HeldBy(fs[i], h)
                                 /\ h \in fs2[i].own => h # fs2[i].out
    PROVE  SoleOwner(ob2, lv2, fs2, h)
  BY DEF SoleOwner

\* A step of the innermost call, f being the call after it.
LEMMA CallStep ==
    ASSUME SwiftInv, depth > 0, NEW f \in NativeCalls, Become(f), Shape(f),
           f.arg = Top.arg, f.lent \subseteq Top.lent,
           Top.own \subseteq f.own \/ Top.lent = {},
           trapped' = trapped, live' \in SUBSET Handles,
           obj' \in [Objects -> SwiftObjects],
           \A q \in Objects : Steady(q),
           \A q \in Objects : Match(q, obj'[q], frames'),
           \A h \in Handles : SoleOwner(obj', live', frames', h)
    PROVE  SwiftInv'
<1>1. /\ depth = Len(frames) /\ depth \in Nat \ {0} /\ depth \in 1..Len(frames)
      /\ Top = frames[depth]
  BY TopCall
<1>2. /\ Len(frames') = Len(frames) /\ frames' \in Seq(NativeCalls) /\ frames'[depth] = f
      /\ \A i \in 1..Len(frames) : i # depth => frames'[i] = frames[i]
  BY <1>1, CallChanged DEF SwiftInv, depth
<1>3. Shapes(frames')
  BY <1>1, <1>2 DEF SwiftInv, Shapes
<1>4. \A n \in 1..Len(frames) :
         /\ frames'[n].arg = frames[n].arg /\ frames'[n].lent \subseteq frames[n].lent
         /\ \/ frames[n].own \subseteq frames'[n].own
            \/ n = Len(frames) /\ frames[n].lent = {}
  BY <1>1, <1>2
<1>5. OneLender(frames') /\ Rooted(obj', frames')
  BY <1>2, <1>4, LoansStay
<1>6. SwiftTypes'
  BY <1>2 DEF SwiftTypes
<1> QED BY <1>3, <1>5, <1>6 DEF SwiftInv, SwiftNeverTraps

\* What such a step leaves as it was: the references to an object that it neither
\* loads nor gives back, and the owner of a handle that it does not hold.
LEMMA CallKeeps ==
    ASSUME SwiftInv, depth > 0, NEW f \in NativeCalls, Become(f), f.arg = Top.arg
    PROVE  /\ Len(frames') = Len(frames) /\ frames'[depth] = f
           /\ \A i \in 1..Len(frames) : i # depth => frames'[i] = frames[i]
           /\ \A q \in Objects :
                 (q \in f.lent <=> q \in Top.lent) /\ (f.loaded = q <=> Top.loaded = q)
                     => Match(q, obj[q], frames')
           /\ \A h \in Handles :
                 /\ (HeldBy(f, h) <=> HeldBy(Top, h)) /\ (h \in f.own => h # f.out)
                    /\ (h \in live' <=> h \in live)
                    /\ (\A q \in Objects : OwnedBy(obj'[q], h) <=> OwnedBy(obj[q], h))
                    => SoleOwner(obj', live', frames', h)
<1>1. /\ depth = Len(frames) /\ depth \in Nat \ {0} /\ depth \in 1..Len(frames)
      /\ Top = frames[depth]
  BY TopCall
<1>2. /\ Len(frames') = Len(frames) /\ frames'[depth] = f
      /\ \A i \in 1..Len(frames) : i # depth => frames'[i] = frames[i]
  BY <1>1, CallChanged DEF SwiftInv, depth
<1>3. ASSUME NEW q \in Objects, q \in f.lent <=> q \in Top.lent,
             f.loaded = q <=> Top.loaded = q
      PROVE  Match(q, obj[q], frames')
  <2>1. Match(q, obj[q], frames)
    BY DEF SwiftInv
  <2>2. \A n \in 1..Len(frames) : /\ frames'[n].arg = frames[n].arg
                                  /\ q \in frames'[n].lent <=> q \in frames[n].lent
                                  /\ frames'[n].loaded = q <=> frames[n].loaded = q
    BY <1>1, <1>2, <1>3
  <2> QED BY <1>2, <2>1, <2>2, MatchStays
<1>4. ASSUME NEW h \in Handles, HeldBy(f, h) <=> HeldBy(Top, h), h \in f.own => h # f.out,
             h \in live' <=> h \in live,
             \A q \in Objects : OwnedBy(obj'[q], h) <=> OwnedBy(obj[q], h)
      PROVE  SoleOwner(obj', live', frames', h)
  <2>1. SoleOwner(obj, live, frames, h)
    BY DEF SwiftInv
  <2>2. \A i \in 1..Len(frames) : h \in frames[i].own => h # frames[i].out
    BY <2>1 DEF SoleOwner
  <2>3. \A i \in 1..Len(frames) : /\ HeldBy(frames'[i], h) <=> HeldBy(frames[i], h)
                                  /\ h \in frames'[i].own => h # frames'[i].out
    BY <1>1, <1>2, <1>4, <2>2
  <2> QED BY <1>2, <1>4, <2>1, <2>3, OwnerStays
<1> QED BY <1>2, <1>3, <1>4


\* A step of the innermost call that changes no object.
LEMMA QuietCallStep ==
    ASSUME SwiftInv, depth > 0, NEW f \in NativeCalls, Become(f), Shape(f),
           f.arg = Top.arg, f.lent = Top.lent, f.loaded = Top.loaded,
           Top.own \subseteq f.own,
           obj' = obj, trapped' = trapped, live' \in SUBSET Handles,
           \A h \in Handles : SoleOwner(obj', live', frames', h)
    PROVE  SwiftInv'
<1>1. \A q \in Objects : Match(q, obj'[q], frames')
  BY CallKeeps
<1>2. \A q \in Objects : Steady(q)
  BY DEF Steady
<1>3. obj' \in [Objects -> SwiftObjects]
  BY DEF SwiftInv, SwiftTypes
<1> QED BY <1>1, <1>2, <1>3, CallStep

\* A handle that one call holds, or that one object owns, and nobody else.
LEMMA CallOwns ==
    ASSUME NEW ob, NEW lv, NEW fs, NEW h, NEW n \in 1..Len(fs), h \in lv, HeldBy(fs[n], h),
           h \in fs[n].own => h # fs[n].out,
           \A q \in Objects : ~OwnedBy(ob[q], h),
           \A i \in 1..Len(fs) : i # n => ~HeldBy(fs[i], h)
    PROVE  SoleOwner(ob, lv, fs, h)
<1>1. \A i \in 1..Len(fs) : h \in fs[i].own => h # fs[i].out
  BY DEF HeldBy
<1> QED BY <1>1 DEF SoleOwner

\* ... or because one object owns it.
LEMMA ObjectOwns ==
    ASSUME NEW ob, NEW lv, NEW fs, NEW h, NEW o \in Objects, h \in lv, OwnedBy(ob[o], h),
           \A q \in Objects : q # o => ~OwnedBy(ob[q], h),
           \A i \in 1..Len(fs) : ~HeldBy(fs[i], h)
    PROVE  SoleOwner(ob, lv, fs, h)
<1>1. \A i \in 1..Len(fs) : h \notin fs[i].own
  BY DEF HeldBy
<1> QED BY <1>1 DEF SoleOwner

\* Nobody has a handle that is not allocated.
LEMMA Unowned ==
    ASSUME SwiftInv, NEW h \in Handles, h \notin live
    PROVE  /\ \A q \in Objects : ~OwnedBy(obj[q], h)
           /\ \A i \in 1..Len(frames) : ~HeldBy(frames[i], h)
  BY DEF SwiftInv, SoleOwner

\* What a callback answered decides how the call goes on.
LEMMA Outcome ==
    ASSUME NEW f \in NativeCalls, Shape(f), f.pc = "defer"
    PROVE  outcome(f.op, f.code, f.out) = "ok" <=> f.code # -1
<1>1. f.op \in Callbacks /\ f.code \in {-1, 0, 1} /\ CallbackError # "ok"
  BY DEF Shape, NativeCalls, CallbackError
<1>2. CASE f.code = -1
  BY <1>1, <1>2 DEF Callbacks, Loads, Stores, Plain, outcome, get_identity_key_pair,
     get_identity, get_pre_key, get_signed_pre_key, load_session, load_sender_key,
     save_identity, is_trusted_identity, get_local_registration_id, remove_pre_key,
     save_pre_key, save_signed_pre_key, store_session, store_sender_key
<1>3. CASE f.code # -1
  <2>1. f.code \in Answers(f.op) /\ (f.op \in Loads /\ ~Optional(f.op) => f.out # NoHandle)
    BY <1>1, <1>3 DEF Shape, Answers, Loads
  <2> QED
    BY <1>1, <1>3, <2>1 DEF Callbacks, Loads, Stores, Plain, Optional, Answers, outcome,
       get_identity_key_pair,
       get_identity, get_pre_key, get_signed_pre_key, load_session, load_sender_key,
       save_identity, is_trusted_identity, get_local_registration_id, remove_pre_key,
       save_pre_key, save_signed_pre_key, store_session, store_sender_key
<1> QED BY <1>2, <1>3

\* The store answers without an object, or throws.
LEMMA AnswerPlainInv == SwiftInv /\ (AnswerPlain \/ Throw) => SwiftInv'
<1> SUFFICES ASSUME SwiftInv, AnswerPlain \/ Throw PROVE SwiftInv'
  OBVIOUS
<1>1. /\ depth > 0 /\ Top.pc = "body" /\ obj' = obj /\ live' = live /\ trapped' = trapped
  BY DEF AnswerPlain, Throw
<1>2. Top \in NativeCalls /\ Shape(Top)
  BY <1>1, TopCall
<1>3. PICK result \in Answers(Top.op) \cup {-1} :
         /\ Become([Top EXCEPT !.pc = "defer", !.code = result])
         /\ Top.op \in Loads => Optional(Top.op) \/ result = -1
  BY DEF AnswerPlain, Throw
<1> DEFINE f == [Top EXCEPT !.pc = "defer", !.code = result]
<1>4. result \in {-1, 0, 1}
  BY <1>3 DEF Answers
<1>5. /\ f \in NativeCalls /\ f.pc = "defer" /\ f.code = result /\ f.own = Top.own
      /\ f.arg = Top.arg /\ f.op = Top.op /\ f.lent = Top.lent /\ f.loaded = Top.loaded
      /\ f.out = Top.out
  BY <1>2, <1>4 DEF NativeCalls
<1>6. Become(f)
  BY <1>3
<1> HIDE DEF f
<1>7. Shape(f)
  BY <1>1, <1>2, <1>3, <1>5 DEF Shape
<1>8. ASSUME NEW h \in Handles PROVE SoleOwner(obj', live', frames', h)
  <2>1. (HeldBy(f, h) <=> HeldBy(Top, h)) /\ (h \in f.own => h # f.out)
    BY <1>1, <1>2, <1>5, HandlesAssumption DEF HeldBy, Shape
  <2> QED BY <1>1, <1>5, <1>6, <2>1, CallKeeps
<1>9. live' \in SUBSET Handles
  BY <1>1 DEF SwiftInv, SwiftTypes
<1> QED BY <1>1, <1>5, <1>6, <1>7, <1>8, <1>9, QuietCallStep

\* Rust makes an object of its own.
LEMMA CreateInv == SwiftInv /\ Create => SwiftInv'
<1> SUFFICES ASSUME SwiftInv, Create PROVE SwiftInv'
  OBVIOUS
<1>1. /\ depth > 0 /\ Top.pc = "rust" /\ Top.own = {} /\ obj' = obj /\ trapped' = trapped
  BY DEF Create
<1>2. Top \in NativeCalls /\ Shape(Top)
  BY <1>1, TopCall
<1>3. PICK h \in Handles : /\ Become([Top EXCEPT !.own = {h}])
                           /\ h \notin live /\ live' = live \cup {h}
  BY DEF Create, box_object
<1> DEFINE f == [Top EXCEPT !.own = {h}]
<1>4. /\ f \in NativeCalls /\ f.pc = "rust" /\ f.code = Top.code /\ f.own = {h}
      /\ f.arg = Top.arg /\ f.op = Top.op /\ f.lent = Top.lent /\ f.loaded = Top.loaded
      /\ f.out = Top.out /\ Become(f)
  BY <1>1, <1>2, <1>3 DEF NativeCalls
<1> HIDE DEF f
<1>5. Shape(f) /\ f.out = NoHandle
  BY <1>1, <1>2, <1>4 DEF Shape
<1>6. ASSUME NEW y \in Handles PROVE SoleOwner(obj', live', frames', y)
  <2>1. CASE y = h
    <3>2. /\ \A q \in Objects : ~OwnedBy(obj[q], h)
          /\ \A i \in 1..Len(frames) : ~HeldBy(frames[i], h)
      BY <1>3, Unowned
    <3>3. /\ Len(frames') = Len(frames) /\ frames'[depth] = f /\ depth \in 1..Len(frames)
          /\ \A i \in 1..Len(frames) : i # depth => frames'[i] = frames[i]
      BY <1>1, <1>4, CallKeeps, TopCall
    <3>4. HeldBy(f, h) /\ h # f.out
      BY <1>4, <1>5, HandlesAssumption DEF HeldBy
    <3>5. /\ h \in live' /\ depth \in 1..Len(frames') /\ HeldBy(frames'[depth], h)
          /\ h \in frames'[depth].own => h # frames'[depth].out
          /\ \A q \in Objects : ~OwnedBy(obj'[q], h)
          /\ \A i \in 1..Len(frames') : i # depth => ~HeldBy(frames'[i], h)
      BY <1>1, <1>3, <3>2, <3>3, <3>4
    <3>6. SoleOwner(obj', live', frames', h)
      BY <3>5, CallOwns
    <3> QED BY <2>1, <3>6
  <2>2. CASE y # h
    <3>1. /\ (HeldBy(f, y) <=> HeldBy(Top, y)) /\ (y \in f.own => y # f.out)
          /\ y \in live' <=> y \in live
      BY <1>1, <1>2, <1>3, <1>4, <1>5, <2>2 DEF HeldBy
    <3> QED BY <1>1, <1>4, <3>1, CallKeeps
  <2> QED BY <2>1, <2>2
<1>7. live' \in SUBSET Handles
  BY <1>3 DEF SwiftInv, SwiftTypes
<1> QED BY <1>1, <1>4, <1>5, <1>6, <1>7, QuietCallStep

\* Rust takes what the shim handed over, or the call fails.
LEMMA BackInv == SwiftInv /\ Back => SwiftInv'
<1> SUFFICES ASSUME SwiftInv, Back PROVE SwiftInv'
  OBVIOUS
<1>1. /\ depth > 0 /\ Top.pc = "defer" /\ Top.lent = {}
      /\ obj' = obj /\ live' = live /\ trapped' = trapped
  BY DEF Back
<1>2. Top \in NativeCalls /\ Shape(Top)
  BY <1>1, TopCall
<1> DEFINE ok == outcome(Top.op, Top.code, Top.out) = "ok"
           pc == IF ok THEN "rust" ELSE "failed"
           own == IF ok THEN Top.own \cup ({Top.out} \ {NoHandle}) ELSE Top.own
           f == [Top EXCEPT !.pc = pc, !.op = "none", !.code = 0, !.out = NoHandle, !.own = own]
<1>3. Become(f)
  BY DEF Back
<1>4. ok \/ Top.out = NoHandle
  BY <1>1, <1>2, Outcome DEF Shape
<1>5. own \in SUBSET Handles /\ pc \in {"rust", "failed"}
  BY <1>2 DEF NativeCalls
<1>6. \A h \in Handles : h \in own <=> HeldBy(Top, h)
  BY <1>4, HandlesAssumption DEF HeldBy
<1>7. Top.own \subseteq own
  OBVIOUS
<1> HIDE DEF own, pc, ok
<1>8. /\ f \in NativeCalls /\ f.pc = pc /\ f.code = 0 /\ f.own = own
      /\ f.arg = Top.arg /\ f.op = "none" /\ f.lent = Top.lent /\ f.loaded = Top.loaded
      /\ f.out = NoHandle
  BY <1>2, <1>5 DEF NativeCalls
<1> HIDE DEF f
<1>9. Shape(f)
  BY <1>1, <1>2, <1>5, <1>8 DEF Shape
<1>10. ASSUME NEW h \in Handles PROVE SoleOwner(obj', live', frames', h)
  <2>1. (HeldBy(f, h) <=> HeldBy(Top, h)) /\ (h \in f.own => h # f.out)
    BY <1>6, <1>8, HandlesAssumption DEF HeldBy
  <2> QED BY <1>1, <1>3, <1>8, <2>1, CallKeeps
<1>11. live' \in SUBSET Handles
  BY <1>1 DEF SwiftInv, SwiftTypes
<1> QED BY <1>1, <1>3, <1>7, <1>8, <1>9, <1>10, <1>11, QuietCallStep

-----------------------------------------------------------------------------
\* A step of the innermost call that also changes one object.
LEMMA CallObjectStep ==
    ASSUME SwiftInv, depth > 0, NEW f \in NativeCalls, Become(f), Shape(f),
           f.arg = Top.arg, f.lent \subseteq Top.lent,
           Top.own \subseteq f.own \/ Top.lent = {},
           NEW o \in Objects, NEW x \in SwiftObjects,
           obj' = [obj EXCEPT ![o] = x], trapped' = trapped, live' \in SUBSET Handles,
           \A q \in Objects : q # o => /\ q \in f.lent <=> q \in Top.lent
                                       /\ f.loaded = q <=> Top.loaded = q,
           Match(o, x, frames'),
           \/ x.kind = obj[o].kind /\ x.handle = obj[o].handle
           \/ /\ obj[o].kind = "owned" => \A n \in 1..Len(frames) : frames[n].arg # o
              /\ \A n \in 1..Len(frames) : o \notin frames'[n].lent,
           \A h \in Handles : SoleOwner(obj', live', frames', h)
    PROVE  SwiftInv'
<1>1. /\ obj' \in [Objects -> SwiftObjects]
      /\ obj'[o] = x
      /\ \A q \in Objects : q # o => obj'[q] = obj[q]
  BY ObjectChanged DEF SwiftInv
<1>2. ASSUME NEW q \in Objects PROVE Match(q, obj'[q], frames')
  <2>1. CASE q = o
    BY <1>1, <2>1
  <2>2. CASE q # o
    BY <1>1, <2>2, CallKeeps
  <2> QED BY <2>1, <2>2
<1>3. ASSUME NEW q \in Objects PROVE Steady(q)
  <2>1. CASE q = o
    BY <1>1, <2>1 DEF Steady
  <2>2. CASE q # o
    BY <1>1, <2>2 DEF Steady
  <2> QED BY <2>1, <2>2
<1> QED BY <1>1, <1>2, <1>3, CallStep

\* The references to that object, from those it had.
LEMMA MatchCall ==
    ASSUME SwiftInv, depth > 0, NEW f \in NativeCalls, Become(f), f.arg = Top.arg,
           NEW o \in Objects, NEW x,
           \A n \in Nat : /\ Argument(n) \in x.refs <=> Argument(n) \in obj[o].refs
                          /\ n # depth => (Lent(n) \in x.refs <=> Lent(n) \in obj[o].refs)
                          /\ n # depth => (Loaded(n) \in x.refs <=> Loaded(n) \in obj[o].refs),
           Lent(depth) \in x.refs <=> o \in f.lent,
           Loaded(depth) \in x.refs <=> f.loaded = o,
           x.refs = {} => x = Gone,
           x.refs # {} => x.kind # "nil",
           x.kind = "owned" => x.handle \in Handles,
           x.kind = "borrowed" <=> \E n \in 1..Len(frames') : o \in frames'[n].lent
    PROVE  Match(o, x, frames')
<1>1. /\ depth = Len(frames) /\ depth \in Nat \ {0} /\ depth \in 1..Len(frames)
      /\ Top = frames[depth]
  BY TopCall
<1>2. /\ Len(frames') = Len(frames) /\ frames'[depth] = f
      /\ \A i \in 1..Len(frames) : i # depth => frames'[i] = frames[i]
  BY CallKeeps
<1>3. Match(o, obj[o], frames)
  BY DEF SwiftInv
<1>4. ASSUME NEW n \in Nat
      PROVE  /\ Argument(n) \in x.refs <=> n \in 1..Len(frames') /\ frames'[n].arg = o
             /\ Lent(n) \in x.refs <=> n \in 1..Len(frames') /\ o \in frames'[n].lent
             /\ Loaded(n) \in x.refs <=> n \in 1..Len(frames') /\ frames'[n].loaded = o
  <2>1. /\ Argument(n) \in obj[o].refs <=> n \in 1..Len(frames) /\ frames[n].arg = o
        /\ Lent(n) \in obj[o].refs <=> n \in 1..Len(frames) /\ o \in frames[n].lent
        /\ Loaded(n) \in obj[o].refs <=> n \in 1..Len(frames) /\ frames[n].loaded = o
    BY <1>3 DEF Match
  <2>2. CASE n = depth
    BY <1>1, <1>2, <2>1, <2>2
  <2>3. CASE n # depth
    BY <1>1, <1>2, <2>1, <2>3
  <2> QED BY <2>2, <2>3
<1> QED BY <1>4 DEF Match

\* The store answers with an object that it or the application has.
LEMMA AnswerInv ==
    ASSUME SwiftInv, NEW o \in Objects, Answer(o)
    PROVE  SwiftInv'
<1>1. /\ depth > 0 /\ Top.pc = "body" /\ Top.op \in Loads /\ o \notin Top.lent
      /\ live' = live /\ trapped' = trapped
  BY DEF Answer
<1>2. Top \in NativeCalls /\ Shape(Top) /\ depth \in Nat /\ Top = frames[depth]
  BY <1>1, TopCall
<1> DEFINE f == [Top EXCEPT !.pc = "convert", !.loaded = o]
           x == With(o, obj[o].refs \cup {Loaded(depth)})
<1>3. /\ f \in NativeCalls /\ f.pc = "convert" /\ f.code = Top.code /\ f.own = Top.own
      /\ f.arg = Top.arg /\ f.op = Top.op /\ f.lent = Top.lent /\ f.loaded = o
      /\ f.out = Top.out /\ Become(f)
  BY <1>1, <1>2 DEF NativeCalls, Answer
<1> HIDE DEF f
<1>4. Shape(f)
  BY <1>1, <1>2, <1>3, HandlesAssumption DEF Shape
<1>5. obj[o] \in SwiftObjects /\ obj[o].refs \in SUBSET Holders
  BY DEF SwiftInv, SwiftTypes, SwiftObjects
<1>6. /\ x \in SwiftObjects
      /\ [obj[o] EXCEPT !.refs = obj[o].refs \cup {Loaded(depth)}] = x
  BY <1>2, <1>5, RefsChanged, HolderTypes DEF SwiftInv
<1>7. /\ x.kind = obj[o].kind /\ x.handle = obj[o].handle
      /\ x.refs = obj[o].refs \cup {Loaded(depth)}
  BY <1>5 DEF With
<1>8. obj' = [obj EXCEPT ![o] = x] /\ obj \in [Objects -> SwiftObjects]
  BY <1>6 DEF Answer, SwiftInv, SwiftTypes
<1> HIDE DEF x
<1>9. obj'[o] = x /\ \A q \in Objects : q # o => obj'[q] = obj[q]
  BY <1>6, <1>7, <1>8, ObjectChanged DEF SwiftInv
<1>10. obj[o].refs # {} /\ obj[o].kind # "nil"
  BY KnownExists DEF Answer
<1>11. Match(o, obj[o], frames)
  BY DEF SwiftInv
<1>12. /\ Len(frames') = Len(frames) /\ frames'[depth] = f /\ depth \in 1..Len(frames)
       /\ \A i \in 1..Len(frames) : i # depth => frames'[i] = frames[i]
  BY <1>1, <1>3, CallKeeps, TopCall
<1>13. \A n \in 1..Len(frames) : o \in frames'[n].lent <=> o \in frames[n].lent
  BY <1>2, <1>3, <1>12
<1>14. x.kind = "borrowed" <=> \E n \in 1..Len(frames') : o \in frames'[n].lent
  BY <1>7, <1>11, <1>12, <1>13 DEF Match
<1>15. \A n \in Nat :
          /\ Argument(n) \in x.refs <=> Argument(n) \in obj[o].refs
          /\ Lent(n) \in x.refs <=> Lent(n) \in obj[o].refs
          /\ n # depth => (Loaded(n) \in x.refs <=> Loaded(n) \in obj[o].refs)
  BY <1>2, <1>7, HolderTypes
<1>16. Lent(depth) \in x.refs <=> o \in f.lent
  BY <1>2, <1>3, <1>11, <1>12, <1>15 DEF Match
<1>21. x.kind = "owned" => x.handle \in Handles
  BY <1>7, <1>11 DEF Match
<1>17. Match(o, x, frames')
  BY <1>1, <1>3, <1>7, <1>10, <1>14, <1>15, <1>16, <1>21, MatchCall
<1>18. ASSUME NEW h \in Handles PROVE SoleOwner(obj', live', frames', h)
  <2>1. (HeldBy(f, h) <=> HeldBy(Top, h)) /\ (h \in f.own => h # f.out)
    BY <1>1, <1>2, <1>3, HandlesAssumption DEF HeldBy, Shape
  <2>2. \A q \in Objects : OwnedBy(obj'[q], h) <=> OwnedBy(obj[q], h)
    BY <1>7, <1>9 DEF OwnedBy
  <2> QED BY <1>1, <1>3, <2>1, <2>2, CallKeeps
<1>19. live' \in SUBSET Handles
  BY <1>1 DEF SwiftInv, SwiftTypes
<1>20. \A q \in Objects : q # o => /\ q \in f.lent <=> q \in Top.lent
                                   /\ f.loaded = q <=> Top.loaded = q
  BY <1>1, <1>2, <1>3, HandlesAssumption DEF Shape
<1> QED BY <1>1, <1>3, <1>4, <1>6, <1>7, <1>8, <1>17, <1>18, <1>19, <1>20, CallObjectStep


\* The owner of h after a step of the innermost call: that call, or one object.
LEMMA CallGets ==
    ASSUME SwiftInv, depth > 0, NEW f \in NativeCalls, Become(f), f.arg = Top.arg,
           NEW h, h \in live', HeldBy(f, h), h \in f.own => h # f.out,
           \A q \in Objects : ~OwnedBy(obj'[q], h),
           \A i \in 1..Len(frames) : i # depth => ~HeldBy(frames[i], h)
    PROVE  SoleOwner(obj', live', frames', h)
<1>1. /\ Len(frames') = Len(frames) /\ frames'[depth] = f /\ depth \in 1..Len(frames)
      /\ \A i \in 1..Len(frames) : i # depth => frames'[i] = frames[i]
  BY CallKeeps, TopCall
<1>2. /\ depth \in 1..Len(frames') /\ HeldBy(frames'[depth], h)
      /\ h \in frames'[depth].own => h # frames'[depth].out
      /\ \A i \in 1..Len(frames') : i # depth => ~HeldBy(frames'[i], h)
  BY <1>1
<1> QED BY <1>2, CallOwns

\* A handle that passes to an object.
LEMMA ObjectGets ==
    ASSUME SwiftInv, depth > 0, NEW f \in NativeCalls, Become(f), f.arg = Top.arg,
           NEW o \in Objects, NEW h, h \in live', OwnedBy(obj'[o], h), ~HeldBy(f, h),
           \A q \in Objects : q # o => ~OwnedBy(obj'[q], h),
           \A i \in 1..Len(frames) : i # depth => ~HeldBy(frames[i], h)
    PROVE  SoleOwner(obj', live', frames', h)
<1>1. /\ Len(frames') = Len(frames) /\ frames'[depth] = f /\ depth \in 1..Len(frames)
      /\ \A i \in 1..Len(frames) : i # depth => frames'[i] = frames[i]
  BY CallKeeps, TopCall
<1>2. \A i \in 1..Len(frames') : ~HeldBy(frames'[i], h)
  BY <1>1
<1> QED BY <1>2, ObjectOwns

\* A new object in a step of the innermost call.
LEMMA NewObjectMatches ==
    ASSUME SwiftInv, depth > 0, NEW f \in NativeCalls, Become(f), f.arg = Top.arg,
           f.lent = Top.lent, NEW o \in Objects, ~Exists(o), NEW x,
           x.kind = "owned", x.handle \in Handles,
           \/ x.refs = {App} /\ f.loaded # o
           \/ x.refs = {Loaded(depth)} /\ f.loaded = o
    PROVE  Match(o, x, frames')
<1>1. /\ Len(frames') = Len(frames) /\ frames'[depth] = f /\ depth \in 1..Len(frames)
      /\ \A i \in 1..Len(frames) : i # depth => frames'[i] = frames[i]
      /\ depth \in Nat /\ Top = frames[depth]
  BY CallKeeps, TopCall
<1>2. /\ obj[o].refs = {}
      /\ \A n \in 1..Len(frames) :
            frames[n].arg # o /\ o \notin frames[n].lent /\ frames[n].loaded # o
  BY NotExists
<1>3. \A n \in 1..Len(frames') : o \notin frames'[n].lent
  BY <1>1, <1>2
<1>4. o \notin f.lent
  BY <1>1, <1>2
<1>5. \A n \in Nat : /\ Argument(n) \notin x.refs /\ Lent(n) \notin x.refs
                     /\ n # depth => Loaded(n) \notin x.refs
  BY <1>1, HolderTypes
<1>6. Loaded(depth) \in x.refs <=> f.loaded = o
  BY <1>1, HolderTypes
<1> QED BY <1>1, <1>2, <1>3, <1>4, <1>5, <1>6, MatchCall

\* The store answers with an object that nothing else refers to.
LEMMA AnswerNewInv == SwiftInv /\ AnswerNew => SwiftInv'
<1> SUFFICES ASSUME SwiftInv, AnswerNew PROVE SwiftInv'
  OBVIOUS
<1>1. /\ depth > 0 /\ Top.pc = "body" /\ Top.op \in Loads /\ trapped' = trapped
  BY DEF AnswerNew
<1>2. Top \in NativeCalls /\ Shape(Top) /\ depth \in Nat /\ Top = frames[depth]
  BY <1>1, TopCall
<1>3. PICK o \in Objects, h \in Handles :
         /\ ~Exists(o) /\ obj' = [obj EXCEPT ![o] = Owning(h, {Loaded(depth)})]
         /\ h \notin live /\ live' = live \cup {h}
         /\ Become([Top EXCEPT !.pc = "convert", !.loaded = o])
  BY DEF AnswerNew, box_object
<1> DEFINE f == [Top EXCEPT !.pc = "convert", !.loaded = o]
           x == Owning(h, {Loaded(depth)})
<1>4. /\ f \in NativeCalls /\ f.pc = "convert" /\ f.code = Top.code /\ f.own = Top.own
      /\ f.arg = Top.arg /\ f.op = Top.op /\ f.lent = Top.lent /\ f.loaded = o
      /\ f.out = Top.out /\ Become(f)
  BY <1>2, <1>3 DEF NativeCalls
<1>5. /\ x \in SwiftObjects
      /\ x.kind = "owned" /\ x.handle = h /\ x.refs = {Loaded(depth)}
  BY <1>2, HolderTypes DEF Owning, SwiftObjects
<1>6. obj' = [obj EXCEPT ![o] = x]
  BY <1>3
<1> HIDE DEF f, x
<1>7. Shape(f)
  BY <1>1, <1>2, <1>4, HandlesAssumption DEF Shape
<1>8. obj'[o] = x /\ \A q \in Objects : q # o => obj'[q] = obj[q]
  BY <1>5, <1>6, ObjectChanged DEF SwiftInv
<1>9. /\ obj[o].kind = "nil" /\ \A n \in 1..Len(frames) : o \notin frames[n].lent
  BY <1>3, NotExists
<1>10. \A n \in 1..Len(frames) : o \notin frames'[n].lent
  BY <1>1, <1>2, <1>4, <1>9, CallKeeps
<1>11. Match(o, x, frames')
  BY <1>1, <1>3, <1>4, <1>5, NewObjectMatches
<1>12. ASSUME NEW y \in Handles PROVE SoleOwner(obj', live', frames', y)
  <2>1. (HeldBy(f, y) <=> HeldBy(Top, y)) /\ (y \in f.own => y # f.out)
    BY <1>1, <1>2, <1>4, HandlesAssumption DEF HeldBy, Shape
  <2>2. CASE y = h
    <3>1. /\ \A q \in Objects : ~OwnedBy(obj[q], h)
          /\ \A i \in 1..Len(frames) : ~HeldBy(frames[i], h)
      BY <1>3, Unowned
    <3>2. ~HeldBy(f, h)
      BY <1>1, <1>2, <2>1, <2>2, <3>1, TopCall
    <3>3. OwnedBy(obj'[o], h) /\ h \in live' /\ \A q \in Objects : q # o => ~OwnedBy(obj'[q], h)
      BY <1>3, <1>5, <1>8, <3>1 DEF OwnedBy
    <3> QED BY <1>1, <1>4, <2>2, <3>1, <3>2, <3>3, ObjectGets
  <2>3. CASE y # h
    <3>1. \A q \in Objects : OwnedBy(obj'[q], y) <=> OwnedBy(obj[q], y)
      BY <1>5, <1>8, <1>9, <2>3 DEF OwnedBy
    <3>2. y \in live' <=> y \in live
      BY <1>3, <2>3
    <3> QED BY <1>1, <1>4, <2>1, <3>1, <3>2, CallKeeps
  <2> QED BY <2>2, <2>3
<1>13. live' \in SUBSET Handles
  BY <1>3 DEF SwiftInv, SwiftTypes
<1>14. \A q \in Objects : q # o => /\ q \in f.lent <=> q \in Top.lent
                                   /\ f.loaded = q <=> Top.loaded = q
  BY <1>1, <1>2, <1>4, HandlesAssumption DEF Shape
<1> QED BY <1>1, <1>4, <1>5, <1>6, <1>7, <1>9, <1>10, <1>11, <1>12, <1>13, <1>14, CallObjectStep

\* The result of a call becomes an object of the application.
LEMMA HandOverInv == SwiftInv /\ HandOver => SwiftInv'
<1> SUFFICES ASSUME SwiftInv, HandOver PROVE SwiftInv'
  OBVIOUS
<1>1. depth > 0 /\ Top.pc = "rust" /\ live' = live /\ trapped' = trapped
  BY DEF HandOver
<1>2. /\ Top \in NativeCalls /\ Shape(Top) /\ depth \in Nat /\ Top = frames[depth]
      /\ depth \in 1..Len(frames)
  BY <1>1, TopCall
<1>3. PICK h \in Top.own, o \in Objects :
         /\ ~Exists(o) /\ obj' = [obj EXCEPT ![o] = Owning(h, {App})]
         /\ Become([Top EXCEPT !.own = @ \ {h}, !.pc = "failed"])
  BY DEF HandOver
<1> DEFINE f == [Top EXCEPT !.own = @ \ {h}, !.pc = "failed"]
           x == Owning(h, {App})
<1>4. /\ f \in NativeCalls /\ f.pc = "failed" /\ f.code = Top.code /\ f.own = Top.own \ {h}
      /\ f.arg = Top.arg /\ f.op = Top.op /\ f.lent = Top.lent /\ f.loaded = Top.loaded
      /\ f.out = Top.out /\ Become(f)
  BY <1>2, <1>3 DEF NativeCalls
<1>5. h \in Handles
  BY <1>2, <1>3 DEF NativeCalls
<1>6. /\ x \in SwiftObjects
      /\ x.kind = "owned" /\ x.handle = h /\ x.refs = {App}
  BY <1>5, HolderTypes DEF Owning, SwiftObjects
<1>7. obj' = [obj EXCEPT ![o] = x]
  BY <1>3
<1> HIDE DEF f, x
<1>8. Shape(f) /\ Top.lent = {} /\ Top.out = NoHandle /\ Top.loaded = NoObject
  BY <1>1, <1>2, <1>4 DEF Shape
<1>9. obj'[o] = x /\ \A q \in Objects : q # o => obj'[q] = obj[q]
  BY <1>6, <1>7, ObjectChanged DEF SwiftInv
<1>10. /\ obj[o].kind = "nil" /\ \A n \in 1..Len(frames) : o \notin frames[n].lent
  BY <1>3, NotExists
<1>11. \A n \in 1..Len(frames) : o \notin frames'[n].lent
  BY <1>1, <1>2, <1>4, <1>10, CallKeeps
<1>12. Match(o, x, frames')
  BY <1>1, <1>3, <1>4, <1>5, <1>6, <1>8, HandlesAssumption, NewObjectMatches
<1>13. ASSUME NEW y \in Handles PROVE SoleOwner(obj', live', frames', y)
  <2>1. CASE y = h
    <3>1. SoleOwner(obj, live, frames, h) /\ HeldBy(frames[depth], h)
      BY <1>2, <1>3, <1>5 DEF SwiftInv, HeldBy
    <3>2. /\ \A q \in Objects : ~OwnedBy(obj[q], h)
          /\ \A i \in 1..Len(frames) : i # depth => ~HeldBy(frames[i], h)
          /\ h \in live
      BY <1>2, <3>1 DEF SoleOwner
    <3>3. ~HeldBy(f, h)
      BY <1>4, <1>5, <1>8, HandlesAssumption DEF HeldBy
    <3>4. OwnedBy(obj'[o], h) /\ h \in live' /\ \A q \in Objects : q # o => ~OwnedBy(obj'[q], h)
      BY <1>1, <1>6, <1>9, <3>2 DEF OwnedBy
    <3> QED BY <1>1, <1>4, <2>1, <3>2, <3>3, <3>4, ObjectGets
  <2>2. CASE y # h
    <3>1. \A q \in Objects : OwnedBy(obj'[q], y) <=> OwnedBy(obj[q], y)
      BY <1>6, <1>9, <1>10, <2>2 DEF OwnedBy
    <3>2. (HeldBy(f, y) <=> HeldBy(Top, y)) /\ (y \in f.own => y # f.out)
      BY <1>4, <1>8, <2>2, HandlesAssumption DEF HeldBy
    <3> QED BY <1>1, <1>4, <3>1, <3>2, CallKeeps
  <2> QED BY <2>1, <2>2
<1>14. live' \in SUBSET Handles
  BY <1>1 DEF SwiftInv, SwiftTypes
<1> QED BY <1>1, <1>4, <1>6, <1>7, <1>8, <1>10, <1>11, <1>12, <1>13, <1>14, CallObjectStep


\* What the shim does with an object it alone refers to, or that others have too.
LEMMA UniqueMeans ==
    ASSUME SwiftInv, NEW o \in Objects, NEW holder \in obj[o].refs
    PROVE  Unique(o) <=> obj[o].refs = {holder}
  BY DEF Unique

\* The object that was loaded.
LEMMA LoadedObject ==
    ASSUME SwiftInv, depth > 0, Top.pc = "convert"
    PROVE  /\ Top.loaded \in Objects /\ Loaded(depth) \in obj[Top.loaded].refs
           /\ obj[Top.loaded].refs # {} /\ obj[Top.loaded].kind # "nil"
<1>1. Top \in NativeCalls /\ Shape(Top) /\ depth \in 1..Len(frames) /\ Top = frames[depth]
  BY TopCall
<1>2. Top.loaded \in Objects
  BY <1>1 DEF NativeCalls, Shape
<1>3. Match(Top.loaded, obj[Top.loaded], frames) /\ depth \in Nat
  BY <1>1, <1>2 DEF SwiftInv
<1> QED BY <1>1, <1>2, <1>3 DEF Match

\* The handle is taken out of an object that only the shim refers to.
LEMMA TakeInv ==
    ASSUME SwiftInv, depth > 0, Top.pc = "convert", Unique(Top.loaded),
           cloneOrTakeHandle
    PROVE  SwiftInv'
<1> DEFINE o == Top.loaded
           f == [Top EXCEPT !.pc = "defer", !.loaded = NoObject, !.out = obj[o].handle]
<1>1. /\ Become(f) /\ obj' = [obj EXCEPT ![o] = Gone] /\ live' = live
      /\ trapped' = IF obj[o].kind = "borrowed" THEN "yes" ELSE trapped
  BY DEF cloneOrTakeHandle
<1>2. /\ Top \in NativeCalls /\ Shape(Top) /\ depth \in Nat /\ Top = frames[depth]
      /\ depth \in 1..Len(frames) /\ depth = Len(frames)
  BY TopCall
<1>3. o \in Objects /\ obj[o].refs = {Loaded(depth)} /\ obj[o].kind # "nil"
  BY LoadedObject, UniqueMeans
<1>4. obj[o] \in SwiftObjects /\ Match(o, obj[o], frames)
  BY <1>3 DEF SwiftInv, SwiftTypes
<1>5. \A n \in 1..Len(frames) : frames[n].arg # o /\ o \notin frames[n].lent
  <2>1. \A n \in Nat : Argument(n) \notin obj[o].refs /\ Lent(n) \notin obj[o].refs
    BY <1>2, <1>3, HolderTypes
  <2> QED BY <1>4, <2>1, CallObjects
<1>6. obj[o].kind = "owned" /\ obj[o].handle \in Handles /\ trapped' = trapped
  BY <1>1, <1>3, <1>4, <1>5 DEF Match, SwiftObjects
<1>7. /\ f \in NativeCalls /\ f.pc = "defer" /\ f.code = Top.code /\ f.own = Top.own
      /\ f.arg = Top.arg /\ f.op = Top.op /\ f.lent = Top.lent /\ f.loaded = NoObject
      /\ f.out = obj[o].handle
  BY <1>2, <1>6 DEF NativeCalls
<1>8. Gone \in SwiftObjects /\ Gone.refs = {} /\ Gone.kind = "nil"
  BY DEF Gone, SwiftObjects
<1> DEFINE h == obj[o].handle
<1>9. obj'[o] = Gone /\ \A q \in Objects : q # o => obj'[q] = obj[q]
  BY <1>1, <1>3, <1>8, ObjectChanged DEF SwiftInv
<1>10. Top.out = NoHandle /\ Top.code = 0 /\ Top.op \in Loads /\ Top.op \in Callbacks
  BY <1>2 DEF Shape
<1> HIDE DEF f
<1>11. Shape(f)
  BY <1>6, <1>7, <1>10, HandlesAssumption DEF Shape, Answers
<1>12. \A n \in 1..Len(frames) : o \notin frames'[n].lent
  BY <1>1, <1>2, <1>5, <1>7, CallKeeps
<1>13. Match(o, Gone, frames')
  <2>1. Len(frames') = Len(frames)
    BY <1>1, <1>7, CallKeeps
  <2>2. \A n \in Nat : /\ Argument(n) \notin obj[o].refs /\ Lent(n) \notin obj[o].refs
                       /\ n # depth => Loaded(n) \notin obj[o].refs
    BY <1>2, <1>3, HolderTypes
  <2>3. o \notin f.lent /\ f.loaded # o
    BY <1>2, <1>3, <1>5, <1>7, HandlesAssumption
  <2> QED BY <1>1, <1>2, <1>3, <1>7, <1>8, <1>12, <2>1, <2>2, <2>3, MatchCall
<1>14. ASSUME NEW y \in Handles PROVE SoleOwner(obj', live', frames', y)
  <2>0. SoleOwner(obj, live, frames, y)
    BY DEF SwiftInv
  <2>1. CASE y = h
    <3>1. OwnedBy(obj[o], y)
      BY <1>6, <2>1 DEF OwnedBy
    <3>2. /\ \A q \in Objects : q # o => ~OwnedBy(obj[q], y)
          /\ \A i \in 1..Len(frames) : ~HeldBy(frames[i], y)
          /\ y \in live
      BY <1>3, <2>0, <3>1 DEF SoleOwner
    <3>3. \A q \in Objects : ~OwnedBy(obj'[q], y)
      BY <1>8, <1>9, <3>2 DEF OwnedBy
    <3>4. HeldBy(f, y) /\ (y \in f.own => y # f.out)
      BY <1>2, <1>7, <2>1, <3>2 DEF HeldBy
    <3> QED BY <1>1, <1>7, <3>2, <3>3, <3>4, CallGets
  <2>2. CASE y # h
    <3>1. \A q \in Objects : OwnedBy(obj'[q], y) <=> OwnedBy(obj[q], y)
      BY <1>8, <1>9, <2>2 DEF OwnedBy
    <3>2. (HeldBy(f, y) <=> HeldBy(Top, y)) /\ (y \in f.own => y # f.out)
      BY <1>7, <1>10, <2>2, HandlesAssumption DEF HeldBy
    <3> QED BY <1>1, <1>7, <3>1, <3>2, CallKeeps
  <2> QED BY <2>1, <2>2
<1>15. live' \in SUBSET Handles
  BY <1>1 DEF SwiftInv, SwiftTypes
<1>16. \A q \in Objects : q # o => /\ q \in f.lent <=> q \in Top.lent
                                   /\ f.loaded = q <=> Top.loaded = q
  BY <1>7, HandlesAssumption
<1> QED BY <1>1, <1>3, <1>5, <1>6, <1>7, <1>8, <1>11, <1>12, <1>13, <1>14, <1>15, <1>16,
           CallObjectStep

\* The handle of an object that others refer to as well is cloned.
LEMMA CloneInv ==
    ASSUME SwiftInv, depth > 0, Top.pc = "convert", ~Unique(Top.loaded),
           cloneOrTakeHandle
    PROVE  SwiftInv'
<1> DEFINE o == Top.loaded
           x == With(o, obj[o].refs \ {Loaded(depth)})
<1>1. PICK h \in Handles :
         /\ Become([Top EXCEPT !.pc = "defer", !.loaded = NoObject, !.out = h])
         /\ h \notin live /\ live' = live \cup {h}
  BY DEF cloneOrTakeHandle, clone, box_object
<1>2. /\ Top \in NativeCalls /\ Shape(Top) /\ depth \in Nat /\ Top = frames[depth]
      /\ depth \in 1..Len(frames) /\ depth = Len(frames)
  BY TopCall
<1>3. /\ o \in Objects /\ Loaded(depth) \in obj[o].refs /\ obj[o].kind # "nil"
      /\ obj[o].refs \ {Loaded(depth)} # {}
  BY LoadedObject, UniqueMeans
<1>4. /\ obj[o] \in SwiftObjects /\ Match(o, obj[o], frames)
      /\ obj[o].refs \in SUBSET Holders /\ obj \in [Objects -> SwiftObjects]
  BY <1>3 DEF SwiftInv, SwiftTypes, SwiftObjects
<1>5. /\ x \in SwiftObjects
      /\ [obj[o] EXCEPT !.refs = obj[o].refs \ {Loaded(depth)}] = x
  BY <1>3, <1>4, RefsChanged DEF SwiftInv
<1>6. /\ x.kind = obj[o].kind /\ x.handle = obj[o].handle
      /\ x.refs = obj[o].refs \ {Loaded(depth)}
  BY <1>4 DEF With
<1>7. obj' = [obj EXCEPT ![o] = x] /\ trapped' = trapped
  BY <1>3, <1>4, <1>5 DEF cloneOrTakeHandle
<1> DEFINE f == [Top EXCEPT !.pc = "defer", !.loaded = NoObject, !.out = h]
<1>8. /\ f \in NativeCalls /\ f.pc = "defer" /\ f.code = Top.code /\ f.own = Top.own
      /\ f.arg = Top.arg /\ f.op = Top.op /\ f.lent = Top.lent /\ f.loaded = NoObject
      /\ f.out = h /\ Become(f)
  BY <1>1, <1>2 DEF NativeCalls
<1> HIDE DEF f, x
<1>9. obj'[o] = x /\ \A q \in Objects : q # o => obj'[q] = obj[q]
  BY <1>3, <1>5, <1>6, <1>7, ObjectChanged DEF SwiftInv
<1>10. Top.out = NoHandle /\ Top.code = 0 /\ Top.op \in Loads /\ Top.op \in Callbacks
  BY <1>2 DEF Shape
<1>11. Shape(f)
  BY <1>8, <1>10, HandlesAssumption DEF Shape, Answers
<1>12. /\ Len(frames') = Len(frames)
       /\ \A n \in 1..Len(frames) : o \in frames'[n].lent <=> o \in frames[n].lent
  BY <1>2, <1>8, CallKeeps
<1>13. Match(o, x, frames')
  <2>1. \A n \in Nat :
          /\ Argument(n) \in x.refs <=> Argument(n) \in obj[o].refs
          /\ Lent(n) \in x.refs <=> Lent(n) \in obj[o].refs
          /\ n # depth => (Loaded(n) \in x.refs <=> Loaded(n) \in obj[o].refs)
    BY <1>2, <1>6, HolderTypes
  <2>2. Lent(depth) \in x.refs <=> o \in f.lent
    BY <1>2, <1>4, <1>8, <2>1 DEF Match
  <2>3. Loaded(depth) \notin x.refs /\ f.loaded # o
    BY <1>3, <1>6, <1>8, HandlesAssumption
  <2>4. x.kind = "borrowed" <=> \E n \in 1..Len(frames') : o \in frames'[n].lent
    BY <1>4, <1>6, <1>12 DEF Match
  <2>5. x.kind = "owned" => x.handle \in Handles
    BY <1>4, <1>6 DEF Match
  <2> QED BY <1>3, <1>6, <1>8, <2>1, <2>2, <2>3, <2>4, <2>5, MatchCall
<1>14. ASSUME NEW y \in Handles PROVE SoleOwner(obj', live', frames', y)
  <2>1. \A q \in Objects : OwnedBy(obj'[q], y) <=> OwnedBy(obj[q], y)
    BY <1>6, <1>9 DEF OwnedBy
  <2>2. CASE y = h
    <3>1. /\ \A q \in Objects : ~OwnedBy(obj[q], y)
          /\ \A i \in 1..Len(frames) : ~HeldBy(frames[i], y)
      BY <1>1, <2>2, Unowned
    <3>2. HeldBy(f, y) /\ (y \in f.own => y # f.out) /\ y \in live'
      BY <1>1, <1>2, <1>8, <2>2, <3>1 DEF HeldBy
    <3> QED BY <1>8, <2>1, <3>1, <3>2, CallGets
  <2>3. CASE y # h
    <3>1. (HeldBy(f, y) <=> HeldBy(Top, y)) /\ (y \in f.own => y # f.out)
      BY <1>8, <1>10, <2>3, HandlesAssumption DEF HeldBy
    <3>2. y \in live' <=> y \in live
      BY <1>1, <2>3
    <3> QED BY <1>8, <2>1, <3>1, <3>2, CallKeeps
  <2> QED BY <2>2, <2>3
<1>15. live' \in SUBSET Handles
  BY <1>1 DEF SwiftInv, SwiftTypes
<1>16. \A q \in Objects : q # o => /\ q \in f.lent <=> q \in Top.lent
                                   /\ f.loaded = q <=> Top.loaded = q
  BY <1>8, HandlesAssumption
<1> QED BY <1>3, <1>5, <1>6, <1>7, <1>8, <1>11, <1>13, <1>14, <1>15, <1>16, CallObjectStep

\* What was lent is forgotten, or replaced by a clone, when the shim is left.
LEMMA DeferInv == SwiftInv /\ Defer => SwiftInv'
<1> SUFFICES ASSUME SwiftInv, Defer PROVE SwiftInv'
  OBVIOUS
<1>1. depth > 0 /\ Top.pc = "defer"
  BY DEF Defer
<1>2. /\ Top \in NativeCalls /\ Shape(Top) /\ depth \in Nat /\ Top = frames[depth]
      /\ depth \in 1..Len(frames) /\ depth = Len(frames)
  BY <1>1, TopCall
<1>3. PICK o \in Top.lent : cloneOrForgetAsNeeded(o)
  BY DEF Defer
<1>4. /\ o \in Objects /\ Lent(depth) \in obj[o].refs /\ obj[o].kind = "borrowed"
      /\ Match(o, obj[o], frames)
      /\ obj[o].refs \in SUBSET Holders
  BY <1>2, <1>3, CallObjects DEF SwiftInv, SwiftTypes, SwiftObjects
<1> DEFINE f == [Top EXCEPT !.lent = @ \ {o}]
<1>5. /\ f \in NativeCalls /\ f.pc = "defer" /\ f.code = Top.code /\ f.own = Top.own
      /\ f.arg = Top.arg /\ f.op = Top.op /\ f.lent = Top.lent \ {o} /\ f.loaded = Top.loaded
      /\ f.out = Top.out /\ Become(f)
  BY <1>1, <1>2, <1>3 DEF NativeCalls, cloneOrForgetAsNeeded
<1>6. trapped' = trapped
  BY <1>3, <1>4 DEF cloneOrForgetAsNeeded
<1> HIDE DEF f
<1>7. Shape(f) /\ Top.loaded = NoObject
  BY <1>1, <1>2, <1>5 DEF Shape
<1>8. /\ Len(frames') = Len(frames)
      /\ \A n \in 1..Len(frames) : o \notin frames'[n].lent
  <2>1. \A n \in 1..Len(frames) : n # depth => o \notin frames[n].lent
    BY <1>2, <1>3 DEF SwiftInv, OneLender
  <2> QED BY <1>1, <1>2, <1>5, <2>1, CallKeeps
<1>9. \A y \in Handles : /\ HeldBy(f, y) <=> HeldBy(Top, y)
                         /\ y \in f.own => y # f.out
  <2> TAKE y \in Handles
  <2>1. SoleOwner(obj, live, frames, y)
    BY DEF SwiftInv
  <2>2. y \in Top.own => y # Top.out
    BY <1>2, <2>1 DEF SoleOwner
  <2> QED BY <1>5, <2>2 DEF HeldBy
<1>10. \A q \in Objects : q # o => /\ q \in f.lent <=> q \in Top.lent
                                   /\ f.loaded = q <=> Top.loaded = q
  BY <1>5
<1>11. CASE Unique(o)
  <2>1. obj[o].refs = {Lent(depth)}
    BY <1>4, <1>11, UniqueMeans
  <2>2. obj' = [obj EXCEPT ![o] = Gone] /\ live' = live
    BY <1>3, <1>11 DEF cloneOrForgetAsNeeded
  <2>3. Gone \in SwiftObjects /\ Gone.refs = {} /\ Gone.kind = "nil"
    BY DEF Gone, SwiftObjects
  <2>4. obj'[o] = Gone /\ \A q \in Objects : q # o => obj'[q] = obj[q]
    BY <1>4, <2>2, <2>3, ObjectChanged DEF SwiftInv
  <2>5. \A n \in Nat : /\ Argument(n) \notin obj[o].refs /\ Loaded(n) \notin obj[o].refs
                       /\ n # depth => Lent(n) \notin obj[o].refs
    BY <1>2, <2>1, HolderTypes
  <2>6. Match(o, Gone, frames')
    BY <1>1, <1>4, <1>5, <1>7, <1>8, <2>3, <2>5, HandlesAssumption, MatchCall
  <2>7. ASSUME NEW y \in Handles PROVE SoleOwner(obj', live', frames', y)
    <3>1. \A q \in Objects : OwnedBy(obj'[q], y) <=> OwnedBy(obj[q], y)
      BY <1>4, <2>3, <2>4 DEF OwnedBy
    <3> QED BY <1>1, <1>5, <1>9, <2>2, <3>1, CallKeeps
  <2>8. live' \in SUBSET Handles
    BY <2>2 DEF SwiftInv, SwiftTypes
  <2> QED BY <1>1, <1>4, <1>5, <1>6, <1>7, <1>8, <1>10, <2>2, <2>3, <2>6, <2>7, <2>8,
             CallObjectStep
<1>12. CASE ~Unique(o)
  <2>1. PICK h \in Handles :
           /\ obj' = [obj EXCEPT ![o] = Owning(h, obj[o].refs \ {Lent(depth)})]
           /\ h \notin live /\ live' = live \cup {h}
    BY <1>3, <1>4, <1>12 DEF cloneOrForgetAsNeeded, clone, box_object, SwiftInv, SwiftTypes
  <2>2. obj[o].refs \ {Lent(depth)} # {}
    BY <1>4, <1>12, UniqueMeans
  <2> DEFINE x == Owning(h, obj[o].refs \ {Lent(depth)})
  <2>3. /\ x \in SwiftObjects /\ x.kind = "owned" /\ x.handle = h
        /\ x.refs = obj[o].refs \ {Lent(depth)}
    BY <1>4 DEF Owning, SwiftObjects
  <2>4. obj' = [obj EXCEPT ![o] = x]
    BY <2>1
  <2> HIDE DEF x
  <2>5. obj'[o] = x /\ \A q \in Objects : q # o => obj'[q] = obj[q]
    BY <1>4, <2>3, <2>4, ObjectChanged DEF SwiftInv
  <2>6. \A n \in Nat :
          /\ Argument(n) \in x.refs <=> Argument(n) \in obj[o].refs
          /\ Loaded(n) \in x.refs <=> Loaded(n) \in obj[o].refs
          /\ n # depth => (Lent(n) \in x.refs <=> Lent(n) \in obj[o].refs)
    BY <1>2, <2>3, HolderTypes
  <2>7. Loaded(depth) \in x.refs <=> f.loaded = o
    BY <1>2, <1>4, <1>5, <2>6 DEF Match
  <2>8. Lent(depth) \notin x.refs /\ o \notin f.lent
    BY <1>5, <2>3
  <2>9. Match(o, x, frames')
    BY <1>1, <1>4, <1>5, <1>8, <2>2, <2>3, <2>6, <2>7, <2>8, MatchCall
  <2>10. ASSUME NEW y \in Handles PROVE SoleOwner(obj', live', frames', y)
    <3>1. CASE y = h
      <4>1. /\ \A q \in Objects : ~OwnedBy(obj[q], y)
            /\ \A i \in 1..Len(frames) : ~HeldBy(frames[i], y)
        BY <2>1, <3>1, Unowned
      <4>2. ~HeldBy(f, y)
        BY <1>2, <1>9, <4>1
      <4>3. OwnedBy(obj'[o], y) /\ y \in live' /\ \A q \in Objects : q # o => ~OwnedBy(obj'[q], y)
        BY <2>1, <2>3, <2>5, <3>1, <4>1 DEF OwnedBy
      <4> QED BY <1>1, <1>4, <1>5, <4>1, <4>2, <4>3, ObjectGets
    <3>2. CASE y # h
      <4>1. \A q \in Objects : OwnedBy(obj'[q], y) <=> OwnedBy(obj[q], y)
        BY <1>4, <2>3, <2>5, <3>2 DEF OwnedBy
      <4>2. y \in live' <=> y \in live
        BY <2>1, <3>2
      <4> QED BY <1>1, <1>5, <1>9, <4>1, <4>2, CallKeeps
    <3> QED BY <3>1, <3>2
  <2>11. live' \in SUBSET Handles
    BY <2>1 DEF SwiftInv, SwiftTypes
  <2> QED BY <1>1, <1>4, <1>5, <1>6, <1>7, <1>8, <1>10, <2>3, <2>4, <2>9, <2>10, <2>11,
             CallObjectStep
<1> QED BY <1>11, <1>12

-----------------------------------------------------------------------------
\* A call that has just started holds nothing.
LEMMA NewCall ==
    ASSUME NEW o \in Objects
    PROVE  /\ Frame(o) \in NativeCalls /\ Shape(Frame(o)) /\ Frame(o).arg = o
           /\ Frame(o).lent = {} /\ Frame(o).loaded = NoObject
           /\ \A h \in Handles : ~HeldBy(Frame(o), h) /\ h \notin Frame(o).own
  BY HandlesAssumption DEF Frame, NativeCalls, Shape, HeldBy

\* The owner of a handle, where a call has started that does not hold it, or one
\* has ended.
LEMMA OwnerStaysAcross ==
    ASSUME NEW ob, NEW lv, NEW fs, NEW ob2, NEW lv2, NEW fs2, NEW h,
           SoleOwner(ob, lv, fs, h), h \in lv2 <=> h \in lv,
           \A o \in Objects : OwnedBy(ob2[o], h) <=> OwnedBy(ob[o], h),
           \A i : (i \in 1..Len(fs2) /\ HeldBy(fs2[i], h))
                    <=> (i \in 1..Len(fs) /\ HeldBy(fs[i], h)),
           \A i \in 1..Len(fs2) : h \in fs2[i].own => h # fs2[i].out
    PROVE  SoleOwner(ob2, lv2, fs2, h)
<1>1. (\E i \in 1..Len(fs2) : HeldBy(fs2[i], h)) <=> (\E i \in 1..Len(fs) : HeldBy(fs[i], h))
  OBVIOUS
<1>2. /\ \A o \in Objects, i \in 1..Len(fs2) : ~(OwnedBy(ob2[o], h) /\ HeldBy(fs2[i], h))
      /\ \A i, j \in 1..Len(fs2) : HeldBy(fs2[i], h) /\ HeldBy(fs2[j], h) => i = j
  BY DEF SoleOwner
<1> QED BY <1>1, <1>2 DEF SoleOwner

\* A native call starts.
LEMMA StartCallInv ==
    ASSUME SwiftInv, NEW o \in Objects, StartCall(o)
    PROVE  SwiftInv'
<1> DEFINE x == With(o, obj[o].refs \cup {Argument(depth + 1)})
           g == Frame(o)
<1>1. /\ depth = Len(frames) /\ depth \in Nat /\ frames \in Seq(NativeCalls)
      /\ obj[o] \in SwiftObjects
      /\ obj[o].refs \in SUBSET Holders /\ obj \in [Objects -> SwiftObjects]
      /\ live' = live /\ trapped' = trapped
  BY DEF SwiftInv, SwiftTypes, SwiftObjects, depth, StartCall
<1>2. /\ x \in SwiftObjects
      /\ [obj[o] EXCEPT !.refs = obj[o].refs \cup {Argument(depth + 1)}] = x
  <2>1. Argument(depth + 1) \in Holders
    BY <1>1, HolderTypes
  <2>2. obj[o].refs \cup {Argument(depth + 1)} \in SUBSET Holders
    BY <1>1, <2>1
  <2> QED BY <2>2, RefsChanged DEF SwiftInv
<1>3. /\ x.kind = obj[o].kind /\ x.handle = obj[o].handle
      /\ x.refs = obj[o].refs \cup {Argument(depth + 1)}
  BY <1>1 DEF With
<1>4. obj' = [obj EXCEPT ![o] = x]
  BY <1>1, <1>2 DEF StartCall
<1> HIDE DEF x
<1>5. /\ obj' \in [Objects -> SwiftObjects] /\ obj'[o] = x
      /\ \A q \in Objects : q # o => obj'[q] = obj[q]
  BY <1>2, <1>3, <1>4, ObjectChanged DEF SwiftInv
<1>6. /\ g \in NativeCalls /\ Shape(g) /\ g.arg = o /\ g.lent = {} /\ g.loaded = NoObject
      /\ \A h \in Handles : ~HeldBy(g, h) /\ h \notin g.own
  BY NewCall
<1>7. frames' = Append(frames, g)
  BY DEF StartCall
<1> HIDE DEF g
<1>8. /\ Len(frames') = depth + 1 /\ frames' \in Seq(NativeCalls) /\ frames'[depth + 1] = g
      /\ \A i \in 1..depth : frames'[i] = frames[i]
  BY <1>1, <1>6, <1>7
<1>9. SwiftTypes'
  BY <1>1, <1>5, <1>8 DEF SwiftInv, SwiftTypes
<1>10. Shapes(frames')
  <2>1. depth > 0 => frames[depth].pc = "body"
    BY DEF StartCall, AppRuns, Top
  <2> QED BY <1>1, <1>6, <1>8, <2>1 DEF SwiftInv, Shapes
<1>11. \A q \in Objects : obj'[q].kind = obj[q].kind /\ obj'[q].handle = obj[q].handle
  BY <1>3, <1>5
<1>12. ASSUME NEW q \in Objects PROVE Match(q, obj'[q], frames')
  <2>1. Match(q, obj[q], frames)
    BY DEF SwiftInv
  <2>2. /\ obj'[q].refs = {} => obj'[q] = Gone
        /\ obj'[q].refs # {} => obj'[q].kind # "nil"
    <3>1. CASE q = o
      BY <1>3, <1>5, <3>1, KnownExists DEF StartCall
    <3>2. CASE q # o
      BY <1>5, <2>1, <3>2 DEF Match
    <3> QED BY <3>1, <3>2
  <2>3. obj'[q].kind = "owned" => obj'[q].handle \in Handles
    BY <1>11, <2>1 DEF Match
  <2>4. obj'[q].kind = "borrowed" <=> \E n \in 1..Len(frames') : q \in frames'[n].lent
    BY <1>1, <1>6, <1>8, <1>11, <2>1 DEF Match
  <2>5. ASSUME NEW n \in Nat
        PROVE  /\ Argument(n) \in obj'[q].refs <=> n \in 1..Len(frames') /\ frames'[n].arg = q
               /\ Lent(n) \in obj'[q].refs <=> n \in 1..Len(frames') /\ q \in frames'[n].lent
               /\ Loaded(n) \in obj'[q].refs <=> n \in 1..Len(frames') /\ frames'[n].loaded = q
    <3>1. /\ Argument(n) \in obj[q].refs <=> n \in 1..depth /\ frames[n].arg = q
          /\ Lent(n) \in obj[q].refs <=> n \in 1..depth /\ q \in frames[n].lent
          /\ Loaded(n) \in obj[q].refs <=> n \in 1..depth /\ frames[n].loaded = q
      BY <1>1, <2>1 DEF Match
    <3>2. /\ Argument(n) \in obj'[q].refs <=> Argument(n) \in obj[q].refs \/ (q = o /\ n = depth + 1)
          /\ Lent(n) \in obj'[q].refs <=> Lent(n) \in obj[q].refs
          /\ Loaded(n) \in obj'[q].refs <=> Loaded(n) \in obj[q].refs
      BY <1>1, <1>3, <1>5, HolderTypes
    <3>3. n \in 1..Len(frames') <=> n \in 1..depth \/ n = depth + 1
      BY <1>1, <1>8
    <3>4. q # NoObject
      BY HandlesAssumption
    <3> QED BY <1>1, <1>6, <1>8, <3>1, <3>2, <3>3, <3>4
  <2> QED BY <2>2, <2>3, <2>4, <2>5 DEF Match
<1>13. OneLender(frames')
  BY <1>1, <1>6, <1>8 DEF SwiftInv, OneLender
<1>14. ASSUME NEW n \in 1..Len(frames'), NEW q \in frames'[n].lent
       PROVE  \E k \in 1..n : Root(obj', frames'[k], obj'[q].handle)
  <2>1. n \in 1..depth /\ n \in 1..Len(frames) /\ q \in frames[n].lent
    BY <1>1, <1>6, <1>8
  <2>2. q \in Objects
    BY <2>1, CallObjects
  <2>3. PICK k \in 1..n : Root(obj, frames[k], obj[q].handle)
    BY <2>1 DEF SwiftInv, Rooted
  <2>4. k \in 1..Len(frames) /\ frames'[k] = frames[k] /\ frames[k].arg \in Objects
    BY <1>1, <1>8, <2>1, CallObjects
  <2>5. Root(obj', frames'[k], obj'[q].handle)
    BY <1>11, <2>2, <2>3, <2>4 DEF Root
  <2> QED BY <2>5
<1>15. Rooted(obj', frames')
  BY <1>14 DEF Rooted
<1>16. ASSUME NEW h \in Handles PROVE SoleOwner(obj', live', frames', h)
  <2>1. SoleOwner(obj, live, frames, h)
    BY DEF SwiftInv
  <2>2. \A q \in Objects : OwnedBy(obj'[q], h) <=> OwnedBy(obj[q], h)
    BY <1>11 DEF OwnedBy
  <2>3. ~HeldBy(g, h) /\ h \notin g.own
    BY <1>6
  <2>4. \A i \in 1..Len(frames) : h \in frames[i].own => h # frames[i].out
    BY <2>1 DEF SoleOwner
  <2>5. \A i : (i \in 1..Len(frames') /\ HeldBy(frames'[i], h))
                 <=> (i \in 1..Len(frames) /\ HeldBy(frames[i], h))
    BY <1>1, <1>8, <2>3
  <2>6. \A i \in 1..Len(frames') : h \in frames'[i].own => h # frames'[i].out
    BY <1>1, <1>8, <2>3, <2>4
  <2> QED BY <1>1, <2>1, <2>2, <2>5, <2>6, OwnerStaysAcross
<1> QED BY <1>1, <1>9, <1>10, <1>12, <1>13, <1>15, <1>16 DEF SwiftInv, SwiftNeverTraps


\* A call ends: it drops what it owns, and its argument if nothing else has that.
LEMMA EndCallInv == SwiftInv /\ EndCall => SwiftInv'
<1> SUFFICES ASSUME SwiftInv, EndCall PROVE SwiftInv'
  OBVIOUS
<1> DEFINE o == Top.arg
           last == obj[o].refs = {Argument(depth)}
           x == IF last THEN Gone ELSE With(o, obj[o].refs \ {Argument(depth)})
<1>1. depth > 0 /\ Top.pc \in {"rust", "failed"} /\ frames' = SubSeq(frames, 1, depth - 1)
  BY DEF EndCall
<1>2. /\ Top \in NativeCalls /\ Shape(Top) /\ depth \in Nat \ {0} /\ Top = frames[depth]
      /\ depth \in 1..Len(frames) /\ depth = Len(frames) /\ frames \in Seq(NativeCalls)
  BY <1>1, TopCall DEF SwiftInv, SwiftTypes
<1>3. Top.lent = {} /\ Top.loaded = NoObject /\ Top.out = NoHandle
  BY <1>1, <1>2 DEF Shape
<1>4. o \in Objects /\ Argument(depth) \in obj[o].refs
  BY <1>2, CallObjects
<1>5. /\ obj[o] \in SwiftObjects /\ Match(o, obj[o], frames)
      /\ obj[o].refs \in SUBSET Holders /\ obj \in [Objects -> SwiftObjects]
      /\ live \in SUBSET Handles
  BY <1>4 DEF SwiftInv, SwiftTypes, SwiftObjects
<1>6. [obj[o] EXCEPT !.refs = obj[o].refs \ {Argument(depth)}]
          = With(o, obj[o].refs \ {Argument(depth)})
  BY <1>4, <1>5, RefsChanged DEF SwiftInv
<1>7. obj' = [obj EXCEPT ![o] = x]
  BY <1>6 DEF EndCall, Without
<1>8. /\ Gone \in SwiftObjects /\ Gone.refs = {} /\ Gone.kind = "nil"
  BY DEF Gone, SwiftObjects
<1>9. /\ With(o, obj[o].refs \ {Argument(depth)}) \in SwiftObjects
  BY <1>4, <1>5, RefsChanged DEF SwiftInv
<1>10. /\ x \in SwiftObjects
       /\ x.refs = obj[o].refs \ {Argument(depth)}
       /\ last => x = Gone
       /\ ~last => x.kind = obj[o].kind /\ x.handle = obj[o].handle /\ x.refs # {}
  BY <1>4, <1>8, <1>9 DEF With
<1>11. /\ obj' \in [Objects -> SwiftObjects] /\ obj'[o] = x
       /\ \A q \in Objects : q # o => obj'[q] = obj[q]
  BY <1>4, <1>7, <1>10, ObjectChanged DEF SwiftInv
<1>12. /\ Len(frames') = depth - 1 /\ frames' \in Seq(NativeCalls)
       /\ \A i \in 1..Len(frames') : frames'[i] = frames[i] /\ i \in 1..Len(frames) /\ i # depth
       /\ \A i \in 1..Len(frames) : i # depth => i \in 1..Len(frames')
  BY <1>1, <1>2
<1>13. last => obj[o].kind = "owned" /\ obj[o].handle \in Handles
  <2>1. ASSUME last, NEW n \in 1..Len(frames) PROVE o \notin frames[n].lent
    <3>1. n \in Nat /\ Lent(n) \notin obj[o].refs
      BY <1>2, <2>1, HolderTypes
    <3> QED BY <3>1, CallObjects
  <2> QED BY <1>4, <1>5, <2>1 DEF Match, SwiftObjects
<1> HIDE DEF x
<1>14. trapped' = trapped
  BY <1>13 DEF EndCall
<1>15. live' = live \ (Top.own \cup (IF last THEN {obj[o].handle} ELSE {}))
  BY <1>13 DEF EndCall, destroy, Owned
<1> HIDE DEF last
<1>16. SwiftTypes'
  BY <1>5, <1>11, <1>12, <1>15 DEF SwiftTypes
<1>17. Shapes(frames')
  BY <1>2, <1>12 DEF SwiftInv, Shapes
<1>18. \A q \in Objects, n \in 1..Len(frames') :
          frames[n].arg = q \/ q \in frames[n].lent =>
              obj'[q].kind = obj[q].kind /\ obj'[q].handle = obj[q].handle
  <2> SUFFICES ASSUME NEW q \in Objects, NEW n \in 1..Len(frames'),
                      frames[n].arg = q \/ q \in frames[n].lent, q = o
               PROVE  ~last
    BY <1>10, <1>11
  <2>1. n \in Nat /\ n # depth /\ (Argument(n) \in obj[o].refs \/ Lent(n) \in obj[o].refs)
    BY <1>12, CallObjects
  <2> QED BY <1>2, <2>1, HolderTypes DEF last
<1>19. ASSUME NEW q \in Objects PROVE Match(q, obj'[q], frames')
  <2>1. Match(q, obj[q], frames)
    BY DEF SwiftInv
  <2>2. ASSUME NEW n \in Nat
        PROVE  /\ Argument(n) \in obj'[q].refs <=> n \in 1..Len(frames') /\ frames'[n].arg = q
               /\ Lent(n) \in obj'[q].refs <=> n \in 1..Len(frames') /\ q \in frames'[n].lent
               /\ Loaded(n) \in obj'[q].refs <=> n \in 1..Len(frames') /\ frames'[n].loaded = q
    <3>1. /\ Argument(n) \in obj[q].refs <=> n \in 1..Len(frames) /\ frames[n].arg = q
          /\ Lent(n) \in obj[q].refs <=> n \in 1..Len(frames) /\ q \in frames[n].lent
          /\ Loaded(n) \in obj[q].refs <=> n \in 1..Len(frames) /\ frames[n].loaded = q
      BY <2>1 DEF Match
    <3>2. /\ Argument(n) \in obj'[q].refs <=> Argument(n) \in obj[q].refs /\ ~(q = o /\ n = depth)
          /\ Lent(n) \in obj'[q].refs <=> Lent(n) \in obj[q].refs
          /\ Loaded(n) \in obj'[q].refs <=> Loaded(n) \in obj[q].refs
      BY <1>2, <1>10, <1>11, HolderTypes
    <3>3. n \in 1..Len(frames') <=> n \in 1..Len(frames) /\ n # depth
      BY <1>12
    <3>4. q # NoObject
      BY HandlesAssumption
    <3> QED BY <1>2, <1>3, <1>12, <3>1, <3>2, <3>3, <3>4
  <2>3. /\ obj'[q].refs = {} => obj'[q] = Gone
        /\ obj'[q].refs # {} => obj'[q].kind # "nil"
        /\ obj'[q].kind = "owned" => obj'[q].handle \in Handles
    <3>1. CASE q = o
      BY <1>5, <1>8, <1>10, <1>11, <3>1 DEF Match
    <3>2. CASE q # o
      BY <1>11, <2>1, <3>2 DEF Match
    <3> QED BY <3>1, <3>2
  <2>4. obj'[q].kind = "borrowed" <=> \E n \in 1..Len(frames') : q \in frames'[n].lent
    <3>1. (\E n \in 1..Len(frames') : q \in frames'[n].lent)
              <=> (\E n \in 1..Len(frames) : q \in frames[n].lent)
      BY <1>2, <1>3, <1>12
    <3>2. obj'[q].kind = "borrowed" <=> obj[q].kind = "borrowed"
      BY <1>8, <1>10, <1>11, <1>13
    <3> QED BY <2>1, <3>1, <3>2 DEF Match
  <2> QED BY <2>2, <2>3, <2>4 DEF Match
<1>20. OneLender(frames')
  BY <1>12 DEF SwiftInv, OneLender
<1>21. ASSUME NEW n \in 1..Len(frames'), NEW q \in frames'[n].lent
       PROVE  \E k \in 1..n : Root(obj', frames'[k], obj'[q].handle)
  <2>1. n \in 1..Len(frames) /\ q \in frames[n].lent /\ q \in Objects
    BY <1>12, CallObjects
  <2>2. obj'[q].handle = obj[q].handle
    BY <1>18, <2>1
  <2>3. PICK k \in 1..n : Root(obj, frames[k], obj[q].handle)
    BY <2>1 DEF SwiftInv, Rooted
  <2>4. k \in 1..Len(frames')
    BY <1>2, <1>12
  <2>5. frames'[k] = frames[k] /\ k \in 1..Len(frames) /\ frames[k].arg \in Objects
    BY <1>12, <2>4, CallObjects
  <2>6. obj'[frames[k].arg].kind = obj[frames[k].arg].kind
        /\ obj'[frames[k].arg].handle = obj[frames[k].arg].handle
    BY <1>18, <2>4, <2>5
  <2>7. Root(obj', frames'[k], obj'[q].handle)
    BY <2>2, <2>3, <2>5, <2>6 DEF Root
  <2> QED BY <2>7
<1>22. Rooted(obj', frames')
  BY <1>21 DEF Rooted
<1>23. ASSUME NEW h \in Handles PROVE SoleOwner(obj', live', frames', h)
  <2>1. SoleOwner(obj, live, frames, h)
    BY DEF SwiftInv
  <2>2. \A i \in 1..Len(frames') : h \in frames'[i].own => h # frames'[i].out
    BY <1>12, <2>1 DEF SoleOwner
  <2>3. HeldBy(frames[depth], h) <=> h \in Top.own
    BY <1>2, <1>3, HandlesAssumption DEF HeldBy
  <2>4. \A i \in 1..Len(frames') : HeldBy(frames'[i], h) => HeldBy(frames[i], h)
    BY <1>12
  <2>5. \A q \in Objects : OwnedBy(obj'[q], h) => OwnedBy(obj[q], h)
    BY <1>8, <1>10, <1>11 DEF OwnedBy
  <2>6. CASE h \in Top.own
    <3>1. /\ \A q \in Objects : ~OwnedBy(obj[q], h)
          /\ \A i \in 1..Len(frames) : i # depth => ~HeldBy(frames[i], h)
      BY <1>2, <2>1, <2>3, <2>6 DEF SoleOwner
    <3>2. /\ \A q \in Objects : ~OwnedBy(obj'[q], h)
          /\ \A i \in 1..Len(frames') : ~HeldBy(frames'[i], h)
          /\ h \notin live'
      BY <1>12, <1>15, <2>4, <2>5, <2>6, <3>1
    <3> QED BY <2>2, <3>2 DEF SoleOwner
  <2>7. CASE h \notin Top.own /\ last /\ h = obj[o].handle
    <3>1. OwnedBy(obj[o], h)
      BY <1>13, <2>7 DEF OwnedBy
    <3>2. /\ \A q \in Objects : q # o => ~OwnedBy(obj[q], h)
          /\ \A i \in 1..Len(frames) : ~HeldBy(frames[i], h)
      BY <1>4, <2>1, <3>1 DEF SoleOwner
    <3>3. ~OwnedBy(obj'[o], h)
      BY <1>8, <1>10, <1>11, <2>7 DEF OwnedBy
    <3>4. /\ \A q \in Objects : ~OwnedBy(obj'[q], h)
          /\ \A i \in 1..Len(frames') : ~HeldBy(frames'[i], h)
          /\ h \notin live'
      BY <1>12, <1>15, <2>4, <2>5, <2>7, <3>2, <3>3
    <3> QED BY <2>2, <3>4 DEF SoleOwner
  <2>8. CASE h \notin Top.own /\ ~(last /\ h = obj[o].handle)
    <3>1. h \in live' <=> h \in live
      BY <1>15, <2>8
    <3>2. \A q \in Objects : OwnedBy(obj'[q], h) <=> OwnedBy(obj[q], h)
      BY <1>8, <1>10, <1>11, <2>8 DEF OwnedBy
    <3>3. \A i : (i \in 1..Len(frames') /\ HeldBy(frames'[i], h))
                   <=> (i \in 1..Len(frames) /\ HeldBy(frames[i], h))
      BY <1>12, <2>3, <2>8
    <3> QED BY <2>1, <2>2, <3>1, <3>2, <3>3, OwnerStaysAcross
  <2> QED BY <2>6, <2>7, <2>8
<1> QED BY <1>14, <1>16, <1>17, <1>19, <1>20, <1>22, <1>23 DEF SwiftInv, SwiftNeverTraps


\* What a callback is lent: handles the call owns, and its argument's.
LEMMA Wrapped ==
    ASSUME SwiftInv, NEW op \in Callbacks, CallBack(op)
    PROVE  \E lent \in SUBSET Objects :
              /\ Become([Top EXCEPT !.pc = "body", !.op = op, !.lent = lent])
              /\ obj' \in [Objects -> SwiftObjects]
              /\ \A q \in Objects \ lent : obj'[q] = obj[q]
              /\ \A q \in lent :
                   /\ ~Exists(q) /\ obj'[q].kind = "borrowed" /\ obj'[q].refs = {Lent(depth)}
                   /\ obj'[q].handle \in Top.own \cup {obj[Top.arg].handle}
<1>1. depth > 0
  BY DEF CallBack
<1>2. Top \in NativeCalls /\ depth \in Nat
  BY <1>1, TopCall
<1>3. PICK handles \in {IF LendsArgument(op) THEN {obj[Top.arg].handle} ELSE {}},
           records \in IF LendsRecord(op) THEN {{h} : h \in Top.own} ELSE {{}} :
         \E wrapped \in [handles \cup records -> {o \in Objects : ~Exists(o)}] :
            Borrow(op, wrapped)
  BY DEF CallBack
<1> DEFINE S == handles \cup records
<1>4. PICK wrapped \in [S -> {o \in Objects : ~Exists(o)}] : Borrow(op, wrapped)
  BY <1>3
<1>13. DOMAIN wrapped = S
  OBVIOUS
<1>5. /\ obj' = [o \in Objects |->
                      IF \E h \in S : wrapped[h] = o
                      THEN Borrowing(CHOOSE h \in S : wrapped[h] = o, {Lent(depth)})
                      ELSE obj[o]]
      /\ Become([Top EXCEPT !.pc = "body", !.op = op, !.lent = {wrapped[h] : h \in S}])
  BY <1>4, <1>13, Zenon DEF Borrow
<1>6. S \subseteq Top.own \cup {obj[Top.arg].handle}
  BY <1>3
<1>7. Top.own \cup {obj[Top.arg].handle} \subseteq Handles \cup {NoHandle}
  BY <1>2 DEF NativeCalls, SwiftInv, SwiftTypes, SwiftObjects
<1> HIDE DEF S
<1> DEFINE lent == {wrapped[h] : h \in S}
<1>8. lent \in SUBSET Objects /\ \A q \in lent : ~Exists(q)
  BY <1>5
<1>9. ASSUME NEW q \in lent
      PROVE  /\ obj'[q] \in SwiftObjects /\ obj'[q].kind = "borrowed" /\ obj'[q].refs = {Lent(depth)}
             /\ obj'[q].handle \in Top.own \cup {obj[Top.arg].handle}
  <2> DEFINE h == CHOOSE h \in S : wrapped[h] = q
  <2>1. h \in S
    BY <1>9
  <2>2. obj'[q] = Borrowing(h, {Lent(depth)})
    BY <1>5, <1>8
  <2> HIDE DEF h
  <2> QED BY <1>2, <1>6, <1>7, <2>1, <2>2, HolderTypes DEF Borrowing, SwiftObjects
<1>10. \A q \in Objects \ lent : obj'[q] = obj[q]
  BY <1>5
<1>11. obj' \in [Objects -> SwiftObjects]
  <2>1. \A q \in Objects : obj'[q] \in SwiftObjects
    BY <1>9, <1>10 DEF SwiftInv, SwiftTypes
  <2> HIDE DEF lent
  <2>2. obj' = [q \in Objects |-> obj'[q]]
    BY <1>5
  <2> QED BY <2>1, <2>2
<1>12. Become([Top EXCEPT !.pc = "body", !.op = op, !.lent = lent])
  BY <1>5
<1> HIDE DEF lent
<1> QED BY <1>8, <1>9, <1>10, <1>11, <1>12

\* Rust calls back.
LEMMA CallBackInv ==
    ASSUME SwiftInv, NEW op \in Callbacks, CallBack(op)
    PROVE  SwiftInv'
<1>1. depth > 0 /\ Top.pc = "rust" /\ live' = live /\ trapped' = trapped
  BY DEF CallBack
<1>2. /\ Top \in NativeCalls /\ Shape(Top) /\ depth \in Nat \ {0} /\ Top = frames[depth]
      /\ depth \in 1..Len(frames) /\ depth = Len(frames)
  BY <1>1, TopCall
<1>3. Top.lent = {} /\ Top.loaded = NoObject /\ Top.out = NoHandle /\ Top.code = 0
  BY <1>1, <1>2 DEF Shape
<1>4. PICK lent \in SUBSET Objects :
              /\ Become([Top EXCEPT !.pc = "body", !.op = op, !.lent = lent])
              /\ obj' \in [Objects -> SwiftObjects]
              /\ \A q \in Objects \ lent : obj'[q] = obj[q]
              /\ \A q \in lent :
                   /\ ~Exists(q) /\ obj'[q].kind = "borrowed" /\ obj'[q].refs = {Lent(depth)}
                   /\ obj'[q].handle \in Top.own \cup {obj[Top.arg].handle}
  BY Wrapped
<1> DEFINE f == [Top EXCEPT !.pc = "body", !.op = op, !.lent = lent]
<1>5. /\ f \in NativeCalls /\ f.pc = "body" /\ f.code = Top.code /\ f.own = Top.own
      /\ f.arg = Top.arg /\ f.op = op /\ f.lent = lent /\ f.loaded = Top.loaded
      /\ f.out = Top.out /\ Become(f)
  BY <1>2, <1>4 DEF NativeCalls
<1> HIDE DEF f
<1>6. Shape(f)
  BY <1>3, <1>5 DEF Shape
<1>7. /\ Len(frames') = Len(frames) /\ frames'[depth] = f /\ frames' \in Seq(NativeCalls)
      /\ \A i \in 1..Len(frames) : i # depth => frames'[i] = frames[i]
  BY <1>1, <1>2, <1>5, CallKeeps, CallChanged DEF SwiftInv
<1>8. ASSUME NEW q \in lent
      PROVE  /\ obj[q].refs = {} /\ obj[q].kind = "nil"
             /\ \A n \in 1..Len(frames) :
                   frames[n].arg # q /\ q \notin frames[n].lent /\ frames[n].loaded # q
  BY <1>4, NotExists
<1>10. SwiftTypes'
  BY <1>1, <1>4, <1>7 DEF SwiftInv, SwiftTypes
<1>11. Shapes(frames')
  BY <1>2, <1>6, <1>7 DEF SwiftInv, Shapes
<1>12. ASSUME NEW q \in Objects PROVE Match(q, obj'[q], frames')
  <2>1. CASE q \notin lent
    BY <1>1, <1>3, <1>4, <1>5, <2>1, CallKeeps
  <2>2. CASE q \in lent
    <3>1. /\ obj'[q].kind = "borrowed" /\ obj'[q].refs = {Lent(depth)} /\ obj[q].refs = {}
      BY <1>4, <1>8, <2>2
    <3>2. \A n \in Nat : /\ Argument(n) \notin obj'[q].refs /\ Loaded(n) \notin obj'[q].refs
                         /\ n # depth => Lent(n) \notin obj'[q].refs
      BY <1>2, <3>1, HolderTypes
    <3>3. \E n \in 1..Len(frames') : q \in frames'[n].lent
      BY <1>2, <1>5, <1>7, <2>2
    <3>4. f.loaded # q /\ q \in f.lent
      BY <1>3, <1>5, <2>2, HandlesAssumption
    <3> QED BY <1>1, <1>2, <1>5, <3>1, <3>2, <3>3, <3>4, MatchCall
  <2> QED BY <2>1, <2>2
<1>13. OneLender(frames')
  <2>1. OneLender(frames)
    BY DEF SwiftInv
  <2> QED BY <1>5, <1>7, <1>8, <2>1, SMTT(30) DEF OneLender
<1>14. \A n \in 1..Len(frames) :
          /\ frames'[n].arg = frames[n].arg /\ frames'[n].own = frames[n].own
          /\ frames[n].arg \in Objects /\ frames[n].arg \notin lent
  BY <1>2, <1>5, <1>7, <1>8, CallObjects
<1>15. ASSUME NEW m \in 1..Len(frames), NEW q \in frames[m].lent
       PROVE  /\ q \in Objects
              /\ \E k \in 1..m : Root(obj', frames'[k], obj[q].handle)
  <2>1. PICK k \in 1..m : Root(obj, frames[k], obj[q].handle)
    BY DEF SwiftInv, Rooted
  <2>2. k \in 1..Len(frames) /\ m \in Nat
    BY <1>2
  <2>3. obj'[frames[k].arg] = obj[frames[k].arg]
    BY <1>4, <1>14, <2>2
  <2>4. Root(obj', frames'[k], obj[q].handle)
    BY <1>14, <2>1, <2>2, <2>3 DEF Root
  <2> QED BY <2>4, CallObjects
<1>16. ASSUME NEW n \in 1..Len(frames'), NEW q \in frames'[n].lent
       PROVE  \E k \in 1..n : Root(obj', frames'[k], obj'[q].handle)
  <2>1. CASE n # depth
    <3>1. n \in 1..Len(frames) /\ q \in frames[n].lent
      BY <1>7, <2>1
    <3>2. q \in Objects /\ q \notin lent
      BY <1>8, <1>15, <3>1
    <3> QED BY <1>4, <1>15, <3>1, <3>2
  <2>2. CASE n = depth
    <3>1. q \in lent /\ n \in 1..n /\ n \in 1..Len(frames)
      BY <1>2, <1>5, <1>7, <2>2
    <3>2. CASE obj'[q].handle \in Top.own
      BY <1>2, <1>5, <1>7, <2>2, <3>1, <3>2 DEF Root
    <3>3. CASE obj'[q].handle = obj[Top.arg].handle
      <4>1. /\ Top.arg \in Objects /\ obj'[Top.arg] = obj[Top.arg] /\ f.arg = Top.arg
            /\ Argument(depth) \in obj[Top.arg].refs /\ obj[Top.arg] \in SwiftObjects
        BY <1>2, <1>4, <1>5, <1>14, CallObjects DEF SwiftInv, SwiftTypes
      <4>2. obj[Top.arg].kind \in {"owned", "borrowed"} /\ Match(Top.arg, obj[Top.arg], frames)
        BY <4>1 DEF SwiftInv, Match, SwiftObjects
      <4>3. CASE obj[Top.arg].kind = "owned"
        BY <1>7, <2>2, <3>1, <3>3, <4>1, <4>3 DEF Root
      <4>4. CASE obj[Top.arg].kind = "borrowed"
        <5>1. PICK m \in 1..Len(frames) : Top.arg \in frames[m].lent
          BY <4>2, <4>4 DEF Match
        <5>2. PICK k \in 1..m : Root(obj', frames'[k], obj[Top.arg].handle)
          BY <1>15, <5>1
        <5>3. k \in 1..n
          BY <1>2, <2>2
        <5> QED BY <3>3, <5>2, <5>3
      <4> QED BY <4>2, <4>3, <4>4
    <3> QED BY <1>4, <3>1, <3>2, <3>3
  <2> QED BY <2>1, <2>2
<1>17. Rooted(obj', frames')
  BY <1>16 DEF Rooted
<1>18. ASSUME NEW h \in Handles PROVE SoleOwner(obj', live', frames', h)
  <2>1. (HeldBy(f, h) <=> HeldBy(Top, h)) /\ (h \in f.own => h # f.out)
    BY <1>3, <1>5, HandlesAssumption DEF HeldBy
  <2>2. \A q \in Objects : OwnedBy(obj'[q], h) <=> OwnedBy(obj[q], h)
    BY <1>4, <1>8 DEF OwnedBy
  <2> QED BY <1>1, <1>5, <2>1, <2>2, CallKeeps
<1> QED BY <1>1, <1>10, <1>11, <1>12, <1>13, <1>17, <1>18 DEF SwiftInv, SwiftNeverTraps

-----------------------------------------------------------------------------
\* At first there are no objects and no calls.
LEMMA InitInv == SwiftInit => SwiftInv
<1> SUFFICES ASSUME SwiftInit PROVE SwiftInv
  OBVIOUS
<1>1. /\ Gone \in SwiftObjects /\ Gone.refs = {} /\ Gone.kind = "nil"
  BY DEF Gone, SwiftObjects
<1>2. \A o \in Objects : obj[o] = Gone
  BY DEF SwiftInit
<1>3. frames = <<>> /\ Len(frames) = 0 /\ live = {} /\ 1..Len(frames) = {}
  BY DEF SwiftInit
<1>8. obj \in [Objects -> SwiftObjects]
  BY <1>1 DEF SwiftInit
<1>9. frames \in Seq(NativeCalls)
  BY <1>3
<1>4. SwiftTypes
  BY <1>1, <1>2, <1>3, <1>8, <1>9 DEF SwiftTypes
<1>5. Shapes(frames) /\ OneLender(frames) /\ Rooted(obj, frames)
  BY <1>3 DEF Shapes, OneLender, Rooted
<1>6. \A o \in Objects : Match(o, obj[o], frames)
  BY <1>1, <1>2, <1>3 DEF Match
<1>7. \A h \in Handles : SoleOwner(obj, live, frames, h)
  BY <1>1, <1>2, <1>3 DEF SoleOwner, OwnedBy
<1> QED BY <1>4, <1>5, <1>6, <1>7 DEF SwiftInv, SwiftNeverTraps, SwiftInit

\* Every step keeps the invariant.
LEMMA StepInv == SwiftInv /\ [SwiftNext]_swiftVars => SwiftInv'
<1> SUFFICES ASSUME SwiftInv, [SwiftNext]_swiftVars PROVE SwiftInv'
  OBVIOUS
<1>1. CASE UNCHANGED swiftVars
  BY <1>1 DEF swiftVars, SwiftInv, SwiftTypes, SwiftNeverTraps
<1>2. CASE New
  BY <1>2, NewInv
<1>3. CASE \E o \in Objects, holder \in {App, Store} : Retain(o, holder) \/ LetGo(o, holder)
  BY <1>3, KeepInv, ForgetInv
<1>4. CASE \E o \in Objects : StartCall(o) \/ Answer(o)
  BY <1>4, StartCallInv, AnswerInv
<1>5. CASE \E op \in Callbacks : CallBack(op)
  BY <1>5, CallBackInv
<1>6. CASE Create \/ AnswerNew \/ AnswerPlain \/ Throw
  BY <1>6, CreateInv, AnswerNewInv, AnswerPlainInv
<1>7. CASE cloneOrTakeHandle
  <2>1. depth > 0 /\ Top.pc = "convert"
    BY <1>7 DEF cloneOrTakeHandle
  <2> QED BY <1>7, <2>1, TakeInv, CloneInv
<1>8. CASE Defer \/ Back \/ EndCall \/ HandOver
  BY <1>8, DeferInv, BackInv, EndCallInv, HandOverInv
<1> QED BY <1>1, <1>2, <1>3, <1>4, <1>5, <1>6, <1>7, <1>8 DEF SwiftNext

\* The invariant holds throughout.
LEMMA SwiftInvariant == SwiftSpec => []SwiftInv
  BY InitInv, StepInv, PTL DEF SwiftSpec

\* Whatever refers to a Swift object can use it: the native object behind the
\* handle it owns or has borrowed (ClonableHandleOwner) is not freed, in a
\* callback, after it and after the call that lent the handle.
THEOREM SwiftObjectsUsable == SwiftSpec => []SwiftUsable
<1>1. ASSUME SwiftInv, NEW o \in Objects, Exists(o) PROVE obj[o].handle \in live
  <2>1. /\ Match(o, obj[o], frames) /\ obj[o].refs # {} /\ obj[o] \in SwiftObjects
        /\ \A h \in Handles : SoleOwner(obj, live, frames, h)
    BY <1>1 DEF SwiftInv, SwiftTypes, Exists
  <2>2. \A q \in Objects : obj[q].kind = "owned" => obj[q].handle \in live
    BY <1>1, <2>1 DEF SwiftInv, Match, SoleOwner, OwnedBy
  <2>3. CASE obj[o].kind = "borrowed"
    <3>1. PICK n \in 1..Len(frames) : o \in frames[n].lent
      BY <2>1, <2>3 DEF Match
    <3>2. PICK k \in 1..n : Root(obj, frames[k], obj[o].handle)
      BY <1>1, <3>1 DEF SwiftInv, Rooted
    <3>3. k \in 1..Len(frames) /\ frames[k] \in NativeCalls
      BY <1>1, <3>1 DEF SwiftInv, SwiftTypes
    <3>4. CASE obj[o].handle \in frames[k].own
      <4>1. obj[o].handle \in Handles /\ HeldBy(frames[k], obj[o].handle)
        BY <3>3, <3>4 DEF NativeCalls, HeldBy
      <4> QED BY <2>1, <3>3, <4>1 DEF SoleOwner
    <3> QED BY <2>2, <3>2, <3>3, <3>4 DEF Root, NativeCalls
  <2> QED BY <2>1, <2>2, <2>3 DEF Match, SwiftObjects
<1>2. SwiftInv => SwiftUsable
  BY <1>1 DEF SwiftUsable
<1> QED BY <1>2, SwiftInvariant, PTL

\* Every native object has one owner that will free it, a Swift object or a call
\* in progress, whoever keeps what a callback was lent (cloneOrForgetAsNeeded,
\* cloneOrTakeHandle and the deinit of ClonableHandleOwner).
THEOREM SwiftHandlesOwnedOnce == SwiftSpec => []SwiftOwnedOnce
<1>1. ASSUME SwiftInv PROVE SwiftOwnedOnce
  <2>1. /\ \A h \in Handles : SoleOwner(obj, live, frames, h)
        /\ live \subseteq Handles /\ depth = Len(frames)
        /\ \A i \in 1..Len(frames) : frames[i] \in NativeCalls
    BY <1>1 DEF SwiftInv, SwiftTypes, depth
  <2>10. \A i \in 1..Len(frames) : /\ frames[i].own \subseteq Handles
                                   /\ frames[i].out \in Handles \cup {NoHandle}
    BY <2>1 DEF NativeCalls
  <2>2. \A o \in Objects : /\ Owned(o) \subseteq Handles
                           /\ \A h \in Handles : h \in Owned(o) <=> OwnedBy(obj[o], h)
    BY <1>1 DEF Owned, OwnedBy, SwiftInv, Match
  <2>11. \A h : h \in InCalls <=>
                  h # NoHandle /\ \E i \in 1..Len(frames) : h \in frames[i].own \cup {frames[i].out}
    <3> DEFINE Of(i) == frames[i].own \cup {frames[i].out}
               All == UNION {Of(i) : i \in 1..Len(frames)}
    <3>1. InCalls = All \ {NoHandle}
      BY DEF InCalls, depth
    <3> HIDE DEF Of
    <3>2. \A h : h \in All <=> \E i \in 1..Len(frames) : h \in Of(i)
      BY Zenon
    <3> HIDE DEF All
    <3>3. \A h : h \in InCalls <=> h # NoHandle /\ \E i \in 1..Len(frames) : h \in Of(i)
      BY <3>1, <3>2
    <3> QED BY <3>3 DEF Of
  <2>3. InCalls \subseteq Handles
    BY <2>10, <2>11
  <2>4. \A h \in Handles : h \in InCalls <=> \E i \in 1..Len(frames) : HeldBy(frames[i], h)
    BY <2>11, HandlesAssumption DEF HeldBy
  <2>5. live = InCalls \cup UNION {Owned(o) : o \in Objects}
    BY <2>1, <2>2, <2>3, <2>4 DEF SoleOwner
  <2>6. \A o, q \in Objects : Owned(o) \cap Owned(q) # {} => o = q
    BY <2>1, <2>2 DEF SoleOwner
  <2>7. \A o \in Objects : Owned(o) \cap InCalls = {}
    BY <2>1, <2>2, <2>4 DEF SoleOwner
  <2>8. \A i, j \in 1..depth : frames[i].own \cap frames[j].own # {} => i = j
    <3> SUFFICES ASSUME NEW i \in 1..depth, NEW j \in 1..depth,
                        NEW h \in frames[i].own, h \in frames[j].own
                 PROVE  i = j
      OBVIOUS
    <3>1. h \in Handles /\ HeldBy(frames[i], h) /\ HeldBy(frames[j], h)
      BY <2>1, <2>10 DEF HeldBy
    <3> QED BY <2>1, <3>1 DEF SoleOwner
  <2>9. \A i, j \in 1..depth : frames[i].out \notin frames[j].own
    <3> SUFFICES ASSUME NEW i \in 1..depth, NEW j \in 1..depth, frames[i].out \in frames[j].own
                 PROVE  FALSE
      OBVIOUS
    <3> DEFINE h == frames[i].out
    <3>1. h \in Handles /\ HeldBy(frames[i], h) /\ HeldBy(frames[j], h)
      BY <2>1, <2>10 DEF HeldBy
    <3>2. SoleOwner(obj, live, frames, h)
      BY <2>1, <3>1
    <3>3. i = j
      BY <2>1, <3>1, <3>2 DEF SoleOwner
    <3> QED BY <2>1, <3>2, <3>3 DEF SoleOwner
  <2> QED BY <2>5, <2>6, <2>7, <2>8, <2>9 DEF SwiftOwnedOnce
<1> QED BY <1>1, SwiftInvariant, PTL

\* The preconditions of ClonableHandleOwner hold at every step.
THEOREM SwiftNeverTrapping == SwiftSpec => []SwiftNeverTraps
<1>1. SwiftInv => SwiftNeverTraps
  BY DEF SwiftInv
<1> QED BY <1>1, SwiftInvariant, PTL

\* What a callback answers decides how the native call goes on: an error of the
\* application's store (-1) ends it, and nothing else does.
THEOREM SwiftErrorsEnd == SwiftSpec => SwiftErrorsEndCalls
<1> DEFINE A == depth > 0 /\ Top.pc = "defer" /\ Top.lent = {} =>
                   frames'[depth].pc = (IF Top.code = -1 THEN "failed" ELSE "rust")
<1>1. ASSUME SwiftInv, SwiftNext PROVE A
  <2> SUFFICES ASSUME depth > 0, Top.pc = "defer", Top.lent = {}
               PROVE  frames'[depth].pc = (IF Top.code = -1 THEN "failed" ELSE "rust")
    OBVIOUS
  <2>1. Top \in NativeCalls /\ Shape(Top) /\ depth \in 1..Len(frames) /\ frames \in Seq(NativeCalls)
    BY <1>1, TopCall DEF SwiftInv, SwiftTypes
  <2>2. Back
    BY <1>1 DEF SwiftNext, New, Retain, LetGo, StartCall, Answer, CallBack, Create, AnswerNew,
                AnswerPlain, Throw, cloneOrTakeHandle, Defer, EndCall, HandOver, AppRuns
  <2>3. outcome(Top.op, Top.code, Top.out) = "ok" <=> Top.code # -1
    BY <2>1, Outcome
  <2> QED BY <2>1, <2>2, <2>3 DEF Back, Become, NativeCalls
<1>2. SwiftInv /\ [SwiftNext]_swiftVars => [A]_swiftVars
  BY <1>1
<1> QED BY <1>2, SwiftInvariant, PTL DEF SwiftSpec, SwiftErrorsEndCalls
=============================================================================
