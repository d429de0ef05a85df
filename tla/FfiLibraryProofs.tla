-------------------------- MODULE FfiLibraryProofs --------------------------
(***************************************************************************)
(* What a thread may find published by lib(), for any number of threads,   *)
(* any entry points and any files on the disk.  The argument is about the  *)
(* published object only (Published); what a caller holds is either that   *)
(* object or one that has been replaced.  Then that load_library takes     *)
(* the first place that can be loaded, and that the ctypes structs are     *)
(* laid out as the library's.                                              *)
(***************************************************************************)
EXTENDS FfiLibrary, TLAPS

(* The number of entry points that _bind goes through.                    *)
Symbol == Len(Symbols)

(* Sequences: their elements, ...                                          *)
LEMMA Elements ==
    ASSUME NEW S, NEW s \in Seq(S)
    PROVE  Len(s) \in Nat /\ \A i \in 1 .. Len(s) : s[i] \in S
  OBVIOUS

(* ... and what appending an element leaves alone.                         *)
LEMMA OneMore ==
    ASSUME NEW S, NEW s \in Seq(S), NEW v \in S
    PROVE  /\ Append(s, v) \in Seq(S)
           /\ Len(Append(s, v)) = Len(s) + 1
           /\ \A i \in 1 .. Len(s) : Append(s, v)[i] = s[i]
  OBVIOUS

(* ... and one element replaced by another of its kind.              *)
LEMMA ReplaceOne ==
    ASSUME NEW S, NEW s \in Seq(S), NEW i \in 1 .. Len(s), NEW v \in S
    PROVE  /\ [s EXCEPT ![i] = v] \in Seq(S)
           /\ Len([s EXCEPT ![i] = v]) = Len(s)
           /\ \A j \in 1 .. Len(s) : [s EXCEPT ![i] = v][j] = IF j = i THEN v ELSE s[j]
  OBVIOUS

(* The fields of an object, whatever the place that it was loaded from.    *)
LEMMA ObjectFields ==
    ASSUME NEW L, NEW n \in Nat,
           NEW r \in [of : {L}, bound : 0 .. n, failed : BOOLEAN]
    PROVE  /\ r.bound \in 0 .. n /\ r.failed \in BOOLEAN
           /\ \A b \in 0 .. n :
                 /\ [r EXCEPT !.bound = b] \in [of : {L}, bound : 0 .. n, failed : BOOLEAN]
                 /\ [r EXCEPT !.bound = b].bound = b
                 /\ [r EXCEPT !.bound = b].failed = r.failed
           /\ [r EXCEPT !.failed = TRUE] \in [of : {L}, bound : 0 .. n, failed : BOOLEAN]
           /\ [r EXCEPT !.failed = TRUE].failed = TRUE
           /\ [r EXCEPT !.failed = TRUE].bound = r.bound
  OBVIOUS

(* An object with one field changed is still one.                         *)
LEMMA ObjectReplaced ==
    ASSUME NEW r \in Objects
    PROVE  /\ \A b \in 0 .. Symbol :
                 /\ [r EXCEPT !.bound = b] \in Objects
                 /\ [r EXCEPT !.bound = b].bound = b
                 /\ [r EXCEPT !.bound = b].failed = r.failed
           /\ [r EXCEPT !.failed = TRUE] \in Objects
           /\ [r EXCEPT !.failed = TRUE].failed = TRUE
           /\ [r EXCEPT !.failed = TRUE].bound = r.bound
<1> DEFINE L == load_library(disk)
<1>1. Symbol \in Nat
  BY FfiAssumption DEF Symbol
<1>2. Objects = [of : {L}, bound : 0 .. Symbol, failed : BOOLEAN]
  BY DEF Objects, Symbol
<1> HIDE DEF L
<1> QED
  BY <1>1, <1>2, ObjectFields

(* The two fields that the argument is about.                             *)
LEMMA ObjectFacts ==
    ASSUME NEW r \in Objects
    PROVE  r.bound \in 0 .. Symbol /\ r.failed \in BOOLEAN
  BY DEF Objects, Symbol

(* What _lib may be: None before the first load, then an object.          *)
LEMMA HandleFacts == None \in Handles /\ Nat \subseteq Handles
  BY DEF Handles

(* Before the first call nothing is loaded and nobody is in lib().         *)
LEMMA InitIInv == Init => IInv
<1> SUFFICES ASSUME Init PROVE IInv
  OBVIOUS
<1>1. TypeOK
  <2>1. << >> \in Seq(Objects)
    OBVIOUS
  <2>2. None \in Handles
    BY HandleFacts
  <2> QED
    BY <2>1, <2>2 DEF Init, TypeOK
<1>2. Held /\ BoundSoFar /\ Published
  BY DEF Init, Held, BoundSoFar, Published
<1> QED
  BY <1>1, <1>2 DEF IInv

(* The files do not change while the process runs, and neither does what   *)
(* a search finds.                                                         *)
LEMMA SameSearch == [Next]_vars => Objects' = Objects
<1> SUFFICES ASSUME [Next]_vars PROVE Objects' = Objects
  OBVIOUS
<1>1. disk' = disk
  BY DEF Next, vars, Enter, Load, NotFound, StartBind, BindOne, BindFails, Return, Call
<1> QED
  BY <1>1 DEF Objects

(* Steps that leave the objects and the published one alone.               *)
LEMMA QuietStep ==
    ASSUME IInv, NEW t \in Threads, Objects' = Objects,
           Enter(t) \/ NotFound(t) \/ Call(t)
    PROVE  IInv'
<1>1. TypeOK /\ Held /\ BoundSoFar /\ Published
  BY DEF IInv
<1>2. UNCHANGED <<objects, _lib, at>>
  BY DEF Enter, NotFound, Call
<1>3. /\ \A u \in Threads \ {t} : pc'[u] = pc[u] /\ held'[u] = held[u]
      /\ pc[t] \notin {"bind", "binding"} /\ pc'[t] \notin {"bind", "binding"}
      /\ pc'[t] = "call" => _lib # None /\ held'[t] = _lib
  BY <1>1 DEF Enter, NotFound, Call, TypeOK
<1>4. TypeOK'
  <2>1. /\ pc' \in [Threads -> {"idle", "load", "bind", "binding", "call"}]
        /\ raised' \in [Threads -> {"", "HwLibraryNotFound", "AttributeError"}]
        /\ held' \in [Threads -> Handles]
    BY <1>1 DEF Enter, NotFound, Call, TypeOK
  <2> QED
    BY <1>1, <1>2, <2>1 DEF TypeOK
<1>5. Held'
  BY <1>1, <1>2, <1>3 DEF Held, TypeOK
<1>6. BoundSoFar'
  BY <1>1, <1>2, <1>3 DEF BoundSoFar
<1>7. Published'
  BY <1>1, <1>2, <1>3 DEF Published
<1> QED
  BY <1>4, <1>5, <1>6, <1>7 DEF IInv

(* A load publishes an object that its thread is about to bind.            *)
LEMMA LoadStep ==
    ASSUME IInv, NEW t \in Threads, Objects' = Objects, Load(t)
    PROVE  IInv'
<1> DEFINE new == [of |-> load_library(disk), bound |-> 0, failed |-> FALSE]
<1>1. TypeOK /\ Held /\ BoundSoFar /\ Published
  BY DEF IInv
<1>2. new \in Objects
  BY FfiAssumption DEF Objects, Symbol
<1>3. /\ objects' \in Seq(Objects) /\ Len(objects') = Len(objects) + 1
      /\ \A i \in 1 .. Len(objects) : objects'[i] = objects[i]
      /\ Len(objects) \in Nat
  <2>1. objects \in Seq(Objects) /\ objects' = Append(objects, new)
    BY <1>1 DEF Load, TypeOK
  <2> HIDE DEF new
  <2> QED
    BY <1>2, <2>1, OneMore, Elements
<1>4. /\ _lib' = Len(objects) + 1 /\ pc'[t] = "bind"
      /\ \A u \in Threads \ {t} : pc'[u] = pc[u]
      /\ UNCHANGED <<at, held, raised>>
      /\ pc' \in [Threads -> {"idle", "load", "bind", "binding", "call"}]
  BY <1>1, <1>3 DEF Load, TypeOK
<1>5. TypeOK'
  <2>1. _lib' \in Handles
    BY <1>3, <1>4, HandleFacts
  <2> QED
    BY <1>1, <1>3, <1>4, <2>1 DEF TypeOK
<1>6. Held'
  <2>1. _lib' # None
    BY <1>3, <1>4, FfiAssumption
  <2>2. \A u \in Threads : pc'[u] \in {"binding", "call"} => held'[u] \in 1 .. Len(objects')
    BY <1>1, <1>3, <1>4 DEF Held
  <2>3. _lib' \in 1 .. Len(objects')
    BY <1>3, <1>4
  <2> QED
    BY <2>1, <2>2, <2>3 DEF Held
<1>7. BoundSoFar'
  BY <1>1, <1>3, <1>4 DEF BoundSoFar, Held
<1>8. Published'
  BY <1>4 DEF Published
<1> QED
  BY <1>5, <1>6, <1>7, <1>8 DEF IInv

(* The bind that begins is one of the published object.                    *)
LEMMA StartBindStep ==
    ASSUME IInv, NEW t \in Threads, Objects' = Objects, StartBind(t)
    PROVE  IInv'
<1>1. TypeOK /\ Held /\ BoundSoFar /\ Published
  BY DEF IInv
<1>2. /\ UNCHANGED <<objects, _lib, raised>>
      /\ pc'[t] = "binding" /\ held'[t] = _lib /\ at'[t] = 1
      /\ \A u \in Threads \ {t} : pc'[u] = pc[u] /\ held'[u] = held[u] /\ at'[u] = at[u]
  BY <1>1 DEF StartBind, TypeOK
<1>3. _lib \in 1 .. Len(objects) /\ _lib # None
  BY <1>1 DEF StartBind, Held
<1>4. TypeOK'
  <2>1. /\ pc' \in [Threads -> {"idle", "load", "bind", "binding", "call"}]
        /\ at' \in [Threads -> Nat]
        /\ held' \in [Threads -> Handles]
    BY <1>1, <1>3 DEF StartBind, TypeOK
  <2> QED
    BY <1>1, <1>2, <2>1 DEF TypeOK
<1>5. Held'
  BY <1>1, <1>2, <1>3 DEF Held
<1>6. BoundSoFar'
  <2>1. objects[_lib].bound \in Nat
    <3>1. objects \in Seq(Objects)
      BY <1>1 DEF TypeOK
    <3>2. objects[_lib] \in Objects
      BY <1>3, <3>1, Elements
    <3> QED
      BY <3>2, ObjectFacts, FfiAssumption DEF Symbol
  <2> QED
    BY <1>1, <1>2, <2>1, FfiAssumption DEF BoundSoFar
<1>7. Published'
  BY <1>2 DEF Published
<1> QED
  BY <1>4, <1>5, <1>6, <1>7 DEF IInv

(* One entry point more; a bind of the same object by another thread is    *)
(* neither undone nor overtaken.                                           *)
LEMMA BindOneStep ==
    ASSUME IInv, NEW t \in Threads, Objects' = Objects, BindOne(t)
    PROVE  IInv'
<1> DEFINE o == held[t]
           b == IF at[t] > objects[o].bound THEN at[t] ELSE objects[o].bound
<1>1. TypeOK /\ Held /\ BoundSoFar /\ Published
  BY DEF IInv
<1>2. o \in 1 .. Len(objects) /\ pc[t] = "binding" /\ at[t] \in 1 .. Symbol
  BY <1>1 DEF BindOne, Held, ToBind, Symbol
<1>3. /\ \A i \in 1 .. Len(objects) : objects[i] \in Objects
      /\ Len(objects) \in Nat /\ Symbol \in Nat
  <2>1. objects \in Seq(Objects)
    BY <1>1 DEF TypeOK
  <2> QED
    BY <2>1, Elements, FfiAssumption DEF Symbol
<1>4. b \in 0 .. Symbol /\ b >= at[t] /\ b >= objects[o].bound
  BY <1>2, <1>3, ObjectFacts
<1>5. /\ objects' = [objects EXCEPT ![o].bound = b]
      /\ at' = [at EXCEPT ![t] = @ + 1]
      /\ UNCHANGED <<_lib, pc, held, raised>>
  BY DEF BindOne
<1>6. /\ objects' \in Seq(Objects) /\ Len(objects') = Len(objects)
      /\ \A i \in 1 .. Len(objects) :
            /\ objects'[i].bound = IF i = o THEN b ELSE objects[i].bound
            /\ objects'[i].failed = objects[i].failed
  <2>1. /\ [objects[o] EXCEPT !.bound = b] \in Objects
        /\ [objects[o] EXCEPT !.bound = b].bound = b
        /\ [objects[o] EXCEPT !.bound = b].failed = objects[o].failed
    <3>1. objects[o] \in Objects
      BY <1>2, <1>3
    <3> HIDE DEF o, b
    <3> QED
      BY <3>1, <1>4, ObjectReplaced, Zenon
  <2>2. objects' = [objects EXCEPT ![o] = [objects[o] EXCEPT !.bound = b]]
    BY <1>5
  <2>3. objects \in Seq(Objects)
    BY <1>1 DEF TypeOK
  <2> HIDE DEF b
  <2> QED
    BY <1>2, <2>1, <2>2, <2>3, ReplaceOne
<1>7. at'[t] = at[t] + 1 /\ \A u \in Threads \ {t} : at'[u] = at[u]
  BY <1>1, <1>5 DEF TypeOK
<1>8. TypeOK'
  <2>1. at' \in [Threads -> Nat]
    <3>1. at \in [Threads -> Nat]
      BY <1>1 DEF TypeOK
    <3>2. at' = [at EXCEPT ![t] = at[t] + 1]
      BY <1>5
    <3> HIDE DEF o, b
    <3> QED
      BY <3>1, <3>2
  <2> QED
    BY <1>1, <1>5, <1>6, <2>1 DEF TypeOK
<1>9. Held'
  BY <1>1, <1>5, <1>6 DEF Held
<1>10. BoundSoFar'
  <2> SUFFICES ASSUME NEW u \in Threads, pc[u] = "binding"
               PROVE  /\ at'[u] \in 1 .. (Symbol + 1)
                      /\ objects'[held[u]].bound >= at'[u] - 1
    BY <1>5 DEF BoundSoFar, Symbol
  <2>1. /\ at[u] \in 1 .. (Symbol + 1) /\ objects[held[u]].bound >= at[u] - 1
        /\ held[u] \in 1 .. Len(objects)
    BY <1>1 DEF BoundSoFar, Held, Symbol
  <2>2. objects'[held[u]].bound >= objects[held[u]].bound /\ objects'[held[u]].bound \in Nat
        /\ objects[held[u]].bound \in Nat
    <3>1. PICK j \in 1 .. Len(objects) : j = held[u]
      BY <2>1
    <3>2. objects[j].bound \in 0 .. Symbol
      BY <1>3, ObjectFacts
    <3>3. objects'[j].bound = IF j = o THEN b ELSE objects[j].bound
      BY <1>6
    <3> HIDE DEF b
    <3>4. b \in Nat /\ objects[j].bound \in Nat
      BY <1>3, <1>4, <3>2
    <3>5. CASE j = o
      BY <1>4, <3>1, <3>3, <3>4, <3>5
    <3>6. CASE j # o
      BY <3>1, <3>3, <3>4, <3>6
    <3> QED
      BY <3>5, <3>6
  <2>3. CASE u = t
    BY <2>3, <1>2, <1>3, <1>4, <1>6, <1>7
  <2>4. CASE u # t
    BY <2>1, <2>2, <2>4, <1>3, <1>7
  <2> QED
    BY <2>3, <2>4
<1>11. Published'
  <2> SUFFICES ASSUME _lib # None
               PROVE  \/ objects'[_lib].bound = Symbol
                      \/ objects'[_lib].failed
                      \/ \E u \in Threads : pc[u] = "bind" \/ (pc[u] = "binding" /\ held[u] = _lib)
    BY <1>5 DEF Published, Symbol
  <2>1. CASE o = _lib
    BY <2>1, <1>2
  <2>2. CASE o # _lib
    <3>1. _lib \in 1 .. Len(objects)
      BY <1>1 DEF Held
    <3> QED
      BY <2>2, <3>1, <1>1, <1>6 DEF Published, Symbol
  <2> QED
    BY <2>1, <2>2
<1> QED
  BY <1>8, <1>9, <1>10, <1>11 DEF IInv

(* A bind that raises leaves its mark on the object.                       *)
LEMMA BindFailsStep ==
    ASSUME IInv, NEW t \in Threads, Objects' = Objects, BindFails(t)
    PROVE  IInv'
<1> DEFINE o == held[t]
<1>1. TypeOK /\ Held /\ BoundSoFar /\ Published
  BY DEF IInv
<1>2. o \in 1 .. Len(objects) /\ pc[t] = "binding"
  BY <1>1 DEF BindFails, Held
<1>3. /\ \A i \in 1 .. Len(objects) : objects[i] \in Objects
      /\ Len(objects) \in Nat
  <2>1. objects \in Seq(Objects)
    BY <1>1 DEF TypeOK
  <2> QED
    BY <2>1, Elements
<1>4. /\ objects' = [objects EXCEPT ![o].failed = TRUE]
      /\ UNCHANGED <<_lib, at, held>>
      /\ pc'[t] = "idle" /\ \A u \in Threads \ {t} : pc'[u] = pc[u]
  BY <1>1 DEF BindFails, TypeOK
<1>5. /\ objects' \in Seq(Objects) /\ Len(objects') = Len(objects)
      /\ \A i \in 1 .. Len(objects) :
            /\ objects'[i].bound = objects[i].bound
            /\ objects'[i].failed = IF i = o THEN TRUE ELSE objects[i].failed
  <2> DEFINE v == [objects[o] EXCEPT !.failed = TRUE]
  <2>1. v \in Objects /\ v.failed = TRUE /\ v.bound = objects[o].bound
    <3>1. objects[o] \in Objects
      BY <1>2, <1>3
    <3> HIDE DEF o
    <3> QED
      BY <3>1, ObjectReplaced, Zenon
  <2>2. objects' = [objects EXCEPT ![o] = [objects[o] EXCEPT !.failed = TRUE]]
    BY <1>4
  <2>3. objects \in Seq(Objects)
    BY <1>1 DEF TypeOK
  <2>4. objects' = [objects EXCEPT ![o] = v]
    BY <2>2
  <2> HIDE DEF v
  <2>5. /\ objects' \in Seq(Objects) /\ Len(objects') = Len(objects)
        /\ \A i \in 1 .. Len(objects) : objects'[i] = IF i = o THEN v ELSE objects[i]
    BY <1>2, <2>1, <2>3, <2>4, ReplaceOne
  <2> QED
    BY <1>2, <2>1, <2>5
<1>6. TypeOK'
  <2>1. /\ pc' \in [Threads -> {"idle", "load", "bind", "binding", "call"}]
        /\ raised' \in [Threads -> {"", "HwLibraryNotFound", "AttributeError"}]
    BY <1>1 DEF BindFails, TypeOK
  <2> QED
    BY <1>1, <1>4, <1>5, <2>1 DEF TypeOK
<1>7. Held'
  BY <1>1, <1>4, <1>5 DEF Held
<1>8. BoundSoFar'
  BY <1>1, <1>4, <1>5 DEF BoundSoFar, Held
<1>9. Published'
  <2> SUFFICES ASSUME _lib # None
               PROVE  \/ objects'[_lib].bound = Symbol
                      \/ objects'[_lib].failed
                      \/ \E u \in Threads : pc'[u] = "bind" \/ (pc'[u] = "binding" /\ held[u] = _lib)
    BY <1>4 DEF Published, Symbol
  <2>1. _lib \in 1 .. Len(objects)
    BY <1>1 DEF Held
  <2>2. CASE o = _lib
    BY <2>1, <2>2, <1>5
  <2>3. CASE o # _lib
    BY <2>1, <2>3, <1>1, <1>2, <1>4, <1>5 DEF Published, Symbol
  <2> QED
    BY <2>2, <2>3
<1> QED
  BY <1>6, <1>7, <1>8, <1>9 DEF IInv

(* A bind that ends has done every entry point of its object.              *)
LEMMA ReturnStep ==
    ASSUME IInv, NEW t \in Threads, Objects' = Objects, Return(t)
    PROVE  IInv'
<1>1. TypeOK /\ Held /\ BoundSoFar /\ Published
  BY DEF IInv
<1>2. /\ UNCHANGED <<objects, _lib, at, raised>>
      /\ pc[t] = "binding" /\ pc'[t] = "call" /\ held'[t] = _lib
      /\ \A u \in Threads \ {t} : pc'[u] = pc[u] /\ held'[u] = held[u]
  BY <1>1 DEF Return, TypeOK
<1>3. _lib \in 1 .. Len(objects) /\ held[t] \in 1 .. Len(objects)
  BY <1>1, <1>2 DEF Held
<1>4. objects[held[t]].bound = Symbol
  <2>1. objects[held[t]].bound \in 0 .. Symbol
    <3>1. objects \in Seq(Objects)
      BY <1>1 DEF TypeOK
    <3>2. objects[held[t]] \in Objects
      BY <1>3, <3>1, Elements
    <3> QED
      BY <3>2, ObjectFacts
  <2>2. at[t] = Symbol + 1 /\ objects[held[t]].bound >= at[t] - 1
    BY <1>1, <1>2, FfiAssumption DEF BoundSoFar, Return, ToBind, Symbol
  <2> QED
    BY <2>1, <2>2, FfiAssumption DEF Symbol
<1>5. TypeOK'
  <2>1. /\ pc' \in [Threads -> {"idle", "load", "bind", "binding", "call"}]
        /\ held' \in [Threads -> Handles]
    BY <1>1, <1>3 DEF Return, TypeOK
  <2> QED
    BY <1>1, <1>2, <2>1 DEF TypeOK
<1>6. Held'
  BY <1>1, <1>2, <1>3 DEF Held, TypeOK
<1>7. BoundSoFar'
  BY <1>1, <1>2 DEF BoundSoFar
<1>8. Published'
  BY <1>1, <1>2, <1>4 DEF Published, Symbol
<1> QED
  BY <1>5, <1>6, <1>7, <1>8 DEF IInv

(* Every step of every thread keeps the invariant.                        *)
LEMMA NextIInv == IInv /\ [Next]_vars => IInv'
<1> SUFFICES ASSUME IInv, [Next]_vars PROVE IInv'
  OBVIOUS
<1>1. Objects' = Objects
  BY SameSearch
<1>2. CASE Next
  <2>1. PICK t \in Threads :
            \/ Enter(t) \/ Load(t) \/ NotFound(t) \/ StartBind(t)
            \/ BindOne(t) \/ BindFails(t) \/ Return(t) \/ Call(t)
    BY <1>2 DEF Next
  <2> QED
    BY <1>1, <2>1, QuietStep, LoadStep, StartBindStep, BindOneStep, BindFailsStep, ReturnStep
<1>3. CASE UNCHANGED vars
  BY <1>1, <1>3 DEF vars, IInv, TypeOK, Held, BoundSoFar, Published
<1> QED
  BY <1>2, <1>3

(* So it holds in every state that the threads reach.                     *)
LEMMA IInvAlways == Spec => []IInv
<1>1. QED
  BY InitIInv, NextIInv, PTL DEF Spec

(* Whatever the number of threads, and whatever is on the disk: an object  *)
(* that lib() has handed out lacks signatures only because its bind is     *)
(* still to come or under way in another thread, or raised, or because a   *)
(* later load replaced it.                                                 *)
THEOREM CausesAreAll == Spec => []UnboundHasACause
<1>1. IInv => UnboundHasACause
  <2> SUFFICES ASSUME IInv, NEW t \in Threads, pc[t] = "call", _lib = held[t],
                      objects[held[t]].bound # Len(Symbols), ~objects[held[t]].failed
               PROVE  \E u \in Threads \ {t} :
                         pc[u] = "bind" \/ (pc[u] = "binding" /\ held[u] = held[t])
    BY DEF UnboundHasACause
  <2> QED
    BY DEF IInv, Held, Published
<1> QED
  BY <1>1, IInvAlways, PTL

-----------------------------------------------------------------------------
(* The search: the positions of Places that a load could take.             *)
Usable(d) == {i \in _candidate_paths(d) : CanLoad(d[Places[i]])}

(* A set of places has a first one.                                        *)
LEMMA FirstPlace ==
    ASSUME NEW S, S \subseteq 1 .. 4, S # {}
    PROVE  FirstOf(S) \in S /\ \A j \in S : FirstOf(S) <= j
<1>1. \E i \in S : \A j \in S : i <= j
  <2>1. CASE 1 \in S
    BY <2>1
  <2>2. CASE 1 \notin S /\ 2 \in S
    BY <2>2
  <2>3. CASE 1 \notin S /\ 2 \notin S /\ 3 \in S
    BY <2>3
  <2>4. CASE 1 \notin S /\ 2 \notin S /\ 3 \notin S
    <3>1. \A i \in S : i = 4
      BY <2>4
    <3>2. 4 \in S
      BY <3>1
    <3> QED
      BY <3>1, <3>2
  <2> QED
    BY <2>1, <2>2, <2>3, <2>4
<1> QED
  BY <1>1 DEF FirstOf

(* What the search returns.                                                *)
LEMMA SearchResult ==
    ASSUME NEW d
    PROVE  /\ Usable(d) = {} => load_library(d) = None
           /\ Usable(d) # {} =>
                 /\ load_library(d) # None
                 /\ \E i \in Usable(d) :
                       load_library(d) = Places[i] /\ \A j \in Usable(d) : i <= j
<1>1. Usable(d) \subseteq 1 .. 4
  BY DEF Usable, _candidate_paths, Places
<1>2. load_library(d) = IF Usable(d) = {} THEN None ELSE Places[FirstOf(Usable(d))]
  BY DEF load_library, Usable
<1> QED
  BY <1>1, <1>2, FirstPlace, FfiAssumption

(* The search only offers what the loader would take, and all of it.       *)
LEMMA UsableIsLoadable ==
    ASSUME NEW d \in Disks
    PROVE  Usable(d) = {i \in 1 .. Len(Places) :
              /\ IF Places[i] \in {"override", "system"} THEN d[Places[i]].set
                 ELSE d[Places[i]].file
              /\ d[Places[i]].loads}
<1>1. Len(Places) = 4
  BY DEF Places
<1>2. \A i \in 1 .. 4 : d[Places[i]].loads => d[Places[i]].file \/ ~d[Places[i]].absolute
  BY FfiAssumption
<1> QED
  BY <1>1, <1>2 DEF Usable, _candidate_paths, CanLoad

(* What was loaded was found, and what was not found was not there.        *)
Searched ==
    /\ disk \in Disks
    /\ objects # << >> => load_library(disk) # None
    /\ \A t \in Threads : raised[t] = "HwLibraryNotFound" => load_library(disk) = None

(* It holds throughout.                                                    *)
LEMMA SearchedAlways == Spec => []Searched
<1>1. Init => Searched
  BY DEF Init, Searched
<1>2. IInv /\ Searched /\ [Next]_vars => Searched'
  <2> SUFFICES ASSUME IInv, Searched, [Next]_vars PROVE Searched'
    OBVIOUS
  <2>1. TypeOK
    BY DEF IInv
  <2>2. disk' = disk
    BY DEF Next, vars, Enter, Load, NotFound, StartBind, BindOne, BindFails, Return, Call
  <2>3. load_library(disk') = load_library(disk)
    BY <2>2
  <2>4. CASE UNCHANGED vars
    BY <2>4 DEF vars, Searched
  <2>5. ASSUME NEW t \in Threads, Load(t)
        PROVE  Searched'
    BY <2>2, <2>3, <2>5 DEF Load, Searched
  <2>6. ASSUME NEW t \in Threads,
               \/ Enter(t) \/ NotFound(t) \/ StartBind(t) \/ Return(t) \/ Call(t)
        PROVE  Searched'
    <3>1. objects' = objects
      BY <2>6 DEF Enter, NotFound, StartBind, Return, Call
    <3>2. \A u \in Threads : raised'[u] = "HwLibraryNotFound" =>
             raised[u] = "HwLibraryNotFound" \/ load_library(disk) = None
      BY <2>1, <2>6 DEF Enter, NotFound, StartBind, Return, Call, TypeOK
    <3> QED
      BY <2>2, <2>3, <3>1, <3>2 DEF Searched
  <2>7. ASSUME NEW t \in Threads, BindOne(t) \/ BindFails(t)
        PROVE  Searched'
    <3>1. \A u \in Threads : raised'[u] = "HwLibraryNotFound" => raised[u] = "HwLibraryNotFound"
      BY <2>1, <2>7 DEF BindOne, BindFails, TypeOK
    <3>2. objects # << >>
      <4>1. held[t] \in 1 .. Len(objects)
        BY <2>7 DEF BindOne, BindFails, IInv, Held
      <4> QED
        BY <4>1
    <3> QED
      BY <2>2, <2>3, <3>1, <3>2 DEF Searched
  <2> QED
    BY <2>4, <2>5, <2>6, <2>7 DEF Next
<1> QED
  BY <1>1, <1>2, IInvAlways, PTL DEF Spec

(* Whatever is on the disk: every library object was loaded from the first *)
(* place, in the documented order, that can be loaded, whichever thread    *)
(* loaded it, and HwLibraryNotFound is raised only when there is none.     *)
THEOREM FoundInOrder == Spec => []LoadsWhatCan
<1>1. IInv /\ Searched => LoadsWhatCan
  <2> SUFFICES ASSUME IInv, Searched PROVE LoadsWhatCan
    OBVIOUS
  <2>1. disk \in Disks
    BY DEF Searched
  <2>2. ASSUME NEW o \in 1 .. Len(objects)
        PROVE  \E i \in Usable(disk) :
                  objects[o].of = Places[i] /\ \A j \in Usable(disk) : i <= j
    <3>1. objects[o].of = load_library(disk)
      <4>1. objects[o] \in Objects
        BY <2>2, Elements DEF IInv, TypeOK
      <4> QED
        BY <4>1 DEF Objects
    <3>2. load_library(disk) # None
      <4>1. objects # << >>
        BY <2>2
      <4> QED
        BY <4>1 DEF Searched
    <3> QED
      BY <3>1, <3>2, SearchResult
  <2>3. ASSUME NEW t \in Threads, raised[t] = "HwLibraryNotFound"
        PROVE  Usable(disk) = {}
    BY <2>3, SearchResult DEF Searched
  <2> QED
    BY <2>1, <2>2, <2>3, UsableIsLoadable DEF LoadsWhatCan
<1> QED
  BY <1>1, IInvAlways, SearchedAlways, PTL

-----------------------------------------------------------------------------
(* Reading through the object.  An enum is read as an int: they have the   *)
(* same size, and the sizes decide where everything is.                    *)
LEMMA SameSizes ==
    ASSUME NEW w, NEW s \in 1 .. 10
    PROVE  Sizes(Declared[s], w) = Sizes(Headers[s], w)
<1>1. SizeOf("int", w) = 4 /\ SizeOf("enum", w) = 4
  BY DEF SizeOf
<1>2. Sizes(HwStateDesc, w) = Sizes(hw_state_desc_t, w)
  <2>1. Len(HwStateDesc) = 11 /\ Len(hw_state_desc_t) = 11
    BY DEF HwStateDesc, hw_state_desc_t
  <2>2. \A i \in 1 .. 11 : SizeOf(HwStateDesc[i], w) = SizeOf(hw_state_desc_t[i], w)
    <3>1. \A i \in 1 .. 11 :
             \/ HwStateDesc[i] = hw_state_desc_t[i]
             \/ (HwStateDesc[i] = "int" /\ hw_state_desc_t[i] = "enum")
      BY DEF HwStateDesc, hw_state_desc_t
    <3> QED
      BY <1>1, <3>1
  <2> QED
    BY <2>1, <2>2 DEF Sizes
<1>3. Sizes(HwStateResult, w) = Sizes(Headers[9], w)
  <2>1. Len(HwStateResult) = 5 /\ Len(Headers[9]) = 5
    BY DEF HwStateResult, Headers
  <2>2. \A i \in 1 .. 5 : SizeOf(HwStateResult[i], w) = SizeOf(Headers[9][i], w)
    <3>1. \A i \in 1 .. 5 :
             \/ HwStateResult[i] = Headers[9][i]
             \/ (HwStateResult[i] = "int" /\ Headers[9][i] = "enum")
      BY DEF HwStateResult, Headers
    <3> QED
      BY <1>1, <3>1
  <2> QED
    BY <2>1, <2>2 DEF Sizes
<1>4. s \notin {3, 9} => Declared[s] = Headers[s]
  BY DEF Declared, Headers, HwFlashInfo, HwFlashPatchStats, HwStateAlias, HwStateOperation,
         HwStateComponent, HwStateDbgReg, HwCpuFeatures, HwStateDb, hw_cpu_features_t,
         hw_state_db_t
<1>5. Declared[3] = HwStateDesc /\ Headers[3] = hw_state_desc_t /\ Declared[9] = HwStateResult
  BY DEF Declared, Headers
<1> QED
  BY <1>2, <1>3, <1>4, <1>5

(* The list stops before the entry without a name, and has all the others. *)
LEMMA ListIsTable ==
    ASSUME NEW V, NEW n \in 0 .. MaxListed, NEW table \in [1 .. (n + 1) -> V],
           \A k \in 1 .. (n + 1) : table[k] = None <=> k = n + 1
    PROVE  /\ Len(table) = n + 1
           /\ Len(databases(table)) = n
           /\ \A k \in 1 .. n : databases(table)[k] = table[k]
<1>1. n \in Nat /\ MaxListed \in Nat
  BY FfiAssumption
<1>2. table \in Seq(V) /\ Len(table) = n + 1
  BY <1>1
<1> DEFINE named == {m \in 0 .. MaxListed :
                        \A i \in 1 .. m : i <= Len(table) /\ table[i] # None}
<1>3. n \in named
  BY <1>1, <1>2
<1>4. \A m \in named : m <= n
  <2> SUFFICES ASSUME NEW m \in named, m > n PROVE FALSE
    BY <1>1
  <2>1. n + 1 \in 1 .. m
    BY <1>1
  <2> QED
    BY <1>1, <2>1
<1>5. (CHOOSE m \in named : \A k \in named : k <= m) = n
  <2>1. named \subseteq Nat
    BY <1>1
  <2> HIDE DEF named
  <2> DEFINE c == CHOOSE m \in named : \A k \in named : k <= m
  <2>2. c \in named /\ n <= c
    BY <1>3, <1>4
  <2> HIDE DEF c
  <2>3. c = n
    BY <1>1, <1>4, <2>1, <2>2
  <2> QED
    BY <2>3 DEF c
<1>6. databases(table) = SubSeq(table, 1, n)
  BY <1>5 DEF databases
<1>7. Len(SubSeq(table, 1, n)) = n /\ \A k \in 1 .. n : SubSeq(table, 1, n)[k] = table[k]
  BY <1>1, <1>2
<1> QED
  BY <1>2, <1>6, <1>7

(* Whatever is on the disk, for pointers of any size: a caller that holds  *)
(* a library built from these headers reads every field of every struct,   *)
(* and of every element of an array of them, where the library has it, and *)
(* databases() gives the library's table up to its end mark.               *)
THEOREM DeclarationsFit == Spec => []ReadsWhatIsThere
<1>1. IInv /\ Searched => ReadsWhatIsThere
  <2> SUFFICES ASSUME IInv, Searched, NEW t \in Threads, pc[t] = "call",
                      disk[objects[held[t]].of].structs = Headers
               PROVE
                 /\ \A s \in 1 .. Len(Declared), w \in {4, 8} :
                       Layout(Sizes(Declared[s], w)) = Layout(Sizes(Headers[s], w))
                 /\ \A i \in 1 .. Len(disk[objects[held[t]].of].table) :
                       IF disk[objects[held[t]].of].table[i] = None
                       THEN i > Len(databases(disk[objects[held[t]].of].table))
                       ELSE databases(disk[objects[held[t]].of].table)[i]
                            = disk[objects[held[t]].of].table[i]
    BY DEF ReadsWhatIsThere
  <2>1. Len(Declared) = 10
    BY DEF Declared
  <2>2. PICK k \in 1 .. 4 : objects[held[t]].of = Places[k]
    <3>1. held[t] \in 1 .. Len(objects) /\ objects[held[t]] \in Objects
      BY Elements DEF IInv, Held, TypeOK
    <3>2. objects[held[t]].of = load_library(disk) /\ objects # << >>
      BY <3>1 DEF Objects
    <3>3. Usable(disk) \subseteq 1 .. 4
      BY DEF Usable, _candidate_paths, Places
    <3> QED
      BY <3>2, <3>3, SearchResult DEF Searched
  <2> DEFINE T == disk[Places[k]].table
  <2>3. PICK n \in 0 .. MaxListed :
            /\ T \in [1 .. (n + 1) -> {T[i] : i \in 1 .. (n + 1)}]
            /\ \A i \in 1 .. (n + 1) : T[i] = None <=> i = n + 1
    BY FfiAssumption DEF Searched
  <2> HIDE DEF T
  <2>4. /\ Len(T) = n + 1 /\ Len(databases(T)) = n
        /\ \A i \in 1 .. n : databases(T)[i] = T[i]
    <3>1. PICK V : T \in [1 .. (n + 1) -> V]
      BY <2>3
    <3>2. PICK u : u = T
      OBVIOUS
    <3>3. u \in [1 .. (n + 1) -> V] /\ \A i \in 1 .. (n + 1) : u[i] = None <=> i = n + 1
      BY <2>3, <3>1, <3>2
    <3>4. /\ Len(u) = n + 1 /\ Len(databases(u)) = n
          /\ \A i \in 1 .. n : databases(u)[i] = u[i]
      BY <3>3, ListIsTable
    <3> QED
      BY <3>2, <3>4
  <2>5. n \in Nat
    BY FfiAssumption
  <2>6. \A i \in 1 .. Len(T) :
           IF T[i] = None THEN i > Len(databases(T)) ELSE databases(T)[i] = T[i]
    <3> SUFFICES ASSUME NEW i \in 1 .. (n + 1)
                 PROVE  IF T[i] = None THEN i > n ELSE databases(T)[i] = T[i]
      BY <2>4
    <3>1. CASE i = n + 1
      <4>1. T[i] = None /\ i > n
        BY <2>3, <2>5, <3>1
      <4> QED
        BY <4>1
    <3>2. CASE i \in 1 .. n
      <4>1. T[i] # None
        BY <2>3, <2>5, <3>2
      <4> QED
        BY <2>4, <3>2, <4>1
    <3> QED
      BY <2>5, <3>1, <3>2
  <2> QED
    BY <2>1, <2>2, <2>6, SameSizes DEF T
<1> QED
  BY <1>1, IInvAlways, SearchedAlways, PTL
=============================================================================
