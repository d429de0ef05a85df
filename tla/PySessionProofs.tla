--------------------------- MODULE PySessionProofs ---------------------------
(***************************************************************************)
(* Proofs about the Python binding, for every set of Hw objects, every     *)
(* sequence of databases and any number of calls and faults: who owns a C  *)
(* context, and what a snapshot may and must hold.                         *)
(***************************************************************************)
EXTENDS PySession, TLAPS

-----------------------------------------------------------------------------
(* Types.                                                                  *)

(* Hw.__init__ and Hw.close keep the types of the C contexts.              *)
LEMMA AttachType ==
    ASSUME TypeOK, NEW o \in Obj, Attach(o)
    PROVE  /\ halted' \in BOOLEAN /\ faults' \in Nat
           /\ alive' \subseteq Ids /\ ctx' \in [Obj -> Ids \cup {None}]
  <1>1. CASE NoFault /\ \E x \in Ids \ alive :
             alive' = alive \cup {x} /\ ctx' = [ctx EXCEPT ![o] = x]
    BY <1>1 DEF Attach, TypeOK, NoFault, session, Fault
  <1>2. CASE Fault /\ UNCHANGED <<session, halted>>
    BY <1>2 DEF TypeOK, Fault, session
  <1>3. QED BY <1>1, <1>2 DEF Attach

LEMMA DetachType ==
    ASSUME TypeOK, NEW o \in Obj, Detach(o)
    PROVE  /\ halted' \in BOOLEAN
           /\ alive' \subseteq Ids /\ ctx' \in [Obj -> Ids \cup {None}]
  BY DEF Detach, TypeOK, session

(* A call is made when none runs; it leaves the loop alone, unless it is   *)
(* the one that starts a snapshot or a probe.                              *)
LEMMA CallIsSimple ==
    ASSUME Call
    PROVE  /\ pc = "idle"
           /\ \/ \E o \in Obj : snapshot(o)
              \/ UNCHANGED <<todo, out, feats, history>> /\ pc' # "snapshot"
  <1>1. pc = "idle"
    BY DEF Call, connect, close, identify, snapshot, PatchLengths, HwCall, FlashCall, main,
       Begin
  <1>2. ASSUME NEW o \in Obj, connect(o) \/ close(o) \/ identify(o) \/ PatchLengths(o)
        PROVE  UNCHANGED <<todo, out, feats, history>> /\ pc' # "snapshot"
    BY <1>1, <1>2 DEF connect, close, identify, PatchLengths, Simple, loop
  <1>3. ASSUME NEW o \in Obj, NEW name \in HwMethod, HwCall(o, name)
        PROVE  UNCHANGED <<todo, out, feats, history>> /\ pc' # "snapshot"
    BY <1>1, <1>3 DEF HwCall, Simple, loop
  <1>4. ASSUME NEW o \in Obj, NEW name \in FlashMethod, NEW empty \in BOOLEAN,
               FlashCall(o, name, empty)
        PROVE  UNCHANGED <<todo, out, feats, history>> /\ pc' # "snapshot"
    BY <1>1, <1>4 DEF FlashCall, Simple, loop
  <1>5. ASSUME NEW o \in Obj, NEW resume \in BOOLEAN, main(o, resume)
        PROVE  UNCHANGED <<todo, out, feats, history>> /\ pc' # "snapshot"
    BY <1>5 DEF main
  <1>6. QED BY <1>1, <1>2, <1>3, <1>4, <1>5 DEF Call

(* What a C function does to the target keeps its types.                   *)
LEMMA EffectType ==
    ASSUME TypeOK, NEW name, Effect(name)
    PROVE  halted' \in BOOLEAN /\ DOMAIN val' = Keys
  BY SessionAssumption DEF Effect, TypeOK, target

LEMMA FlashEffectType ==
    ASSUME TypeOK, NEW name, NEW ok \in BOOLEAN, FlashEffect(name, ok)
    PROVE  halted' \in BOOLEAN /\ DOMAIN val' = Keys
  BY SessionAssumption DEF FlashEffect, TypeOK

LEMMA SnapshotType ==
    ASSUME TypeOK, NEW o \in Obj, snapshot(o)
    PROVE  TypeOK'
  <1>1. calls' \in Nat /\ pc = "idle"
    BY DEF snapshot, Begin, TypeOK
  <1>2. CASE Simple("HwError") /\ NoFault
    BY <1>1, <1>2 DEF snapshot, Simple, NoFault, TypeOK, loop, history, target, session
  <1>3. CASE Fault /\ Simple("HwStateError")
    BY <1>1, <1>3 DEF snapshot, Simple, Fault, TypeOK, loop, history, target, session
  <1>4. CASE /\ \E f \in SUBSET has : feats' = f /\ todo' = databases_for(f)
             /\ pc' = "snapshot" /\ self' = o /\ out' = {}
             /\ seen' = [k \in Keys |-> {val[k]}] /\ stopped' = halted
             /\ NoFault /\ UNCHANGED result
    BY <1>1, <1>4 DEF snapshot, NoFault, TypeOK, databases_for, target, session
  <1>5. QED BY <1>2, <1>3, <1>4 DEF snapshot

LEMMA CallType ==
    ASSUME TypeOK, Call
    PROVE  TypeOK'
  <1>1. pc = "idle" /\ calls' \in Nat
    <2>1. Begin
      BY DEF Call, connect, close, identify, snapshot, PatchLengths, HwCall, FlashCall, main
    <2>2. QED BY <2>1 DEF Begin, TypeOK
  <1>2. ASSUME NEW o \in Obj, connect(o) PROVE TypeOK'
    BY <1>1, <1>2, AttachType DEF connect, TypeOK, loop, history
  <1>3. ASSUME NEW o \in Obj, close(o) PROVE TypeOK'
    BY <1>1, <1>3, DetachType DEF close, Simple, NoFault, TypeOK, loop, history
  <1>4. ASSUME NEW o \in Obj, identify(o) \/ PatchLengths(o) PROVE TypeOK'
    <2>1. faults' \in Nat
      BY <1>4 DEF identify, PatchLengths, NoFault, Fault, TypeOK
    <2>2. QED BY <1>1, <1>4, <2>1 DEF identify, PatchLengths, Simple, TypeOK, loop, history,
                 target, session
  <1>5. ASSUME NEW o \in Obj, NEW name \in HwMethod, HwCall(o, name) PROVE TypeOK'
    <2>1. faults' \in Nat
      BY <1>5 DEF HwCall, NoFault, Fault, TypeOK
    <2>2. halted' \in BOOLEAN /\ DOMAIN val' = Keys
      <3>1. CASE UNCHANGED target
        BY <3>1 DEF target, TypeOK
      <3>2. QED BY <1>5, <3>1, EffectType DEF HwCall
    <2>3. QED BY <1>1, <1>5, <2>1, <2>2 DEF HwCall, Simple, TypeOK, loop, history, session
  <1>6. ASSUME NEW o \in Obj, NEW name \in FlashMethod, NEW empty \in BOOLEAN,
               FlashCall(o, name, empty)
        PROVE  TypeOK'
    <2>1. faults' \in Nat
      <3>1. NoFault \/ Fault
        BY <1>6 DEF FlashCall
      <3>2. QED BY <3>1 DEF NoFault, Fault, TypeOK
    <2>2. halted' \in BOOLEAN /\ DOMAIN val' = Keys
      BY <1>6, FlashEffectType DEF FlashCall, target, TypeOK
    <2>3. QED BY <1>1, <1>6, <2>1, <2>2 DEF FlashCall, Simple, TypeOK, loop, history, session
  <1>7. ASSUME NEW o \in Obj, NEW resume \in BOOLEAN, main(o, resume) PROVE TypeOK'
    BY <1>1, <1>7, AttachType DEF main, TypeOK, history
  <1>8. QED BY <1>2, <1>3, <1>4, <1>5, <1>6, <1>7, SnapshotType DEF Call

LEMMA StepType ==
    ASSUME TypeOK, Step
    PROVE  TypeOK'
  <1>1. faults' \in Nat
    BY DEF Step, SnapshotElement, SnapshotDone, probe_halt, ProbeElement, ProbeDone, ProbeExit,
       Reads, NoFault, Fault, TypeOK
  <1>2. CASE SnapshotElement
    BY <1>1, <1>2 DEF SnapshotElement, TypeOK, target, session, history
  <1>3. CASE SnapshotDone
    BY <1>1, <1>3 DEF SnapshotDone, Over, TypeOK, target, session
  <1>4. CASE probe_halt
    <2>1. halted' \in BOOLEAN
      BY <1>4, SessionAssumption DEF probe_halt, HaltFirst, TypeOK
    <2>2. todo' \subseteq 1 .. Len(States)
      BY <1>4 DEF probe_halt, databases_for, TypeOK
    <2>3. QED BY <1>1, <1>4, <2>1, <2>2 DEF probe_halt, Leave, TypeOK, session, history
  <1>5. CASE ProbeElement
    BY <1>1, <1>5 DEF ProbeElement, TypeOK, target, session, history
  <1>6. CASE ProbeDone
    BY <1>1, <1>6 DEF ProbeDone, Leave, TypeOK, session, loop, history
  <1>7. CASE ProbeExit
    BY <1>1, <1>7, DetachType DEF ProbeExit, Over, TypeOK
  <1>8. QED BY <1>2, <1>3, <1>4, <1>5, <1>6, <1>7 DEF Step

LEMMA TypeStep ==
    ASSUME TypeOK, [Next]_vars
    PROVE  TypeOK'
  <1>1. CASE TargetRuns
    <2>1. PICK k \in Live, v \in Value :
              /\ val' = [val EXCEPT ![k] = v]
              /\ seen' = IF pc = "snapshot" THEN [seen EXCEPT ![k] = @ \cup {v}] ELSE seen
      BY <1>1 DEF TargetRuns
    <2>2. DOMAIN val' = DOMAIN val
      BY <2>1
    <2>3. DOMAIN seen' = DOMAIN seen
      BY <2>1
    <2>4. QED BY <1>1, <2>2, <2>3 DEF TargetRuns, TypeOK, session, loop
  <1>2. CASE TargetStops
    BY <1>2 DEF TargetStops, TypeOK, session, loop, history
  <1>3. CASE UNCHANGED vars
    BY <1>3 DEF vars, TypeOK, target, session, loop, history
  <1>4. QED BY <1>1, <1>2, <1>3, CallType, StepType DEF Next

(* The variables keep their types.                                         *)
THEOREM SessionTypes == Spec => []TypeOK
  <1>1. Init => TypeOK
    <2>1. SUFFICES ASSUME Init PROVE TypeOK
      OBVIOUS
    <2>2. DOMAIN val = Keys /\ DOMAIN seen = Keys
      BY <2>1 DEF Init
    <2>3. ctx \in [Obj -> Ids \cup {None}]
      BY <2>1 DEF Init
    <2>4. QED BY <2>1, <2>2, <2>3 DEF Init, TypeOK
  <1>2. QED BY <1>1, TypeStep, PTL DEF Spec

-----------------------------------------------------------------------------
(* Who owns a C context.                                                   *)

LEMMA AttachOwns ==
    ASSUME TypeOK, ContextsOwned, NEW o \in Obj, ctx[o] = None, Attach(o)
    PROVE  ContextsOwned'
  <1>1. CASE \E x \in Ids \ alive : alive' = alive \cup {x} /\ ctx' = [ctx EXCEPT ![o] = x]
    <2>1. PICK x \in Ids \ alive : alive' = alive \cup {x} /\ ctx' = [ctx EXCEPT ![o] = x]
      BY <1>1
    <2>2. ctx'[o] = x /\ \A p \in Obj \ {o} : ctx'[p] = ctx[p]
      BY <2>1 DEF TypeOK
    <2>3. \A p \in Obj \ {o} : ctx'[p] # x
      BY <2>1, <2>2 DEF ContextsOwned, Ids, None
    <2>4. QED BY <2>1, <2>2, <2>3 DEF ContextsOwned
  <1>2. CASE UNCHANGED session
    BY <1>2 DEF ContextsOwned, session
  <1>3. QED BY <1>1, <1>2 DEF Attach, session

LEMMA DetachOwns ==
    ASSUME TypeOK, ContextsOwned, NEW o \in Obj, Detach(o)
    PROVE  ContextsOwned'
  <1>1. CASE /\ ctx[o] # None
             /\ alive' = alive \ {ctx[o]} /\ ctx' = [ctx EXCEPT ![o] = None]
    <2>1. ctx'[o] = None /\ \A p \in Obj \ {o} : ctx'[p] = ctx[p]
      BY <1>1 DEF TypeOK
    <2>2. QED BY <1>1, <2>1 DEF ContextsOwned
  <1>2. CASE UNCHANGED session
    BY <1>2 DEF ContextsOwned, session
  <1>3. QED BY <1>1, <1>2 DEF Detach, session

(* Only a connect, a close, and the probe's with block move a context.     *)
LEMMA WhoMovesContexts ==
    ASSUME TypeOK, [Next]_vars
    PROVE  \/ UNCHANGED session
           \/ \E o \in Obj : (ctx[o] = None /\ Attach(o)) \/ Detach(o)
  <1>1. CASE Call
    BY <1>1 DEF Call, connect, close, identify, snapshot, PatchLengths, HwCall, FlashCall,
       main, session
  <1>2. CASE ProbeExit
    BY <1>2 DEF ProbeExit, TypeOK
  <1>3. CASE TargetRuns \/ TargetStops \/ UNCHANGED vars
    BY <1>3 DEF TargetRuns, TargetStops, vars, session
  <1>4. CASE SnapshotElement \/ SnapshotDone \/ probe_halt \/ ProbeElement \/ ProbeDone
    BY <1>4 DEF SnapshotElement, SnapshotDone, probe_halt, ProbeElement, ProbeDone, session
  <1>5. QED BY <1>1, <1>2, <1>3, <1>4 DEF Next, Step

(* However many objects connect, close and probe, an object that holds a   *)
(* context holds one that hw_connect made and nobody freed, and holds it   *)
(* alone (Hw.__init__ and Hw.close, core.py).                              *)
THEOREM ContextsStayOwned == Spec => []ContextsOwned
  <1>1. Init => ContextsOwned
    BY DEF Init, ContextsOwned
  <1>2. ASSUME TypeOK, ContextsOwned, [Next]_vars PROVE ContextsOwned'
    <2>1. CASE UNCHANGED session
      BY <1>2, <2>1 DEF ContextsOwned, session
    <2>2. QED BY <1>2, <2>1, WhoMovesContexts, AttachOwns, DetachOwns
  <1>3. QED BY <1>1, <1>2, SessionTypes, PTL DEF Spec

-----------------------------------------------------------------------------
(* What the loop of a snapshot knows.                                      *)

(* A step that ends inside the loop began it, visited an element, or was   *)
(* the target's own.                                                       *)
LEMMA InsideLoop ==
    ASSUME [Next]_vars, pc' = "snapshot"
    PROVE  \/ pc = "idle" /\ \E o \in Obj : snapshot(o)
           \/ /\ pc = "snapshot"
              /\ SnapshotElement \/ TargetRuns \/ TargetStops \/ UNCHANGED vars
  <1>1. CASE Call
    BY <1>1, CallIsSimple
  <1>2. CASE SnapshotElement \/ TargetRuns \/ TargetStops \/ UNCHANGED vars
    BY <1>2 DEF SnapshotElement, TargetRuns, TargetStops, vars
  <1>3. CASE SnapshotDone \/ probe_halt \/ ProbeElement \/ ProbeDone \/ ProbeExit
    BY <1>3 DEF SnapshotDone, probe_halt, ProbeElement, ProbeDone, ProbeExit, Over, Leave
  <1>4. QED BY <1>1, <1>2, <1>3 DEF Next, Step

(* Begin of the loop: the dictionary is empty.                             *)
LEMMA LoopBegins ==
    ASSUME pc = "idle", pc' = "snapshot", NEW o \in Obj, snapshot(o)
    PROVE  /\ feats' \subseteq has /\ todo' = databases_for(feats') /\ out' = {}
           /\ seen' = [k \in Keys |-> {val[k]}] /\ stopped' = halted
           /\ UNCHANGED target
  BY DEF snapshot, Simple

(* The target may store only while it runs, and it is seen to.             *)
LEMMA StoresAreSeen ==
    ASSUME TypeOK, pc = "snapshot", TargetRuns
    PROVE  /\ ~halted
           /\ \A k \in Keys : val'[k] \in {val[k]} \cup seen'[k] /\ seen[k] \subseteq seen'[k]
  <1>1. PICK k \in Live, v \in Value :
            val' = [val EXCEPT ![k] = v] /\ seen' = [seen EXCEPT ![k] = @ \cup {v}]
    BY DEF TargetRuns
  <1>2. k \in Keys
    BY LiveAssumption
  <1>3. val'[k] = v /\ \A j \in Keys \ {k} : val'[j] = val[j]
    BY <1>1, <1>2 DEF TypeOK
  <1>4. seen'[k] = seen[k] \cup {v} /\ \A j \in Keys \ {k} : seen'[j] = seen[j]
    BY <1>1, <1>2 DEF TypeOK
  <1>5. QED BY <1>2, <1>3, <1>4 DEF TargetRuns

LEMMA LoopStep ==
    ASSUME TypeOK, LoopInv, [Next]_vars
    PROVE  LoopInv'
  <1>1. SUFFICES ASSUME pc' = "snapshot"
                 PROVE  /\ feats' \subseteq has'
                        /\ \A k \in Keys : val'[k] \in seen'[k]
                        /\ stopped' => halted'
    BY DEF LoopInv
  <1>2. ASSUME NEW o \in Obj, pc = "idle", snapshot(o) PROVE LoopInv'
    BY <1>1, <1>2, LoopBegins DEF LoopInv, target
  <1>3. ASSUME pc = "snapshot", TargetRuns PROVE LoopInv'
    BY <1>3, StoresAreSeen DEF LoopInv, TargetRuns, loop
  <1>4. ASSUME pc = "snapshot", SnapshotElement \/ TargetStops \/ UNCHANGED vars PROVE LoopInv'
    BY <1>4 DEF LoopInv, SnapshotElement, TargetStops, vars, target, loop, history
  <1>5. QED BY <1>1, <1>2, <1>3, <1>4, InsideLoop DEF LoopInv

LEMMA LoopAlways == Spec => []LoopInv
  <1>1. Init => LoopInv
    BY DEF Init, LoopInv
  <1>2. QED BY <1>1, LoopStep, SessionTypes, PTL DEF Spec

-----------------------------------------------------------------------------
(* What is in the dictionary.                                              *)

(* A pair of the dictionary and the descriptor that put it there.          *)
Vouches(d, p, fs, sn, ht, vl) ==
    /\ Key(d) = p[1] /\ d.snapshot /\ d.readable /\ d.access # "none"
    /\ IF d.feature = "none" THEN d.db = "arch" ELSE d.feature \in fs
    /\ p[2] \in sn[p[1]]
    /\ d.access = "core" => ht /\ p[2] = vl[p[1]]

LEMMA TrueByVouching ==
    SnapshotIsTrue <=>
        (pc = "snapshot" =>
            \A p \in out : \E i \in 1 .. Len(States) :
                Vouches(States[i], p, has, seen, halted, val))
  BY DEF SnapshotIsTrue, Vouches

LEMMA DescriptorTypes ==
    ASSUME NEW i \in 1 .. Len(States)
    PROVE  /\ States[i] \in DescType
           /\ Key(States[i]) \in Keys
  BY SessionAssumption DEF Keys

(* What the query of one element puts into the dictionary.                 *)
LEMMA ElementVouched ==
    ASSUME LoopInv, pc = "snapshot", NEW i \in 1 .. Len(States), NEW r \in ReadStatus,
           States[i].snapshot, Reads(States[i], feats, r), Keeps(States[i], r)
    PROVE  Vouches(States[i], <<Key(States[i]), val[Key(States[i])]>>, has, seen, halted, val)
  <1> DEFINE d == States[i]
  <1>1. /\ d \in DescType /\ Key(d) \in Keys
    BY DescriptorTypes
  <1>2. r = "OK" /\ is_implemented(PresenceOf(d, feats))
    BY DEF Keeps
  <1>3. d.readable /\ d.access # "none" /\ (d.access = "core" => halted)
    BY <1>1, <1>2 DEF Reads, ReadOutcomes, DescType
  <1>4. d.db = "arch" \/ d.feature # "none"
    BY <1>2 DEF PresenceOf, is_implemented
  <1>5. d.feature = "none" \/ d.feature \in feats
    BY <1>2 DEF PresenceOf, is_implemented
  <1>6. QED BY <1>1, <1>2, <1>3, <1>4, <1>5 DEF Vouches, LoopInv

LEMMA TrueStep ==
    ASSUME TypeOK, LoopInv, SnapshotIsTrue, [Next]_vars
    PROVE  SnapshotIsTrue'
  <1> DEFINE Vouched(p) == \E i \in 1 .. Len(States) :
                               Vouches(States[i], p, has, seen, halted, val)
  <1>1. SUFFICES ASSUME pc' = "snapshot", NEW p \in out'
                 PROVE  \E i \in 1 .. Len(States) :
                            Vouches(States[i], p, has', seen', halted', val')
    BY DEF SnapshotIsTrue, Vouches
  <1>2. CASE pc = "idle" /\ \E o \in Obj : snapshot(o)
    BY <1>1, <1>2, LoopBegins
  <1>3. CASE pc = "snapshot" /\ SnapshotElement
    <2>1. PICK i \in todo :
              \/ UNCHANGED out
              \/ /\ States[i].snapshot
                 /\ \E r \in ReadStatus :
                       /\ Reads(States[i], feats, r)
                       /\ out' = IF Keeps(States[i], r)
                                 THEN Put(Key(States[i]), val[Key(States[i])]) ELSE out
      BY <1>3 DEF SnapshotElement
    <2>2. i \in 1 .. Len(States)
      BY DEF TypeOK
    <2>3. p \in out \/ Vouched(p)
      BY <1>1, <1>3, <2>1, <2>2, ElementVouched DEF Put
    <2>4. p \in out => Vouched(p)
      BY <1>3, TrueByVouching
    <2>5. Vouched(p)
      BY <2>3, <2>4
    <2>6. UNCHANGED <<has, seen, halted, val>>
      BY <1>3 DEF SnapshotElement, target, history
    <2>7. QED BY <2>5, <2>6
  <1>4. CASE pc = "snapshot" /\ (TargetStops \/ UNCHANGED vars)
    <2>1. p \in out /\ UNCHANGED <<has, seen, val>> /\ (halted => halted')
      BY <1>1, <1>4 DEF TargetStops, vars, loop, history, target
    <2>2. PICK i \in 1 .. Len(States) : Vouches(States[i], p, has, seen, halted, val)
      BY <1>4, <2>1, TrueByVouching
    <2>3. QED BY <2>1, <2>2 DEF Vouches
  <1>5. CASE pc = "snapshot" /\ TargetRuns
    <2>1. p \in out /\ UNCHANGED <<has, halted>>
      BY <1>1, <1>5 DEF TargetRuns, loop
    <2>2. PICK i \in 1 .. Len(States) : Vouches(States[i], p, has, seen, halted, val)
      BY <1>5, <2>1, TrueByVouching
    <2>3. p[1] \in Keys
      BY <2>2, DescriptorTypes DEF Vouches
    <2>4. QED BY <1>5, <2>1, <2>2, <2>3, StoresAreSeen DEF Vouches
  <1>6. QED BY <1>1, <1>2, <1>3, <1>4, <1>5, InsideLoop

(* At every moment of a snapshot (core.py:279-291), whatever database it   *)
(* runs over and however the target stores and stops meanwhile, what it    *)
(* has collected is marked, vouched for, was there during the call, and    *)
(* the core registers are those of the halted core.                        *)
THEOREM SnapshotsAreTrue == Spec => []SnapshotIsTrue
  <1>1. Init => SnapshotIsTrue
    BY DEF Init, SnapshotIsTrue
  <1>2. QED BY <1>1, TrueStep, LoopAlways, SessionTypes, PTL DEF Spec

-----------------------------------------------------------------------------
(* What is missing from the dictionary.                                    *)

(* On a halted core, a query of a wanted element that does not fail puts   *)
(* the element into the dictionary.                                        *)
LEMMA ElementKept ==
    ASSUME halted, feats = has, NEW i \in 1 .. Len(States), NEW r \in ReadStatus,
           Wanted(States[i]), Reads(States[i], feats, r), ~Fault
    PROVE  Keeps(States[i], r)
  <1> DEFINE d == States[i]
  <1>1. PresenceOf(d, feats) \in {"ARCHITECTURAL", "CONFIG_CONFIRMED"}
    BY DEF Wanted, PresenceOf
  <1>2. r = "OK"
    BY <1>1 DEF Reads, ReadOutcomes, Wanted
  <1>3. QED BY <1>1, <1>2 DEF Keeps, is_implemented

(* A dictionary that is right about a key stays so when a key is put.      *)
LEMMA PutKeeps ==
    ASSUME NEW k, NEW j, <<j, val[j]>> \in out
    PROVE  <<j, val[j]>> \in Put(k, val[k])
  BY DEF Put

LEMMA VisitedStep ==
    ASSUME TypeOK, LoopInv, VisitedInv, [Next]_vars
    PROVE  VisitedInv'
  <1>1. SUFFICES ASSUME pc' = "snapshot", stopped', faults' = 0, feats' = has',
                        NEW i \in 1 .. Len(States), i \notin todo', Wanted(States[i])'
                 PROVE  <<Key(States[i]), val'[Key(States[i])]>> \in out'
    BY DEF VisitedInv, Wanted
  <1>2. CASE pc = "idle" /\ \E o \in Obj : snapshot(o)
    BY <1>1, <1>2, LoopBegins DEF databases_for, Wanted
  <1>3. CASE pc = "snapshot" /\ SnapshotElement
    <2>1. /\ stopped /\ halted /\ feats = has /\ Wanted(States[i])
          /\ UNCHANGED <<has, val>>
      BY <1>1, <1>3 DEF SnapshotElement, target, history, LoopInv, Wanted
    <2>2. PICK n \in todo :
              /\ todo' = todo \ {n}
              /\ \/ ~States[n].snapshot /\ NoFault /\ UNCHANGED out
                 \/ /\ States[n].snapshot
                    /\ \E r \in ReadStatus :
                          /\ Reads(States[n], feats, r)
                          /\ out' = IF Keeps(States[n], r)
                                    THEN Put(Key(States[n]), val[Key(States[n])]) ELSE out
      BY <1>3 DEF SnapshotElement
    <2>3. n \in 1 .. Len(States)
      BY DEF TypeOK
    <2>4. ~Fault
      BY <1>1 DEF Fault, TypeOK
    <2>5. faults = 0
      BY <1>1, <2>2, <2>4 DEF Reads, NoFault
    <2>6. CASE i = n
      <3>1. PICK r \in ReadStatus :
                /\ Reads(States[n], feats, r)
                /\ out' = IF Keeps(States[n], r)
                          THEN Put(Key(States[n]), val[Key(States[n])]) ELSE out
        BY <2>1, <2>2, <2>6 DEF Wanted
      <3>2. Keeps(States[n], r)
        BY <2>1, <2>3, <2>4, <2>6, <3>1, ElementKept
      <3>3. QED BY <2>1, <2>6, <3>1, <3>2 DEF Put
    <2>7. CASE i # n
      <3>1. <<Key(States[i]), val[Key(States[i])]>> \in out
        BY <1>1, <1>3, <2>1, <2>2, <2>5, <2>7 DEF VisitedInv
      <3>2. QED BY <2>1, <2>2, <3>1, PutKeeps
    <2>8. QED BY <2>6, <2>7
  <1>4. CASE pc = "snapshot" /\ TargetRuns
    BY <1>1, <1>4 DEF TargetRuns, LoopInv
  <1>5. CASE pc = "snapshot" /\ (TargetStops \/ UNCHANGED vars)
    <2>1. UNCHANGED <<has, val, out, todo, feats, stopped, faults>>
      BY <1>5 DEF TargetStops, vars, loop, history, target
    <2>2. QED BY <1>1, <1>5, <2>1 DEF VisitedInv, Wanted
  <1>6. QED BY <1>1, <1>2, <1>3, <1>4, <1>5, InsideLoop

(* A snapshot of a core that is halted from its first query on, in which   *)
(* no call failed and whose features are the target's, lacks nothing it    *)
(* can read: for every database, every marked element that is vouched for  *)
(* and that a debugger can reach is in it, as it is (core.py:279-291).     *)
(* Those it cannot reach are left out (hw_state.c:161-182).                *)
THEOREM SnapshotsAreComplete == Spec => SnapshotIsComplete
  <1>1. Init => VisitedInv
    BY DEF Init, VisitedInv
  <1>2. Spec => []VisitedInv
    BY <1>1, VisitedStep, LoopAlways, SessionTypes, PTL DEF Spec
  <1>3. ASSUME VisitedInv, SnapshotDone, stopped, faults = 0, feats = has
        PROVE  \A i \in 1 .. Len(States) :
                   Wanted(States[i]) => <<Key(States[i]), val[Key(States[i])]>> \in out
    BY <1>3 DEF SnapshotDone, VisitedInv
  <1>4. QED BY <1>2, <1>3, PTL DEF SnapshotIsComplete

=============================================================================
