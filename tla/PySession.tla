------------------------------ MODULE PySession ------------------------------
(***************************************************************************)
(* The Python binding (utils/python/libhw): Hw objects that own a C        *)
(* context, the Flash object that borrows it, the snapshot, and the        *)
(* libhw-probe program.  Objects outlive their connection: a program can   *)
(* call into any of them after close().  While the core runs, memory and   *)
(* registers change between two queries of one snapshot, and the core may  *)
(* stop by itself at a breakpoint.                                         *)
(***************************************************************************)
EXTENDS Integers, Sequences

CONSTANTS
    Obj,        \* Hw objects of the program
    States,     \* the databases: a sequence of descriptors, "arch" ones first
    Value,      \* what a state element holds
    HasHaltOp,  \* the backend's ops table has board_halt
    Live,       \* bound: keys of the elements whose values change
    MaxFaults,  \* bound: how many C calls fail
    MaxCalls    \* bound: how many Python calls the program makes

(* What the binding looks at in a descriptor.  Two descriptors may have    *)
(* one key: the same register, recorded under two ids.  A debugger has no  *)
(* way ("none") to a special register without a DCRSR selector, such as    *)
(* IAPSR or BASEPRI_MAX, nor to one that is given as an offset.            *)
DescType ==
    [db : {"arch", "cpu"}, name : STRING, snapshot : BOOLEAN,
     access : {"memory", "core", "none"}, feature : {"none", "fp"}, readable : BOOLEAN]

ASSUME SessionAssumption ==
    /\ States \in Seq(DescType)
    /\ HasHaltOp \in BOOLEAN
    /\ MaxFaults \in Nat /\ MaxCalls \in Nat

Key(d) == <<d.db, d.name>>
Keys == {Key(States[i]) : i \in 1 .. Len(States)}
MemoryKeys == {Key(States[i]) : i \in {j \in 1 .. Len(States) : States[j].access = "memory"}}
ASSUME LiveAssumption == Live \subseteq Keys

None == 0
Ids == 1 .. MaxCalls
NoFeatures == {"features is None"}

VARIABLES
    has,      \* the target: "fp" if it has the extension, "m7" if its part is known
    halted,
    val,      \* ... what its state holds
    flash,    \* ... and its flash: "old" or "new" image
    alive,    \* the C contexts that hw_connect made and hw_close has not freed
    ctx,      \* Hw._ctx of every object
    pc, self, \* the composite call that runs, and on which object
    feats,    \* its features
    kept,     \* the last features identify() returned, which the program keeps
    todo,     \* positions of the descriptors the loop has still to visit
    out,      \* the dictionary the snapshot builds: its pairs
    result,   \* of the last call: "ok", "false" or the exception raised
    faults, calls,
    seen,     \* history: what every element held since the snapshot began
    stopped   \* history: the core was halted all that time

target == <<has, halted, val, flash>>
session == <<alive, ctx>>
loop == <<self, feats, todo, out>>
history == <<seen, stopped>>
vars == <<target, session, pc, loop, kept, result, faults, calls, history>>

NoFault == faults' = faults
Fault == faults < MaxFaults /\ faults' = faults + 1

-----------------------------------------------------------------------------
(* The target on its own.                                                  *)

TargetRuns ==
    /\ ~halted
    /\ \E k \in Live, v \in Value :
          /\ v # val[k]
          /\ val' = [val EXCEPT ![k] = v]
          /\ seen' = IF pc = "snapshot" THEN [seen EXCEPT ![k] = @ \cup {v}] ELSE seen
    /\ UNCHANGED <<has, halted, flash, session, pc, loop, kept, result, faults, calls,
                   stopped>>

TargetStops ==
    /\ ~halted /\ halted' = TRUE
    /\ UNCHANGED <<has, val, flash, session, pc, loop, kept, result, faults, calls,
                   history>>

-----------------------------------------------------------------------------
(* A call begins; a simple one also ends in the same step.                 *)

Begin ==
    /\ pc = "idle"
    /\ calls < MaxCalls /\ calls' = calls + 1

Simple(r) == result' = r /\ UNCHANGED <<pc, loop, history>>

(* Hw.__init__: hw_connect returns a context or NULL.  Some backends halt  *)
(* the target when they attach.                                            *)
Attach(o) ==
    \/ /\ NoFault
       /\ \E x \in Ids \ alive :
             /\ \A y \in Ids \ alive : x <= y
             /\ alive' = alive \cup {x}
             /\ ctx' = [ctx EXCEPT ![o] = x]
       /\ halted' \in {halted, TRUE}
       /\ result' = "ok"
    \/ /\ Fault
       /\ result' = "HwConnectError"
       /\ UNCHANGED <<session, halted>>

connect(o) ==
    /\ ctx[o] = None
    /\ Attach(o)
    /\ UNCHANGED <<has, val, flash, pc, loop, kept, history>>
    /\ Begin

(* Mutant: the pointer to the freed context stays in the object.           *)
DetachDangling(o) ==
    \/ /\ ctx[o] # None
       /\ alive' = alive \ {ctx[o]} /\ UNCHANGED ctx
       /\ halted' \in {halted, FALSE}
    \/ ctx[o] = None /\ UNCHANGED <<session, halted>>

(* Hw.close: once.  Some backends let the target go.                       *)
Detach(o) ==
    \/ /\ ctx[o] # None
       /\ alive' = alive \ {ctx[o]} /\ ctx' = [ctx EXCEPT ![o] = None]
       /\ halted' \in {halted, FALSE}
    \/ ctx[o] = None /\ UNCHANGED <<session, halted>>

close(o) ==
    /\ Detach(o)
    /\ NoFault
    /\ Simple("ok")
    /\ UNCHANGED <<has, val, flash, kept>>
    /\ Begin

(* What a C function does when it is given a context it can use.           *)
Effect(name) ==
    \/ name \in {"read32", "read8", "halted", "read_reg"} /\ UNCHANGED target
    \/ /\ name \in {"write32", "write8"}
       /\ \E k \in Live \cap MemoryKeys, v \in Value : val' = [val EXCEPT ![k] = v]
       /\ UNCHANGED <<has, halted, flash>>
    \/ /\ name = "write_reg"
       /\ \E k \in Live \ MemoryKeys, v \in Value : val' = [val EXCEPT ![k] = v]
       /\ UNCHANGED <<has, halted, flash>>
    \/ name = "halt" /\ halted' = (halted \/ HasHaltOp) /\ UNCHANGED <<has, val, flash>>
    \/ name = "run" /\ halted' = FALSE /\ UNCHANGED <<has, val, flash>>
    \/ /\ name = "step"
       /\ \E k \in Live, v \in Value : val' = [val EXCEPT ![k] = v]
       /\ UNCHANGED <<has, halted, flash>>
    \/ name = "reset" /\ halted' \in BOOLEAN /\ UNCHANGED <<has, val, flash>>

(* read_reg and write_reg have no way to fail, and halted answers "no".    *)
Unfailing == {"halted", "read_reg", "write_reg"}
HwMethod == {"read32", "write32", "read8", "write8", "halt", "run", "step", "reset"}
            \cup Unfailing

(* A method of Hw: _check, then one C call.                                *)
HwCall(o, name) ==
    /\ \/ /\ ctx[o] = None
          /\ Simple("HwError") /\ NoFault /\ UNCHANGED target
       \/ /\ ctx[o] # None
          /\ Effect(name) /\ Simple("ok") /\ NoFault
       \/ /\ ctx[o] # None
          /\ Fault /\ Simple(IF name \in Unfailing THEN "ok" ELSE "HwError")
          /\ UNCHANGED target
    /\ UNCHANGED <<session, kept>>
    /\ Begin

(* The methods of Flash do not _check: they hand hw._ctx, perhaps NULL, to *)
(* the C function, which refuses NULL.  An empty range asks nothing.       *)
Whole == {"info", "sector", "mass_erase"}
Erasing == {"erase", "mass_erase"}
Programming == {"write", "update", "patch"}
FlashMethod == Whole \cup Erasing \cup Programming \cup {"read", "verify"}

(* update and patch halt the target; what a failed call leaves in flash is *)
(* FlashOps' subject, here it is the old or the new contents or "blank".   *)
FlashEffect(name, ok) ==
    /\ flash' \in CASE name \in Erasing -> {"blank"} \cup (IF ok THEN {} ELSE {flash})
                   [] name \in Programming -> {"new"} \cup (IF ok THEN {} ELSE {flash, "blank"})
                   [] OTHER -> {flash}
    /\ halted' \in IF name \in {"update", "patch"}
                   THEN {halted \/ HasHaltOp} \cup (IF ok THEN {} ELSE {halted})
                   ELSE {halted}
    /\ UNCHANGED <<has, val>>

FlashCall(o, name, empty) ==
    /\ \/ /\ empty /\ name \notin Whole
          /\ Simple("ok") /\ NoFault /\ UNCHANGED target
       \/ /\ ~empty /\ ctx[o] = None
          /\ Simple(IF name = "verify" THEN "false" ELSE "HwFlashError")
          /\ NoFault /\ UNCHANGED target
       \/ /\ ~empty /\ ctx[o] # None
          /\ FlashEffect(name, TRUE) /\ NoFault
          /\ Simple(IF name = "verify" /\ flash # "new" THEN "false" ELSE "ok")
       \/ /\ ~empty /\ ctx[o] # None
          /\ FlashEffect(name, FALSE) /\ Fault
          /\ Simple(IF name = "verify" THEN "false" ELSE "HwFlashError")
    /\ UNCHANGED <<session, kept>>
    /\ Begin

(* Flash.patch refuses images of two lengths before anything else.         *)
PatchLengths(o) ==
    /\ Simple("ValueError") /\ NoFault
    /\ UNCHANGED <<target, session, kept>>
    /\ Begin

-----------------------------------------------------------------------------
(* State queries.                                                          *)

(* hw_state_identify: CPUID has to be readable, the rest need not be.      *)
Identified(f) == f = has \/ (faults < MaxFaults /\ f = has \ {"fp"})

identify(o) ==
    /\ \/ /\ ctx[o] = None
          /\ Simple("HwError") /\ NoFault /\ UNCHANGED kept
       \/ /\ ctx[o] # None
          /\ \E f \in SUBSET has : Identified(f) /\ kept' = f
          /\ Simple("ok") /\ NoFault
       \/ /\ ctx[o] # None /\ Fault /\ Simple("HwStateError") /\ UNCHANGED kept
    /\ UNCHANGED <<target, session>>
    /\ Begin

(* hw_state_query as HwState models it: the presence verdict ...           *)
PresenceOf(d, f) ==
    IF d.feature # "none" THEN IF d.feature \in f THEN "CONFIG_CONFIRMED" ELSE "CONFIG_DENIED"
    ELSE IF d.db = "arch" THEN "ARCHITECTURAL" ELSE "UNKNOWN"

(* Mutant: core registers are read whether the core is halted or not.      *)
ReadOutcomesRunning(d, f) ==
    IF PresenceOf(d, f) = "CONFIG_DENIED" THEN {"NOT_ATTEMPTED"}
    ELSE IF ~d.readable THEN {"UNSAFE"}
    ELSE IF d.access = "none" THEN {"BACKEND_UNSUPPORTED"}
    ELSE {"OK", "FAILED"}

(* ... and the outcome of the read: whether there is a way to the register *)
(* is decided before the core is asked whether it is halted.               *)
ReadOutcomes(d, f) ==
    IF PresenceOf(d, f) = "CONFIG_DENIED" THEN {"NOT_ATTEMPTED"}
    ELSE IF ~d.readable THEN {"UNSAFE"}
    ELSE IF d.access = "none" THEN {"BACKEND_UNSUPPORTED"}
    ELSE IF d.access = "core" /\ ~halted THEN {"UNSAFE"}
    ELSE {"OK", "FAILED"}

Reads(d, f, r) ==
    /\ r \in ReadOutcomes(d, f)
    /\ IF r = "FAILED" THEN Fault ELSE NoFault

ReadStatus == {"NOT_ATTEMPTED", "OK", "UNSAFE", "BACKEND_UNSUPPORTED", "FAILED"}

(* Presence.is_implemented: only on positive evidence.                     *)
is_implemented(p) == p \in {"ARCHITECTURAL", "CONFIG_CONFIRMED", "DISCOVERED"}

(* Mutant: the overlay takes the place of the architecture.                *)
databases_forOne(f) == {i \in 1 .. Len(States) : States[i].db = "arch" <=> "m7" \notin f}

(* databases_for: the architecture, and the overlay of a part that is      *)
(* known.  A loop over them goes up the positions in States.               *)
databases_for(f) == {i \in 1 .. Len(States) : States[i].db = "arch" \/ "m7" \in f}
First(i) == \A j \in todo : i <= j

(* Hw.snapshot up to its loop.                                             *)
snapshot(o) ==
    /\ \/ /\ ctx[o] = None
          /\ Simple("HwError") /\ NoFault
       \/ /\ ctx[o] # None /\ Fault /\ Simple("HwStateError")
       \/ /\ ctx[o] # None
          /\ \E f \in SUBSET has :
                /\ Identified(f) \/ f = kept
                /\ feats' = f
                /\ todo' = databases_for(f)
          /\ pc' = "snapshot" /\ self' = o /\ out' = {}
          /\ seen' = [k \in Keys |-> {val[k]}] /\ stopped' = halted
          /\ NoFault /\ UNCHANGED result
    /\ UNCHANGED <<target, session, kept>>
    /\ Begin

(* What goes into the dictionary.                                          *)
Keeps(d, r) == r = "OK" /\ is_implemented(PresenceOf(d, feats))

(* A dictionary has one value for a key: the last one.                     *)
Put(k, v) == {p \in out : p[1] # k} \cup {<<k, v>>}

SnapshotElement ==
    /\ pc = "snapshot"
    /\ \E i \in todo :
          /\ First(i) /\ todo' = todo \ {i}
          /\ LET d == States[i]
             IN  \/ ~d.snapshot /\ NoFault /\ UNCHANGED out
                 \/ /\ d.snapshot
                    /\ \E r \in ReadStatus :
                          /\ Reads(d, feats, r)
                          /\ out' = IF Keeps(d, r) THEN Put(Key(d), val[Key(d)]) ELSE out
    /\ UNCHANGED <<target, session, pc, self, feats, kept, result, calls, history>>

(* The call is over; nothing of its loop is used again.                    *)
Over ==
    /\ pc' = "idle"
    /\ feats' = {} /\ todo' = {} /\ out' = {} /\ UNCHANGED self
    /\ seen' = [k \in Keys |-> {}] /\ stopped' = FALSE

SnapshotDone ==
    /\ pc = "snapshot" /\ todo = {}
    /\ Over /\ result' = "ok"
    /\ NoFault
    /\ UNCHANGED <<target, session, kept, calls>>

-----------------------------------------------------------------------------
(* libhw-probe: connect, halt, identify, query everything, let the target  *)
(* run or not, and close however the block is left.                        *)

main(o, resume) ==
    /\ ctx[o] = None
    /\ Attach(o)
    /\ \/ result' = "ok" /\ pc' = (IF resume THEN "probe_halt_resume" ELSE "probe_halt")
       \/ result' # "ok" /\ pc' = "idle"
    /\ self' = o
    /\ UNCHANGED <<has, val, flash, feats, todo, out, kept, history>>
    /\ Begin

Probing == {"probe_halt", "probe_halt_resume", "probe", "probe_resume"}

(* Mutant: an exception leaves the block without close().                  *)
LeaveOpen(r) == pc' = "idle" /\ result' = r

(* __exit__ closes, and main turns the exception into its exit status.     *)
Leave(r) == pc' = "probe_exit" /\ result' = r

(* halted, else halt(): a backend without board_halt does nothing.         *)
HaltFirst == halted' = (halted \/ HasHaltOp)

probe_halt ==
    /\ pc \in {"probe_halt", "probe_halt_resume"}
    /\ \/ /\ HaltFirst
          /\ \E f \in SUBSET has :
                Identified(f) /\ feats' = f /\ todo' = databases_for(f)
          /\ pc' = (IF pc = "probe_halt" THEN "probe" ELSE "probe_resume")
          /\ NoFault /\ UNCHANGED result
       \/ /\ Fault /\ Leave("HwError")
          /\ HaltFirst \/ UNCHANGED halted
          /\ UNCHANGED <<feats, todo>>
    /\ UNCHANGED <<has, val, flash, session, self, out, kept, calls, history>>

(* _report_state counts verdicts and read outcomes separately.             *)
ProbeElement ==
    /\ pc \in {"probe", "probe_resume"}
    /\ \E i \in todo :
          /\ First(i) /\ todo' = todo \ {i}
          /\ \E r \in ReadStatus : Reads(States[i], feats, r)
    /\ UNCHANGED <<target, session, pc, self, feats, out, kept, result, calls, history>>

ProbeDone ==
    /\ pc \in {"probe", "probe_resume"} /\ todo = {}
    /\ \/ pc = "probe" /\ Leave("ok") /\ NoFault /\ UNCHANGED halted
       \/ pc = "probe_resume" /\ halted' = FALSE /\ Leave("ok") /\ NoFault
       \/ pc = "probe_resume" /\ Fault /\ Leave("HwError") /\ UNCHANGED halted
    /\ UNCHANGED <<has, val, flash, session, loop, kept, calls, history>>

ProbeExit ==
    /\ pc = "probe_exit"
    /\ Detach(self)
    /\ Over
    /\ NoFault
    /\ UNCHANGED <<has, val, flash, kept, result, calls>>

-----------------------------------------------------------------------------
Init ==
    /\ has \in SUBSET {"fp", "m7"} /\ halted \in BOOLEAN
    /\ \E v \in Value : val = [k \in Keys |-> v]
    /\ flash = "old"
    /\ alive = {} /\ ctx = [o \in Obj |-> None]
    /\ pc = "idle" /\ self = (CHOOSE o \in Obj : TRUE)
    /\ feats = {} /\ kept = NoFeatures
    /\ todo = {} /\ out = {} /\ result = "ok"
    /\ faults = 0 /\ calls = 0
    /\ seen = [k \in Keys |-> {}] /\ stopped = FALSE

Call ==
    \E o \in Obj :
        \/ connect(o) \/ close(o) \/ identify(o) \/ snapshot(o) \/ PatchLengths(o)
        \/ \E name \in HwMethod : HwCall(o, name)
        \/ \E name \in FlashMethod, empty \in BOOLEAN : FlashCall(o, name, empty)
        \/ \E resume \in BOOLEAN : main(o, resume)

Step ==
    \/ SnapshotElement \/ SnapshotDone
    \/ probe_halt \/ ProbeElement \/ ProbeDone \/ ProbeExit

Next == Call \/ Step \/ TargetRuns \/ TargetStops

Spec == Init /\ [][Next]_vars

(* A call that was made goes on.                                           *)
FairSpec == Spec /\ WF_vars(Step)

-----------------------------------------------------------------------------
(* An object never holds a context that was freed, and no two objects      *)
(* share one: with the NULL checks of the C functions this is what makes   *)
(* Flash methods, which do not _check, safe after close (core.py:167), and *)
(* a second close harmless.                                                *)
ContextsOwned ==
    /\ \A o \in Obj : ctx[o] # None => ctx[o] \in alive
    /\ \A o, p \in Obj : ctx[o] = ctx[p] /\ ctx[o] # None => o = p

(* "Read every snapshot-marked element that the target implements"         *)
(* (core.py:280).  A snapshot holds no element the target may lack (the    *)
(* architecture or a feature of the target vouches for it), and none that  *)
(* is not marked or that no debugger can reach, whatever was read cleanly; *)
(* values of memory were there at some moment of the call, and the core    *)
(* registers in it are those of the one halted state the call ended in,    *)
(* even if the core stopped half-way through.                              *)
SnapshotIsTrue ==
    pc = "snapshot" =>
        \A p \in out : \E i \in 1 .. Len(States) :
            LET d == States[i]
            IN  /\ Key(d) = p[1] /\ d.snapshot /\ d.readable /\ d.access # "none"
                /\ IF d.feature = "none" THEN d.db = "arch" ELSE d.feature \in has
                /\ p[2] \in seen[p[1]]
                /\ d.access = "core" => halted /\ p[2] = val[p[1]]

(* What a snapshot must hold: the marked elements that the architecture or *)
(* a feature of the target vouches for and that a debugger can reach.  Of  *)
(* "every snapshot-marked element that the target implements"              *)
(* (core.py:280) that leaves out the marked registers without a DCRSR      *)
(* selector, which the snapshot drops as BACKEND_UNSUPPORTED on every      *)
(* target, and the overlay's registers without a feature, which nothing    *)
(* vouches for.                                                            *)
Wanted(d) ==
    /\ d.snapshot /\ d.readable /\ d.access # "none" /\ d.db = "arch"
    /\ d.feature \in has \cup {"none"}

(* On a core that is halted from the first query on, and when no call      *)
(* fails and the features are complete, no wanted element is missing, and  *)
(* each is there as it is (the loop of Hw.snapshot, core.py:284-291).      *)
SnapshotIsComplete ==
    [][SnapshotDone /\ stopped /\ faults = 0 /\ feats = has =>
          \A i \in 1 .. Len(States) :
              Wanted(States[i]) => <<Key(States[i]), val[Key(States[i])]>> \in out]_vars

(* Snapshots and probes end, and the probe has closed its connection then, *)
(* also when a call in its with block raised.                              *)
CallsReturn ==
    /\ (pc # "idle") ~> (pc = "idle")
    /\ \A o \in Obj :
          (pc \in Probing /\ self = o) ~> (pc = "idle" /\ ctx[o] = None)

-----------------------------------------------------------------------------
(* What the proofs need beside the properties.                             *)

(* The types of the variables the properties look at.                      *)
TypeOK ==
    /\ halted \in BOOLEAN /\ stopped \in BOOLEAN
    /\ DOMAIN val = Keys
    /\ alive \subseteq Ids /\ ctx \in [Obj -> Ids \cup {None}]
    /\ todo \subseteq 1 .. Len(States)
    /\ pc # "idle" => self \in Obj
    /\ DOMAIN seen = Keys
    /\ faults \in Nat /\ calls \in Nat

(* While the loop of a snapshot runs: its features are features of the     *)
(* target, what an element holds is among what it held, and a core that    *)
(* was halted when the loop began is still halted.                         *)
LoopInv ==
    pc = "snapshot" =>
        /\ feats \subseteq has
        /\ \A k \in Keys : val[k] \in seen[k]
        /\ stopped => halted

(* ... and every wanted element that was visited is in the dictionary, as  *)
(* it is, if the core was halted from the start and nothing failed.        *)
VisitedInv ==
    pc = "snapshot" /\ stopped /\ faults = 0 /\ feats = has =>
        \A i \in (1 .. Len(States)) \ todo :
            Wanted(States[i]) => <<Key(States[i]), val[Key(States[i])]>> \in out
=============================================================================
