------------------------------- MODULE HwState -------------------------------
(***************************************************************************)
(* core/hw_state.c: what a target implements (identify), whether one state *)
(* element is there (presence) and what it holds (read), kept apart on     *)
(* purpose.  A backend access may fail.  Core registers are read through   *)
(* the DCRSR/DCRDR pair, a transfer the core completes in its own time.    *)
(***************************************************************************)
EXTENDS Integers

CONSTANTS
    Desc,          \* the state descriptors (hw_state_desc_t) of the databases
    RegSel,        \* DCRSR selectors
    MaxSpin,       \* 100 in the code: DHCSR reads before giving up
    NullFeatures,  \* callers may pass f == NULL
    IdFaults,      \* ID register reads after CPUID may fail
    MaxFaults,     \* bound: how many other backend accesses fail
    MaxCalls       \* bound: how many calls the client makes

(* What hw_state_find and the tables give for a descriptor.                *)
DescType ==
    [ns : {"arch", "cpu", "debug"},
     feature : {"none", "fp", "mpu", "dwt", "unknown"},
     block : {"pinned", "unpinned"},       \* find_component finds its block
     access : {"memory", "core"},
     encoding : {"absolute", "offset", "other"},
     regsel : RegSel \cup {-1},             \* hw_state_dbgreg, -1 if none
     lsb : 0 .. 1, width : 1 .. 2,
     readable : BOOLEAN]

ASSUME StateAssumption ==
    /\ Desc \subseteq DescType
    /\ RegSel \subseteq Nat
    /\ MaxSpin \in Nat \ {0}
    /\ NullFeatures \in BOOLEAN /\ IdFaults \in BOOLEAN
    /\ MaxFaults \in Nat /\ MaxCalls \in Nat

(* What the databases are like (spec/arm/armv7m.yaml and the overlays):    *)
(* the only debug state with a requirement is the DWT's, and only core     *)
(* registers have a DCRSR selector.                                        *)
ASSUME DatabaseAssumption ==
    \A d \in Desc :
        /\ d.ns = "debug" /\ d.feature # "none" => d.feature = "dwt"
        /\ d.regsel # -1 => d.access = "core"

VARIABLES
    has,       \* the target: the features it implements ...
    block,     \* ... whether the pinned CoreSight block is there ...
    core,      \* ... its core registers, 2 bits wide ...
    word,      \* ... what memory-mapped state holds
    halted,
    sel,       \* DCRSR.REGSEL
    ready,     \* DHCSR.S_REGRDY
    dcrdr,     \* DCRDR
    feats,     \* the caller's hw_cpu_features_t; NotYet before the first identify
    unread,    \* history: features whose registers that identify did not read
    pc, desc,  \* the running query or read
    useFeats,  \* ... f was passed
    spin,
    presence, status, value,  \* hw_state_result_t
    faults, calls

target == <<has, block, core, word, halted>>
port == <<sel, ready, dcrdr>>
result == <<presence, status, value>>
query == <<desc, useFeats, calls>>
identity == <<feats, unread>>
vars == <<target, port, identity, pc, query, spin, result, faults>>

Features == {"fp", "mpu", "dwt"}
NotYet == {"not identified"}
CoreValue == 0 .. 3
Contents == {1, 2}         \* bound: what programs leave in core registers

Presence == {"UNKNOWN", "ARCHITECTURAL", "CONFIG_CONFIRMED", "CONFIG_DENIED",
             "DISCOVERED", "DISCOVERY_ABSENT"}

NoFault == faults' = faults
Fault == faults < MaxFaults /\ faults' = faults + 1

-----------------------------------------------------------------------------
(* The target.                                                             *)

(* Whether the target implements a descriptor's state.                     *)
Implemented(d) ==
    /\ d.feature \in Features => d.feature \in has
    /\ d.ns = "debug" /\ d.block = "pinned" => block

(* The core completes a register transfer.                                 *)
TransferDone ==
    /\ ~ready /\ halted
    /\ ready' = TRUE /\ dcrdr' = core[sel]
    /\ UNCHANGED <<target, sel, identity, pc, query, spin, result, faults>>

(* Between calls the client lets the program run; registers change.        *)
hw_board_run ==
    /\ pc = "idle" /\ calls < MaxCalls /\ calls' = calls + 1
    /\ halted /\ halted' = FALSE
    /\ core' \in [RegSel -> Contents]
    /\ UNCHANGED <<has, block, word, port, identity, pc, desc, useFeats, spin, result,
                   faults>>

hw_board_halt ==
    /\ pc = "idle" /\ calls < MaxCalls /\ calls' = calls + 1
    /\ ~halted /\ halted' = TRUE
    /\ UNCHANGED <<has, block, core, word, port, identity, pc, desc, useFeats, spin,
                   result, faults>>

-----------------------------------------------------------------------------
(* hw_state_identify.  The caller's struct is cleared before anything is   *)
(* read: a feature register that cannot be read leaves its feature at the  *)
(* 0 of the memset, and a CPUID that cannot be read leaves every one there *)
(* and makes the call fail, whatever the struct held before.               *)

hw_state_identify ==
    /\ pc = "idle" /\ calls < MaxCalls /\ calls' = calls + 1
    /\ \/ Fault /\ feats' = {} /\ unread' = Features
       \/ /\ NoFault
          /\ \E failed \in SUBSET Features :
                /\ failed # {} => IdFaults
                /\ feats' = has \ failed
                /\ unread' = failed
    /\ UNCHANGED <<target, port, pc, desc, useFeats, spin, result>>

-----------------------------------------------------------------------------
(* A query or a read begins and ends.                                      *)

Begin(d, where, f) ==
    /\ pc = "idle" /\ calls < MaxCalls /\ calls' = calls + 1
    /\ desc' = d /\ useFeats' = f
    /\ pc' = where
    /\ presence' = "UNKNOWN" /\ status' = "NOT_ATTEMPTED" /\ value' = 0
    /\ UNCHANGED <<target, port, identity, spin, faults>>

Finish(s, v) ==
    /\ pc' = "idle"
    /\ status' = s /\ value' = v
    /\ UNCHANGED <<presence, query, spin>>

hw_state_query(d) ==
    \/ feats # NotYet /\ Begin(d, "presence", TRUE)
    \/ NullFeatures /\ Begin(d, "presence", FALSE)

(* Mutant: the features of two requirements are mixed up.                  *)
hw_state_expectedMixed(d) ==
    IF d.feature = "none" \/ ~useFeats THEN 1
    ELSE IF d.feature = "unknown" THEN -1
    ELSE IF (IF d.feature = "fp" THEN "mpu" ELSE d.feature) \in feats THEN 1 ELSE 0

(* hw_state_expected: 1, 0, or -1 for a requirement it does not know.      *)
hw_state_expected(d) ==
    IF d.feature = "none" \/ ~useFeats THEN 1
    ELSE IF d.feature = "unknown" THEN -1
    ELSE IF d.feature \in feats THEN 1 ELSE 0

(* Mutant: a block whose ID registers cannot be read counts as absent.     *)
component_presentUnread(p) ==
    \/ NoFault /\ p = IF block THEN "DISCOVERED" ELSE "DISCOVERY_ABSENT"
    \/ Fault /\ p = "DISCOVERY_ABSENT"

(* The four component ID reads; one that fails decides nothing.            *)
component_present(p) ==
    \/ NoFault /\ p = IF block THEN "DISCOVERED" ELSE "DISCOVERY_ABSENT"
    \/ Fault /\ p = "UNKNOWN"

(* hw_state_presence: configuration, then discovery, then architecture.    *)
Verdict(p) ==
    \/ /\ desc.feature # "none"
       /\ p = CASE hw_state_expected(desc) = 1 -> "CONFIG_CONFIRMED"
                [] hw_state_expected(desc) = 0 -> "CONFIG_DENIED"
                [] OTHER -> "UNKNOWN"
       /\ NoFault
    \/ /\ desc.feature = "none" /\ desc.ns = "debug" /\ desc.block = "pinned"
       /\ component_present(p)
    \/ /\ desc.feature = "none"
       /\ desc.ns # "debug" \/ desc.block # "pinned"
       /\ p = IF desc.ns = "arch" THEN "ARCHITECTURAL" ELSE "UNKNOWN"
       /\ NoFault

(* The rest of hw_state_query: what the target denies is not read.         *)
Denied(p) == p \in {"CONFIG_DENIED", "DISCOVERY_ABSENT"}

hw_state_presence ==
    /\ pc = "presence"
    /\ \E p \in Presence :
          /\ Verdict(p)
          /\ presence' = p
          /\ \/ Denied(p) /\ pc' = "idle" /\ status' = "NOT_ATTEMPTED"
             \/ ~Denied(p) /\ ~desc.readable /\ pc' = "idle" /\ status' = "UNSAFE"
             \/ ~Denied(p) /\ desc.readable /\ pc' = "read" /\ UNCHANGED status
    /\ UNCHANGED <<target, port, identity, query, spin, value>>

-----------------------------------------------------------------------------
(* hw_state_read: refuse, load, or transfer a core register.               *)

(* How a descriptor is read.  An offset is no address.                     *)
Path(d) ==
    CASE ~d.readable -> "unsafe"
      [] d.readable /\ d.encoding = "offset" -> "unsupported"
      [] d.readable /\ d.encoding = "absolute" /\ d.access = "memory" -> "load"
      [] OTHER -> IF d.regsel # -1 THEN "transfer" ELSE "unsupported"

(* An unimplemented word of the private peripheral bus reads as zero.      *)
Load(d) == IF Implemented(d) THEN word ELSE 0

hw_state_read(d) == Begin(d, "read", FALSE)

Read ==
    /\ pc = "read"
    /\ \/ Path(desc) = "unsafe" /\ Finish("UNSAFE", 0) /\ NoFault
       \/ Path(desc) = "unsupported" /\ Finish("BACKEND_UNSUPPORTED", 0) /\ NoFault
       \/ Path(desc) = "load" /\ Finish("OK", Load(desc)) /\ NoFault
       \/ Path(desc) = "load" /\ Finish("FAILED", 0) /\ Fault
       \/ /\ Path(desc) = "transfer"
          /\ pc' = "debug_state"
          /\ NoFault
          /\ UNCHANGED <<query, spin, result>>
    /\ UNCHANGED <<target, port, identity>>

(* hw_state_read_dbgreg: only in Debug state is DCRSR written ...          *)
SelectRegister ==
    /\ pc = "debug_state"
    /\ \/ ~halted /\ Finish("UNSAFE", 0) /\ NoFault /\ UNCHANGED port
       \/ Fault /\ Finish("UNSAFE", 0) /\ UNCHANGED port   \* board_halted failed: 0
       \/ halted /\ Finish("FAILED", 0) /\ Fault /\ UNCHANGED port
       \/ /\ halted
          /\ sel' = desc.regsel /\ ready' = FALSE /\ UNCHANGED dcrdr
          /\ pc' = "spin" /\ spin' = 0
          /\ NoFault
          /\ UNCHANGED <<query, result>>
    /\ UNCHANGED <<target, identity>>

(* Mutants: the wait has no end; it ends as if the transfer were done.     *)
SpinEndless ==
    /\ pc = "spin" /\ ~ready
    /\ NoFault /\ UNCHANGED <<pc, query, spin, result>>
    /\ UNCHANGED <<target, port, identity>>
SpinThenRead ==
    /\ pc = "spin" /\ ~ready /\ NoFault
    /\ IF spin + 1 < MaxSpin THEN spin' = spin + 1 /\ UNCHANGED pc
                             ELSE pc' = "dcrdr" /\ UNCHANGED spin
    /\ UNCHANGED <<query, result>>
    /\ UNCHANGED <<target, port, identity>>

(* ... then DHCSR is read until S_REGRDY is set, MaxSpin times at most ... *)
Spin ==
    /\ pc = "spin" /\ ~ready /\ NoFault
    /\ \/ spin + 1 < MaxSpin /\ spin' = spin + 1 /\ UNCHANGED <<pc, query, result>>
       \/ spin + 1 = MaxSpin /\ Finish("FAILED", 0)
    /\ UNCHANGED <<target, port, identity>>

SpinReady ==
    /\ pc = "spin" /\ ready
    /\ pc' = "dcrdr"
    /\ NoFault
    /\ UNCHANGED <<target, port, identity, query, spin, result>>

(* ... and the value is the register's bits of DCRDR.                      *)
Field(d, v) == (v \div (2 ^ d.lsb)) % (2 ^ d.width)

ReadDcrdr ==
    /\ pc = "dcrdr"
    /\ Finish("OK", Field(desc, dcrdr)) /\ NoFault
    /\ UNCHANGED <<target, port, identity>>

TransferFailed ==
    /\ pc \in {"spin", "dcrdr"}
    /\ Finish("FAILED", 0) /\ Fault
    /\ UNCHANGED <<target, port, identity>>

-----------------------------------------------------------------------------
Init ==
    /\ has \in SUBSET Features /\ block \in BOOLEAN
    /\ "dwt" \in has => block      \* the pinned block is the DWT
    /\ core \in [RegSel -> Contents] /\ word = 3 /\ halted \in BOOLEAN
    /\ sel = (CHOOSE r \in RegSel : TRUE) /\ ready = TRUE /\ dcrdr = 0
    /\ feats = NotYet /\ unread = {}
    /\ pc = "idle" /\ desc = (CHOOSE d \in Desc : TRUE) /\ useFeats = FALSE /\ spin = 0
    /\ presence = "UNKNOWN" /\ status = "NOT_ATTEMPTED" /\ value = 0
    /\ faults = 0 /\ calls = 0

Call ==
    \/ hw_board_run \/ hw_board_halt \/ hw_state_identify
    \/ \E d \in Desc : hw_state_query(d) \/ hw_state_read(d)

Step ==
    \/ hw_state_presence \/ Read \/ SelectRegister
    \/ Spin \/ SpinReady \/ ReadDcrdr \/ TransferFailed

Next == Call \/ Step \/ TransferDone

Spec == Init /\ [][Next]_vars

(* A call that was made goes on.  Nothing is assumed of the core: it need  *)
(* not complete a transfer (the mock never does).                          *)
FairSpec == Spec /\ WF_vars(Step)

-----------------------------------------------------------------------------
(* "its block's CoreSight ID registers identify it" / "say the block is    *)
(* absent" (include/hw_state.h:57-58), and "a feature/configuration        *)
(* register says it exists" (hw_state.h:55) to a query that was given      *)
(* features: these verdicts are true of the target, whatever accesses of   *)
(* the query or of the identify before it failed.                          *)
VerdictsAreTrue ==
    /\ presence = "DISCOVERED" => block
    /\ presence = "DISCOVERY_ABSENT" => ~block
    /\ presence = "CONFIG_CONFIRMED" /\ useFeats => Implemented(desc)

(* "a feature/configuration register says it does not" (hw_state.h:56): a  *)
(* denial is true of the target or it is of a feature whose register the   *)
(* last identify did not read, because the access or the CPUID read before *)
(* it failed: nothing else makes one false, and a later identify that      *)
(* reads the register mends it.                                            *)
DeniedUnlessUnread ==
    [][pc = "presence" /\ presence' = "CONFIG_DENIED" =>
          ~Implemented(desc) \/ desc.feature \in unread]_vars

(* The state a descriptor names: of a core register, the width bits from   *)
(* lsb on.                                                                 *)
StateOf(d) ==
    IF d.access = "memory" THEN Load(d)
    ELSE CHOOSE v \in 0 .. (2 ^ d.width - 1) :
            \E above \in CoreValue, below \in 0 .. (2 ^ d.lsb - 1) :
                core[d.regsel] = above * 2 ^ (d.lsb + d.width) + v * 2 ^ d.lsb + below

(* A read that reports OK gives what the state holds: no offset was taken  *)
(* for an address, no write-only register was read, and a core register's  *)
(* value is of the transfer this read started and not of an earlier one.   *)
ValueIsState ==
    [][pc # "idle" /\ pc' = "idle" /\ status' = "OK" =>
          /\ desc.readable /\ desc.encoding # "offset"
          /\ value' = StateOf(desc)]_vars

(* Every call returns, also when the core never completes a transfer.      *)
CallsReturn == (pc # "idle") ~> (pc = "idle")

-----------------------------------------------------------------------------
(* The inductive invariant behind these properties.                        *)

(* The features a query goes by are those the target has, less those whose *)
(* registers could not be read; it starts without a verdict.               *)
FeatureInv ==
    /\ has \subseteq Features
    /\ "dwt" \in has => block
    /\ feats = NotYet \/ feats = has \ unread
    /\ pc = "presence" => presence = "UNKNOWN" /\ (useFeats => feats # NotYet)

(* A register transfer is of the register asked for, on a halted core, and *)
(* once it is done DCRDR holds that register.                              *)
TransferInv ==
    /\ core \in [RegSel -> Contents]
    /\ pc \in {"idle", "presence", "read", "debug_state", "spin", "dcrdr"}
    /\ pc # "idle" => desc \in Desc
    /\ pc \in {"debug_state", "spin", "dcrdr"} => Path(desc) = "transfer"
    /\ pc \in {"spin", "dcrdr"} =>
          halted /\ sel = desc.regsel /\ (ready => dcrdr = core[sel])
    /\ pc = "dcrdr" => ready
=============================================================================
