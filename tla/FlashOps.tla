------------------------------ MODULE FlashOps ------------------------------
(***************************************************************************)
(* The flash API of core/hw.c over a backend whose calls may fail: the     *)
(* thin wrappers, and the two composite calls, hw_flash_update and         *)
(* hw_flash_patch, one step per backend call they make.                    *)
(*                                                                         *)
(* libhw has no threads: one call runs at a time, and pc = "idle" between  *)
(* calls.  What goes wrong goes wrong inside the backend: a call fails     *)
(* having done part of its work, or (SilentFaults) reports success having  *)
(* done part of it, the way a backend that recognises failures by words in *)
(* a reply can.  Addresses are unsigned ints of the C code: sums wrap at   *)
(* Word.                                                                   *)
(***************************************************************************)
EXTENDS NorFlash, FiniteSets

CONSTANTS
    Word,          \* 2^32 in the C code: unsigned int arithmetic wraps here
    WriteAlign,    \* info.write_align as hw_flash_info reports it
    DevAlign,      \* the granularity the backend's flash_write insists on
    HasHaltOp,     \* the backend's ops table has board_halt
    SilentFaults,  \* a failing erase or write may still report success
    MaxFaults,     \* bound: how many backend calls may fail
    MaxCalls,      \* bound: how many API calls the client makes
    CallAddr,      \* bound: addresses the client passes
    CallLen,       \* bound: lengths the client passes
    NoImage        \* old_image == NULL

ASSUME ParameterAssumption ==
    /\ Word \in Nat /\ Base + Size <= Word
    /\ WriteAlign \in Nat \ {0}
    /\ DevAlign \in Nat \ {0}
    /\ HasHaltOp \in BOOLEAN
    /\ SilentFaults \in BOOLEAN
    /\ MaxFaults \in Nat
    /\ MaxCalls \in Nat
    /\ CallAddr \subseteq 0 .. (Word - 1)
    /\ CallLen \subseteq 0 .. (Word - 1)

VARIABLES
    flash,    \* the device: [Addr -> Byte]
    halted,   \* the target core is halted
    faults,   \* how many backend calls have failed so far
    calls,    \* how many calls the client has made
    pc,       \* where the running call is; "idle" between calls
    op,       \* the API function of the running or last call
    addr,     \* its arguments: region [addr, addr + len) ...
    len,
    image,    \* ... the bytes for it (new_image of a patch) ...
    oldi,     \* ... and old_image
    pos,      \* loop position
    sb,       \* current erase block [sb, se)
    se,
    cur,      \* patch: what the block holds
    want,     \* what the block shall hold ("page" in hw_flash_update)
    stats,    \* hw_flash_patch_stats_t
    rc,       \* result of the last call
    flash0    \* history: the device when the call was made

callVars == <<calls, op, addr, len, image, oldi, flash0>>
loopVars == <<pos, sb, se, cur, want>>
vars == <<flash, halted, faults, pc, callVars, loopVars, stats, rc>>

NoBuffer == << >>
ZeroStats == [total |-> 0, changed |-> 0, erased |-> 0, bytes |-> 0]

Composite == {"update", "patch"}
UpdatePc == {"update_loop", "update_build", "update_erase", "update_write"}
PatchPc == {"patch_loop", "patch_decide", "patch_erase", "patch_rewrite",
            "patch_program"}

Region == Span(addr, len)
Block == sb .. (se - 1)

(* The sum of two unsigned ints.                                           *)
Wrap(x) == IF x < Word THEN x ELSE x - Word
End == Wrap(addr + len)

-----------------------------------------------------------------------------
(* The backend: a call fails at most MaxFaults times.                      *)

Fault ==
    /\ faults < MaxFaults
    /\ faults' = faults + 1

NoFault == faults' = faults

(* flash_erase over the blocks S, reporting success or not.                *)
BackendErase(S, ok) ==
    \/ /\ ok
       /\ flash' = EraseBytes(flash, S)
       /\ NoFault
    \/ /\ ~ok \/ SilentFaults
       /\ Fault
       /\ \E T \in SUBSET S : flash' = EraseBytes(flash, T)

(* flash_write of d over the n bytes from a.                               *)
Accepts(a, n) == RangeOk(a, n) /\ a % DevAlign = 0 /\ n % DevAlign = 0

BackendWrite(a, n, d, ok) ==
    \/ /\ ~ok /\ ~Accepts(a, n)
       /\ flash' = flash
       /\ NoFault
    \/ /\ ok /\ Accepts(a, n)
       /\ flash' = ProgramBytes(flash, Span(a, n), d)
       /\ NoFault
    \/ /\ ~ok \/ SilentFaults
       /\ Accepts(a, n)
       /\ Fault
       /\ \E T \in SUBSET Span(a, n) : flash' = ProgramBytes(flash, T, d)

-----------------------------------------------------------------------------
(* Entering and leaving a call.                                            *)

Return(r) ==
    /\ pc' = "idle"
    /\ rc' = r
    /\ cur' = NoBuffer /\ want' = NoBuffer

BeginCall(name, a, n, d, o) ==
    /\ pc = "idle"
    /\ calls < MaxCalls
    /\ calls' = calls + 1
    /\ op' = name /\ addr' = a /\ len' = n /\ image' = d /\ oldi' = o
    /\ flash0' = flash
    /\ stats' = ZeroStats
    /\ pos' = a /\ sb' = a /\ se' = a

(* A wrapper around one backend operation that passes no bytes.            *)
BeginControl(name) == BeginCall(name, 0, 0, NoBuffer, NoImage)

Abort == Return(-1) /\ UNCHANGED <<flash, halted, callVars, pos, sb, se, stats>>

-----------------------------------------------------------------------------
(* Execution control, which decides whether the core runs while flash is   *)
(* being programmed.                                                       *)

hw_board_run ==
    /\ BeginControl("run")
    /\ \/ halted' = FALSE /\ NoFault /\ Return(0)
       \/ Fault /\ Return(-1) /\ UNCHANGED halted
    /\ UNCHANGED flash

(* A backend without a board_halt op makes this a successful no-op.        *)
hw_board_halt ==
    /\ BeginControl("halt")
    /\ \/ HasHaltOp /\ halted' = TRUE /\ NoFault /\ Return(0)
       \/ HasHaltOp /\ Fault /\ Return(-1) /\ UNCHANGED halted
       \/ ~HasHaltOp /\ NoFault /\ Return(0) /\ UNCHANGED halted
    /\ UNCHANGED flash

-----------------------------------------------------------------------------
(* The thin wrappers.                                                      *)

hw_flash_write(a, n, d) ==
    /\ BeginCall("write", a, n, d, NoImage)
    /\ UNCHANGED halted
    /\ \/ n = 0 /\ Return(0) /\ NoFault /\ UNCHANGED flash
       \/ n # 0 /\ BackendWrite(a, n, d, TRUE) /\ Return(0)
       \/ n # 0 /\ BackendWrite(a, n, d, FALSE) /\ Return(-1)

hw_flash_erase(a, n) ==
    /\ BeginCall("erase", a, n, NoBuffer, NoImage)
    /\ UNCHANGED halted
    /\ \/ n = 0 /\ Return(0) /\ NoFault /\ UNCHANGED flash
       \/ n # 0 /\ ~RangeOk(a, n) /\ Return(-1) /\ NoFault /\ UNCHANGED flash
       \/ RangeOk(a, n) /\ BackendErase(WidenToSectors(Span(a, n)), TRUE) /\ Return(0)
       \/ RangeOk(a, n) /\ BackendErase(WidenToSectors(Span(a, n)), FALSE) /\ Return(-1)

hw_flash_mass_erase ==
    /\ BeginControl("mass_erase")
    /\ UNCHANGED halted
    /\ \/ BackendErase(Addr, TRUE) /\ Return(0)
       \/ BackendErase(Addr, FALSE) /\ Return(-1)

-----------------------------------------------------------------------------
(* The composite calls up to their loops.                                  *)

(* Argument checks, hw_flash_info and flash_range_ok.                      *)
Enter(n, a) ==
    \/ n = 0 /\ NoFault /\ Return(0)
    \/ n # 0 /\ ~RangeOk(a, n) /\ NoFault /\ Return(-1)
    \/ n # 0 /\ Fault /\ Return(-1)
    \/ /\ RangeOk(a, n)
       /\ NoFault
       /\ pc' = "halt" /\ rc' = -1
       /\ cur' = NoBuffer /\ want' = NoBuffer

hw_flash_update(a, n, d) ==
    /\ BeginCall("update", a, n, d, NoImage)
    /\ Enter(n, a)
    /\ UNCHANGED <<flash, halted>>

hw_flash_patch(a, n, o, d) ==
    /\ BeginCall("patch", a, n, d, o)
    /\ Enter(n, a)
    /\ UNCHANGED <<flash, halted>>

(* Mutant: the halt is forgotten.                                          *)
HaltResultForgotten == UNCHANGED halted

(* The target is halted already, is halted now, or the backend has no      *)
(* board_halt and hw_board_halt reports success without doing anything.    *)
HaltResult ==
    \/ halted /\ UNCHANGED halted
    \/ ~halted /\ HasHaltOp /\ halted' = TRUE
    \/ ~halted /\ ~HasHaltOp /\ UNCHANGED halted

flash_halt_target ==
    /\ pc = "halt"
    /\ HaltResult
    /\ pc' = IF op = "update" THEN "update_loop" ELSE "patch_loop"
    /\ NoFault
    /\ UNCHANGED <<flash, callVars, loopVars, stats, rc>>

flash_halt_failed == pc = "halt" /\ HasHaltOp /\ Fault /\ Abort

(* One lookup of hw_flash_sector with the check that follows it; the loops *)
(* of update and patch share it.                                           *)
SectorUsable == Wrap(SectorEnd[pos]) > pos

TakeSector ==
    /\ pos < End
    /\ SectorUsable
    /\ sb' = SectorStart[pos] /\ se' = SectorEnd[pos]
    /\ NoFault

NoSector ==
    /\ pc \in {"update_loop", "patch_loop"}
    /\ pos < End
    /\ \/ ~SectorUsable /\ NoFault
       \/ Fault
    /\ Abort

LoopDone ==
    /\ pc \in {"update_loop", "patch_loop"}
    /\ pos >= End
    /\ pc' = "verify"
    /\ NoFault
    /\ UNCHANGED <<flash, halted, callVars, loopVars, stats, rc>>

-----------------------------------------------------------------------------
(* hw_flash_update: read what the block carries, erase, write.             *)

UpdateSector ==
    /\ pc = "update_loop"
    /\ TakeSector
    /\ pc' = "update_build"
    /\ UNCHANGED <<flash, halted, callVars, pos, cur, want, stats, rc>>

(* Mutant: the bytes outside the region are not read back.                 *)
SplicedUnread == [a \in Block |-> IF a \in Region THEN image[a] ELSE Bits]

(* flash_build_sector_image: the block with the region's bytes spliced in. *)
(* The device is read only when the region does not cover the block.       *)
Spliced == [a \in Block |-> IF a \in Region THEN image[a] ELSE flash[a]]

UpdateBuild ==
    /\ pc = "update_build"
    /\ want' = Spliced
    /\ pc' = "update_erase"
    /\ NoFault
    /\ UNCHANGED <<flash, halted, callVars, pos, sb, se, cur, stats, rc>>

UpdateBuildFailed ==
    /\ pc = "update_build"
    /\ ~(Block \subseteq Region)
    /\ Fault
    /\ Abort

(* Mutant: all blocks of the region are erased before any is written.      *)
UpdateEraseAllFirst ==
    /\ pc = "update_erase"
    /\ \/ /\ BackendErase(WidenToSectors(Region), TRUE)
          /\ pc' = "update_write"
          /\ UNCHANGED <<cur, want, rc>>
       \/ BackendErase(WidenToSectors(Region), FALSE) /\ Return(-1)
    /\ UNCHANGED <<halted, callVars, pos, sb, se, stats>>

UpdateErase ==
    /\ pc = "update_erase"
    /\ \/ /\ BackendErase(Block, TRUE)
          /\ pc' = "update_write"
          /\ UNCHANGED <<cur, want, rc>>
       \/ BackendErase(Block, FALSE) /\ Return(-1)
    /\ UNCHANGED <<halted, callVars, pos, sb, se, stats>>

(* Mutant: a failed write is not noticed and the loop goes on.             *)
UpdateWriteUnchecked ==
    /\ pc = "update_write"
    /\ \E ok \in BOOLEAN : BackendWrite(sb, se - sb, want, ok)
    /\ pos' = Wrap(se)
    /\ pc' = "update_loop"
    /\ want' = NoBuffer
    /\ UNCHANGED <<cur, rc>>
    /\ UNCHANGED <<halted, callVars, sb, se, stats>>

(* Mutant: the loop position stays where it is.                            *)
UpdateWriteStuck ==
    /\ pc = "update_write"
    /\ \/ /\ BackendWrite(sb, se - sb, want, TRUE)
          /\ pos' = sb
          /\ pc' = "update_loop"
          /\ want' = NoBuffer
          /\ UNCHANGED <<cur, rc>>
       \/ BackendWrite(sb, se - sb, want, FALSE) /\ Return(-1) /\ UNCHANGED pos
    /\ UNCHANGED <<halted, callVars, sb, se, stats>>

UpdateWrite ==
    /\ pc = "update_write"
    /\ \/ /\ BackendWrite(sb, se - sb, want, TRUE)
          /\ pos' = Wrap(se)
          /\ pc' = "update_loop"
          /\ want' = NoBuffer
          /\ UNCHANGED <<cur, rc>>
       \/ BackendWrite(sb, se - sb, want, FALSE) /\ Return(-1) /\ UNCHANGED pos
    /\ UNCHANGED <<halted, callVars, sb, se, stats>>

-----------------------------------------------------------------------------
(* hw_flash_patch: skip, program in place, or erase and rewrite.           *)

PatchSector ==
    /\ pc = "patch_loop"
    /\ TakeSector
    /\ stats' = [stats EXCEPT !.total = @ + 1]
    /\ pc' = "patch_decide"
    /\ UNCHANGED <<flash, halted, callVars, pos, cur, want, rc>>

(* memcmp over the part of the block that the region covers.               *)
SameAsNew(f) == \A a \in Block \cap Region : f[a] = image[a]

NextBlock == pos' = Wrap(se) /\ pc' = "patch_loop"

(* Mutant: the device is compared instead of the old image.                *)
SkippedByDevice == oldi # NoImage /\ SameAsNew(flash)

(* With an old image an unchanged block is not even read.                  *)
SkippedByOldImage == oldi # NoImage /\ SameAsNew(oldi)

PatchSkipByOldImage ==
    /\ pc = "patch_decide"
    /\ SkippedByOldImage
    /\ NextBlock
    /\ NoFault
    /\ UNCHANGED <<flash, halted, callVars, sb, se, cur, want, stats, rc>>

PatchReadFailed ==
    /\ pc = "patch_decide"
    /\ ~SkippedByOldImage
    /\ Fault
    /\ Abort

(* Mutant: a block that needs nothing is counted as changed.               *)
PatchSkipSameCounted ==
    /\ pc = "patch_decide"
    /\ ~SkippedByOldImage
    /\ SameAsNew(flash)
    /\ stats' = [stats EXCEPT !.changed = @ + 1]
    /\ NextBlock
    /\ NoFault
    /\ UNCHANGED <<flash, halted, callVars, sb, se, cur, want, rc>>

(* The device already holds the new bytes.  With an old image that said    *)
(* otherwise the block has been counted as changed by then.                *)
PatchSkipSame ==
    /\ pc = "patch_decide"
    /\ ~SkippedByOldImage
    /\ SameAsNew(flash)
    /\ stats' = [stats EXCEPT !.changed = IF oldi = NoImage THEN @ ELSE @ + 1]
    /\ NextBlock
    /\ NoFault
    /\ UNCHANGED <<flash, halted, callVars, sb, se, cur, want, rc>>

(* Mutant: any difference erases.                                          *)
NeedEraseIfDifferent(w, c) == \E a \in Block : w[a] # c[a]

(* (want & cur) != want for some byte: a bit has to go from 0 to 1.        *)
NeedErase(w, c) == \E a \in Block : ~(w[a] \subseteq c[a])

PatchPlan ==
    /\ pc = "patch_decide"
    /\ ~SkippedByOldImage
    /\ ~SameAsNew(flash)
    /\ stats' = [stats EXCEPT !.changed = @ + 1]
    /\ cur' = [a \in Block |-> flash[a]]
    /\ want' = Spliced
    /\ pc' = IF NeedErase(want', cur') THEN "patch_erase" ELSE "patch_program"
    /\ NoFault
    /\ UNCHANGED <<flash, halted, callVars, pos, sb, se, rc>>

PatchErase ==
    /\ pc = "patch_erase"
    /\ \/ /\ BackendErase(Block, TRUE)
          /\ pc' = "patch_rewrite"
          /\ UNCHANGED <<cur, want, rc>>
       \/ BackendErase(Block, FALSE) /\ Return(-1)
    /\ UNCHANGED <<halted, callVars, pos, sb, se, stats>>

PatchRewrite ==
    /\ pc = "patch_rewrite"
    /\ \/ /\ BackendWrite(sb, se - sb, want, TRUE)
          /\ stats' = [stats EXCEPT !.erased = @ + 1, !.bytes = @ + (se - sb)]
          /\ NextBlock
          /\ cur' = NoBuffer /\ want' = NoBuffer
          /\ UNCHANGED rc
       \/ /\ BackendWrite(sb, se - sb, want, FALSE)
          /\ Return(-1)
          /\ UNCHANGED <<pos, stats>>
    /\ UNCHANGED <<halted, callVars, sb, se>>

(* [lo, hi): from the first to the last byte, as offsets in the block, in  *)
(* which the block differs from what it shall hold.                        *)
DifferingSpan(lo, hi) ==
    /\ lo < hi /\ hi <= se - sb
    /\ want[sb + lo] # cur[sb + lo]
    /\ want[sb + hi - 1] # cur[sb + hi - 1]
    /\ \A i \in 0 .. (lo - 1) : want[sb + i] = cur[sb + i]
    /\ \A i \in hi .. (se - sb - 1) : want[sb + i] = cur[sb + i]

(* The span widened to the program granularity; the whole block when its   *)
(* size is not a multiple of it.                                           *)
Ragged == (se - sb) % WriteAlign # 0
WidenLo(lo) == IF Ragged THEN 0 ELSE lo - (lo % WriteAlign)

(* Mutant: only the start of the span is aligned.                          *)
WidenHiNot(hi) == IF Ragged THEN se - sb ELSE hi

WidenHi(hi) ==
    LET up == hi + ((WriteAlign - (hi % WriteAlign)) % WriteAlign)
    IN  IF Ragged \/ up > se - sb THEN se - sb ELSE up

PatchProgram ==
    /\ pc = "patch_program"
    /\ \E l, h \in 0 .. (se - sb) :
          /\ DifferingSpan(l, h)
          /\ LET lo == WidenLo(l)
                 hi == WidenHi(h)
             IN  \/ /\ BackendWrite(sb + lo, hi - lo, want, TRUE)
                    /\ stats' = [stats EXCEPT !.bytes = @ + (hi - lo)]
                    /\ NextBlock
                    /\ cur' = NoBuffer /\ want' = NoBuffer
                    /\ UNCHANGED rc
                 \/ /\ BackendWrite(sb + lo, hi - lo, want, FALSE)
                    /\ Return(-1)
                    /\ UNCHANGED <<pos, stats>>
    /\ UNCHANGED <<halted, callVars, sb, se>>

-----------------------------------------------------------------------------
(* hw_flash_verify: read the region back and compare.  It ends both        *)
(* composite calls, and is an API call of its own.                         *)

(* Mutant: the last byte is not compared.                                  *)
VerifyResultShort(a, n, d) ==
    \/ /\ NoFault
       /\ RangeOk(a, n) /\ \A x \in Span(a, n - 1) : flash[x] = d[x]
       /\ Return(0)
    \/ /\ NoFault
       /\ ~(RangeOk(a, n) /\ \A x \in Span(a, n - 1) : flash[x] = d[x])
       /\ Return(-1)
    \/ Fault /\ Return(-1)

VerifyResult(a, n, d) ==
    \/ /\ NoFault
       /\ RangeOk(a, n) /\ \A x \in Span(a, n) : flash[x] = d[x]
       /\ Return(0)
    \/ /\ NoFault
       /\ ~(RangeOk(a, n) /\ \A x \in Span(a, n) : flash[x] = d[x])
       /\ Return(-1)
    \/ Fault /\ Return(-1)

FinalVerify ==
    /\ pc = "verify"
    /\ VerifyResult(addr, len, image)
    /\ UNCHANGED <<flash, halted, callVars, pos, sb, se, stats>>

hw_flash_verify(a, n, d) ==
    /\ BeginCall("verify", a, n, d, NoImage)
    /\ \/ n = 0 /\ NoFault /\ Return(0)
       \/ n # 0 /\ VerifyResult(a, n, d)
    /\ UNCHANGED <<flash, halted>>

-----------------------------------------------------------------------------
Init ==
    /\ flash \in [Addr -> Byte]
    /\ halted \in BOOLEAN
    /\ faults = 0 /\ calls = 0
    /\ pc = "idle" /\ op = "none"
    /\ addr = 0 /\ len = 0 /\ image = NoBuffer /\ oldi = NoImage
    /\ pos = 0 /\ sb = 0 /\ se = 0 /\ cur = NoBuffer /\ want = NoBuffer
    /\ stats = ZeroStats
    /\ rc = 0
    /\ flash0 = flash

Images(a, n) == [Span(a, n) -> Byte]

(* What the client may call; one call at a time.                           *)
Call ==
    \/ hw_board_run
    \/ hw_board_halt
    \/ hw_flash_mass_erase
    \/ \E a \in CallAddr, n \in CallLen :
          \/ hw_flash_erase(a, n)
          \/ \E d \in Images(a, n) :
                \/ hw_flash_write(a, n, d)
                \/ hw_flash_verify(a, n, d)
                \/ hw_flash_update(a, n, d)
                \/ \E o \in Images(a, n) \cup {NoImage} : hw_flash_patch(a, n, o, d)

(* The steps of a running composite call.                                  *)
Step ==
    \/ flash_halt_target \/ flash_halt_failed
    \/ NoSector \/ LoopDone
    \/ UpdateSector \/ UpdateBuild \/ UpdateBuildFailed
    \/ UpdateErase \/ UpdateWrite
    \/ PatchSector \/ PatchSkipByOldImage \/ PatchReadFailed \/ PatchSkipSame
    \/ PatchPlan \/ PatchErase \/ PatchRewrite \/ PatchProgram
    \/ FinalVerify

Next == Call \/ Step

Spec == Init /\ [][Next]_vars

(* A call that was made goes on: the library is a plain function call.     *)
FairSpec == Spec /\ WF_vars(Step)

-----------------------------------------------------------------------------
(* Type correctness.                                                       *)
TypeOK ==
    /\ flash \in [Addr -> Byte] /\ flash0 \in [Addr -> Byte]
    /\ halted \in BOOLEAN
    /\ faults \in 0 .. MaxFaults /\ calls \in 0 .. MaxCalls
    /\ pc \in {"idle", "halt", "verify"} \cup UpdatePc \cup PatchPc
    /\ op \in {"none", "run", "halt", "write", "erase", "mass_erase", "verify"}
             \cup Composite
    /\ addr \in Nat /\ len \in Nat
    /\ op \in Composite => image \in Images(addr, len)
    /\ oldi \in Images(addr, len) \cup {NoImage}
    /\ pos \in Nat /\ sb \in Nat /\ se \in Nat
    /\ stats \in [total : Nat, changed : Nat, erased : Nat, bytes : Nat]
    /\ rc \in {0, -1}

Returned(name) == pc = "idle" /\ op = name

(* hw_flash_update and hw_flash_patch return 0 only when the device holds  *)
(* the image in the whole region, whatever the backend calls did and       *)
(* however wrong the old image was (the verify that ends both).            *)
SuccessMeansImage ==
    \A name \in Composite :
        Returned(name) /\ rc = 0 => \A a \in Region : flash[a] = image[a]

(* "nothing outside [addr, addr + len) changes" (include/hw.h:231): the    *)
(* bytes that share an erase block with the region survive its erase.      *)
SuccessKeepsTheRest ==
    \A name \in Composite :
        Returned(name) /\ rc = 0 =>
            \A a \in Addr \ Region : flash[a] = flash0[a]

(* While a composite call runs, and after it failed in any backend call,   *)
(* the bytes outside the region that are not what they were all lie in the *)
(* one erase block the call was working on: it never erases a block before *)
(* the one before it has been written back.                                *)
DamageInOneBlock ==
    op \in Composite =>
        \A a \in Addr \ Region : flash[a] # flash0[a] => a \in Block

(* Everything before the loop position has been dealt with: updated bytes  *)
(* hold the image, also when the call fails later on, so that what a       *)
(* failed update leaves behind is a prefix of the image.                   *)
UpdatedUpToPos ==
    op = "update" => \A a \in Region : a < pos => flash[a] = image[a]

(* The bytes a patch compares the new image with.                          *)
OldByte(a) == IF oldi = NoImage THEN flash0[a] ELSE oldi[a]

(* "Erase blocks whose bytes are identical in the two images are left      *)
(* entirely untouched" (include/hw.h:240), at every moment of the call.    *)
IdenticalBlocksUntouched ==
    op = "patch" =>
        \A a \in Addr :
            flash[a] # flash0[a] =>
                \E b \in Region \cap Sector(a) : OldByte(b) # image[b]

(* "the erase is skipped when every differing bit only goes 1 -> 0": a     *)
(* block in which no bit of the region has to rise is never erased, so a   *)
(* patch that fails there has not touched its neighbours' bytes either.    *)
ClearOnlyBlockNeverErased ==
    op = "patch" =>
        \A a \in Addr :
            (\A b \in Region \cap Sector(a) : image[b] \subseteq flash0[b]) =>
                /\ flash[a] \subseteq flash0[a]
                /\ a \notin Region => flash[a] = flash0[a]

BlocksOf(S) == {SectorStart[a] : a \in S}

(* The statistics of a successful patch count what happened: every block   *)
(* of the region, the blocks in which the images differ, and exactly the   *)
(* blocks in which a bit had to rise.                                      *)
StatsExact ==
    Returned("patch") /\ rc = 0 =>
        /\ stats.total = Cardinality(BlocksOf(Region))
        /\ stats.changed = Cardinality(BlocksOf({a \in Region : OldByte(a) # image[a]}))
        /\ stats.erased =
              Cardinality(BlocksOf({a \in Region : ~(image[a] \subseteq flash0[a])}))

(* On a backend that never fails, a composite call with a range inside the *)
(* flash succeeds: no write it issues is misaligned or out of range, and   *)
(* no block is programmed without the erase it needs.  A patch relies on   *)
(* the old image for this only where it equals the new one.  The exception *)
(* is a region that reaches into a block ending at the very top of the     *)
(* address space: there the end of the block wraps to 0 and the lookup is  *)
(* taken for a bad one (core/hw.c:324, 381).                               *)
SucceedsWithoutFaults ==
    /\ faults = 0
    /\ pc = "idle" /\ op \in Composite
    /\ RangeOk(addr, len) /\ \A a \in Region : SectorEnd[a] < Word
    /\ op = "patch" => \A a \in Region : OldByte(a) = image[a] => flash0[a] = image[a]
    => rc = 0

(* "Halts the target before programming and leaves it halted"              *)
(* (include/hw.h:232, 250).                                                *)
HaltedForProgramming ==
    \/ pc \in (UpdatePc \cup PatchPc \cup {"verify"})
    \/ pc = "idle" /\ op \in Composite /\ rc = 0 /\ len > 0
    => halted

(* The loops of update and patch end: every call returns.                  *)
CallsReturn == (pc # "idle") ~> (pc = "idle")

-----------------------------------------------------------------------------
(* The inductive invariant behind the safety properties.                   *)

InBlock == {"update_build", "update_erase", "update_write", "patch_decide",
            "patch_erase", "patch_rewrite", "patch_program"}
Planned == {"update_erase", "update_write", "patch_erase", "patch_rewrite",
            "patch_program"}
Blank == {"update_write", "patch_rewrite"}

(* A running call is a composite one that passed its checks.               *)
CallInv ==
    /\ pc # "idle" => op \in Composite /\ RangeOk(addr, len) /\ rc = -1
    /\ pc \in UpdatePc => op = "update"
    /\ pc \in PatchPc => op = "patch"

(* The loop stands at the start of the region or of a block.               *)
PosInv ==
    pc # "idle" =>
        /\ addr <= pos
        /\ \/ pos = addr
           \/ pos = Base + Size
           \/ pos \in Addr /\ SectorStart[pos] = pos

(* Inside an iteration [sb, se) is the block of pos, which the region      *)
(* overlaps and which does not wrap.                                       *)
BlockInv ==
    pc \in InBlock =>
        /\ pos \in Addr /\ pos < addr + len
        /\ sb = SectorStart[pos] /\ se = SectorEnd[pos]
        /\ se < Word

(* The plan for the block: the image in the region, the old bytes around   *)
(* it.                                                                     *)
WantInv ==
    pc \in Planned =>
        /\ want \in [Block -> Byte]
        /\ \A a \in Block : want[a] = IF a \in Region THEN image[a] ELSE flash0[a]

(* A block is programmed in place only when no bit has to rise.            *)
CurInv ==
    pc = "patch_program" =>
        /\ cur \in [Block -> Byte]
        /\ \A a \in Block : cur[a] = flash[a] /\ want[a] \subseteq cur[a]

BlankInv == pc \in Blank => \A a \in Block : flash[a] = Bits

(* Bytes outside the region are intact, except those of a block that is    *)
(* between its erase and its write, or where the call failed.              *)
RestInv ==
    op \in Composite =>
        \A a \in Addr \ Region :
            \/ flash[a] = flash0[a]
            \/ a \in Block /\ (pc \in Blank \/ (pc = "idle" /\ rc = -1))

ControlInv == TypeOK /\ CallInv /\ PosInv /\ BlockInv

(* A patch has not touched the blocks it has yet to deal with, and the     *)
(* block it is in only between its erase and its rewrite.                  *)
PatchAhead ==
    op = "patch" /\ pc # "idle" =>
        \A a \in Addr :
            SectorEnd[a] > pos => flash[a] = flash0[a] \/ (a \in Block /\ pc = "patch_rewrite")

(* A patch that is about to change a block has a reason to: a byte of the  *)
(* region differs, and a bit has to rise exactly when it erases.           *)
PatchReason ==
    /\ pc \in {"patch_erase", "patch_rewrite", "patch_program"} =>
          \E b \in Block \cap Region : OldByte(b) # image[b]
    /\ pc \in {"patch_erase", "patch_rewrite"} =>
          \E b \in Block \cap Region : ~(image[b] \subseteq flash0[b])
    /\ pc = "patch_program" =>
          \A a \in Block : /\ want[a] = IF a \in Region THEN image[a] ELSE flash0[a]
                           /\ want[a] \subseteq flash0[a]

(* What has changed lies in an erase block that the region overlaps.       *)
TouchedInv ==
    op \in Composite =>
        \A a \in Addr : flash[a] # flash0[a] => a \in WidenToSectors(Region)

(* The part of T whose blocks end by p, and the bytes whose blocks a patch *)
(* has to count as changed and as erased.                                  *)
Upto(T, p) == {a \in T : SectorEnd[a] <= p}
Differing == {a \in Region : OldByte(a) # image[a]}
Rising ==
    {a \in Region : /\ ~(image[a] \subseteq flash0[a])
                    /\ \E b \in Region \cap Sector(a) : OldByte(b) # image[b]}

(* The statistics of a running patch count the blocks up to pos, and the   *)
(* current one as soon as it is looked up or found changed.                *)
StatsInv ==
    op = "patch" /\ pc # "idle" =>
        /\ stats.total =
              Cardinality(BlocksOf(Upto(Region, pos))) + (IF pc \in InBlock THEN 1 ELSE 0)
        /\ stats.changed =
              Cardinality(BlocksOf(Upto(Differing, pos))) + (IF pc \in Planned THEN 1 ELSE 0)
        /\ stats.erased = Cardinality(BlocksOf(Upto(Rising, pos)))
        /\ pc = "verify" => pos >= End

(* A call that has met no fault, and whose region neither reaches into a   *)
(* block that wraps nor is hidden by a wrong old image, has stored the     *)
(* image up to pos, and has not been refused.                              *)
Promising ==
    /\ faults = 0
    /\ op \in Composite /\ RangeOk(addr, len)
    /\ \A a \in Region : SectorEnd[a] < Word
    /\ op = "patch" => \A a \in Region : OldByte(a) = image[a] => flash0[a] = image[a]

ProgressInv ==
    Promising =>
        /\ pc # "idle" => \A a \in Region : a < pos => flash[a] = image[a]
        /\ pc = "verify" => pos >= addr + len
        /\ pc = "idle" => rc = 0
=============================================================================
