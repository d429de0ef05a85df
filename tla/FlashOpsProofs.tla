--------------------------- MODULE FlashOpsProofs ---------------------------
(***************************************************************************)
(* Proofs about FlashOps for every flash geometry, byte width, write       *)
(* granularity and number of faults and calls: what a call that returned 0 *)
(* has done, what a failed one may have damaged, what hw_flash_patch       *)
(* promises about the blocks it leaves alone, and that update and patch    *)
(* together implement the contract of include/hw.h.                        *)
(***************************************************************************)
EXTENDS FlashRefinement, FiniteSetTheorems, TLAPS

-----------------------------------------------------------------------------
(* What a backend call does to the device, whether it works or fails.      *)

(* The success a backend call reports can be believed: the backend has no  *)
(* silent faults, or there was no fault in this step.                      *)
Honest == ~SilentFaults \/ NoFault

(* A flash_erase of the blocks S changes no byte outside S; if it reports  *)
(* success and can be believed, every byte of S is blank.                  *)
LEMMA EraseEffect ==
    ASSUME NEW S, NEW ok \in BOOLEAN, TypeOK, BackendErase(S, ok)
    PROVE  /\ flash' \in [Addr -> Byte]
           /\ faults' \in 0 .. MaxFaults
           /\ \A a \in Addr : a \notin S => flash'[a] = flash[a]
           /\ \A a \in Addr : flash'[a] \in {flash[a], Bits}
           /\ ok /\ Honest => \A a \in Addr \cap S : flash'[a] = Bits
  <1>1. faults' \in 0 .. MaxFaults
    BY ParameterAssumption DEF TypeOK, BackendErase, Fault, NoFault
  <1>2. \E T \in SUBSET S :
            /\ flash' = EraseBytes(flash, T)
            /\ ok /\ Honest => T = S
    <2>1. CASE ok /\ flash' = EraseBytes(flash, S)
      BY <2>1
    <2>2. CASE /\ (~ok \/ SilentFaults) /\ Fault
               /\ \E T \in SUBSET S : flash' = EraseBytes(flash, T)
      <3>1. faults' # faults
        BY <2>2 DEF Fault, TypeOK
      <3>2. QED BY <2>2, <3>1 DEF Honest, NoFault
    <2>3. QED BY <2>1, <2>2 DEF BackendErase
  <1>3. PICK T \in SUBSET S :
            /\ flash' = EraseBytes(flash, T)
            /\ ok /\ Honest => T = S
    BY <1>2
  <1>4. flash \in [Addr -> SUBSET Bits]
    BY DEF TypeOK, Byte
  <1>5. \A a \in Addr : flash'[a] = IF a \in T THEN Bits ELSE flash[a]
    BY <1>3 DEF EraseBytes
  <1>6. flash' \in [Addr -> Byte]
    BY <1>3, <1>4 DEF EraseBytes, Byte
  <1>7. QED BY <1>1, <1>3, <1>5, <1>6

(* A flash_write at n bytes from x leaves the other bytes alone and leaves *)
(* each byte as it was or programmed; all are programmed if it reports     *)
(* success and can be believed.                                            *)
LEMMA WriteEffect ==
    ASSUME NEW x, NEW n, NEW d, NEW ok \in BOOLEAN, TypeOK, BackendWrite(x, n, d, ok)
    PROVE  /\ flash' \in [Addr -> Byte]
           /\ faults' \in 0 .. MaxFaults
           /\ \A a \in Addr : a \notin Span(x, n) => flash'[a] = flash[a]
           /\ \A a \in Addr : flash'[a] \in {flash[a], flash[a] \cap d[a]}
           /\ ok /\ Honest =>
                \A a \in Addr \cap Span(x, n) : flash'[a] = flash[a] \cap d[a]
  <1>1. faults' \in 0 .. MaxFaults
    BY ParameterAssumption DEF TypeOK, BackendWrite, Fault, NoFault
  <1>4. flash \in [Addr -> SUBSET Bits]
    BY DEF TypeOK, Byte
  <1>a. CASE ~ok /\ flash' = flash
    BY <1>1, <1>4, <1>a DEF Byte
  <1>b. CASE \E T \in SUBSET Span(x, n) :
                /\ flash' = ProgramBytes(flash, T, d)
                /\ ok /\ Honest => T = Span(x, n)
    <2>3. PICK T \in SUBSET Span(x, n) :
                /\ flash' = ProgramBytes(flash, T, d)
                /\ ok /\ Honest => T = Span(x, n)
      BY <1>b
    <2>5. \A a \in Addr : flash'[a] = IF a \in T THEN flash[a] \cap d[a] ELSE flash[a]
      BY <2>3 DEF ProgramBytes
    <2>6. flash' \in [Addr -> Byte]
      <3>1. \A a \in Addr : (IF a \in T THEN flash[a] \cap d[a] ELSE flash[a]) \in SUBSET Bits
        BY <1>4
      <3>2. QED BY <2>3, <3>1 DEF ProgramBytes, Byte
    <2>7. QED BY <1>1, <2>3, <2>5, <2>6
  <1>2. \/ ~ok /\ flash' = flash
        \/ ok /\ flash' = ProgramBytes(flash, Span(x, n), d)
        \/ /\ ~ok \/ ~Honest
           /\ \E T \in SUBSET Span(x, n) : flash' = ProgramBytes(flash, T, d)
    <2>1. Fault => faults' # faults
      BY DEF Fault, TypeOK
    <2>2. QED BY <2>1 DEF BackendWrite, Honest, NoFault
  <1>3. \/ ~ok /\ flash' = flash
        \/ \E T \in SUBSET Span(x, n) :
                /\ flash' = ProgramBytes(flash, T, d)
                /\ ok /\ Honest => T = Span(x, n)
    BY <1>2
  <1>5. QED BY <1>3, <1>a, <1>b

-----------------------------------------------------------------------------
(* Geometry.                                                               *)

(* The block of an address lies in the flash.                              *)
LEMMA SectorInFlash ==
    ASSUME NEW p \in Addr
    PROVE  /\ p \in Sector(p)
           /\ Sector(p) \subseteq Addr
           /\ SectorStart[p] \in Nat /\ SectorEnd[p] \in Nat
           /\ SectorStart[p] < SectorEnd[p]
           /\ p \in Nat
  BY FlashAssumption, GeometryAssumption DEF Addr, Sector

(* Where a block ends the flash ends or another block starts: the loops    *)
(* move from block to block.                                               *)
LEMMA NextBlockStarts ==
    ASSUME NEW p \in Addr
    PROVE  LET e == SectorEnd[p]
           IN  e = Base + Size \/ (e \in Addr /\ SectorStart[e] = e)
  <1> DEFINE e == SectorEnd[p]
  <1>0. /\ Base \in Nat /\ Size \in Nat /\ p \in Nat /\ e \in Nat
        /\ Base <= p /\ p < e /\ e <= Base + Size
    BY FlashAssumption, GeometryAssumption DEF Addr
  <1>1. SUFFICES ASSUME e # Base + Size
                 PROVE  e \in Addr /\ SectorStart[e] = e
    OBVIOUS
  <1>2. e \in Addr
    BY <1>0, <1>1 DEF Addr
  <1>3. SectorStart[e] \in Nat /\ SectorStart[e] <= e /\ e < SectorEnd[e] /\ SectorEnd[e] \in Nat
    BY <1>2, GeometryAssumption
  <1>4. ASSUME SectorStart[e] < e
        PROVE  FALSE
    <2>1. e - 1 \in SectorStart[e] .. (SectorEnd[e] - 1)
      BY <1>0, <1>3, <1>4
    <2>2. SectorEnd[e - 1] = SectorEnd[e]
      BY <1>2, <2>1, GeometryAssumption
    <2>3. e - 1 \in SectorStart[p] .. (SectorEnd[p] - 1)
      BY <1>0, GeometryAssumption
    <2>4. SectorEnd[e - 1] = e
      BY <2>3, GeometryAssumption
    <2>5. QED BY <1>3, <2>2, <2>4
  <1>5. QED BY <1>0, <1>2, <1>3, <1>4

(* The loop condition pos < end means what it says although addr + len may *)
(* wrap, and a usable block does not wrap either.                          *)
LEMMA LoopCondition ==
    ASSUME ControlInv, pc # "idle", pos < End
    PROVE  pos \in Addr /\ pos < addr + len
  <1>1. addr \in Nat /\ len \in Nat /\ pos \in Nat /\ addr <= pos
    BY DEF ControlInv, TypeOK, PosInv
  <1>2. Base \in Nat /\ Size \in Nat /\ Word \in Nat /\ Base + Size <= Word
    BY FlashAssumption, ParameterAssumption
  <1>3. Base <= addr /\ addr + len <= Base + Size
    BY <1>1, <1>2 DEF ControlInv, CallInv, RangeOk
  <1>4. pos < addr + len
    BY <1>1, <1>2, <1>3 DEF End, Wrap
  <1>5. QED BY <1>1, <1>2, <1>3, <1>4 DEF Addr

LEMMA UsableSector ==
    ASSUME ControlInv, pos \in Addr, SectorUsable
    PROVE  SectorEnd[pos] < Word
  BY FlashAssumption, GeometryAssumption, ParameterAssumption
     DEF SectorUsable, Wrap, Addr

-----------------------------------------------------------------------------
(* Control: types, and where the loops stand.                              *)

LEMMA ControlInit == Init => ControlInv
  BY FlashAssumption, ParameterAssumption
     DEF Init, ControlInv, TypeOK, CallInv, PosInv, BlockInv, Images, Span, NoBuffer,
         ZeroStats, Composite, UpdatePc, PatchPc, InBlock

(* A call that starts with arguments of the right type and ends or stops   *)
(* before its first block.                                                 *)
LEMMA CallControl ==
    ASSUME ControlInv,
           NEW name \in {"run", "halt", "write", "erase", "mass_erase", "verify"} \cup Composite,
           NEW a \in Nat, NEW n \in Nat, NEW d, NEW o \in Images(a, n) \cup {NoImage},
           name \in Composite => d \in Images(a, n),
           BeginCall(name, a, n, d, o),
           flash' \in [Addr -> Byte], halted' \in BOOLEAN, faults' \in 0 .. MaxFaults,
           \/ pc' = "idle" /\ rc' \in {0, -1}
           \/ pc' = "halt" /\ rc' = -1 /\ RangeOk(a, n) /\ name \in Composite
    PROVE  ControlInv'
  <1>1. TypeOK'
    BY ParameterAssumption
       DEF ControlInv, TypeOK, BeginCall, ZeroStats, Images, Span
  <1>2. CallInv' /\ PosInv' /\ BlockInv'
    BY DEF BeginCall, CallInv, PosInv, BlockInv, UpdatePc, PatchPc, InBlock, RangeOk
  <1>3. QED BY <1>1, <1>2 DEF ControlInv

LEMMA CallsKeepControl == ControlInv /\ Call => ControlInv'
  <1> SUFFICES ASSUME ControlInv, Call PROVE ControlInv'
    OBVIOUS
  <1> USE DEF NoFault
  <1>t. flash \in [Addr -> Byte] /\ halted \in BOOLEAN /\ faults \in 0 .. MaxFaults
    BY DEF ControlInv, TypeOK
  <1>f. Fault => faults' \in 0 .. MaxFaults
    BY <1>t, ParameterAssumption DEF Fault
  <1>n. NoImage \in Images(0, 0) \cup {NoImage}
    OBVIOUS
  <1>1. CASE hw_board_run
    <2>1. /\ BeginCall("run", 0, 0, NoBuffer, NoImage)
          /\ pc' = "idle" /\ rc' \in {0, -1}
          /\ flash' = flash /\ halted' \in BOOLEAN /\ faults' \in 0 .. MaxFaults
      BY <1>1, <1>t, <1>f DEF hw_board_run, BeginControl, Return
    <2>2. QED BY <2>1, <1>t, <1>n, CallControl DEF Composite
  <1>2. CASE hw_board_halt
    <2>1. /\ BeginCall("halt", 0, 0, NoBuffer, NoImage)
          /\ pc' = "idle" /\ rc' \in {0, -1}
          /\ flash' = flash /\ halted' \in BOOLEAN /\ faults' \in 0 .. MaxFaults
      BY <1>2, <1>t, <1>f DEF hw_board_halt, BeginControl, Return
    <2>2. QED BY <2>1, <1>t, <1>n, CallControl DEF Composite
  <1>3. CASE hw_flash_mass_erase
    <2>1. PICK ok \in BOOLEAN : BackendErase(Addr, ok) /\ Return(IF ok THEN 0 ELSE -1)
      BY <1>3 DEF hw_flash_mass_erase
    <2>2. flash' \in [Addr -> Byte] /\ faults' \in 0 .. MaxFaults
      BY <2>1, EraseEffect DEF ControlInv
    <2>3. /\ BeginCall("mass_erase", 0, 0, NoBuffer, NoImage)
          /\ pc' = "idle" /\ rc' \in {0, -1} /\ halted' \in BOOLEAN
      BY <1>3, <1>t, <2>1 DEF hw_flash_mass_erase, BeginControl, Return
    <2>4. QED BY <2>2, <2>3, <1>n, CallControl DEF Composite
  <1>4. ASSUME NEW a \in CallAddr, NEW n \in CallLen, hw_flash_erase(a, n)
        PROVE  ControlInv'
    <2>0. a \in Nat /\ n \in Nat
      BY ParameterAssumption
    <2>1. flash' \in [Addr -> Byte] /\ faults' \in 0 .. MaxFaults
      <3>1. CASE UNCHANGED <<flash, faults>>
        BY <3>1, <1>t
      <3>2. ASSUME NEW ok \in BOOLEAN, BackendErase(WidenToSectors(Span(a, n)), ok)
            PROVE  flash' \in [Addr -> Byte] /\ faults' \in 0 .. MaxFaults
        BY <3>2, EraseEffect DEF ControlInv
      <3>3. QED BY <1>4, <3>1, <3>2 DEF hw_flash_erase
    <2>2. /\ BeginCall("erase", a, n, NoBuffer, NoImage)
          /\ pc' = "idle" /\ rc' \in {0, -1} /\ halted' \in BOOLEAN
      BY <1>4, <1>t DEF hw_flash_erase, Return
    <2>3. QED BY <2>0, <2>1, <2>2, CallControl DEF Composite
  <1>5. ASSUME NEW a \in CallAddr, NEW n \in CallLen, NEW d \in Images(a, n),
               hw_flash_write(a, n, d)
        PROVE  ControlInv'
    <2>0. a \in Nat /\ n \in Nat
      BY ParameterAssumption
    <2>1. flash' \in [Addr -> Byte] /\ faults' \in 0 .. MaxFaults
      <3>1. CASE UNCHANGED <<flash, faults>>
        BY <3>1, <1>t
      <3>2. ASSUME NEW ok \in BOOLEAN, BackendWrite(a, n, d, ok)
            PROVE  flash' \in [Addr -> Byte] /\ faults' \in 0 .. MaxFaults
        BY <3>2, WriteEffect DEF ControlInv
      <3>3. QED BY <1>5, <3>1, <3>2 DEF hw_flash_write
    <2>2. /\ BeginCall("write", a, n, d, NoImage)
          /\ pc' = "idle" /\ rc' \in {0, -1} /\ halted' \in BOOLEAN
      BY <1>5, <1>t DEF hw_flash_write, Return
    <2>3. QED BY <2>0, <2>1, <2>2, CallControl DEF Composite
  <1>6. ASSUME NEW a \in CallAddr, NEW n \in CallLen, NEW d \in Images(a, n),
               hw_flash_verify(a, n, d)
        PROVE  ControlInv'
    <2>0. a \in Nat /\ n \in Nat
      BY ParameterAssumption
    <2>1. /\ BeginCall("verify", a, n, d, NoImage)
          /\ pc' = "idle" /\ rc' \in {0, -1}
          /\ halted' = halted /\ flash' = flash /\ faults' \in 0 .. MaxFaults
      BY <1>6, <1>t, <1>f DEF hw_flash_verify, VerifyResult, Return
    <2>2. QED BY <2>0, <2>1, <1>t, CallControl DEF Composite
  <1>7. ASSUME NEW a \in CallAddr, NEW n \in CallLen, NEW d \in Images(a, n),
               NEW o \in Images(a, n) \cup {NoImage},
               NEW name \in Composite, BeginCall(name, a, n, d, o),
               Enter(n, a), UNCHANGED <<flash, halted>>
        PROVE  ControlInv'
    <2>0. a \in Nat /\ n \in Nat
      BY ParameterAssumption
    <2>1. \/ pc' = "idle" /\ rc' \in {0, -1}
          \/ pc' = "halt" /\ rc' = -1 /\ RangeOk(a, n) /\ name \in Composite
      BY <1>7 DEF Enter, Return
    <2>2. faults' \in 0 .. MaxFaults
      BY <1>7, <1>t, <1>f DEF Enter
    <2>3. QED BY <1>7, <2>0, <2>1, <2>2, <1>t, CallControl
  <1>8. QED
    BY <1>1, <1>2, <1>3, <1>4, <1>5, <1>6, <1>7
       DEF Call, hw_flash_update, hw_flash_patch, Composite

(* A step that stays in the call, or ends it, and keeps the block, the     *)
(* position and the arguments.                                             *)
LEMMA StayControl ==
    ASSUME ControlInv, pc # "idle",
           flash' \in [Addr -> Byte], halted' \in BOOLEAN, faults' \in 0 .. MaxFaults,
           stats' \in [total : Nat, changed : Nat, erased : Nat, bytes : Nat],
           UNCHANGED <<callVars, pos, sb, se>>,
           \/ pc' = "idle" /\ rc' \in {0, -1}
           \/ /\ pc \in InBlock /\ pc' \in InBlock /\ rc' = rc
              /\ pc' \in UpdatePc <=> pc \in UpdatePc
           \/ /\ pc' = "verify" /\ rc' = rc
    PROVE  ControlInv'
  <1>0. /\ TypeOK /\ CallInv /\ PosInv /\ BlockInv
        /\ calls' = calls /\ op' = op /\ addr' = addr /\ len' = len /\ image' = image
        /\ oldi' = oldi /\ flash0' = flash0 /\ pos' = pos /\ sb' = sb /\ se' = se
    BY DEF ControlInv, callVars
  <1>1. TypeOK'
    BY <1>0 DEF TypeOK, CallInv, Images, UpdatePc, PatchPc, InBlock
  <1>2. CallInv'
    BY <1>0 DEF CallInv, RangeOk, UpdatePc, PatchPc, InBlock, Composite
  <1>3. PosInv' /\ BlockInv'
    BY <1>0 DEF PosInv, BlockInv, InBlock
  <1>4. QED BY <1>1, <1>2, <1>3 DEF ControlInv

(* A step that finishes the block and goes back to the head of its loop.   *)
LEMMA AdvanceControl ==
    ASSUME ControlInv, pc \in InBlock,
           flash' \in [Addr -> Byte], halted' \in BOOLEAN, faults' \in 0 .. MaxFaults,
           stats' \in [total : Nat, changed : Nat, erased : Nat, bytes : Nat],
           UNCHANGED <<callVars, sb, se, rc>>,
           pos' = Wrap(se),
           pc' = IF pc \in UpdatePc THEN "update_loop" ELSE "patch_loop"
    PROVE  ControlInv' /\ pos' = SectorEnd[pos]
  <1>0. /\ TypeOK /\ CallInv /\ PosInv /\ BlockInv
        /\ calls' = calls /\ op' = op /\ addr' = addr /\ len' = len /\ image' = image
        /\ oldi' = oldi /\ flash0' = flash0 /\ sb' = sb /\ se' = se /\ rc' = rc
    BY DEF ControlInv, callVars
  <1>1. /\ pos \in Addr /\ pos' = SectorEnd[pos] /\ pos' \in Nat
        /\ pos < pos' /\ pos \in Nat
    BY <1>0, SectorInFlash, GeometryAssumption DEF BlockInv, Wrap
  <1>2. TypeOK'
    BY <1>0, <1>1 DEF TypeOK, CallInv, Images, UpdatePc, PatchPc, InBlock
  <1>3. CallInv'
    BY <1>0 DEF CallInv, RangeOk, UpdatePc, PatchPc, InBlock, Composite
  <1>4. PosInv'
    <2>1. addr <= pos /\ addr \in Nat
      BY <1>0 DEF PosInv, TypeOK, InBlock
    <2>2. addr' <= pos'
      BY <1>0, <1>1, <2>1
    <2>3. pos' = Base + Size \/ (pos' \in Addr /\ SectorStart[pos'] = pos')
      BY <1>1, NextBlockStarts
    <2>4. QED BY <2>2, <2>3 DEF PosInv
  <1>5. BlockInv'
    BY DEF BlockInv, InBlock
  <1>6. QED BY <1>1, <1>2, <1>3, <1>4, <1>5 DEF ControlInv

(* The counters of a patch stay natural numbers.                           *)
LEMMA BytesType ==
    ASSUME NEW s \in [total : Nat, changed : Nat, erased : Nat, bytes : Nat], NEW k \in Nat
    PROVE  [s EXCEPT !.bytes = @ + k]
                \in [total : Nat, changed : Nat, erased : Nat, bytes : Nat]
  OBVIOUS

LEMMA StatsType ==
    ASSUME NEW s \in [total : Nat, changed : Nat, erased : Nat, bytes : Nat], NEW k \in Nat
    PROVE  [s EXCEPT !.erased = @ + 1, !.bytes = @ + k]
                \in [total : Nat, changed : Nat, erased : Nat, bytes : Nat]
  <1> DEFINE t == [s EXCEPT !.erased = @ + 1]
  <1>1. t \in [total : Nat, changed : Nat, erased : Nat, bytes : Nat]
    OBVIOUS
  <1>2. [s EXCEPT !.erased = @ + 1, !.bytes = @ + k] = [t EXCEPT !.bytes = @ + k]
    <2>1. t.bytes = s.bytes
      OBVIOUS
    <2>2. QED BY <2>1
  <1> HIDE DEF t
  <1>3. QED BY <1>1, <1>2, BytesType

(* Widening a span to the program granularity keeps it inside the block    *)
(* and never makes it smaller.                                             *)
LEMMA WidenedSpan ==
    ASSUME sb \in Nat, se \in Nat, sb < se,
           NEW l \in 0 .. (se - sb), NEW h \in 0 .. (se - sb)
    PROVE  /\ WidenLo(l) \in Nat /\ WidenLo(l) <= l
           /\ WidenHi(h) \in Nat /\ h <= WidenHi(h) /\ WidenHi(h) <= se - sb
  <1>0. WriteAlign \in Nat /\ WriteAlign > 0
    BY ParameterAssumption
  <1>1. ASSUME NEW x \in Nat
        PROVE  x % WriteAlign \in Nat /\ x % WriteAlign <= x /\ x % WriteAlign < WriteAlign
    BY <1>0, <1>1
  <1>2. l \in Nat /\ h \in Nat
    OBVIOUS
  <1>3. WidenLo(l) \in Nat /\ WidenLo(l) <= l
    BY <1>1, <1>2 DEF WidenLo
  <1>4. h % WriteAlign \in Nat /\ WriteAlign - (h % WriteAlign) \in Nat
    BY <1>0, <1>1, <1>2
  <1>5. (WriteAlign - (h % WriteAlign)) % WriteAlign \in Nat
    BY <1>1, <1>4
  <1>6. QED BY <1>2, <1>3, <1>5 DEF WidenHi

LEMMA StepsKeepControl == ControlInv /\ Step => ControlInv'
  <1> SUFFICES ASSUME ControlInv, Step PROVE ControlInv'
    OBVIOUS
  <1> USE DEF NoFault
  <1>t. /\ flash \in [Addr -> Byte] /\ halted \in BOOLEAN /\ faults \in 0 .. MaxFaults
        /\ stats \in [total : Nat, changed : Nat, erased : Nat, bytes : Nat]
        /\ rc \in {0, -1}
    BY DEF ControlInv, TypeOK
  <1>f. Fault => faults' \in 0 .. MaxFaults
    BY <1>t, ParameterAssumption DEF Fault
  <1>a. ASSUME pc # "idle", Abort, faults' \in 0 .. MaxFaults
        PROVE  ControlInv'
    BY <1>a, <1>t, StayControl DEF Abort, Return
  <1>1. CASE flash_halt_target
    <2>1. /\ TypeOK /\ CallInv /\ PosInv
          /\ pc = "halt" /\ op \in Composite
          /\ pc' = IF op = "update" THEN "update_loop" ELSE "patch_loop"
          /\ halted' \in BOOLEAN
      BY <1>1, <1>t DEF flash_halt_target, HaltResult, ControlInv, CallInv
    <2>2. UNCHANGED <<flash, faults, callVars, loopVars, stats, rc>>
      BY <1>1 DEF flash_halt_target
    <2>3. TypeOK'
      BY <2>1, <2>2 DEF TypeOK, callVars, loopVars, Images, UpdatePc, PatchPc
    <2>4. CallInv' /\ PosInv'
      BY <2>1, <2>2
         DEF CallInv, PosInv, callVars, loopVars, RangeOk, Composite, UpdatePc, PatchPc
    <2>5. BlockInv'
      BY <2>1 DEF BlockInv, InBlock
    <2>6. QED BY <2>3, <2>4, <2>5 DEF ControlInv
  <1>2. CASE flash_halt_failed
    BY <1>2, <1>a, <1>f DEF flash_halt_failed
  <1>3. CASE NoSector
    <2>1. faults' \in 0 .. MaxFaults
      BY <1>3, <1>f, <1>t DEF NoSector
    <2>2. QED BY <1>3, <1>a, <2>1 DEF NoSector
  <1>4. CASE LoopDone
    BY <1>4, <1>t, StayControl DEF LoopDone, loopVars
  <1>5. ASSUME pc \in {"update_loop", "patch_loop"}, TakeSector,
               pc' = IF pc = "update_loop" THEN "update_build" ELSE "patch_decide",
               stats' \in [total : Nat, changed : Nat, erased : Nat, bytes : Nat],
               UNCHANGED <<flash, halted, callVars, pos, cur, want, rc>>
        PROVE  ControlInv'
    <2>0. /\ TypeOK /\ CallInv /\ PosInv
          /\ calls' = calls /\ op' = op /\ addr' = addr /\ len' = len /\ image' = image
          /\ oldi' = oldi /\ flash0' = flash0 /\ pos' = pos /\ rc' = rc
          /\ flash' = flash /\ halted' = halted /\ faults' = faults
      BY <1>5 DEF ControlInv, callVars, TakeSector
    <2>1. pos \in Addr /\ pos < addr + len
      BY <1>5, LoopCondition DEF TakeSector
    <2>2. SectorEnd[pos] < Word /\ sb' = SectorStart[pos] /\ se' = SectorEnd[pos]
      BY <1>5, <2>1, UsableSector DEF TakeSector
    <2>3. SectorStart[pos] \in Nat /\ SectorEnd[pos] \in Nat
      BY <2>1, SectorInFlash
    <2>4. TypeOK'
      BY <1>5, <2>0, <2>2, <2>3 DEF TypeOK, Images, UpdatePc, PatchPc
    <2>5. CallInv' /\ PosInv'
      BY <1>5, <2>0 DEF CallInv, PosInv, RangeOk, Composite, UpdatePc, PatchPc
    <2>6. BlockInv'
      BY <2>0, <2>1, <2>2 DEF BlockInv
    <2>7. QED BY <2>4, <2>5, <2>6 DEF ControlInv
  <1>6. CASE UpdateSector
    BY <1>5, <1>6, <1>t DEF UpdateSector
  <1>7. CASE UpdateBuild
    BY <1>7, <1>t, StayControl DEF UpdateBuild, InBlock, UpdatePc
  <1>8. CASE UpdateBuildFailed
    BY <1>8, <1>a, <1>f DEF UpdateBuildFailed
  <1>9. CASE UpdateErase
    <2>1. PICK ok \in BOOLEAN :
             /\ BackendErase(Block, ok)
             /\ IF ok THEN pc' = "update_write" /\ rc' = rc ELSE Return(-1)
      BY <1>9 DEF UpdateErase
    <2>2. flash' \in [Addr -> Byte] /\ faults' \in 0 .. MaxFaults
      BY <2>1, EraseEffect DEF ControlInv
    <2>3. QED
      BY <1>9, <1>t, <2>1, <2>2, StayControl DEF UpdateErase, Return, InBlock, UpdatePc
  <1>10. CASE UpdateWrite
    <2>1. PICK ok \in BOOLEAN :
             /\ BackendWrite(sb, se - sb, want, ok)
             /\ IF ok THEN pos' = Wrap(se) /\ pc' = "update_loop" /\ rc' = rc
                      ELSE Return(-1) /\ UNCHANGED pos
      BY <1>10 DEF UpdateWrite
    <2>2. flash' \in [Addr -> Byte] /\ faults' \in 0 .. MaxFaults
      BY <2>1, WriteEffect DEF ControlInv
    <2>3. CASE ok
      BY <1>10, <1>t, <2>1, <2>2, <2>3, AdvanceControl DEF UpdateWrite, InBlock, UpdatePc
    <2>4. CASE ~ok
      BY <1>10, <1>t, <2>1, <2>2, <2>4, StayControl DEF UpdateWrite, Return
    <2>5. QED BY <2>3, <2>4
  <1>11. CASE PatchSector
    BY <1>5, <1>11, <1>t DEF PatchSector
  <1>12. CASE PatchSkipByOldImage
    BY <1>12, <1>t, AdvanceControl DEF PatchSkipByOldImage, NextBlock, InBlock, UpdatePc
  <1>13. CASE PatchReadFailed
    BY <1>13, <1>a, <1>f DEF PatchReadFailed
  <1>14. CASE PatchSkipSame
    <2>1. stats' \in [total : Nat, changed : Nat, erased : Nat, bytes : Nat]
      BY <1>14, <1>t DEF PatchSkipSame
    <2>2. QED
      BY <1>14, <1>t, <2>1, AdvanceControl DEF PatchSkipSame, NextBlock, InBlock, UpdatePc
  <1>15. CASE PatchPlan
    <2>1. stats' \in [total : Nat, changed : Nat, erased : Nat, bytes : Nat]
      BY <1>15, <1>t DEF PatchPlan
    <2>2. QED
      BY <1>15, <1>t, <2>1, StayControl DEF PatchPlan, InBlock, UpdatePc
  <1>16. CASE PatchErase
    <2>1. PICK ok \in BOOLEAN :
             /\ BackendErase(Block, ok)
             /\ IF ok THEN pc' = "patch_rewrite" /\ rc' = rc ELSE Return(-1)
      BY <1>16 DEF PatchErase
    <2>2. flash' \in [Addr -> Byte] /\ faults' \in 0 .. MaxFaults
      BY <2>1, EraseEffect DEF ControlInv
    <2>3. QED
      BY <1>16, <1>t, <2>1, <2>2, StayControl DEF PatchErase, Return, InBlock, UpdatePc
  <1>s. se - sb \in Nat \/ pc \notin InBlock
    BY SectorInFlash DEF ControlInv, BlockInv
  <1>17. CASE PatchRewrite
    <2>1. PICK ok \in BOOLEAN :
             /\ BackendWrite(sb, se - sb, want, ok)
             /\ IF ok THEN /\ stats' = [stats EXCEPT !.erased = @ + 1, !.bytes = @ + (se - sb)]
                           /\ NextBlock /\ rc' = rc
                      ELSE Return(-1) /\ UNCHANGED <<pos, stats>>
      BY <1>17 DEF PatchRewrite
    <2>2. flash' \in [Addr -> Byte] /\ faults' \in 0 .. MaxFaults
      BY <2>1, WriteEffect DEF ControlInv
    <2>3. CASE ok
      <3>1. stats' \in [total : Nat, changed : Nat, erased : Nat, bytes : Nat]
        <4>1. se - sb \in Nat
          BY <1>17, <1>s DEF PatchRewrite, InBlock
        <4>2. QED BY <1>t, <2>1, <2>3, <4>1, StatsType
      <3>2. QED
        BY <1>17, <1>t, <2>1, <2>2, <2>3, <3>1, AdvanceControl
           DEF PatchRewrite, NextBlock, InBlock, UpdatePc
    <2>4. CASE ~ok
      BY <1>17, <1>t, <2>1, <2>2, <2>4, StayControl DEF PatchRewrite, Return
    <2>5. QED BY <2>3, <2>4
  <1>18. CASE PatchProgram
    <2>0. /\ pc = "patch_program"
          /\ \E l, h \in 0 .. (se - sb) : \E ok \in BOOLEAN :
                /\ DifferingSpan(l, h)
                /\ BackendWrite(sb + WidenLo(l), WidenHi(h) - WidenLo(l), want, ok)
                /\ IF ok THEN /\ stats' = [stats EXCEPT !.bytes = @ + (WidenHi(h) - WidenLo(l))]
                              /\ NextBlock /\ rc' = rc
                         ELSE Return(-1) /\ UNCHANGED <<pos, stats>>
          /\ UNCHANGED <<halted, callVars, sb, se>>
      BY <1>18 DEF PatchProgram
    <2>1. PICK l, h \in 0 .. (se - sb), ok \in BOOLEAN :
                /\ DifferingSpan(l, h)
                /\ BackendWrite(sb + WidenLo(l), WidenHi(h) - WidenLo(l), want, ok)
                /\ IF ok THEN /\ stats' = [stats EXCEPT !.bytes = @ + (WidenHi(h) - WidenLo(l))]
                              /\ NextBlock /\ rc' = rc
                         ELSE Return(-1) /\ UNCHANGED <<pos, stats>>
      BY <2>0
    <2>2. flash' \in [Addr -> Byte] /\ faults' \in 0 .. MaxFaults
      BY <2>1, WriteEffect DEF ControlInv
    <2>3. CASE ok
      <3>1. WidenHi(h) - WidenLo(l) \in Nat
        <4>1. sb \in Nat /\ se \in Nat /\ sb < se
          BY <2>0, SectorInFlash DEF ControlInv, BlockInv, InBlock
        <4>2. l < h
          BY <2>1 DEF DifferingSpan
        <4>3. QED BY <4>1, <4>2, WidenedSpan
      <3>2. stats' \in [total : Nat, changed : Nat, erased : Nat, bytes : Nat]
        BY <1>t, <2>1, <2>3, <3>1, BytesType
      <3>3. QED
        BY <2>0, <1>t, <2>1, <2>2, <2>3, <3>2, AdvanceControl
           DEF NextBlock, InBlock, UpdatePc
    <2>4. CASE ~ok
      BY <2>0, <1>t, <2>1, <2>2, <2>4, StayControl DEF Return
    <2>5. QED BY <2>3, <2>4
  <1>19. CASE FinalVerify
    BY <1>19, <1>t, <1>f, StayControl DEF FinalVerify, VerifyResult, Return
  <1>20. QED
    BY <1>1, <1>2, <1>3, <1>4, <1>6, <1>7, <1>8, <1>9, <1>10, <1>11, <1>12, <1>13,
       <1>14, <1>15, <1>16, <1>17, <1>18, <1>19 DEF Step

LEMMA ControlStutter == ControlInv /\ UNCHANGED vars => ControlInv'
  BY DEF ControlInv, TypeOK, CallInv, PosInv, BlockInv, vars, callVars, loopVars, Images,
         RangeOk

LEMMA ControlAlways == Spec => []ControlInv
  <1>1. ControlInv /\ [Next]_vars => ControlInv'
    BY CallsKeepControl, StepsKeepControl, ControlStutter DEF Next
  <1>2. QED BY ControlInit, <1>1, PTL DEF Spec

(* Every state of the flash code is well typed: for every geometry, byte   *)
(* width and number of faults, silent or not.                              *)
THEOREM TypeCorrect == Spec => []TypeOK
  <1>1. ControlInv => TypeOK
    BY DEF ControlInv
  <1>2. QED BY ControlAlways, <1>1, PTL

-----------------------------------------------------------------------------
(* Success means that the region holds the image.                          *)

LEMMA SuccessStep == ControlInv /\ SuccessMeansImage /\ [Next]_vars => SuccessMeansImage'
  <1> SUFFICES ASSUME ControlInv, SuccessMeansImage, [Next]_vars,
                      NEW name \in Composite, (Returned(name) /\ rc = 0)'
               PROVE  (\A a \in Region : flash[a] = image[a])'
    BY DEF SuccessMeansImage
  <1>0. pc' = "idle" /\ op' = name /\ rc' = 0
    BY DEF Returned
  <1>1. CASE UNCHANGED vars
    BY <1>0, <1>1
       DEF vars, callVars, SuccessMeansImage, Returned, Region, Span
  <1>2. CASE Call
    <2>1. \/ hw_board_run \/ hw_board_halt \/ hw_flash_mass_erase
          \/ \E a \in CallAddr, n \in CallLen :
                \/ hw_flash_erase(a, n)
                \/ \E d \in Images(a, n) : hw_flash_write(a, n, d) \/ hw_flash_verify(a, n, d)
          => op' \notin Composite
      BY DEF hw_board_run, hw_board_halt, hw_flash_mass_erase, hw_flash_erase,
             hw_flash_write, hw_flash_verify, BeginControl, BeginCall, Composite
    <2>2. PICK a \in CallAddr, n \in CallLen :
             \E d \in Images(a, n) :
                \/ hw_flash_update(a, n, d)
                \/ \E o \in Images(a, n) \cup {NoImage} : hw_flash_patch(a, n, o, d)
      BY <1>0, <1>2, <2>1 DEF Call
    <2>3. Enter(n, a) /\ addr' = a /\ len' = n
      BY <2>2 DEF hw_flash_update, hw_flash_patch, BeginCall
    <2>4. n = 0
      BY <1>0, <2>3 DEF Enter, Return
    <2>5. a \in Nat
      BY ParameterAssumption
    <2>6. Region' = {}
      BY <2>3, <2>4, <2>5 DEF Region, Span
    <2>7. QED BY <2>6
  <1>3. CASE Step
    <2>1. FinalVerify
      BY <1>0, <1>3
         DEF Step, flash_halt_target, flash_halt_failed, NoSector, LoopDone, UpdateSector,
             UpdateBuild, UpdateBuildFailed, UpdateErase, UpdateWrite, PatchSector,
             PatchSkipByOldImage, PatchReadFailed, PatchSkipSame, PatchPlan, PatchErase,
             PatchRewrite, PatchProgram, NextBlock, Abort, Return
    <2>2. \A x \in Span(addr, len) : flash[x] = image[x]
      BY <1>0, <2>1 DEF FinalVerify, VerifyResult, Return
    <2>3. flash' = flash /\ image' = image /\ addr' = addr /\ len' = len
      BY <2>1 DEF FinalVerify, callVars
    <2>4. QED BY <2>2, <2>3 DEF Region, Span
  <1>4. QED BY <1>1, <1>2, <1>3 DEF Next

(* hw_flash_update and hw_flash_patch return 0 only when the region holds  *)
(* the image: whatever fails, even silently, and however wrong the old     *)
(* image is.                                                               *)
THEOREM SuccessAlways == Spec => []SuccessMeansImage
  <1>1. Init => SuccessMeansImage
    BY DEF Init, SuccessMeansImage, Returned, Composite
  <1>2. QED BY ControlAlways, <1>1, SuccessStep, PTL DEF Spec

-----------------------------------------------------------------------------
(* What survives: the bytes around the region, on a backend that does not  *)
(* report success for work it has not done.                                *)

DataInv == WantInv /\ CurInv /\ BlankInv /\ RestInv /\ UpdatedUpToPos

LEMMA DataInit == Init => DataInv
  BY DEF Init, DataInv, WantInv, CurInv, BlankInv, RestInv, UpdatedUpToPos, Planned, Blank,
         Composite

(* Inside an iteration: the block lies in the flash, and the bytes of the  *)
(* region before pos do not lie in the block.                              *)
LEMMA BlockFacts ==
    ASSUME ControlInv, pc \in InBlock
    PROVE  /\ Block \subseteq Addr /\ Span(sb, se - sb) = Block
           /\ pos \in Block /\ sb \in Nat /\ se \in Nat /\ sb < se /\ Wrap(se) = se
           /\ \A a \in Region : a < pos => a \notin Block
  <1>1. /\ pos \in Addr /\ sb = SectorStart[pos] /\ se = SectorEnd[pos] /\ se < Word
    BY DEF ControlInv, BlockInv
  <1>2. /\ Block = Sector(pos) /\ sb \in Nat /\ se \in Nat /\ sb < se /\ pos \in Nat
        /\ Block \subseteq Addr /\ pos \in Block
    BY <1>1, SectorInFlash DEF Block, Sector
  <1>3. Span(sb, se - sb) = Block
    BY <1>2 DEF Span, Block
  <1>4. \A a \in Region : a < pos => a \notin Block
    <2>1. addr \in Nat /\ len \in Nat
      BY DEF ControlInv, TypeOK
    <2>2. pos = addr \/ pos = sb
      BY <1>1, <1>2, FlashAssumption DEF ControlInv, PosInv, InBlock, Addr
    <2>3. QED BY <1>2, <2>1, <2>2 DEF Region, Span, Block
  <1>5. QED BY <1>1, <1>2, <1>3, <1>4 DEF Wrap

(* A call that starts has damaged nothing yet.                             *)
LEMMA CallData ==
    ASSUME ControlInv', NEW name, NEW a \in Nat, NEW n, NEW d, NEW o,
           BeginCall(name, a, n, d, o),
           name \in Composite => flash' = flash,
           pc' \in {"idle", "halt"}
    PROVE  DataInv'
  <1>1. WantInv' /\ CurInv' /\ BlankInv'
    BY DEF WantInv, CurInv, BlankInv, Planned, Blank
  <1>2. op' = name /\ flash0' = flash /\ pos' = a /\ addr' = a /\ len' = n
    BY DEF BeginCall
  <1>3. RestInv'
    BY <1>2 DEF RestInv
  <1>4. UpdatedUpToPos'
    <2>1. n \in Nat
      BY <1>2 DEF ControlInv, TypeOK
    <2>2. QED BY <1>2, <2>1 DEF UpdatedUpToPos, Region, Span
  <1>5. QED BY <1>1, <1>3, <1>4 DEF DataInv

LEMMA CallsKeepData == ControlInv' /\ Call => DataInv'
  <1> SUFFICES ASSUME ControlInv', Call PROVE DataInv'
    OBVIOUS
  <1>1. CASE hw_board_run
    BY <1>1, CallData DEF hw_board_run, BeginControl, Return
  <1>2. CASE hw_board_halt
    BY <1>2, CallData DEF hw_board_halt, BeginControl, Return
  <1>3. CASE hw_flash_mass_erase
    <2>1. BeginCall("mass_erase", 0, 0, NoBuffer, NoImage) /\ pc' = "idle"
      BY <1>3 DEF hw_flash_mass_erase, BeginControl, Return
    <2>2. QED BY <2>1, CallData DEF Composite
  <1>4. ASSUME NEW a \in CallAddr, NEW n \in CallLen, hw_flash_erase(a, n)
        PROVE  DataInv'
    <2>0. a \in Nat
      BY ParameterAssumption
    <2>1. BeginCall("erase", a, n, NoBuffer, NoImage) /\ pc' = "idle"
      BY <1>4 DEF hw_flash_erase, Return
    <2>2. QED BY <2>0, <2>1, CallData DEF Composite
  <1>5. ASSUME NEW a \in CallAddr, NEW n \in CallLen, NEW d \in Images(a, n),
               hw_flash_write(a, n, d) \/ hw_flash_verify(a, n, d)
        PROVE  DataInv'
    <2>0. a \in Nat
      BY ParameterAssumption
    <2>1. pc' = "idle"
      BY <1>5 DEF hw_flash_write, hw_flash_verify, VerifyResult, Return
    <2>2. \/ BeginCall("write", a, n, d, NoImage)
          \/ BeginCall("verify", a, n, d, NoImage)
      BY <1>5 DEF hw_flash_write, hw_flash_verify
    <2>3. QED BY <2>0, <2>1, <2>2, CallData DEF Composite
  <1>6. ASSUME NEW a \in CallAddr, NEW n \in CallLen, NEW d, NEW o, NEW name,
               BeginCall(name, a, n, d, o), Enter(n, a), UNCHANGED <<flash, halted>>
        PROVE  DataInv'
    <2>1. a \in Nat /\ pc' \in {"idle", "halt"} /\ flash' = flash
      BY <1>6, ParameterAssumption DEF Enter, Return
    <2>2. QED BY <1>6, <2>1, CallData
  <1>7. QED
    BY <1>1, <1>2, <1>3, <1>4, <1>5, <1>6 DEF Call, hw_flash_update, hw_flash_patch

(* A step that leaves the device alone and ends outside a plan.            *)
LEMMA QuietData ==
    ASSUME ControlInv, DataInv, pc \notin Blank, pc # "idle",
           flash' = flash, UNCHANGED callVars, pc' \notin Planned,
           pos' = pos \/ op # "update"
    PROVE  DataInv'
  <1>0. /\ op' = op /\ addr' = addr /\ len' = len /\ image' = image /\ flash0' = flash0
    BY DEF callVars
  <1>1. WantInv' /\ CurInv' /\ BlankInv'
    BY DEF WantInv, CurInv, BlankInv, Planned, Blank
  <1>2. RestInv'
    BY <1>0 DEF DataInv, RestInv, Region, Span
  <1>3. UpdatedUpToPos'
    BY <1>0 DEF DataInv, UpdatedUpToPos, Region, Span
  <1>4. QED BY <1>1, <1>2, <1>3 DEF DataInv

(* The plan for a block is made from what the block holds.                 *)
LEMMA PlanData ==
    ASSUME ControlInv, DataInv, pc \in {"update_build", "patch_decide"},
           flash' = flash, UNCHANGED <<callVars, pos, sb, se>>,
           want' = Spliced,
           \/ pc' \in {"update_erase", "patch_erase"}
           \/ /\ pc' = "patch_program"
              /\ cur' = [a \in Block |-> flash[a]] /\ ~NeedErase(want', cur')
    PROVE  DataInv'
  <1>0. /\ op' = op /\ addr' = addr /\ len' = len /\ image' = image /\ flash0' = flash0
        /\ pos' = pos /\ sb' = sb /\ se' = se
        /\ Block' = Block /\ Region' = Region
    BY DEF callVars, Block, Region, Span
  <1>1. Block \subseteq Addr
    BY BlockFacts DEF InBlock
  <1>2. flash \in [Addr -> Byte] /\ image \in [Region -> Byte] /\ op \in Composite
    BY DEF ControlInv, TypeOK, CallInv, Images, Region
  <1>3. \A a \in Block : a \notin Region => flash[a] = flash0[a]
    BY <1>1, <1>2 DEF DataInv, RestInv, Blank
  <1>4. /\ want' \in [Block -> Byte]
        /\ \A a \in Block : want'[a] = IF a \in Region THEN image[a] ELSE flash0[a]
    BY <1>1, <1>2, <1>3 DEF Spliced
  <1>5. WantInv'
    BY <1>0, <1>4 DEF WantInv
  <1>6. CurInv'
    <2>1. SUFFICES ASSUME pc' = "patch_program" PROVE CurInv'
      BY DEF CurInv
    <2>2. cur' = [a \in Block |-> flash[a]] /\ ~NeedErase(want', cur')
      BY <2>1
    <2>3. cur' \in [Block -> Byte] /\ \A a \in Block : cur'[a] = flash[a]
      BY <1>1, <1>2, <2>2
    <2>4. \A a \in Block : want'[a] \subseteq cur'[a]
      BY <2>2 DEF NeedErase
    <2>5. QED BY <1>0, <2>3, <2>4 DEF CurInv
  <1>7. BlankInv'
    BY DEF BlankInv, Blank
  <1>8. RestInv'
    BY <1>0 DEF DataInv, RestInv, Blank
  <1>9. UpdatedUpToPos'
    BY <1>0 DEF DataInv, UpdatedUpToPos
  <1>10. QED BY <1>5, <1>6, <1>7, <1>8, <1>9 DEF DataInv

(* Erasing the block keeps the plan for it.                                *)
LEMMA EraseData ==
    ASSUME ControlInv, DataInv, Honest, pc \in {"update_erase", "patch_erase"},
           NEW ok \in BOOLEAN, BackendErase(Block, ok),
           UNCHANGED <<callVars, pos, sb, se>>,
           IF ok THEN pc' \in Blank /\ want' = want ELSE pc' = "idle" /\ rc' = -1
    PROVE  DataInv'
  <1>0. /\ op' = op /\ addr' = addr /\ len' = len /\ image' = image /\ flash0' = flash0
        /\ pos' = pos /\ sb' = sb /\ se' = se
        /\ Block' = Block /\ Region' = Region
    BY DEF callVars, Block, Region, Span
  <1>1. Block \subseteq Addr /\ \A a \in Region : a < pos => a \notin Block
    BY BlockFacts DEF InBlock
  <1>2. /\ \A a \in Addr : a \notin Block => flash'[a] = flash[a]
        /\ ok => \A a \in Addr \cap Block : flash'[a] = Bits
    BY EraseEffect DEF ControlInv
  <1>3. WantInv'
    BY <1>0 DEF DataInv, WantInv, Planned, Blank
  <1>4. CurInv'
    BY DEF CurInv, Blank
  <1>5. BlankInv'
    BY <1>0, <1>1, <1>2 DEF BlankInv, Blank
  <1>6. RestInv'
    <2>1. \A a \in Addr \ Region : op \in Composite => flash[a] = flash0[a]
      BY DEF DataInv, RestInv, Blank
    <2>2. QED BY <1>0, <1>2, <2>1 DEF RestInv
  <1>7. UpdatedUpToPos'
    <2>1. Region \subseteq Addr
      BY FlashAssumption DEF ControlInv, CallInv, RangeOk, TypeOK, Region, Span, Addr
    <2>2. QED BY <1>0, <1>1, <1>2, <2>1 DEF DataInv, UpdatedUpToPos
  <1>8. QED BY <1>3, <1>4, <1>5, <1>6, <1>7 DEF DataInv

(* A step that has put the plan into the block, or fails trying.           *)
LEMMA WriteData ==
    ASSUME ControlInv, DataInv, pc \in Planned, NEW ok \in BOOLEAN,
           \A a \in Addr : a \notin Block => flash'[a] = flash[a],
           ok => \A a \in Block : flash'[a] = want[a],
           UNCHANGED <<callVars, sb, se>>,
           IF ok THEN pc' \in {"update_loop", "patch_loop"} /\ pos' = Wrap(se)
                 ELSE pc' = "idle" /\ rc' = -1 /\ pos' = pos
    PROVE  DataInv'
  <1>0. /\ op' = op /\ addr' = addr /\ len' = len /\ image' = image /\ flash0' = flash0
        /\ sb' = sb /\ se' = se
        /\ Block' = Block /\ Region' = Region
    BY DEF callVars, Block, Region, Span
  <1>1. /\ Block \subseteq Addr /\ \A a \in Region : a < pos => a \notin Block
        /\ Wrap(se) = se /\ pos \in Block /\ sb \in Nat /\ se \in Nat
    BY BlockFacts DEF InBlock, Planned
  <1>2. /\ Region \subseteq Addr /\ addr \in Nat /\ len \in Nat
        /\ op \in Composite
    BY FlashAssumption DEF ControlInv, CallInv, RangeOk, TypeOK, Region, Span, Addr, Planned
  <1>3. \A a \in Block : want[a] = IF a \in Region THEN image[a] ELSE flash0[a]
    BY DEF DataInv, WantInv
  <1>4. WantInv' /\ CurInv' /\ BlankInv'
    BY DEF WantInv, CurInv, BlankInv, Planned, Blank
  <1>5. RestInv'
    <2>1. SUFFICES ASSUME NEW a \in Addr, a \notin Region
                   PROVE  \/ flash'[a] = flash0[a]
                          \/ a \in Block /\ pc' = "idle" /\ rc' = -1
      BY <1>0 DEF RestInv
    <2>2. CASE ok /\ a \in Block
      BY <1>3, <2>1, <2>2
    <2>3. CASE ok /\ a \notin Block
      BY <1>2, <2>1, <2>3 DEF DataInv, RestInv
    <2>4. CASE ~ok /\ a \in Block
      BY <2>4
    <2>5. CASE ~ok /\ a \notin Block
      BY <1>2, <2>1, <2>5 DEF DataInv, RestInv
    <2>6. QED BY <2>2, <2>3, <2>4, <2>5
  <1>6. UpdatedUpToPos'
    <2>1. SUFFICES ASSUME op = "update", NEW a \in Region, a < pos'
                   PROVE  flash'[a] = image[a]
      BY <1>0 DEF UpdatedUpToPos
    <2>2. CASE a \in Block
      BY <1>1, <1>3, <2>1, <2>2
    <2>3. CASE a \notin Block
      <3>1. a < pos
        BY <1>1, <1>2, <2>1, <2>3 DEF Region, Span, Block
      <3>2. QED BY <1>2, <2>1, <2>3, <3>1 DEF DataInv, UpdatedUpToPos
    <2>4. QED BY <2>2, <2>3
  <1>7. QED BY <1>4, <1>5, <1>6 DEF DataInv

(* Rewriting an erased block in full puts the plan into it.                *)
LEMMA RewriteEffect ==
    ASSUME ControlInv, DataInv, Honest, pc \in Blank, NEW ok \in BOOLEAN,
           BackendWrite(sb, se - sb, want, ok)
    PROVE  /\ \A a \in Addr : a \notin Block => flash'[a] = flash[a]
           /\ ok => \A a \in Block : flash'[a] = want[a]
  <1>1. Block \subseteq Addr /\ Span(sb, se - sb) = Block
    BY BlockFacts DEF InBlock, Blank
  <1>2. /\ \A a \in Addr : a \notin Block => flash'[a] = flash[a]
        /\ ok => \A a \in Addr \cap Block : flash'[a] = flash[a] \cap want[a]
    BY <1>1, WriteEffect DEF ControlInv
  <1>3. \A a \in Block : flash[a] = Bits /\ want[a] \in SUBSET Bits
    BY DEF DataInv, BlankInv, WantInv, Planned, Blank, Byte
  <1>4. QED BY <1>1, <1>2, <1>3

(* Programming the differing span in place puts the plan into the block:   *)
(* inside the span no bit has to rise, outside it nothing differs.         *)
LEMMA ProgramEffect ==
    ASSUME ControlInv, DataInv, Honest, pc = "patch_program", NEW ok \in BOOLEAN,
           NEW l \in 0 .. (se - sb), NEW h \in 0 .. (se - sb), DifferingSpan(l, h),
           BackendWrite(sb + WidenLo(l), WidenHi(h) - WidenLo(l), want, ok)
    PROVE  /\ \A a \in Addr : a \notin Block => flash'[a] = flash[a]
           /\ ok => \A a \in Block : flash'[a] = want[a]
  <1> DEFINE S == Span(sb + WidenLo(l), WidenHi(h) - WidenLo(l))
  <1>1. Block \subseteq Addr /\ sb \in Nat /\ se \in Nat /\ sb < se
    BY BlockFacts DEF InBlock
  <1>2. /\ WidenLo(l) \in Nat /\ WidenLo(l) <= l
        /\ WidenHi(h) \in Nat /\ h <= WidenHi(h) /\ WidenHi(h) <= se - sb
    BY <1>1, WidenedSpan
  <1>3. S \subseteq Block
    BY <1>1, <1>2 DEF Span, Block
  <1>4. \A a \in Block : a \notin S => want[a] = cur[a]
    <2>1. SUFFICES ASSUME NEW a \in Block, a \notin S PROVE want[a] = cur[a]
      OBVIOUS
    <2>2. a \in Int /\ sb <= a /\ a < se /\ a = sb + (a - sb) /\ a - sb \in Int
      BY <1>1, <2>1 DEF Block
    <2>3. a - sb < WidenLo(l) \/ a - sb >= WidenHi(h)
      BY <1>1, <1>2, <2>1, <2>2 DEF Span
    <2>4. a - sb \in 0 .. (l - 1) \/ a - sb \in h .. (se - sb - 1)
      BY <1>1, <1>2, <2>2, <2>3
    <2>5. want[sb + (a - sb)] = cur[sb + (a - sb)]
      BY <2>4 DEF DifferingSpan
    <2>6. QED BY <2>2, <2>5
  <1>5. \A a \in Block : cur[a] = flash[a] /\ want[a] \subseteq flash[a]
    BY DEF DataInv, CurInv
  <1>6. /\ \A a \in Addr : a \notin S => flash'[a] = flash[a]
        /\ ok => \A a \in Addr \cap S : flash'[a] = flash[a] \cap want[a]
    BY WriteEffect DEF ControlInv
  <1> HIDE DEF S
  <1>7. \A a \in Addr : a \notin Block => flash'[a] = flash[a]
    BY <1>3, <1>6
  <1>8. ASSUME ok, NEW a \in Block PROVE flash'[a] = want[a]
    <2>1. CASE a \in S
      BY <1>1, <1>5, <1>6, <1>8, <2>1
    <2>2. CASE a \notin S
      BY <1>1, <1>4, <1>5, <1>6, <1>8, <2>2
    <2>3. QED BY <2>1, <2>2
  <1>9. QED BY <1>7, <1>8

LEMMA StepsKeepData == Honest /\ ControlInv /\ DataInv /\ Step => DataInv'
  <1> SUFFICES ASSUME Honest, ControlInv, DataInv, Step PROVE DataInv'
    OBVIOUS
  <1>a. ASSUME pc # "idle", pc \notin Blank, Abort
        PROVE  DataInv'
    BY <1>a, QuietData DEF Abort, Return, Planned
  <1>1. CASE flash_halt_target
    BY <1>1, QuietData DEF flash_halt_target, loopVars, Planned, Blank
  <1>2. CASE flash_halt_failed
    BY <1>2, <1>a DEF flash_halt_failed, Blank
  <1>3. CASE NoSector
    BY <1>3, <1>a DEF NoSector, Blank
  <1>4. CASE LoopDone
    BY <1>4, QuietData DEF LoopDone, loopVars, Planned, Blank
  <1>5. CASE UpdateSector
    BY <1>5, QuietData DEF UpdateSector, Planned, Blank
  <1>6. CASE UpdateBuild
    BY <1>6, PlanData DEF UpdateBuild
  <1>7. CASE UpdateBuildFailed
    BY <1>7, <1>a DEF UpdateBuildFailed, Blank
  <1>8. CASE UpdateErase
    <2>1. PICK ok \in BOOLEAN :
             /\ BackendErase(Block, ok)
             /\ IF ok THEN pc' = "update_write" /\ want' = want ELSE Return(-1)
      BY <1>8 DEF UpdateErase
    <2>2. QED BY <1>8, <2>1, EraseData DEF UpdateErase, Return, Blank
  <1>9. CASE UpdateWrite
    <2>1. PICK ok \in BOOLEAN :
             /\ BackendWrite(sb, se - sb, want, ok)
             /\ IF ok THEN pos' = Wrap(se) /\ pc' = "update_loop"
                      ELSE Return(-1) /\ UNCHANGED pos
      BY <1>9 DEF UpdateWrite
    <2>2. pc = "update_write" /\ UNCHANGED <<callVars, sb, se>>
      BY <1>9 DEF UpdateWrite
    <2>3. /\ \A a \in Addr : a \notin Block => flash'[a] = flash[a]
          /\ ok => \A a \in Block : flash'[a] = want[a]
      BY <2>1, <2>2, RewriteEffect DEF Blank
    <2>4. QED BY <2>1, <2>2, <2>3, WriteData DEF Return, Planned
  <1>10. CASE PatchSector
    BY <1>10, QuietData DEF PatchSector, Planned, Blank
  <1>p. pc \in PatchPc => op # "update"
    BY DEF ControlInv, CallInv
  <1>11. CASE PatchSkipByOldImage
    BY <1>11, <1>p, QuietData
       DEF PatchSkipByOldImage, NextBlock, Planned, Blank, PatchPc
  <1>12. CASE PatchReadFailed
    BY <1>12, <1>a DEF PatchReadFailed, Blank
  <1>13. CASE PatchSkipSame
    BY <1>13, <1>p, QuietData DEF PatchSkipSame, NextBlock, Planned, Blank, PatchPc
  <1>14. CASE PatchPlan
    BY <1>14, PlanData DEF PatchPlan
  <1>15. CASE PatchErase
    <2>1. PICK ok \in BOOLEAN :
             /\ BackendErase(Block, ok)
             /\ IF ok THEN pc' = "patch_rewrite" /\ want' = want ELSE Return(-1)
      BY <1>15 DEF PatchErase
    <2>2. QED BY <1>15, <2>1, EraseData DEF PatchErase, Return, Blank
  <1>16. CASE PatchRewrite
    <2>1. PICK ok \in BOOLEAN :
             /\ BackendWrite(sb, se - sb, want, ok)
             /\ IF ok THEN NextBlock ELSE Return(-1) /\ UNCHANGED pos
      BY <1>16 DEF PatchRewrite
    <2>2. pc = "patch_rewrite" /\ UNCHANGED <<callVars, sb, se>>
      BY <1>16 DEF PatchRewrite
    <2>3. /\ \A a \in Addr : a \notin Block => flash'[a] = flash[a]
          /\ ok => \A a \in Block : flash'[a] = want[a]
      BY <2>1, <2>2, RewriteEffect DEF Blank
    <2>4. QED BY <2>1, <2>2, <2>3, WriteData DEF Return, NextBlock, Planned
  <1>17. CASE PatchProgram
    <2>1. PICK l, h \in 0 .. (se - sb), ok \in BOOLEAN :
             /\ DifferingSpan(l, h)
             /\ BackendWrite(sb + WidenLo(l), WidenHi(h) - WidenLo(l), want, ok)
             /\ IF ok THEN NextBlock ELSE Return(-1) /\ UNCHANGED pos
      BY <1>17 DEF PatchProgram
    <2>2. pc = "patch_program" /\ UNCHANGED <<callVars, sb, se>>
      BY <1>17 DEF PatchProgram
    <2>3. /\ \A a \in Addr : a \notin Block => flash'[a] = flash[a]
          /\ ok => \A a \in Block : flash'[a] = want[a]
      BY <2>1, <2>2, ProgramEffect
    <2>4. QED BY <2>1, <2>2, <2>3, WriteData DEF Return, NextBlock, Planned
  <1>18. CASE FinalVerify
    BY <1>18, QuietData DEF FinalVerify, VerifyResult, Return, Planned, Blank
  <1>19. QED
    BY <1>1, <1>2, <1>3, <1>4, <1>5, <1>6, <1>7, <1>8, <1>9, <1>10, <1>11, <1>12, <1>13,
       <1>14, <1>15, <1>16, <1>17, <1>18 DEF Step

LEMMA DataAlways == ASSUME ~SilentFaults PROVE Spec => [](ControlInv /\ DataInv)
  <1>1. DataInv /\ UNCHANGED vars => DataInv'
    BY DEF DataInv, WantInv, CurInv, BlankInv, RestInv, UpdatedUpToPos, vars, callVars,
           loopVars, Block, Region, Span
  <1>2. ControlInv /\ ControlInv' /\ DataInv /\ [Next]_vars => DataInv'
    BY <1>1, CallsKeepData, StepsKeepData DEF Next, Honest
  <1>3. QED BY DataInit, <1>2, ControlAlways, PTL DEF Spec

(* "nothing outside [addr, addr + len) changes": every byte around the     *)
(* region survives a call that returns 0, for every geometry.              *)
THEOREM RestSurvives == ASSUME ~SilentFaults PROVE Spec => []SuccessKeepsTheRest
  <1>1. ControlInv /\ DataInv => SuccessKeepsTheRest
    BY DEF DataInv, RestInv, SuccessKeepsTheRest, Returned, Blank
  <1>2. QED BY DataAlways, <1>1, PTL

(* A failing call puts the neighbours of one erase block at risk, never    *)
(* of two.                                                                 *)
THEOREM DamageStaysInOneBlock == ASSUME ~SilentFaults PROVE Spec => []DamageInOneBlock
  <1>1. ControlInv /\ DataInv => DamageInOneBlock
    BY DEF DataInv, RestInv, DamageInOneBlock
  <1>2. QED BY DataAlways, <1>1, PTL

(* What an update, finished or failed, leaves behind up to its position is *)
(* a prefix of the image.                                                  *)
THEOREM UpdateIsAPrefix == ASSUME ~SilentFaults PROVE Spec => []UpdatedUpToPos
  <1>1. ControlInv /\ DataInv => UpdatedUpToPos
    BY DEF DataInv
  <1>2. QED BY DataAlways, <1>1, PTL

-----------------------------------------------------------------------------
(* The core does not run while its flash is programmed.                    *)

(* With a backend that can halt, update and patch program flash only while *)
(* the target is halted, and leave it halted when they succeed.            *)
THEOREM HaltedWhileProgramming == ASSUME HasHaltOp PROVE Spec => []HaltedForProgramming
  <1>1. Init => HaltedForProgramming
    BY DEF Init, HaltedForProgramming, UpdatePc, PatchPc, Composite
  <1>2. HaltedForProgramming /\ [Next]_vars => HaltedForProgramming'
    <2> SUFFICES ASSUME HaltedForProgramming, [Next]_vars PROVE HaltedForProgramming'
      OBVIOUS
    <2>1. CASE UNCHANGED vars
      BY <2>1 DEF HaltedForProgramming, vars, callVars
    <2>2. ASSUME NEW name, NEW a, NEW n, NEW d, NEW o, BeginCall(name, a, n, d, o),
                 \/ pc' = "idle" /\ name \notin Composite
                 \/ Enter(n, a)
          PROVE  HaltedForProgramming'
      BY <2>2 DEF HaltedForProgramming, BeginCall, Enter, Return, UpdatePc, PatchPc
    <2>3. CASE Call
      <3>1. CASE hw_board_run
        BY <2>2, <3>1 DEF hw_board_run, BeginControl, Return, Composite
      <3>2. CASE hw_board_halt
        BY <2>2, <3>2 DEF hw_board_halt, BeginControl, Return, Composite
      <3>3. CASE hw_flash_mass_erase
        BY <2>2, <3>3 DEF hw_flash_mass_erase, BeginControl, Return, Composite
      <3>4. ASSUME NEW a \in CallAddr, NEW n \in CallLen, hw_flash_erase(a, n)
            PROVE  HaltedForProgramming'
        BY <2>2, <3>4 DEF hw_flash_erase, Return, Composite
      <3>5. ASSUME NEW a \in CallAddr, NEW n \in CallLen, NEW d \in Images(a, n),
                   hw_flash_write(a, n, d)
            PROVE  HaltedForProgramming'
        BY <2>2, <3>5 DEF hw_flash_write, Return, Composite
      <3>6. ASSUME NEW a \in CallAddr, NEW n \in CallLen, NEW d \in Images(a, n),
                   hw_flash_verify(a, n, d)
            PROVE  HaltedForProgramming'
        BY <2>2, <3>6 DEF hw_flash_verify, VerifyResult, Return, Composite
      <3>7. QED
        BY <2>2, <2>3, <3>1, <3>2, <3>3, <3>4, <3>5, <3>6
           DEF Call, hw_flash_update, hw_flash_patch
    <2>4. CASE flash_halt_target
      BY <2>4 DEF flash_halt_target, HaltResult, HaltedForProgramming
    <2>5. CASE flash_halt_failed
      BY <2>5 DEF flash_halt_failed, Abort, Return, HaltedForProgramming, UpdatePc, PatchPc
    <2>6. CASE Step /\ ~flash_halt_target /\ ~flash_halt_failed
      <3>1. pc \in UpdatePc \cup PatchPc \cup {"verify"} /\ halted' = halted
        BY <2>6
           DEF Step, NoSector, LoopDone, UpdateSector, UpdateBuild, UpdateBuildFailed,
               UpdateErase, UpdateWrite, PatchSector, PatchSkipByOldImage, PatchReadFailed,
               PatchSkipSame, PatchPlan, PatchErase, PatchRewrite, PatchProgram,
               FinalVerify, Abort, UpdatePc, PatchPc
      <3>2. QED BY <3>1 DEF HaltedForProgramming
    <2>7. QED BY <2>1, <2>3, <2>4, <2>5, <2>6 DEF Next
  <1>3. QED BY <1>1, <1>2, PTL DEF Spec

-----------------------------------------------------------------------------
(* The blocks a patch leaves alone.  Nothing here needs an honest backend. *)

PatchInv ==
    /\ PatchAhead
    /\ PatchReason
    /\ IdenticalBlocksUntouched
    /\ ClearOnlyBlockNeverErased

(* The addresses of a block share it.                                      *)
LEMMA SameSector ==
    ASSUME NEW p \in Addr, NEW a \in Sector(p)
    PROVE  Sector(a) = Sector(p) /\ SectorEnd[a] = SectorEnd[p]
  BY GeometryAssumption DEF Sector

(* An address outside the block of p whose own block does not end before   *)
(* p lies in a later block.                                                *)
LEMMA OtherSector ==
    ASSUME NEW p \in Addr, NEW a \in Addr, a \notin Sector(p), SectorEnd[a] > p
    PROVE  SectorEnd[a] > SectorEnd[p]
  <1>0. /\ p \in Nat /\ a \in Nat /\ SectorEnd[a] \in Nat /\ SectorEnd[p] \in Nat
        /\ SectorStart[a] \in Nat /\ SectorStart[p] \in Nat
        /\ SectorStart[p] <= p /\ p < SectorEnd[p] /\ SectorStart[a] <= a /\ a < SectorEnd[a]
    BY FlashAssumption, GeometryAssumption DEF Addr
  <1>1. CASE a >= SectorEnd[p]
    BY <1>0, <1>1
  <1>2. CASE a < SectorStart[p]
    <2>1. p \in Sector(a)
      BY <1>0, <1>2 DEF Sector
    <2>2. SectorStart[p] = SectorStart[a]
      BY <2>1, GeometryAssumption DEF Sector
    <2>3. QED BY <1>0, <1>2, <2>2
  <1>3. QED BY <1>0, <1>1, <1>2 DEF Sector

LEMMA PatchInit == Init => PatchInv
  BY DEF Init, PatchInv, PatchAhead, PatchReason, IdenticalBlocksUntouched,
         ClearOnlyBlockNeverErased

(* A call other than a patch.                                              *)
LEMMA OtherCallPatch ==
    ASSUME op' # "patch", pc' \notin PatchPc
    PROVE  PatchInv'
  BY DEF PatchInv, PatchAhead, PatchReason, IdenticalBlocksUntouched,
         ClearOnlyBlockNeverErased, PatchPc

(* A call that starts has changed nothing yet.                             *)
LEMMA CallPatch ==
    ASSUME flash' = flash, flash0' = flash, pc' \in {"idle", "halt"}
    PROVE  PatchInv'
  BY DEF PatchInv, PatchAhead, PatchReason, IdenticalBlocksUntouched,
         ClearOnlyBlockNeverErased

LEMMA CallsKeepPatch == Call => PatchInv'
  <1> SUFFICES ASSUME Call PROVE PatchInv'
    OBVIOUS
  <1>1. hw_board_run \/ hw_board_halt \/ hw_flash_mass_erase
        => op' # "patch" /\ pc' = "idle"
    BY DEF hw_board_run, hw_board_halt, hw_flash_mass_erase, BeginControl, BeginCall, Return
  <1>e. ASSUME NEW a \in CallAddr, NEW n \in CallLen, hw_flash_erase(a, n)
        PROVE  op' # "patch" /\ pc' = "idle"
    BY <1>e DEF hw_flash_erase, BeginCall, Return
  <1>w. ASSUME NEW a \in CallAddr, NEW n \in CallLen, NEW d \in Images(a, n),
               hw_flash_write(a, n, d) \/ hw_flash_verify(a, n, d)
        PROVE  op' # "patch" /\ pc' = "idle"
    BY <1>w DEF hw_flash_write, hw_flash_verify, VerifyResult, BeginCall, Return
  <1>2. ASSUME NEW a, NEW n, NEW d, NEW o, NEW name,
               BeginCall(name, a, n, d, o), Enter(n, a), UNCHANGED <<flash, halted>>
        PROVE  PatchInv'
    BY <1>2, CallPatch DEF BeginCall, Enter, Return
  <1>3. QED
    BY <1>1, <1>2, <1>e, <1>w, OtherCallPatch DEF Call, hw_flash_update, hw_flash_patch, PatchPc

(* A step that leaves the device alone and plans no change.                *)
LEMMA QuietPatch ==
    ASSUME ControlInv, PatchInv, pc # "idle", pc # "patch_rewrite",
           flash' = flash, UNCHANGED callVars,
           pc' \notin {"patch_erase", "patch_rewrite", "patch_program"},
           pos' \in Nat, pos' >= pos
    PROVE  PatchInv'
  <1>0. /\ op' = op /\ addr' = addr /\ len' = len /\ image' = image /\ flash0' = flash0
        /\ oldi' = oldi /\ Region' = Region
    BY DEF callVars, Region, Span
  <1>1. PatchAhead'
    <2>1. SUFFICES ASSUME op = "patch", NEW a \in Addr, SectorEnd[a] > pos'
                   PROVE  flash[a] = flash0[a]
      BY <1>0 DEF PatchAhead
    <2>2. SectorEnd[a] > pos
      BY <2>1, GeometryAssumption DEF ControlInv, TypeOK
    <2>3. QED BY <2>1, <2>2 DEF PatchInv, PatchAhead
  <1>2. PatchReason'
    BY DEF PatchReason
  <1>3. IdenticalBlocksUntouched'
    BY <1>0 DEF PatchInv, IdenticalBlocksUntouched, OldByte, Sector
  <1>4. ClearOnlyBlockNeverErased'
    BY <1>0 DEF PatchInv, ClearOnlyBlockNeverErased, Sector
  <1>5. QED BY <1>1, <1>2, <1>3, <1>4 DEF PatchInv

(* The decision about a block is taken on what the block held before the   *)
(* call.                                                                   *)
LEMMA PlanPatch == ControlInv /\ PatchInv /\ PatchPlan => PatchInv'
  <1> SUFFICES ASSUME ControlInv, PatchInv, PatchPlan PROVE PatchInv'
    OBVIOUS
  <1>0. /\ op' = op /\ addr' = addr /\ len' = len /\ image' = image /\ flash0' = flash0
        /\ oldi' = oldi /\ pos' = pos /\ sb' = sb /\ se' = se /\ flash' = flash
        /\ Region' = Region /\ Block' = Block
        /\ pc = "patch_decide"
    BY DEF PatchPlan, callVars, Region, Span, Block
  <1>1. op = "patch" /\ pos \in Addr /\ Block = Sector(pos)
    BY <1>0 DEF ControlInv, CallInv, BlockInv, PatchPc, InBlock, Block, Sector
  <1>2. Block \subseteq Addr /\ \A a \in Block : flash[a] = flash0[a]
    <2>1. Block \subseteq Addr /\ \A a \in Block : SectorEnd[a] > pos
      BY <1>1, SectorInFlash, SameSector, GeometryAssumption
    <2>2. QED BY <1>0, <1>1, <2>1 DEF PatchInv, PatchAhead
  <1>3. want' = Spliced /\ cur' = [a \in Block |-> flash[a]]
    BY DEF PatchPlan
  <1>4. \A a \in Block : /\ want'[a] = IF a \in Region THEN image[a] ELSE flash0[a]
                         /\ cur'[a] = flash0[a]
    BY <1>2, <1>3 DEF Spliced
  <1>5. PatchAhead'
    BY <1>0, <1>1 DEF PatchInv, PatchAhead
  <1>6. PatchReason'
    <2>1. \E b \in Block \cap Region : OldByte(b) # image[b]
      <3>1. ~SkippedByOldImage /\ ~SameAsNew(flash)
        BY DEF PatchPlan
      <3>2. CASE oldi = NoImage
        BY <1>2, <3>1, <3>2 DEF SameAsNew, OldByte
      <3>3. CASE oldi # NoImage
        BY <3>1, <3>3 DEF SkippedByOldImage, SameAsNew, OldByte
      <3>4. QED BY <3>2, <3>3
    <2>2. pc' \in {"patch_erase", "patch_rewrite"} =>
              \E b \in Block \cap Region : ~(image[b] \subseteq flash0[b])
      <3>1. SUFFICES ASSUME NeedErase(want', cur')
                     PROVE  \E b \in Block \cap Region : ~(image[b] \subseteq flash0[b])
        BY DEF PatchPlan
      <3>2. PICK a \in Block : ~(want'[a] \subseteq cur'[a])
        BY <3>1 DEF NeedErase
      <3>3. a \in Region /\ ~(image[a] \subseteq flash0[a])
        BY <1>4, <3>2
      <3>4. QED BY <3>3
    <2>3. pc' = "patch_program" => \A a \in Block : want'[a] \subseteq flash0[a]
      BY <1>4 DEF PatchPlan, NeedErase
    <2>4. QED BY <1>0, <1>4, <2>1, <2>2, <2>3 DEF PatchReason, OldByte
  <1>7. IdenticalBlocksUntouched'
    BY <1>0 DEF PatchInv, IdenticalBlocksUntouched, OldByte, Sector
  <1>8. ClearOnlyBlockNeverErased'
    BY <1>0 DEF PatchInv, ClearOnlyBlockNeverErased, Sector
  <1>9. QED BY <1>5, <1>6, <1>7, <1>8 DEF PatchInv

(* A backend call on a block there is a reason to change, whether it works *)
(* or fails: nothing outside the block changes, and a block that is not    *)
(* erased only loses bits of the region.                                   *)
LEMMA TouchPatch ==
    ASSUME ControlInv, PatchInv,
           pc \in {"patch_erase", "patch_rewrite", "patch_program"},
           UNCHANGED <<callVars, sb, se>>,
           \A a \in Addr : a \notin Block => flash'[a] = flash[a],
           pc = "patch_program" =>
               \A a \in Addr : flash'[a] \in {flash[a], flash[a] \cap want[a]},
           \/ pc' = "idle"
           \/ pc' = "patch_rewrite" /\ pc = "patch_erase" /\ pos' = pos
           \/ pc' = "patch_loop" /\ pos' = Wrap(se)
    PROVE  PatchInv'
  <1>0. /\ op' = op /\ addr' = addr /\ len' = len /\ image' = image /\ flash0' = flash0
        /\ oldi' = oldi /\ sb' = sb /\ se' = se
        /\ Region' = Region /\ Block' = Block
    BY DEF callVars, Region, Span, Block
  <1>1. /\ op = "patch" /\ pos \in Addr /\ Block = Sector(pos) /\ se = SectorEnd[pos]
        /\ Wrap(se) = se
    BY DEF ControlInv, CallInv, BlockInv, PatchPc, InBlock, Block, Sector, Wrap
  <1>2. /\ Block \subseteq Addr
        /\ \A a \in Block : Sector(a) = Block /\ SectorEnd[a] = se
    BY <1>1, SectorInFlash, SameSector
  <1>n. pos \in Nat /\ se \in Nat /\ pos < se /\ \A a \in Addr : SectorEnd[a] \in Nat
    BY <1>1, SectorInFlash, GeometryAssumption
  <1>3. \A a \in Block : flash[a] = flash0[a] \/ pc = "patch_rewrite"
    BY <1>1, <1>2, <1>n DEF PatchInv, PatchAhead
  <1>4. PatchAhead'
    <2>1. SUFFICES ASSUME pc' # "idle", NEW a \in Addr, SectorEnd[a] > pos'
                   PROVE  flash'[a] = flash0[a] \/ (a \in Block /\ pc' = "patch_rewrite")
      BY <1>0 DEF PatchAhead
    <2>2. CASE a \notin Block
      <3>1. SectorEnd[a] > pos
        BY <1>1, <1>n, <2>1
      <3>2. QED BY <1>1, <2>2, <3>1 DEF PatchInv, PatchAhead
    <2>3. CASE a \in Block
      BY <1>1, <1>2, <1>n, <2>1, <2>3
    <2>4. QED BY <2>2, <2>3
  <1>5. PatchReason'
    <2>1. CASE pc' = "patch_rewrite" /\ pc = "patch_erase"
      BY <1>0, <2>1 DEF PatchInv, PatchReason, OldByte
    <2>2. CASE pc' \in {"idle", "patch_loop"}
      BY <2>2 DEF PatchReason
    <2>3. QED BY <2>1, <2>2
  <1>6. IdenticalBlocksUntouched'
    <2>1. SUFFICES ASSUME NEW a \in Addr, flash'[a] # flash0[a]
                   PROVE  \E b \in Region \cap Sector(a) : OldByte(b) # image[b]
      BY <1>0 DEF IdenticalBlocksUntouched, OldByte, Sector
    <2>2. CASE a \notin Block
      BY <1>1, <2>1, <2>2 DEF PatchInv, IdenticalBlocksUntouched
    <2>3. CASE a \in Block
      BY <1>2, <2>3 DEF PatchInv, PatchReason
    <2>4. QED BY <2>2, <2>3
  <1>7. ClearOnlyBlockNeverErased'
    <2>1. SUFFICES ASSUME NEW a \in Addr,
                          \A b \in Region \cap Sector(a) : image[b] \subseteq flash0[b]
                   PROVE  /\ flash'[a] \subseteq flash0[a]
                          /\ a \notin Region => flash'[a] = flash0[a]
      BY <1>0 DEF ClearOnlyBlockNeverErased, Sector
    <2>2. CASE a \notin Block
      BY <1>1, <2>1, <2>2 DEF PatchInv, ClearOnlyBlockNeverErased
    <2>3. CASE a \in Block
      <3>1. pc = "patch_program"
        BY <1>2, <2>1, <2>3 DEF PatchInv, PatchReason
      <3>2. /\ flash[a] = flash0[a]
            /\ want[a] = IF a \in Region THEN image[a] ELSE flash0[a]
            /\ flash'[a] \in {flash[a], flash[a] \cap want[a]}
        BY <1>3, <2>3, <3>1 DEF PatchInv, PatchReason
      <3>3. QED BY <3>2
    <2>4. QED BY <2>2, <2>3
  <1>8. QED BY <1>4, <1>5, <1>6, <1>7 DEF PatchInv

LEMMA StepsKeepPatch == ControlInv /\ ControlInv' /\ PatchInv /\ Step => PatchInv'
  <1> SUFFICES ASSUME ControlInv, ControlInv', PatchInv, Step PROVE PatchInv'
    OBVIOUS
  <1>n. pos \in Nat /\ pos' \in Nat
    BY DEF ControlInv, TypeOK
  <1>q. ASSUME pc # "idle", pc # "patch_rewrite", flash' = flash, UNCHANGED callVars,
               pc' \notin {"patch_erase", "patch_rewrite", "patch_program"}, pos' = pos
        PROVE  PatchInv'
    BY <1>q, <1>n, QuietPatch
  <1>a. ASSUME pc # "idle", pc # "patch_rewrite", Abort
        PROVE  PatchInv'
    BY <1>a, <1>q DEF Abort, Return
  <1>s. ASSUME pc = "patch_decide", NextBlock, flash' = flash, UNCHANGED callVars
        PROVE  PatchInv'
    <2>1. Wrap(se) = se /\ pos \in Block /\ se \in Nat /\ sb \in Nat
      BY <1>s, BlockFacts DEF InBlock
    <2>2. pos' >= pos
      BY <1>n, <1>s, <2>1 DEF NextBlock, Block
    <2>3. QED BY <1>n, <1>s, <2>2, QuietPatch DEF NextBlock
  <1>u. ASSUME pc \in UpdatePc, UNCHANGED callVars, pc' \in UpdatePc \cup {"idle"}
        PROVE  PatchInv'
    <2>1. op' = "update"
      BY <1>u DEF ControlInv, CallInv, callVars
    <2>2. QED BY <1>u, <2>1, OtherCallPatch DEF UpdatePc, PatchPc
  <1>1. CASE flash_halt_target
    BY <1>1, <1>q DEF flash_halt_target, loopVars
  <1>2. CASE flash_halt_failed
    BY <1>2, <1>a DEF flash_halt_failed
  <1>3. CASE NoSector
    BY <1>3, <1>a DEF NoSector
  <1>4. CASE LoopDone
    BY <1>4, <1>q DEF LoopDone, loopVars
  <1>5. CASE UpdateSector
    BY <1>5, <1>q DEF UpdateSector
  <1>6. CASE UpdateBuild
    BY <1>6, <1>u DEF UpdateBuild, UpdatePc
  <1>7. CASE UpdateBuildFailed
    BY <1>7, <1>a DEF UpdateBuildFailed
  <1>8. CASE UpdateErase
    BY <1>8, <1>u DEF UpdateErase, UpdatePc, Return
  <1>9. CASE UpdateWrite
    BY <1>9, <1>u DEF UpdateWrite, UpdatePc, Return
  <1>10. CASE PatchSector
    BY <1>10, <1>q DEF PatchSector
  <1>11. CASE PatchSkipByOldImage
    BY <1>11, <1>s DEF PatchSkipByOldImage
  <1>12. CASE PatchReadFailed
    BY <1>12, <1>a DEF PatchReadFailed
  <1>13. CASE PatchSkipSame
    BY <1>13, <1>s DEF PatchSkipSame
  <1>14. CASE PatchPlan
    BY <1>14, PlanPatch
  <1>15. CASE PatchErase
    <2>1. PICK ok \in BOOLEAN :
             /\ BackendErase(Block, ok)
             /\ pc' \in {"idle", "patch_rewrite"}
      BY <1>15 DEF PatchErase, Return
    <2>2. \A a \in Addr : a \notin Block => flash'[a] = flash[a]
      BY <2>1, EraseEffect DEF ControlInv
    <2>3. QED BY <1>15, <2>1, <2>2, TouchPatch DEF PatchErase
  <1>16. CASE PatchRewrite
    <2>0. pc = "patch_rewrite" /\ UNCHANGED <<callVars, sb, se>>
      BY <1>16 DEF PatchRewrite
    <2>1. PICK ok \in BOOLEAN :
             /\ BackendWrite(sb, se - sb, want, ok)
             /\ pc' = "idle" \/ NextBlock
      BY <1>16 DEF PatchRewrite, Return
    <2>2. \A a \in Addr : a \notin Block => flash'[a] = flash[a]
      BY <2>0, <2>1, WriteEffect, BlockFacts DEF ControlInv, InBlock
    <2>3. QED BY <2>0, <2>1, <2>2, TouchPatch DEF NextBlock
  <1>17. CASE PatchProgram
    <2>0. pc = "patch_program" /\ UNCHANGED <<callVars, sb, se>>
      BY <1>17 DEF PatchProgram
    <2>1. PICK l, h \in 0 .. (se - sb), ok \in BOOLEAN :
             /\ DifferingSpan(l, h)
             /\ BackendWrite(sb + WidenLo(l), WidenHi(h) - WidenLo(l), want, ok)
             /\ pc' = "idle" \/ NextBlock
      BY <1>17 DEF PatchProgram, Return
    <2>2. Span(sb + WidenLo(l), WidenHi(h) - WidenLo(l)) \subseteq Block
      <3>1. sb \in Nat /\ se \in Nat /\ sb < se
        BY <2>0, BlockFacts DEF InBlock
      <3>2. QED BY <3>1, WidenedSpan DEF Span, Block
    <2>3. /\ \A a \in Addr : a \notin Block => flash'[a] = flash[a]
          /\ \A a \in Addr : flash'[a] \in {flash[a], flash[a] \cap want[a]}
      <3>1. TypeOK
        BY DEF ControlInv
      <3>2. QED BY <2>1, <2>2, <3>1, WriteEffect
    <2>4. QED BY <2>0, <2>1, <2>3, TouchPatch DEF NextBlock
  <1>18. CASE FinalVerify
    BY <1>18, <1>q DEF FinalVerify, VerifyResult, Return
  <1>19. QED
    BY <1>1, <1>2, <1>3, <1>4, <1>5, <1>6, <1>7, <1>8, <1>9, <1>10, <1>11, <1>12, <1>13,
       <1>14, <1>15, <1>16, <1>17, <1>18 DEF Step

LEMMA PatchAlways == Spec => []PatchInv
  <1>1. PatchInv /\ UNCHANGED vars => PatchInv'
    BY DEF PatchInv, PatchAhead, PatchReason, IdenticalBlocksUntouched,
           ClearOnlyBlockNeverErased, OldByte, vars, callVars, loopVars, Block, Region,
           Span, Sector
  <1>2. ControlInv /\ ControlInv' /\ PatchInv /\ [Next]_vars => PatchInv'
    BY <1>1, CallsKeepPatch, StepsKeepPatch DEF Next
  <1>3. QED BY PatchInit, <1>2, ControlAlways, PTL DEF Spec

(* "Erase blocks whose bytes are identical in the two images are left      *)
(* entirely untouched": at every moment of a patch and after it, whatever  *)
(* fails, even silently, a byte has changed only in a block in which the   *)
(* image differs from what it is compared with.                            *)
THEOREM IdenticalBlocksStay == Spec => []IdenticalBlocksUntouched
  <1>1. PatchInv => IdenticalBlocksUntouched
    BY DEF PatchInv
  <1>2. QED BY PatchAlways, <1>1, PTL

(* "the erase is skipped when every differing bit only goes 1 -> 0": such  *)
(* a block loses bits of the region at most, and a failure of the backend  *)
(* in the middle of it costs nothing around the region.                    *)
THEOREM ClearOnlyBlocksKeepNeighbours == Spec => []ClearOnlyBlockNeverErased
  <1>1. PatchInv => ClearOnlyBlockNeverErased
    BY DEF PatchInv
  <1>2. QED BY PatchAlways, <1>1, PTL

-----------------------------------------------------------------------------
(* The refinement: on a backend that does not lie, every call of the flash *)
(* code is one its documented contract allows.                             *)

(* What a step of a running call may do: it changes no more than the block *)
(* it is in, keeps its arguments, and goes on, fails, or succeeds after    *)
(* the final comparison.                                                   *)
LEMMA StepEffect ==
    ASSUME ControlInv, Step
    PROVE  /\ pc # "idle" /\ UNCHANGED callVars
           /\ \/ flash' = flash
              \/ pc \in InBlock /\ \A a \in Addr : a \notin Block => flash'[a] = flash[a]
           /\ \/ pc' # "idle" /\ rc' = rc
              \/ pc' = "idle" /\ rc' = -1
              \/ /\ pc = "verify" /\ pc' = "idle" /\ rc' = 0 /\ flash' = flash
                 /\ \A a \in Region : flash[a] = image[a]
  <1>a. ASSUME pc # "idle", Abort
        PROVE  /\ pc # "idle" /\ UNCHANGED callVars /\ flash' = flash
               /\ pc' = "idle" /\ rc' = -1
    BY <1>a DEF Abort, Return
  <1>b. pc \in InBlock => Span(sb, se - sb) = Block
    BY BlockFacts
  <1>t. TypeOK
    BY DEF ControlInv
  <1>1. CASE flash_halt_target \/ LoopDone
    BY <1>1 DEF flash_halt_target, LoopDone
  <1>2. CASE flash_halt_failed \/ NoSector \/ UpdateBuildFailed \/ PatchReadFailed
    BY <1>2, <1>a DEF flash_halt_failed, NoSector, UpdateBuildFailed, PatchReadFailed
  <1>3. CASE UpdateSector \/ UpdateBuild
    BY <1>3 DEF UpdateSector, UpdateBuild
  <1>4. CASE PatchSector \/ PatchSkipByOldImage \/ PatchSkipSame \/ PatchPlan
    <2>1. pc \in PatchPc /\ UNCHANGED <<flash, rc, callVars>> /\ pc' # "idle"
      BY <1>4 DEF PatchSector, PatchSkipByOldImage, PatchSkipSame, PatchPlan, NextBlock, PatchPc
    <2>2. QED BY <2>1 DEF PatchPc
  <1>5. CASE UpdateErase \/ PatchErase
    <2>1. PICK ok \in BOOLEAN :
             /\ BackendErase(Block, ok) /\ pc \in InBlock /\ UNCHANGED callVars
             /\ IF ok THEN pc' # "idle" /\ rc' = rc ELSE pc' = "idle" /\ rc' = -1
      BY <1>5 DEF UpdateErase, PatchErase, Return, InBlock
    <2>2. \A a \in Addr : a \notin Block => flash'[a] = flash[a]
      BY <1>t, <2>1, EraseEffect
    <2>3. QED BY <2>1, <2>2 DEF InBlock
  <1>6. CASE UpdateWrite \/ PatchRewrite
    <2>1. PICK ok \in BOOLEAN :
             /\ BackendWrite(sb, se - sb, want, ok) /\ pc \in InBlock /\ UNCHANGED callVars
             /\ IF ok THEN pc' # "idle" /\ rc' = rc ELSE pc' = "idle" /\ rc' = -1
      BY <1>6 DEF UpdateWrite, PatchRewrite, NextBlock, Return, InBlock
    <2>2. \A a \in Addr : a \notin Block => flash'[a] = flash[a]
      BY <1>b, <1>t, <2>1, WriteEffect
    <2>3. QED BY <2>1, <2>2 DEF InBlock
  <1>7. CASE PatchProgram
    <2>0. pc = "patch_program" /\ UNCHANGED callVars
      BY <1>7 DEF PatchProgram
    <2>1. PICK l, h \in 0 .. (se - sb), ok \in BOOLEAN :
             /\ BackendWrite(sb + WidenLo(l), WidenHi(h) - WidenLo(l), want, ok)
             /\ IF ok THEN pc' # "idle" /\ rc' = rc ELSE pc' = "idle" /\ rc' = -1
      BY <1>7 DEF PatchProgram, NextBlock, Return
    <2>2. Span(sb + WidenLo(l), WidenHi(h) - WidenLo(l)) \subseteq Block
      <3>1. sb \in Nat /\ se \in Nat /\ sb < se
        BY <2>0, BlockFacts DEF InBlock
      <3>2. QED BY <3>1, WidenedSpan DEF Span, Block
    <2>3. \A a \in Addr : a \notin Block => flash'[a] = flash[a]
      BY <1>t, <2>1, <2>2, WriteEffect
    <2>4. QED BY <2>0, <2>1, <2>3 DEF InBlock
  <1>8. CASE FinalVerify
    BY <1>8 DEF FinalVerify, VerifyResult, Return, Region
  <1>9. QED BY <1>1, <1>2, <1>3, <1>4, <1>5, <1>6, <1>7, <1>8 DEF Step

(* The region of a running call lies in the flash, and so does its image.  *)
LEMMA RunningRegion ==
    ASSUME ControlInv, pc # "idle"
    PROVE  /\ op \in Composite
           /\ Region \subseteq Addr
           /\ image \in [Region -> Byte]
           /\ pc \in InBlock => pos \in Region /\ pos \in Addr /\ Block = Sector(pos)
  <1>1. op \in Composite /\ RangeOk(addr, len) /\ addr \in Nat /\ len \in Nat
    BY DEF ControlInv, CallInv, TypeOK
  <1>2. Region \subseteq Addr
    BY <1>1, FlashAssumption DEF RangeOk, Region, Span, Addr
  <1>3. image \in [Region -> Byte]
    BY <1>1 DEF ControlInv, TypeOK, Images, Region
  <1>4. ASSUME pc \in InBlock PROVE pos \in Region /\ pos \in Addr /\ Block = Sector(pos)
    <2>1. /\ pos \in Addr /\ pos < addr + len /\ addr <= pos /\ pos \in Nat
          /\ Block = Sector(pos)
      BY <1>4 DEF ControlInv, BlockInv, PosInv, TypeOK, Block, Sector, InBlock
    <2>2. QED BY <1>1, <2>1 DEF Region, Span
  <1>5. QED BY <1>1, <1>2, <1>3, <1>4

LEMMA TouchedStep ==
    ASSUME ControlInv, TouchedInv, Step
    PROVE  TouchedInv'
  <1>1. /\ pc # "idle" /\ UNCHANGED callVars
        /\ \/ flash' = flash
           \/ pc \in InBlock /\ \A a \in Addr : a \notin Block => flash'[a] = flash[a]
    BY StepEffect
  <1>2. /\ op' = op /\ flash0' = flash0 /\ Region' = Region
    BY <1>1 DEF callVars, Region, Span
  <1>3. pc \in InBlock => Block \subseteq WidenToSectors(Region)
    BY <1>1, RunningRegion DEF WidenToSectors
  <1>4. WidenToSectors(Region)' = WidenToSectors(Region)
    BY <1>2 DEF WidenToSectors, Sector
  <1>5. QED BY <1>1, <1>2, <1>3, <1>4 DEF TouchedInv

LEMMA TouchedAlways == Spec => []TouchedInv
  <1>1. Init => TouchedInv
    BY DEF Init, TouchedInv, Composite
  <1>2. TouchedInv /\ UNCHANGED vars => TouchedInv'
    BY DEF TouchedInv, vars, callVars, Region, Span, WidenToSectors, Sector
  <1>3. Call => TouchedInv'
    <2> SUFFICES ASSUME Call PROVE TouchedInv'
      OBVIOUS
    <2>1. op' \notin Composite => TouchedInv'
      BY DEF TouchedInv
    <2>2. flash' = flash0' => TouchedInv'
      BY DEF TouchedInv
    <2>3. hw_board_run \/ hw_board_halt \/ hw_flash_mass_erase => op' \notin Composite
      BY DEF hw_board_run, hw_board_halt, hw_flash_mass_erase, BeginControl, BeginCall,
             Composite
    <2>4. ASSUME NEW a \in CallAddr, NEW n \in CallLen, NEW d \in Images(a, n),
                 hw_flash_write(a, n, d) \/ hw_flash_verify(a, n, d)
          PROVE  op' \notin Composite
      BY <2>4 DEF hw_flash_write, hw_flash_verify, BeginCall, Composite
    <2>5. ASSUME NEW a \in CallAddr, NEW n \in CallLen, hw_flash_erase(a, n)
          PROVE  op' \notin Composite
      BY <2>5 DEF hw_flash_erase, BeginCall, Composite
    <2>6. ASSUME NEW a, NEW n, NEW d, NEW o, NEW name,
                 BeginCall(name, a, n, d, o), UNCHANGED <<flash, halted>>
          PROVE  flash' = flash0'
      BY <2>6 DEF BeginCall
    <2>7. QED
      BY <2>1, <2>2, <2>3, <2>4, <2>5, <2>6 DEF Call, hw_flash_update, hw_flash_patch
  <1>4. ControlInv /\ TouchedInv /\ [Next]_vars => TouchedInv'
    BY <1>2, <1>3, TouchedStep DEF Next
  <1>5. QED BY <1>1, <1>4, ControlAlways, PTL DEF Spec

(* The geometry the contract speaks of is the geometry of the code.        *)
LEMMA SameGeometry ==
    /\ Contract!Addr = Addr /\ Contract!Byte = Byte
    /\ \A S : Contract!WidenToSectors(S) = WidenToSectors(S)
    /\ \A a : Contract!Sector(a) = Sector(a)
  BY DEF Contract!Addr, Addr, Contract!Byte, Byte, Contract!WidenToSectors, WidenToSectors,
         Contract!Sector, Sector

(* What a step makes of the device stays within what the contract lets a   *)
(* running or failed call do.                                              *)
LEMMA StepConfined ==
    ASSUME ControlInv, ControlInv', RestInv, TouchedInv, TouchedInv', Step
    PROVE  Contract!Confined(flash')
  <1>1. /\ pc # "idle" /\ UNCHANGED callVars
        /\ \/ flash' = flash
           \/ pc \in InBlock /\ \A a \in Addr : a \notin Block => flash'[a] = flash[a]
    BY StepEffect
  <1>2. /\ op \in Composite /\ Region \subseteq Addr /\ DOMAIN image = Region
        /\ pc \in InBlock => pos \in Addr /\ Block = Sector(pos)
    BY <1>1, RunningRegion
  <1>3. op' = op /\ flash0' = flash0 /\ WidenToSectors(Region)' = WidenToSectors(Region)
    BY <1>1 DEF callVars, Region, Span, WidenToSectors, Sector
  <1>4. Region \cap Addr = Region
    BY <1>2
  <1>5. \A a \in Addr : flash'[a] # flash0[a] => a \in WidenToSectors(Region)
    BY <1>2, <1>3 DEF TouchedInv
  <1>6. \E b \in Addr : \A a \in Addr \ Region :
            flash'[a] # flash0[a] => a \in Sector(b)
    <2>1. CASE pc \in InBlock
      <3>1. pos \in Addr /\ \A a \in Addr \ Region :
                flash'[a] # flash0[a] => a \in Sector(pos)
        BY <1>1, <1>2, <2>1 DEF RestInv
      <3>2. QED BY <3>1
    <2>2. CASE pc \notin InBlock
      <3>1. \A a \in Addr \ Region : flash'[a] = flash0[a]
        BY <1>1, <1>2, <2>2 DEF RestInv, Blank, InBlock
      <3>2. Base \in Addr
        BY FlashAssumption DEF Addr
      <3>3. QED BY <3>1, <3>2
    <2>3. QED BY <2>1, <2>2
  <1>7. QED BY <1>2, <1>4, <1>5, <1>6, SameGeometry DEF Contract!Confined

(* A step of a running call is a step of the contract.                     *)
LEMMA StepRefines ==
    ASSUME ControlInv, ControlInv', RestInv, TouchedInv, TouchedInv', Step
    PROVE  Contract!CNext
  <1>1. /\ pc # "idle" /\ UNCHANGED callVars
        /\ \/ pc' # "idle" /\ rc' = rc
           \/ pc' = "idle" /\ rc' = -1
           \/ /\ pc = "verify" /\ pc' = "idle" /\ rc' = 0 /\ flash' = flash
              /\ \A a \in Region : flash[a] = image[a]
    BY StepEffect
  <1>2. op' = op /\ flash0' = flash0 /\ image' = image
    BY <1>1 DEF callVars
  <1>3. flash' \in [Contract!Addr -> Contract!Byte]
    BY SameGeometry DEF ControlInv, TypeOK
  <1>4. Contract!Confined(flash')
    BY StepConfined
  <1>5. CASE pc' # "idle" /\ rc' = rc
    <2>1. Contract!Work
      BY <1>1, <1>2, <1>3, <1>4, <1>5 DEF Contract!Work
    <2>2. QED BY <2>1 DEF Contract!CNext
  <1>6. CASE pc' = "idle" /\ rc' = -1
    <2>1. Contract!Fail
      BY <1>1, <1>2, <1>3, <1>4, <1>6 DEF Contract!Fail
    <2>2. QED BY <2>1 DEF Contract!CNext
  <1>7. CASE /\ pc = "verify" /\ pc' = "idle" /\ rc' = 0 /\ flash' = flash
             /\ \A a \in Region : flash[a] = image[a]
    <2>1. op \in Composite /\ DOMAIN image = Region
      BY <1>1, RunningRegion
    <2>2. \A a \in Addr \ Region : flash[a] = flash0[a]
      BY <1>7, <2>1 DEF RestInv, Blank
    <2>3. flash = [a \in Addr |-> IF a \in DOMAIN image THEN image[a] ELSE flash0[a]]
      BY <1>7, <2>1, <2>2 DEF ControlInv, TypeOK
    <2>4. flash' = Contract!Stored(flash0, image)
      BY <1>7, <2>3, SameGeometry DEF Contract!Stored
    <2>5. Contract!Succeed
      BY <1>1, <1>2, <1>7, <2>1, <2>4 DEF Contract!Succeed
    <2>6. QED BY <2>5 DEF Contract!CNext
  <1>8. QED BY <1>1, <1>5, <1>6, <1>7

(* A call that promises nothing about the device.                          *)
LEMMA OtherRefines ==
    ASSUME pc = "idle", pc' = "idle", op' \notin Composite, flash0' = flash,
           ControlInv'
    PROVE  Contract!CNext
  <1>1. flash' \in [Contract!Addr -> Contract!Byte] /\ rc' \in {0, -1}
    BY SameGeometry DEF ControlInv, TypeOK
  <1>2. Contract!Other
    BY <1>1 DEF Contract!Other, Contract!Nothing, NoBuffer
  <1>3. QED BY <1>2 DEF Contract!CNext

(* A composite call starts, is refused, or has nothing to do.              *)
LEMMA StartRefines ==
    ASSUME NEW name \in Composite, NEW a \in Nat, NEW n \in Nat, NEW d \in Images(a, n), NEW o,
           BeginCall(name, a, n, d, o), Enter(n, a), UNCHANGED <<flash, halted>>
    PROVE  Contract!CNext
  <1>1. /\ pc = "idle" /\ op' = name /\ op' \in Composite /\ image' = d /\ flash0' = flash
        /\ flash' = flash
    BY DEF BeginCall
  <1>2. DOMAIN image' = Span(a, n)
    BY <1>1 DEF Images
  <1>3. \/ pc' = "idle" /\ rc' = -1
        \/ pc' = "idle" /\ rc' = 0 /\ n = 0
        \/ pc' = "halt" /\ rc' = -1 /\ RangeOk(a, n)
    BY DEF Enter, Return
  <1>4. n = 0 => Span(a, n) = {}
    BY DEF Span
  <1>5. RangeOk(a, n) => Span(a, n) \subseteq Contract!Addr
    BY SameGeometry, FlashAssumption DEF RangeOk, Span, Addr
  <1>6. Contract!Start
    BY <1>1, <1>2, <1>3, <1>4, <1>5 DEF Contract!Start
  <1>7. QED BY <1>6 DEF Contract!CNext

LEMMA CallRefines ==
    ASSUME ControlInv', Call
    PROVE  Contract!CNext
  <1>1. CASE hw_board_run
    BY <1>1, OtherRefines DEF hw_board_run, BeginControl, BeginCall, Return, Composite
  <1>2. CASE hw_board_halt
    BY <1>2, OtherRefines DEF hw_board_halt, BeginControl, BeginCall, Return, Composite
  <1>3. CASE hw_flash_mass_erase
    BY <1>3, OtherRefines DEF hw_flash_mass_erase, BeginControl, BeginCall, Return, Composite
  <1>4. ASSUME NEW a \in CallAddr, NEW n \in CallLen, hw_flash_erase(a, n)
        PROVE  Contract!CNext
    BY <1>4, OtherRefines DEF hw_flash_erase, BeginCall, Return, Composite
  <1>5. ASSUME NEW a \in CallAddr, NEW n \in CallLen, NEW d \in Images(a, n),
               hw_flash_write(a, n, d) \/ hw_flash_verify(a, n, d)
        PROVE  Contract!CNext
    BY <1>5, OtherRefines
       DEF hw_flash_write, hw_flash_verify, VerifyResult, BeginCall, Return, Composite
  <1>6. ASSUME NEW a \in CallAddr, NEW n \in CallLen, NEW d \in Images(a, n), NEW o,
               NEW name \in Composite,
               BeginCall(name, a, n, d, o), Enter(n, a), UNCHANGED <<flash, halted>>
        PROVE  Contract!CNext
    <2>1. a \in Nat /\ n \in Nat
      BY ParameterAssumption
    <2>2. QED BY <1>6, <2>1, StartRefines
  <1>7. QED
    BY <1>1, <1>2, <1>3, <1>4, <1>5, <1>6 DEF Call, hw_flash_update, hw_flash_patch, Composite

(* The step-by-step update and patch of core/hw.c implement the contract   *)
(* of include/hw.h: only the blocks the image overlaps ever change, the    *)
(* bytes around it are at risk in one block at most, and success means     *)
(* that the image, and nothing else, changed.                              *)
THEOREM FlashRefinesContract == ASSUME ~SilentFaults PROVE Spec => ImplementsContract
  <1>1. Init => Contract!CInit
    <2>1. Init => flash \in [Contract!Addr -> Contract!Byte]
      BY SameGeometry DEF Init
    <2>2. QED BY <2>1 DEF Init, Contract!CInit, Contract!Nothing, NoBuffer, Composite
  <1>2. UNCHANGED vars => UNCHANGED Contract!cvars
    BY DEF vars, callVars, Contract!cvars
  <1>3. /\ ControlInv /\ ControlInv' /\ DataInv /\ TouchedInv /\ TouchedInv' /\ [Next]_vars
        => [Contract!CNext]_Contract!cvars
    BY <1>2, StepRefines, CallRefines DEF Next, DataInv
  <1>4. QED
    BY <1>1, <1>3, ControlAlways, DataAlways, TouchedAlways, PTL
       DEF Spec, ImplementsContract, Contract!CSpec

-----------------------------------------------------------------------------
(* The statistics of a patch.                                              *)

CountBlocks(T) == Cardinality(BlocksOf(T))

(* Dealing with the block of p adds it to the count if T reaches into it.  *)
LEMMA CountOneMore ==
    ASSUME NEW T \in SUBSET Addr, NEW p \in Addr
    PROVE  /\ CountBlocks(Upto(T, p)) \in Nat
           /\ CountBlocks(Upto(T, SectorEnd[p])) =
                CountBlocks(Upto(T, p)) + (IF T \cap Sector(p) = {} THEN 0 ELSE 1)
  <1> DEFINE B == BlocksOf(Upto(T, p))
             C == BlocksOf(Upto(T, SectorEnd[p]))
             s == SectorStart[p]
  <1>1. \A a \in Addr : /\ a \in Nat /\ SectorStart[a] \in Nat /\ SectorEnd[a] \in Nat
                        /\ SectorStart[a] \in Sector(a) /\ SectorStart[a] \in Addr
                        /\ a \in Sector(a)
    BY FlashAssumption, GeometryAssumption DEF Addr, Sector
  <1>2. IsFiniteSet(Addr)
    BY FlashAssumption, FS_Interval DEF Addr
  <1>3. B \subseteq Addr
    BY <1>1 DEF BlocksOf, Upto
  <1>4. IsFiniteSet(B) /\ Cardinality(B) \in Nat
    BY <1>2, <1>3, FS_Subset, FS_CardinalityType
  <1>5. s \notin B
    <2>1. SUFFICES ASSUME NEW a \in T, SectorEnd[a] <= p, s = SectorStart[a]
                   PROVE  FALSE
      BY DEF BlocksOf, Upto
    <2>2. SectorEnd[s] = SectorEnd[p] /\ SectorEnd[s] = SectorEnd[a]
      BY <1>1, <2>1, SameSector
    <2>3. QED BY <1>1, <2>1, <2>2, SectorInFlash, GeometryAssumption
  <1>6. \A a \in T : SectorEnd[a] <= SectorEnd[p] <=> SectorEnd[a] <= p \/ a \in Sector(p)
    <2>1. SUFFICES ASSUME NEW a \in T
                   PROVE  SectorEnd[a] <= SectorEnd[p] <=> SectorEnd[a] <= p \/ a \in Sector(p)
      OBVIOUS
    <2>2. p < SectorEnd[p] /\ p \in Nat /\ SectorEnd[p] \in Nat /\ SectorEnd[a] \in Nat
      BY <1>1, GeometryAssumption
    <2>3. CASE a \in Sector(p)
      BY <2>2, <2>3, SameSector
    <2>4. CASE a \notin Sector(p)
      BY <2>2, <2>4, OtherSector
    <2>5. QED BY <2>3, <2>4
  <1>7. C = B \cup {SectorStart[a] : a \in T \cap Sector(p)}
    BY <1>6 DEF BlocksOf, Upto
  <1>8. \A a \in Sector(p) : SectorStart[a] = s
    BY GeometryAssumption DEF Sector
  <1>9. CASE T \cap Sector(p) = {}
    <2>1. C = B
      BY <1>7, <1>9
    <2>2. QED BY <1>4, <1>9, <2>1 DEF CountBlocks
  <1>10. CASE T \cap Sector(p) # {}
    <2>1. C = B \cup {s}
      BY <1>7, <1>8, <1>10
    <2>2. QED BY <1>4, <1>5, <1>10, <2>1, FS_AddElement DEF CountBlocks
  <1>11. QED BY <1>9, <1>10

(* Before its first block a call has counted nothing, and after the last   *)
(* one it has reached all of its region.                                   *)
LEMMA CountNothing ==
    ASSUME NEW x \in Nat, NEW T \in SUBSET Addr, \A a \in T : x <= a
    PROVE  CountBlocks(Upto(T, x)) = 0
  <1>1. \A a \in T : a < SectorEnd[a] /\ SectorEnd[a] \in Nat /\ a \in Nat
    BY FlashAssumption, GeometryAssumption DEF Addr
  <1>2. BlocksOf(Upto(T, x)) = {}
    BY <1>1 DEF Upto, BlocksOf
  <1>3. QED BY <1>2, FS_EmptySet DEF CountBlocks

LEMMA CountEverything ==
    ASSUME ControlInv, pc # "idle", pos >= addr + len, NEW T \in SUBSET Region
    PROVE  Upto(T, pos) = T
  <1>1. /\ addr \in Nat /\ len \in Nat /\ len # 0 /\ pos \in Nat /\ Region \subseteq Addr
        /\ \A a \in Region : a \in Nat /\ a < addr + len
    BY FlashAssumption DEF ControlInv, TypeOK, CallInv, RangeOk, Region, Span, Addr
  <1>2. SUFFICES ASSUME NEW a \in T PROVE SectorEnd[a] <= pos
    BY DEF Upto
  <1>3. /\ a \in Addr /\ a \in Nat /\ a < pos /\ SectorStart[a] <= a /\ SectorEnd[a] <= Base + Size
        /\ SectorStart[a] \in Nat /\ SectorEnd[a] \in Nat
    BY <1>1, GeometryAssumption
  <1>4. CASE pos = Base + Size
    BY <1>3, <1>4
  <1>5. CASE pos \in Addr /\ SectorStart[pos] = pos
    <2>1. SUFFICES ASSUME SectorEnd[a] > pos PROVE FALSE
      BY <1>1, <1>3
    <2>2. pos \in SectorStart[a] .. (SectorEnd[a] - 1)
      BY <1>1, <1>3, <2>1
    <2>3. SectorStart[pos] = SectorStart[a]
      BY <1>3, <2>2, GeometryAssumption
    <2>4. QED BY <1>1, <1>3, <1>5, <2>3
  <1>6. pos # addr
    BY <1>1
  <1>7. QED BY <1>4, <1>5, <1>6 DEF ControlInv, PosInv

(* The bytes a patch counts lie in its region, and a step that keeps the   *)
(* arguments keeps them.                                                   *)
LEMMA CountedSets ==
    /\ Differing \subseteq Region /\ Rising \subseteq Region
    /\ UNCHANGED callVars => Region' = Region /\ Differing' = Differing /\ Rising' = Rising
  BY DEF Differing, Rising, callVars, Region, Span, OldByte, Sector

LEMMA CountType ==
    ASSUME NEW T \in SUBSET Addr, NEW p
    PROVE  CountBlocks(Upto(T, p)) \in Nat
  <1>1. \A a \in Addr : SectorStart[a] \in Addr
    BY FlashAssumption, GeometryAssumption DEF Addr
  <1>2. BlocksOf(Upto(T, p)) \subseteq Addr
    BY <1>1 DEF BlocksOf, Upto
  <1>3. IsFiniteSet(Addr)
    BY FlashAssumption, FS_Interval DEF Addr
  <1>4. QED BY <1>2, <1>3, FS_Subset, FS_CardinalityType DEF CountBlocks

(* What the statistics of a running patch are.                             *)
LEMMA StatsNow ==
    ASSUME ControlInv, StatsInv, op = "patch", pc # "idle"
    PROVE  /\ CountBlocks(Upto(Region, pos)) \in Nat
           /\ CountBlocks(Upto(Differing, pos)) \in Nat
           /\ CountBlocks(Upto(Rising, pos)) \in Nat
           /\ stats.total = CountBlocks(Upto(Region, pos)) + (IF pc \in InBlock THEN 1 ELSE 0)
           /\ stats.changed =
                CountBlocks(Upto(Differing, pos)) + (IF pc \in Planned THEN 1 ELSE 0)
           /\ stats.erased = CountBlocks(Upto(Rising, pos))
  <1>1. Region \subseteq Addr /\ Differing \subseteq Addr /\ Rising \subseteq Addr
    BY RunningRegion, CountedSets
  <1>2. QED BY <1>1, CountType DEF StatsInv, CountBlocks

(* A step inside a block, or between blocks, that stays at its position.   *)
LEMMA StayStats ==
    ASSUME ControlInv, StatsInv, op = "patch", pc # "idle", UNCHANGED <<callVars, pos>>,
           stats'.total = stats.total
               + (IF pc' \in InBlock THEN 1 ELSE 0) - (IF pc \in InBlock THEN 1 ELSE 0),
           stats'.changed = stats.changed
               + (IF pc' \in Planned THEN 1 ELSE 0) - (IF pc \in Planned THEN 1 ELSE 0),
           stats'.erased = stats.erased,
           pc' = "verify" => pos >= End
    PROVE  StatsInv'
  <1>1. /\ Region' = Region /\ Differing' = Differing /\ Rising' = Rising /\ pos' = pos
        /\ End' = End
    BY CountedSets DEF callVars, End
  <1>2. QED BY <1>1, StatsNow DEF StatsInv, CountBlocks

(* A step that finishes a block.                                           *)
LEMMA AdvanceStats ==
    ASSUME ControlInv, StatsInv, op = "patch", pc \in InBlock, UNCHANGED callVars,
           pos' = Wrap(se), pc' = "patch_loop",
           stats'.total = stats.total,
           stats'.changed = stats.changed - (IF pc \in Planned THEN 1 ELSE 0)
               + (IF Differing \cap Block = {} THEN 0 ELSE 1),
           stats'.erased = stats.erased + (IF Rising \cap Block = {} THEN 0 ELSE 1)
    PROVE  StatsInv'
  <1>1. /\ Region' = Region /\ Differing' = Differing /\ Rising' = Rising
    BY CountedSets
  <1>2. /\ pos \in Addr /\ Block = Sector(pos) /\ Region \cap Block # {}
        /\ Region \subseteq Addr /\ Differing \subseteq Addr /\ Rising \subseteq Addr
    BY RunningRegion, SectorInFlash, CountedSets DEF InBlock
  <1>3. pos' = SectorEnd[pos]
    BY BlockFacts DEF ControlInv, BlockInv
  <1>4. /\ CountBlocks(Upto(Region, pos')) = CountBlocks(Upto(Region, pos)) + 1
        /\ CountBlocks(Upto(Differing, pos')) =
             CountBlocks(Upto(Differing, pos)) + (IF Differing \cap Block = {} THEN 0 ELSE 1)
        /\ CountBlocks(Upto(Rising, pos')) =
             CountBlocks(Upto(Rising, pos)) + (IF Rising \cap Block = {} THEN 0 ELSE 1)
    BY <1>2, <1>3, CountOneMore
  <1>5. /\ stats'.total = CountBlocks(Upto(Region, pos'))
        /\ stats'.changed = CountBlocks(Upto(Differing, pos'))
        /\ stats'.erased = CountBlocks(Upto(Rising, pos'))
    BY <1>4, StatsNow DEF InBlock
  <1>6. pc' \notin InBlock /\ pc' \notin Planned /\ pc' # "verify"
    BY DEF InBlock, Planned
  <1>7. /\ CountBlocks(Upto(Region, pos')) \in Nat /\ CountBlocks(Upto(Differing, pos')) \in Nat
    BY <1>2, CountType
  <1>8. QED BY <1>1, <1>5, <1>6, <1>7 DEF StatsInv, CountBlocks

(* Which fields of the statistics the updates of a patch touch.            *)
Statistics == [total : Nat, changed : Nat, erased : Nat, bytes : Nat]

LEMMA StatsFields ==
    ASSUME NEW s \in Statistics, NEW k
    PROVE  /\ LET t == [s EXCEPT !.total = @ + 1]
              IN  t.total = s.total + 1 /\ t.changed = s.changed /\ t.erased = s.erased
           /\ LET t == [s EXCEPT !.changed = @ + 1]
              IN  t.total = s.total /\ t.changed = s.changed + 1 /\ t.erased = s.erased
           /\ LET t == [s EXCEPT !.bytes = @ + k]
              IN  t.total = s.total /\ t.changed = s.changed /\ t.erased = s.erased
           /\ LET t == [s EXCEPT !.erased = @ + 1, !.bytes = @ + k]
              IN  t.total = s.total /\ t.changed = s.changed /\ t.erased = s.erased + 1
  BY DEF Statistics

(* A block that the old image, or the device, shows to need nothing.       *)
LEMMA SkipStats ==
    ASSUME ControlInv, PatchInv, StatsInv, PatchSkipByOldImage \/ PatchSkipSame
    PROVE  StatsInv'
  <1>0. /\ pc = "patch_decide" /\ op = "patch" /\ UNCHANGED callVars
        /\ pos' = Wrap(se) /\ pc' = "patch_loop" /\ stats \in Statistics
    BY DEF PatchSkipByOldImage, PatchSkipSame, NextBlock, ControlInv, CallInv, PatchPc,
           TypeOK, Statistics
  <1>1. /\ pos \in Addr /\ Block = Sector(pos)
        /\ \A a \in Block : a \in Addr /\ Sector(a) = Block /\ SectorEnd[a] > pos
    <2>1. pos \in Addr /\ Block = Sector(pos)
      BY <1>0, RunningRegion DEF InBlock
    <2>2. QED BY <2>1, SectorInFlash, SameSector, GeometryAssumption
  <1>2. \A a \in Block : flash[a] = flash0[a]
    BY <1>0, <1>1 DEF PatchInv, PatchAhead
  <1>3. stats.changed \in Nat /\ stats.erased \in Nat /\ stats.total \in Nat
    BY <1>0 DEF Statistics
  <1>4. CASE PatchSkipByOldImage
    <2>1. \A a \in Block \cap Region : OldByte(a) = image[a]
      BY <1>4 DEF PatchSkipByOldImage, SkippedByOldImage, SameAsNew, OldByte
    <2>2. Differing \cap Block = {} /\ Rising \cap Block = {}
      BY <1>1, <2>1 DEF Differing, Rising
    <2>3. stats' = stats
      BY <1>4 DEF PatchSkipByOldImage
    <2>4. QED BY <1>0, <1>3, <2>2, <2>3, AdvanceStats DEF InBlock, Planned
  <1>5. CASE PatchSkipSame
    <2>1. \A a \in Block \cap Region : flash0[a] = image[a]
      BY <1>2, <1>5 DEF PatchSkipSame, SameAsNew
    <2>2. Rising \cap Block = {}
      BY <2>1 DEF Rising
    <2>3. CASE oldi = NoImage
      <3>1. Differing \cap Block = {}
        BY <2>1, <2>3 DEF Differing, OldByte
      <3>2. stats' = [stats EXCEPT !.changed = @]
        BY <1>5, <2>3 DEF PatchSkipSame
      <3>3. /\ stats'.total = stats.total /\ stats'.changed = stats.changed
            /\ stats'.erased = stats.erased
        BY <1>0, <3>2 DEF Statistics
      <3>4. QED BY <1>0, <1>3, <2>2, <3>1, <3>3, AdvanceStats DEF InBlock, Planned
    <2>4. CASE oldi # NoImage
      <3>1. Differing \cap Block # {}
        BY <1>5, <2>4 DEF PatchSkipSame, SkippedByOldImage, SameAsNew, Differing, OldByte
      <3>2. stats' = [stats EXCEPT !.changed = @ + 1]
        BY <1>5, <2>4 DEF PatchSkipSame
      <3>3. /\ stats'.total = stats.total /\ stats'.changed = stats.changed + 1
            /\ stats'.erased = stats.erased
        BY <1>0, <3>2, StatsFields
      <3>4. QED BY <1>0, <1>3, <2>2, <3>1, <3>3, AdvanceStats DEF InBlock, Planned
    <2>5. QED BY <2>3, <2>4
  <1>6. QED BY <1>4, <1>5

(* A block that has been rewritten had a bit to raise, one that has been   *)
(* programmed in place had none.                                           *)
LEMMA WriteStats ==
    ASSUME ControlInv, PatchInv, StatsInv, PatchRewrite \/ PatchProgram, pc' # "idle"
    PROVE  StatsInv'
  <1>0. /\ pc \in {"patch_rewrite", "patch_program"} /\ op = "patch" /\ UNCHANGED callVars
        /\ pos' = Wrap(se) /\ pc' = "patch_loop" /\ stats \in Statistics
    BY DEF PatchRewrite, PatchProgram, Return, NextBlock, ControlInv, CallInv, PatchPc,
           TypeOK, Statistics
  <1>1. \A a \in Block : Sector(a) = Block
    BY <1>0, RunningRegion, SameSector DEF InBlock
  <1>2. Differing \cap Block # {}
    BY <1>0 DEF PatchInv, PatchReason, Differing
  <1>3. stats.changed \in Nat /\ stats.erased \in Nat /\ stats.total \in Nat
    BY <1>0 DEF Statistics
  <1>4. CASE PatchRewrite
    <2>1. pc = "patch_rewrite" /\ stats' = [stats EXCEPT !.erased = @ + 1, !.bytes = @ + (se - sb)]
      BY <1>4 DEF PatchRewrite, Return
    <2>2. /\ stats'.total = stats.total /\ stats'.changed = stats.changed
          /\ stats'.erased = stats.erased + 1
      BY <1>0, <2>1, StatsFields
    <2>3. Rising \cap Block # {}
      BY <1>1, <2>1 DEF PatchInv, PatchReason, Rising
    <2>4. QED BY <1>0, <1>2, <1>3, <2>1, <2>2, <2>3, AdvanceStats DEF InBlock, Planned
  <1>5. CASE PatchProgram
    <2>1. pc = "patch_program" /\ \E k : stats' = [stats EXCEPT !.bytes = @ + k]
      BY <1>5 DEF PatchProgram, Return
    <2>2. /\ stats'.total = stats.total /\ stats'.changed = stats.changed
          /\ stats'.erased = stats.erased
      BY <1>0, <2>1, StatsFields
    <2>3. Rising \cap Block = {}
      BY <2>1 DEF PatchInv, PatchReason, Rising
    <2>4. QED BY <1>0, <1>2, <1>3, <2>1, <2>2, <2>3, AdvanceStats DEF InBlock, Planned
  <1>6. QED BY <1>4, <1>5

LEMMA StepsKeepStats ==
    ControlInv /\ ControlInv' /\ PatchInv /\ StatsInv /\ Step => StatsInv'
  <1> SUFFICES ASSUME ControlInv, ControlInv', PatchInv, StatsInv, Step,
                      op' = "patch", pc' # "idle"
               PROVE  StatsInv'
    BY DEF StatsInv
  <1>0. op = "patch" /\ pc # "idle" /\ UNCHANGED callVars
    BY StepEffect DEF callVars
  <1>p. pc \notin UpdatePc
    BY <1>0 DEF ControlInv, CallInv
  <1>t. /\ stats \in Statistics
        /\ stats.changed \in Nat /\ stats.erased \in Nat /\ stats.total \in Nat
    BY DEF ControlInv, TypeOK, Statistics
  <1>1. CASE flash_halt_target
    <2>1. pc = "halt" /\ pc' = "patch_loop" /\ stats' = stats /\ pos' = pos
      BY <1>0, <1>1 DEF flash_halt_target, loopVars
    <2>2. QED BY <1>0, <1>t, <2>1, StayStats DEF InBlock, Planned
  <1>2. CASE LoopDone
    <2>1. pc = "patch_loop" /\ pc' = "verify" /\ stats' = stats /\ pos' = pos /\ pos >= End
      BY <1>p, <1>2 DEF LoopDone, loopVars, UpdatePc
    <2>2. QED BY <1>0, <1>t, <2>1, StayStats DEF InBlock, Planned
  <1>3. CASE PatchSector
    <2>1. /\ pc = "patch_loop" /\ pc' = "patch_decide" /\ pos' = pos
          /\ stats' = [stats EXCEPT !.total = @ + 1]
      BY <1>3 DEF PatchSector
    <2>2. /\ stats'.total = stats.total + 1 /\ stats'.changed = stats.changed
          /\ stats'.erased = stats.erased
      BY <1>t, <2>1, StatsFields
    <2>3. QED BY <1>0, <1>t, <2>1, <2>2, StayStats DEF InBlock, Planned
  <1>4. CASE PatchSkipByOldImage \/ PatchSkipSame
    BY <1>4, SkipStats
  <1>5. CASE PatchPlan
    <2>1. /\ pc = "patch_decide" /\ pc' \in {"patch_erase", "patch_program"} /\ pos' = pos
          /\ stats' = [stats EXCEPT !.changed = @ + 1]
      BY <1>5 DEF PatchPlan
    <2>2. /\ stats'.total = stats.total /\ stats'.changed = stats.changed + 1
          /\ stats'.erased = stats.erased
      BY <1>t, <2>1, StatsFields
    <2>3. QED BY <1>0, <1>t, <2>1, <2>2, StayStats DEF InBlock, Planned
  <1>6. CASE PatchErase
    <2>1. pc = "patch_erase" /\ pc' = "patch_rewrite" /\ stats' = stats /\ pos' = pos
      BY <1>6 DEF PatchErase, Return
    <2>2. QED BY <1>0, <1>t, <2>1, StayStats DEF InBlock, Planned
  <1>7. CASE PatchRewrite \/ PatchProgram
    BY <1>7, WriteStats
  <1>8. ~(flash_halt_failed \/ NoSector \/ UpdateBuildFailed \/ PatchReadFailed \/ FinalVerify)
    BY DEF flash_halt_failed, NoSector, UpdateBuildFailed, PatchReadFailed, FinalVerify,
           VerifyResult, Abort, Return
  <1>9. ~(UpdateSector \/ UpdateBuild \/ UpdateErase \/ UpdateWrite)
    BY <1>p DEF UpdateSector, UpdateBuild, UpdateErase, UpdateWrite, UpdatePc
  <1>10. QED
    BY <1>1, <1>2, <1>3, <1>4, <1>5, <1>6, <1>7, <1>8, <1>9 DEF Step

(* A patch that starts has counted nothing.                                *)
LEMMA CallsKeepStats == ControlInv' /\ Call => StatsInv'
  <1> SUFFICES ASSUME ControlInv', Call, op' = "patch", pc' # "idle"
               PROVE  StatsInv'
    BY DEF StatsInv
  <1>1. PICK a \in CallAddr, n \in CallLen :
            \E d \in Images(a, n) : \E o \in Images(a, n) \cup {NoImage} :
                hw_flash_patch(a, n, o, d)
    <2>1. ~(hw_board_run \/ hw_board_halt \/ hw_flash_mass_erase)
      BY DEF hw_board_run, hw_board_halt, hw_flash_mass_erase, BeginControl, BeginCall
    <2>2. ~\E a \in CallAddr, n \in CallLen :
              \/ hw_flash_erase(a, n)
              \/ \E d \in Images(a, n) : \/ hw_flash_write(a, n, d) \/ hw_flash_verify(a, n, d)
                                         \/ hw_flash_update(a, n, d)
      BY DEF hw_flash_erase, hw_flash_write, hw_flash_verify, hw_flash_update, BeginCall
    <2>3. QED BY <2>1, <2>2 DEF Call
  <1>2. /\ pos' = a /\ addr' = a /\ len' = n /\ stats' = ZeroStats /\ pc' = "halt"
        /\ a \in Nat /\ n \in Nat
    BY <1>1, ParameterAssumption DEF hw_flash_patch, BeginCall, Enter, Return
  <1>3. Region' \subseteq Addr /\ \A x \in Region' : a <= x
    <2>1. RangeOk(a, n)
      BY <1>2 DEF ControlInv, CallInv
    <2>2. QED BY <1>2, <2>1, FlashAssumption DEF Region, Span, RangeOk, Addr
  <1>4. Differing' \subseteq Region' /\ Rising' \subseteq Region'
    BY DEF Differing, Rising
  <1>5. /\ CountBlocks(Upto(Region', a)) = 0 /\ CountBlocks(Upto(Differing', a)) = 0
        /\ CountBlocks(Upto(Rising', a)) = 0
    BY <1>2, <1>3, <1>4, CountNothing
  <1>6. QED BY <1>2, <1>5 DEF StatsInv, CountBlocks, ZeroStats, InBlock, Planned

LEMMA StatsAlways == Spec => []StatsInv
  <1>1. Init => StatsInv
    BY DEF Init, StatsInv
  <1>2. StatsInv /\ UNCHANGED vars => StatsInv'
    <2>1. UNCHANGED vars => UNCHANGED <<callVars, pos, pc, stats, End>>
      BY DEF vars, callVars, loopVars, End
    <2>2. UNCHANGED callVars => op' = op
      BY DEF callVars
    <2>3. QED BY <2>1, <2>2, CountedSets DEF StatsInv
  <1>3. ControlInv /\ ControlInv' /\ PatchInv /\ StatsInv /\ [Next]_vars => StatsInv'
    BY <1>2, CallsKeepStats, StepsKeepStats DEF Next
  <1>4. QED BY <1>1, <1>3, ControlAlways, PatchAlways, PTL DEF Spec

(* The statistics of a patch that returns 0 are exact, also on a backend   *)
(* whose failures are silent and for an old image that was wrong.  The     *)
(* flash must not end at the top of the address space: there addr + len    *)
(* may wrap to 0 and the loop is not entered (core/hw.c:379).              *)
THEOREM PatchStatsExact == ASSUME Base + Size < Word PROVE Spec => []StatsExact
  <1>1. Init => StatsExact
    BY DEF Init, StatsExact, Returned
  <1>2. StatsExact /\ UNCHANGED vars => StatsExact'
    BY DEF StatsExact, Returned, vars, callVars, Region, Span, BlocksOf, OldByte
  <1>3. ASSUME Call PROVE StatsExact'
    <2>1. SUFFICES ASSUME op' = "patch", pc' = "idle", rc' = 0 PROVE StatsExact'
      BY DEF StatsExact, Returned
    <2>2. ~(hw_board_run \/ hw_board_halt \/ hw_flash_mass_erase)
      BY <2>1 DEF hw_board_run, hw_board_halt, hw_flash_mass_erase, BeginControl, BeginCall
    <2>3. ~\E a \in CallAddr, n \in CallLen :
              \/ hw_flash_erase(a, n)
              \/ \E d \in Images(a, n) : \/ hw_flash_write(a, n, d) \/ hw_flash_verify(a, n, d)
                                         \/ hw_flash_update(a, n, d)
      BY <2>1 DEF hw_flash_erase, hw_flash_write, hw_flash_verify, hw_flash_update, BeginCall
    <2>4. PICK a \in CallAddr, n \in CallLen :
               \E d \in Images(a, n) : \E o \in Images(a, n) \cup {NoImage} :
                   hw_flash_patch(a, n, o, d)
      BY <1>3, <2>2, <2>3 DEF Call
    <2>5. /\ addr' = a /\ len' = n /\ n = 0 /\ stats' = ZeroStats /\ a \in Nat
      BY <2>1, <2>4, ParameterAssumption DEF hw_flash_patch, BeginCall, Enter, Return
    <2>6. Region' = {}
      BY <2>5 DEF Region, Span
    <2>7. QED BY <2>5, <2>6, FS_EmptySet DEF StatsExact, BlocksOf, ZeroStats
  <1>4. ASSUME ControlInv, PatchInv, StatsInv, Step PROVE StatsExact'
    <2>1. SUFFICES ASSUME op' = "patch", pc' = "idle", rc' = 0 PROVE StatsExact'
      BY DEF StatsExact, Returned
    <2>2. /\ pc = "verify" /\ UNCHANGED callVars /\ flash' = flash /\ op = "patch"
          /\ \A a \in Region : flash[a] = image[a]
      BY <1>4, <2>1, StepEffect DEF callVars
    <2>3. stats' = stats
      BY <1>4, <2>2
         DEF Step, flash_halt_target, flash_halt_failed, NoSector, LoopDone, UpdateSector,
             UpdateBuild, UpdateBuildFailed, UpdateErase, UpdateWrite, PatchSector,
             PatchSkipByOldImage, PatchReadFailed, PatchSkipSame, PatchPlan, PatchErase,
             PatchRewrite, PatchProgram, FinalVerify
    <2>4. pos >= addr + len
      <3>1. pos >= End
        BY <1>4, <2>2 DEF StatsInv
      <3>2. /\ addr \in Nat /\ len \in Nat /\ RangeOk(addr, len) /\ Base \in Nat /\ Size \in Nat
            /\ Word \in Nat
        BY <1>4, <2>2, FlashAssumption, ParameterAssumption DEF ControlInv, TypeOK, CallInv
      <3>3. QED BY <3>1, <3>2 DEF End, Wrap, RangeOk
    <2>5. /\ Upto(Region, pos) = Region /\ Upto(Differing, pos) = Differing
          /\ Upto(Rising, pos) = Rising
      BY <1>4, <2>2, <2>4, CountEverything, CountedSets
    <2>6. Rising = {a \in Region : ~(image[a] \subseteq flash0[a])}
      <3>1. Region \subseteq Addr
        BY <1>4, <2>2, RunningRegion
      <3>2. \A a \in Region : ~(image[a] \subseteq flash0[a]) =>
                \E b \in Region \cap Sector(a) : OldByte(b) # image[b]
        BY <1>4, <2>2, <3>1 DEF PatchInv, IdenticalBlocksUntouched
      <3>3. QED BY <3>2 DEF Rising
    <2>7. /\ stats.total = CountBlocks(Region) /\ stats.changed = CountBlocks(Differing)
          /\ stats.erased = CountBlocks(Rising)
      BY <1>4, <2>2, <2>5, StatsNow DEF InBlock, Planned
    <2>8. /\ Region' = Region
          /\ {a \in Region : OldByte(a) # image[a]}' = Differing
          /\ {a \in Region : ~(image[a] \subseteq flash0[a])}' = Rising
      <3>1. /\ addr' = addr /\ len' = len /\ image' = image /\ flash0' = flash0
            /\ oldi' = oldi
        BY <2>2 DEF callVars
      <3>2. QED BY <2>6, <3>1 DEF Differing, Region, Span, OldByte
    <2>9. \A T : BlocksOf(T)' = BlocksOf(T)
      BY DEF BlocksOf
    <2>10. QED BY <2>3, <2>7, <2>8 DEF StatsExact, CountBlocks, BlocksOf
  <1>5. ControlInv /\ PatchInv /\ StatsInv /\ StatsExact /\ [Next]_vars => StatsExact'
    BY <1>2, <1>3, <1>4 DEF Next
  <1>6. QED BY <1>1, <1>5, ControlAlways, PatchAlways, StatsAlways, PTL DEF Spec

-----------------------------------------------------------------------------
(* On a backend that does not fail, update and patch succeed.              *)

(* The write granularity hw_flash_info reports is a multiple of the one    *)
(* the backend insists on, and so are the bounds of the erase blocks, as   *)
(* on the mock (backends/mock/hw_mock.c:193, 216).                         *)
Aligned ==
    /\ WriteAlign % DevAlign = 0
    /\ \A a \in Addr : SectorStart[a] % DevAlign = 0 /\ SectorEnd[a] % DevAlign = 0

LEMMA MultipleMod ==
    ASSUME NEW D \in Nat \ {0}, NEW q \in Int
    PROVE  (D * q) % D = 0
  OBVIOUS

LEMMA ModMultiple ==
    ASSUME NEW D \in Nat \ {0}, NEW x \in Int, x % D = 0
    PROVE  \E q \in Int : x = D * q
  OBVIOUS

(* Sums and differences of multiples are multiples.                        *)
LEMMA ModSum ==
    ASSUME NEW D \in Nat \ {0}, NEW x \in Int, NEW y \in Int, x % D = 0, y % D = 0
    PROVE  (x + y) % D = 0 /\ (x - y) % D = 0
  <1>1. PICK q \in Int : x = D * q
    BY ModMultiple
  <1>2. PICK r \in Int : y = D * r
    BY ModMultiple
  <1>3. x + y = D * (q + r) /\ x - y = D * (q - r)
    BY <1>1, <1>2
  <1>4. (D * (q + r)) % D = 0 /\ (D * (q - r)) % D = 0
    BY MultipleMod
  <1>5. QED BY <1>3, <1>4

(* A multiple of a multiple is a multiple.                                 *)
LEMMA ModTransitive ==
    ASSUME NEW D \in Nat \ {0}, NEW W \in Nat \ {0}, NEW x \in Int, W % D = 0, x % W = 0
    PROVE  x % D = 0
  <1>1. PICK k \in Int : W = D * k
    BY ModMultiple
  <1>2. PICK q \in Int : x = W * q
    BY ModMultiple
  <1>3. x = D * (k * q)
    BY <1>1, <1>2
  <1>4. k * q \in Int
    OBVIOUS
  <1>5. QED BY <1>3, <1>4, MultipleMod

(* Rounding down and up gives multiples.                                   *)
LEMMA RoundDown ==
    ASSUME NEW W \in Nat \ {0}, NEW x \in Nat
    PROVE  (x - (x % W)) % W = 0
  <1>1. \E q \in Int : x - (x % W) = W * q
    OBVIOUS
  <1>2. QED BY <1>1, MultipleMod

LEMMA RoundUp ==
    ASSUME NEW W \in Nat \ {0}, NEW x \in Nat
    PROVE  (x + ((W - (x % W)) % W)) % W = 0
  OBVIOUS

(* No write of update or patch is misaligned or out of range.              *)
LEMMA WritesAccepted ==
    ASSUME Aligned, ControlInv, pc \in InBlock
    PROVE  /\ Accepts(sb, se - sb)
           /\ \A l, h \in 0 .. (se - sb) : l < h =>
                 Accepts(sb + WidenLo(l), WidenHi(h) - WidenLo(l))
  <1>0. /\ DevAlign \in Nat \ {0} /\ WriteAlign \in Nat \ {0} /\ WriteAlign % DevAlign = 0
        /\ Base \in Nat /\ Size \in Nat
    BY ParameterAssumption, FlashAssumption DEF Aligned
  <1>1. /\ sb \in Nat /\ se \in Nat /\ sb < se
        /\ sb % DevAlign = 0 /\ se % DevAlign = 0
        /\ Base <= sb /\ se <= Base + Size
    BY SectorInFlash, GeometryAssumption DEF Aligned, ControlInv, BlockInv
  <1>i. sb \in Int /\ se \in Int /\ se - sb \in Nat
    BY <1>1
  <1>2. (se - sb) % DevAlign = 0
    BY <1>0, <1>1, <1>i, ModSum, Zenon
  <1>3. ASSUME NEW lo \in Nat, NEW hi \in Nat, lo < hi, hi <= se - sb,
               lo % DevAlign = 0, hi % DevAlign = 0
        PROVE  Accepts(sb + lo, hi - lo)
    <2>1. (sb + lo) % DevAlign = 0 /\ (hi - lo) % DevAlign = 0
      <3>1. lo \in Int /\ hi \in Int
        BY <1>3
      <3>2. QED BY <1>0, <1>1, <1>i, <1>3, <3>1, ModSum, Zenon
    <2>2. RangeOk(sb + lo, hi - lo)
      BY <1>0, <1>1, <1>3 DEF RangeOk
    <2>3. QED BY <2>1, <2>2 DEF Accepts
  <1>4. 0 % DevAlign = 0
    BY <1>0
  <1>5. Accepts(sb, se - sb)
    BY <1>0, <1>1, <1>2 DEF Accepts, RangeOk
  <1>6. ASSUME NEW l \in 0 .. (se - sb), NEW h \in 0 .. (se - sb), l < h
        PROVE  Accepts(sb + WidenLo(l), WidenHi(h) - WidenLo(l))
    <2>1. /\ WidenLo(l) \in Nat /\ WidenLo(l) <= l
          /\ WidenHi(h) \in Nat /\ h <= WidenHi(h) /\ WidenHi(h) <= se - sb
      BY <1>1, WidenedSpan
    <2>2. WidenLo(l) % DevAlign = 0
      <3>1. CASE Ragged
        BY <1>4, <3>1 DEF WidenLo
      <3>2. CASE ~Ragged
        <4>1. WidenLo(l) = l - (l % WriteAlign)
          BY <3>2 DEF WidenLo
        <4>2. WidenLo(l) % WriteAlign = 0
          BY <1>0, <4>1, RoundDown
        <4>3. QED BY <1>0, <2>1, <4>2, ModTransitive
      <3>3. QED BY <3>1, <3>2
    <2>3. WidenHi(h) % DevAlign = 0
      <3>1. CASE WidenHi(h) = se - sb
        BY <1>2, <3>1
      <3>2. CASE WidenHi(h) = h + ((WriteAlign - (h % WriteAlign)) % WriteAlign)
        <4>1. WidenHi(h) % WriteAlign = 0
          <5>1. h \in Nat
            BY <1>1
          <5>2. QED BY <1>0, <3>2, <5>1, RoundUp, Zenon
        <4>2. QED BY <1>0, <2>1, <4>1, ModTransitive
      <3>3. QED BY <3>1, <3>2 DEF WidenHi
    <2>4. WidenLo(l) < WidenHi(h)
      BY <1>6, <2>1
    <2>5. QED BY <1>3, <2>1, <2>2, <2>3, <2>4
  <1>7. QED BY <1>5, <1>6

(* Faults are counted and never forgotten.                                 *)
LEMMA NoFaultYet == ControlInv /\ Next /\ faults' = 0 => faults = 0 /\ NoFault
  <1>1. SUFFICES ASSUME ControlInv, Next PROVE faults' = faults \/ faults' = faults + 1
    BY DEF ControlInv, TypeOK, NoFault
  <1>2. Fault \/ NoFault => faults' = faults \/ faults' = faults + 1
    BY DEF Fault, NoFault
  <1>3. \A S, ok : BackendErase(S, ok) => Fault \/ NoFault
    BY DEF BackendErase
  <1>4. \A a, n, d, ok : BackendWrite(a, n, d, ok) => Fault \/ NoFault
    BY DEF BackendWrite
  <1>5. \A a, n, d : VerifyResult(a, n, d) => Fault \/ NoFault
    BY DEF VerifyResult
  <1>6. CASE Call
    <2>1. hw_board_run \/ hw_board_halt \/ hw_flash_mass_erase => Fault \/ NoFault
      BY <1>3 DEF hw_board_run, hw_board_halt, hw_flash_mass_erase
    <2>2. \A a, n : hw_flash_erase(a, n) => Fault \/ NoFault
      BY <1>3 DEF hw_flash_erase
    <2>3. \A a, n, d : hw_flash_write(a, n, d) \/ hw_flash_verify(a, n, d) => Fault \/ NoFault
      BY <1>4, <1>5 DEF hw_flash_write, hw_flash_verify
    <2>4. \A a, n, d, o : hw_flash_update(a, n, d) \/ hw_flash_patch(a, n, o, d)
              => Fault \/ NoFault
      BY DEF hw_flash_update, hw_flash_patch, Enter
    <2>5. QED BY <1>2, <1>6, <2>1, <2>2, <2>3, <2>4 DEF Call
  <1>7. CASE Step
    <2>1. \/ flash_halt_target \/ flash_halt_failed \/ NoSector \/ LoopDone
          \/ UpdateSector \/ UpdateBuild \/ UpdateBuildFailed
          \/ PatchSector \/ PatchSkipByOldImage \/ PatchReadFailed \/ PatchSkipSame
          \/ PatchPlan \/ FinalVerify
          => Fault \/ NoFault
      BY <1>5
         DEF flash_halt_target, flash_halt_failed, NoSector, LoopDone, UpdateSector,
             TakeSector, UpdateBuild, UpdateBuildFailed, PatchSector, PatchSkipByOldImage,
             PatchReadFailed, PatchSkipSame, PatchPlan, FinalVerify
    <2>2. UpdateErase \/ PatchErase => Fault \/ NoFault
      BY <1>3 DEF UpdateErase, PatchErase
    <2>3. UpdateWrite \/ PatchRewrite => Fault \/ NoFault
      BY <1>4 DEF UpdateWrite, PatchRewrite
    <2>4. PatchProgram => Fault \/ NoFault
      BY <1>4 DEF PatchProgram
    <2>5. QED BY <1>2, <1>7, <2>1, <2>2, <2>3, <2>4 DEF Step
  <1>8. QED BY <1>1, <1>6, <1>7 DEF Next

(* Without a fault so far the plans and the device are as they should be,  *)
(* however the backend would report one.                                   *)
LEMMA FaultlessData == Spec => [](faults = 0 => DataInv)
  <1>1. DataInv /\ UNCHANGED vars => DataInv'
    BY DEF DataInv, WantInv, CurInv, BlankInv, RestInv, UpdatedUpToPos, vars, callVars,
           loopVars, Block, Region, Span
  <1>2. ControlInv /\ ControlInv' /\ (faults = 0 => DataInv) /\ [Next]_vars
        => (faults = 0 => DataInv)'
    <2>1. ControlInv /\ ControlInv' /\ (faults = 0 => DataInv) /\ Next => (faults' = 0 => DataInv')
      BY NoFaultYet, CallsKeepData, StepsKeepData DEF Next, Honest
    <2>2. UNCHANGED vars => faults' = faults
      BY DEF vars
    <2>3. QED BY <1>1, <2>1, <2>2
  <1>3. QED BY DataInit, <1>2, ControlAlways, PTL DEF Spec

(* A step that stores the image in its block and goes to the next one.     *)
LEMMA AdvanceProgress ==
    ASSUME ControlInv, ProgressInv, Promising, UNCHANGED callVars, pc \in InBlock,
           pos' = Wrap(se), pc' \in {"update_loop", "patch_loop"},
           \A a \in Addr : a \notin Block => flash'[a] = flash[a],
           \A a \in Block \cap Region : flash'[a] = image[a]
    PROVE  ProgressInv'
  <1>1. /\ addr' = addr /\ len' = len /\ image' = image /\ Region' = Region
    BY DEF callVars, Region, Span
  <1>2. /\ pos' = se /\ se \in Nat /\ sb \in Nat /\ pos \in Block /\ Region \subseteq Addr
    BY BlockFacts, RunningRegion DEF InBlock
  <1>3. ASSUME NEW a \in Region, a < pos' PROVE flash'[a] = image[a]
    <2>1. CASE a \in Block
      BY <1>3, <2>1
    <2>2. CASE a \notin Block
      <3>1. a \in Int /\ a < pos
        BY <1>2, <1>3, <2>2, FlashAssumption DEF Block, Addr
      <3>2. flash[a] = image[a]
        BY <1>3, <3>1 DEF ProgressInv, InBlock
      <3>3. QED BY <1>2, <1>3, <2>2, <3>2
    <2>3. QED BY <2>1, <2>2
  <1>4. QED BY <1>1, <1>3 DEF ProgressInv

LEMMA StepsKeepProgress ==
    Aligned /\ ControlInv /\ DataInv /\ PatchInv /\ ProgressInv /\ Step => ProgressInv'
  <1> SUFFICES ASSUME Aligned, ControlInv, DataInv, PatchInv, ProgressInv, Step, Promising'
               PROVE  ProgressInv'
    BY DEF ProgressInv
  <1>0. /\ pc # "idle" /\ UNCHANGED callVars /\ faults = 0 /\ NoFault /\ Honest
    BY StepEffect, NoFaultYet DEF Next, Promising, Honest
  <1>1. /\ op' = op /\ addr' = addr /\ len' = len /\ image' = image /\ oldi' = oldi
        /\ flash0' = flash0 /\ Region' = Region
    BY <1>0 DEF callVars, Region, Span
  <1>2. Promising
    BY <1>0, <1>1 DEF Promising, RangeOk, OldByte
  <1>3. /\ Region \subseteq Addr /\ image \in [Region -> Byte] /\ RangeOk(addr, len)
        /\ addr \in Nat /\ len \in Nat /\ pos \in Nat
        /\ \A a \in Region : a < pos => flash[a] = image[a]
    BY <1>0, <1>2, RunningRegion DEF ProgressInv, Promising, ControlInv, TypeOK
  <1>f. ~Fault
    BY <1>0 DEF Fault, NoFault
  <1>q. ASSUME flash' = flash, pos' = pos, pc' \notin {"idle", "verify"}
        PROVE  ProgressInv'
    BY <1>1, <1>3, <1>q DEF ProgressInv
  <1>e. \A S : ~BackendErase(S, FALSE)
    BY <1>f DEF BackendErase
  <1>w. \A a, n, d : Accepts(a, n) => ~BackendWrite(a, n, d, FALSE)
    BY <1>f DEF BackendWrite
  <1>4. CASE flash_halt_target \/ flash_halt_failed
    BY <1>f, <1>q, <1>4 DEF flash_halt_target, flash_halt_failed, loopVars
  <1>5. End = addr + len
    <2>1. addr + len - 1 \in Region
      BY <1>3 DEF RangeOk, Region, Span
    <2>2. addr + len <= SectorEnd[addr + len - 1] /\ SectorEnd[addr + len - 1] \in Nat
      BY <1>3, <2>1, GeometryAssumption
    <2>3. SectorEnd[addr + len - 1] < Word
      BY <1>2, <2>1 DEF Promising
    <2>4. QED BY <1>3, <2>2, <2>3, ParameterAssumption DEF End, Wrap
  <1>6. CASE NoSector
    <2>1. pos \in Addr /\ pos < addr + len
      BY <1>0, <1>6, LoopCondition DEF NoSector
    <2>2. pos \in Region
      BY <1>0, <1>3, <2>1 DEF Region, Span, ControlInv, PosInv
    <2>3. SectorUsable
      BY <1>2, <2>1, <2>2, GeometryAssumption DEF Promising, SectorUsable, Wrap
    <2>4. QED BY <1>f, <1>6, <2>3 DEF NoSector
  <1>7. CASE LoopDone
    BY <1>1, <1>3, <1>5, <1>7 DEF LoopDone, loopVars, ProgressInv
  <1>8. CASE UpdateSector \/ UpdateBuild \/ UpdateBuildFailed \/ PatchSector
    BY <1>f, <1>q, <1>8 DEF UpdateSector, UpdateBuild, UpdateBuildFailed, PatchSector
  <1>9. CASE UpdateErase \/ PatchErase
    <2>1. /\ BackendErase(Block, TRUE) /\ pc \in InBlock /\ pos' = pos
          /\ pc' \notin {"idle", "verify"}
      BY <1>e, <1>9 DEF UpdateErase, PatchErase, InBlock
    <2>2. \A a \in Addr : a \notin Block => flash'[a] = flash[a]
      BY <2>1, EraseEffect DEF ControlInv
    <2>3. \A a \in Region : a < pos => a \notin Block
      BY <2>1, BlockFacts
    <2>4. QED BY <1>1, <1>3, <2>1, <2>2, <2>3 DEF ProgressInv
  <1>10. CASE UpdateWrite \/ PatchRewrite
    <2>1. pc \in Blank /\ pc \in InBlock
      BY <1>10 DEF UpdateWrite, PatchRewrite, Blank, InBlock
    <2>2. ~BackendWrite(sb, se - sb, want, FALSE)
      BY <1>w, <2>1, WritesAccepted
    <2>3. /\ BackendWrite(sb, se - sb, want, TRUE) /\ pos' = Wrap(se)
          /\ pc' \in {"update_loop", "patch_loop"}
      BY <2>2, <1>10 DEF UpdateWrite, PatchRewrite, NextBlock
    <2>4. /\ \A a \in Addr : a \notin Block => flash'[a] = flash[a]
          /\ \A a \in Block : flash'[a] = want[a]
      BY <1>0, <2>1, <2>3, RewriteEffect
    <2>5. \A a \in Block \cap Region : want[a] = image[a]
      BY <2>1 DEF DataInv, WantInv, Planned, Blank
    <2>6. QED BY <1>0, <1>2, <2>1, <2>3, <2>4, <2>5, AdvanceProgress
  <1>11. CASE PatchProgram
    <2>0. pc = "patch_program"
      BY <1>11 DEF PatchProgram
    <2>1. PICK l, h \in 0 .. (se - sb), ok \in BOOLEAN :
             /\ DifferingSpan(l, h)
             /\ BackendWrite(sb + WidenLo(l), WidenHi(h) - WidenLo(l), want, ok)
             /\ ok => NextBlock
      BY <1>11 DEF PatchProgram
    <2>2. ok
      <3>1. l < h
        BY <2>1 DEF DifferingSpan
      <3>2. Accepts(sb + WidenLo(l), WidenHi(h) - WidenLo(l))
        BY <2>0, <3>1, WritesAccepted DEF InBlock
      <3>3. QED BY <1>w, <2>1, <3>2
    <2>3. /\ \A a \in Addr : a \notin Block => flash'[a] = flash[a]
          /\ \A a \in Block : flash'[a] = want[a]
      BY <1>0, <2>0, <2>1, <2>2, ProgramEffect
    <2>4. \A a \in Block \cap Region : want[a] = image[a]
      BY <2>0 DEF DataInv, WantInv, Planned
    <2>5. QED BY <1>0, <1>2, <2>0, <2>1, <2>2, <2>3, <2>4, AdvanceProgress DEF NextBlock, InBlock
  <1>12. CASE PatchSkipByOldImage \/ PatchSkipSame
    <2>1. pc = "patch_decide" /\ NextBlock /\ flash' = flash /\ op = "patch"
      BY <1>12 DEF PatchSkipByOldImage, PatchSkipSame, ControlInv, CallInv, PatchPc
    <2>2. \A a \in Block : a \in Addr /\ flash[a] = flash0[a]
      <3>1. pos \in Addr /\ Block = Sector(pos)
        BY <2>1, RunningRegion DEF InBlock
      <3>2. \A a \in Block : a \in Addr /\ SectorEnd[a] > pos
        BY <3>1, SectorInFlash, SameSector, GeometryAssumption
      <3>3. QED BY <2>1, <3>2 DEF PatchInv, PatchAhead
    <2>3. \A a \in Block \cap Region : flash[a] = image[a]
      <3>1. CASE PatchSkipByOldImage
        <4>1. \A a \in Block \cap Region : OldByte(a) = image[a]
          BY <3>1 DEF PatchSkipByOldImage, SkippedByOldImage, SameAsNew, OldByte
        <4>2. QED BY <1>2, <2>1, <2>2, <4>1 DEF Promising
      <3>2. CASE PatchSkipSame
        BY <3>2 DEF PatchSkipSame, SameAsNew
      <3>3. QED BY <1>12, <3>1, <3>2
    <2>4. QED BY <1>0, <1>2, <2>1, <2>3, AdvanceProgress DEF NextBlock, InBlock
  <1>13. CASE PatchReadFailed
    BY <1>f, <1>13 DEF PatchReadFailed
  <1>14. CASE PatchPlan
    BY <1>q, <1>14 DEF PatchPlan
  <1>15. CASE FinalVerify
    <2>1. pc = "verify" /\ VerifyResult(addr, len, image)
      BY <1>15 DEF FinalVerify
    <2>2. pos >= addr + len
      BY <1>2, <2>1 DEF ProgressInv
    <2>3. \A a \in Span(addr, len) : flash[a] = image[a]
      BY <1>3, <2>2 DEF Region, Span
    <2>4. pc' = "idle" /\ rc' = 0
      BY <1>f, <1>3, <2>1, <2>3 DEF VerifyResult, Return
    <2>5. QED BY <2>4 DEF ProgressInv
  <1>16. QED
    BY <1>4, <1>6, <1>7, <1>8, <1>9, <1>10, <1>11, <1>12, <1>13, <1>14, <1>15 DEF Step

(* A composite call with a range inside the flash is not refused.          *)
LEMMA CallsKeepProgress == ControlInv /\ Call => ProgressInv'
  <1> SUFFICES ASSUME ControlInv, Call, Promising' PROVE ProgressInv'
    BY DEF ProgressInv
  <1>f. ~Fault
    <2>1. NoFault
      BY NoFaultYet DEF Next, Promising
    <2>2. QED BY <2>1 DEF NoFault, Fault, ControlInv, TypeOK
  <1>1. ~(hw_board_run \/ hw_board_halt \/ hw_flash_mass_erase)
    BY DEF hw_board_run, hw_board_halt, hw_flash_mass_erase, BeginControl, BeginCall,
           Promising, Composite
  <1>2. ~\E a \in CallAddr, n \in CallLen :
            \/ hw_flash_erase(a, n)
            \/ \E d \in Images(a, n) : hw_flash_write(a, n, d) \/ hw_flash_verify(a, n, d)
    BY DEF hw_flash_erase, hw_flash_write, hw_flash_verify, BeginCall, Promising, Composite
  <1>3. PICK a \in CallAddr, n \in CallLen :
            \E d \in Images(a, n) :
               \/ hw_flash_update(a, n, d)
               \/ \E o \in Images(a, n) \cup {NoImage} : hw_flash_patch(a, n, o, d)
    BY <1>1, <1>2 DEF Call
  <1>4. Enter(n, a) /\ addr' = a /\ len' = n /\ pos' = a /\ a \in Nat /\ n \in Nat
    BY <1>3, ParameterAssumption DEF hw_flash_update, hw_flash_patch, BeginCall
  <1>5. RangeOk(a, n)
    BY <1>4 DEF Promising
  <1>6. pc' = "halt"
    BY <1>f, <1>4, <1>5 DEF Enter, RangeOk
  <1>7. QED BY <1>4, <1>6 DEF ProgressInv, Region, Span

(* On a backend that does not fail, hw_flash_update and hw_flash_patch     *)
(* succeed for every range inside the flash: no write they issue is        *)
(* misaligned or out of range, no block is programmed without the erase it *)
(* needs, and the loop reaches every block, wherever the region starts and *)
(* ends.                                                                   *)
THEOREM FaultlessCallsSucceed == ASSUME Aligned PROVE Spec => []SucceedsWithoutFaults
  <1>1. Init => ProgressInv
    BY DEF Init, ProgressInv, Promising, Composite
  <1>2. ProgressInv /\ UNCHANGED vars => ProgressInv'
    BY DEF ProgressInv, Promising, vars, callVars, loopVars, Region, Span, OldByte, RangeOk
  <1>3. ASSUME ControlInv, faults = 0 => DataInv, PatchInv, ProgressInv, Next
        PROVE  ProgressInv'
    <2>1. SUFFICES ASSUME Promising' PROVE ProgressInv'
      BY DEF ProgressInv
    <2>2. faults = 0
      BY <1>3, <2>1, NoFaultYet DEF Promising
    <2>3. QED BY <1>3, <2>2, CallsKeepProgress, StepsKeepProgress DEF Next
  <1>4. /\ ControlInv /\ (faults = 0 => DataInv) /\ PatchInv /\ ProgressInv /\ [Next]_vars
        => ProgressInv'
    BY <1>2, <1>3
  <1>5. ProgressInv => SucceedsWithoutFaults
    BY DEF ProgressInv, Promising, SucceedsWithoutFaults
  <1>6. QED BY <1>1, <1>4, <1>5, ControlAlways, FaultlessData, PatchAlways, PTL DEF Spec
=============================================================================
