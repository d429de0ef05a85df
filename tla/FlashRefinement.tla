--------------------------- MODULE FlashRefinement ---------------------------
(***************************************************************************)
(* FlashOps implements FlashContract: the step-by-step update and patch of *)
(* core/hw.c, seen from outside, do what include/hw.h says.                *)
(***************************************************************************)
EXTENDS FlashOps

Contract == INSTANCE FlashContract WITH
    device <- flash,
    before <- flash0,
    new <- IF op \in Composite THEN image ELSE NoBuffer,
    busy <- pc # "idle",
    result <- rc

(* Every behaviour of the flash code is one the documented contract of     *)
(* hw_flash_update and hw_flash_patch (include/hw.h:226-253) allows.       *)
ImplementsContract == Contract!CSpec
=============================================================================
