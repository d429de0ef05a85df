---------------------------- MODULE HwStateProofs ----------------------------
(***************************************************************************)
(* Proofs about HwState for every database, every number of faults and     *)
(* calls and every length of the wait for a register transfer.             *)
(***************************************************************************)
EXTENDS HwState, TLAPS

LEMMA DescFacts ==
    ASSUME NEW d \in Desc
    PROVE  /\ d.lsb \in 0 .. 1 /\ d.width \in 1 .. 2
           /\ d.regsel \in RegSel \/ d.regsel = -1
           /\ d.feature \in Features \cup {"none", "unknown"}
           /\ d.ns = "debug" /\ d.feature # "none" => d.feature = "dwt"
           /\ d.regsel # -1 => d.access = "core"
  BY StateAssumption, DatabaseAssumption DEF DescType, Features

StateInv == FeatureInv /\ TransferInv

LEMMA StateInit == Init => StateInv
  BY DEF Init, StateInv, FeatureInv, TransferInv, Features

LEMMA CallsKeepState == StateInv /\ Call => StateInv'
  <1> SUFFICES ASSUME StateInv, Call PROVE StateInv'
    OBVIOUS
  <1> USE DEF StateInv, FeatureInv, TransferInv
  <1>1. CASE hw_board_run
    BY <1>1 DEF hw_board_run, identity
  <1>2. CASE hw_board_halt
    BY <1>2 DEF hw_board_halt, identity
  <1>3. CASE hw_state_identify
    BY <1>3 DEF hw_state_identify, identity, target
  <1>4. ASSUME NEW d \in Desc, NEW f \in BOOLEAN, Begin(d, "presence", f), f => feats # NotYet
        PROVE  StateInv'
    BY <1>4 DEF Begin, identity, target
  <1>5. ASSUME NEW d \in Desc, Begin(d, "read", FALSE)
        PROVE  StateInv'
    BY <1>5 DEF Begin, identity, target
  <1>6. QED BY <1>1, <1>2, <1>3, <1>4, <1>5 DEF Call, hw_state_query, hw_state_read

LEMMA StepsKeepState == StateInv /\ (Step \/ TransferDone) => StateInv'
  <1> SUFFICES ASSUME StateInv, Step \/ TransferDone PROVE StateInv'
    OBVIOUS
  <1>f. ASSUME UNCHANGED <<target, identity>>, pc' # "presence"
        PROVE  FeatureInv'
    BY <1>f DEF StateInv, FeatureInv, target, identity
  <1>i. ASSUME UNCHANGED target, pc' = "idle"
        PROVE  TransferInv'
    BY <1>i DEF StateInv, TransferInv, target
  <1> USE DEF StateInv
  <1>1. CASE hw_state_presence
    <2>1. FeatureInv'
      BY <1>1, <1>f DEF hw_state_presence
    <2>2. TransferInv'
      BY <1>1 DEF hw_state_presence, TransferInv, target, port, query
    <2>3. QED BY <2>1, <2>2
  <1>2. CASE Read
    <2>1. FeatureInv'
      BY <1>2, <1>f DEF Read, Finish
    <2>2. CASE pc' = "idle"
      BY <1>2, <1>i, <2>1, <2>2 DEF Read
    <2>3. CASE Path(desc) = "transfer" /\ pc' = "debug_state" /\ UNCHANGED query
      BY <1>2, <2>1, <2>3 DEF Read, TransferInv, target, port, query, Path
    <2>4. QED BY <1>2, <2>2, <2>3 DEF Read, Finish
  <1>3. CASE SelectRegister
    <2>1. FeatureInv'
      BY <1>3, <1>f DEF SelectRegister, Finish
    <2>2. CASE pc' = "idle"
      BY <1>3, <1>i, <2>1, <2>2 DEF SelectRegister
    <2>3. CASE halted /\ sel' = desc.regsel /\ ready' = FALSE /\ pc' = "spin" /\ UNCHANGED query
      BY <1>3, <2>1, <2>3 DEF SelectRegister, TransferInv, target, query, Path
    <2>4. QED BY <1>3, <2>2, <2>3 DEF SelectRegister, Finish
  <1>4. CASE Spin
    <2>1. FeatureInv'
      BY <1>4, <1>f DEF Spin, Finish
    <2>2. CASE pc' = "idle"
      BY <1>4, <1>i, <2>1, <2>2 DEF Spin
    <2>3. CASE UNCHANGED <<pc, query>>
      BY <1>4, <2>1, <2>3 DEF Spin, TransferInv, target, port, query, Path
    <2>4. QED BY <1>4, <2>2, <2>3 DEF Spin, Finish
  <1>5. CASE SpinReady
    <2>1. FeatureInv'
      BY <1>5, <1>f DEF SpinReady
    <2>2. TransferInv'
      BY <1>5 DEF SpinReady, TransferInv, target, port, query, Path
    <2>3. QED BY <2>1, <2>2
  <1>6. CASE ReadDcrdr \/ TransferFailed
    BY <1>6, <1>f, <1>i DEF ReadDcrdr, TransferFailed, Finish
  <1>7. CASE TransferDone
    <2>1. FeatureInv'
      BY <1>7 DEF TransferDone, FeatureInv, target, identity, query, result
    <2>2. TransferInv'
      BY <1>7 DEF TransferDone, TransferInv, target, query, Path
    <2>3. QED BY <2>1, <2>2
  <1>8. QED BY <1>1, <1>2, <1>3, <1>4, <1>5, <1>6, <1>7 DEF Step

LEMMA StateAlways == Spec => []StateInv
  <1>1. StateInv /\ UNCHANGED vars => StateInv'
    BY DEF StateInv, FeatureInv, TransferInv, vars, target, port, identity, query, result,
           Path
  <1>2. StateInv /\ [Next]_vars => StateInv'
    BY <1>1, CallsKeepState, StepsKeepState DEF Next
  <1>3. QED BY StateInit, <1>2, PTL DEF Spec

-----------------------------------------------------------------------------
(* What a query says of the target.                                        *)

(* A step that keeps the verdict and what it is about.                     *)
LEMMA SameVerdict ==
    ASSUME VerdictsAreTrue, UNCHANGED <<has, block, desc, useFeats, presence>>
    PROVE  VerdictsAreTrue'
  BY DEF VerdictsAreTrue, Implemented

(* A feature that is confirmed is a feature of the target, and so is the   *)
(* block it pins.                                                          *)
LEMMA PresenceVerdict ==
    ASSUME StateInv, hw_state_presence
    PROVE  VerdictsAreTrue'
  <1>1. PICK p \in Presence : Verdict(p) /\ presence' = p
    BY DEF hw_state_presence
  <1>2. /\ has' = has /\ block' = block /\ desc' = desc /\ useFeats' = useFeats
        /\ pc = "presence" /\ desc \in Desc
    BY DEF hw_state_presence, target, query, StateInv, TransferInv
  <1>3. p = "DISCOVERED" => block
    BY <1>1 DEF Verdict, component_present
  <1>4. p = "DISCOVERY_ABSENT" => ~block
    BY <1>1 DEF Verdict, component_present
  <1>5. p = "CONFIG_CONFIRMED" /\ useFeats => Implemented(desc)
    <2>1. SUFFICES ASSUME p = "CONFIG_CONFIRMED", useFeats PROVE Implemented(desc)
      OBVIOUS
    <2>2. desc.feature # "none" /\ hw_state_expected(desc) = 1
      BY <1>1, <2>1 DEF Verdict, component_present
    <2>3. desc.feature \in feats /\ feats = has \ unread
      BY <1>2, <2>1, <2>2 DEF hw_state_expected, StateInv, FeatureInv
    <2>4. QED BY <1>2, <2>2, <2>3, DescFacts DEF StateInv, FeatureInv, Implemented
  <1>6. QED BY <1>1, <1>2, <1>3, <1>4, <1>5 DEF VerdictsAreTrue, Implemented

(* "its block's CoreSight ID registers identify it", "say the block is     *)
(* absent" and, for a query that was given features, "a feature or         *)
(* configuration register says it exists": these verdicts are true of the  *)
(* target whatever fails, for every database.                              *)
THEOREM VerdictsHold == Spec => []VerdictsAreTrue
  <1>1. Init => VerdictsAreTrue
    BY DEF Init, VerdictsAreTrue
  <1>2. ASSUME StateInv, VerdictsAreTrue, [Next]_vars PROVE VerdictsAreTrue'
    <2>1. CASE UNCHANGED vars
      BY <1>2, <2>1, SameVerdict DEF vars, target, query, result
    <2>2. CASE hw_board_run \/ hw_board_halt \/ hw_state_identify
      BY <1>2, <2>2, SameVerdict
         DEF hw_board_run, hw_board_halt, hw_state_identify, target, query, result
    <2>3. ASSUME NEW d, NEW where, NEW f, Begin(d, where, f) PROVE VerdictsAreTrue'
      BY <2>3 DEF Begin, VerdictsAreTrue
    <2>4. CASE hw_state_presence
      BY <1>2, <2>4, PresenceVerdict
    <2>5. CASE Read \/ SelectRegister \/ Spin \/ SpinReady \/ ReadDcrdr \/ TransferFailed
               \/ TransferDone
      BY <1>2, <2>5, SameVerdict
         DEF Read, SelectRegister, Spin, SpinReady, ReadDcrdr, TransferFailed, TransferDone,
             Finish, target, query, result
    <2>6. QED
      BY <1>2, <2>1, <2>2, <2>3, <2>4, <2>5
         DEF Next, Call, Step, hw_state_query, hw_state_read
  <1>3. StateInv /\ VerdictsAreTrue /\ [Next]_vars => VerdictsAreTrue'
    BY <1>2
  <1>4. QED BY <1>1, <1>3, StateAlways, PTL DEF Spec

(* "a feature or configuration register says it does not": a denial is     *)
(* true of the target unless it is of a feature whose register the last    *)
(* identify did not read.                                                  *)
THEOREM DenialsHold == Spec => DeniedUnlessUnread
  <1>1. ASSUME StateInv, [Next]_vars, pc = "presence", presence' = "CONFIG_DENIED",
               ~UNCHANGED vars
        PROVE  ~Implemented(desc) \/ desc.feature \in unread
    <2>1. desc \in Desc
      BY <1>1 DEF StateInv, TransferInv
    <2>2. CASE hw_state_presence
      <3>1. Verdict("CONFIG_DENIED")
        BY <1>1, <2>2 DEF hw_state_presence
      <3>2. desc.feature # "none" /\ hw_state_expected(desc) = 0
        BY <3>1 DEF Verdict, component_present
      <3>3. useFeats /\ desc.feature # "unknown" /\ desc.feature \notin feats
        BY <3>2 DEF hw_state_expected
      <3>4. feats = has \ unread
        BY <1>1, <3>3 DEF StateInv, FeatureInv
      <3>5. desc.feature \in Features
        BY <2>1, <3>2, <3>3, DescFacts
      <3>6. QED BY <3>3, <3>4, <3>5 DEF Implemented
    <2>3. CASE TransferDone
      BY <1>1, <2>3 DEF TransferDone, result, StateInv, FeatureInv
    <2>4. QED
      BY <1>1, <2>2, <2>3
         DEF Next, Call, Step, hw_board_run, hw_board_halt, hw_state_identify, hw_state_query,
             hw_state_read, Begin, Read, SelectRegister, Spin, SpinReady, ReadDcrdr,
             TransferFailed
  <1>2. QED BY <1>1, StateAlways, PTL DEF Spec, DeniedUnlessUnread

-----------------------------------------------------------------------------
(* What a read returns.                                                    *)

(* The powers of two of a field's position and width.                      *)
LEMMA Powers ==
    ASSUME NEW n \in 0 .. 3
    PROVE  2 ^ n = IF n = 0 THEN 1 ELSE IF n = 1 THEN 2 ELSE IF n = 2 THEN 4 ELSE 8
  <1>0. 2 ^ 0 = 1 /\ 2 ^ 1 = 2 /\ 2 ^ 2 = 4 /\ 2 ^ 3 = 8
    OBVIOUS
  <1>1. CASE n = 0
    BY <1>0, <1>1
  <1>2. CASE n = 1
    BY <1>0, <1>2
  <1>3. CASE n = 2
    BY <1>0, <1>3
  <1>4. CASE n = 3
    BY <1>0, <1>4
  <1>5. QED BY <1>1, <1>2, <1>3, <1>4

(* Shifting and masking DCRDR yields the one value whose bits stand at the *)
(* field's place in the register.                                          *)
LEMMA FieldIsState ==
    ASSUME NEW d \in Desc, d.access # "memory", core[d.regsel] \in CoreValue
    PROVE  StateOf(d) = Field(d, core[d.regsel])
  <1> DEFINE c == core[d.regsel]
             P == 2 ^ d.lsb
             W == 2 ^ d.width
             Q == 2 ^ (d.lsb + d.width)
             Fits(v) == \E above \in CoreValue, below \in 0 .. (P - 1) :
                            c = above * Q + v * P + below
  <1>1. d.lsb \in 0 .. 1 /\ d.width \in 1 .. 2
    BY DescFacts
  <1>2. \/ P = 1 /\ W = 2 /\ Q = 2
        \/ P = 1 /\ W = 4 /\ Q = 4
        \/ P = 2 /\ W = 2 /\ Q = 4
        \/ P = 2 /\ W = 4 /\ Q = 8
    <2>1. CASE d.lsb = 0 /\ d.width = 1
      <3>1. d.lsb + d.width = 1
        BY <2>1
      <3>2. QED BY <2>1, <3>1, Powers
    <2>2. CASE d.lsb = 0 /\ d.width = 2
      <3>1. d.lsb + d.width = 2
        BY <2>2
      <3>2. QED BY <2>2, <3>1, Powers
    <2>3. CASE d.lsb = 1 /\ d.width = 1
      <3>1. d.lsb + d.width = 2
        BY <2>3
      <3>2. QED BY <2>3, <3>1, Powers
    <2>4. CASE d.lsb = 1 /\ d.width = 2
      <3>1. d.lsb + d.width = 3
        BY <2>4
      <3>2. QED BY <2>4, <3>1, Powers
    <2>5. QED BY <1>1, <2>1, <2>2, <2>3, <2>4
  <1>3. StateOf(d) = CHOOSE v \in 0 .. (W - 1) : Fits(v)
    BY DEF StateOf
  <1>4. Field(d, c) = (c \div P) % W
    BY DEF Field
  <1>5. c \in {0, 1, 2, 3}
    BY DEF CoreValue
  <1> HIDE DEF c, P, W, Q
  <1>6. (c \div P) % W \in 0 .. (W - 1) /\ Fits((c \div P) % W)
    <2>1. CASE P = 1 /\ W = 2 /\ Q = 2
      BY <1>5, <2>1 DEF CoreValue
    <2>2. CASE P = 1 /\ W = 4 /\ Q = 4
      BY <1>5, <2>2 DEF CoreValue
    <2>3. CASE P = 2 /\ W = 2 /\ Q = 4
      BY <1>5, <2>3 DEF CoreValue
    <2>4. CASE P = 2 /\ W = 4 /\ Q = 8
      BY <1>5, <2>4 DEF CoreValue
    <2>5. QED BY <1>2, <2>1, <2>2, <2>3, <2>4
  <1>7. \A v \in 0 .. (W - 1) : Fits(v) => v = (c \div P) % W
    <2>1. CASE P = 1 /\ W = 2 /\ Q = 2
      BY <1>5, <2>1 DEF CoreValue
    <2>2. CASE P = 1 /\ W = 4 /\ Q = 4
      BY <1>5, <2>2 DEF CoreValue
    <2>3. CASE P = 2 /\ W = 2 /\ Q = 4
      BY <1>5, <2>3 DEF CoreValue
    <2>4. CASE P = 2 /\ W = 4 /\ Q = 8
      BY <1>5, <2>4 DEF CoreValue
    <2>5. QED BY <1>2, <2>1, <2>2, <2>3, <2>4
  <1> HIDE DEF Fits
  <1>8. (CHOOSE v \in 0 .. (W - 1) : Fits(v)) = (c \div P) % W
    BY <1>6, <1>7
  <1>9. QED BY <1>3, <1>4, <1>8 DEF c

(* A read that reports OK gives what the state holds: no offset was taken  *)
(* for an address, no write-only register was read, and a core register's  *)
(* value is of the transfer this read started and not of one that an       *)
(* earlier read gave up on.                                                *)
THEOREM ReadsReturnState == Spec => ValueIsState
  <1>1. ASSUME StateInv, [Next]_vars, pc # "idle", pc' = "idle", status' = "OK",
               ~UNCHANGED vars
        PROVE  /\ desc.readable /\ desc.encoding # "offset"
               /\ value' = StateOf(desc)
    <2>1. desc \in Desc
      BY <1>1 DEF StateInv, TransferInv
    <2>2. Read \/ ReadDcrdr
      BY <1>1
         DEF Next, Call, Step, hw_board_run, hw_board_halt, hw_state_identify, hw_state_query,
             hw_state_read, Begin, hw_state_presence, SelectRegister, Spin, SpinReady,
             TransferFailed, TransferDone, Finish
    <2>3. CASE Read
      <3>1. Path(desc) = "load" /\ value' = Load(desc)
        BY <1>1, <2>3 DEF Read, Finish
      <3>2. desc.readable /\ desc.encoding = "absolute" /\ desc.access = "memory"
        BY <3>1 DEF Path
      <3>3. QED BY <3>1, <3>2 DEF StateOf
    <2>4. CASE ReadDcrdr
      <3>1. /\ value' = Field(desc, dcrdr) /\ Path(desc) = "transfer"
            /\ dcrdr = core[desc.regsel]
        BY <1>1, <2>4 DEF ReadDcrdr, Finish, StateInv, TransferInv
      <3>2. desc.readable /\ desc.encoding # "offset" /\ desc.regsel # -1
        BY <3>1 DEF Path
      <3>3. desc.access # "memory" /\ desc.regsel \in RegSel
        BY <2>1, <3>2, DescFacts
      <3>4. core[desc.regsel] \in CoreValue
        BY <1>1, <3>3 DEF StateInv, TransferInv, Contents, CoreValue
      <3>5. QED BY <2>1, <3>1, <3>2, <3>3, <3>4, FieldIsState
    <2>5. QED BY <2>2, <2>3, <2>4
  <1>2. QED BY <1>1, StateAlways, PTL DEF Spec, ValueIsState
=============================================================================
