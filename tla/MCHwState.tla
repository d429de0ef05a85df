------------------------------ MODULE MCHwState ------------------------------
(***************************************************************************)
(* HwState with one descriptor of every kind the generated databases hold. *)
(***************************************************************************)
EXTENDS HwState

Entry(ns, feature, block_, access, encoding, regsel, lsb, width, readable) ==
    [ns |-> ns, feature |-> feature, block |-> block_, access |-> access,
     encoding |-> encoding, regsel |-> regsel, lsb |-> lsb, width |-> width,
     readable |-> readable]

OneOfEachKind ==
    { Entry("arch",  "none",    "unpinned", "core",   "other",    0,  0, 2, TRUE),   \* R0
      Entry("arch",  "none",    "unpinned", "core",   "other",    20, 1, 1, TRUE),   \* a packed lane
      Entry("arch",  "fp",      "unpinned", "core",   "other",    -1, 0, 2, TRUE),   \* no debug path
      Entry("arch",  "none",    "unpinned", "memory", "absolute", -1, 0, 2, TRUE),   \* VTOR
      Entry("arch",  "none",    "unpinned", "memory", "absolute", -1, 0, 2, FALSE),  \* STIR
      Entry("arch",  "fp",      "unpinned", "memory", "absolute", -1, 0, 2, TRUE),   \* FPCCR
      Entry("arch",  "mpu",     "unpinned", "memory", "absolute", -1, 0, 2, TRUE),   \* MPU_CTRL
      Entry("debug", "dwt",     "pinned",   "memory", "absolute", -1, 0, 2, TRUE),   \* DWT_COMP0
      Entry("debug", "none",    "pinned",   "memory", "absolute", -1, 0, 2, TRUE),   \* DWT_CYCCNT
      Entry("debug", "none",    "unpinned", "memory", "offset",   -1, 0, 2, TRUE),   \* CTI
      Entry("cpu",   "unknown", "unpinned", "memory", "absolute", -1, 0, 2, TRUE),
      Entry("cpu",   "none",    "unpinned", "memory", "absolute", -1, 0, 2, TRUE) }  \* ITCMCR
==============================================================================
