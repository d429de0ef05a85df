----------------------------- MODULE MCPySession -----------------------------
(***************************************************************************)
(* PySession over one descriptor of every kind a snapshot meets.           *)
(***************************************************************************)
EXTENDS PySession

Entry(db, name, snap, access, feature, readable) ==
    [db |-> db, name |-> name, snapshot |-> snap, access |-> access,
     feature |-> feature, readable |-> readable]

OneOfEachKind ==
    << Entry("arch", "APSR",   TRUE,  "core",   "none", TRUE),   \* SPECIAL_APSR
       Entry("arch", "VTOR",   TRUE,  "memory", "none", TRUE),
       Entry("arch", "S0",     TRUE,  "core",   "fp",   TRUE),
       Entry("arch", "APSR",   TRUE,  "core",   "none", TRUE),   \* CORE_APSR
       Entry("arch", "IAPSR",  TRUE,  "none",   "none", TRUE),   \* no DCRSR selector
       Entry("arch", "STIR",   FALSE, "memory", "none", FALSE),
       Entry("cpu",  "ITCMCR", TRUE,  "memory", "none", TRUE) >>

OneOfEachAccess == {<<"arch", "APSR">>, <<"arch", "VTOR">>}
=============================================================================
