--------------------------- MODULE MCStatePipeline ---------------------------
(***************************************************************************)
(* StatePipeline with tables of the kinds the repository's rules have, and *)
(* every manual with up to two rows in a table, from rows that repeat,     *)
(* reserve, alias and respell registers.                                   *)
(***************************************************************************)
EXTENDS StatePipeline, TLC

Sorted ==
    [t \in Target |-> IF t = "arch" THEN <<"B2-1", "B3-11", "B3-4", "C1-21">>
                                    ELSE <<"10-4", "4-1">>]

RuleOf(ns, comp, feature, class, kind) ==
    [ns |-> ns, comp |-> comp, feature |-> feature, class |-> class, kind |-> kind]

Rules ==
    ("B2-1" :> RuleOf("arch", "CACHE", "", "non_state_operation", "absolute"))
    @@ ("B3-4" :> RuleOf("arch", "SCB", "", "", "absolute"))
    @@ ("B3-11" :> RuleOf("arch", "SCB", "MPU", "", "absolute"))
    @@ ("C1-21" :> RuleOf("debug", "DWT", "", "", "absolute"))
    @@ ("10-4" :> RuleOf("debug", "DWT", "", "", "absolute"))
    @@ ("4-1" :> RuleOf("auto", "SCS", "", "", "absolute"))

ArchOverrides ==
    ("MMFSR" :> [class |-> "alias", feature |-> "", alias |-> "CFSR",
                  addr |-> "ED28"])
    @@ ("STIR" :> [class |-> "non_state_operation", feature |-> "", alias |-> "",
                   addr |-> ""])

CpuOverrides ==
    "ACTLR" :> [class |-> "emitted_state", feature |-> "IMPDEF", alias |-> "",
                addr |-> ""]

Overrides == [t \in Target |-> IF t = "arch" THEN ArchOverrides ELSE CpuOverrides]

DeclaredNames == [t \in Target |-> IF t = "arch" THEN <<"MMFSR">> ELSE << >>]

FileEntry(name, class, alias, snap) ==
    [name |-> name, ns |-> "arch", comp |-> "FPREGS", class |-> class, enc |-> "",
     kind |-> "core", feature |-> "FP_EXTENSION", snapshot |-> snap, alias |-> alias,
     table |-> "", via |-> "register_file"]

FpFiles ==
    [t \in Target |->
        IF t = "cpu" THEN << >>
        ELSE <<FileEntry("S0", "conditional_state", "", TRUE),
               FileEntry("D0", "alias", "S0", FALSE)>>]

Row(name, addr, readable) ==
    [name |-> name, reserved |-> FALSE, addr |-> addr, readable |-> readable]
Reserved(name, addr) ==
    [name |-> name, reserved |-> TRUE, addr |-> addr, readable |-> FALSE]

Rows ==
    ("B3-4" :> {Row("CFSR", "ED28", TRUE), Row("SYST_CSR", "E010", TRUE), Reserved("RESERVED_E020", "E020")})
    @@ ("B3-11" :> {Row("CFSR", "ED28", TRUE), Row("STIR", "EF00", FALSE)})
    @@ ("4-1" :> {Row("CFSR", "ED28", TRUE), Row("STCSR", "E010", TRUE),
                  Row("ACTLR", "E008", TRUE)})

UpTo(n, S) == UNION {[1 .. k -> S] : k \in 0 .. n}

(* Tables that are the same in every issue: cache operations, and the      *)
(* debug registers that both manuals list.                                 *)
Dwt == <<Row("DWT_CTRL", "1000", TRUE)>>
FixedTables == ("B2-1" :> <<Row("ICIALLU", "EF50", FALSE)>>) @@ ("C1-21" :> Dwt)

Good(t, rows) == [rows |-> rows, undecided |-> FALSE, unparsed |-> {}]

(* Manuals that import, and three that do not: a table nobody reviewed, a  *)
(* keep table that is not there, and rows that no profile parses.          *)
ArchManuals ==
    {Good("arch", FixedTables @@ ("B3-4" :> a) @@ ("B3-11" :> b)) :
        a \in UpTo(2, Rows["B3-4"]), b \in UpTo(1, Rows["B3-11"])}
    \cup {Good("arch", FixedTables @@ ("B3-4" :> <<Row("ACTLR", "E008", TRUE)>>) @@ ("B3-11" :> << >>))}
    \cup {[rows |-> FixedTables @@ ("B3-4" :> << >>) @@ ("B3-11" :> << >>),
           undecided |-> TRUE, unparsed |-> {}],
          [rows |-> FixedTables @@ ("B3-4" :> << >>), undecided |-> FALSE, unparsed |-> {}],
          [rows |-> FixedTables @@ ("B3-4" :> << >>) @@ ("B3-11" :> << >>),
           undecided |-> FALSE, unparsed |-> {"B3-11"}]}

CpuManuals == {Good("cpu", ("10-4" :> Dwt) @@ ("4-1" :> a)) : a \in UpTo(2, Rows["4-1"])}

AllManuals == [t \in Target |-> IF t = "arch" THEN ArchManuals ELSE CpuManuals]
=============================================================================
