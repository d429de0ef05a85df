--------------------------- MODULE MCManualTables ---------------------------
(***************************************************************************)
(* Tables of three items: the first in every style with every gap after    *)
(* and within it, the second in every style and split in every way, and a  *)
(* plain register that shows what was swallowed.                           *)
(***************************************************************************)
EXTENDS ManualTables

Gaps == {"none", "prose", "page", "bare", "footnote", "refers"}

Item(style, mid, after) == [style |-> style, mid |-> mid, after |-> after]
OneLine(styles, after) == {Item(s, "none", g) : s \in styles, g \in after}
Wrapped(styles, mid, after) == {Item(s, m, g) : s \in styles, m \in mid, g \in after}

Tables3(profile, gaps, one, two) ==
    LET some(after) == OneLine(one, after) \cup Wrapped(two, gaps \ {"refers"}, after)
        plain == Item(CHOOSE s \in one : s \in {"register", "list"}, "none", "none")
    IN  {[profile |-> profile, headed |-> TRUE, items |-> <<x, y, plain>>] :
            x \in some(gaps), y \in some({"none"})}

AddrTables ==
    Tables3("addr_name_type_reset", Gaps,
            {"register", "noted", "range", "slice", "stepped", "reserved", "odd"},
            {"wrapped", "placeholder", "wrapslice", "wrapreserved"})

(* The other profiles read plain rows, lists and pairs of spellings.       *)
PlainTables ==
    UNION {{[t EXCEPT !.headed = h] : t \in Tables3(p, Gaps, {"register", "odd"}, {}), h \in BOOLEAN} :
              p \in {"addr_register_value", "offset_value_name"}}
    \cup UNION {Tables3(p, Gaps, {"register", "reserved", "odd"}, {}) :
              p \in {"fp_common_block", "offset_type_name", "addr_type_reset_descname"}}

ListTables == Tables3("core_register_index", Gaps \ {"refers"}, {"list"}, {"wraplist"})
SpecialTables ==
    {[profile |-> "special_register_sysm", headed |-> TRUE,
      items |-> <<x, Item("special", "none", "none")>>] : x \in Wrapped({"special"}, Gaps, Gaps)}

AllManuals == AddrTables \cup PlainTables \cup ListTables \cup SpecialTables

(* A chain of n symbols, each defined before the one it needs: the tool    *)
(* resolves up to four.                                                    *)
Symbols == <<"SCB_BASE", "SCS_BASE", "PPB_BASE", "SYS_BASE", "MEM_BASE">>
Chain(n) ==
    [i \in 1 .. n |-> [name |-> Symbols[i], of |-> IF i = n THEN "" ELSE Symbols[i + 1],
                        plus |-> CASE i = 2 -> 12 [] i = n -> 20 [] OTHER -> 0]]

HeaderOf(struct, n, forms, ids) ==
    [struct |-> struct, defines |-> Chain(n), forms |-> forms, ids |-> ids]

(* Headers that have all of the table, views and ID registers of their     *)
(* own, or one item only, and two whose structure is passed over.          *)
AllHeaders ==
    {HeaderOf("SCB", 4, <<"union", "words", "union">>, FALSE),
     HeaderOf("SCB", 3, <<"bytes", "union", "words">>, TRUE),
     HeaderOf("SCB", 3, <<"none", "words", "none">>, FALSE),
     HeaderOf("DCB", 3, <<"words", "words", "words">>, TRUE),
     HeaderOf("SCB", 5, <<"words", "words", "words">>, FALSE)}
=============================================================================
