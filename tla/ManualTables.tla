---------------------------- MODULE ManualTables ----------------------------
(***************************************************************************)
(* Reading the register tables of a manual (tools/state/armpdf.py and      *)
(* profiles.py), the importer's balance check, and the two cross-checks of *)
(* the outcome: the manual's own register index (importer.py) and the      *)
(* CMSIS header of the part (cmsis.py, state_cmsis_diff.py).               *)
(*                                                                         *)
(* A manual is a sequence of items, the registers that its table means.    *)
(* Layout prints them the way Arm's template does, as pages of lines.  The *)
(* tools see the lines only.  A line is a record of what the patterns of   *)
(* the tools tell apart; wording and column positions are left out.        *)
(***************************************************************************)
EXTENDS Integers, Sequences, SequencesExt, FiniteSetsExt

CONSTANTS
    Manuals,   \* [profile, headed, items]: what may be in the pinned PDF
    Members,   \* registers in an array
    Headers    \* CMSIS headers: [struct, defines, forms, ids], see Struct

ASSUME TablesAssumption ==
    /\ Members \in Nat /\ Members >= 2
    /\ \A h \in Headers : \A i \in 1 .. Len(h.defines) : h.defines[i].plus \in Nat

VARIABLES
    manual,    \* the manual ...
    pages,     \* ... and its text
    page,      \* extract_tables: the page it is at
    capture,   \* ... captions decided on, lines of the kept tables
    pc,        \* "pages", "rows", "balance", "refused", "checks" or "done"
    line,      \* the profile parser: the raw line it is at
    consumed,  \* ... lines absorbed as the tail of a row above
    rejected,  \* ... lines whose name is no register's
    records,   \* ... and what it made of the rest
    missing,   \* index entries that were not imported
    header,    \* the CMSIS header of the comparison
    diff       \* ... and what it reported

vars == <<manual, pages, page, capture, pc, line, consumed, rejected, records,
          missing, header, diff>>

-----------------------------------------------------------------------------
(* The printed manual.                                                     *)

Main == "B3-4"     \* the table of the items, which the rules keep
Other == "B3-9"    \* a table the rules do not keep
Index == "D8-2"    \* the manual's index of registers, a crosscheck_indexes table
keep_ids == {Main, Index}

NoNumber == -1
Token(b, n, s) == [b |-> b, n |-> n, s |-> s]      \* base, number, trailing letter

Caption(id, form) == [k |-> "caption", id |-> id, form |-> form]
Furniture == [k |-> "furniture"]
Header == [k |-> "header"]
Footnote == [k |-> "footnote"]
Words == Token(0, NoNumber, "words")
Heading == Token(0, NoNumber, "Register")
Prose == [k |-> "prose", toks |-> <<<<Words>>>>, comma |-> FALSE]
Odd == [k |-> "odd"]                               \* an address no pattern goes with
Alone(x) == [k |-> "alone", lo |-> x]              \* an address and nothing else
At(x) == [lo |-> x, hi |-> x, open |-> FALSE, step |-> FALSE]
FromTo(x, y) == [At(x) EXCEPT !.hi = y]
From(x) == [At(x) EXCEPT !.open = TRUE]            \* "0xE000E100 -"
Row(a, name, desc) == [k |-> "row", a |-> a, name |-> name, desc |-> desc]
One(t) == [form |-> "one", from |-> t, to |-> t]
Span(b, form) ==
    [form |-> form, from |-> Token(b, 0, ""), to |-> Token(b, Members - 1, "")]
Dash == One(Token(0, NoNumber, "-"))
Names(ts, see, comma) == [k |-> "names", toks |-> ts, see |-> see, comma |-> comma]
Special(t, n) == [k |-> "special", t |-> t, sysm |-> n]

First(i) == 64 * i
End(i) == First(i) + 4 * (Members - 1)
NoDesc == << >>

(* The one or two lines of an item, printed in its style.                  *)
Lines(i, style) ==
    LET plain == Token(i, NoNumber, "")
        range == Span(i, "range")
        single == Row(At(First(i)), One(plain), NoDesc)
    IN  CASE style = "register"    -> <<single>>
          [] style = "noted"       -> <<Row(At(First(i)), One(Token(i, NoNumber, "k")), NoDesc)>>
          [] style = "range"       -> <<Row(FromTo(First(i), End(i)), range, NoDesc)>>
          [] style = "slice"       -> <<Row(FromTo(First(i), End(i)), Span(i, "slice"), NoDesc)>>
          [] style = "stepped"     -> <<Row([At(First(i)) EXCEPT !.step = TRUE],
                                            One(Token(i, NoNumber, "n")), NoDesc)>>
          [] style = "reserved"    -> <<Row(At(First(i)), Dash, NoDesc)>>
          [] style = "odd"         -> <<Odd>>
          [] style = "wrapped"     -> <<Row(From(First(i)), One(range.from), NoDesc),
                                        Row(At(End(i)), One(range.to), NoDesc)>>
          [] style = "placeholder" -> <<Row(From(First(i)), One(Token(i, NoNumber, "x")),
                                            <<range.from, range.to>>), Alone(End(i))>>
          [] style = "wrapslice"   -> <<Row(From(First(i)), Span(i, "slice"), NoDesc), Alone(End(i))>>
          [] style = "wrapreserved" -> <<Row(From(First(i)), Dash, NoDesc), Alone(End(i))>>
          [] style = "list"        -> <<Names(<<<<range.from>>, <<range.to>>>>, TRUE, FALSE)>>
          [] style = "wraplist"    -> <<Names(<<<<range.from>>>>, TRUE, TRUE),
                                        Names(<<<<range.to>>>>, FALSE, FALSE)>>
          [] style = "special"     -> <<Special(plain, i), Special(plain, i)>>

(* What the page has after a line: nothing, the rest of a description, a   *)
(* page break (with the table's header again, or without, or below the     *)
(* page's footnotes), or a reference to another table.                     *)
Gap(g, head) ==
    CASE g = "none"     -> <<<< >>>>
      [] g = "prose"    -> <<<<Prose>>>>
      [] g = "page"     -> <<<<Furniture>>, <<Caption(Main, "real"), head>>>>
      [] g = "bare"     -> <<<<Furniture>>, <<Caption(Main, "real")>>>>
      [] g = "footnote" -> <<<<Footnote, Furniture>>, <<Caption(Main, "real"), head>>>>
      [] g = "refers"   -> <<<<Caption(Other, "reference")>>>>

(* Pages put one after the other: the first of ps goes on the last page.   *)
Onto(text, ps) ==
    [text EXCEPT ![Len(text)] = @ \o Head(ps)] \o Tail(ps)

PrintItem(text, i, item, head) ==
    LET ls == Lines(i, item.style)
        begun == Onto(text, <<<<ls[1]>>>>)
    IN  IF Len(ls) = 1 THEN Onto(begun, Gap(item.after, head))
        ELSE Onto(Onto(Onto(begun, Gap(item.mid, head)), <<<<ls[2]>>>>), Gap(item.after, head))

IsReserved(style) == style \in {"reserved", "wrapreserved"}

(* The index lists a register by its name, an array by its placeholder.    *)
IndexLines(items) ==
    LET all == [i \in 1 .. Len(items) |-> [k |-> "index", b |-> i]]
    IN  SelectSeq(all, LAMBDA l : ~IsReserved(items[l.b].style))

Layout(m) ==
    LET head == IF m.headed THEN Header ELSE Prose
        front == <<<<Caption(Main, "contents"), Caption(Other, "contents")>>,
                   <<Caption(Main, "reference"), Prose, Caption(Main, "real"), head>>>>
        body == FoldLeft(LAMBDA t, i : PrintItem(t, i, m.items[i], head), front,
                         [i \in 1 .. Len(m.items) |-> i])
        back == <<Caption(Other, "real"), Header, Row(At(0), One(Token(0, 0, "")), NoDesc)>>
    IN  Onto(body, <<back>>) \o <<<<Caption(Index, "real"), Header>> \o IndexLines(m.items)>>

-----------------------------------------------------------------------------
(* extract_tables, a page at a time.                                       *)

NoCapture == [in |-> "", decisions |-> << >>, columns |-> {}, raw |-> [t \in keep_ids |-> << >>]]

(* Outside a table: contents entries and references are no captions; a     *)
(* caption is decided on once, and a kept one begins or continues a table. *)
Decide(acc, l) ==
    IF l.k # "caption" \/ l.form # "real" THEN acc
    ELSE [acc EXCEPT !.decisions = IF l.id \in Range(@) THEN @ ELSE Append(@, l.id),
                     !.in = IF l.id \in keep_ids THEN l.id ELSE ""]

(* A caption of any form with another id ends the table on this page, and  *)
(* so does a footnote.                                                     *)
EndsTable(acc, l) == (l.k = "caption" /\ l.id # acc.in) \/ l.k = "footnote"

(* _parse_table_body.  Only the first header of a table is taken out.      *)
BodyLine(acc, l) ==
    IF EndsTable(acc, l) THEN Decide([acc EXCEPT !.in = ""], l)
    ELSE IF l.k \in {"caption", "furniture"} THEN acc
    ELSE IF l.k = "header" /\ acc.in \notin acc.columns
         THEN [acc EXCEPT !.columns = @ \cup {acc.in}]
    ELSE [acc EXCEPT !.raw[acc.in] = Append(@, l)]

CaptureLine(acc, l) == IF acc.in = "" THEN Decide(acc, l) ELSE BodyLine(acc, l)

extract_tables ==
    /\ pc = "pages" /\ page <= Len(pages)
    /\ capture' = FoldLeft(CaptureLine, [capture EXCEPT !.in = ""], pages[page])
    /\ page' = page + 1
    /\ pc' = IF page' > Len(pages) THEN "rows" ELSE pc
    /\ UNCHANGED <<manual, pages, line, consumed, rejected, records, missing, header, diff>>

raw_lines == capture.raw[Main]

-----------------------------------------------------------------------------
(* parse_addr_name_type_reset.                                             *)

Addressed(l) == l.k \in {"row", "alone", "odd"}
NextLines(n) == {j \in (line + 1) .. (line + n) : j <= Len(raw_lines)}

(* The tail of a wrapped reserved range: the first address in two lines.   *)
ReservedTail(l) ==
    LET near == {j \in NextLines(2) : Addressed(raw_lines[j])}
    IN  IF l.a.open THEN {j \in near : \A k \in near : j <= k} ELSE {}

(* The tail of a wrapped range: of its two lines the loop sees the first.  *)
RangeTail(l) ==
    IF l.a.open THEN {j \in NextLines(1) : Addressed(raw_lines[j])} ELSE {}

(* _CONT_RE: a single address and a name.                                  *)
IsContinuation(l) == l.k = "row" /\ ~l.a.open /\ l.a.lo = l.a.hi /\ l.name # Dash

JoinTail(l, t) ==
    LET ended == [l EXCEPT !.a = FromTo(l.a.lo, IF t.k = "alone" THEN t.lo ELSE t.a.lo)]
    IN  IF t.k = "alone" THEN ended
        ELSE IF IsContinuation(t)
             THEN [ended EXCEPT !.name =
                      IF @.form = "one" THEN [form |-> "range", from |-> @.from, to |-> t.name.from]
                                        ELSE [@ EXCEPT !.form = "mixed"]]
        ELSE l

(* A footnote's letter is dropped from a name; a placeholder stays only if *)
(* the description repeats it, and then the base is all that is known.     *)
_clean_name(t) == [t EXCEPT !.s = ""]

Member(b, n, x) == [name |-> Token(b, n, ""), at |-> At(x)]

Expand(from, to, lo, stride) ==
    [k \in 1 .. (to.n - from.n + 1) |-> Member(from.b, from.n + k - 1, lo + (k - 1) * stride)]

(* Mutant: the stride is taken over the count.                             *)
StrideByCount(a, n) == IF n > 1 THEN (a.hi - a.lo) \div n ELSE 4

Stride(a, n) == IF n > 1 THEN (a.hi - a.lo) \div (n - 1) ELSE 4

(* expand_range, _expand_slice and _expand_placeholder: members at even    *)
(* distances, none if the address is not a closed range.                   *)
expand_range(a, from, to) ==
    IF a.open \/ from.b # to.b \/ from.n = NoNumber \/ to.n < from.n THEN << >>
    ELSE Expand(from, to, a.lo, Stride(a, to.n - from.n + 1))

Spread(a, from, to) ==
    Expand(from, to, a.lo, IF a.hi > a.lo THEN Stride(a, to.n - from.n + 1) ELSE 4)

_expand_slice(a, name) == IF a.open THEN << >> ELSE Spread(a, name.from, name.to)

_expand_placeholder(a, desc) ==
    IF a.open \/ desc = NoDesc THEN << >> ELSE Spread(a, desc[1], desc[2])

Pairs(l) ==
    LET ps == CASE l.name.form = "slice" -> _expand_slice(l.a, l.name)
                [] l.a.step -> <<[name |-> l.name.from, at |-> At(l.a.lo)]>>
                [] l.name.form = "one" /\ l.name.from.s = "x" -> _expand_placeholder(l.a, l.desc)
                [] l.name.form = "range" -> expand_range(l.a, l.name.from, l.name.to)
                [] OTHER -> << >>
    IN  IF ps # << >> THEN ps
        ELSE IF l.name.form = "one"
             THEN <<[name |-> _clean_name(l.name.from), at |-> l.a]>> ELSE << >>

Absorb(tails, ps, bad) ==
    /\ consumed' = consumed \cup tails
    /\ records' = records \o ps
    /\ rejected' = IF bad THEN rejected \cup {line} ELSE rejected

ReservedRow(l) == l.k = "row" /\ l.name = Dash /\ Absorb(ReservedTail(l), << >>, FALSE)

(* A name that still holds a separator is rejected, for the balance check. *)
RegisterRow(l) ==
    /\ l.k = "row" /\ l.name # Dash
    /\ LET tails == RangeTail(l)
           whole == IF tails = {} THEN l
                    ELSE JoinTail(l, raw_lines[CHOOSE j \in tails : TRUE])
       IN  Absorb(tails, Pairs(whole), Pairs(whole) = << >>)

parse_addr_name_type_reset ==
    /\ pc = "rows" /\ manual.profile = "addr_name_type_reset"
    /\ line <= Len(raw_lines)
    /\ LET l == raw_lines[line]
       IN  IF line \in consumed \/ l.k # "row"
           THEN UNCHANGED <<consumed, rejected, records>>
           ELSE ReservedRow(l) \/ RegisterRow(l)
    /\ line' = line + 1
    /\ UNCHANGED <<manual, pages, page, capture, pc, missing, header, diff>>

unparsed_rows ==
    rejected \cup {j \in 1 .. Len(raw_lines) : raw_lines[j].k = "odd" /\ j \notin consumed}

-----------------------------------------------------------------------------
(* The other profiles, whose rows are not balanced.                        *)

(* parse_core_register_index: a line of one cell continues the row above,  *)
(* whatever it says.  Between commas there is a name or there is nothing.  *)
JoinList(rows, l) ==
    LET above == Last(rows)
        toks == IF above.comma THEN above.toks \o l.toks
                ELSE Front(above.toks) \o <<Last(above.toks) \o Head(l.toks)>> \o Tail(l.toks)
    IN  IF l.k = "names" /\ l.see THEN Append(rows, [toks |-> l.toks, comma |-> l.comma])
        ELSE IF l.k \notin {"names", "prose"} \/ rows = << >> THEN rows
        ELSE [rows EXCEPT ![Len(rows)] = [toks |-> toks, comma |-> l.comma]]

parse_core_register_index ==
    LET rows == FoldLeft(JoinList, << >>, raw_lines)
        toks == FlattenSeq([i \in 1 .. Len(rows) |-> rows[i].toks])
        names == SelectSeq(toks, LAMBDA t : Len(t) = 1 /\ t[1] # Words)
    IN  [i \in 1 .. Len(names) |-> [name |-> names[i][1], at |-> At(0)]]

(* Read and write spellings are lines of their own: the first one counts.  *)
parse_special_register_sysm ==
    LET specials == SelectSeq(raw_lines, LAMBDA l : l.k = "special")
    IN  FoldLeft(LAMBDA rs, l : IF \E i \in 1 .. Len(rs) : rs[i].name = l.t THEN rs
                                ELSE Append(rs, [name |-> l.t, at |-> At(l.sysm)]),
                 << >>, specials)

Recorded(rows) ==
    [i \in 1 .. Len(rows) |->
        IF rows[i].k = "row" THEN [name |-> rows[i].name.from, at |-> rows[i].a]
        ELSE [name |-> Heading, at |-> From(0)]]

IsRow(l) == l.k = "row" /\ l.name # Dash
Rows == SelectSeq(raw_lines, IsRow)
Columns == Main \in capture.columns

parse_fp_common_block == Recorded(Rows)
parse_offset_type_name == Recorded(Rows)
parse_addr_type_reset_descname == Recorded(Rows)
parse_offset_value_name == IF Columns THEN Recorded(Rows) ELSE << >>

(* By columns: none without a header, and every header after it is a row.  *)
parse_addr_register_value ==
    IF ~Columns THEN << >>
    ELSE Recorded(SelectSeq(raw_lines, LAMBDA l : l.k \in {"row", "header"}))

PROFILES ==
    [core_register_index |-> parse_core_register_index,
     special_register_sysm |-> parse_special_register_sysm,
     fp_common_block |-> parse_fp_common_block,
     offset_type_name |-> parse_offset_type_name,
     addr_type_reset_descname |-> parse_addr_type_reset_descname,
     addr_register_value |-> parse_addr_register_value,
     offset_value_name |-> parse_offset_value_name]

ParseTable ==
    /\ pc = "rows" /\ manual.profile \in DOMAIN PROFILES
    /\ records' = PROFILES[manual.profile]
    /\ pc' = "checks"
    /\ UNCHANGED <<manual, pages, page, capture, line, consumed, rejected, missing, header, diff>>

(* import_target: one profile is balanced, row-like line by row-like line. *)
Balance ==
    /\ pc = "rows" /\ manual.profile = "addr_name_type_reset" /\ line > Len(raw_lines)
    /\ pc' = IF unparsed_rows # {} THEN "refused" ELSE "checks"
    /\ UNCHANGED <<manual, pages, page, capture, line, consumed, rejected, records, missing, header, diff>>

-----------------------------------------------------------------------------
(* The register index.  Numbers and placeholders are taken off a name.     *)

_index_names == {l.b : l \in {x \in Range(capture.raw[Index]) : x.k = "index"}}

IndexMissing == _index_names \ {records[i].name.b : i \in 1 .. Len(records)}

-----------------------------------------------------------------------------
(* The CMSIS header: a structure per block, fillers between its registers, *)
(* at a base that other symbols define.                                    *)

IsArray(style) == style \notin {"register", "noted", "reserved", "odd", "special"}
CountOf(style) == IF IsArray(style) THEN Members ELSE 1

(* h.forms says what the header makes of an item: words, a union as wide   *)
(* as its widest member, bytes (NVIC->IP), or nothing.  h.ids: the block   *)
(* repeats ID registers that the architecture defines once for all.  A     *)
(* filler of words follows each member and precedes the first.             *)
Struct(items, h) ==
    LET filler(words) == [sizes |-> {4}, count |-> words, reserved |-> TRUE]
        words(i) == CountOf(items[i].style)
        member(i) ==
            CASE h.forms[i] = "words" -> [sizes |-> {4}, count |-> words(i), reserved |-> FALSE]
              [] h.forms[i] = "union" -> [sizes |-> {1, 2, 4}, count |-> words(i), reserved |-> FALSE]
              [] h.forms[i] = "bytes" -> [sizes |-> {1}, count |-> 4 * words(i), reserved |-> FALSE]
              [] h.forms[i] = "none" -> filler(words(i))
        named(i) == [member(i) EXCEPT !.reserved = @ \/ IsReserved(items[i].style)]
    IN  <<filler(8)>> \o FlattenSeq([i \in 1 .. Len(items) |->
            <<named(i), filler(16 - words(i))>>])
        \o (IF h.ids THEN <<[sizes |-> {4}, count |-> 1, reserved |-> FALSE]>> ELSE << >>)

(* Mutant: a union is as large as all of its members.                      *)
FlattenSum(sizes) == FoldSet(LAMBDA x, y : x + y, 0, sizes)

(* _flatten: a union becomes a scalar of its widest member.                *)
_flatten(sizes) == Max(sizes)

(* Four passes over the #defines; a symbol is known once its own is.       *)
Bases(h) ==
    LET Known(acc, d) ==
            IF d.name \in DOMAIN acc \/ d.of \notin DOMAIN acc THEN acc
            ELSE [n \in DOMAIN acc \cup {d.name} |-> IF n = d.name THEN acc[d.of] + d.plus ELSE acc[n]]
        Pass(acc, p) == FoldLeft(Known, acc, h.defines)
    IN  FoldLeft(Pass, [n \in {""} |-> 0], <<1, 2, 3, 4>>)

(* parse_header: the running offset of the members.                        *)
HeaderAddresses(struct, base) ==
    LET Add(acc, m) ==
            LET size == _flatten(m.sizes)
                at == {base + acc.offset + k * size : k \in 0 .. (m.count - 1)}
            IN  [offset |-> acc.offset + size * m.count,
                 addrs |-> IF m.reserved THEN acc.addrs ELSE acc.addrs \cup at]
    IN  FoldLeft(Add, [offset |-> 0, addrs |-> {}], struct).addrs

(* The structures with a known base symbol; any other, or one whose base   *)
(* is not resolved, is passed over without a word.                         *)
STRUCT_BASE == [SCB |-> "SCB_BASE"]
HeaderIsRead(h) ==
    h.struct \in DOMAIN STRUCT_BASE /\ STRUCT_BASE[h.struct] \in DOMAIN Bases(h)

parse_header(h) ==
    IF ~HeaderIsRead(h) THEN {}
    ELSE HeaderAddresses(Struct(manual.items, h), Bases(h)[STRUCT_BASE[h.struct]])

(* diff_against: only an absolute encoding that is one number has an       *)
(* address.                                                                *)
Absolute == {"addr_name_type_reset", "addr_register_value", "addr_type_reset_descname"}
diff_against(cmsis) ==
    LET one(at) == manual.profile \in Absolute /\ ~at.open /\ at.lo = at.hi
        ours == {records[i].at.lo : i \in {j \in 1 .. Len(records) : one(records[j].at)}}
    IN  [only_in_cmsis |-> cmsis \ ours, only_in_manifest |-> ours \ cmsis]

CrossCheck ==
    /\ pc = "checks"
    /\ missing' = IndexMissing
    /\ \E h \in Headers : header' = h /\ diff' = diff_against(parse_header(h))
    /\ pc' = "done"
    /\ UNCHANGED <<manual, pages, page, capture, line, consumed, rejected, records>>

NoHeader == [struct |-> "", defines |-> << >>, forms |-> << >>, ids |-> FALSE]
NoDiff == [only_in_cmsis |-> {}, only_in_manifest |-> {}]

Init ==
    /\ manual \in Manuals
    /\ pages = Layout(manual)
    /\ page = 1 /\ capture = NoCapture /\ pc = "pages"
    /\ line = 1 /\ consumed = {} /\ rejected = {} /\ records = << >>
    /\ missing = {} /\ header = NoHeader /\ diff = NoDiff

Next == extract_tables \/ parse_addr_name_type_reset \/ ParseTable \/ Balance \/ CrossCheck

Spec == Init /\ [][Next]_vars

-----------------------------------------------------------------------------
(* What the manual means: the registers of its items, in order.            *)
MeantBy(i, style) ==
    CASE IsReserved(style) -> << >>
      [] style = "special" -> <<[name |-> Token(i, NoNumber, ""), at |-> At(i)]>>
      [] style \in {"list", "wraplist"} ->
            <<[name |-> Token(i, 0, ""), at |-> At(0)],
              [name |-> Token(i, Members - 1, ""), at |-> At(0)]>>
      [] IsArray(style) -> Expand(Token(i, 0, ""), Token(i, Members - 1, ""), First(i), 4)
      [] OTHER -> <<[name |-> Token(i, NoNumber, ""), at |-> At(First(i))]>>

Items == 1 .. Len(manual.items)
Meant == FlattenSeq([i \in Items |-> MeantBy(i, manual.items[i].style)])
Imported == pc \in {"checks", "done"}

(* The layouts that the tools misread.  Something stands between the two   *)
(* lines of a range; a reference to another table cuts the rest of a page  *)
(* off; ...                                                                *)
Style(i) == manual.items[i].style
TwoLines(i) == Len(Lines(i, Style(i))) = 2
Apart(i) == TwoLines(i) /\ manual.items[i].mid \notin {"none", "bare"}
Split(i) == Style(i) \in {"wrapped", "placeholder"} /\ Apart(i)

GapsBefore(i) ==
    FlattenSeq([j \in 1 .. (i - 1) |-> <<manual.items[j].mid, manual.items[j].after>>])
CutOff(i) ==
    LET gs == GapsBefore(i)
    IN  \E k \in 1 .. Len(gs) :
            gs[k] = "refers" /\ \A l \in (k + 1) .. Len(gs) : gs[l] \in {"none", "prose", "refers"}

(* ... the count of a stepped array is not in its row; a profile without a *)
(* balance check passes over what it cannot read, or all of it if it did   *)
(* not know the header; prose within or below a list joins its last name.  *)
Unread(i) ==
    \/ Style(i) = "stepped"
    \/ manual.profile # "addr_name_type_reset" /\ Style(i) = "odd"
    \/ manual.profile \in {"addr_register_value", "offset_value_name"} /\ ~manual.headed
    \/ /\ Style(i) \in {"list", "wraplist"}
       /\ "prose" \in {manual.items[i].mid, manual.items[i].after}

(* ... and where rows go by columns, the header of a later page is a row.  *)
HeadingIsRead(r) ==
    /\ r.name = Heading /\ manual.profile = "addr_register_value"
    /\ \E i \in Items : manual.items[i].after \in {"page", "footnote"}

Misread(i) == Split(i) \/ CutOff(i) \/ Unread(i)

(* "A silently dropped row is exactly what this pipeline exists to         *)
(* prevent" (importer.py:167), and "emitting it would invent a register    *)
(* that does not exist" (profiles.py:233): an import that is not refused   *)
(* has every register of the table, at its address and in its order, and   *)
(* no other, but for the items that the layouts above hide.  And only      *)
(* "row-like lines the parser did not turn into a record" (profiles.py:249)*)
(* refuse a table, an address that no pattern goes with or a slice without *)
(* the end of its range: wrapped rows, page breaks and reserved ranges do  *)
(* not.                                                                    *)
TableIsRead ==
    /\ Imported =>
          LET clear(rs) == SelectSeq(rs, LAMBDA r :
                  IF r.name.b \in Items THEN ~Misread(r.name.b) ELSE ~HeadingIsRead(r))
          IN  clear(records) = clear(Meant)
    /\ pc = "refused" => \E i \in Items :
          Style(i) = "odd" \/ (Style(i) = "wrapslice" /\ Apart(i))

(* A header has an item in a structure that the tool reads.                *)
Listed(i) == HeaderIsRead(header) /\ header.forms[i] # "none"

(* "Known, explained differences from CMSIS" (architectural-state.md:159): *)
(* the other bytes of an array of bytes, and ID registers per block.       *)
KnownDifferences ==
    LET views == {i \in Items : /\ Listed(i) /\ header.forms[i] = "bytes"
                                /\ ~IsReserved(Style(i))}
        bytes(i) == {k \in 1 .. (4 * CountOf(Style(i))) : k % 4 # 0}
        ids == IF HeaderIsRead(header) /\ header.ids THEN {First(Len(manual.items) + 1)} ELSE {}
    IN  UNION {{First(i) + k : k \in bytes(i)} : i \in views} \cup ids

(* "so that a disagreement between the two becomes visible" (cmsis.py:5):  *)
(* a register that the import lost is reported by the index if nothing of  *)
(* its name was read, and by the comparison with a CMSIS header that has   *)
(* it; beyond that only the known differences are, the later members of a  *)
(* runtime-sized array among the lost.  A structure that the tool passes   *)
(* over hides every loss: what was read of it is then reported as missing  *)
(* from the header.  And no table is lost as a whole: every caption comes  *)
(* out of the walk once for a person to decide on (state_tables.py:6).     *)
EveryLossIsReported ==
    LET meant == Range(Meant)
        names == {records[i].name.b : i \in 1 .. Len(records)}
        \* the entry of a stepped array is its first member
        base(r) == /\ Style(r.name.b) = "stepped" /\ r.name.b \in names
                   /\ r.at.lo = First(r.name.b)
        read == {r \in meant : r \in Range(records) \/ base(r)}
        places(rs) == {r.at.lo : r \in rs}
    IN  /\ pc # "pages" => /\ Range(capture.decisions) = {Main, Other, Index}
                            /\ Len(capture.decisions) = 3
        /\ pc = "done" =>
            /\ missing = {r.name.b : r \in meant} \ names
            /\ manual.profile \in Absolute =>
                  /\ diff.only_in_cmsis =
                        places({r \in meant \ read : Listed(r.name.b)}) \cup KnownDifferences
                  /\ diff.only_in_manifest = places({r \in read : ~Listed(r.name.b)})
=============================================================================
