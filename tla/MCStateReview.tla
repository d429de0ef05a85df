--------------------------- MODULE MCStateReview ---------------------------
(* Two issues of a manual.  The first has an array S of which the prose    *)
(* names members that the table does not list, CTRL, which a heading       *)
(* numbers and spells with its block, a file D that no table lists, and an *)
(* index; the second drops the index and the section that defines D, and   *)
(* adds a table whose rows do not all parse.                               *)
EXTENDS StateReview

N(base) == <<base, NoNumber>>
Table(id, names_) == [id |-> id, names |-> names_, unparsed |-> FALSE, index |-> FALSE]
IndexTable(id, names_) == [Table(id, names_) EXCEPT !.index = TRUE]
Broken(id, names_) == [Table(id, names_) EXCEPT !.unparsed = TRUE]
Sec(chapter, instructions) == [chapter |-> chapter, instructions |-> instructions]
Mention(kind, raw, sec, page) ==
    [kind |-> kind, raw |-> raw, sec |-> sec, page |-> page,
     words |-> FALSE, context |-> {}]
Heading(name, chapter, other) == [name |-> name, chapter |-> chapter, other |-> other]

Everywhere == <<
    Mention("range", <<"D", 0, 1>>, Sec("", FALSE), 1),
    Mention("range", <<"S", 0, 2>>, Sec("A2", FALSE), 2),
    Mention("range", <<"X", 0, 9>>, Sec("A2", FALSE), 2),
    Mention("comma_set", <<<<"Q", 0>>, <<"Q", 1>>, <<"Q", 2>>>>, Sec("A7", FALSE), 3),
    Mention("comma_set", <<N("DWT"), N("ITM"), N("SEE"), N("TPIU")>>, Sec("C1", FALSE), 4),
    Mention("comma_set", <<N("MRS"), N("EN"), N("MODE")>>, Sec("B3", FALSE), 4),
    Mention("instr_ref", <<N("MRS")>>, Sec("B5", FALSE), 4),
    [Mention("count", <<2>>, Sec("B1", FALSE), 4) EXCEPT !.context = {<<"S", 0>>}],
    Mention("phrase", <<>>, Sec("B1", FALSE), 4) >>

IssueA == [
    front |-> 1,
    tables |-> <<Table("B3-1", <<<<"S", 0>>, N("CTRL")>>), IndexTable("D8-2", <<N("CTRL")>>)>>,
    mentions |-> Everywhere \o <<
        Mention("range", <<"D", 0, 1>>, Sec("A2", FALSE), 2) >>,
    headings |-> {Heading(<<"FP_CTRL", 2>>, "B3", {<<"CTRL", 2>>}),
                  Heading(N("LDM"), "A7", {})},
    mnemonics |-> {N("MRS")}, fields |-> {N("EN"), N("MODE")}]

IssueB == [IssueA EXCEPT
    !.tables = <<Table("B3-1", <<<<"S", 0>>, N("CTRL")>>), Broken("B3-3", <<N("NEW")>>)>>,
    !.mentions = Everywhere]

Issues == {IssueA, IssueB}
MayDecide ==
    [t \in {"B3-1", "B3-3", "D8-2"} |->
        CASE t = "B3-1" -> {"keep", "unfinished"}
          [] t = "B3-3" -> {"keep", "skip"}
          [] t = "D8-2" -> {"skip"}]
Written == {"state", "false_postive"}

=============================================================================
