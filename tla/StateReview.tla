---------------------------- MODULE StateReview ----------------------------
(***************************************************************************)
(* The reviewed files beside a target's manifest, and the gates that hold  *)
(* a manual, the reviews and the manifest together: state_tables.py        *)
(* (--seed, --check), state_prose_candidates.py (report, --seed) with the  *)
(* scanner of state/prose.py, state_prose_sweep.py, and the part of        *)
(* state_import.py that reads the table decisions.  A person edits the     *)
(* files between commands, another issue of the manual may be put in place *)
(* or pinned, and the write of a manifest may be cut short.                *)
(*                                                                         *)
(* A register's name is <<base, number>>.  A manual is its tables in the   *)
(* order of their numbers, what its prose mentions in reading order, its   *)
(* description headings, and the vocabularies its own text gives.          *)
(***************************************************************************)
EXTENDS Integers, Sequences, Functions

CONSTANTS
    Manuals,      \* the issues of the manual
    FirstManual,  \* the one the project starts from
    Limit,        \* 512: the longest range, and the largest count, looked at
    MaxRaw,       \* 90 characters: the longest list looked at, here in names
    Decisions,    \* bound: table -> the decisions a person may make on it
    Entries       \* bound: the classes a person writes down, "" not yet

ASSUME ReviewAssumption ==
    /\ FirstManual \in Manuals
    /\ \A m \in Manuals : m.mentions \in Seq(Range(m.mentions))
    /\ Limit \in Nat /\ MaxRaw \in Nat

VARIABLES
    manual,        \* the PDF on disk
    pinned,        \* its hash is the one of sources.lock.yaml
    tables,        \* <target>.tables.yaml: table -> its decision
    crosscheck,    \* ... and crosscheck_indexes, the index tables to compare with
    reviewed,      \* <target>.prose_candidates.yaml: candidate -> class
    not_registers, \* <target>.prose.yaml: headings that are no register
    manifest,      \* the names in spec/arm/<target>.yaml
    readable,      \* ... if it can be loaded
    passed,        \* history: the commands that ended well since an edit
    word           \* history: table -> the decision a person last made on it

files == <<tables, crosscheck, reviewed, not_registers, word>>
vars == <<manual, pinned, files, manifest, readable, passed>>

UNREVIEWED == "UNREVIEWED"
(* "unfinished" is keep without the profile, which --seed does not write.  *)
DECISIONS == {"keep", "unfinished", "skip"}
VALID == {"state", "alias", "field", "block_name", "covered_family",
          "already_covered", "false_positive"}
BLOCKS == {"DWT", "ITM", "TPIU", "FPB", "NVIC", "MPU", "SCB", "SCS", "CTI", "ETM", "DCB"}
STOPWORDS == {"SEE", "RAZ", "UNKNOWN"}
NoNumber == -1

Passes(tool) == passed' = passed \cup {tool}
Fails(tool) == passed' = passed \ {tool}

-----------------------------------------------------------------------------
(* state_tables.py.                                                        *)

found == {t.id : t \in Range(manual.tables)}

(* Mutants: every table is seeded anew; a new table is skipped.            *)
SeededAnew == [t \in found |-> UNREVIEWED]
SeededSkipping == [t \in found |-> IF t \in DOMAIN tables THEN tables[t] ELSE "skip"]

(* A decision that is there is kept; tables that the manual does not have  *)
(* are left out of the file that is written.                               *)
Seeded == [t \in found |-> IF t \in DOMAIN tables THEN tables[t] ELSE UNREVIEWED]

(* Four keys are written, and crosscheck_indexes is none of them.          *)
state_tables_seed ==
    /\ pinned
    /\ tables' = Seeded /\ crosscheck' = {}
    /\ passed' = {}
    /\ UNCHANGED <<manual, pinned, reviewed, not_registers, word, manifest, readable>>

CheckHolds ==
    /\ found = DOMAIN tables
    /\ \A t \in DOMAIN tables : tables[t] # UNREVIEWED

state_tables_check ==
    /\ IF pinned /\ CheckHolds THEN Passes("check") ELSE Fails("check")
    /\ UNCHANGED <<manual, pinned, files, manifest, readable>>

-----------------------------------------------------------------------------
(* state_import.py: the decisions it goes by.  UNREVIEWED is "keep: false".*)

keep == {t \in DOMAIN tables : tables[t] \in {"keep", "unfinished"}}
Kept(t) == t.id \in keep

(* Every table found is decided on, every table kept is found, has a       *)
(* profile (a KeyError otherwise), and leaves no row-like line unparsed.   *)
ImportRuns ==
    /\ pinned /\ found \subseteq DOMAIN tables /\ keep \subseteq found
    /\ \A t \in Range(manual.tables) : Kept(t) => tables[t.id] = "keep" /\ ~t.unparsed

(* The entries of the manifest are known by table and row, in that order.  *)
entries ==
    UNION {{<<i, j>> : j \in DOMAIN manual.tables[i].names} :
              i \in {k \in DOMAIN manual.tables : Kept(manual.tables[k])}}
Name(e) == manual.tables[e[1]].names[e[2]]
Before(d, e) == d[1] < e[1] \/ (d[1] = e[1] /\ d[2] < e[2])

(* The manifest is rewritten in place.                                     *)
state_import ==
    /\ UNCHANGED <<manual, pinned, files>>
    /\ IF ImportRuns
       THEN /\ manifest' = {Name(e) : e \in entries} /\ readable' = TRUE
            /\ passed' = (passed \cap {"check"}) \cup {"import"}
       ELSE Fails("import") /\ UNCHANGED <<manifest, readable>>

(* A write that is cut short leaves the entries before the cut; nothing at *)
(* all is a file that the other tools fail to load.                        *)
ImportCutShort ==
    /\ ImportRuns
    /\ \E cut \in entries :
          LET written == {e \in entries : Before(e, cut)}
          IN  manifest' = {Name(e) : e \in written} /\ readable' = (written # {})
    /\ passed' = passed \cap {"check"}
    /\ UNCHANGED <<manual, pinned, files>>

-----------------------------------------------------------------------------
(* prose.scan.  A mention is its kind, its text (a range: <<base, first,   *)
(* last>>; a count: <<number>>; else the names), its section, its page and *)
(* the names around it; a candidate is known by the first three.           *)

(* Mutant: the same words in another section are the same candidate.       *)
CidOfText(m) == <<m.kind, m.raw>>

_cid(m) == <<m.kind, m.raw, m.sec>>

_expand(base, lo, hi) ==
    IF hi < lo \/ hi - lo > Limit THEN {} ELSE {<<base, n>> : n \in lo .. hi}

NotStop(n) == n[1] \notin STOPWORDS

names(m) ==
    CASE m.kind = "range" -> _expand(m.raw[1], m.raw[2], m.raw[3])
      [] m.kind \in {"count", "phrase"} -> {}
      [] OTHER -> {n \in Range(m.raw) : NotStop(n)}

IsCandidate(m) ==
    CASE m.kind = "range" -> m.raw[1] \notin STOPWORDS /\ names(m) # {}
      [] m.kind = "count" -> m.raw[1] \in 2 .. Limit
      [] m.kind = "phrase" -> TRUE
      [] m.kind = "comma_set" ->
            Len(SelectSeq(m.raw, NotStop)) >= 3 /\ Len(m.raw) <= MaxRaw
      [] OTHER -> names(m) # {}

(* The first mention of a candidate is the one that is kept.               *)
candidates == {i \in DOMAIN manual.mentions : IsCandidate(manual.mentions[i])}
scan ==
    LET all == candidates
    IN  {manual.mentions[i] : i \in {j \in all :
            \A k \in all : k < j => _cid(manual.mentions[k]) # _cid(manual.mentions[j])}}

-----------------------------------------------------------------------------
(* auto_classify: the first rule that applies; "" if none does.            *)

families == {n[1] : n \in manifest}
Known(n) == n[1] \in families
Vocabulary == manual.mnemonics \cup manual.fields

(* A list of operands, or a section whose title says "instruction".        *)
OperandsOnly(m) ==
    \/ m.sec.instructions
    \/ m.sec.chapter \in {"A4", "A5", "A6", "A7"} /\ m.kind \in {"range", "comma_set"}

ClassifyNames(m) ==
    CASE names(m) \subseteq manual.mnemonics -> "false_positive"
      [] names(m) \subseteq manual.fields -> "field"
      [] names(m) \subseteq Vocabulary -> "false_positive"
      [] names(m) \subseteq manifest -> "already_covered"
      [] \A n \in names(m) : Known(n) -> "covered_family"
      [] OperandsOnly(m) /\ \A n \in names(m) : ~Known(n) -> "false_positive"
      [] \A n \in names(m) : n[1] \in BLOCKS -> "block_name"
      [] OTHER -> ""

(* A mention that names nothing goes by the names around it, then by the   *)
(* words for a register file that the tool has by heart.                   *)
ClassifyContext(m) ==
    IF m.words \/ \E n \in m.context : Known(n) THEN "covered_family"
    ELSE IF m.context \subseteq Vocabulary THEN "false_positive"
    ELSE ""

auto_classify(m) ==
    IF m.page <= manual.front THEN "false_positive"
    ELSE IF names(m) # {} THEN ClassifyNames(m)
    ELSE ClassifyContext(m)

(* What is in the file goes first, also if it is nothing yet.              *)
Class(m) == IF _cid(m) \in DOMAIN reviewed THEN reviewed[_cid(m)] ELSE auto_classify(m)
unclassified == {m \in scan : Class(m) = ""}
AllValid == \A m \in scan : Class(m) \in VALID \cup {""}

(* With a manual that is not the pinned one it says SKIP and exits with 0. *)
state_prose_candidates ==
    /\ IF ~pinned \/ (readable /\ AllValid /\ unclassified = {})
       THEN Passes("prose") ELSE Fails("prose")
    /\ UNCHANGED <<manual, pinned, files, manifest, readable>>

(* setdefault: what is in the file stays, of this manual or another.       *)
state_prose_seed ==
    /\ pinned /\ readable /\ AllValid
    /\ LET new == {_cid(m) : m \in unclassified} \ DOMAIN reviewed
       IN  reviewed' = [c \in DOMAIN reviewed \cup new |->
                           IF c \in new THEN "" ELSE reviewed[c]]
    /\ passed' = {}
    /\ UNCHANGED <<manual, pinned, tables, crosscheck, not_registers, word, manifest, readable>>

-----------------------------------------------------------------------------
(* state_prose_sweep.py: description headings, up to number and to the     *)
(* block's prefix, which h.other adds or takes away.                       *)

(* Mutant: the pattern takes the whole name for the number.                *)
NothingLeft(n) == <<"", NoNumber>>

normalise(n) == <<n[1], NoNumber>>
spellings(h) == {h.name, normalise(h.name)} \cup h.other \cup {normalise(n) : n \in h.other}
known == manifest \cup {normalise(n) : n \in manifest}

unmatched ==
    {h.name : h \in {x \in manual.headings :
                        /\ x.chapter \notin {"A6", "A7"}
                        /\ spellings(x) \cap known = {}}}

SweepHolds == unmatched \subseteq not_registers

state_prose_sweep ==
    /\ IF ~pinned \/ (readable /\ SweepHolds) THEN Passes("sweep") ELSE Fails("sweep")
    /\ UNCHANGED <<manual, pinned, files, manifest, readable>>

-----------------------------------------------------------------------------
(* What a person does: decide on a table or on a candidate that is in its  *)
(* file, list the manual's indexes or a heading that is unmatched, put     *)
(* another issue in place, pin what is in place.                           *)

ReviewTable ==
    /\ \E t \in DOMAIN tables : \E d \in Decisions[t] \cap DECISIONS :
          /\ tables' = [tables EXCEPT ![t] = d]
          /\ word' = [x \in DOMAIN word \cup {t} |-> IF x = t THEN d ELSE word[x]]
    /\ passed' = {}
    /\ UNCHANGED <<manual, pinned, crosscheck, reviewed, not_registers, manifest, readable>>

ListIndexes ==
    /\ crosscheck' = {t.id : t \in {x \in Range(manual.tables) : x.index}}
    /\ passed' = {}
    /\ UNCHANGED <<manual, pinned, tables, reviewed, not_registers, word, manifest, readable>>

ReviewCandidate ==
    /\ \E c \in DOMAIN reviewed, e \in Entries : reviewed' = [reviewed EXCEPT ![c] = e]
    /\ passed' = {}
    /\ UNCHANGED <<manual, pinned, tables, crosscheck, not_registers, word, manifest, readable>>

ReviewHeading ==
    /\ \E n \in unmatched \ not_registers : not_registers' = not_registers \cup {n}
    /\ passed' = {}
    /\ UNCHANGED <<manual, pinned, tables, crosscheck, reviewed, word, manifest, readable>>

ChangeManual ==
    /\ manual' \in Manuals \ {manual}
    /\ pinned' = FALSE /\ passed' = {}
    /\ UNCHANGED <<files, manifest, readable>>

PinManual ==
    /\ ~pinned /\ pinned' = TRUE
    /\ passed' = {}
    /\ UNCHANGED <<manual, files, manifest, readable>>

Commands ==
    \/ state_tables_seed \/ state_tables_check
    \/ state_import \/ ImportCutShort
    \/ state_prose_candidates \/ state_prose_seed \/ state_prose_sweep

People ==
    \/ ReviewTable \/ ListIndexes \/ ReviewCandidate \/ ReviewHeading
    \/ ChangeManual \/ PinManual

(* A new target: nothing decided, no manifest.                             *)
Init ==
    /\ manual = FirstManual /\ pinned = TRUE
    /\ tables = <<>> /\ crosscheck = {} /\ reviewed = <<>> /\ not_registers = {}
    /\ manifest = {} /\ readable = FALSE
    /\ passed = {} /\ word = <<>>

Next == Commands \/ People

Spec == Init /\ [][Next]_vars

-----------------------------------------------------------------------------
SameWords(m, n) == m.kind = n.kind /\ m.raw = n.raw /\ m.sec = n.sec
Body(m) ==
    /\ ~OperandsOnly(m) /\ IsCandidate(m)
    /\ \A n \in Range(manual.mentions) : SameWords(m, n) => ~(n.page <= manual.front)

(* When --check, the import and both prose gates have all passed since the *)
(* last edit, everything the manual names is in the manifest or a person   *)
(* said it is not to be: the rows of every table that was not skipped by   *)
(* name (never one that is only UNREVIEWED, which the importer itself      *)
(* drops without a word), every heading outside the instruction set up to  *)
(* its spelling, and every file of registers that the body's prose ranges  *)
(* or lists name.  The gates' known holes are in Body and Vocabulary: the  *)
(* front matter (and what repeats it before the first section heading, as  *)
(* the first page counts), operand lists, over-long ranges, names that are *)
(* fields.                                                                 *)
GatesAccountForManual ==
    {"check", "import", "prose", "sweep"} \subseteq passed =>
        /\ \A t \in Range(manual.tables) :
              tables[t.id] = "skip" \/ Range(t.names) \subseteq manifest
        /\ \A h \in manual.headings :
              \/ h.chapter \in {"A6", "A7"} \/ h.name \in not_registers
              \/ \E n \in {h.name} \cup h.other : Known(n)
        /\ \A m \in Range(manual.mentions) : Body(m) =>
              \/ _cid(m) \in DOMAIN reviewed /\ reviewed[_cid(m)] \in VALID
              \/ \A n \in names(m) : Known(n) \/ n \in Vocabulary \/ n[1] \in BLOCKS

(* "Every table caption in a manual gets an explicit keep/skip decision"   *)
(* (state_tables.py:5), and "a human must decide" (:66): when --check has  *)
(* passed since the last edit, every table of the manual has the decision  *)
(* that a person last made on it, whatever issues and seeds came between.  *)
(* A decision that a seed forgot with its table does not come back, and no *)
(* seed makes one.  (That an import then runs does not follow: it refuses  *)
(* a kept table without a profile or with rows that do not parse.)         *)
CheckedMeansDecided ==
    "check" \in passed => \A t \in found : t \in DOMAIN word /\ tables[t] = word[t]

(* A manifest whose write was cut short is not vouched for: without the    *)
(* import itself, the sweep passes over it only if each heading still      *)
(* finds an entry of its array, or was listed by a person.  With a manual  *)
(* that is not the pinned one it exits with 0 and has looked at nothing.   *)
SweepSeesTornManifest ==
    pinned /\ "sweep" \in passed =>
        /\ readable
        /\ \A h \in manual.headings :
              \/ h.chapter \in {"A6", "A7"} \/ h.name \in not_registers
              \/ \E n \in manifest : n[1] \in {x[1] : x \in {h.name} \cup h.other}

(* "never clobber a reviewed decision" (state_tables.py:59) is not quite   *)
(* kept.  What a person wrote into the files goes, by a command of the     *)
(* tools, in two cases: a table's decision when --seed meets a manual      *)
(* without that table, and the list of index tables by every --seed, which *)
(* ends the comparison with the manual's own index without a word.  A      *)
(* candidate's class and a listed heading never go.                        *)
CommandsKeepDecisions ==
    [][files' # files /\ Commands =>
        /\ \A t \in DOMAIN tables :
              \/ tables[t] = UNREVIEWED
              \/ t \in DOMAIN tables' /\ tables'[t] = tables[t]
              \/ state_tables_seed /\ t \notin found
        /\ crosscheck' = crosscheck \/ state_tables_seed
        /\ \A c \in DOMAIN reviewed :
              c \in DOMAIN reviewed' /\ reviewed'[c] = reviewed[c]
        /\ not_registers \subseteq not_registers']_vars

-----------------------------------------------------------------------------
(* What each gate has seen when it has passed, and nothing changed since:  *)
(* every edit clears passed, and an import all of it but the check.        *)

TablesDecided ==
    \A t \in DOMAIN tables :
        \/ tables[t] = UNREVIEWED
        \/ t \in DOMAIN word /\ tables[t] = word[t] /\ tables[t] \in DECISIONS
ImportHolds == readable /\ manifest = {Name(e) : e \in entries}
ProseHolds == readable /\ AllValid /\ unclassified = {}

GatesInv ==
    /\ manual \in Manuals
    /\ TablesDecided
    /\ "check" \in passed => pinned /\ CheckHolds
    /\ "import" \in passed => ImportHolds
    /\ "prose" \in passed => ~pinned \/ ProseHolds
    /\ "sweep" \in passed => ~pinned \/ (readable /\ SweepHolds)

=============================================================================
