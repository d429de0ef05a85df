---------------------------- MODULE StatePipeline ----------------------------
(***************************************************************************)
(* tools/state: from a pinned manual to a manifest (state_import.py), from *)
(* the manifest to the generated .def (state_gen.py), and the comparison   *)
(* of a manifest with a fresh import (state_source_diff.py).               *)
(*                                                                         *)
(* "arch" is the architecture manual; "cpu" is the TRM of a part, imported *)
(* on top of the architecture's manifest: what the architecture already    *)
(* accounts for, by name or by address, is not the part's own state.       *)
(* A manual is what the extraction gives for its reviewed tables: rows in  *)
(* order.  Text, layout and page numbers are left out.                     *)
(***************************************************************************)
EXTENDS Integers, Sequences

CONSTANTS
    Tables,       \* the keep tables of a target's rules, in sorted order
    Rule,         \* per table: namespace, component, feature, classification, kind
    Override,     \* target -> name -> [class, feature, alias, addr], its classify rules
    Declares,     \* target -> the names its classify rules declare, in their order
    Files,        \* target -> entries of the register files declared in prose
    Manuals,      \* target -> the manuals it may be pinned to
    MaxCommands   \* bound: commands the developer runs

Target == {"arch", "cpu"}
Classification == {"emitted_state", "conditional_state", "alias",
                   "architecture_defined", "explicit_exclusion",
                   "non_state_operation"}
Emitting == {"emitted_state", "conditional_state"}

(* A row of a register table.  A reserved row is named for its address.    *)
RowType == [name : STRING, reserved : BOOLEAN, addr : STRING, readable : BOOLEAN]

(* A StateEntry.                                                           *)
EntryType ==
    [name : STRING, ns : {"arch", "debug", "cpu"}, comp : STRING, class : Classification,
     enc : STRING, kind : STRING, feature : STRING, snapshot : BOOLEAN, alias : STRING,
     table : STRING, via : {"table", "declared", "register_file"}]

ASSUME PipelineAssumption ==
    /\ \A t \in Target : Tables[t] \in Seq(DOMAIN Rule)
    \* what belongs to the part is decided row by row, never for a whole table
    /\ \A x \in DOMAIN Rule : Rule[x].ns \in {"arch", "debug", "auto"}
    \* every keep table names its component
    /\ \A x \in DOMAIN Rule : Rule[x].comp # ""
    /\ \A t \in Target : \A n \in DOMAIN Override[t] : Override[t][n].class \in Classification
    /\ \A t \in Target : Declares[t] \in Seq(DOMAIN Override[t])
    /\ \A t \in Target : Files[t] \in Seq(EntryType)
    /\ \A t \in Target : \A i \in 1 .. Len(Files[t]) :
          /\ Files[t][i].ns = "arch" /\ Files[t][i].via = "register_file"
          \* the FP registers are a component of their own
          /\ Files[t][i].comp # ""
          /\ \A x \in DOMAIN Rule : Files[t][i].comp # Rule[x].comp
    \* a declared register is a view of one that a table lists
    /\ \A t \in Target : \A i \in 1 .. Len(Declares[t]) :
          Override[t][Declares[t][i]].class \notin Emitting
    /\ \A t \in Target : \A m \in Manuals[t] :
          /\ DOMAIN m.rows \subseteq DOMAIN Rule
          /\ \A x \in DOMAIN m.rows : m.rows[x] \in Seq(RowType)
    /\ MaxCommands \in Nat

VARIABLES
    manual,    \* the manual on disk for every target
    pinned,    \* ... and whether its hash is the one in sources.lock.yaml
    manifest,  \* spec/arm/<target>.yaml, NoManifest before the first import
    def,       \* generated/<target>.def
    pc,        \* the step of the running import; "idle" between commands
    cmd,       \* "import" or "diff"
    tgt,       \* its target
    base,      \* names and absolute addresses of the architecture's manifest
    at,        \* position of the keep table being read in Tables[tgt]
    row,       \* position of the record, or of the prose entry, being added
    entries,   \* the manifest being built
    seen,      \* keys of the entries so far
    report,    \* what the last diff reported: ids added, removed or changed
    commands

files == <<manual, pinned>>
outputs == <<manifest, def>>
work == <<cmd, tgt, base, at, row, entries, seen>>
vars == <<files, outputs, pc, work, report, commands>>

NoBase == [names |-> {}, addrs |-> {}]
NoManifest == [written |-> FALSE, entries |-> << >>, of |-> << >>, base |-> NoBase]
NoReport == {"no report"}

-----------------------------------------------------------------------------
(* Entries, for a target t imported on the base b.                         *)

(* StateEntry.state_id: namespace, component and name.  A bare name, which *)
(* the later passes use as a key, is never equal to one.                   *)
StateId(e) == <<e.ns, e.comp, e.name>>
BareName(n) == <<"", "", n>>

Excluded(x, r) ==
    [name |-> r.name, ns |-> "arch", comp |-> "", class |-> "explicit_exclusion",
     enc |-> r.addr, kind |-> "absolute", feature |-> "", snapshot |-> FALSE,
     alias |-> "", table |-> x, via |-> "table"]

(* Mutant: only names are compared.                                        *)
ArchitecturalByName(b, x, r) == Rule[x].ns = "auto" /\ r.name \in b.names

(* An overlay row that the architecture accounts for: by name, or at the   *)
(* same address under another name.                                        *)
Architectural(b, x, r) ==
    Rule[x].ns = "auto" /\ (r.name \in b.names \/ r.addr \in b.addrs)

Namespace(b, x, r) ==
    IF Rule[x].ns # "auto" THEN Rule[x].ns
    ELSE IF Architectural(b, x, r) THEN "arch" ELSE "cpu"

(* The table's rule, then the name's override decide; what is left of      *)
(* emitted state becomes conditional if it requires a feature.             *)
Overridden(t, n) == n \in DOMAIN Override[t]

Feature(t, x, n) ==
    IF Overridden(t, n) /\ Override[t][n].feature # "" THEN Override[t][n].feature
    ELSE Rule[x].feature

ClassOf(t, b, x, r) ==
    LET c == IF Overridden(t, r.name) THEN Override[t][r.name].class
             ELSE IF Rule[x].class # "" THEN Rule[x].class
             ELSE IF Architectural(b, x, r) THEN "architecture_defined"
             ELSE "emitted_state"
    IN  IF c = "emitted_state" /\ Feature(t, x, r.name) # "" THEN "conditional_state" ELSE c

IsSnapshot(c, r, ns) == c \in Emitting /\ r.readable /\ ns \in {"arch", "cpu"}

Entry(t, b, x, r) ==
    LET ns == Namespace(b, x, r)
        c == ClassOf(t, b, x, r)
    IN  [name |-> r.name, ns |-> ns, comp |-> Rule[x].comp, class |-> c,
         enc |-> r.addr, kind |-> Rule[x].kind, feature |-> Feature(t, x, r.name),
         snapshot |-> IsSnapshot(c, r, ns),
         alias |-> IF Overridden(t, r.name) THEN Override[t][r.name].alias ELSE "",
         table |-> x, via |-> "table"]

(* A repeat of an entry is recorded as an alias of the first one.          *)
Repeat(e) == [e EXCEPT !.class = "alias", !.alias = e.name]

(* Registers the manual documents outside any table: the overrides that    *)
(* declare one, then the register files.                                   *)
DeclaredEntry(t, n) ==
    [name |-> n, ns |-> "arch", comp |-> "", class |-> Override[t][n].class,
     enc |-> Override[t][n].addr, kind |-> "absolute", feature |-> "", snapshot |-> FALSE,
     alias |-> Override[t][n].alias, table |-> "", via |-> "declared"]

Prose(t) ==
    [i \in 1 .. Len(Declares[t]) |-> DeclaredEntry(t, Declares[t][i])] \o Files[t]

-----------------------------------------------------------------------------
(* import_target.                                                          *)

Start(c, t, b) ==
    /\ pc = "idle"
    /\ commands < MaxCommands /\ commands' = commands + 1
    /\ cmd' = c /\ tgt' = t /\ base' = b
    /\ at' = 1 /\ row' = 1
    /\ entries' = << >> /\ seen' = {}
    /\ report' = NoReport
    /\ UNCHANGED <<files, outputs>>

(* Source.verify, then every table found needs a reviewed decision.        *)
Begin(c, t, b) ==
    \/ pinned[t] /\ ~manual[t].undecided /\ Start(c, t, b) /\ pc' = "tables"
    \/ ~(pinned[t] /\ ~manual[t].undecided) /\ Start(c, t, b) /\ pc' = "idle"

(* What an overlay is given of the architecture's manifest.                *)
EntryNames(es) == {es[i].name : i \in 1 .. Len(es)}
EntryAddrs(es) ==
    {es[i].enc : i \in {j \in 1 .. Len(es) : es[j].kind = "absolute" /\ es[j].enc # ""}}
BaseOf(es) == [names |-> EntryNames(es), addrs |-> EntryAddrs(es)]

state_import(t) ==
    Begin("import", t, IF t = "cpu" THEN BaseOf(manifest["arch"].entries) ELSE NoBase)

(* A mutant of the next: the names of the architecture are forgotten too.  *)
DiffBaseNothing(t) == NoBase

(* state_source_diff hands import_target the names and not the addresses.  *)
DiffBase(t) ==
    [names |-> IF t = "cpu" THEN EntryNames(manifest["arch"].entries) ELSE {},
     addrs |-> {}]

state_source_diff(t) ==
    /\ manifest[t].written
    /\ t = "cpu" => manifest["arch"].written
    /\ Begin("diff", t, DiffBase(t))

(* Mutant: a repeat is dropped.                                            *)
AddRowDropping(x, r) ==
    IF r.reserved THEN <<Excluded(x, r)>>
    ELSE IF StateId(Entry(tgt, base, x, r)) \in seen THEN << >>
    ELSE <<Entry(tgt, base, x, r)>>

(* Mutant: every row is an entry of its own.                               *)
AddRowAgain(x, r) ==
    IF r.reserved THEN <<Excluded(x, r)>> ELSE <<Entry(tgt, base, x, r)>>

(* What a row adds: an exclusion, an entry, or a repeat of one.            *)
AddRow(x, r) ==
    IF r.reserved THEN <<Excluded(x, r)>>
    ELSE IF StateId(Entry(tgt, base, x, r)) \in seen THEN <<Repeat(Entry(tgt, base, x, r))>>
    ELSE <<Entry(tgt, base, x, r)>>

(* SourceError: nothing is written.                                        *)
Raise == pc' = "idle" /\ UNCHANGED <<work, report>>

(* A keep table has to be there, and its rows to parse.                    *)
OpenTable ==
    /\ pc = "tables" /\ at <= Len(Tables[tgt])
    /\ LET x == Tables[tgt][at]
           m == manual[tgt]
       IN  \/ x \notin DOMAIN m.rows /\ Raise
           \/ x \in DOMAIN m.rows /\ x \in m.unparsed /\ Raise
           \/ /\ x \in DOMAIN m.rows \ m.unparsed
              /\ pc' = "rows" /\ row' = 1
              /\ UNCHANGED <<cmd, tgt, base, at, entries, seen, report>>
    /\ UNCHANGED <<files, outputs, commands>>

(* Its records one by one, then the next table.                            *)
ImportRow ==
    /\ pc = "rows"
    /\ LET x == Tables[tgt][at]
           records == manual[tgt].rows[x]
       IN  \/ /\ row <= Len(records)
              /\ entries' = entries \o AddRow(x, records[row])
              /\ seen' = IF records[row].reserved THEN seen
                         ELSE seen \cup {StateId(Entry(tgt, base, x, records[row]))}
              /\ row' = row + 1
              /\ UNCHANGED <<pc, at>>
           \/ /\ row > Len(records)
              /\ at' = at + 1 /\ pc' = "tables"
              /\ UNCHANGED <<row, entries, seen>>
    /\ UNCHANGED <<files, outputs, cmd, tgt, base, report, commands>>

EndTables ==
    /\ pc = "tables" /\ at > Len(Tables[tgt])
    /\ pc' = "prose" /\ row' = 1
    /\ UNCHANGED <<files, outputs, cmd, tgt, base, at, entries, seen, report, commands>>

(* What the tables do not list; here the key is the bare name.             *)
AddProse ==
    /\ pc = "prose" /\ row <= Len(Prose(tgt))
    /\ LET e == Prose(tgt)[row]
       IN  /\ entries' = entries \o (IF BareName(e.name) \in seen THEN << >> ELSE <<e>>)
           /\ seen' = seen \cup {BareName(e.name)}
    /\ row' = row + 1
    /\ UNCHANGED <<files, outputs, pc, cmd, tgt, base, at, report, commands>>

Complete == pc = "prose" /\ row > Len(Prose(tgt))

(* write_manifest: the totals agree by then.                               *)
WriteManifest ==
    /\ Complete /\ cmd = "import"
    /\ manifest' = [manifest EXCEPT ![tgt] =
          [written |-> TRUE, entries |-> entries, of |-> manual[tgt], base |-> base]]
    /\ pc' = "idle"
    /\ UNCHANGED <<files, def, work, report, commands>>

(* The diff: manifests as functions of the state id, the last entry wins.  *)
Index(es) ==
    {es[i] : i \in {k \in 1 .. Len(es) :
                \A j \in (k + 1) .. Len(es) : StateId(es[j]) # StateId(es[k])}}

Compared(e) == <<StateId(e), e.enc, e.class, e.feature, e.snapshot>>

ReportDiff ==
    /\ Complete /\ cmd = "diff"
    /\ LET old == {Compared(e) : e \in Index(manifest[tgt].entries)}
           new == {Compared(e) : e \in Index(entries)}
       IN  report' = {c[1] : c \in (old \ new) \cup (new \ old)}
    /\ pc' = "idle"
    /\ UNCHANGED <<files, outputs, work, commands>>

-----------------------------------------------------------------------------
(* generate_def: HW_STATE, HW_ALIAS or HW_OPERATION for an entry, in the   *)
(* manifest's order; the other classes leave nothing.                      *)
Generated(e) ==
    \/ e.class \in Emitting
    \/ e.class = "alias" /\ e.alias # ""
    \/ e.class = "non_state_operation"

state_gen(t) ==
    /\ pc = "idle" /\ manifest[t].written
    /\ commands < MaxCommands /\ commands' = commands + 1
    /\ def' = [def EXCEPT ![t] = SelectSeq(manifest[t].entries, Generated)]
    /\ UNCHANGED <<files, manifest, pc, work, report>>

(* Another issue of the manual is put in its place, and pinned or not.     *)
NewManual(t) ==
    /\ pc = "idle"
    /\ commands < MaxCommands /\ commands' = commands + 1
    /\ \E m \in Manuals[t] \ {manual[t]} : manual' = [manual EXCEPT ![t] = m]
    /\ \E p \in BOOLEAN : pinned' = [pinned EXCEPT ![t] = p]
    /\ report' = NoReport
    /\ UNCHANGED <<outputs, pc, work>>

Init ==
    /\ manual \in [Target -> UNION {Manuals[t] : t \in Target}]
    /\ \A t \in Target : manual[t] \in Manuals[t]
    /\ pinned = [t \in Target |-> TRUE]
    /\ manifest = [t \in Target |-> NoManifest] /\ def = [t \in Target |-> << >>]
    /\ pc = "idle" /\ cmd = "import" /\ tgt = "arch"
    /\ base = NoBase /\ at = 1 /\ row = 1 /\ entries = << >> /\ seen = {}
    /\ report = NoReport /\ commands = 0

Command ==
    \E t \in Target :
        state_import(t) \/ state_source_diff(t) \/ state_gen(t) \/ NewManual(t)

Next ==
    Command \/ OpenTable \/ ImportRow \/ EndTables \/ AddProse \/ WriteManifest \/ ReportDiff

Spec == Init /\ [][Next]_vars

-----------------------------------------------------------------------------
(* The rows of the first i keep tables of a manual, in the order they are  *)
(* visited, each with its table.                                           *)
TableRows(x, m) == [k \in 1 .. Len(m.rows[x]) |-> <<x, m.rows[x][k]>>]
RowsUpTo(t, m) ==
    LET upTo[i \in 0 .. Len(Tables[t])] ==
            IF i = 0 THEN << >> ELSE upTo[i - 1] \o TableRows(Tables[t][i], m)
    IN  upTo
RowsOf(t, m) == RowsUpTo(t, m)[Len(Tables[t])]

(* "refuses to finish unless every source record has been accounted for"   *)
(* (importer.py:5): a manifest on disk, whatever imports failed since,     *)
(* accounts for the rows of the manual it was made from one by one and in  *)
(* their order, repeats and reserved rows included.                        *)
ManifestAccountsForRows ==
    \A t \in Target : manifest[t].written =>
        LET rows == RowsOf(t, manifest[t].of)
            es == manifest[t].entries
        IN  /\ Len(es) >= Len(rows)
            /\ \A i \in 1 .. Len(rows) :
                  /\ es[i].via = "table"
                  /\ es[i].table = rows[i][1] /\ es[i].enc = rows[i][2].addr
                  /\ IF rows[i][2].reserved THEN es[i].class = "explicit_exclusion"
                                            ELSE es[i].name = rows[i][2].name
            /\ \A i \in (Len(rows) + 1) .. Len(es) : es[i].via # "table"

(* "Stable, unique identifier used by generated code and CI checks"        *)
(* (model.py:155) is not unique: a register that a manual lists again in   *)
(* the same component is written under the same id (importer.py:271),      *)
(* which test_no_duplicate_state_ids would refuse.  What the importer      *)
(* keeps is that a later entry of an id is never state of its own: it is   *)
(* an alias of the name, or a view at a reserved row's id.                 *)
RepeatsAreAliases ==
    \A t \in Target : LET es == manifest[t].entries IN
        \A i, j \in 1 .. Len(es) :
            i < j /\ StateId(es[i]) = StateId(es[j]) =>
                \/ es[j].class = "alias" /\ es[j].alias = es[j].name
                \/ es[i].class = "explicit_exclusion" /\ es[j].class \notin Emitting

(* A person decided the class of an overlay's entry: in the prose rules,   *)
(* in the name's override, or for the whole table.                         *)
Decided(e) ==
    \/ e.via # "table"
    \/ e.name \in DOMAIN Override["cpu"]
    \/ Rule[e.table].class # "" \/ Rule[e.table].ns = "arch"

(* "A CPU overlay must not re-emit state the architecture already owns;    *)
(* such rows have to be classified as architecture-defined instead"        *)
(* (test_state_completeness.py:204, which looks at namespace arch only):   *)
(* on the architecture's manifest it was imported on, an overlay emits a   *)
(* name or an address of the architecture again only by a person's         *)
(* decision or, like DWT_CTRL, as a debug register outside the snapshot.   *)
OverlayReemitsByDecision ==
    LET arch == manifest["arch"]
        cpu == manifest["cpu"]
    IN  cpu.written /\ cpu.base = BaseOf(arch.entries) =>
            \A i \in 1 .. Len(cpu.entries) : LET e == cpu.entries[i] IN
                /\ e.class \in Emitting
                /\ e.name \in EntryNames(arch.entries) \/ e.enc \in EntryAddrs(arch.entries)
                => Decided(e) \/ (e.ns = "debug" /\ ~e.snapshot)

(* "Report what changed between the committed manifest and the pinned      *)
(* source" (state_source_diff.py:3): when nothing changed since the        *)
(* import, it reports nothing except rows of an overlay that the           *)
(* architecture has at the same address under another name.                *)
Unchanged(t) ==
    /\ manifest[t].of = manual[t]
    /\ t = "cpu" => manifest[t].base = BaseOf(manifest["arch"].entries)

DiffMissesOnlyAddresses ==
    report # NoReport /\ Unchanged(tgt) =>
        \A id \in report :
            /\ tgt = "cpu"
            /\ \E i \in 1 .. Len(manifest[tgt].entries) :
                  LET e == manifest[tgt].entries[i]
                  IN  /\ e.name = id[3]
                      /\ e.name \notin manifest[tgt].base.names
                      /\ e.enc \in manifest[tgt].base.addrs

(* The same words taken at face value: a diff of unchanged inputs is empty. *)
DiffOfUnchangedIsEmpty == report # NoReport /\ Unchanged(tgt) => report = {}
=============================================================================
