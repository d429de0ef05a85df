-------------------------- MODULE StateReviewProofs --------------------------
(***************************************************************************)
(* Proofs about the reviewed files and the gates, for every set of issues  *)
(* of a manual, any number of edits and any order of commands: what the    *)
(* gates together vouch for, that a checked decision is a person's, that   *)
(* the sweep sees a torn manifest, and what of a person's a command undoes.*)
(***************************************************************************)
EXTENDS StateReview, TLAPS, WellFoundedInduction

-----------------------------------------------------------------------------
(* The parts of GatesInv, action by action.                                *)

Edits ==
    \/ state_tables_seed \/ state_prose_seed
    \/ ReviewTable \/ ListIndexes \/ ReviewCandidate \/ ReviewHeading
    \/ ChangeManual \/ PinManual

(* An edit clears what has passed.                                         *)
LEMMA EditsClear ==
    ASSUME Edits
    PROVE  passed' = {}
  BY DEF Edits, state_tables_seed, state_prose_seed, ReviewTable, ListIndexes,
     ReviewCandidate, ReviewHeading, ChangeManual, PinManual

LEMMA DecidedStep ==
    ASSUME TablesDecided, [Next]_vars
    PROVE  TablesDecided'
  <1>1. CASE state_tables_seed
    BY <1>1 DEF state_tables_seed, Seeded, TablesDecided
  <1>2. CASE ReviewTable
    <2>1. PICK t \in DOMAIN tables, d \in DECISIONS :
             /\ tables' = [tables EXCEPT ![t] = d]
             /\ word' = [x \in DOMAIN word \cup {t} |-> IF x = t THEN d ELSE word[x]]
      BY <1>2 DEF ReviewTable
    <2>2. DOMAIN tables' = DOMAIN tables /\ DOMAIN word' = DOMAIN word \cup {t}
      BY <2>1
    <2>3. \A s \in DOMAIN tables : tables'[s] = IF s = t THEN d ELSE tables[s]
      BY <2>1
    <2>4. \A s \in DOMAIN word' : word'[s] = IF s = t THEN d ELSE word[s]
      BY <2>1
    <2>5. QED BY <2>2, <2>3, <2>4 DEF TablesDecided
  <1>3. CASE UNCHANGED <<tables, word>>
    BY <1>3 DEF TablesDecided
  <1>4. QED
    BY <1>1, <1>2, <1>3 DEF Next, Commands, People, state_tables_check, state_import,
       ImportCutShort, state_prose_candidates, state_prose_seed, state_prose_sweep,
       ListIndexes, ReviewCandidate, ReviewHeading, ChangeManual, PinManual, vars, files

(* The files and the manual a gate reads.                                  *)
Inputs == <<manual, pinned, tables, reviewed, not_registers, word, manifest, readable>>

(* What the gates saw is a matter of the manual and the files alone.       *)
LEMMA SameInputs ==
    ASSUME UNCHANGED Inputs
    PROVE  /\ (TablesDecided' <=> TablesDecided) /\ (CheckHolds' <=> CheckHolds)
           /\ (ImportHolds' <=> ImportHolds) /\ (ProseHolds' <=> ProseHolds) /\ (SweepHolds' <=> SweepHolds)
  <1>1. (TablesDecided' <=> TablesDecided)
    BY DEF Inputs, TablesDecided
  <1>2. found' = found
    BY DEF Inputs, found, Range
  <1>3. (CheckHolds' <=> CheckHolds)
    BY <1>2 DEF Inputs, CheckHolds
  <1>4. entries' = entries
    BY DEF Inputs, entries, Kept, keep
  <1>5. (SweepHolds' <=> SweepHolds)
    BY DEF Inputs, SweepHolds, unmatched, known
  <1>6. candidates' = candidates
    BY DEF Inputs, candidates
  <1>7. scan' = scan
    BY <1>6 DEF Inputs, scan
  <1>8. families' = families /\ Vocabulary' = Vocabulary
    BY DEF Inputs, families, Vocabulary
  <1>9. \A m : Class(m)' = Class(m)
    BY <1>8 DEF Inputs, Class, auto_classify, ClassifyNames, ClassifyContext, Known
  <1>10. unclassified' = unclassified
    BY <1>7, <1>9 DEF unclassified
  <1>11. (AllValid' <=> AllValid)
    BY <1>7, <1>9 DEF AllValid
  <1>12. (ProseHolds' <=> ProseHolds)
    BY <1>10, <1>11 DEF ProseHolds, Inputs
  <1>13. ImportHolds' <=> ImportHolds
    BY <1>4 DEF ImportHolds, Inputs, Name
  <1>14. QED BY <1>1, <1>3, <1>13, <1>5, <1>12

(* A gate that looks leaves what it looks at alone, and passes only for    *)
(* what it saw.                                                            *)
LEMMA LookingStep ==
    ASSUME GatesInv, state_tables_check \/ state_prose_candidates \/ state_prose_sweep
    PROVE  GatesInv'
  <1>1. UNCHANGED Inputs
    BY DEF state_tables_check, state_prose_candidates, state_prose_sweep, Inputs, files
  <1>2. /\ (TablesDecided' <=> TablesDecided) /\ (CheckHolds' <=> CheckHolds)
        /\ (ImportHolds' <=> ImportHolds) /\ (ProseHolds' <=> ProseHolds)
        /\ (SweepHolds' <=> SweepHolds)
    BY <1>1, SameInputs
  <1>3. CASE state_tables_check
    BY <1>1, <1>2, <1>3 DEF GatesInv, state_tables_check, Passes, Fails, Inputs
  <1>4. CASE state_prose_candidates
    BY <1>1, <1>2, <1>4 DEF GatesInv, state_prose_candidates, Passes, Fails, Inputs,
       ProseHolds
  <1>5. CASE state_prose_sweep
    BY <1>1, <1>2, <1>5 DEF GatesInv, state_prose_sweep, Passes, Fails, Inputs
  <1>6. QED BY <1>3, <1>4, <1>5

(* An import lets only the check stand.                                    *)
LEMMA ImportStep ==
    ASSUME GatesInv, state_import \/ ImportCutShort
    PROVE  GatesInv'
  <1>1. UNCHANGED <<manual, pinned, tables, reviewed, not_registers, word>>
    BY DEF state_import, ImportCutShort, files
  <1>2. (TablesDecided' <=> TablesDecided) /\ (CheckHolds' <=> CheckHolds)
    BY <1>1 DEF TablesDecided, CheckHolds, found, Range
  <1>3. CASE state_import /\ ImportRuns
    <2>1. entries' = entries
      BY <1>1 DEF entries, Kept, keep
    <2>2. ImportHolds'
      BY <1>1, <1>3, <2>1 DEF state_import, ImportHolds, Name
    <2>3. QED BY <1>1, <1>2, <1>3, <2>2 DEF GatesInv, state_import
  <1>4. CASE state_import /\ ~ImportRuns
    <2>1. UNCHANGED Inputs
      BY <1>1, <1>4 DEF state_import, Inputs
    <2>2. /\ (ImportHolds' <=> ImportHolds) /\ (ProseHolds' <=> ProseHolds)
          /\ (SweepHolds' <=> SweepHolds)
      BY <2>1, SameInputs
    <2>3. QED BY <1>2, <1>4, <2>1, <2>2 DEF GatesInv, state_import, Fails, Inputs
  <1>5. CASE ImportCutShort
    BY <1>1, <1>2, <1>5 DEF GatesInv, ImportCutShort
  <1>6. QED BY <1>3, <1>4, <1>5

LEMMA GatesStep ==
    ASSUME GatesInv, [Next]_vars
    PROVE  GatesInv'
  <1>1. manual' \in Manuals /\ TablesDecided'
    <2>1. manual' \in Manuals
      BY DEF GatesInv, Next, Commands, People, state_tables_seed, state_tables_check,
         state_import, ImportCutShort, state_prose_candidates, state_prose_seed,
         state_prose_sweep, ReviewTable, ListIndexes, ReviewCandidate, ReviewHeading,
         ChangeManual, PinManual, vars
    <2>2. QED BY <2>1, DecidedStep DEF GatesInv
  <1>2. CASE Edits
    BY <1>1, <1>2, EditsClear DEF GatesInv
  <1>3. CASE UNCHANGED vars
    <2>1. UNCHANGED Inputs /\ passed' = passed
      BY <1>3 DEF vars, files, Inputs
    <2>2. QED BY <1>1, <2>1, SameInputs DEF GatesInv, Inputs
  <1>4. QED BY <1>2, <1>3, LookingStep, ImportStep DEF Next, Commands, People, Edits

LEMMA GatesAlways == Spec => []GatesInv
  <1>1. Init => GatesInv
    BY ReviewAssumption DEF Init, GatesInv, TablesDecided
  <1>2. QED BY <1>1, GatesStep, PTL DEF Spec

-----------------------------------------------------------------------------
(* What state_tables.py --check accepts is, table by table of the manual,  *)
(* what a person last decided on it, however often the file was seeded     *)
(* from this issue or another.                                             *)
THEOREM ChecksArePeoples == Spec => []CheckedMeansDecided
  <1>1. GatesInv => CheckedMeansDecided
    BY DEF GatesInv, CheckedMeansDecided, CheckHolds, TablesDecided
  <1>2. QED BY <1>1, GatesAlways, PTL

(* A heading that the sweep matches has an entry in the manifest of its    *)
(* own name, or of the name with or without the block's prefix, up to its  *)
(* number.                                                                 *)
LEMMA MatchedHeading ==
    ASSUME SweepHolds, NEW h \in manual.headings,
           h.chapter \notin {"A6", "A7"}, h.name \notin not_registers
    PROVE  \E n \in manifest, x \in {h.name} \cup h.other : n[1] = x[1]
  <1>1. spellings(h) \cap known # {}
    BY DEF SweepHolds, unmatched
  <1>2. PICK y : y \in spellings(h) /\ y \in known
    BY <1>1
  <1>3. \E n \in manifest : y[1] = n[1]
    BY <1>2 DEF known, normalise
  <1>4. \E x \in {h.name} \cup h.other : y[1] = x[1]
    BY <1>2 DEF spellings, normalise
  <1>5. QED BY <1>3, <1>4

(* The sweep (state_prose_sweep.py) never vouches for a manifest whose     *)
(* write was cut short before an entry that a heading needs, nor for one   *)
(* that cannot be loaded.                                                  *)
THEOREM SweepSees == Spec => []SweepSeesTornManifest
  <1>1. ASSUME GatesInv PROVE SweepSeesTornManifest
    <2>1. SUFFICES ASSUME pinned, "sweep" \in passed
                   PROVE  /\ readable
                          /\ \A h \in manual.headings :
                                \/ h.chapter \in {"A6", "A7"} \/ h.name \in not_registers
                                \/ \E n \in manifest :
                                      n[1] \in {x[1] : x \in {h.name} \cup h.other}
      BY DEF SweepSeesTornManifest
    <2>2. readable /\ SweepHolds
      BY <1>1, <2>1 DEF GatesInv
    <2>3. QED BY <2>2, MatchedHeading
  <1>2. QED BY <1>1, GatesAlways, PTL

-----------------------------------------------------------------------------
(* What a person wrote into the files goes, by a command, only with a      *)
(* table that the manual lacks, or as the list of index tables by --seed   *)
(* (state_tables.py, state_prose_candidates.py).                           *)
THEOREM DecisionsStay == Spec => CommandsKeepDecisions
  <1>1. ASSUME Commands
        PROVE  /\ \A t \in DOMAIN tables :
                     \/ tables[t] = UNREVIEWED
                     \/ t \in DOMAIN tables' /\ tables'[t] = tables[t]
                     \/ state_tables_seed /\ t \notin found
               /\ crosscheck' = crosscheck \/ state_tables_seed
               /\ \A c \in DOMAIN reviewed :
                     c \in DOMAIN reviewed' /\ reviewed'[c] = reviewed[c]
               /\ not_registers \subseteq not_registers'
    <2>1. CASE state_tables_seed
      <3>1. tables' = Seeded /\ UNCHANGED <<reviewed, not_registers>>
        BY <2>1 DEF state_tables_seed
      <3>2. QED BY <2>1, <3>1 DEF Seeded
    <2>2. CASE state_prose_seed
      BY <2>2 DEF state_prose_seed
    <2>3. CASE UNCHANGED files
      BY <2>3 DEF files
    <2>4. QED
      BY <1>1, <2>1, <2>2, <2>3 DEF Commands, state_tables_check, state_import,
         ImportCutShort, state_prose_candidates, state_prose_sweep
  <1>2. QED BY <1>1, PTL DEF CommandsKeepDecisions

-----------------------------------------------------------------------------
(* All gates together.                                                     *)

(* After an import, the rows of a kept table are in the manifest.          *)
LEMMA KeptRowsImported ==
    ASSUME TablesDecided, CheckHolds, ImportHolds, NEW t \in Range(manual.tables)
    PROVE  tables[t.id] = "skip" \/ Range(t.names) \subseteq manifest
  <1>1. t.id \in DOMAIN tables
    BY DEF CheckHolds, found
  <1>2. tables[t.id] \in DECISIONS
    BY <1>1 DEF TablesDecided, CheckHolds
  <1>3. PICK i \in DOMAIN manual.tables : t = manual.tables[i]
    BY DEF Range
  <1>4. ASSUME tables[t.id] \in {"keep", "unfinished"}, NEW n \in Range(t.names) PROVE n \in manifest
    <2>1. PICK j \in DOMAIN t.names : n = t.names[j]
      BY <1>4 DEF Range
    <2>2. Kept(t)
      BY <1>1, <1>4 DEF Kept, keep
    <2>3. <<i, j>> \in entries
      BY <1>3, <2>1, <2>2 DEF entries
    <2>4. n = Name(<<i, j>>)
      BY <1>3, <2>1 DEF Name
    <2>5. QED BY <2>3, <2>4 DEF ImportHolds
  <1>5. QED BY <1>2, <1>4 DEF DECISIONS

(* Numbers have a least one.                                               *)
LEMMA LeastNumber ==
    ASSUME NEW T \in SUBSET Nat, T # {}
    PROVE  \E n \in T : \A m \in T : n <= m
  <1> DEFINE R == {ss \in Nat \X Nat : ss[1] < ss[2]}
  <1>1. IsWellFoundedOn(R, Nat)
    BY NatLessThanWellFounded DEF OpToRel
  <1>2. PICK x \in T : \A y \in T : ~(<<y, x>> \in R)
    <2> HIDE DEF R
    <2>1. QED BY <1>1, WFMin
  <1>3. \A y \in T : ~(y < x)
    BY <1>2
  <1>4. QED BY <1>3

(* scan keeps a mention of the same words for every candidate.             *)
LEMMA ScanKeepsWords ==
    ASSUME DOMAIN manual.mentions \subseteq Nat,
           NEW m \in Range(manual.mentions), IsCandidate(m)
    PROVE  \E n \in scan : n \in Range(manual.mentions) /\ SameWords(m, n)
  <1> DEFINE Same == {i \in candidates : SameWords(m, manual.mentions[i])}
  <1>1. PICK j \in DOMAIN manual.mentions : m = manual.mentions[j]
    BY DEF Range
  <1>2. j \in Same
    BY <1>1 DEF candidates, SameWords
  <1>3. Same \in SUBSET Nat
    BY DEF candidates
  <1>4. PICK i \in Same : \A k \in Same : i <= k
    <2> HIDE DEF Same
    <2>1. QED BY <1>2, <1>3, LeastNumber
  <1>5. \A k \in candidates : k < i => _cid(manual.mentions[k]) # _cid(manual.mentions[i])
    <2>1. SUFFICES ASSUME NEW k \in candidates, k < i,
                          _cid(manual.mentions[k]) = _cid(manual.mentions[i])
                   PROVE  FALSE
      OBVIOUS
    <2>2. k \in Same
      BY <2>1, <1>4 DEF _cid, SameWords
    <2>3. k \in Nat /\ i \in Nat /\ i <= k
      BY <2>2, <1>3, <1>4
    <2>4. QED BY <2>1, <2>3
  <1>6. QED BY <1>4, <1>5 DEF scan, candidates, Range

(* A class that auto_classify finds for names in the body's prose accounts *)
(* for every one of them.                                                  *)
LEMMA ClassAccounts ==
    ASSUME NEW m, ~(m.page <= manual.front), ~OperandsOnly(m), auto_classify(m) # "",
           NEW n \in names(m)
    PROVE  Known(n) \/ n \in Vocabulary \/ n[1] \in BLOCKS
  <1>1. auto_classify(m) = ClassifyNames(m)
    BY DEF auto_classify
  <1>2. \/ names(m) \subseteq Vocabulary \/ names(m) \subseteq manifest
        \/ \A x \in names(m) : Known(x)
        \/ \A x \in names(m) : x[1] \in BLOCKS
    BY <1>1 DEF ClassifyNames, Vocabulary
  <1>3. QED BY <1>2 DEF Known, families

(* A candidate of the body's prose that the prose gate lets pass.          *)
LEMMA MentionAccounted ==
    ASSUME manual \in Manuals, ProseHolds, NEW m \in Range(manual.mentions), Body(m)
    PROVE  \/ _cid(m) \in DOMAIN reviewed /\ reviewed[_cid(m)] \in VALID
           \/ \A n \in names(m) : Known(n) \/ n \in Vocabulary \/ n[1] \in BLOCKS
  <1>1. DOMAIN manual.mentions \subseteq Nat
    BY ReviewAssumption
  <1>2. PICK x \in scan : x \in Range(manual.mentions) /\ SameWords(m, x)
    BY <1>1, ScanKeepsWords DEF Body
  <1>3. Class(x) \in VALID
    BY DEF ProseHolds, AllValid, unclassified
  <1>4. _cid(x) = _cid(m) /\ names(x) = names(m) /\ (OperandsOnly(x) <=> OperandsOnly(m))
    <2>1. _cid(x) = _cid(m)
      BY <1>2 DEF SameWords, _cid
    <2>2. names(x) = names(m)
      BY <1>2 DEF SameWords, names
    <2>3. OperandsOnly(x) <=> OperandsOnly(m)
      BY <1>2 DEF SameWords, OperandsOnly
    <2>4. QED BY <2>1, <2>2, <2>3
  <1>5. ~(x.page <= manual.front)
    BY <1>2 DEF Body
  <1>6. CASE _cid(x) \in DOMAIN reviewed
    BY <1>3, <1>4, <1>6 DEF Class
  <1>7. CASE _cid(x) \notin DOMAIN reviewed
    <2>1. auto_classify(x) # ""
      BY <1>3, <1>7 DEF Class, VALID
    <2>2. QED BY <1>4, <1>5, <2>1, ClassAccounts DEF Body
  <1>8. QED BY <1>6, <1>7

(* The four gates together (state_tables.py, state_import.py,              *)
(* state_prose_candidates.py, state_prose_sweep.py): once all have passed  *)
(* since the last edit, no row, heading or register file the manual's body *)
(* names is missing without a person's word, whatever the manual.          *)
THEOREM GatesAccount == Spec => []GatesAccountForManual
  <1>1. ASSUME GatesInv PROVE GatesAccountForManual
    <2>1. SUFFICES ASSUME {"check", "import", "prose", "sweep"} \subseteq passed
                   PROVE  GatesAccountForManual
      BY DEF GatesAccountForManual
    <2>2. TablesDecided /\ CheckHolds /\ ImportHolds /\ ProseHolds /\ SweepHolds
      BY <1>1, <2>1 DEF GatesInv
    <2>3. \A t \in Range(manual.tables) :
              tables[t.id] = "skip" \/ Range(t.names) \subseteq manifest
      BY <2>2, KeptRowsImported
    <2>4. \A h \in manual.headings :
              \/ h.chapter \in {"A6", "A7"} \/ h.name \in not_registers
              \/ \E n \in {h.name} \cup h.other : Known(n)
      BY <2>2, MatchedHeading DEF Known, families
    <2>5. \A m \in Range(manual.mentions) : Body(m) =>
              \/ _cid(m) \in DOMAIN reviewed /\ reviewed[_cid(m)] \in VALID
              \/ \A n \in names(m) : Known(n) \/ n \in Vocabulary \/ n[1] \in BLOCKS
      BY <1>1, <2>2, MentionAccounted DEF GatesInv
    <2>6. QED BY <2>3, <2>4, <2>5 DEF GatesAccountForManual
  <1>2. QED BY <1>1, GatesAlways, PTL

=============================================================================
