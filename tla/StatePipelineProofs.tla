------------------------ MODULE StatePipelineProofs ------------------------
(***************************************************************************)
(* Proofs about StatePipeline, for every set of rules, register files and  *)
(* manuals, of any length, and any number of commands: what an import has  *)
(* built after some rows is a function of those rows, and the properties   *)
(* of manifests, overlays and diffs follow from that function.             *)
(***************************************************************************)
EXTENDS StatePipeline, SequenceTheorems, WellFoundedInduction, TLAPS

-----------------------------------------------------------------------------
(* Sequences.                                                              *)

(* A sequence, of whatever elements.                                       *)
IsSeq(s) == \E S : s \in Seq(S)

(* A sequence has a length and is determined by its elements.              *)
LEMMA SeqFacts ==
    ASSUME NEW s, IsSeq(s)
    PROVE  Len(s) \in Nat /\ DOMAIN s = 1 .. Len(s) /\ s \o << >> = s
<1>1. PICK S : s \in Seq(S)
  BY DEF IsSeq
<1> QED
  BY <1>1, LenProperties, ConcatEmptySeq

(* The concatenation of two sequences.                                     *)
LEMMA Joined ==
    ASSUME NEW s, NEW u, IsSeq(s), IsSeq(u)
    PROVE  /\ IsSeq(s \o u)
           /\ Len(s \o u) = Len(s) + Len(u)
           /\ \A i \in 1 .. Len(s) : (s \o u)[i] = s[i]
           /\ \A i \in 1 .. Len(u) : (s \o u)[Len(s) + i] = u[i]
<1>1. PICK S : s \in Seq(S)
  BY DEF IsSeq
<1>2. PICK U : u \in Seq(U)
  BY DEF IsSeq
<1> DEFINE T == S \cup U
<1>3. s \in Seq(T)
  BY <1>1, SeqMonotonic
<1>4. u \in Seq(T)
  BY <1>2, SeqMonotonic
<1>5. Len(s) \in Nat /\ Len(u) \in Nat
  BY SeqFacts
<1> HIDE DEF T
<1>6. /\ s \o u \in Seq(T)
      /\ Len(s \o u) = Len(s) + Len(u)
      /\ \A i \in 1 .. Len(s) + Len(u) :
            (s \o u)[i] = IF i <= Len(s) THEN s[i] ELSE u[i - Len(s)]
  BY <1>3, <1>4, ConcatProperties
<1>7. IsSeq(s \o u)
  BY <1>6 DEF IsSeq
<1>8. \A i \in 1 .. Len(s) : (s \o u)[i] = s[i]
  BY <1>5, <1>6
<1>9. \A i \in 1 .. Len(u) : (s \o u)[Len(s) + i] = u[i]
  <2> SUFFICES ASSUME NEW i \in 1 .. Len(u) PROVE (s \o u)[Len(s) + i] = u[i]
    OBVIOUS
  <2>1. PICK k \in 1 .. Len(s) + Len(u) : k = Len(s) + i
    BY <1>5
  <2>2. ~(k <= Len(s)) /\ k - Len(s) = i
    BY <1>5, <2>1
  <2> QED
    BY <1>6, <2>1, <2>2
<1> QED
  BY <1>6, <1>7, <1>8, <1>9

(* ... and of a sequence and one more element.                             *)
LEMMA Extended ==
    ASSUME NEW s, NEW e, IsSeq(s)
    PROVE  /\ IsSeq(s \o <<e>>)
           /\ Len(s \o <<e>>) = Len(s) + 1
           /\ \A i \in 1 .. Len(s) : (s \o <<e>>)[i] = s[i]
           /\ (s \o <<e>>)[Len(s) + 1] = e
<1>1. <<e>> \in Seq({e}) /\ Len(<<e>>) = 1 /\ <<e>>[1] = e
  OBVIOUS
<1>2. IsSeq(<<e>>)
  BY <1>1 DEF IsSeq
<1> QED
  BY <1>1, <1>2, Joined

(* A function on 1 .. n is a sequence.                                     *)
LEMMA FunctionSeq ==
    ASSUME NEW n \in Nat, NEW f, f = [i \in 1 .. n |-> f[i]]
    PROVE  IsSeq(f) /\ Len(f) = n
<1> DEFINE S == {f[i] : i \in 1 .. n}
<1>1. f \in [1 .. n -> S]
  OBVIOUS
<1>2. f \in Seq(S)
  BY <1>1, SeqDef
<1> QED
  BY <1>2, LenProperties DEF IsSeq

(* Two sequences with the same elements are equal.                         *)
LEMMA SameSeq ==
    ASSUME NEW s, NEW u, IsSeq(s), IsSeq(u), Len(s) = Len(u),
           \A i \in 1 .. Len(s) : s[i] = u[i]
    PROVE  s = u
<1>1. PICK S : s \in Seq(S)
  BY DEF IsSeq
<1>2. PICK U : u \in Seq(U)
  BY DEF IsSeq
<1> DEFINE T == S \cup U
<1>3. s \in Seq(T) /\ u \in Seq(T)
  BY <1>1, <1>2, SeqMonotonic
<1> HIDE DEF T
<1> QED
  BY <1>3, SeqEqual

(* A set of numbers that is not empty has a least one.                     *)
LEMMA LeastOf ==
    ASSUME NEW S, S \subseteq Nat, S # {}
    PROVE  \E i \in S : \A j \in S : i <= j
<1> DEFINE R == {ss \in Nat \X Nat : ss[1] < ss[2]}
<1>1. IsWellFoundedOn(R, Nat)
  BY NatLessThanWellFounded DEF OpToRel
<1>2. PICK x \in S : \A y \in S : <<y, x>> \notin R
  <2> HIDE DEF R
  <2> QED
    BY <1>1, WFMin
<1>3. \A y \in S : ~(y < x)
  BY <1>2
<1> QED
  BY <1>3

-----------------------------------------------------------------------------
(* The rows of the first tables.                                           *)

(* g is what RowsUpTo defines, as far as table n.                          *)
IsRowsUpTo(t, m, n, g) ==
    g = [i \in 0 .. n |-> IF i = 0 THEN << >> ELSE g[i - 1] \o TableRows(Tables[t][i], m)]

(* There is such a function for every n.                                   *)
LEMMA RowsExist ==
    ASSUME NEW t, NEW m, NEW n \in Nat
    PROVE  \E g : IsRowsUpTo(t, m, n, g)
<1> DEFINE Bad == {k \in Nat : ~ \E g : IsRowsUpTo(t, m, k, g)}
<1> SUFFICES ASSUME Bad # {} PROVE FALSE
  OBVIOUS
<1>1. PICK k \in Bad : \A j \in Bad : k <= j
  <2>1. Bad \subseteq Nat
    OBVIOUS
  <2> HIDE DEF Bad
  <2> QED
    BY <2>1, LeastOf
<1>2. k \in Nat /\ ~ \E g : IsRowsUpTo(t, m, k, g)
  OBVIOUS
<1>3. CASE k = 0
  <2> DEFINE g == [i \in 0 .. 0 |-> << >>]
  <2>1. g = [i \in 0 .. 0 |->
                IF i = 0 THEN << >> ELSE g[i - 1] \o TableRows(Tables[t][i], m)]
    OBVIOUS
  <2>2. IsRowsUpTo(t, m, 0, g)
    BY <2>1 DEF IsRowsUpTo
  <2> QED
    BY <1>2, <1>3, <2>2
<1>4. CASE k # 0
  <2>1. k - 1 \in Nat /\ ~(k <= k - 1)
    BY <1>2, <1>4
  <2>2. PICK g : IsRowsUpTo(t, m, k - 1, g)
    BY <1>1, <2>1
  <2> DEFINE More(i) == g[i - 1] \o TableRows(Tables[t][i], m)
             h == [i \in 0 .. k |-> IF i = k THEN More(k) ELSE g[i]]
  <2>3. \A i \in 0 .. (k - 1) : g[i] = IF i = 0 THEN << >> ELSE More(i)
    BY <2>2 DEF IsRowsUpTo
  <2> HIDE DEF More
  <2>4. \A i \in 0 .. k : i # 0 => h[i - 1] = g[i - 1]
    BY <2>1
  <2>5. \A i \in 0 .. k : h[i] = IF i = 0 THEN << >> ELSE More(i)
    BY <1>4, <2>1, <2>3
  <2>6. \A i \in 0 .. k :
           h[i] = IF i = 0 THEN << >> ELSE h[i - 1] \o TableRows(Tables[t][i], m)
    <3> HIDE DEF h
    <3> QED
      BY <2>4, <2>5 DEF More
  <2>7. h = [i \in 0 .. k |-> h[i]]
    OBVIOUS
  <2> HIDE DEF h
  <2>8. h = [i \in 0 .. k |->
                IF i = 0 THEN << >> ELSE h[i - 1] \o TableRows(Tables[t][i], m)]
    BY <2>6, <2>7
  <2> QED
    BY <1>2, <2>8 DEF IsRowsUpTo
<1> QED
  BY <1>3, <1>4

(* So RowsUpTo is the function its definition says.                        *)
LEMMA RowsStep ==
    ASSUME NEW t \in Target, NEW m
    PROVE  /\ RowsUpTo(t, m)[0] = << >>
           /\ \A i \in 1 .. Len(Tables[t]) :
                 RowsUpTo(t, m)[i] = RowsUpTo(t, m)[i - 1] \o TableRows(Tables[t][i], m)
<1> DEFINE n == Len(Tables[t])
           P(g) == g = [i \in 0 .. Len(Tables[t]) |->
                          IF i = 0 THEN << >> ELSE g[i - 1] \o TableRows(Tables[t][i], m)]
<1>1. n \in Nat
  BY PipelineAssumption, LenProperties
<1>2. RowsUpTo(t, m) = CHOOSE g : P(g)
  BY DEF RowsUpTo
<1>3. \E g : P(g)
  <2>1. PICK g : IsRowsUpTo(t, m, n, g)
    BY <1>1, RowsExist
  <2> QED
    BY <2>1 DEF IsRowsUpTo
<1> HIDE DEF P
<1>4. P(RowsUpTo(t, m))
  BY <1>2, <1>3
<1>5. RowsUpTo(t, m) = [i \in 0 .. Len(Tables[t]) |-> IF i = 0 THEN << >>
                  ELSE RowsUpTo(t, m)[i - 1] \o TableRows(Tables[t][i], m)]
  BY <1>4 DEF P
<1>6. PICK u : u = RowsUpTo(t, m)
  OBVIOUS
<1>7. u = [i \in 0 .. n |-> IF i = 0 THEN << >> ELSE u[i - 1] \o TableRows(Tables[t][i], m)]
  BY <1>5, <1>6
<1> HIDE DEF n
<1>8. u[0] = << >> /\ \A i \in 1 .. n : u[i] = u[i - 1] \o TableRows(Tables[t][i], m)
  <2> DEFINE More(i) == u[i - 1] \o TableRows(Tables[t][i], m)
  <2>1. u = [i \in 0 .. n |-> IF i = 0 THEN << >> ELSE More(i)]
    BY <1>7
  <2> HIDE DEF More
  <2>2. u[0] = << >>
    BY <1>1, <2>1
  <2>3. \A i \in 1 .. n : u[i] = More(i)
    <3> SUFFICES ASSUME NEW i \in 1 .. n PROVE u[i] = More(i)
      OBVIOUS
    <3>1. i \in 0 .. n /\ i # 0
      BY <1>1
    <3> QED
      BY <2>1, <3>1
  <2> QED
    BY <2>2, <2>3 DEF More
<1> QED
  BY <1>6, <1>8 DEF n

-----------------------------------------------------------------------------
(* What an import builds.  F is a sequence of rows, each with its table.   *)

(* The id under which a row's register is known.                           *)
RowId(t, b, f) == StateId(Entry(t, b, f[1], f[2]))

(* The register of row p is that of an earlier row.                        *)
ListedBefore(t, b, F, p) ==
    \E q \in 1 .. (p - 1) : ~F[q][2].reserved /\ RowId(t, b, F[q]) = RowId(t, b, F[p])

(* The entry of row p: excluded, a repeat, or the register itself.         *)
RowEntry(t, b, F, p) ==
    IF F[p][2].reserved THEN Excluded(F[p][1], F[p][2])
    ELSE IF ListedBefore(t, b, F, p) THEN Repeat(Entry(t, b, F[p][1], F[p][2]))
    ELSE Entry(t, b, F[p][1], F[p][2])

(* The keys that the rows, and that k prose entries, leave in seen.        *)
RowKeys(t, b, F) ==
    {RowId(t, b, F[q]) : q \in {p \in 1 .. Len(F) : ~F[p][2].reserved}}
ProseKeys(t, k) == {BareName(Prose(t)[j].name) : j \in 1 .. k}

(* The prose entries, of the first k, whose name is new.                   *)
FirstNamed(t, k) ==
    {j \in 1 .. k : \A i \in 1 .. (j - 1) : Prose(t)[i].name # Prose(t)[j].name}

(* F is a sequence of rows with tables that have a rule.                   *)
RowsAre(F) == IsSeq(F) /\ \A p \in 1 .. Len(F) : F[p][1] \in DOMAIN Rule

(* The positions after the rows.                                           *)
Tail1(F, es) == (Len(F) + 1) .. Len(es)

(* es is what the import of t on b has built from the rows F and k prose   *)
(* entries: one entry for every row, then the prose entries with new names.*)
Imported(t, b, F, es, k) ==
    /\ RowsAre(F)
    /\ IsSeq(es) /\ Len(F) <= Len(es)
    /\ \A p \in 1 .. Len(F) : es[p] = RowEntry(t, b, F, p)
    /\ \A p, q \in Tail1(F, es) : es[p].name = es[q].name => p = q
    /\ {es[p] : p \in Tail1(F, es)} = {Prose(t)[j] : j \in FirstNamed(t, k)}

(* Without prose, an import has built one entry for every row.             *)
LEMMA ImportedRows ==
    ASSUME NEW t, NEW b, NEW F, NEW es, RowsAre(F), IsSeq(es), Len(es) = Len(F),
           \A p \in 1 .. Len(F) : es[p] = RowEntry(t, b, F, p)
    PROVE  Imported(t, b, F, es, 0)
<1>1. Len(F) \in Nat
  BY SeqFacts DEF RowsAre
<1>2. Tail1(F, es) = {} /\ Len(F) <= Len(es)
  BY <1>1 DEF Tail1
<1>3. FirstNamed(t, 0) = {}
  BY DEF FirstNamed
<1>4. {es[p] : p \in Tail1(F, es)} = {Prose(t)[j] : j \in FirstNamed(t, 0)}
  BY <1>2, <1>3
<1>5. \A p, q \in Tail1(F, es) : es[p].name = es[q].name => p = q
  BY <1>2
<1> QED
  BY <1>2, <1>4, <1>5 DEF Imported

(* Nothing yet.                                                            *)
LEMMA ImportedNothing ==
    ASSUME NEW t, NEW b
    PROVE  /\ Imported(t, b, << >>, << >>, 0)
           /\ RowKeys(t, b, << >>) = {} /\ ProseKeys(t, 0) = {}
<1>1. IsSeq(<< >>) /\ Len(<< >>) = 0
  BY EmptySeq DEF IsSeq
<1>2. 1 .. Len(<< >>) = {}
  BY <1>1
<1>3. PICK F : F = << >>
  OBVIOUS
<1>4. IsSeq(F) /\ 1 .. Len(F) = {}
  BY <1>1, <1>2, <1>3
<1>5. RowsAre(F)
  BY <1>4 DEF RowsAre
<1>6. Imported(t, b, F, F, 0)
  BY <1>4, <1>5, ImportedRows
<1>7. RowKeys(t, b, F) = {}
  BY <1>4 DEF RowKeys
<1>8. ProseKeys(t, 0) = {}
  BY DEF ProseKeys
<1> QED
  BY <1>3, <1>6, <1>7, <1>8

(* Before the prose there is one entry for every row.                      *)
LEMMA OnlyRows ==
    ASSUME NEW t, NEW b, NEW F, NEW es, Imported(t, b, F, es, 0)
    PROVE  Len(es) = Len(F)
<1>1. Len(es) \in Nat /\ Len(F) \in Nat /\ Len(F) <= Len(es)
  BY SeqFacts DEF Imported, RowsAre
<1>2. {es[p] : p \in Tail1(F, es)} = {}
  <2>1. FirstNamed(t, 0) = {}
    BY DEF FirstNamed
  <2>2. {es[p] : p \in Tail1(F, es)} = {Prose(t)[j] : j \in FirstNamed(t, 0)}
    BY DEF Imported
  <2> QED
    BY <2>1, <2>2
<1>3. Tail1(F, es) = {}
  BY <1>2
<1>4. ~(Len(F) + 1 <= Len(es))
  BY <1>1, <1>3 DEF Tail1
<1> QED
  BY <1>1, <1>4

(* A row f more.                                                           *)
LEMMA ImportedRow ==
    ASSUME NEW t, NEW b, NEW F, NEW es, NEW x \in DOMAIN Rule, NEW r, NEW e, NEW f,
           f = <<x, r>>,
           Imported(t, b, F, es, 0),
           e = IF r.reserved THEN Excluded(x, r)
               ELSE IF StateId(Entry(t, b, x, r)) \in RowKeys(t, b, F)
                    THEN Repeat(Entry(t, b, x, r))
               ELSE Entry(t, b, x, r)
    PROVE  /\ Imported(t, b, F \o <<f>>, es \o <<e>>, 0)
           /\ RowKeys(t, b, F \o <<f>>) =
                 IF r.reserved THEN RowKeys(t, b, F)
                 ELSE RowKeys(t, b, F) \cup {StateId(Entry(t, b, x, r))}
<1> DEFINE n == Len(F)
<1>1. n \in Nat /\ Len(es) = n /\ IsSeq(F) /\ IsSeq(es)
  <2>1. IsSeq(F) /\ IsSeq(es)
    BY DEF Imported, RowsAre
  <2>2. Len(es) = n
    BY OnlyRows
  <2> QED
    BY <2>1, <2>2, SeqFacts
<1>2. PICK G : G = F \o <<f>>
  OBVIOUS
<1>3. PICK gs : gs = es \o <<e>>
  OBVIOUS
<1>4. IsSeq(G) /\ Len(G) = n + 1 /\ (\A i \in 1 .. n : G[i] = F[i]) /\ G[n + 1] = f
  BY <1>1, <1>2, Extended
<1>5. IsSeq(gs) /\ Len(gs) = n + 1 /\ (\A i \in 1 .. n : gs[i] = es[i]) /\ gs[n + 1] = e
  BY <1>1, <1>3, Extended
<1>6. f[1] = x /\ f[2] = r
  OBVIOUS
<1> HIDE DEF n
<1>7. \A p \in 1 .. (n + 1) : p \in 1 .. n \/ p = n + 1
  BY <1>1
<1>8. RowsAre(G)
  <2>1. \A p \in 1 .. n : F[p][1] \in DOMAIN Rule
    BY DEF Imported, RowsAre, n
  <2> QED
    BY <1>4, <1>6, <1>7, <2>1 DEF RowsAre
<1>9. ListedBefore(t, b, G, n + 1) <=> RowId(t, b, f) \in RowKeys(t, b, F)
  <2>1. (n + 1) - 1 = n
    BY <1>1
  <2>2. ListedBefore(t, b, G, n + 1)
          <=> \E q \in 1 .. n : ~F[q][2].reserved /\ RowId(t, b, F[q]) = RowId(t, b, f)
    BY <1>4, <2>1 DEF ListedBefore
  <2> QED
    BY <2>2 DEF RowKeys, n
<1>10. gs[n + 1] = RowEntry(t, b, G, n + 1)
  BY <1>4, <1>5, <1>6, <1>9 DEF RowEntry, RowId
<1>11. ASSUME NEW p \in 1 .. n
       PROVE  gs[p] = RowEntry(t, b, G, p)
  <2>1. G[p] = F[p] /\ \A q \in 1 .. (p - 1) : G[q] = F[q]
    BY <1>1, <1>4
  <2>2. ListedBefore(t, b, G, p) <=> ListedBefore(t, b, F, p)
    BY <2>1 DEF ListedBefore
  <2>3. es[p] = RowEntry(t, b, F, p)
    BY DEF Imported, n
  <2> QED
    BY <1>5, <2>1, <2>2, <2>3 DEF RowEntry
<1>12. \A p \in 1 .. Len(G) : gs[p] = RowEntry(t, b, G, p)
  BY <1>4, <1>7, <1>10, <1>11
<1>13. Imported(t, b, G, gs, 0)
  BY <1>4, <1>5, <1>8, <1>12, ImportedRows
<1>14. RowKeys(t, b, G) = IF r.reserved THEN RowKeys(t, b, F)
                         ELSE RowKeys(t, b, F) \cup {RowId(t, b, f)}
  <2>1. \A k : k \in RowKeys(t, b, G) <=>
           \E q \in 1 .. (n + 1) : ~G[q][2].reserved /\ k = RowId(t, b, G[q])
    BY <1>4 DEF RowKeys
  <2>2. \A k : k \in RowKeys(t, b, F) <=>
           \E q \in 1 .. n : ~F[q][2].reserved /\ k = RowId(t, b, F[q])
    BY DEF RowKeys, n
  <2>3. \A k : k \in RowKeys(t, b, G) <=>
           k \in RowKeys(t, b, F) \/ (~r.reserved /\ k = RowId(t, b, f))
    <3>1. 1 .. n \subseteq 1 .. (n + 1) /\ n + 1 \in 1 .. (n + 1)
      BY <1>1
    <3> QED
      BY <1>4, <1>6, <1>7, <2>1, <2>2, <3>1
  <2> QED
    BY <2>3
<1> QED
  BY <1>2, <1>3, <1>6, <1>13, <1>14 DEF RowId

(* An entry without a component; the entry of a table's row has one.       *)
NoComponent(e) == e.comp = ""

LEMMA HasComponent ==
    ASSUME NEW x \in DOMAIN Rule, NEW e, NoComponent(e)
    PROVE  e.comp # Rule[x].comp
  BY PipelineAssumption DEF NoComponent

(* A declared register belongs to the architecture, not to a component.    *)
LEMMA DeclaredFields ==
    ASSUME NEW t, NEW nm
    PROVE  /\ DeclaredEntry(t, nm).ns = "arch" /\ DeclaredEntry(t, nm).via = "declared"
           /\ DeclaredEntry(t, nm).class = Override[t][nm].class
           /\ NoComponent(DeclaredEntry(t, nm))
  BY DEF DeclaredEntry, NoComponent

(* What the rules say of a prose entry: it belongs to the architecture,    *)
(* comes from no table, no table has its component, and if it is state it  *)
(* has one.                                                                *)
ProseLike(e) ==
    /\ e.ns = "arch" /\ e.via # "table"
    /\ \A x \in DOMAIN Rule : e.comp # Rule[x].comp
    /\ e.class \in Emitting => ~NoComponent(e)

(* Every prose entry is like that.                                         *)
LEMMA ProseFacts ==
    ASSUME NEW t \in Target
    PROVE  /\ IsSeq(Prose(t)) /\ Len(Prose(t)) \in Nat
           /\ \A j \in 1 .. Len(Prose(t)) : ProseLike(Prose(t)[j])
<1>1. PICK d : d = [i \in 1 .. Len(Declares[t]) |-> DeclaredEntry(t, Declares[t][i])]
  OBVIOUS
<1>2. PICK n : n = Len(Declares[t])
  OBVIOUS
<1>3. PICK fl : fl = Files[t]
  OBVIOUS
<1>4. PICK P : P = d \o fl
  OBVIOUS
<1>5. P = Prose(t)
  BY <1>1, <1>3, <1>4 DEF Prose
<1>6. n \in Nat
  BY <1>2, PipelineAssumption, LenProperties
<1>7. IsSeq(d) /\ Len(d) = n
  <2>1. d = [i \in 1 .. n |-> d[i]]
    BY <1>1, <1>2
  <2> QED
    BY <1>6, <2>1, FunctionSeq
<1>8. IsSeq(fl) /\ Len(fl) \in Nat
  <2>1. fl \in Seq(EntryType)
    BY <1>3, PipelineAssumption
  <2> QED
    BY <2>1, LenProperties DEF IsSeq
<1>9. /\ IsSeq(P) /\ Len(P) = n + Len(fl)
      /\ \A i \in 1 .. n : P[i] = d[i]
      /\ \A i \in 1 .. Len(fl) : P[n + i] = fl[i]
  <2>1. /\ IsSeq(d \o fl) /\ Len(d \o fl) = Len(d) + Len(fl)
        /\ \A i \in 1 .. Len(d) : (d \o fl)[i] = d[i]
        /\ \A i \in 1 .. Len(fl) : (d \o fl)[Len(d) + i] = fl[i]
    <3>1. IsSeq(d) /\ IsSeq(fl)
      BY <1>7, <1>8
    <3> QED
      BY <3>1, Joined
  <2> QED
    BY <1>4, <1>7, <2>1
<1>10. ASSUME NEW j \in 1 .. n
       PROVE  ProseLike(P[j])
  <2>1. P[j] = DeclaredEntry(t, Declares[t][j])
    BY <1>1, <1>2, <1>9
  <2>2. Override[t][Declares[t][j]].class \notin Emitting
    BY <1>2, PipelineAssumption
  <2>3. \A x \in DOMAIN Rule : P[j].comp # Rule[x].comp
    BY <2>1, DeclaredFields, HasComponent
  <2> QED
    BY <2>1, <2>2, <2>3, DeclaredFields DEF ProseLike
<1>11. ASSUME NEW i \in 1 .. Len(fl)
       PROVE  ProseLike(P[n + i])
  <2>1. P[n + i] = Files[t][i]
    BY <1>3, <1>9
  <2>2. /\ Files[t][i].ns = "arch" /\ Files[t][i].via = "register_file"
        /\ ~NoComponent(Files[t][i])
        /\ \A x \in DOMAIN Rule : Files[t][i].comp # Rule[x].comp
    BY <1>3, PipelineAssumption DEF NoComponent
  <2> QED
    BY <2>1, <2>2 DEF ProseLike
<1>12. ASSUME NEW j \in 1 .. Len(P)
       PROVE  ProseLike(P[j])
  <2>1. PICK l \in Nat : l = Len(fl)
    BY <1>8
  <2>2. j \in 1 .. n \/ (j - n \in 1 .. l /\ j = n + (j - n))
    BY <1>6, <1>9, <2>1
  <2> QED
    BY <1>10, <1>11, <2>1, <2>2
<1>13. Len(P) \in Nat
  BY <1>9, SeqFacts
<1> QED
  BY <1>5, <1>9, <1>12, <1>13

(* The namespace of a row's entry is one of three.                         *)
LEMMA RowNamespace ==
    ASSUME NEW b, NEW x \in DOMAIN Rule, NEW r
    PROVE  /\ Namespace(b, x, r) \in {"arch", "debug", "cpu"}
  BY PipelineAssumption DEF Namespace

(* The keys of rows are not bare names.                                    *)
LEMMA KeysApart ==
    ASSUME NEW t, NEW b, NEW F, RowsAre(F), NEW nm
    PROVE  BareName(nm) \notin RowKeys(t, b, F)
<1> SUFFICES ASSUME NEW q \in 1 .. Len(F) PROVE RowId(t, b, F[q]) # BareName(nm)
  BY DEF RowKeys
<1>1. Namespace(b, F[q][1], F[q][2]) # ""
  BY RowNamespace DEF RowsAre
<1>2. RowId(t, b, F[q])[1] = Namespace(b, F[q][1], F[q][2])
  BY DEF RowId, StateId, Entry
<1>3. BareName(nm)[1] = ""
  BY DEF BareName
<1> QED
  BY <1>1, <1>2, <1>3

(* A name is a key once an entry with that name was met in the prose.      *)
LEMMA NameMet ==
    ASSUME NEW t, NEW k \in Nat, NEW nm
    PROVE  BareName(nm) \in ProseKeys(t, k) <=> \E j \in 1 .. k : Prose(t)[j].name = nm
<1>1. \A a, c : BareName(a) = BareName(c) => a = c
  <2> SUFFICES ASSUME NEW a, NEW c, BareName(a) = BareName(c) PROVE a = c
    OBVIOUS
  <2>1. BareName(a)[3] = a /\ BareName(c)[3] = c
    BY DEF BareName
  <2> QED
    BY <2>1
<1> QED
  BY <1>1 DEF ProseKeys

(* A prose entry more.                                                     *)
LEMMA ImportedProse ==
    ASSUME NEW t \in Target, NEW b, NEW F, NEW es, NEW k \in Nat, k + 1 <= Len(Prose(t)),
           NEW gs, Imported(t, b, F, es, k),
           gs = es \o (IF BareName(Prose(t)[k + 1].name)
                             \in RowKeys(t, b, F) \cup ProseKeys(t, k)
                       THEN << >> ELSE <<Prose(t)[k + 1]>>)
    PROVE  /\ Imported(t, b, F, gs, k + 1)
           /\ ProseKeys(t, k + 1) = ProseKeys(t, k) \cup {BareName(Prose(t)[k + 1].name)}
<1> DEFINE e == Prose(t)[k + 1]
           n == Len(F)
           old == {es[p] : p \in Tail1(F, es)}
<1>1. n \in Nat /\ Len(es) \in Nat /\ n <= Len(es) /\ IsSeq(es) /\ RowsAre(F)
  BY SeqFacts DEF Imported, RowsAre
<1>2. BareName(e.name) \in RowKeys(t, b, F) \cup ProseKeys(t, k)
        <=> \E j \in 1 .. k : Prose(t)[j].name = e.name
  <2>1. BareName(e.name) \notin RowKeys(t, b, F)
    BY <1>1, KeysApart
  <2>2. BareName(e.name) \in ProseKeys(t, k) <=> \E j \in 1 .. k : Prose(t)[j].name = e.name
    BY NameMet
  <2> QED
    BY <2>1, <2>2
<1>3. \A j \in 1 .. (k + 1) : j \in 1 .. k \/ j = k + 1
  OBVIOUS
<1>4. 1 .. k \subseteq 1 .. (k + 1) /\ k + 1 \in 1 .. (k + 1) /\ (k + 1) - 1 = k
  OBVIOUS
<1>5. ProseKeys(t, k + 1) = ProseKeys(t, k) \cup {BareName(e.name)}
  BY <1>3, <1>4 DEF ProseKeys
<1>6. FirstNamed(t, k + 1) = FirstNamed(t, k) \cup
         (IF \E j \in 1 .. k : Prose(t)[j].name = e.name THEN {} ELSE {k + 1})
  <2>1. \A j \in 1 .. k : j \in FirstNamed(t, k + 1) <=> j \in FirstNamed(t, k)
    BY <1>4 DEF FirstNamed
  <2>2. k + 1 \in FirstNamed(t, k + 1)
          <=> ~ \E j \in 1 .. k : Prose(t)[j].name = e.name
    BY <1>4 DEF FirstNamed
  <2>3. FirstNamed(t, k) \subseteq 1 .. k /\ FirstNamed(t, k + 1) \subseteq 1 .. (k + 1)
    BY DEF FirstNamed
  <2> QED
    BY <1>3, <2>1, <2>2, <2>3
<1>7. CASE \E j \in 1 .. k : Prose(t)[j].name = e.name
  <2>1. gs = es
    <3>1. gs = es \o << >>
      BY <1>2, <1>7
    <3> QED
      BY <1>1, <3>1, SeqFacts
  <2>2. FirstNamed(t, k + 1) = FirstNamed(t, k)
    BY <1>6, <1>7
  <2>3. {es[p] : p \in Tail1(F, es)} = {Prose(t)[j] : j \in FirstNamed(t, k + 1)}
    BY <2>2 DEF Imported
  <2>4. Imported(t, b, F, es, k + 1)
    <3> HIDE DEF e, old, n
    <3> QED
      BY <2>3 DEF Imported
  <2> QED
    BY <1>5, <2>1, <2>4
<1>8. CASE ~ \E j \in 1 .. k : Prose(t)[j].name = e.name
  <2>1. gs = es \o <<e>>
    BY <1>2, <1>8
  <2> DEFINE l == Len(es)
  <2>2. IsSeq(gs) /\ Len(gs) = l + 1 /\ (\A i \in 1 .. l : gs[i] = es[i]) /\ gs[l + 1] = e
    <3> HIDE DEF e
    <3> QED
      BY <1>1, <2>1, Extended
  <2> HIDE DEF e, l
  <2>3. l \in Nat /\ n <= l
    BY <1>1 DEF l
  <2>4. \A p : p \in Tail1(F, gs) <=> p \in Tail1(F, es) \/ p = l + 1
    BY <1>1, <2>2, <2>3 DEF Tail1, l
  <2>5. \A p \in Tail1(F, es) : p \in 1 .. l /\ gs[p] = es[p] /\ p # l + 1
    BY <1>1, <2>2, <2>3 DEF Tail1, l
  <2>6. FirstNamed(t, k + 1) = FirstNamed(t, k) \cup {k + 1}
    BY <1>6, <1>8
  <2>7. old = {Prose(t)[j] : j \in FirstNamed(t, k)}
    BY DEF Imported
  <2>8. {gs[p] : p \in Tail1(F, gs)} = old \cup {e}
    <3>1. ASSUME NEW p \in Tail1(F, gs) PROVE gs[p] \in old \cup {e}
      <4>1. CASE p \in Tail1(F, es)
        BY <2>5, <4>1
      <4>2. CASE p = l + 1
        BY <2>2, <4>2
      <4> QED
        BY <2>4, <3>1, <4>1, <4>2
    <3>2. ASSUME NEW p \in Tail1(F, es) PROVE es[p] \in {gs[q] : q \in Tail1(F, gs)}
      <4>1. p \in Tail1(F, gs) /\ gs[p] = es[p]
        BY <2>4, <2>5, <3>2
      <4> QED
        BY <4>1
    <3>3. e \in {gs[q] : q \in Tail1(F, gs)}
      <4>1. l + 1 \in Tail1(F, gs) /\ gs[l + 1] = e
        BY <2>2, <2>4
      <4> QED
        BY <4>1
    <3> QED
      BY <3>1, <3>2, <3>3
  <2>9. {Prose(t)[j] : j \in FirstNamed(t, k + 1)} = old \cup {e}
    BY <2>6, <2>7 DEF e
  <2>10. \A p \in Tail1(F, es) : es[p].name # e.name
    <3> SUFFICES ASSUME NEW p \in Tail1(F, es) PROVE es[p].name # e.name
      OBVIOUS
    <3>1. es[p] \in old
      OBVIOUS
    <3>2. PICK j \in FirstNamed(t, k) : es[p] = Prose(t)[j]
      BY <2>7, <3>1
    <3> QED
      BY <1>8, <3>2 DEF FirstNamed
  <2>11. \A p, q \in Tail1(F, es) : es[p].name = es[q].name => p = q
    BY DEF Imported
  <2>12. \A p, q \in Tail1(F, gs) : gs[p].name = gs[q].name => p = q
    <3> SUFFICES ASSUME NEW p \in Tail1(F, gs), NEW q \in Tail1(F, gs), p # q,
                        gs[p].name = gs[q].name
                 PROVE  FALSE
      OBVIOUS
    <3>1. CASE p \in Tail1(F, es) /\ q \in Tail1(F, es)
      BY <2>5, <2>11, <3>1
    <3>2. CASE p \in Tail1(F, es) /\ q = l + 1
      BY <2>2, <2>5, <2>10, <3>2
    <3>3. CASE p = l + 1 /\ q \in Tail1(F, es)
      BY <2>2, <2>5, <2>10, <3>3
    <3> QED
      BY <2>4, <3>1, <3>2, <3>3
  <2>13. \A p \in 1 .. Len(F) : gs[p] = RowEntry(t, b, F, p)
    <3>1. \A p \in 1 .. n : p \in 1 .. l
      BY <1>1, <2>3
    <3>2. \A p \in 1 .. n : es[p] = RowEntry(t, b, F, p)
      BY DEF Imported
    <3> QED
      BY <2>2, <3>1, <3>2
  <2>14. Len(F) <= Len(gs)
    BY <1>1, <2>2, <2>3
  <2>15. Imported(t, b, F, gs, k + 1)
    BY <1>1, <2>2, <2>8, <2>9, <2>12, <2>13, <2>14 DEF Imported
  <2> QED
    BY <1>5, <2>15 DEF e
<1> QED
  BY <1>7, <1>8

-----------------------------------------------------------------------------
(* What follows for a manifest.                                            *)

(* The fields of the three kinds of entry a row may have.                  *)
LEMMA EntryFields ==
    ASSUME NEW t, NEW b, NEW x, NEW r, NEW e, e = Entry(t, b, x, r)
    PROVE  /\ e.name = r.name /\ e.enc = r.addr /\ e.table = x /\ e.via = "table"
           /\ e.ns = Namespace(b, x, r) /\ e.comp = Rule[x].comp
  BY DEF Entry

(* And of a repeated row, ...                                              *)
LEMMA RepeatFields ==
    ASSUME NEW t, NEW b, NEW x, NEW r, NEW e, e = Repeat(Entry(t, b, x, r))
    PROVE  /\ e.name = r.name /\ e.enc = r.addr /\ e.table = x /\ e.via = "table"
           /\ e.ns = Namespace(b, x, r) /\ e.comp = Rule[x].comp
           /\ e.class = "alias" /\ e.alias = r.name
  BY DEF Repeat, Entry

(* ... and of a reserved one.                                              *)
LEMMA ExcludedFields ==
    ASSUME NEW x, NEW r, NEW e, e = Excluded(x, r)
    PROVE  /\ e.name = r.name /\ e.enc = r.addr /\ e.table = x /\ e.via = "table"
           /\ e.class = "explicit_exclusion" /\ NoComponent(e)
  BY DEF Excluded, NoComponent

(* A row's entry tells the row; what is emitted is neither reserved nor a  *)
(* repeat.                                                                 *)
LEMMA RowEntryFields ==
    ASSUME NEW t, NEW b, NEW F, NEW p, NEW e, e = RowEntry(t, b, F, p)
    PROVE  /\ e.via = "table" /\ e.table = F[p][1] /\ e.enc = F[p][2].addr
           /\ e.name = F[p][2].name
           /\ F[p][2].reserved => e.class = "explicit_exclusion"
           /\ e.class \in Emitting =>
                 /\ ~F[p][2].reserved /\ ~ListedBefore(t, b, F, p)
                 /\ e = Entry(t, b, F[p][1], F[p][2])
<1>1. CASE F[p][2].reserved
  <2>1. e = Excluded(F[p][1], F[p][2])
    BY <1>1 DEF RowEntry
  <2> QED
    BY <1>1, <2>1, ExcludedFields DEF Emitting
<1>2. CASE ~F[p][2].reserved /\ ListedBefore(t, b, F, p)
  <2>1. e = Repeat(Entry(t, b, F[p][1], F[p][2]))
    BY <1>2 DEF RowEntry
  <2> QED
    BY <1>2, <2>1, RepeatFields DEF Emitting
<1>3. CASE ~F[p][2].reserved /\ ~ListedBefore(t, b, F, p)
  <2>1. e = Entry(t, b, F[p][1], F[p][2])
    BY <1>3 DEF RowEntry
  <2> QED
    BY <1>3, <2>1, EntryFields
<1> QED
  BY <1>1, <1>2, <1>3

(* An entry is that of a row or one of the prose.                          *)
LEMMA RowOrProse ==
    ASSUME NEW t \in Target, NEW b, NEW F, NEW es, Imported(t, b, F, es, Len(Prose(t))),
           NEW p \in 1 .. Len(es)
    PROVE  \/ p \in 1 .. Len(F) /\ es[p] = RowEntry(t, b, F, p) /\ F[p][1] \in DOMAIN Rule
           \/ p \in Tail1(F, es) /\ ProseLike(es[p])
<1>1. Len(F) \in Nat /\ Len(es) \in Nat
  BY SeqFacts DEF Imported, RowsAre
<1>2. p \in 1 .. Len(F) \/ p \in Tail1(F, es)
  BY <1>1 DEF Tail1
<1>3. CASE p \in 1 .. Len(F)
  BY <1>3 DEF Imported, RowsAre
<1>4. CASE p \in Tail1(F, es)
  <2>1. es[p] \in {es[q] : q \in Tail1(F, es)}
    BY <1>4
  <2>2. PICK j \in FirstNamed(t, Len(Prose(t))) : es[p] = Prose(t)[j]
    BY <2>1 DEF Imported
  <2>3. j \in 1 .. Len(Prose(t))
    BY DEF FirstNamed
  <2> QED
    BY <1>4, <2>2, <2>3, ProseFacts
<1> QED
  BY <1>2, <1>3, <1>4

(* Every row has its entry, in order, and nothing else is from a table.    *)
LEMMA ImportedAccounts ==
    ASSUME NEW t \in Target, NEW b, NEW F, NEW es, Imported(t, b, F, es, Len(Prose(t)))
    PROVE  /\ Len(es) >= Len(F)
           /\ \A i \in 1 .. Len(F) :
                 /\ es[i].via = "table"
                 /\ es[i].table = F[i][1] /\ es[i].enc = F[i][2].addr
                 /\ IF F[i][2].reserved THEN es[i].class = "explicit_exclusion"
                                        ELSE es[i].name = F[i][2].name
           /\ \A i \in (Len(F) + 1) .. Len(es) : es[i].via # "table"
<1>1. Len(F) \in Nat /\ Len(es) \in Nat /\ Len(F) <= Len(es)
  BY SeqFacts DEF Imported, RowsAre
<1>2. ASSUME NEW i \in 1 .. Len(F)
      PROVE  /\ es[i].via = "table"
             /\ es[i].table = F[i][1] /\ es[i].enc = F[i][2].addr
             /\ IF F[i][2].reserved THEN es[i].class = "explicit_exclusion"
                                    ELSE es[i].name = F[i][2].name
  <2>1. es[i] = RowEntry(t, b, F, i)
    BY DEF Imported
  <2> QED
    BY <2>1, RowEntryFields
<1>3. ASSUME NEW i \in (Len(F) + 1) .. Len(es)
      PROVE  es[i].via # "table"
  <2>1. i \in 1 .. Len(es) /\ i \notin 1 .. Len(F)
    BY <1>1
  <2>2. ProseLike(es[i])
    BY <2>1, RowOrProse
  <2> QED
    BY <2>2 DEF ProseLike
<1> QED
  BY <1>1, <1>2, <1>3

(* The fields of two entries with the same id.                             *)
LEMMA SameId ==
    ASSUME NEW e, NEW g, StateId(e) = StateId(g)
    PROVE  /\ e.comp = g.comp /\ e.name = g.name
           /\ NoComponent(e) <=> NoComponent(g)
<1>1. StateId(e)[2] = StateId(g)[2] /\ StateId(e)[3] = StateId(g)[3]
  OBVIOUS
<1> QED
  BY <1>1 DEF StateId, NoComponent

(* A row's entry has no component exactly if the row is reserved.          *)
LEMMA RowComponent ==
    ASSUME NEW t, NEW b, NEW F, NEW p, NEW e, e = RowEntry(t, b, F, p),
           F[p][1] \in DOMAIN Rule
    PROVE  /\ F[p][2].reserved => NoComponent(e) /\ e.class = "explicit_exclusion"
           /\ ~F[p][2].reserved =>
                 /\ e.comp = Rule[F[p][1]].comp /\ ~NoComponent(e)
                 /\ StateId(e) = RowId(t, b, F[p])
<1>1. e.comp = Rule[F[p][1]].comp => ~NoComponent(e)
  BY HasComponent
<1>2. CASE F[p][2].reserved
  <2>1. e = Excluded(F[p][1], F[p][2])
    BY <1>2 DEF RowEntry
  <2> QED
    BY <1>2, <2>1, ExcludedFields
<1>3. CASE ~F[p][2].reserved
  <2>1. PICK g : g = Entry(t, b, F[p][1], F[p][2])
    OBVIOUS
  <2>2. e = g \/ e = Repeat(g)
    BY <1>3, <2>1 DEF RowEntry
  <2>3. e.ns = g.ns /\ e.comp = g.comp /\ e.name = g.name /\ e.comp = Rule[F[p][1]].comp
    <3>1. CASE e = g
      BY <2>1, <3>1, EntryFields
    <3>2. CASE e = Repeat(g)
      BY <2>1, <3>2, EntryFields, RepeatFields
    <3> QED
      BY <2>2, <3>1, <3>2
  <2>4. StateId(e) = StateId(g)
    BY <2>3 DEF StateId
  <2> QED
    BY <1>1, <1>3, <2>1, <2>3, <2>4 DEF RowId
<1> QED
  BY <1>2, <1>3

(* A later entry with the id of an earlier one is an alias of its name, or *)
(* no state at the id of a reserved row.                                   *)
LEMMA ImportedOnce ==
    ASSUME NEW t \in Target, NEW b, NEW F, NEW es, Imported(t, b, F, es, Len(Prose(t))),
           NEW i \in 1 .. Len(es), NEW j \in 1 .. Len(es), i < j,
           StateId(es[i]) = StateId(es[j])
    PROVE  \/ es[j].class = "alias" /\ es[j].alias = es[j].name
           \/ es[i].class = "explicit_exclusion" /\ es[j].class \notin Emitting
<1>1. Len(F) \in Nat /\ Len(es) \in Nat
  BY SeqFacts DEF Imported, RowsAre
<1>2. /\ es[i].comp = es[j].comp /\ es[i].name = es[j].name
      /\ NoComponent(es[i]) <=> NoComponent(es[j])
  BY SameId
<1>3. CASE j \in 1 .. Len(F)
  <2>1. i \in 1 .. Len(F) /\ i \in 1 .. (j - 1)
    BY <1>1, <1>3
  <2>2. /\ es[i] = RowEntry(t, b, F, i) /\ F[i][1] \in DOMAIN Rule
        /\ es[j] = RowEntry(t, b, F, j) /\ F[j][1] \in DOMAIN Rule
    BY <1>3, <2>1 DEF Imported, RowsAre
  <2>3. F[i][2].reserved <=> F[j][2].reserved
    BY <1>2, <2>2, RowComponent
  <2>4. CASE F[j][2].reserved
    BY <2>2, <2>3, <2>4, RowComponent DEF Emitting
  <2>5. CASE ~F[j][2].reserved
    <3>1. RowId(t, b, F[i]) = RowId(t, b, F[j])
      BY <2>2, <2>3, <2>5, RowComponent
    <3>2. ListedBefore(t, b, F, j)
      BY <2>1, <2>3, <2>5, <3>1 DEF ListedBefore
    <3>3. es[j] = Repeat(Entry(t, b, F[j][1], F[j][2]))
      BY <2>2, <2>5, <3>2 DEF RowEntry
    <3> QED
      BY <3>3, RepeatFields
  <2> QED
    BY <2>4, <2>5
<1>4. CASE j \in Tail1(F, es) /\ ProseLike(es[j])
  <2>1. CASE i \in 1 .. Len(F) /\ es[i] = RowEntry(t, b, F, i) /\ F[i][1] \in DOMAIN Rule
    <3>1. F[i][2].reserved
      BY <1>2, <1>4, <2>1, RowComponent DEF ProseLike
    <3>2. NoComponent(es[i]) /\ es[i].class = "explicit_exclusion"
      BY <2>1, <3>1, RowComponent
    <3> QED
      BY <1>2, <1>4, <3>2 DEF ProseLike
  <2>2. CASE i \in Tail1(F, es)
    BY <1>2, <1>4, <2>2 DEF Imported
  <2> QED
    BY <2>1, <2>2, RowOrProse
<1> QED
  BY <1>3, <1>4, RowOrProse

(* An overlay emits what its base has only by a decision or for debugging. *)
LEMMA ImportedReemits ==
    ASSUME NEW b, NEW F, NEW es, Imported("cpu", b, F, es, Len(Prose("cpu"))),
           NEW i \in 1 .. Len(es), es[i].class \in Emitting,
           es[i].name \in b.names \/ es[i].enc \in b.addrs
    PROVE  Decided(es[i]) \/ (es[i].ns = "debug" /\ ~es[i].snapshot)
<1>1. "cpu" \in Target
  BY DEF Target
<1>2. CASE ProseLike(es[i])
  BY <1>2 DEF ProseLike, Decided
<1>3. CASE i \in 1 .. Len(F) /\ es[i] = RowEntry("cpu", b, F, i) /\ F[i][1] \in DOMAIN Rule
  <2>1. PICK x, r : x = F[i][1] /\ r = F[i][2]
    OBVIOUS
  <2>2. PICK e : e = es[i]
    OBVIOUS
  <2>3. e = Entry("cpu", b, x, r) /\ x \in DOMAIN Rule
    BY <1>3, <2>1, <2>2, RowEntryFields
  <2>4. /\ e.name = r.name /\ e.enc = r.addr /\ e.table = x
        /\ e.ns = Namespace(b, x, r)
    BY <2>3, EntryFields
  <2>5. /\ e.class = ClassOf("cpu", b, x, r)
        /\ e.snapshot = IsSnapshot(ClassOf("cpu", b, x, r), r, Namespace(b, x, r))
    BY <2>3 DEF Entry
  <2>6. Rule[x].ns \in {"arch", "debug", "auto"}
    BY <2>3, PipelineAssumption
  <2>7. CASE Rule[x].ns = "arch"
    BY <2>2, <2>4, <2>7 DEF Decided
  <2>8. CASE Rule[x].ns = "debug"
    <3>1. Namespace(b, x, r) = "debug"
      BY <2>8 DEF Namespace
    <3>2. ~e.snapshot
      BY <2>5, <3>1 DEF IsSnapshot
    <3> QED
      BY <2>2, <2>4, <3>1, <3>2
  <2>9. CASE Rule[x].ns = "auto"
    <3>1. Architectural(b, x, r)
      BY <2>2, <2>4, <2>9 DEF Architectural
    <3>2. Overridden("cpu", r.name) \/ Rule[x].class # ""
      BY <2>2, <2>5, <3>1 DEF ClassOf, Emitting
    <3> QED
      BY <2>2, <2>4, <3>2 DEF Decided, Overridden
  <2> QED
    BY <2>6, <2>7, <2>8, <2>9
<1> QED
  BY <1>1, <1>2, <1>3, RowOrProse

-----------------------------------------------------------------------------
(* What follows for a diff: the manifest es was imported on the base b,    *)
(* the fresh entries es0 on the base b0 with the same names and no         *)
(* addresses.                                                              *)

(* Some row with this name is architectural by its address alone.          *)
Respelt(b, es, nm) ==
    \E i \in 1 .. Len(es) : es[i].name = nm /\ nm \notin b.names /\ es[i].enc \in b.addrs

(* The base matters to an entry only through Architectural.                *)
LEMMA SameEntry ==
    ASSUME NEW t, NEW b, NEW b0, NEW x, NEW r,
           Architectural(b, x, r) <=> Architectural(b0, x, r)
    PROVE  Entry(t, b, x, r) = Entry(t, b0, x, r)
<1>1. Namespace(b, x, r) = Namespace(b0, x, r)
  BY DEF Namespace
<1>2. ClassOf(t, b, x, r) = ClassOf(t, b0, x, r)
  BY DEF ClassOf
<1> QED
  BY <1>1, <1>2 DEF Entry

(* A row whose name is not respelt has the same entry on both bases, ...   *)
LEMMA SameRowEntry ==
    ASSUME NEW t, NEW b, NEW b0, b0.names = b.names, b0.addrs = {},
           NEW F, NEW es, NEW k, Imported(t, b, F, es, k), NEW p \in 1 .. Len(F),
           ~Respelt(b, es, F[p][2].name)
    PROVE  Entry(t, b, F[p][1], F[p][2]) = Entry(t, b0, F[p][1], F[p][2])
<1>1. Len(F) \in Nat /\ Len(es) \in Nat /\ Len(F) <= Len(es)
  BY SeqFacts DEF Imported, RowsAre
<1>2. p \in 1 .. Len(es) /\ es[p] = RowEntry(t, b, F, p)
  BY <1>1 DEF Imported
<1>3. es[p].name = F[p][2].name /\ es[p].enc = F[p][2].addr
  BY <1>2, RowEntryFields
<1>4. F[p][2].name \notin b.names => F[p][2].addr \notin b.addrs
  BY <1>2, <1>3 DEF Respelt
<1>5. Architectural(b, F[p][1], F[p][2]) <=> Architectural(b0, F[p][1], F[p][2])
  BY <1>4 DEF Architectural
<1> QED
  BY <1>5, SameEntry

(* ... and is a repeat on both or on none.                                 *)
LEMMA SameRow ==
    ASSUME NEW t, NEW b, NEW b0, b0.names = b.names, b0.addrs = {},
           NEW F, NEW es, NEW k, Imported(t, b, F, es, k), NEW p \in 1 .. Len(F),
           ~Respelt(b, es, F[p][2].name)
    PROVE  RowEntry(t, b, F, p) = RowEntry(t, b0, F, p)
<1>1. \A q \in 1 .. (p - 1) : q \in 1 .. Len(F)
  BY SeqFacts DEF Imported, RowsAre
<1>2. Entry(t, b, F[p][1], F[p][2]) = Entry(t, b0, F[p][1], F[p][2])
  BY SameRowEntry
<1>3. \A c, f : RowId(t, c, f)[3] = f[2].name
  <2> SUFFICES ASSUME NEW c, NEW f PROVE RowId(t, c, f)[3] = f[2].name
    OBVIOUS
  <2>1. PICK e : e = Entry(t, c, f[1], f[2])
    OBVIOUS
  <2>2. e.name = f[2].name
    BY <2>1, EntryFields
  <2> QED
    BY <2>1, <2>2 DEF RowId, StateId
<1>4. ASSUME NEW q \in 1 .. (p - 1)
      PROVE  RowId(t, b, F[q]) = RowId(t, b, F[p]) <=> RowId(t, b0, F[q]) = RowId(t, b0, F[p])
  <2>1. CASE F[q][2].name # F[p][2].name
    BY <1>3, <2>1
  <2>2. CASE F[q][2].name = F[p][2].name
    <3>1. Entry(t, b, F[q][1], F[q][2]) = Entry(t, b0, F[q][1], F[q][2])
      BY <1>1, <2>2, SameRowEntry
    <3> QED
      BY <1>2, <3>1 DEF RowId
  <2> QED
    BY <2>1, <2>2
<1>5. ListedBefore(t, b, F, p) <=> ListedBefore(t, b0, F, p)
  BY <1>4 DEF ListedBefore
<1> QED
  BY <1>2, <1>5 DEF RowEntry

(* Two lists that agree on the name nm, in their first n entries place by  *)
(* place and in the others as sets with distinct names, are indexed alike  *)
(* under that name.                                                        *)
LEMMA SameIndex ==
    ASSUME NEW n \in Nat, NEW u, NEW v, IsSeq(u), IsSeq(v), n <= Len(u), n <= Len(v),
           NEW nm,
           \A p \in 1 .. n : u[p].name = v[p].name,
           \A p \in 1 .. n : u[p].name = nm => u[p] = v[p],
           {u[p] : p \in (n + 1) .. Len(u)} = {v[p] : p \in (n + 1) .. Len(v)},
           \A p, q \in (n + 1) .. Len(v) : v[p].name = v[q].name => p = q,
           NEW e \in Index(u), e.name = nm
    PROVE  e \in Index(v)
<1>1. Len(u) \in Nat /\ Len(v) \in Nat
  BY SeqFacts
<1>2. PICK i \in 1 .. Len(u) :
         e = u[i] /\ \A j \in (i + 1) .. Len(u) : StateId(u[j]) # StateId(u[i])
  BY DEF Index
<1>3. \A a, c : StateId(a) = StateId(c) => a.name = c.name
  <2> SUFFICES ASSUME NEW a, NEW c, StateId(a) = StateId(c) PROVE a.name = c.name
    OBVIOUS
  <2>1. StateId(a)[3] = StateId(c)[3]
    OBVIOUS
  <2> QED
    BY <2>1 DEF StateId
<1>4. ASSUME NEW k \in 1 .. Len(v), v[k] = e,
             \A j \in (k + 1) .. Len(v) : StateId(v[j]) # StateId(v[k])
      PROVE  e \in Index(v)
  BY <1>4 DEF Index
<1>5. CASE i \in 1 .. n
  <2>1. i \in 1 .. Len(v) /\ v[i] = e
    BY <1>1, <1>2, <1>5
  <2>2. ASSUME NEW j \in (i + 1) .. Len(v), StateId(v[j]) = StateId(v[i])
        PROVE  FALSE
    <3>1. v[j].name = nm
      BY <1>3, <2>1, <2>2
    <3>2. CASE j \in 1 .. n
      <4>1. u[j] = v[j]
        BY <3>1, <3>2
      <4>2. j \in (i + 1) .. Len(u)
        BY <1>1, <1>5, <3>2
      <4> QED
        BY <1>2, <2>1, <2>2, <4>1, <4>2
    <3>3. CASE j \notin 1 .. n
      <4>1. j \in (n + 1) .. Len(v)
        BY <1>1, <1>5, <3>3
      <4>2. v[j] \in {v[p] : p \in (n + 1) .. Len(v)}
        BY <4>1
      <4>3. PICK l \in (n + 1) .. Len(u) : u[l] = v[j]
        <5>1. v[j] \in {u[p] : p \in (n + 1) .. Len(u)}
          BY <4>2
        <5> QED
          BY <5>1
      <4>4. l \in (i + 1) .. Len(u)
        BY <1>1, <1>5
      <4> QED
        BY <1>2, <2>1, <2>2, <4>3, <4>4
    <3> QED
      BY <3>2, <3>3
  <2> QED
    BY <1>4, <2>1, <2>2
<1>6. CASE i \notin 1 .. n
  <2>1. i \in (n + 1) .. Len(u)
    BY <1>1, <1>6
  <2>2. e \in {u[p] : p \in (n + 1) .. Len(u)}
    BY <1>2, <2>1
  <2>3. PICK k \in (n + 1) .. Len(v) : v[k] = e
    BY <2>2
  <2>4. k \in 1 .. Len(v)
    BY <1>1
  <2>5. ASSUME NEW j \in (k + 1) .. Len(v), StateId(v[j]) = StateId(v[k])
        PROVE  FALSE
    <3>1. v[j].name = v[k].name
      BY <1>3, <2>5
    <3>2. j \in (n + 1) .. Len(v) /\ j # k
      BY <1>1
    <3> QED
      BY <3>1, <3>2
  <2> QED
    BY <1>4, <2>3, <2>4, <2>5
<1> QED
  BY <1>5, <1>6

(* What the diff reports has the name of a respelt row.                    *)
LEMMA DiffRespelt ==
    ASSUME NEW t \in Target, NEW b, NEW b0, b0.names = b.names, b0.addrs = {},
           NEW F, NEW es, NEW es0,
           Imported(t, b, F, es, Len(Prose(t))), Imported(t, b0, F, es0, Len(Prose(t))),
           NEW c \in ({Compared(e) : e \in Index(es)} \ {Compared(e) : e \in Index(es0)})
                     \cup ({Compared(e) : e \in Index(es0)} \ {Compared(e) : e \in Index(es)})
    PROVE  Respelt(b, es, c[1][3])
<1> DEFINE n == Len(F)
<1>1. /\ n \in Nat /\ IsSeq(es) /\ IsSeq(es0) /\ n <= Len(es) /\ n <= Len(es0)
  BY SeqFacts DEF Imported, RowsAre
<1>2. /\ \A p \in 1 .. n : es[p] = RowEntry(t, b, F, p)
      /\ \A p \in 1 .. n : es0[p] = RowEntry(t, b0, F, p)
  BY DEF Imported
<1>3. \A p \in 1 .. n : es[p].name = F[p][2].name /\ es0[p].name = F[p][2].name
  BY <1>2, RowEntryFields
<1>4. {es[p] : p \in (n + 1) .. Len(es)} = {es0[p] : p \in (n + 1) .. Len(es0)}
  BY DEF Imported, Tail1
<1>5. /\ \A p, q \in (n + 1) .. Len(es) : es[p].name = es[q].name => p = q
      /\ \A p, q \in (n + 1) .. Len(es0) : es0[p].name = es0[q].name => p = q
  BY DEF Imported, Tail1
<1>6. ASSUME NEW nm, ~Respelt(b, es, nm)
      PROVE  \A p \in 1 .. n : F[p][2].name = nm => es[p] = es0[p]
  BY <1>2, <1>6, SameRow
<1> HIDE DEF n
<1>7. ASSUME NEW e \in Index(es), ~Respelt(b, es, e.name)
      PROVE  e \in Index(es0)
  <2>1. \A p \in 1 .. n : es[p].name = es0[p].name
    BY <1>3
  <2>2. \A p \in 1 .. n : es[p].name = e.name => es[p] = es0[p]
    BY <1>3, <1>6, <1>7
  <2> QED
    BY <1>1, <1>4, <1>5, <2>1, <2>2, SameIndex
<1>8. ASSUME NEW e \in Index(es0), ~Respelt(b, es, e.name)
      PROVE  e \in Index(es)
  <2>1. \A p \in 1 .. n : es0[p].name = es[p].name
    BY <1>3
  <2>2. \A p \in 1 .. n : es0[p].name = e.name => es0[p] = es[p]
    BY <1>3, <1>6, <1>8
  <2> QED
    BY <1>1, <1>4, <1>5, <2>1, <2>2, SameIndex
<1>9. \A e : Compared(e)[1][3] = e.name
  BY DEF Compared, StateId
<1>10. PICK e : /\ c = Compared(e)
               /\ \/ e \in Index(es) /\ e \notin Index(es0)
                  \/ e \in Index(es0) /\ e \notin Index(es)
  OBVIOUS
<1> QED
  BY <1>7, <1>8, <1>9, <1>10

-----------------------------------------------------------------------------
(* The inductive invariant.                                                *)

(* The first k rows of table x.                                            *)
FirstRows(x, m, k) == [j \in 1 .. k |-> <<x, m.rows[x][j]>>]

(* The rows and the number of prose entries that a running import has met. *)
Visited ==
    IF pc = "rows"
    THEN RowsUpTo(tgt, manual[tgt])[at - 1]
            \o FirstRows(Tables[tgt][at], manual[tgt], row - 1)
    ELSE RowsUpTo(tgt, manual[tgt])[at - 1]

Met == IF pc = "prose" THEN row - 1 ELSE 0

(* Types; the manuals are among those that can be on disk.                 *)
Types ==
    /\ pc \in {"idle", "tables", "rows", "prose"}
    /\ tgt \in Target
    /\ manual = [t \in Target |-> manual[t]] /\ \A t \in Target : manual[t] \in Manuals[t]
    /\ manifest = [t \in Target |-> manifest[t]]

(* Where a running import stands.                                          *)
Place ==
    /\ pc # "idle" =>
          /\ at \in 1 .. (Len(Tables[tgt]) + 1) /\ row \in Nat \ {0}
          /\ IsSeq(RowsUpTo(tgt, manual[tgt])[at - 1])
    /\ pc = "rows" =>
          /\ at <= Len(Tables[tgt])
          /\ Tables[tgt][at] \in DOMAIN manual[tgt].rows
          /\ row <= Len(manual[tgt].rows[Tables[tgt][at]]) + 1
    /\ pc = "prose" => at = Len(Tables[tgt]) + 1 /\ row <= Len(Prose(tgt)) + 1

(* What it has built, and what it knows to have built.                     *)
Built ==
    pc # "idle" =>
        /\ Imported(tgt, base, Visited, entries, Met)
        /\ seen = RowKeys(tgt, base, Visited) \cup ProseKeys(tgt, Met)

(* On what it was started.                                                 *)
Given ==
    pc # "idle" =>
        /\ cmd # "diff" /\ tgt = "arch" => base = NoBase
        /\ cmd = "diff" => manifest[tgt].written /\ base = DiffBase(tgt)

(* A manifest on disk was built so, from a whole manual.                   *)
Sound(t, m) ==
    /\ m.written
    /\ Imported(t, m.base, RowsOf(t, m.of), m.entries, Len(Prose(t)))
    /\ t = "arch" => m.base = NoBase

(* Every manifest on disk is.                                              *)
OnDisk == \A t \in Target : manifest[t] = NoManifest \/ Sound(t, manifest[t])

(* The report is of the last diff, and right.                              *)
Reported == (pc # "idle" => report = NoReport) /\ DiffMissesOnlyAddresses

(* The inductive invariant of the four theorems.                           *)
PipelineInv == Types /\ Place /\ Built /\ Given /\ OnDisk /\ Reported

(* A diff that reported nothing is right.                                  *)
LEMMA NothingReported ==
    ASSUME report = NoReport
    PROVE  DiffMissesOnlyAddresses
  BY DEF DiffMissesOnlyAddresses

(* A command begins.                                                       *)
LEMMA StartKeeps ==
    ASSUME PipelineInv, NEW c, NEW t \in Target, NEW b, Start(c, t, b),
           pc' \in {"tables", "idle"},
           c # "diff" /\ t = "arch" => b = NoBase,
           c = "diff" => manifest[t].written /\ b = DiffBase(t)
    PROVE  PipelineInv'
<1>1. /\ cmd' = c /\ tgt' = t /\ base' = b /\ at' = 1 /\ row' = 1
      /\ entries' = << >> /\ seen' = {} /\ report' = NoReport
      /\ manual' = manual /\ manifest' = manifest
  BY DEF Start, files, outputs
<1>2. Types'
  BY <1>1 DEF PipelineInv, Types
<1>3. Len(Tables[t]) \in Nat
  BY PipelineAssumption, LenProperties
<1>4. Place'
  <2>1. RowsUpTo(t, manual[t])[0] = << >>
    BY RowsStep
  <2>2. IsSeq(<< >>)
    BY EmptySeq DEF IsSeq
  <2>3. IsSeq(RowsUpTo(t, manual[t])[1 - 1])
    <3>1. 1 - 1 = 0
      OBVIOUS
    <3> QED
      BY <2>1, <2>2, <3>1
  <2> QED
    BY <1>1, <1>3, <2>3 DEF Place
<1>5. Built'
  <2>1. RowsUpTo(t, manual[t])[0] = << >>
    BY RowsStep
  <2>2. Visited' = << >> /\ Met' = 0
    BY <1>1, <2>1 DEF Visited, Met
  <2>3. /\ Imported(t, b, << >>, << >>, 0)
        /\ RowKeys(t, b, << >>) = {} /\ ProseKeys(t, 0) = {}
    BY ImportedNothing
  <2>4. Imported(tgt', base', Visited', entries', Met')
    BY <1>1, <2>2, <2>3
  <2>5. seen' = RowKeys(tgt', base', Visited') \cup ProseKeys(tgt', Met')
    BY <1>1, <2>2, <2>3
  <2> QED
    BY <2>4, <2>5 DEF Built
<1>6. Given'
  BY <1>1 DEF Given, DiffBase
<1>7. OnDisk'
  BY <1>1 DEF PipelineInv, OnDisk
<1>8. Reported'
  BY <1>1 DEF Reported, DiffMissesOnlyAddresses
<1> QED
  BY <1>2, <1>4, <1>5, <1>6, <1>7, <1>8 DEF PipelineInv

(* state_import and state_source_diff.                                     *)
LEMMA BeginKeeps ==
    ASSUME PipelineInv, NEW t \in Target, state_import(t) \/ state_source_diff(t)
    PROVE  PipelineInv'
<1>1. CASE state_import(t)
  <2> DEFINE b == IF t = "cpu" THEN BaseOf(manifest["arch"].entries) ELSE NoBase
  <2>1. Start("import", t, b) /\ pc' \in {"tables", "idle"}
    BY <1>1 DEF state_import, Begin
  <2>2. t = "arch" => b = NoBase
    OBVIOUS
  <2> HIDE DEF b
  <2> QED
    BY <2>1, <2>2, StartKeeps
<1>2. CASE state_source_diff(t)
  <2>1. Start("diff", t, DiffBase(t)) /\ pc' \in {"tables", "idle"} /\ manifest[t].written
    BY <1>2 DEF state_source_diff, Begin
  <2> QED
    BY <2>1, StartKeeps
<1> QED
  BY <1>1, <1>2

(* Steps that change nothing the invariant speaks of.                      *)
LEMMA FrameKeeps ==
    ASSUME PipelineInv, UNCHANGED <<pc, tgt, cmd, base, at, row, entries, seen, report>>,
           UNCHANGED <<manual, manifest>>
    PROVE  PipelineInv'
<1>1. Types' /\ Place' /\ Given' /\ OnDisk'
  BY DEF PipelineInv, Types, Place, Given, OnDisk, DiffBase
<1>2. Visited' = Visited /\ Met' = Met
  BY DEF Visited, Met
<1>3. Built'
  BY <1>2 DEF PipelineInv, Built
<1>4. Reported'
  BY DEF PipelineInv, Reported, DiffMissesOnlyAddresses, Unchanged
<1> QED
  BY <1>1, <1>3, <1>4 DEF PipelineInv

(* A step to "idle" that leaves the files alone and has nothing to report. *)
LEMMA IdleKeeps ==
    ASSUME PipelineInv, pc' = "idle", tgt' = tgt, report' = NoReport, Types', OnDisk'
    PROVE  PipelineInv'
  BY DEF PipelineInv, Place, Built, Given, Reported, DiffMissesOnlyAddresses

(* Another manual.                                                         *)
LEMMA NewManualKeeps ==
    ASSUME PipelineInv, NEW t \in Target, NewManual(t)
    PROVE  PipelineInv'
<1>1. PICK m \in Manuals[t] : manual' = [manual EXCEPT ![t] = m]
  BY DEF NewManual
<1>2. pc' = "idle" /\ tgt' = tgt /\ report' = NoReport /\ manifest' = manifest
  BY DEF NewManual, outputs, work
<1>3. Types'
  BY <1>1, <1>2 DEF PipelineInv, Types
<1>4. OnDisk'
  BY <1>2 DEF PipelineInv, OnDisk
<1> QED
  BY <1>2, <1>3, <1>4, IdleKeeps

(* A SourceError.                                                          *)
LEMMA RaiseKeeps ==
    ASSUME PipelineInv, pc # "idle", Raise, UNCHANGED <<files, outputs>>
    PROVE  PipelineInv'
<1>1. /\ pc' = "idle" /\ tgt' = tgt /\ report' = NoReport
      /\ manifest' = manifest /\ manual' = manual
  BY DEF Raise, work, files, outputs, PipelineInv, Reported
<1>2. Types' /\ OnDisk'
  BY <1>1 DEF PipelineInv, Types, OnDisk
<1> QED
  BY <1>1, <1>2, IdleKeeps

(* A step of a running import.                                             *)
LEMMA RunningKeeps ==
    ASSUME PipelineInv, pc # "idle", pc' \in {"tables", "rows", "prose"},
           UNCHANGED <<cmd, tgt, base, report>>, UNCHANGED <<manual, manifest>>,
           Place', Built'
    PROVE  PipelineInv'
<1>1. Types' /\ OnDisk' /\ Given'
  BY DEF PipelineInv, Types, OnDisk, Given, DiffBase
<1>2. Reported'
  BY DEF PipelineInv, Reported, DiffMissesOnlyAddresses
<1> QED
  BY <1>1, <1>2 DEF PipelineInv

(* The same rows, and one row more.                                        *)
SameRows(u, v) == u = v
OneMore(u, v, f) == v = u \o <<f>>

(* The first k + 1 rows of a table are the first k and one more.           *)
LEMMA OneMoreRow ==
    ASSUME NEW x, NEW m, NEW k \in Nat, NEW R, IsSeq(R)
    PROVE  /\ SameRows(R \o FirstRows(x, m, 0), R)
           /\ OneMore(R \o FirstRows(x, m, k), R \o FirstRows(x, m, k + 1),
                      <<x, m.rows[x][k + 1]>>)
<1> DEFINE Row(j) == <<x, m.rows[x][j]>>
<1>1. ASSUME NEW l \in Nat
      PROVE  /\ IsSeq(FirstRows(x, m, l)) /\ Len(FirstRows(x, m, l)) = l
             /\ \A j \in 1 .. l : FirstRows(x, m, l)[j] = Row(j)
  <2> HIDE DEF Row
  <2>1. PICK g : g = FirstRows(x, m, l)
    OBVIOUS
  <2>2. g = [j \in 1 .. l |-> Row(j)]
    BY <2>1 DEF FirstRows, Row
  <2>3. g = [j \in 1 .. l |-> g[j]] /\ \A j \in 1 .. l : g[j] = Row(j)
    BY <2>2
  <2>4. IsSeq(g) /\ Len(g) = l
    BY <2>3, FunctionSeq
  <2> QED
    BY <2>1, <2>3, <2>4
<1> HIDE DEF Row
<1>2. R \o FirstRows(x, m, 0) = R
  <2>1. FirstRows(x, m, 0) = << >>
    <3>1. IsSeq(<< >>) /\ Len(<< >>) = 0
      BY EmptySeq DEF IsSeq
    <3>2. IsSeq(FirstRows(x, m, 0)) /\ Len(FirstRows(x, m, 0)) = 0
      BY <1>1
    <3> QED
      BY <3>1, <3>2, SameSeq
  <2> QED
    BY <2>1, SeqFacts
<1>3. PICK n \in Nat : n = Len(R)
  BY SeqFacts
<1>4. PICK g : g = FirstRows(x, m, k)
  OBVIOUS
<1>5. PICK h : h = FirstRows(x, m, k + 1)
  OBVIOUS
<1>6. IsSeq(g) /\ Len(g) = k /\ \A j \in 1 .. k : g[j] = Row(j)
  BY <1>1, <1>4
<1>7. IsSeq(h) /\ Len(h) = k + 1 /\ \A j \in 1 .. (k + 1) : h[j] = Row(j)
  BY <1>1, <1>5
<1>8. PICK u : u = R \o g
  OBVIOUS
<1>9. PICK v : v = u \o <<Row(k + 1)>>
  OBVIOUS
<1>10. PICK w : w = R \o h
  OBVIOUS
<1>11. /\ IsSeq(u) /\ Len(u) = n + k
       /\ (\A i \in 1 .. n : u[i] = R[i]) /\ (\A j \in 1 .. k : u[n + j] = g[j])
  BY <1>3, <1>6, <1>8, Joined
<1>12. /\ IsSeq(v) /\ Len(v) = n + k + 1
       /\ (\A i \in 1 .. (n + k) : v[i] = u[i]) /\ v[n + k + 1] = Row(k + 1)
  BY <1>9, <1>11, Extended
<1>13. /\ IsSeq(w) /\ Len(w) = n + (k + 1)
       /\ (\A i \in 1 .. n : w[i] = R[i]) /\ (\A j \in 1 .. (k + 1) : w[n + j] = h[j])
  BY <1>3, <1>7, <1>10, Joined
<1>14. ASSUME NEW i \in 1 .. Len(w)
       PROVE  w[i] = v[i]
  <2>1. CASE i \in 1 .. n
    <3>1. i \in 1 .. (n + k)
      BY <2>1
    <3> QED
      BY <1>11, <1>12, <1>13, <2>1, <3>1
  <2>2. CASE i \in (n + 1) .. (n + k)
    <3>1. PICK j \in 1 .. k : i = n + j
      <4>1. i - n \in 1 .. k /\ i = n + (i - n)
        BY <2>2
      <4> QED
        BY <4>1
    <3>2. i \in 1 .. (n + k) /\ j \in 1 .. (k + 1)
      BY <3>1
    <3>3. v[i] = Row(j)
      BY <1>6, <1>11, <1>12, <3>1, <3>2
    <3>4. w[i] = Row(j)
      BY <1>7, <1>13, <3>1, <3>2
    <3> QED
      BY <3>3, <3>4
  <2>3. CASE i = n + (k + 1)
    <3>1. k + 1 \in 1 .. (k + 1) /\ n + k + 1 = n + (k + 1)
      OBVIOUS
    <3>2. w[n + (k + 1)] = Row(k + 1)
      BY <1>7, <1>13, <3>1
    <3>3. v[n + (k + 1)] = Row(k + 1)
      BY <1>12, <3>1
    <3> QED
      BY <2>3, <3>2, <3>3
  <2>4. i \in 1 .. n \/ i \in (n + 1) .. (n + k) \/ i = n + (k + 1)
    BY <1>13
  <2> QED
    BY <2>1, <2>2, <2>3, <2>4
<1>15. w = v
  <2>1. Len(w) = Len(v)
    BY <1>12, <1>13
  <2> QED
    BY <1>12, <1>13, <1>14, <2>1, SameSeq
<1> QED
  BY <1>2, <1>4, <1>5, <1>8, <1>9, <1>10, <1>15 DEF Row, SameRows, OneMore

(* What the steps of a running import know of its tables.                  *)
LEMMA RunningFacts ==
    ASSUME PipelineInv, pc # "idle"
    PROVE  /\ tgt \in Target /\ Len(Tables[tgt]) \in Nat /\ at \in Nat \ {0}
           /\ at \in 1 .. Len(Tables[tgt]) => Tables[tgt][at] \in DOMAIN Rule
           /\ \A x \in DOMAIN manual[tgt].rows : Len(manual[tgt].rows[x]) \in Nat
<1>1. tgt \in Target /\ manual[tgt] \in Manuals[tgt]
  BY DEF PipelineInv, Types
<1>2. Tables[tgt] \in Seq(DOMAIN Rule)
  BY <1>1, PipelineAssumption
<1>3. Len(Tables[tgt]) \in Nat
  BY <1>2, LenProperties
<1>4. at \in Nat \ {0}
  BY <1>3 DEF PipelineInv, Place
<1>5. at \in 1 .. Len(Tables[tgt]) => Tables[tgt][at] \in DOMAIN Rule
  BY <1>2, ElementOfSeq
<1>6. \A x \in DOMAIN manual[tgt].rows : manual[tgt].rows[x] \in Seq(RowType)
  BY <1>1, PipelineAssumption
<1> QED
  BY <1>1, <1>3, <1>4, <1>5, <1>6, LenProperties

(* A table is opened: nothing of it was met yet.                           *)
LEMMA OpenTableKeeps ==
    ASSUME PipelineInv, OpenTable
    PROVE  PipelineInv'
<1> DEFINE x == Tables[tgt][at]
           m == manual[tgt]
<1>1. pc = "tables" /\ at <= Len(Tables[tgt]) /\ UNCHANGED <<files, outputs>>
  BY DEF OpenTable
<1>2. CASE Raise
  BY <1>1, <1>2, RaiseKeeps
<1>3. CASE /\ x \in DOMAIN m.rows \ m.unparsed
           /\ pc' = "rows" /\ row' = 1
           /\ UNCHANGED <<cmd, tgt, base, at, entries, seen, report>>
  <2>1. /\ manual' = manual /\ manifest' = manifest /\ x \in DOMAIN m.rows
        /\ pc' = "rows" /\ row' = 1 /\ at' = at /\ tgt' = tgt /\ base' = base
        /\ cmd' = cmd /\ entries' = entries /\ seen' = seen /\ report' = report
    BY <1>1, <1>3 DEF files, outputs
  <2>2. Len(m.rows[x]) \in Nat
    BY <1>1, <2>1, RunningFacts
  <2>3. Place'
    BY <1>1, <2>1, <2>2 DEF PipelineInv, Place
  <2>4. PICK R : R = RowsUpTo(tgt, m)[at - 1]
    OBVIOUS
  <2>5. IsSeq(R)
    BY <1>1, <2>4 DEF PipelineInv, Place
  <2>6. R \o FirstRows(x, m, 0) = R
    <3>1. PICK y : y = x
      OBVIOUS
    <3>2. PICK d : d = m
      OBVIOUS
    <3>3. 0 \in Nat
      OBVIOUS
    <3>4. SameRows(R \o FirstRows(y, d, 0), R)
      BY <2>5, <3>3, OneMoreRow, Zenon
    <3> QED
      BY <3>1, <3>2, <3>4 DEF SameRows
  <2>7. Visited = R /\ Met = 0
    BY <1>1, <2>4 DEF Visited, Met
  <2>8. Visited' = R /\ Met' = 0
    <3>1. Visited' = R \o FirstRows(x, m, 1 - 1)
      BY <2>1, <2>4 DEF Visited
    <3>2. Met' = 0
      BY <2>1 DEF Met
    <3>3. 1 - 1 = 0
      OBVIOUS
    <3> QED
      BY <2>6, <3>1, <3>2, <3>3
  <2>9. Built'
    BY <1>1, <2>1, <2>7, <2>8 DEF PipelineInv, Built
  <2> QED
    BY <1>1, <2>1, <2>3, <2>9, RunningKeeps
<1> QED
  BY <1>2, <1>3 DEF OpenTable

(* A record is added, or the table is done.                                *)
LEMMA ImportRowKeeps ==
    ASSUME PipelineInv, ImportRow
    PROVE  PipelineInv'
<1> DEFINE x == Tables[tgt][at]
           m == manual[tgt]
           recs == m.rows[x]
<1>1. /\ pc = "rows" /\ manual' = manual /\ manifest' = manifest
      /\ cmd' = cmd /\ tgt' = tgt /\ base' = base /\ report' = report
  BY DEF ImportRow, files, outputs
<1>2. /\ at \in 1 .. Len(Tables[tgt]) /\ row \in Nat \ {0} /\ x \in DOMAIN m.rows
      /\ row <= Len(recs) + 1
  <2>1. at \in Nat \ {0} /\ Len(Tables[tgt]) \in Nat
    BY <1>1, RunningFacts
  <2> QED
    BY <1>1, <2>1 DEF PipelineInv, Place
<1>3. /\ tgt \in Target /\ x \in DOMAIN Rule /\ Len(recs) \in Nat
      /\ Len(Tables[tgt]) \in Nat /\ at \in Nat \ {0}
  BY <1>1, <1>2, RunningFacts
<1>4. PICK R : R = RowsUpTo(tgt, m)[at - 1]
  OBVIOUS
<1>5. PICK k \in Nat : row = k + 1
  <2>1. row - 1 \in Nat /\ row = (row - 1) + 1
    BY <1>2
  <2> QED
    BY <2>1
<1>6. IsSeq(R)
  BY <1>1, <1>4 DEF PipelineInv, Place
<1>7. row - 1 = k
  BY <1>5
<1>8. PICK F : F = R \o FirstRows(x, m, k)
  OBVIOUS
<1>9. Visited = F /\ Met = 0
  BY <1>1, <1>4, <1>7, <1>8 DEF Visited, Met
<1>10. Imported(tgt, base, F, entries, 0) /\ seen = RowKeys(tgt, base, F) \cup ProseKeys(tgt, 0)
  BY <1>1, <1>9 DEF PipelineInv, Built
<1>11. ProseKeys(tgt, 0) = {}
  BY DEF ProseKeys
<1>12. CASE /\ row <= Len(recs)
            /\ entries' = entries \o AddRow(x, recs[row])
            /\ seen' = IF recs[row].reserved THEN seen
                       ELSE seen \cup {StateId(Entry(tgt, base, x, recs[row]))}
            /\ row' = row + 1
            /\ UNCHANGED <<pc, at>>
  <2>1. PICK r : r = recs[row]
    OBVIOUS
  <2>2. PICK f : f = <<x, r>>
    OBVIOUS
  <2>3. PICK e : e = IF r.reserved THEN Excluded(x, r)
                     ELSE IF StateId(Entry(tgt, base, x, r)) \in RowKeys(tgt, base, F)
                          THEN Repeat(Entry(tgt, base, x, r))
                     ELSE Entry(tgt, base, x, r)
    OBVIOUS
  <2>4. entries' = entries \o <<e>>
    BY <1>10, <1>11, <1>12, <2>1, <2>3 DEF AddRow
  <2>5. /\ Imported(tgt, base, F \o <<f>>, entries \o <<e>>, 0)
        /\ RowKeys(tgt, base, F \o <<f>>) =
              IF r.reserved THEN RowKeys(tgt, base, F)
              ELSE RowKeys(tgt, base, F) \cup {StateId(Entry(tgt, base, x, r))}
    <3>1. PICK y : y = x
      OBVIOUS
    <3>2. y \in DOMAIN Rule /\ f = <<y, r>>
      BY <1>3, <2>2, <3>1
    <3>3. e = IF r.reserved THEN Excluded(y, r)
              ELSE IF StateId(Entry(tgt, base, y, r)) \in RowKeys(tgt, base, F)
                   THEN Repeat(Entry(tgt, base, y, r))
              ELSE Entry(tgt, base, y, r)
      BY <2>3, <3>1
    <3>4. /\ Imported(tgt, base, F \o <<f>>, entries \o <<e>>, 0)
          /\ RowKeys(tgt, base, F \o <<f>>) =
                IF r.reserved THEN RowKeys(tgt, base, F)
                ELSE RowKeys(tgt, base, F) \cup {StateId(Entry(tgt, base, y, r))}
      BY <1>10, <3>2, <3>3, ImportedRow
    <3> QED
      BY <3>1, <3>4
  <2>6. F \o <<f>> = R \o FirstRows(x, m, k + 1)
    <3>1. PICK y : y = x
      OBVIOUS
    <3>2. PICK d : d = m
      OBVIOUS
    <3>3. OneMore(R \o FirstRows(y, d, k), R \o FirstRows(y, d, k + 1),
                  <<y, d.rows[y][k + 1]>>)
      BY <1>6, OneMoreRow, Zenon
    <3>4. f = <<y, d.rows[y][k + 1]>>
      BY <1>5, <2>1, <2>2, <3>1, <3>2
    <3> QED
      BY <1>8, <3>1, <3>2, <3>3, <3>4 DEF OneMore
  <2>7. /\ pc' = "rows" /\ at' = at /\ row' - 1 = k + 1 /\ row' \in Nat \ {0}
        /\ row' <= Len(recs) + 1
    <3>1. PICK l \in Nat : l = Len(recs)
      BY <1>3
    <3>2. k + 1 <= l
      BY <1>5, <1>12, <3>1
    <3>3. row' = (k + 1) + 1
      BY <1>5, <1>12
    <3>4. row' - 1 = k + 1 /\ row' \in Nat \ {0} /\ row' <= l + 1
      BY <3>2, <3>3
    <3> QED
      BY <1>1, <1>12, <3>1, <3>4
  <2>8. Visited' = F \o <<f>> /\ Met' = 0
    BY <1>1, <1>4, <2>6, <2>7 DEF Visited, Met
  <2>9. seen' = RowKeys(tgt, base, F \o <<f>>) \cup ProseKeys(tgt, 0)
    BY <1>10, <1>11, <1>12, <2>1, <2>5
  <2>10. Built'
    BY <1>1, <2>4, <2>5, <2>8, <2>9 DEF Built
  <2>11. Place'
    <3>1. Place
      BY DEF PipelineInv
    <3> QED
      BY <1>1, <2>7, <3>1 DEF Place
  <2> QED
    BY <1>1, <2>7, <2>10, <2>11, RunningKeeps
<1>13. CASE /\ row > Len(recs)
            /\ at' = at + 1 /\ pc' = "tables"
            /\ UNCHANGED <<row, entries, seen>>
  <2>1. k = Len(recs)
    BY <1>2, <1>3, <1>5, <1>13
  <2>2. RowsUpTo(tgt, m)[at] = F
    <3>1. RowsUpTo(tgt, m)[at] = RowsUpTo(tgt, m)[at - 1] \o TableRows(x, m)
      BY <1>2, <1>3, RowsStep
    <3>2. TableRows(x, m) = FirstRows(x, m, k)
      BY <2>1 DEF TableRows, FirstRows
    <3> QED
      BY <1>4, <1>8, <3>1, <3>2
  <2>3. at' - 1 = at /\ at' \in 1 .. (Len(Tables[tgt]) + 1)
    BY <1>2, <1>3, <1>13
  <2>4. Visited' = F /\ Met' = 0
    BY <1>1, <1>13, <2>2, <2>3 DEF Visited, Met
  <2>5. Built'
    BY <1>1, <1>10, <1>13, <2>4 DEF Built
  <2>6. IsSeq(F)
    BY <1>10 DEF Imported, RowsAre
  <2>7. Place'
    BY <1>1, <1>2, <1>13, <2>2, <2>3, <2>6 DEF Place
  <2> QED
    BY <1>1, <1>13, <2>5, <2>7, RunningKeeps
<1> QED
  BY <1>12, <1>13 DEF ImportRow

(* The tables are done.                                                    *)
LEMMA EndTablesKeeps ==
    ASSUME PipelineInv, EndTables
    PROVE  PipelineInv'
<1>1. /\ pc = "tables" /\ at > Len(Tables[tgt]) /\ pc' = "prose" /\ row' = 1
      /\ manual' = manual /\ manifest' = manifest /\ at' = at
      /\ cmd' = cmd /\ tgt' = tgt /\ base' = base /\ report' = report
      /\ entries' = entries /\ seen' = seen
  BY DEF EndTables, files, outputs
<1>2. tgt \in Target /\ Len(Tables[tgt]) \in Nat /\ at \in Nat \ {0}
  BY <1>1, RunningFacts
<1>3. Len(Prose(tgt)) \in Nat
  BY <1>2, ProseFacts
<1>4. Place'
  BY <1>1, <1>2, <1>3 DEF PipelineInv, Place
<1>5. Visited' = Visited /\ Met' = 0 /\ Met = 0
  BY <1>1 DEF Visited, Met
<1>6. Built'
  BY <1>1, <1>5 DEF PipelineInv, Built
<1> QED
  BY <1>1, <1>4, <1>6, RunningKeeps

(* A prose entry is added, or its name is known.                           *)
LEMMA AddProseKeeps ==
    ASSUME PipelineInv, AddProse
    PROVE  PipelineInv'
<1>1. /\ pc = "prose" /\ row <= Len(Prose(tgt)) /\ pc' = pc /\ row' = row + 1
      /\ manual' = manual /\ manifest' = manifest /\ at' = at
      /\ cmd' = cmd /\ tgt' = tgt /\ base' = base /\ report' = report
  BY DEF AddProse, files, outputs
<1>2. tgt \in Target /\ Len(Tables[tgt]) \in Nat /\ at \in Nat \ {0}
  BY <1>1, RunningFacts
<1>3. Len(Prose(tgt)) \in Nat
  BY <1>2, ProseFacts
<1>4. row \in Nat \ {0}
  BY <1>1 DEF PipelineInv, Place
<1>5. PICK k \in Nat : row = k + 1
  <2>1. row - 1 \in Nat /\ row = (row - 1) + 1
    BY <1>4
  <2> QED
    BY <2>1
<1>6. PICK F : F = Visited
  OBVIOUS
<1>7. Visited' = F /\ Met = k /\ Met' = k + 1
  BY <1>1, <1>5, <1>6 DEF Visited, Met
<1>8. Imported(tgt, base, F, entries, k) /\ seen = RowKeys(tgt, base, F) \cup ProseKeys(tgt, k)
  BY <1>1, <1>6, <1>7 DEF PipelineInv, Built
<1>9. /\ entries' = entries \o (IF BareName(Prose(tgt)[k + 1].name)
                                      \in RowKeys(tgt, base, F) \cup ProseKeys(tgt, k)
                                THEN << >> ELSE <<Prose(tgt)[k + 1]>>)
      /\ seen' = seen \cup {BareName(Prose(tgt)[k + 1].name)}
  BY <1>5, <1>8 DEF AddProse
<1>10. /\ Imported(tgt, base, F, entries', k + 1)
       /\ ProseKeys(tgt, k + 1) = ProseKeys(tgt, k) \cup {BareName(Prose(tgt)[k + 1].name)}
  BY <1>1, <1>2, <1>5, <1>8, <1>9, ImportedProse
<1>11. seen' = RowKeys(tgt, base, F) \cup ProseKeys(tgt, k + 1)
  BY <1>8, <1>9, <1>10
<1>12. Built'
  BY <1>1, <1>7, <1>10, <1>11 DEF Built
<1>13. Place'
  <2>1. Place
    BY DEF PipelineInv
  <2> QED
    BY <1>1, <1>3, <1>4, <2>1 DEF Place
<1> QED
  BY <1>1, <1>12, <1>13, RunningKeeps

(* A complete import has met every row of the manual and all the prose.    *)
LEMMA CompleteIsWhole ==
    ASSUME PipelineInv, Complete
    PROVE  Imported(tgt, base, RowsOf(tgt, manual[tgt]), entries, Len(Prose(tgt)))
<1>1. pc = "prose" /\ row > Len(Prose(tgt))
  BY DEF Complete
<1>2. tgt \in Target /\ Len(Tables[tgt]) \in Nat
  BY <1>1, RunningFacts
<1>3. Len(Prose(tgt)) \in Nat
  BY <1>2, ProseFacts
<1>4. /\ at = Len(Tables[tgt]) + 1 /\ row \in Nat \ {0} /\ row <= Len(Prose(tgt)) + 1
  BY <1>1 DEF PipelineInv, Place
<1>5. at - 1 = Len(Tables[tgt]) /\ row - 1 = Len(Prose(tgt))
  BY <1>1, <1>2, <1>3, <1>4
<1>6. Visited = RowsOf(tgt, manual[tgt]) /\ Met = Len(Prose(tgt))
  BY <1>1, <1>5 DEF Visited, Met, RowsOf
<1> QED
  BY <1>1, <1>6 DEF PipelineInv, Built

(* The manifest is written.                                                *)
LEMMA WriteManifestKeeps ==
    ASSUME PipelineInv, WriteManifest
    PROVE  PipelineInv'
<1> DEFINE m == [written |-> TRUE, entries |-> entries, of |-> manual[tgt], base |-> base]
<1>1. /\ pc' = "idle" /\ tgt' = tgt /\ manual' = manual /\ report' = report
      /\ manifest' = [manifest EXCEPT ![tgt] = m] /\ Complete /\ cmd = "import"
  BY DEF WriteManifest, files, work
<1>2. pc # "idle"
  BY <1>1 DEF Complete
<1>3. report' = NoReport
  BY <1>1, <1>2 DEF PipelineInv, Reported
<1>4. tgt \in Target
  BY DEF PipelineInv, Types
<1>5. Sound(tgt, m)
  <2>1. Imported(tgt, base, RowsOf(tgt, manual[tgt]), entries, Len(Prose(tgt)))
    BY <1>1, CompleteIsWhole
  <2>2. tgt = "arch" => base = NoBase
    BY <1>1, <1>2 DEF PipelineInv, Given
  <2>3. m.written /\ m.base = base /\ m.of = manual[tgt] /\ m.entries = entries
    OBVIOUS
  <2> HIDE DEF m
  <2> QED
    BY <2>1, <2>2, <2>3 DEF Sound
<1> HIDE DEF m
<1>6. Types'
  BY <1>1 DEF PipelineInv, Types
<1>7. OnDisk'
  <2>1. manifest = [t \in Target |-> manifest[t]]
    BY DEF PipelineInv, Types
  <2>2. \A t \in Target : manifest'[t] = IF t = tgt THEN m ELSE manifest[t]
    BY <1>1, <2>1
  <2>3. \A t \in Target : manifest[t] = NoManifest \/ Sound(t, manifest[t])
    BY DEF PipelineInv, OnDisk
  <2> QED
    BY <1>5, <2>2, <2>3 DEF OnDisk
<1> QED
  BY <1>1, <1>3, <1>6, <1>7, IdleKeeps

(* The diff is reported.                                                   *)
LEMMA ReportDiffKeeps ==
    ASSUME PipelineInv, ReportDiff
    PROVE  PipelineInv'
<1> DEFINE es == manifest[tgt].entries
           old == {Compared(e) : e \in Index(es)}
           new == {Compared(e) : e \in Index(entries)}
           b == manifest[tgt].base
<1>1. /\ pc' = "idle" /\ tgt' = tgt /\ manual' = manual /\ manifest' = manifest
      /\ report' = {c[1] : c \in (old \ new) \cup (new \ old)}
      /\ Complete /\ cmd = "diff"
  BY DEF ReportDiff, files, outputs, work
<1>2. pc # "idle" /\ tgt \in Target
  BY <1>1 DEF Complete, PipelineInv, Types
<1>3. manifest[tgt].written /\ base = DiffBase(tgt)
  BY <1>1, <1>2 DEF PipelineInv, Given
<1>4. Sound(tgt, manifest[tgt])
  <2>1. manifest[tgt] # NoManifest
    BY <1>3 DEF NoManifest
  <2> QED
    BY <1>2, <2>1 DEF PipelineInv, OnDisk
<1>5. ASSUME Unchanged(tgt), NEW id \in report'
      PROVE  Respelt(b, es, id[3]) /\ tgt = "cpu"
  <2>1. Imported(tgt, b, RowsOf(tgt, manual[tgt]), es, Len(Prose(tgt)))
    BY <1>4, <1>5 DEF Sound, Unchanged
  <2>2. Imported(tgt, base, RowsOf(tgt, manual[tgt]), entries, Len(Prose(tgt)))
    BY <1>1, CompleteIsWhole
  <2>3. base.names = b.names /\ base.addrs = {} /\ (tgt # "cpu" => b.addrs = {})
    <3>1. CASE tgt = "cpu"
      <4>1. b = BaseOf(manifest["arch"].entries)
        BY <1>5, <3>1 DEF Unchanged
      <4>2. b.names = EntryNames(manifest["arch"].entries)
        BY <4>1 DEF BaseOf
      <4>3. base.names = EntryNames(manifest["arch"].entries) /\ base.addrs = {}
        BY <1>3, <3>1 DEF DiffBase
      <4> QED
        BY <3>1, <4>2, <4>3
    <3>2. CASE tgt # "cpu"
      <4>1. tgt = "arch"
        BY <1>2, <3>2 DEF Target
      <4>2. b = NoBase
        BY <1>4, <4>1 DEF Sound
      <4>3. base.names = {} /\ base.addrs = {}
        BY <1>3, <3>2 DEF DiffBase
      <4> QED
        BY <4>2, <4>3 DEF NoBase
    <3> QED
      BY <3>1, <3>2
  <2>4. PICK c \in (old \ new) \cup (new \ old) : id = c[1]
    BY <1>1, <1>5
  <2>5. Respelt(b, es, c[1][3])
    <3>1. PICK F : F = RowsOf(tgt, manual[tgt])
      OBVIOUS
    <3>2. PICK es1 : es1 = es
      OBVIOUS
    <3>3. PICK b1 : b1 = b
      OBVIOUS
    <3>4. /\ Imported(tgt, b1, F, es1, Len(Prose(tgt)))
          /\ Imported(tgt, base, F, entries, Len(Prose(tgt)))
      BY <2>1, <2>2, <3>1, <3>2, <3>3
    <3>5. base.names = b1.names /\ base.addrs = {}
      BY <2>3, <3>3
    <3>6. c \in ({Compared(e) : e \in Index(es1)} \ {Compared(e) : e \in Index(entries)})
                \cup ({Compared(e) : e \in Index(entries)} \ {Compared(e) : e \in Index(es1)})
      BY <2>4, <3>2
    <3>7. Respelt(b1, es1, c[1][3])
      BY <1>2, <3>4, <3>5, <3>6, DiffRespelt
    <3> QED
      BY <3>2, <3>3, <3>7
  <2>6. b.addrs # {}
    BY <2>5 DEF Respelt
  <2> QED
    BY <2>3, <2>4, <2>5, <2>6
<1>6. DiffMissesOnlyAddresses'
  <2> SUFFICES ASSUME Unchanged(tgt), NEW id \in report'
               PROVE  /\ tgt = "cpu"
                      /\ \E i \in 1 .. Len(es) :
                            /\ es[i].name = id[3]
                            /\ es[i].name \notin b.names
                            /\ es[i].enc \in b.addrs
    BY <1>1 DEF DiffMissesOnlyAddresses, Unchanged
  <2> QED
    BY <1>5 DEF Respelt
<1>7. Types' /\ OnDisk'
  BY <1>1 DEF PipelineInv, Types, OnDisk
<1>8. Place' /\ Built' /\ Given'
  BY <1>1 DEF Place, Built, Given
<1>9. Reported'
  BY <1>1, <1>6 DEF Reported
<1> QED
  BY <1>7, <1>8, <1>9 DEF PipelineInv

(* The invariant holds in every behaviour.                                 *)
LEMMA PipelineInvAlways == Spec => []PipelineInv
<1>1. Init => PipelineInv
  <2> SUFFICES ASSUME Init PROVE PipelineInv
    OBVIOUS
  <2>1. Types
    BY DEF Init, Types, Target
  <2>2. OnDisk
    BY DEF Init, OnDisk
  <2>3. Place /\ Built /\ Given
    BY DEF Init, Place, Built, Given
  <2>4. Reported
    BY NothingReported DEF Init, Reported
  <2> QED
    BY <2>1, <2>2, <2>3, <2>4 DEF PipelineInv
<1>2. PipelineInv /\ [Next]_vars => PipelineInv'
  <2> SUFFICES ASSUME PipelineInv, [Next]_vars PROVE PipelineInv'
    OBVIOUS
  <2>1. CASE Command
    <3>1. PICK t \in Target :
             state_import(t) \/ state_source_diff(t) \/ state_gen(t) \/ NewManual(t)
      BY <2>1 DEF Command
    <3>2. CASE state_gen(t)
      <4>1. /\ UNCHANGED <<pc, tgt, cmd, base, at, row, entries, seen, report>>
            /\ UNCHANGED <<manual, manifest>>
        BY <3>2 DEF state_gen, files, work
      <4> QED
        BY <4>1, FrameKeeps
    <3> QED
      BY <3>1, <3>2, BeginKeeps, NewManualKeeps
  <2>2. CASE UNCHANGED vars
    <3>1. /\ UNCHANGED <<pc, tgt, cmd, base, at, row, entries, seen, report>>
          /\ UNCHANGED <<manual, manifest>>
      BY <2>2 DEF vars, files, outputs, work
    <3> QED
      BY <3>1, FrameKeeps
  <2> QED
    BY <2>1, <2>2, OpenTableKeeps, ImportRowKeeps, EndTablesKeeps, AddProseKeeps,
       WriteManifestKeeps, ReportDiffKeeps DEF Next
<1> QED
  BY <1>1, <1>2, PTL DEF Spec

-----------------------------------------------------------------------------
(* The theorems.                                                           *)

(* A manifest on disk accounts for the rows of the manual it was made from *)
(* one by one and in their order, repeats and reserved rows included, and  *)
(* takes nothing else from a table (import_target).                        *)
THEOREM RowsAccountedFor == Spec => []ManifestAccountsForRows
<1>1. PipelineInv => ManifestAccountsForRows
  <2> SUFFICES ASSUME PipelineInv, NEW t \in Target, manifest[t].written
               PROVE  LET rows == RowsOf(t, manifest[t].of)
                          es == manifest[t].entries
                      IN  /\ Len(es) >= Len(rows)
                          /\ \A i \in 1 .. Len(rows) :
                                /\ es[i].via = "table"
                                /\ es[i].table = rows[i][1] /\ es[i].enc = rows[i][2].addr
                                /\ IF rows[i][2].reserved
                                   THEN es[i].class = "explicit_exclusion"
                                   ELSE es[i].name = rows[i][2].name
                          /\ \A i \in (Len(rows) + 1) .. Len(es) : es[i].via # "table"
    BY DEF ManifestAccountsForRows
  <2>1. PICK F : F = RowsOf(t, manifest[t].of)
    OBVIOUS
  <2>2. PICK es : es = manifest[t].entries
    OBVIOUS
  <2>3. Imported(t, manifest[t].base, F, es, Len(Prose(t)))
    BY <2>1, <2>2 DEF PipelineInv, OnDisk, Sound, NoManifest
  <2> QED
    BY <2>1, <2>2, <2>3, ImportedAccounts
<1> QED
  BY <1>1, PipelineInvAlways, PTL

(* Whatever registers manuals repeat within and across tables, a later     *)
(* entry of an id is not state of its own (the key test of import_target). *)
THEOREM RepeatsStayAliases == Spec => []RepeatsAreAliases
<1>1. PipelineInv => RepeatsAreAliases
  <2> SUFFICES ASSUME PipelineInv, NEW t \in Target, NEW i \in 1 .. Len(manifest[t].entries),
                      NEW j \in 1 .. Len(manifest[t].entries), i < j,
                      StateId(manifest[t].entries[i]) = StateId(manifest[t].entries[j])
               PROVE  \/ /\ manifest[t].entries[j].class = "alias"
                         /\ manifest[t].entries[j].alias = manifest[t].entries[j].name
                      \/ /\ manifest[t].entries[i].class = "explicit_exclusion"
                         /\ manifest[t].entries[j].class \notin Emitting
    BY DEF RepeatsAreAliases
  <2>1. manifest[t] # NoManifest
    BY DEF NoManifest
  <2>2. PICK es : es = manifest[t].entries
    OBVIOUS
  <2>3. Imported(t, manifest[t].base, RowsOf(t, manifest[t].of), es, Len(Prose(t)))
    BY <2>1, <2>2 DEF PipelineInv, OnDisk, Sound
  <2>4. \/ es[j].class = "alias" /\ es[j].alias = es[j].name
        \/ es[i].class = "explicit_exclusion" /\ es[j].class \notin Emitting
    BY <2>2, <2>3, ImportedOnce
  <2> QED
    BY <2>2, <2>4
<1> QED
  BY <1>1, PipelineInvAlways, PTL

(* An overlay imported on the architecture's manifest emits a name or an   *)
(* address of the architecture again only by a person's decision, or as a  *)
(* debug register outside the snapshot.                                    *)
THEOREM OverlaysReemitByDecision == Spec => []OverlayReemitsByDecision
<1>1. PipelineInv => OverlayReemitsByDecision
  <2> SUFFICES ASSUME PipelineInv, manifest["cpu"].written,
                      manifest["cpu"].base = BaseOf(manifest["arch"].entries),
                      NEW i \in 1 .. Len(manifest["cpu"].entries),
                      manifest["cpu"].entries[i].class \in Emitting,
                      \/ manifest["cpu"].entries[i].name
                            \in EntryNames(manifest["arch"].entries)
                      \/ manifest["cpu"].entries[i].enc
                            \in EntryAddrs(manifest["arch"].entries)
               PROVE  \/ Decided(manifest["cpu"].entries[i])
                      \/ /\ manifest["cpu"].entries[i].ns = "debug"
                         /\ ~manifest["cpu"].entries[i].snapshot
    BY DEF OverlayReemitsByDecision
  <2>1. PICK es : es = manifest["cpu"].entries
    OBVIOUS
  <2>2. PICK b : b = manifest["cpu"].base
    OBVIOUS
  <2>3. "cpu" \in Target
    BY DEF Target
  <2>4. Imported("cpu", b, RowsOf("cpu", manifest["cpu"].of), es, Len(Prose("cpu")))
    BY <2>1, <2>2, <2>3 DEF PipelineInv, OnDisk, Sound, NoManifest
  <2>5. es[i].name \in b.names \/ es[i].enc \in b.addrs
    BY <2>1, <2>2 DEF BaseOf
  <2>6. Decided(es[i]) \/ (es[i].ns = "debug" /\ ~es[i].snapshot)
    BY <2>1, <2>4, <2>5, ImportedReemits
  <2> QED
    BY <2>1, <2>6
<1> QED
  BY <1>1, PipelineInvAlways, PTL

(* A diff of unchanged inputs reports nothing but overlay rows that the    *)
(* architecture has at the same address under another name.                *)
THEOREM DiffsOfUnchanged == Spec => []DiffMissesOnlyAddresses
<1>1. PipelineInv => DiffMissesOnlyAddresses
  BY DEF PipelineInv, Reported
<1> QED
  BY <1>1, PipelineInvAlways, PTL
=============================================================================
