-------------------------- MODULE CatalogueProofs ---------------------------
(***************************************************************************)
(* What the catalogue keeps for any records, any names and any number of   *)
(* loads, faults and placements: rows that stay apart, Wikidata ids that   *)
(* are lost and meet only at a doorway, merges that lose no museum and     *)
(* take over what their columns let them, positions whose mark can be      *)
(* believed.                                                               *)
(***************************************************************************)
EXTENDS Catalogue, FiniteSetTheorems, WellFoundedInduction, TLAPS

(***************************************************************************)
(* Induction.  The library's induction theorems take the claim as an       *)
(* operator; the least element of the set of its exceptions serves as well.*)
(***************************************************************************)

\* Any numbers have a least.
LEMMA LeastElement ==
    ASSUME NEW T \in SUBSET Nat, T # {}
    PROVE  \E n \in T : \A m \in T : n <= m
<1>1. PICK n \in T : \A m \in T : ~(<<m, n>> \in OpToRel(<, Nat))
  BY NatLessThanWellFounded, WFMin
<1>2. \A m \in T : ~(m < n)
  <2> TAKE m \in T
  <2>1. m < n => <<m, n>> \in OpToRel(<, Nat)
    BY DEF OpToRel
  <2> QED
    BY <1>1, <2>1
<1> QED
  BY <1>2

\* What starts out well and never goes wrong at a step is right to the end.
LEMMA StepByStep ==
    ASSUME NEW n \in Nat, NEW Right \in SUBSET Nat, 0 \in Right,
           \A i \in 1 .. n : i - 1 \in Right => i \in Right
    PROVE  n \in Right
<1> DEFINE Wrong == {i \in 0 .. n : i \notin Right}
<1> SUFFICES ASSUME Wrong # {} PROVE FALSE
  OBVIOUS
<1>1. PICK i \in Wrong : \A j \in Wrong : i <= j
  <2>1. Wrong \in SUBSET Nat
    OBVIOUS
  <2> QED
    BY <2>1, LeastElement
<1>2. i # 0 /\ i \in 1 .. n /\ i - 1 \in 0 .. n
  BY <1>1
<1>3. i - 1 \notin Wrong
  BY <1>1, <1>2
<1> QED
  BY <1>1, <1>2, <1>3

-----------------------------------------------------------------------------
(***************************************************************************)
(* The rows.                                                               *)
(***************************************************************************)

\* The museums table, with any contents.
Tables == [RowIds -> Row \cup {None, Gone}]

LEMMA RowIdsAreFinite == IsFiniteSet(RowIds) /\ MaxRows \in Nat /\ RowIds \subseteq Nat
<1>1. MaxRows \in Nat
  BY BoundAssumption
<1> QED
  BY <1>1, FS_Interval DEF RowIds

LEMMA LiveRows ==
    ASSUME NEW t \in Tables
    PROVE  /\ Live(t) \subseteq RowIds /\ IsFiniteSet(Live(t))
           /\ \A i \in RowIds : i \in Live(t) <=> t[i] \in Row
           /\ \A i \in RowIds : i \in Live(t) <=> (t[i] # None /\ t[i] # Gone)
<1>1. Live(t) \subseteq RowIds
  BY DEF Live
<1>2. IsFiniteSet(Live(t))
  BY <1>1, RowIdsAreFinite, FS_Subset
<1> QED
  BY <1>1, <1>2, AbsenceAssumption DEF Live, Tables

\* What a record supplies fits the columns.
LEMMA RecordTyped ==
    ASSUME NEW r \in Records
    PROVE  /\ r.wd \in {q.wd : q \in Records} /\ r.country \in Countries
           /\ r.name \in Names /\ r.aliases \in SUBSET Names
           /\ r.town \in Towns
           /\ r.at \in Int \cup {None} /\ r.links \in Nat
  BY RecordAssumption DEF Countries, Names, Towns

LEMMA FreshRowType ==
    ASSUME NEW r \in Records
    PROVE  FreshRow(r) \in Row
  BY RecordTyped DEF FreshRow, Row

LEMMA UpdatedType ==
    ASSUME NEW r \in Records, NEW m \in Row
    PROVE  Updated(m, r) \in Row
<1>1. /\ m.wd \in {q.wd : q \in Records} \cup {None} /\ m.name \in Names
      /\ m.country \in Countries \cup {None} /\ m.aliases \in SUBSET Names
      /\ m.town \in Towns /\ m.townKey \in Towns /\ m.at \in Int \cup {None}
      /\ m.approximate \in BOOLEAN /\ m.links \in Nat /\ m.from \in SUBSET Records
  BY DEF Row
<1>2. /\ First(r.wd, m.wd) \in {q.wd : q \in Records} \cup {None}
      /\ First(r.country, m.country) \in Countries \cup {None}
      /\ m.aliases \cup r.aliases \in SUBSET Names
      /\ FirstTown(r.town, m.town) \in Towns
      /\ First(r.at, m.at) \in Int \cup {None}
      /\ Greater(r.links, m.links) \in Nat
      /\ m.from \cup {r} \in SUBSET Records
  BY <1>1, RecordTyped DEF First, FirstTown, Greater
<1> QED
  BY <1>1, <1>2, RecordTyped DEF Updated, Row

\* Row m is row k after the merge at pc folded row d into it.
Merged(pc, m, k, d) ==
    /\ m \in Row
    /\ m.wd = k.wd /\ m.name = k.name /\ m.country = k.country
    /\ m.from = k.from \cup d.from
    /\ Has(m, k) /\ TakesOver(pc, m, d)

\* A merge keeps its keeper's identity and name, and takes over what it lets it.
LEMMA MergesType ==
    ASSUME NEW k \in Row, NEW d \in Row
    PROVE  /\ Merged("duplicates", MergeDuplicate(k, d), k, d)
           /\ k.at # None => Merged("variants", MergeVariant(k, d), k, d)
           /\ Merged("aliases", MergeAlias(k, d), k, d)
<1>1. /\ k.wd \in {q.wd : q \in Records} \cup {None} /\ k.name \in Names
      /\ k.country \in Countries \cup {None} /\ k.aliases \in SUBSET Names
      /\ k.town \in Towns /\ k.townKey \in Towns /\ k.at \in Int \cup {None}
      /\ k.approximate \in BOOLEAN /\ k.links \in Nat /\ k.from \in SUBSET Records
  BY DEF Row
<1>2. /\ d.name \in Names /\ d.aliases \in SUBSET Names /\ d.town \in Towns
      /\ d.at \in Int \cup {None} /\ d.links \in Nat /\ d.from \in SUBSET Records
  BY DEF Row
<1>3. /\ FirstTown(k.town, d.town) \in Towns
      /\ First(k.at, d.at) \in Int \cup {None}
      /\ Greater(k.links, d.links) \in Nat
      /\ k.aliases \cup d.aliases \cup {d.name} \in SUBSET Names
      /\ k.from \cup d.from \in SUBSET Records
  BY <1>1, <1>2 DEF First, FirstTown, Greater
<1>4. /\ d.town # <<>> => FirstTown(k.town, d.town) # <<>>
      /\ d.at # None => First(k.at, d.at) # None
      /\ k.links <= Greater(k.links, d.links) /\ d.links <= Greater(k.links, d.links)
  BY <1>1, <1>2 DEF First, FirstTown, Greater
<1>5. Merged("duplicates", MergeDuplicate(k, d), k, d)
  <2> DEFINE m == MergeDuplicate(k, d)
  <2>0. m = MergeDuplicate(k, d)
    OBVIOUS
  <2> HIDE DEF m
  <2>1. m = [wd |-> k.wd, name |-> k.name, country |-> k.country, aliases |-> k.aliases,
             town |-> FirstTown(k.town, d.town), townKey |-> k.townKey,
             at |-> First(k.at, d.at), approximate |-> k.approximate,
             links |-> Greater(k.links, d.links), from |-> k.from \cup d.from]
    BY <2>0 DEF MergeDuplicate, Row
  <2>2. m \in Row
    BY <1>1, <1>3, <2>1 DEF Row
  <2>3. Has(m, k) /\ TakesOver("duplicates", m, d)
    BY <1>4, <2>1 DEF Has, TakesOver
  <2> QED
    BY <2>1, <2>2, <2>3 DEF Merged, m
<1>6. ASSUME k.at # None
      PROVE  Merged("variants", MergeVariant(k, d), k, d)
  <2> DEFINE m == MergeVariant(k, d)
  <2>0. m = MergeVariant(k, d)
    OBVIOUS
  <2> HIDE DEF m
  <2>1. m = [wd |-> k.wd, name |-> k.name, country |-> k.country,
             aliases |-> k.aliases \cup d.aliases \cup {d.name},
             town |-> k.town, townKey |-> k.townKey,
             at |-> k.at, approximate |-> k.approximate,
             links |-> Greater(k.links, d.links), from |-> k.from \cup d.from]
    BY <2>0 DEF MergeVariant, Row
  <2>2. m \in Row
    BY <1>1, <1>3, <2>1 DEF Row
  <2>3. Has(m, k) /\ TakesOver("variants", m, d)
    BY <1>4, <1>6, <2>1 DEF Has, TakesOver
  <2> QED
    BY <2>1, <2>2, <2>3 DEF Merged, m
<1>7. Merged("aliases", MergeAlias(k, d), k, d)
  <2> DEFINE m == MergeAlias(k, d)
  <2>0. m = MergeAlias(k, d)
    OBVIOUS
  <2> HIDE DEF m
  <2>1. m = [wd |-> k.wd, name |-> k.name, country |-> k.country,
             aliases |-> k.aliases \cup d.aliases \cup {d.name},
             town |-> FirstTown(k.town, d.town), townKey |-> k.townKey,
             at |-> First(k.at, d.at), approximate |-> k.approximate,
             links |-> Greater(k.links, d.links), from |-> k.from \cup d.from]
    BY <2>0 DEF MergeAlias, Row
  <2>2. m \in Row
    BY <1>1, <1>3, <2>1 DEF Row
  <2>3. Has(m, k) /\ TakesOver("aliases", m, d)
    BY <1>4, <2>1 DEF Has, TakesOver
  <2> QED
    BY <2>1, <2>2, <2>3 DEF Merged, m
<1> QED
  BY <1>5, <1>6, <1>7

-----------------------------------------------------------------------------
(***************************************************************************)
(* What the statements keep of the table.                                  *)
(***************************************************************************)

\* The rows are told apart.
Sound(t) == t \in Tables /\ UniqueIdentity(t)

\* What every statement that deletes no row does: the rows there are keep what
\* they have, and no id of another museum gets into any.
Grows(t, u) ==
    /\ \A i \in Live(t) : /\ i \in Live(u) /\ Has(u[i], t[i])
                          /\ t[i].wd # None => u[i].wd = t[i].wd
    /\ \A i \in Live(u) : \A a \in Strange(u, i) : i \in Live(t) /\ a \in Strange(t, i)

LEMMA SameIdentity ==
    ASSUME NEW a, NEW b
    PROVE  Identity(a) = Identity(b) <=>
              \/ a.wd = None /\ b.wd = None /\ a.name = b.name /\ a.country = b.country
              \/ a.wd # None /\ a.wd = b.wd
<1>1. \A x, y, z : <<x>> # <<y, z>>
  <2> TAKE x, y, z
  <2>1. Len(<<x>>) = 1 /\ Len(<<y, z>>) = 2
    OBVIOUS
  <2> QED
    BY <2>1
<1>2. \A x, y : <<x>> = <<y>> <=> x = y
  OBVIOUS
<1>3. \A x, y, w, z : <<x, y>> = <<w, z>> <=> x = w /\ y = z
  OBVIOUS
<1> QED
  BY <1>1, <1>2, <1>3 DEF Identity

\* A row that takes in a record of its own identity keeps that identity.
LEMMA UpdatedIdentity ==
    ASSUME NEW r \in Records, NEW m \in Row, Identity(m) = Identity(r)
    PROVE  Identity(Updated(m, r)) = Identity(m) /\ Updated(m, r).wd = m.wd /\ r.wd = m.wd
<1>1. Updated(m, r).wd = First(r.wd, m.wd) /\ Updated(m, r).name = r.name
      /\ Updated(m, r).country = First(r.country, m.country)
  BY DEF Updated
<1>2. \/ m.wd = None /\ r.wd = None /\ m.name = r.name /\ m.country = r.country
      \/ m.wd # None /\ m.wd = r.wd
  BY SameIdentity
<1>3. Updated(m, r).wd = m.wd /\ r.wd = m.wd
  BY <1>1, <1>2 DEF First
<1>4. m.wd = None => Updated(m, r).name = m.name /\ Updated(m, r).country = m.country
  BY <1>1, <1>2 DEF First
<1> QED
  BY <1>3, <1>4 DEF Identity

LEMMA FreshRowIdentity ==
    ASSUME NEW r \in Records
    PROVE  Identity(FreshRow(r)) = Identity(r)
<1>1. FreshRow(r).name = r.name /\ FreshRow(r).wd = r.wd /\ FreshRow(r).country = r.country
  BY DEF FreshRow
<1> QED
  BY <1>1 DEF Identity

-----------------------------------------------------------------------------
(***************************************************************************)
(* The upsert of one record, and of a batch.                               *)
(***************************************************************************)

LEMMA UpsertedRows ==
    ASSUME NEW t \in Tables, NEW r \in Records
    PROVE  /\ Upserted(t, r) \in Tables
           /\ \A i \in Live(t) : i \in Live(Upserted(t, r))
           /\ \A i \in Conflicting(t, r) : Upserted(t, r)[i] = Updated(t[i], r)
           /\ \A i \in Live(t) \ Conflicting(t, r) : Upserted(t, r)[i] = t[i]
           /\ \A i \in Live(Upserted(t, r)) \ Live(t) :
                 Conflicting(t, r) = {} /\ IsNextId(t, i) /\ Upserted(t, r)[i] = FreshRow(r)
<1> DEFINE u == Upserted(t, r)
           C == Conflicting(t, r)
<1>1. C \subseteq Live(t)
  BY DEF Conflicting
<1>2. /\ u = [i \in RowIds |-> u[i]]
      /\ \A i \in RowIds : u[i] = IF i \in C THEN Updated(t[i], r)
                                  ELSE IF C = {} /\ IsNextId(t, i) THEN FreshRow(r)
                                  ELSE t[i]
  BY DEF Upserted
<1> HIDE DEF u, C
<1>3. \A i \in RowIds : t[i] \in Row \cup {None, Gone} /\ (i \in Live(t) => t[i] \in Row)
  BY LiveRows DEF Tables
<1>4. FreshRow(r) \in Row
  BY FreshRowType
<1>5. \A i \in C : u[i] = Updated(t[i], r) /\ u[i] \in Row
  BY <1>1, <1>2, <1>3, LiveRows, UpdatedType
<1>6. \A i \in RowIds : u[i] \in Row \cup {None, Gone}
  BY <1>2, <1>3, <1>4, <1>5
<1>7. u \in Tables
  BY <1>2, <1>6 DEF Tables
<1>8. \A i \in Live(t) : i \in RowIds /\ ~IsNextId(t, i)
  BY LiveRows DEF IsNextId
<1>9. \A i \in Live(t) \ C : u[i] = t[i] /\ u[i] \in Row
  BY <1>2, <1>3, <1>8
<1>10. \A i \in Live(t) : i \in Live(u)
  BY <1>5, <1>7, <1>8, <1>9, LiveRows
<1>11. \A i \in Live(u) \ Live(t) : C = {} /\ IsNextId(t, i) /\ u[i] = FreshRow(r)
  BY <1>1, <1>2, <1>7, LiveRows
<1> QED
  BY <1>5, <1>7, <1>9, <1>10, <1>11 DEF u, C

LEMMA UpsertKeepsSound ==
    ASSUME NEW t, Sound(t), NEW r \in Records
    PROVE  Sound(Upserted(t, r))
<1> DEFINE u == Upserted(t, r)
           C == Conflicting(t, r)
<1>0. t \in Tables /\ UniqueIdentity(t)
  BY DEF Sound
<1>1. /\ u \in Tables
      /\ \A i \in C : u[i] = Updated(t[i], r)
      /\ \A i \in Live(t) \ C : u[i] = t[i]
      /\ \A i \in Live(u) \ Live(t) : C = {} /\ IsNextId(t, i) /\ u[i] = FreshRow(r)
  BY <1>0, UpsertedRows
<1>2. C = {i \in Live(t) : Identity(t[i]) = Identity(r)}
  BY DEF Conflicting
<1> HIDE DEF u, C
<1>3. \A i \in Live(t) : i \in RowIds /\ t[i] \in Row
  BY <1>0, LiveRows
<1>4. \A i \in C : Identity(u[i]) = Identity(t[i])
  BY <1>1, <1>2, <1>3, UpdatedIdentity
<1>5. \A i \in Live(t) : Identity(u[i]) = Identity(t[i])
  BY <1>1, <1>4
<1>6. \A i \in Live(u) \ Live(t) : C = {} /\ IsNextId(t, i) /\ Identity(u[i]) = Identity(r)
  BY <1>1, FreshRowIdentity
<1>7. UniqueIdentity(u)
  <2> SUFFICES ASSUME NEW i \in Live(u), NEW j \in Live(u), i # j
               PROVE  Identity(u[i]) # Identity(u[j])
    BY DEF UniqueIdentity
  <2>1. CASE i \in Live(t) /\ j \in Live(t)
    BY <1>0, <1>5, <2>1 DEF UniqueIdentity
  <2>2. CASE i \in Live(t) /\ j \notin Live(t)
    BY <1>2, <1>5, <1>6, <2>2
  <2>3. CASE i \notin Live(t) /\ j \in Live(t)
    BY <1>2, <1>5, <1>6, <2>3
  <2>4. CASE i \notin Live(t) /\ j \notin Live(t)
    <3>1. i \in Nat /\ j \in Nat /\ i \in RowIds /\ j \in RowIds
      BY <1>1, LiveRows, RowIdsAreFinite
    <3>2. i <= j /\ j <= i
      BY <1>6, <2>4, <3>1 DEF IsNextId
    <3> QED
      BY <3>1, <3>2
  <2> QED
    BY <2>1, <2>2, <2>3, <2>4
<1> QED
  BY <1>1, <1>7 DEF Sound, u

\* A record that is taken in costs no row its identity, nor what was known of it.
LEMMA UpsertGrows ==
    ASSUME NEW t \in Tables, NEW r \in Records
    PROVE  Grows(t, Upserted(t, r))
<1> DEFINE u == Upserted(t, r)
<1>1. ASSUME NEW i \in Conflicting(t, r)
      PROVE  Has(u[i], t[i]) /\ u[i].wd = t[i].wd /\ Strange(u, i) \subseteq Strange(t, i)
  <2>1. u[i] = Updated(t[i], r) /\ t[i] \in Row /\ Identity(t[i]) = Identity(r)
    BY <1>1, UpsertedRows, LiveRows DEF Conflicting
  <2>2. u[i].wd = t[i].wd /\ r.wd = t[i].wd
    BY <2>1, UpdatedIdentity
  <2>3. /\ u[i].from = t[i].from \cup {r} /\ u[i].aliases = t[i].aliases \cup r.aliases
        /\ u[i].links = Greater(r.links, t[i].links)
    BY <2>1 DEF Updated
  <2>4. t[i].links <= u[i].links
    <3>1. t[i].links \in Nat /\ r.links \in Nat
      BY <2>1, RecordTyped DEF Row
    <3> QED
      BY <2>3, <3>1 DEF Greater
  <2> HIDE DEF u
  <2>5. Has(u[i], t[i])
    BY <2>3, <2>4 DEF Has
  <2>6. Strange(u, i) \subseteq Strange(t, i)
    BY <2>2, <2>3 DEF Strange
  <2> QED
    BY <2>2, <2>5, <2>6
<1>2. ASSUME NEW i \in Live(t), i \notin Conflicting(t, r)
      PROVE  Has(u[i], t[i]) /\ u[i].wd = t[i].wd /\ Strange(u, i) \subseteq Strange(t, i)
  <2>1. u[i] = t[i] /\ t[i].links \in Nat
    BY <1>2, UpsertedRows, LiveRows DEF Row
  <2> HIDE DEF u
  <2> QED
    BY <2>1 DEF Has, Strange
<1>3. ASSUME NEW i \in Live(u), i \notin Live(t)
      PROVE  Strange(u, i) = {}
  <2>1. u[i] = FreshRow(r)
    BY <1>3, UpsertedRows
  <2>2. u[i].from = {r} /\ u[i].wd = r.wd
    BY <2>1 DEF FreshRow
  <2> HIDE DEF u
  <2> QED
    BY <2>2 DEF Strange
<1>4. \A i \in Live(t) : i \in Live(u)
  BY UpsertedRows
<1> HIDE DEF u
<1> QED
  BY <1>1, <1>2, <1>3, <1>4 DEF Grows, u

\* The position a record states is a stated one.
LEMMA UpsertIsHonest ==
    ASSUME NEW t \in Tables, NEW r \in Records, FlagsAreHonest(t)
    PROVE  FlagsAreHonest(Upserted(t, r))
<1> DEFINE u == Upserted(t, r)
<1> SUFFICES ASSUME NEW i \in Live(u), u[i].at # None, ~u[i].approximate
             PROVE  u[i].at \in Stated(u, i)
  BY DEF FlagsAreHonest
<1>1. CASE i \in Live(t) /\ i \in Conflicting(t, r)
  <2>1. u[i] = Updated(t[i], r)
    BY <1>1, UpsertedRows
  <2>2. /\ u[i].at = First(r.at, t[i].at) /\ u[i].approximate = t[i].approximate
        /\ u[i].from = t[i].from \cup {r}
    BY <2>1 DEF Updated
  <2>3. CASE r.at # None
    BY <2>2, <2>3 DEF First, Stated
  <2>4. CASE r.at = None
    <3>1. t[i].at = u[i].at /\ t[i].at \in Stated(t, i)
      BY <1>1, <2>2, <2>4 DEF First, FlagsAreHonest
    <3> QED
      BY <2>2, <3>1 DEF Stated
  <2> QED
    BY <2>3, <2>4
<1>2. CASE i \in Live(t) /\ i \notin Conflicting(t, r)
  <2>1. u[i] = t[i]
    BY <1>2, UpsertedRows
  <2> QED
    BY <1>2, <2>1 DEF FlagsAreHonest, Stated
<1>3. CASE i \notin Live(t)
  <2>1. u[i] = FreshRow(r)
    BY <1>3, UpsertedRows
  <2>2. u[i].at = r.at /\ u[i].from = {r}
    BY <2>1 DEF FreshRow
  <2> QED
    BY <2>2 DEF Stated
<1> QED
  BY <1>1, <1>2, <1>3

\* Saved is what its definition says: one upsert after another.
LEMMA SavedSteps ==
    ASSUME NEW t, NEW order, Len(order) \in Nat
    PROVE  \E after : /\ after[0] = t
                      /\ \A n \in 1 .. Len(order) : after[n] = Upserted(after[n - 1], order[n])
                      /\ Saved(t, order) = after[Len(order)]
<1> DEFINE F(k, g) == g = [n \in 0 .. k |-> IF n = 0 THEN t ELSE Upserted(g[n - 1], order[n])]
           Good == {k \in Nat : \E g : F(k, g)}
<1> HIDE DEF F
<1>1. 0 \in Good
  <2>1. F(0, [n \in 0 .. 0 |-> t])
    BY DEF F
  <2> QED
    BY <2>1
<1>2. ASSUME NEW k \in 1 .. Len(order), k - 1 \in Good
      PROVE  k \in Good
  <2>1. PICK g : F(k - 1, g)
    BY <1>2
  <2> DEFINE h == [n \in 0 .. k |-> IF n = k THEN Upserted(g[k - 1], order[k]) ELSE g[n]]
  <2>2. F(k, h)
    BY <2>1 DEF F
  <2> QED
    BY <2>2
<1>3. Len(order) \in Good
  BY <1>1, <1>2, StepByStep
<1> DEFINE after == CHOOSE g : F(Len(order), g)
<1>4. F(Len(order), after)
  BY <1>3
<1>5. Saved(t, order) = after[Len(order)]
  BY Zenon DEF Saved, F, after
<1> HIDE DEF after
<1>6. \A n \in 0 .. Len(order) :
         after[n] = IF n = 0 THEN t ELSE Upserted(after[n - 1], order[n])
  BY <1>4, Zenon DEF F
<1>7. /\ after[0] = t
      /\ \A n \in 1 .. Len(order) : after[n] = Upserted(after[n - 1], order[n])
  BY <1>6
<1> QED
  BY <1>5, <1>7

LEMMA GrowthAddsUp ==
    ASSUME NEW t \in Tables, NEW u \in Tables, NEW v \in Tables, Grows(t, u), Grows(u, v)
    PROVE  Grows(t, v)
<1>1. ASSUME NEW i \in Live(t)
      PROVE  /\ i \in Live(v) /\ Has(v[i], t[i])
             /\ t[i].wd # None => v[i].wd = t[i].wd
  <2>1. i \in Live(u) /\ i \in Live(v)
    BY <1>1 DEF Grows
  <2>2. t[i] \in Row /\ u[i] \in Row /\ v[i] \in Row
    BY <1>1, <2>1, LiveRows
  <2>3. t[i].links \in Nat /\ u[i].links \in Nat /\ v[i].links \in Nat
    BY <2>2 DEF Row
  <2>4. Has(u[i], t[i]) /\ Has(v[i], u[i])
    BY <1>1, <2>1 DEF Grows
  <2>5. Has(v[i], t[i])
    BY <2>3, <2>4 DEF Has
  <2> QED
    BY <1>1, <2>1, <2>5 DEF Grows
<1> QED
  BY <1>1 DEF Grows

\* A table that is left alone grows by nothing.
LEMMA GrowthStarts ==
    ASSUME NEW t \in Tables
    PROVE  Grows(t, t)
<1>1. \A i \in Live(t) : t[i].links \in Nat
  BY LiveRows DEF Row
<1> QED
  BY <1>1 DEF Grows, Has

\* What holds of the upsert of a record holds of that of a batch.
LEMMA SavedBatch ==
    ASSUME NEW t, Sound(t), NEW b \in SUBSET Records, NEW order \in SetToSeqs(b)
    PROVE  /\ Sound(Saved(t, order))
           /\ Grows(t, Saved(t, order))
           /\ FlagsAreHonest(t) => FlagsAreHonest(Saved(t, order))
<1>1. Len(order) \in Nat /\ \A n \in 1 .. Len(order) : order[n] \in Records
  <2>1. IsFiniteSet(b)
    BY RecordAssumption, FS_Subset
  <2>2. Cardinality(b) \in Nat
    BY <2>1, FS_CardinalityType
  <2>3. order \in [1 .. Cardinality(b) -> b]
    BY DEF SetToSeqs
  <2> QED
    BY <2>2, <2>3
<1>2. PICK after : /\ after[0] = t
                   /\ \A n \in 1 .. Len(order) : after[n] = Upserted(after[n - 1], order[n])
                   /\ Saved(t, order) = after[Len(order)]
  BY <1>1, SavedSteps
<1> DEFINE Right(u) == Sound(u) /\ Grows(t, u) /\ (FlagsAreHonest(t) => FlagsAreHonest(u))
           Good == {n \in Nat : Right(after[n])}
<1>3. Right(t)
  BY GrowthStarts DEF Sound
<1>4. ASSUME NEW n \in 1 .. Len(order), Right(after[n - 1])
      PROVE  Right(after[n])
  <2>1. after[n] = Upserted(after[n - 1], order[n]) /\ order[n] \in Records
    BY <1>1, <1>2
  <2>2. after[n - 1] \in Tables
    BY <1>4 DEF Sound
  <2>3. Sound(after[n])
    BY <1>4, <2>1, UpsertKeepsSound
  <2>4. Grows(after[n - 1], after[n])
    BY <2>1, <2>2, UpsertGrows
  <2>5. Grows(t, after[n])
    BY <1>4, <2>2, <2>3, <2>4, GrowthAddsUp DEF Sound
  <2>6. FlagsAreHonest(after[n - 1]) => FlagsAreHonest(after[n])
    BY <2>1, <2>2, UpsertIsHonest
  <2> QED
    BY <1>4, <2>3, <2>5, <2>6
<1> HIDE DEF Right
<1>5. 0 \in Good
  BY <1>2, <1>3
<1>6. \A n \in 1 .. Len(order) : n - 1 \in Good => n \in Good
  BY <1>4
<1>7. Len(order) \in Good
  BY <1>1, <1>5, <1>6, StepByStep
<1> QED
  BY <1>2, <1>7 DEF Right

-----------------------------------------------------------------------------
(***************************************************************************)
(* Promoting Wikidata ids.                                                 *)
(***************************************************************************)

\* Record r promotes row i: they share name and country, the row has no id and
\* is the first such row, and no row has the record's.
Promotes(t, i, r) ==
    /\ r.wd # None /\ t[i].wd = None /\ t[i].name = r.name /\ t[i].country = r.country
    /\ \A j \in Live(t) :
          t[j].wd = None /\ t[j].name = r.name /\ t[j].country = r.country => i <= j
    /\ \A j \in Live(t) : t[j].wd # r.wd

\* Nothing but the id changes.
Otherwise(u, m) == /\ u.name = m.name /\ u.country = m.country /\ u.from = m.from
                   /\ u.at = m.at /\ u.approximate = m.approximate
                   /\ u.links = m.links /\ u.aliases = m.aliases

LEMMA PromotedRows ==
    ASSUME NEW t \in Tables, NEW b \in SUBSET Records, NEW ps \in Promotions(t, b)
    PROVE  /\ Promoted(t, ps) \in Tables
           /\ Live(Promoted(t, ps)) = Live(t)
           /\ \A i \in Live(t) :
                 \/ Promoted(t, ps)[i] = t[i]
                 \/ \E r \in b : /\ Promotes(t, i, r)
                                 /\ Promoted(t, ps)[i].wd = r.wd
                                 /\ Otherwise(Promoted(t, ps)[i], t[i])
<1> DEFINE u == Promoted(t, ps)
           chosen(i) == CHOOSE p \in ps : p[1] = i
           struck(i) == \E p \in ps : p[1] = i
<1>1. PICK c \in Incoming(b) : ps = Targets(t, c)
  BY DEF Promotions
<1>2. c \subseteq b /\ \A r \in c : r.wd # None
  BY DEF Incoming
<1>3. \A p \in ps : p[1] \in Live(t) /\ p[2] \in c /\ Promotes(t, p[1], p[2])
  BY <1>1, <1>2 DEF Targets, Promotes
<1>4. \A i \in RowIds : struck(i) => chosen(i) \in ps /\ chosen(i)[1] = i
  OBVIOUS
<1>5. /\ u = [i \in RowIds |-> u[i]]
      /\ \A i \in RowIds : u[i] = IF struck(i) THEN [t[i] EXCEPT !.wd = chosen(i)[2].wd] ELSE t[i]
  BY DEF Promoted
<1> HIDE DEF u, chosen, struck
<1>6. \A i \in RowIds : struck(i) => /\ i \in Live(t) /\ chosen(i)[2] \in b
                                     /\ Promotes(t, i, chosen(i)[2])
  BY <1>2, <1>3, <1>4
<1>7. \A i \in RowIds : struck(i) => u[i] \in Row
  <2> SUFFICES ASSUME NEW i \in RowIds, struck(i) PROVE u[i] \in Row
    OBVIOUS
  <2>1. t[i] \in Row /\ chosen(i)[2].wd \in {r.wd : r \in Records} \cup {None}
    BY <1>6, LiveRows
  <2> QED
    BY <1>5, <2>1 DEF Row
<1>8. u \in Tables
  BY <1>5, <1>7 DEF Tables
<1>9. Live(u) = Live(t)
  <2>1. \A i \in RowIds : i \in Live(u) <=> i \in Live(t)
    BY <1>5, <1>6, <1>7, <1>8, LiveRows
  <2> QED
    BY <1>8, <2>1, LiveRows
<1>10. \A i \in Live(t) :
          u[i] = t[i] \/ \E r \in b : Promotes(t, i, r) /\ u[i].wd = r.wd /\ Otherwise(u[i], t[i])
  <2> SUFFICES ASSUME NEW i \in Live(t), struck(i)
               PROVE  \E r \in b : Promotes(t, i, r) /\ u[i].wd = r.wd /\ Otherwise(u[i], t[i])
    BY <1>5, LiveRows
  <2>1. i \in RowIds /\ t[i] \in Row
    BY LiveRows
  <2>2. u[i] = [t[i] EXCEPT !.wd = chosen(i)[2].wd]
    BY <1>5, <2>1
  <2>3. u[i].wd = chosen(i)[2].wd /\ Otherwise(u[i], t[i])
    BY <2>1, <2>2 DEF Row, Otherwise
  <2> QED
    BY <1>6, <2>1, <2>3
<1> QED
  BY <1>8, <1>9, <1>10 DEF u

LEMMA PromotionKeepsSound ==
    ASSUME NEW t, Sound(t), NEW b \in SUBSET Records, NEW ps \in Promotions(t, b)
    PROVE  /\ UniqueIdentity(Promoted(t, ps)) => Sound(Promoted(t, ps))
           /\ Grows(t, Promoted(t, ps))
           /\ FlagsAreHonest(t) => FlagsAreHonest(Promoted(t, ps))
<1> DEFINE u == Promoted(t, ps)
<1>1. /\ u \in Tables /\ Live(u) = Live(t)
      /\ \A i \in Live(t) :
            \/ u[i] = t[i]
            \/ \E r \in b : Promotes(t, i, r) /\ u[i].wd = r.wd /\ Otherwise(u[i], t[i])
  BY PromotedRows DEF Sound
<1> HIDE DEF u
<1>2. \A i \in Live(t) : t[i] \in Row
  BY LiveRows DEF Sound
<1>3. \A i \in Live(t) : /\ u[i].name = t[i].name /\ u[i].from = t[i].from
                         /\ u[i].at = t[i].at /\ u[i].approximate = t[i].approximate
                         /\ u[i].links = t[i].links /\ u[i].aliases = t[i].aliases
                         /\ u[i].wd # t[i].wd => t[i].wd = None
  BY <1>1 DEF Promotes, Otherwise
<1>4. \A i \in Live(t) : Has(u[i], t[i]) /\ Strange(u, i) \subseteq Strange(t, i)
  <2> TAKE i \in Live(t)
  <2>1. t[i].links \in Nat
    BY <1>2 DEF Row
  <2>2. Has(u[i], t[i])
    BY <1>3, <2>1 DEF Has
  <2>3. Strange(u, i) \subseteq Strange(t, i)
    BY <1>3 DEF Strange
  <2> QED
    BY <2>2, <2>3
<1>5. Grows(t, u)
  BY <1>1, <1>3, <1>4 DEF Grows
<1>6. FlagsAreHonest(t) => FlagsAreHonest(u)
  BY <1>1, <1>3 DEF FlagsAreHonest, Stated
<1> QED
  BY <1>1, <1>5, <1>6 DEF Sound, u

\* The records of a crawl carry distinct ids, so no two rows are promoted to one.
LEMMA CrawlPromotionFits ==
    ASSUME NEW t, Sound(t), NEW b \in SUBSET Records, Crawled(b), NEW ps \in Promotions(t, b)
    PROVE  UniqueIdentity(Promoted(t, ps))
<1> DEFINE u == Promoted(t, ps)
<1>1. /\ u \in Tables /\ Live(u) = Live(t)
      /\ \A i \in Live(t) :
            \/ u[i] = t[i]
            \/ \E r \in b : Promotes(t, i, r) /\ u[i].wd = r.wd /\ Otherwise(u[i], t[i])
  BY PromotedRows DEF Sound
<1> HIDE DEF u
<1>2. \A i \in Live(t) : t[i] \in Row /\ i \in Nat
  BY LiveRows, RowIdsAreFinite DEF Sound
<1> DEFINE new(i, r) == r \in b /\ Promotes(t, i, r) /\ u[i].wd = r.wd
<1>3. \A i \in Live(t) : u[i] = t[i] \/ \E r \in b : new(i, r)
  BY <1>1
<1>4. ASSUME NEW i \in Live(t), NEW j \in Live(t), i # j, NEW r \in b, new(i, r)
      PROVE  Identity(u[i]) # Identity(u[j])
  <2>1. u[i].wd = r.wd /\ r.wd # None
    BY <1>4 DEF Promotes
  <2>2. u[j] = t[j] => u[j].wd # r.wd
    BY <1>4 DEF Promotes
  <2>3. ASSUME NEW q \in b, new(j, q) PROVE u[j].wd # r.wd
    <3>1. q.wd = u[j].wd /\ (q.wd = r.wd => q = r)
      BY <1>4, <2>1, <2>3 DEF Crawled
    <3>2. q # r
      BY <1>2, <1>4, <2>3 DEF Promotes
    <3> QED
      BY <3>1, <3>2
  <2>4. u[i].wd # u[j].wd
    BY <1>3, <2>1, <2>2, <2>3
  <2> QED
    BY <2>1, <2>4, SameIdentity
<1> SUFFICES ASSUME NEW i \in Live(t), NEW j \in Live(t), i # j
             PROVE  Identity(u[i]) # Identity(u[j])
  BY <1>1 DEF UniqueIdentity, u
<1>5. CASE u[i] = t[i] /\ u[j] = t[j]
  BY <1>5 DEF Sound, UniqueIdentity
<1>6. CASE \E r \in b : new(i, r)
  BY <1>4, <1>6
<1>7. CASE \E r \in b : new(j, r)
  BY <1>4, <1>7
<1> QED
  BY <1>3, <1>5, <1>6, <1>7

-----------------------------------------------------------------------------
(***************************************************************************)
(* Folding rows together, by any rule.                                     *)
(***************************************************************************)

\* A choice of pairs no row of which is on both sides, each of them for a reason.
Foldable(t, pairs) ==
    /\ pairs \subseteq Live(t) \X Live(t)
    /\ Keepers(pairs) \cap Victims(pairs) = {}
    /\ \A p \in pairs : MayFold(t, p[1], p[2])

\* A row for every keeper.
Written(pairs, updated) ==
    DOMAIN updated = Keepers(pairs) /\ \A k \in Keepers(pairs) : updated[k] \in Row

\* What an update makes of the keepers.
Updates(pc, t, pairs, f, updated) ==
    /\ f \in Picks(pairs)
    /\ DOMAIN updated = Keepers(pairs)
    /\ \A k \in Keepers(pairs) : Merged(pc, updated[k], t[k], t[f[k]])

LEMMA PickedVictims ==
    ASSUME NEW pairs, NEW f \in Picks(pairs), NEW k \in Keepers(pairs)
    PROVE  <<k, f[k]>> \in pairs
  BY DEF Picks

LEMMA FoldedRows ==
    ASSUME NEW t \in Tables, NEW pairs, NEW updated,
           Foldable(t, pairs), Written(pairs, updated)
    PROVE  /\ Folded(t, pairs, updated) \in Tables
           /\ Live(Folded(t, pairs, updated)) = Live(t) \ Victims(pairs)
           /\ Keepers(pairs) \subseteq Live(t) \ Victims(pairs)
           /\ \A i \in Keepers(pairs) : Folded(t, pairs, updated)[i] = updated[i]
           /\ \A i \in Live(t) \ Victims(pairs) :
                 i \notin Keepers(pairs) => Folded(t, pairs, updated)[i] = t[i]
<1> DEFINE u == Folded(t, pairs, updated)
           V == Victims(pairs)
           K == Keepers(pairs)
<1>1. K \subseteq Live(t) /\ V \subseteq Live(t) /\ K \cap V = {}
  BY DEF Foldable, Keepers, Victims
<1>2. \A i : (\E p \in pairs : p[2] = i) <=> i \in V
  BY DEF Victims
<1>3. /\ u = [i \in RowIds |-> u[i]]
      /\ \A i \in RowIds : u[i] = IF i \in V THEN Gone ELSE IF i \in K THEN updated[i] ELSE t[i]
  BY <1>2 DEF Folded, Written
<1>4. \A k \in K : updated[k] \in Row
  BY DEF Written
<1> HIDE DEF u, V, K
<1>5. u \in Tables
  BY <1>3, <1>4 DEF Tables
<1>6. \A i \in RowIds : i \in Live(u) <=> i \in Live(t) /\ i \notin V
  BY <1>1, <1>3, <1>4, <1>5, LiveRows, AbsenceAssumption
<1>7. Live(u) = Live(t) \ V
  BY <1>5, <1>6, LiveRows
<1>8. Live(t) \subseteq RowIds
  BY LiveRows
<1> QED
  BY <1>1, <1>3, <1>5, <1>7, <1>8 DEF u, V, K

LEMMA UpdatesWrite ==
    ASSUME NEW pc, NEW t, NEW pairs, NEW f, NEW updated, Updates(pc, t, pairs, f, updated)
    PROVE  Written(pairs, updated)
  BY DEF Updates, Merged, Written

LEMMA FoldKeepsSound ==
    ASSUME NEW pc, NEW t, Sound(t), NEW pairs, NEW f, NEW updated,
           Foldable(t, pairs), Updates(pc, t, pairs, f, updated)
    PROVE  Sound(Folded(t, pairs, updated))
<1> DEFINE u == Folded(t, pairs, updated)
<1>0. t \in Tables
  BY DEF Sound
<1>1. /\ u \in Tables /\ Live(u) \subseteq Live(t)
      /\ \A i \in Live(u) : u[i] = t[i] \/ (i \in Keepers(pairs) /\ u[i] = updated[i])
  BY <1>0, UpdatesWrite, FoldedRows
<1> HIDE DEF u
<1>2. \A i \in Live(u) : u[i].wd = t[i].wd /\ u[i].name = t[i].name /\ u[i].country = t[i].country
  BY <1>1 DEF Updates, Merged
<1>3. \A i \in Live(u) : Identity(u[i]) = Identity(t[i])
  BY <1>2 DEF Identity
<1>4. UniqueIdentity(u)
  BY <1>1, <1>3 DEF Sound, UniqueIdentity
<1> QED
  BY <1>1, <1>4 DEF Sound, u

\* At most one: two of them are the same one.
LEMMA AtMostOne ==
    ASSUME NEW S, IsFiniteSet(S), Cardinality(S) <= 1, NEW a \in S, NEW b \in S
    PROVE  a = b
<1> SUFFICES ASSUME a # b PROVE FALSE
  OBVIOUS
<1>1. IsFiniteSet({a}) /\ Cardinality({a}) = 1
  BY FS_Singleton
<1>2. Cardinality({a} \cup {b}) = 2
  <2>1. b \notin {a}
    OBVIOUS
  <2>2. Cardinality({a} \cup {b}) = Cardinality({a}) + 1
    BY <1>1, <2>1, FS_AddElement
  <2> QED
    BY <1>1, <2>2
<1>3. Cardinality({a} \cup {b}) <= Cardinality(S)
  <2>1. {a} \cup {b} \subseteq S
    OBVIOUS
  <2> QED
    BY <2>1, FS_Subset
<1>4. Cardinality(S) \in Nat
  BY FS_CardinalityType
<1> QED
  BY <1>2, <1>3, <1>4

\* What the statement at pc loses is no museum: what it deletes was folded into
\* a row that stays, which, as long as no row had two duplicates, took it over.
LosesNothing(pc, t, u) ==
    /\ \A v \in Live(t) \ Live(u) : \E k \in Live(t) \cap Live(u) : MayFold(t, k, v)
    /\ \A i \in Live(t) \cap Live(u) : Has(u[i], t[i])
    /\ (\A k \in Live(t) : Cardinality({v \in Live(t) \ Live(u) : MayFold(t, k, v)}) <= 1)
          => \A v \in Live(t) \ Live(u) : \E k \in Live(t) \cap Live(u) :
                MayFold(t, k, v) /\ TakesOver(pc, u[k], t[v])

LEMMA GrowthLosesNothing ==
    ASSUME NEW pc, NEW t, NEW u, Grows(t, u)
    PROVE  LosesNothing(pc, t, u)
<1>1. Live(t) \ Live(u) = {}
  BY DEF Grows
<1> QED
  BY <1>1 DEF LosesNothing, Grows

LEMMA FoldLosesNothing ==
    ASSUME NEW pc, NEW t \in Tables, NEW pairs, NEW f, NEW updated,
           Foldable(t, pairs), Updates(pc, t, pairs, f, updated)
    PROVE  LosesNothing(pc, t, Folded(t, pairs, updated))
<1> DEFINE u == Folded(t, pairs, updated)
           gone == Live(t) \ Live(u)
<1>1. /\ Live(u) = Live(t) \ Victims(pairs) /\ Keepers(pairs) \subseteq Live(u)
      /\ Victims(pairs) \subseteq Live(t)
      /\ \A i \in Keepers(pairs) : u[i] = updated[i]
      /\ \A i \in Live(u) : i \notin Keepers(pairs) => u[i] = t[i]
  BY UpdatesWrite, FoldedRows DEF Foldable, Victims
<1> HIDE DEF u
<1>2. gone = Victims(pairs) /\ IsFiniteSet(gone)
  <2>1. gone = Victims(pairs)
    BY <1>1
  <2>2. IsFiniteSet(Live(t))
    BY LiveRows
  <2> QED
    BY <2>1, <2>2, FS_Subset
<1>3. ASSUME NEW v \in gone
      PROVE  \E k \in Keepers(pairs) : <<k, v>> \in pairs /\ MayFold(t, k, v)
  <2>1. PICK p \in pairs : p[2] = v
    BY <1>2, <1>3 DEF Victims
  <2>2. p = <<p[1], p[2]>> /\ p[1] \in Keepers(pairs) /\ MayFold(t, p[1], p[2])
    BY DEF Foldable, Keepers
  <2> QED
    BY <2>1, <2>2
<1>4. \A v \in gone : \E k \in Live(t) \cap Live(u) : MayFold(t, k, v)
  BY <1>1, <1>3
<1>5. ASSUME \A k \in Live(t) : Cardinality({v \in gone : MayFold(t, k, v)}) <= 1,
             NEW v \in gone
      PROVE  \E k \in Live(t) \cap Live(u) : MayFold(t, k, v) /\ TakesOver(pc, u[k], t[v])
  <2>1. PICK k \in Keepers(pairs) : <<k, v>> \in pairs /\ MayFold(t, k, v)
    BY <1>3, <1>5
  <2>2. <<k, f[k]>> \in pairs
    BY PickedVictims DEF Updates
  <2>3. f[k] \in gone /\ MayFold(t, k, f[k])
    BY <1>2, <2>2 DEF Victims, Foldable
  <2> DEFINE folded == {w \in gone : MayFold(t, k, w)}
  <2>4. IsFiniteSet(folded) /\ Cardinality(folded) <= 1
    <3>1. IsFiniteSet(folded)
      BY <1>2, FS_Subset
    <3> QED
      BY <1>1, <1>5, <3>1
  <2>5. f[k] \in folded /\ v \in folded
    BY <1>5, <2>1, <2>3
  <2>6. f[k] = v
    BY <2>4, <2>5, AtMostOne
  <2>7. TakesOver(pc, u[k], t[v])
    BY <1>1, <2>6 DEF Updates, Merged
  <2> QED
    BY <1>1, <2>1, <2>7
<1>6. ASSUME NEW i \in Live(t) \cap Live(u)
      PROVE  Has(u[i], t[i])
  <2>1. CASE i \in Keepers(pairs)
    BY <1>1, <2>1 DEF Updates, Merged
  <2>2. CASE i \notin Keepers(pairs)
    <3>1. u[i] = t[i] /\ t[i].links \in Nat
      BY <1>1, <2>2, LiveRows DEF Row
    <3> QED
      BY <3>1 DEF Has
  <2> QED
    BY <2>1, <2>2
<1> HIDE DEF gone
<1> QED
  BY <1>4, <1>5, <1>6 DEF LosesNothing, u, gone

\* What the statement at pc does to the ids: a row that had one still has it, or
\* stood at the doorway of one that stays; an id that is not a row's own was in
\* it, or in a row that is folded into it, or is that of a row at its doorway.
IdsStay(pc, t, u) ==
    \A i \in Live(t) : t[i].wd # None =>
        \/ \E k \in Live(u) : u[k].wd = t[i].wd
        \/ \E k \in Live(t) \cap Live(u) :
              k # i /\ pc = "variants" /\ AtOneDoorway(t, k, i)

IdsMeet(pc, t, u) ==
    \A i \in Live(u) : \A a \in Strange(u, i) :
        /\ i \in Live(t)
        /\ \/ a \in Strange(t, i)
           \/ \E v \in Live(t) \ Live(u) :
                 /\ MayFold(t, i, v)
                 /\ \/ a \in Strange(t, v)
                    \/ t[v].wd = a /\ pc = "variants" /\ AtOneDoorway(t, i, v)

LEMMA GrowthKeepsIds ==
    ASSUME NEW pc, NEW t, NEW u, Grows(t, u)
    PROVE  IdsStay(pc, t, u) /\ IdsMeet(pc, t, u)
  BY DEF Grows, IdsStay, IdsMeet

\* The rule that ids are respected by: who is deleted has none, or stood at the
\* doorway.
Respectful(pc, t, pairs) ==
    \A p \in pairs : \/ t[p[2]].wd = None
                     \/ pc = "variants" /\ AtOneDoorway(t, p[1], p[2])

LEMMA FoldKeepsIds ==
    ASSUME NEW pc, NEW t \in Tables, NEW pairs, NEW f, NEW updated,
           Foldable(t, pairs), Updates(pc, t, pairs, f, updated), Respectful(pc, t, pairs)
    PROVE  /\ IdsStay(pc, t, Folded(t, pairs, updated))
           /\ IdsMeet(pc, t, Folded(t, pairs, updated))
<1> DEFINE u == Folded(t, pairs, updated)
<1>1. /\ Live(u) = Live(t) \ Victims(pairs) /\ Keepers(pairs) \subseteq Live(u)
      /\ Victims(pairs) \subseteq Live(t)
      /\ \A i \in Keepers(pairs) : u[i] = updated[i]
      /\ \A i \in Live(u) : i \notin Keepers(pairs) => u[i] = t[i]
  BY UpdatesWrite, FoldedRows DEF Foldable, Victims
<1> HIDE DEF u
<1>2. ASSUME NEW i \in Live(t), t[i].wd # None
      PROVE  \/ \E k \in Live(u) : u[k].wd = t[i].wd
             \/ \E k \in Live(t) \cap Live(u) :
                   k # i /\ pc = "variants" /\ AtOneDoorway(t, k, i)
  <2>1. CASE i \in Live(u)
    BY <1>1, <2>1 DEF Updates, Merged
  <2>2. CASE i \notin Live(u)
    <3>1. PICK p \in pairs : p[2] = i
      BY <1>1, <1>2, <2>2 DEF Victims
    <3>2. p[1] \in Live(u) /\ p[1] \in Live(t) /\ p[1] # i
      BY <1>1, <2>2 DEF Keepers
    <3>3. pc = "variants" /\ AtOneDoorway(t, p[1], i)
      BY <1>2, <3>1 DEF Respectful
    <3> QED
      BY <3>2, <3>3
  <2> QED
    BY <2>1, <2>2
<1>3. ASSUME NEW i \in Keepers(pairs), NEW a \in Strange(u, i), a \notin Strange(t, i)
      PROVE  \E v \in Live(t) \ Live(u) :
                /\ MayFold(t, i, v)
                /\ \/ a \in Strange(t, v)
                   \/ t[v].wd = a /\ pc = "variants" /\ AtOneDoorway(t, i, v)
  <2>1. u[i].from = t[i].from \cup t[f[i]].from /\ u[i].wd = t[i].wd
    BY <1>1, <1>3 DEF Updates, Merged
  <2>2. <<i, f[i]>> \in pairs
    BY <1>3, PickedVictims DEF Updates
  <2> DEFINE v == f[i]
  <2>3. /\ v \in Live(t) \ Live(u) /\ MayFold(t, i, v)
        /\ t[v].wd = None \/ (pc = "variants" /\ AtOneDoorway(t, i, v))
    BY <1>1, <2>2 DEF Foldable, Victims, Respectful
  <2> HIDE DEF v
  <2>4. PICK r \in u[i].from : r.wd = a /\ a # None /\ a # t[i].wd
    BY <1>3, <2>1 DEF Strange
  <2>5. r \in t[v].from
    BY <1>3, <2>1, <2>4 DEF Strange, v
  <2>6. a # t[v].wd => a \in Strange(t, v)
    BY <2>4, <2>5 DEF Strange
  <2> QED
    BY <2>3, <2>4, <2>6
<1>4. ASSUME NEW i \in Live(u), i \notin Keepers(pairs)
      PROVE  Strange(u, i) = Strange(t, i)
  BY <1>1, <1>4 DEF Strange
<1>5. IdsStay(pc, t, u)
  BY <1>2 DEF IdsStay
<1>6. IdsMeet(pc, t, u)
  <2> SUFFICES ASSUME NEW i \in Live(u), NEW a \in Strange(u, i), a \notin Strange(t, i)
               PROVE  \E v \in Live(t) \ Live(u) :
                         /\ MayFold(t, i, v)
                         /\ \/ a \in Strange(t, v)
                            \/ t[v].wd = a /\ pc = "variants" /\ AtOneDoorway(t, i, v)
    BY <1>1 DEF IdsMeet
  <2>1. i \in Keepers(pairs)
    BY <1>4
  <2> QED
    BY <1>3, <2>1
<1> QED
  BY <1>5, <1>6 DEF u

\* What the statement at pc does to the table.
Keeps(pc, t, u) ==
    /\ Sound(u)
    /\ LosesNothing(pc, t, u)
    /\ IdsStay(pc, t, u) /\ IdsMeet(pc, t, u)
    /\ Live(t) \ Live(u) = {} => (FlagsAreHonest(t) => FlagsAreHonest(u))

LEMMA GrowthKeeps ==
    ASSUME NEW pc, NEW t, NEW u, Sound(u), Grows(t, u), FlagsAreHonest(t) => FlagsAreHonest(u)
    PROVE  Keeps(pc, t, u)
  BY GrowthLosesNothing, GrowthKeepsIds DEF Keeps

\* A fold does what a statement may.
LEMMA FoldKeeps ==
    ASSUME NEW pc, NEW t, Sound(t), NEW pairs, NEW f, NEW updated,
           Foldable(t, pairs), Updates(pc, t, pairs, f, updated), Respectful(pc, t, pairs)
    PROVE  Keeps(pc, t, Folded(t, pairs, updated))
<1> DEFINE u == Folded(t, pairs, updated)
<1>0. t \in Tables
  BY DEF Sound
<1>2. Sound(u)
  BY FoldKeepsSound
<1>3. LosesNothing(pc, t, u) /\ IdsStay(pc, t, u) /\ IdsMeet(pc, t, u)
  BY <1>0, FoldLosesNothing, FoldKeepsIds
<1>4. ASSUME Live(t) \ Live(u) = {}, FlagsAreHonest(t)
      PROVE  FlagsAreHonest(u)
  <2>1. /\ Live(u) = Live(t) \ Victims(pairs) /\ Victims(pairs) \subseteq Live(t)
        /\ \A i \in Live(u) : i \notin Keepers(pairs) => u[i] = t[i]
    BY <1>0, UpdatesWrite, FoldedRows DEF Foldable, Victims
  <2> HIDE DEF u
  <2>2. Victims(pairs) = {}
    BY <1>4, <2>1
  <2>3. pairs = {}
    BY <2>2 DEF Victims
  <2>4. Keepers(pairs) = {}
    BY <2>3 DEF Keepers
  <2> QED
    BY <1>4, <2>1, <2>2, <2>4 DEF FlagsAreHonest, Stated
<1> QED
  BY <1>2, <1>3, <1>4 DEF Keeps, u

\* MergeDuplicates joins a row without an id to its namesake that has one.
LEMMA DuplicatesFold ==
    ASSUME NEW t, Sound(t), NEW f \in Picks(DuplicatePairs(t))
    PROVE  Keeps("duplicates", t, Folded(t, DuplicatePairs(t),
                           [k \in Keepers(DuplicatePairs(t)) |-> MergeDuplicate(t[k], t[f[k]])]))
<1> DEFINE pairs == DuplicatePairs(t)
           updated == [k \in Keepers(pairs) |-> MergeDuplicate(t[k], t[f[k]])]
<1>1. pairs \subseteq Live(t) \X Live(t) /\ \A p \in pairs : SameMuseum(t, p[1], p[2])
  BY DEF DuplicatePairs
<1>2. f \in Picks(pairs)
  OBVIOUS
<1> HIDE DEF pairs
<1>3. Foldable(t, pairs)
  BY <1>1 DEF Foldable, Keepers, Victims, MayFold, SameMuseum
<1>4. ASSUME NEW k \in Keepers(pairs)
      PROVE  Merged("duplicates", updated[k], t[k], t[f[k]])
  <2>1. t[k] \in Row /\ t[f[k]] \in Row
    <3>1. <<k, f[k]>> \in Live(t) \X Live(t)
      BY <1>1, <1>2, <1>4, PickedVictims
    <3> QED
      BY <3>1, LiveRows DEF Sound
  <2> QED
    BY <1>4, <2>1, MergesType
<1>5. Updates("duplicates", t, pairs, f, updated)
  BY <1>2, <1>4 DEF Updates
<1>6. Respectful("duplicates", t, pairs)
  BY <1>1 DEF Respectful, SameMuseum
<1> QED
  BY <1>3, <1>5, <1>6, FoldKeeps DEF pairs

\* What Resolved leaves of the pairs folds, since no keeper is a victim of any.
LEMMA FinalFolds ==
    ASSUME NEW t, NEW pairs, pairs \subseteq Live(t) \X Live(t),
           \A p \in pairs : MayFold(t, p[1], p[2])
    PROVE  Foldable(t, Final(pairs)) /\ Final(pairs) \subseteq pairs
<1>1. Final(pairs) \subseteq pairs
  BY DEF Final, Resolved
<1>2. \A p \in Final(pairs) : p[1] \notin Victims(pairs)
  BY DEF Final
<1>3. Keepers(Final(pairs)) \cap Victims(Final(pairs)) = {}
  BY <1>1, <1>2 DEF Keepers, Victims
<1> QED
  BY <1>1, <1>3 DEF Foldable

LEMMA VariantsFold ==
    ASSUME NEW t, Sound(t), NEW f \in Picks(Final(VariantPairs(t)))
    PROVE  Keeps("variants", t, Folded(t, Final(VariantPairs(t)),
                           [k \in Keepers(Final(VariantPairs(t))) |-> MergeVariant(t[k], t[f[k]])]))
<1> DEFINE pairs == Final(VariantPairs(t))
           updated == [k \in Keepers(pairs) |-> MergeVariant(t[k], t[f[k]])]
<1>1. /\ VariantPairs(t) \subseteq Live(t) \X Live(t)
      /\ \A p \in VariantPairs(t) : /\ AtOneDoorway(t, p[1], p[2])
                                    /\ MayFold(t, p[1], p[2])
  BY DEF VariantPairs, MayFold
<1>2. f \in Picks(pairs) /\ Foldable(t, pairs) /\ pairs \subseteq VariantPairs(t)
  BY <1>1, FinalFolds
<1> HIDE DEF pairs
<1>3. ASSUME NEW k \in Keepers(pairs)
      PROVE  Merged("variants", updated[k], t[k], t[f[k]])
  <2>1. t[k] \in Row /\ t[f[k]] \in Row /\ t[k].at # None
    <3>1. <<k, f[k]>> \in VariantPairs(t)
      BY <1>2, <1>3, PickedVictims
    <3>2. <<k, f[k]>> \in Live(t) \X Live(t) /\ AtOneDoorway(t, k, f[k])
      BY <1>1, <3>1
    <3> QED
      BY <3>2, LiveRows DEF Sound, AtOneDoorway
  <2> QED
    BY <1>3, <2>1, MergesType
<1>4. Updates("variants", t, pairs, f, updated)
  BY <1>2, <1>3 DEF Updates
<1>5. Respectful("variants", t, pairs)
  BY <1>1, <1>2 DEF Respectful
<1> QED
  BY <1>2, <1>4, <1>5, FoldKeeps DEF pairs

LEMMA AliasesFold ==
    ASSUME NEW t, Sound(t), NEW f \in Picks(Final(AliasPairs(t)))
    PROVE  Keeps("aliases", t, Folded(t, Final(AliasPairs(t)),
                           [k \in Keepers(Final(AliasPairs(t))) |-> MergeAlias(t[k], t[f[k]])]))
<1> DEFINE pairs == Final(AliasPairs(t))
           updated == [k \in Keepers(pairs) |-> MergeAlias(t[k], t[f[k]])]
<1>1. /\ AliasPairs(t) \subseteq Live(t) \X Live(t)
      /\ \A p \in AliasPairs(t) : t[p[2]].wd = None /\ MayFold(t, p[1], p[2])
  <2> SUFFICES ASSUME NEW p \in AliasPairs(t)
               PROVE  /\ p \in Live(t) \X Live(t)
                      /\ t[p[2]].wd = None /\ MayFold(t, p[1], p[2])
    OBVIOUS
  <2>1. /\ p \in Live(t) \X Live(t) /\ t[p[2]].wd = None
        /\ t[p[1]].country = t[p[2]].country
        /\ p[1] \in Answering(t, t[p[2]].name, t[p[2]].country)
        /\ NearOrUnplaced(t[p[1]], t[p[2]])
    BY DEF AliasPairs
  <2>2. t[p[2]].name \in t[p[1]].aliases
    BY <2>1 DEF Answering
  <2> QED
    BY <2>1, <2>2 DEF MayFold
<1>2. f \in Picks(pairs) /\ Foldable(t, pairs) /\ pairs \subseteq AliasPairs(t)
  BY <1>1, FinalFolds
<1> HIDE DEF pairs
<1>3. ASSUME NEW k \in Keepers(pairs)
      PROVE  Merged("aliases", updated[k], t[k], t[f[k]])
  <2>1. t[k] \in Row /\ t[f[k]] \in Row
    <3>1. <<k, f[k]>> \in Live(t) \X Live(t)
      BY <1>1, <1>2, <1>3, PickedVictims
    <3> QED
      BY <3>1, LiveRows DEF Sound
  <2> QED
    BY <1>3, <2>1, MergesType
<1>4. Updates("aliases", t, pairs, f, updated)
  BY <1>2, <1>3 DEF Updates
<1>5. Respectful("aliases", t, pairs)
  BY <1>1, <1>2 DEF Respectful
<1> QED
  BY <1>2, <1>4, <1>5, FoldKeeps DEF pairs

-----------------------------------------------------------------------------
(***************************************************************************)
(* Positions.                                                              *)
(***************************************************************************)

\* The centre of some placed rows is a position.
LEMMA CentroidType ==
    ASSUME NEW t \in Tables, NEW group \in SUBSET Live(t), group # {},
           \A i \in group : t[i].at # None
    PROVE  Centroid(t, group) \in Int
<1> DEFINE F(k, g) == g = [n \in 0 .. k |->
                              IF n = 0 THEN 0
                              ELSE g[n - 1] + (IF n \in group THEN t[n].at ELSE 0)]
           Good == {k \in Nat : \E g : F(k, g)}
<1>1. \A n : n \in group => t[n].at \in Int
  BY LiveRows DEF Row
<1> HIDE DEF F
<1>2. 0 \in Good
  <2>1. F(0, [n \in 0 .. 0 |-> 0])
    BY DEF F
  <2> QED
    BY <2>1
<1>3. ASSUME NEW k \in 1 .. MaxRows, k - 1 \in Good
      PROVE  k \in Good
  <2>1. PICK g : F(k - 1, g)
    BY <1>3
  <2> DEFINE h == [n \in 0 .. k |->
                      IF n = k THEN g[k - 1] + (IF k \in group THEN t[k].at ELSE 0) ELSE g[n]]
  <2>2. F(k, h)
    BY <2>1 DEF F
  <2> QED
    BY <2>2
<1>4. MaxRows \in Good
  BY <1>2, <1>3, RowIdsAreFinite, StepByStep
<1> DEFINE upTo == CHOOSE g : F(MaxRows, g)
<1>5. F(MaxRows, upTo)
  BY <1>4
<1>6. Centroid(t, group) = upTo[MaxRows] \div Cardinality(group)
  BY Zenon DEF Centroid, F, upTo
<1> HIDE DEF upTo
<1>7. \A n \in 0 .. MaxRows :
         upTo[n] = IF n = 0 THEN 0 ELSE upTo[n - 1] + (IF n \in group THEN t[n].at ELSE 0)
  BY <1>5, Zenon DEF F
<1> DEFINE Whole == {n \in Nat : upTo[n] \in Int}
<1>8. 0 \in Whole
  BY <1>7, RowIdsAreFinite
<1>9. ASSUME NEW n \in 1 .. MaxRows, n - 1 \in Whole
      PROVE  n \in Whole
  BY <1>1, <1>7, <1>9, RowIdsAreFinite
<1>10. MaxRows \in Whole
  BY <1>8, <1>9, RowIdsAreFinite, StepByStep
<1>11. Cardinality(group) \in Nat \ {0}
  <2>1. IsFiniteSet(group)
    BY LiveRows, FS_Subset
  <2> QED
    BY <2>1, FS_CardinalityType, FS_EmptySet
<1> QED
  BY <1>6, <1>10, <1>11

\* Rows are placed, or lose their place, and are otherwise what they were.
Moves(t, u) ==
    /\ u \in Tables
    /\ Live(u) = Live(t)
    /\ \A i \in Live(t) : /\ u[i].wd = t[i].wd /\ u[i].name = t[i].name
                          /\ u[i].country = t[i].country /\ u[i].from = t[i].from
                          /\ u[i].links = t[i].links /\ u[i].aliases = t[i].aliases

LEMMA MovesKeepSound ==
    ASSUME NEW t, Sound(t), NEW u, Moves(t, u)
    PROVE  Sound(u) /\ Grows(t, u)
<1>1. \A i \in Live(t) : Identity(u[i]) = Identity(t[i])
  BY DEF Moves, Identity
<1>2. UniqueIdentity(u)
  BY <1>1 DEF Sound, Moves, UniqueIdentity
<1>3. \A i \in Live(t) : Has(u[i], t[i]) /\ Strange(u, i) = Strange(t, i)
  <2> TAKE i \in Live(t)
  <2>1. t[i].links \in Nat
    BY LiveRows DEF Sound, Row
  <2>2. Has(u[i], t[i])
    BY <2>1 DEF Moves, Has
  <2>3. Strange(u, i) = Strange(t, i)
    BY DEF Moves, Strange
  <2> QED
    BY <2>2, <2>3
<1>4. Grows(t, u)
  BY <1>3 DEF Grows, Moves
<1> QED
  BY <1>2, <1>4 DEF Sound, Moves

LEMMA MovesAddUp ==
    ASSUME NEW t, NEW u, NEW v, Moves(t, u), Moves(u, v)
    PROVE  Moves(t, v)
  BY DEF Moves

\* What becomes of a row that is given a position, or loses it.
Relocated(w, m) ==
    /\ w \in Row /\ w.wd = m.wd /\ w.name = m.name /\ w.country = m.country
    /\ w.from = m.from /\ w.links = m.links /\ w.aliases = m.aliases

LEMMA RelocatedRow ==
    ASSUME NEW m \in Row, NEW at \in Int \cup {None}, NEW flag \in BOOLEAN
    PROVE  /\ Relocated(Located(m, at, flag), m)
           /\ Located(m, at, flag).at = at /\ Located(m, at, flag).approximate = flag
<1> DEFINE w == Located(m, at, flag)
<1>1. w.at = at /\ w.approximate = flag
  BY DEF Row, Located
<1>2. /\ w.wd = m.wd /\ w.name = m.name /\ w.country = m.country
      /\ w.from = m.from /\ w.links = m.links /\ w.aliases = m.aliases
  BY DEF Row, Located
<1>3. w \in Row
  BY DEF Row, Located
<1> QED
  BY <1>1, <1>2, <1>3 DEF Relocated

LEMMA RowsMove ==
    ASSUME NEW t \in Tables, NEW u, NEW S \in SUBSET Live(t), u = [i \in RowIds |-> u[i]],
           \A i \in S : Relocated(u[i], t[i]),
           \A i \in RowIds \ S : u[i] = t[i]
    PROVE  Moves(t, u)
<1>1. \A i \in RowIds : u[i] \in Row \cup {None, Gone}
  BY DEF Tables, Relocated
<1>2. u \in Tables
  BY <1>1 DEF Tables
<1>3. \A i \in RowIds : i \in Live(u) <=> i \in Live(t)
  BY <1>2, LiveRows DEF Relocated
<1>4. Live(u) = Live(t)
  BY <1>2, <1>3, LiveRows
<1>5. Live(t) \subseteq RowIds
  BY LiveRows
<1> QED
  BY <1>2, <1>4, <1>5 DEF Moves, Relocated

LEMMA ClearedMoves ==
    ASSUME NEW t \in Tables
    PROVE  Moves(t, Cleared(t)) /\ (FlagsAreHonest(t) => FlagsAreHonest(Cleared(t)))
<1> DEFINE S == {m \in Live(t) : t[m].approximate}
           u == Cleared(t)
<1>1. \A m \in RowIds : m \in S <=> t[m] \notin {None, Gone} /\ t[m].approximate
  BY LiveRows
<1>2. /\ u = [i \in RowIds |-> u[i]]
      /\ \A i \in RowIds : u[i] = IF i \in S THEN Located(t[i], None, FALSE)
                                  ELSE t[i]
  BY <1>1 DEF Cleared
<1> HIDE DEF u
<1>3. ASSUME NEW i \in S
      PROVE  Relocated(u[i], t[i]) /\ u[i].at = None
  <2>1. i \in RowIds /\ t[i] \in Row
    BY LiveRows
  <2>2. u[i] = Located(t[i], None, FALSE)
    BY <1>2, <2>1
  <2>3. None \in Int \cup {None} /\ FALSE \in BOOLEAN
    OBVIOUS
  <2>4. Relocated(Located(t[i], None, FALSE), t[i]) /\ Located(t[i], None, FALSE).at = None
    BY <2>1, <2>3, RelocatedRow, Zenon
  <2> QED
    BY <2>2, <2>4
<1>4. Moves(t, u)
  BY <1>2, <1>3, RowsMove
<1>5. \A i \in Live(u) : i \in Live(t) /\ (u[i].at = None \/ u[i] = t[i])
  BY <1>2, <1>3, <1>4, LiveRows DEF Moves
<1>6. FlagsAreHonest(t) => FlagsAreHonest(u)
  BY <1>5 DEF FlagsAreHonest, Stated
<1> QED
  BY <1>4, <1>6 DEF u

\* A town's centre is marked as what it is.
LEMMA PlacedMoves ==
    ASSUME NEW t \in Tables, NEW tier
    PROVE  Moves(t, Placed(t, tier)) /\ (FlagsAreHonest(t) => FlagsAreHonest(Placed(t, tier)))
<1> DEFINE S == {m \in Live(t) : Placeable(t, m, tier)}
           centre(m) == Centroid(t, Neighbours(t, m, tier))
           u == Placed(t, tier)
<1>1. \A m \in RowIds : m \in S <=> t[m] \notin {None, Gone} /\ Placeable(t, m, tier)
  BY LiveRows
<1>2. /\ u = [i \in RowIds |-> u[i]]
      /\ \A i \in RowIds :
            u[i] = IF i \in S THEN Located(t[i], centre(i), TRUE) ELSE t[i]
  BY <1>1 DEF Placed
<1>3. ASSUME NEW m \in S
      PROVE  centre(m) \in Int
  <2>1. Neighbours(t, m, tier) # {}
    BY <1>3 DEF Placeable
  <2>2. Neighbours(t, m, tier) \subseteq Surveyed(t)
    BY DEF Neighbours
  <2>3. \A i \in Neighbours(t, m, tier) : i \in Live(t) /\ t[i].at # None
    BY <2>2 DEF Surveyed
  <2> QED
    BY <1>3, <2>1, <2>3, CentroidType
<1> HIDE DEF u, centre
<1>4. ASSUME NEW i \in S
      PROVE  Relocated(u[i], t[i]) /\ u[i].approximate = TRUE
  <2>1. i \in RowIds /\ t[i] \in Row
    BY LiveRows
  <2>2. u[i] = Located(t[i], centre(i), TRUE)
    BY <1>2, <2>1
  <2> QED
    BY <1>3, <2>1, <2>2, RelocatedRow
<1>5. Moves(t, u)
  BY <1>2, <1>4, RowsMove
<1>6. \A i \in Live(u) : i \in Live(t) /\ (u[i].approximate \/ u[i] = t[i])
  BY <1>2, <1>4, <1>5, LiveRows DEF Moves
<1>7. FlagsAreHonest(t) => FlagsAreHonest(u)
  BY <1>6 DEF FlagsAreHonest, Stated
<1> QED
  BY <1>5, <1>7 DEF u

LEMMA TownCentresMove ==
    ASSUME NEW t \in Tables
    PROVE  /\ Moves(t, AtTownCentres(t))
           /\ FlagsAreHonest(t) => FlagsAreHonest(AtTownCentres(t))
<1> DEFINE cleared == Cleared(t)
           first == Placed(cleared, 1)
           second == Placed(first, 2)
<1>1. Moves(t, cleared) /\ (FlagsAreHonest(t) => FlagsAreHonest(cleared))
  BY ClearedMoves
<1> HIDE DEF cleared
<1>2. Moves(cleared, first) /\ (FlagsAreHonest(cleared) => FlagsAreHonest(first))
  BY <1>1, PlacedMoves DEF Moves
<1> HIDE DEF first
<1>3. Moves(first, second) /\ (FlagsAreHonest(first) => FlagsAreHonest(second))
  BY <1>2, PlacedMoves DEF Moves
<1> HIDE DEF second
<1>4. Moves(t, second)
  BY <1>1, <1>2, <1>3, MovesAddUp
<1> QED
  BY <1>1, <1>2, <1>3, <1>4 DEF AtTownCentres, cleared, first, second

\* The geocoder's answer is a stated position, and a centre is marked.
LEMMA SetLocationMoves ==
    ASSUME NEW t \in Tables, NEW id, NEW spot \in Int, NEW approximate \in BOOLEAN,
           approximate \/ spot \in Spots
    PROVE  /\ Moves(t, SetLocation(t, id, spot, approximate))
           /\ FlagsAreHonest(t) => FlagsAreHonest(SetLocation(t, id, spot, approximate))
<1> DEFINE u == SetLocation(t, id, spot, approximate)
<1>1. CASE id \in Live(t)
  <2>1. id \in RowIds /\ t[id] \in Row
    BY <1>1, LiveRows
  <2>2. /\ u = [i \in RowIds |-> u[i]]
        /\ u[id] = Located(t[id], spot, approximate)
        /\ \A i \in RowIds \ {id} : u[i] = t[i]
    BY <1>1, <2>1 DEF SetLocation, Tables
  <2> HIDE DEF u
  <2>3. Relocated(u[id], t[id]) /\ u[id].at = spot /\ u[id].approximate = approximate
    BY <2>1, <2>2, RelocatedRow
  <2>4. Moves(t, u)
    <3>1. {id} \in SUBSET Live(t) /\ \A i \in {id} : Relocated(u[i], t[i])
      BY <1>1, <2>3
    <3>2. u = [i \in RowIds |-> u[i]] /\ \A i \in RowIds \ {id} : u[i] = t[i]
      BY <2>2
    <3> QED
      BY <3>1, <3>2, RowsMove
  <2>5. FlagsAreHonest(t) => FlagsAreHonest(u)
    <3> SUFFICES ASSUME FlagsAreHonest(t), NEW i \in Live(u), u[i].at # None, ~u[i].approximate
                 PROVE  u[i].at \in Stated(u, i)
      BY DEF FlagsAreHonest
    <3>1. CASE i = id
      BY <2>3, <3>1 DEF Stated
    <3>2. CASE i # id
      <4>1. i \in Live(t) /\ u[i] = t[i]
        BY <2>2, <2>4, <3>2, LiveRows DEF Moves
      <4> QED
        BY <4>1 DEF FlagsAreHonest, Stated
    <3> QED
      BY <3>1, <3>2
  <2> QED
    BY <2>4, <2>5 DEF u
<1>2. CASE id \notin Live(t)
  BY <1>2 DEF SetLocation, Moves
<1> QED
  BY <1>1, <1>2

-----------------------------------------------------------------------------
(***************************************************************************)
(* The table, statement by statement.                                      *)
(***************************************************************************)

\* The records a crawl still has to send carry distinct ids.
CrawlsAreMerged == loader.kind = "crawl" => Crawled(loader.todo \cup loader.batch)

IInv == TypeOK /\ Sound(rows) /\ CrawlsAreMerged

LEMMA Typed ==
    ASSUME TypeOK
    PROVE  /\ rows \in Tables
           /\ loader \in Loader /\ locator \in Locator
           /\ loader.batch \in SUBSET Records /\ loader.todo \in SUBSET Records
  BY DEF TypeOK, Tables, Loader

LEMMA RestingKeeps ==
    ASSUME Sound(rows), UNCHANGED rows
    PROVE  Keeps(loader.pc, rows, rows')
<1>1. Grows(rows, rows)
  BY GrowthStarts DEF Sound
<1> QED
  BY <1>1, GrowthKeeps

LEMMA PromoteKeeps ==
    ASSUME IInv, Promote
    PROVE  Keeps(loader.pc, rows, rows')
<1>1. Sound(rows) /\ loader.batch \in SUBSET Records
  BY Typed DEF IInv
<1>2. CASE UNCHANGED rows
  BY <1>1, <1>2, RestingKeeps
<1>3. CASE \E ps \in Promotions(rows, loader.batch) :
              UniqueIdentity(Promoted(rows, ps)) /\ rows' = Promoted(rows, ps)
  <2>1. PICK ps \in Promotions(rows, loader.batch) :
           UniqueIdentity(Promoted(rows, ps)) /\ rows' = Promoted(rows, ps)
    BY <1>3
  <2> QED
    BY <1>1, <2>1, PromotionKeepsSound, GrowthKeeps
<1> QED
  BY <1>2, <1>3 DEF Promote

LEMMA SaveBatchKeeps ==
    ASSUME IInv, SaveBatch
    PROVE  Keeps(loader.pc, rows, rows')
<1>1. Sound(rows) /\ loader.batch \in SUBSET Records
  BY Typed DEF IInv
<1>2. CASE UNCHANGED rows
  BY <1>1, <1>2, RestingKeeps
<1>3. CASE \E order \in SetToSeqs(loader.batch) : rows' = Saved(rows, order)
  <2>1. PICK order \in SetToSeqs(loader.batch) : rows' = Saved(rows, order)
    BY <1>3
  <2> QED
    BY <1>1, <2>1, SavedBatch, GrowthKeeps
<1> QED
  BY <1>2, <1>3 DEF SaveBatch

LEMMA SaveRowKeeps ==
    ASSUME IInv, SaveRow
    PROVE  Keeps(loader.pc, rows, rows')
<1>1. Sound(rows) /\ rows \in Tables /\ loader.batch \in SUBSET Records
  BY Typed DEF IInv
<1>2. CASE UNCHANGED rows
  BY <1>1, <1>2, RestingKeeps
<1>3. CASE \E r \in loader.batch : rows' = Upserted(rows, r)
  <2>1. PICK r \in loader.batch : rows' = Upserted(rows, r)
    BY <1>3
  <2>2. r \in Records
    BY <1>1
  <2> QED
    BY <1>1, <2>1, <2>2, UpsertKeepsSound, UpsertGrows, UpsertIsHonest, GrowthKeeps
<1> QED
  BY <1>2, <1>3 DEF SaveRow

LEMMA MergesKeep ==
    ASSUME IInv, MergeDuplicates \/ MergeNameVariants \/ MergeAliasVariants
    PROVE  Keeps(loader.pc, rows, rows')
<1>1. Sound(rows)
  BY DEF IInv
<1>2. CASE UNCHANGED rows
  BY <1>1, <1>2, RestingKeeps
<1>3. CASE MergeDuplicates /\ rows' # rows
  <2> DEFINE pairs == DuplicatePairs(rows)
  <2>1. PICK f \in Picks(pairs) :
           rows' = Folded(rows, pairs, [k \in Keepers(pairs) |-> MergeDuplicate(rows[k], rows[f[k]])])
    BY <1>3 DEF MergeDuplicates
  <2>2. loader.pc = "duplicates"
    BY <1>3 DEF MergeDuplicates
  <2> QED
    BY <1>1, <2>1, <2>2, DuplicatesFold
<1>4. CASE MergeNameVariants
  <2> DEFINE pairs == Final(VariantPairs(rows))
  <2>1. PICK f \in Picks(pairs) :
           rows' = Folded(rows, pairs, [k \in Keepers(pairs) |-> MergeVariant(rows[k], rows[f[k]])])
    BY <1>4 DEF MergeNameVariants
  <2>2. loader.pc = "variants"
    BY <1>4 DEF MergeNameVariants
  <2> QED
    BY <1>1, <2>1, <2>2, VariantsFold
<1>5. CASE MergeAliasVariants /\ rows' # rows
  <2> DEFINE pairs == Final(AliasPairs(rows))
  <2>1. PICK f \in Picks(pairs) :
           rows' = Folded(rows, pairs, [k \in Keepers(pairs) |-> MergeAlias(rows[k], rows[f[k]])])
    BY <1>5 DEF MergeAliasVariants
  <2>2. loader.pc = "aliases"
    BY <1>5 DEF MergeAliasVariants
  <2> QED
    BY <1>1, <2>1, <2>2, AliasesFold
<1> QED
  BY <1>2, <1>3, <1>4, <1>5

\* A town's centre, looked up now or remembered, is a position or unknown.
LEMMA TownCentreType ==
    ASSUME TypeOK, NEW town \in Towns, NEW centre \in TownCentres(town)
    PROVE  centre \in Int \cup {None}
<1>1. rows \in Tables /\ locator.known[town] \in Int \cup {None, Gone}
  BY Typed DEF Locator
<1>2. ASSUME centre \in LocalityPlaces(rows, town)
      PROVE  centre \in Int \cup {None}
  <2> DEFINE alike == {n \in Towns \ {<<>>} : Head(n) = Head(town) /\ InTown(rows, n) # {}}
  <2>1. centre = None \/ \E n \in alike : centre = Centroid(rows, InTown(rows, n))
    BY <1>2 DEF LocalityPlaces
  <2>2. ASSUME NEW n \in alike
        PROVE  Centroid(rows, InTown(rows, n)) \in Int
    <3>1. /\ InTown(rows, n) \in SUBSET Live(rows) /\ InTown(rows, n) # {}
          /\ \A i \in InTown(rows, n) : rows[i].at # None
      BY <2>2 DEF InTown
    <3> QED
      BY <1>1, <3>1, CentroidType
  <2> QED
    BY <2>1, <2>2
<1> QED
  BY <1>1, <1>2 DEF TownCentres

LEMMA PendingType ==
    ASSUME TypeOK, locator.pending # <<>>
    PROVE  /\ Head(locator.pending).id \in RowIds /\ Head(locator.pending).town \in Towns
           /\ Tail(locator.pending) \in Seq([id : RowIds, town : Towns])
<1>1. locator.pending \in Seq([id : RowIds, town : Towns])
  BY Typed DEF Locator
<1> DEFINE Museum == [id : RowIds, town : Towns]
<1>2. \A m \in Museum : m.id \in RowIds /\ m.town \in Towns
  OBVIOUS
<1> HIDE DEF Museum
<1>3. locator.pending \in Seq(Museum)
  BY <1>1 DEF Museum
<1>4. Head(locator.pending) \in Museum /\ Tail(locator.pending) \in Seq(Museum)
  BY <1>3
<1> QED
  BY <1>2, <1>4 DEF Museum

LEMMA LocateKeeps ==
    ASSUME IInv, Locate
    PROVE  Keeps(loader.pc, rows, rows')
<1>1. Sound(rows) /\ rows \in Tables /\ TypeOK
  BY Typed DEF IInv
<1> DEFINE m == Head(locator.pending)
<1>2. m.town \in Towns
  BY <1>1, PendingType DEF Locate
<1>3. CASE UNCHANGED rows
  BY <1>1, <1>3, RestingKeeps
<1>4. CASE \E spot \in Spots : rows' = SetLocation(rows, m.id, spot, FALSE)
  <2>1. PICK spot \in Spots : rows' = SetLocation(rows, m.id, spot, FALSE)
    BY <1>4
  <2>2. spot \in Int /\ FALSE \in BOOLEAN
    BY DistanceAssumption
  <2>3. Moves(rows, rows') /\ (FlagsAreHonest(rows) => FlagsAreHonest(rows)')
    BY <1>1, <2>1, <2>2, SetLocationMoves DEF FlagsAreHonest, Live, Stated
  <2> QED
    BY <1>1, <2>3, MovesKeepSound, GrowthKeeps
<1>5. CASE \E centre \in TownCentres(m.town) :
              centre # None /\ rows' = SetLocation(rows, m.id, centre, TRUE)
  <2>1. PICK centre \in TownCentres(m.town) :
           centre # None /\ rows' = SetLocation(rows, m.id, centre, TRUE)
    BY <1>5
  <2>2. centre \in Int /\ TRUE \in BOOLEAN
    BY <1>1, <1>2, <2>1, TownCentreType
  <2>3. Moves(rows, rows') /\ (FlagsAreHonest(rows) => FlagsAreHonest(rows)')
    BY <1>1, <2>1, <2>2, SetLocationMoves DEF FlagsAreHonest, Live, Stated
  <2> QED
    BY <1>1, <2>3, MovesKeepSound, GrowthKeeps
<1> QED
  BY <1>3, <1>4, <1>5 DEF Locate

LEMMA TableStep ==
    ASSUME IInv, [Next]_vars
    PROVE  Keeps(loader.pc, rows, rows')
<1>1. Sound(rows) /\ rows \in Tables
  BY Typed DEF IInv
<1>2. CASE UNCHANGED rows
  BY <1>1, <1>2, RestingKeeps
<1>3. CASE PlaceAtTownCentres
  <2>1. rows' = AtTownCentres(rows)
    BY <1>3 DEF PlaceAtTownCentres
  <2> QED
    BY <1>1, <2>1, TownCentresMove, MovesKeepSound, GrowthKeeps
<1> QED
  BY <1>2, <1>3, PromoteKeeps, SaveBatchKeeps, SaveRowKeeps, MergesKeep, LocateKeeps
     DEF Next, vars, StartLoad, MergeFails, LoadDies, StartLocate, LocateEnds

-----------------------------------------------------------------------------
(***************************************************************************)
(* The two commands, step by step.                                         *)
(***************************************************************************)

\* A loader that is well typed and whose records are apart.
LoaderOK(l) ==
    l \in Loader /\ (l.kind = "crawl" => Crawled(l.todo \cup l.batch))

LEMMA RestingType == LoaderOK(Resting)
<1>1. Resting \in Loader
  BY DEF Resting, Loader
<1>2. Crawled({} \cup {})
  BY DEF Crawled
<1> QED
  BY <1>1, <1>2 DEF LoaderOK, Resting

LEMMA NextBatchType ==
    ASSUME NEW kind \in {"crawl", "reindex"}, NEW todo \in SUBSET Records,
           kind = "crawl" => Crawled(todo), NextBatch(kind, todo)
    PROVE  LoaderOK(loader')
<1>1. CASE todo = {}
  <2>1. loader' = [pc |-> "duplicates", kind |-> kind, todo |-> {}, batch |-> {}, retry |-> FALSE]
    BY <1>1 DEF NextBatch, Resting
  <2>2. Crawled({} \cup {})
    BY DEF Crawled
  <2> QED
    BY <2>1, <2>2 DEF LoaderOK, Loader
<1>2. CASE todo # {}
  <2>1. PICK b \in SUBSET todo :
           loader' = [pc |-> "promoting", kind |-> kind, todo |-> todo \ b,
                      batch |-> b, retry |-> FALSE]
    BY <1>2 DEF NextBatch
  <2>2. (todo \ b) \cup b = todo
    OBVIOUS
  <2>3. loader'.kind = kind /\ loader'.todo \cup loader'.batch = todo
    BY <2>1, <2>2
  <2>4. loader' \in Loader
    BY <2>1 DEF Loader
  <2> QED
    BY <2>3, <2>4 DEF LoaderOK
<1> QED
  BY <1>1, <1>2

\* The step or the batch of a loader changes, never what it loads.
LEMMA LoaderRewritten ==
    ASSUME NEW l, LoaderOK(l), NEW b \in SUBSET l.batch, NEW retry \in BOOLEAN,
           NEW pc \in {"idle", "promoting", "saving", "duplicates", "variants", "aliases"}
    PROVE  LoaderOK([pc |-> pc, kind |-> l.kind, todo |-> l.todo, batch |-> b, retry |-> retry])
<1> DEFINE m == [pc |-> pc, kind |-> l.kind, todo |-> l.todo, batch |-> b, retry |-> retry]
<1>1. m \in Loader
  BY DEF LoaderOK, Loader
<1>2. m.kind = l.kind /\ m.todo \cup m.batch \subseteq l.todo \cup l.batch
  OBVIOUS
<1> QED
  BY <1>1, <1>2 DEF LoaderOK, Crawled

LEMMA LoaderFields ==
    ASSUME NEW l \in Loader
    PROVE  /\ l = [pc |-> l.pc, kind |-> l.kind, todo |-> l.todo, batch |-> l.batch,
                   retry |-> l.retry]
           /\ l.pc \in {"idle", "promoting", "saving", "duplicates", "variants", "aliases"}
           /\ l.kind \in {"crawl", "reindex"} /\ l.retry \in BOOLEAN
           /\ l.todo \in SUBSET Records /\ l.batch \in SUBSET Records
  BY DEF Loader

LEMMA LoaderStep ==
    ASSUME IInv, [Next]_vars
    PROVE  LoaderOK(loader')
<1>1. LoaderOK(loader) /\ loader \in Loader
  BY DEF IInv, TypeOK, CrawlsAreMerged, LoaderOK
<1>2. /\ loader.kind \in {"crawl", "reindex"} /\ loader.todo \in SUBSET Records
      /\ loader.kind = "crawl" => Crawled(loader.todo)
  BY <1>1, LoaderFields DEF LoaderOK, Crawled
<1>3. CASE UNCHANGED loader
  BY <1>1, <1>3
<1>4. CASE loader' = Resting
  BY <1>4, RestingType
<1>5. CASE NextBatch(loader.kind, loader.todo)
  BY <1>2, <1>5, NextBatchType
<1>6. BatchLost => LoaderOK(loader')
  BY <1>4, <1>5 DEF BatchLost
<1>7. ASSUME NEW pc \in {"saving", "variants", "aliases"}, loader' = [loader EXCEPT !.pc = pc]
      PROVE  LoaderOK(loader')
  <2>1. loader' = [pc |-> pc, kind |-> loader.kind, todo |-> loader.todo,
                   batch |-> loader.batch, retry |-> loader.retry]
    BY <1>1, <1>7, LoaderFields
  <2> QED
    BY <1>1, <2>1, LoaderRewritten, LoaderFields
<1>8. CASE StartLoad
  <2>1. PICK kind \in {"crawl", "reindex"}, c \in SUBSET Records :
           (kind = "crawl" => Crawled(c)) /\ NextBatch(kind, c)
    BY <1>8 DEF StartLoad
  <2> QED
    BY <2>1, NextBatchType
<1>9. CASE Promote
  BY <1>6, <1>7, <1>9 DEF Promote
<1>10. CASE SaveBatch
  <2>1. CASE loader' = [loader EXCEPT !.retry = TRUE]
    <3>1. loader' = [pc |-> loader.pc, kind |-> loader.kind, todo |-> loader.todo,
                     batch |-> loader.batch, retry |-> TRUE]
      BY <1>1, <2>1 DEF Loader
    <3> QED
      BY <1>1, <3>1, LoaderRewritten, LoaderFields
  <2> QED
    BY <1>5, <1>10, <2>1 DEF SaveBatch
<1>11. CASE SaveRow
  <2>1. ASSUME NEW r \in loader.batch, loader' = [loader EXCEPT !.batch = @ \ {r}]
        PROVE  LoaderOK(loader')
    <3>1. loader' = [pc |-> loader.pc, kind |-> loader.kind, todo |-> loader.todo,
                     batch |-> loader.batch \ {r}, retry |-> loader.retry]
      BY <1>1, <2>1 DEF Loader
    <3> QED
      BY <1>1, <3>1, LoaderRewritten, LoaderFields
  <2> QED
    BY <1>5, <1>11, <2>1 DEF SaveRow
<1>12. CASE MergeDuplicates \/ MergeNameVariants \/ MergeAliasVariants
  BY <1>3, <1>4, <1>7, <1>12 DEF MergeDuplicates, MergeNameVariants, MergeAliasVariants
<1> QED
  BY <1>3, <1>4, <1>8, <1>9, <1>10, <1>11, <1>12
     DEF Next, vars, MergeFails, LoadDies, StartLocate, Locate, LocateEnds, PlaceAtTownCentres

LEMMA StartLocateType ==
    ASSUME TypeOK, StartLocate
    PROVE  locator' \in Locator
<1>1. PICK order \in SetToSeqs(Unplaced(rows)) :
         locator' = [pending |-> [n \in DOMAIN order |->
                                    [id |-> order[n], town |-> rows[order[n]].town]],
                     known |-> [town \in Towns |-> Gone]]
  BY DEF StartLocate
<1> DEFINE Museum == [id : RowIds, town : Towns]
           pending == [n \in DOMAIN order |-> [id |-> order[n], town |-> rows[order[n]].town]]
<1>2. rows \in Tables /\ Unplaced(rows) \subseteq Live(rows)
  BY Typed DEF Unplaced
<1>3. IsFiniteSet(Unplaced(rows)) /\ Cardinality(Unplaced(rows)) \in Nat
  BY <1>2, LiveRows, FS_Subset, FS_CardinalityType
<1>4. order \in [1 .. Cardinality(Unplaced(rows)) -> Unplaced(rows)]
  BY DEF SetToSeqs
<1>5. \A i \in Unplaced(rows) : [id |-> i, town |-> rows[i].town] \in Museum
  BY <1>2, LiveRows DEF Row
<1>6. pending \in [1 .. Cardinality(Unplaced(rows)) -> Museum]
  BY <1>4, <1>5
<1> HIDE DEF pending, Museum
<1>7. pending \in Seq(Museum)
  BY <1>3, <1>6
<1>8. [town \in Towns |-> Gone] \in [Towns -> Int \cup {None, Gone}]
  OBVIOUS
<1> QED
  BY <1>1, <1>7, <1>8 DEF Locator, pending, Museum

LEMMA LocatorStep ==
    ASSUME IInv, [Next]_vars
    PROVE  locator' \in Locator
<1>1. TypeOK /\ locator \in Locator
  BY Typed DEF IInv
<1>2. /\ locator = [pending |-> locator.pending, known |-> locator.known]
      /\ locator.known \in [Towns -> Int \cup {None, Gone}]
  BY <1>1 DEF Locator
<1>3. CASE UNCHANGED locator
  BY <1>1, <1>3
<1>4. CASE StartLocate
  BY <1>1, <1>4, StartLocateType
<1>5. CASE LocateEnds
  <2>1. locator' = [pending |-> <<>>, known |-> locator.known]
    BY <1>2, <1>5 DEF LocateEnds
  <2>2. <<>> \in Seq([id : RowIds, town : Towns])
    OBVIOUS
  <2> QED
    BY <1>2, <2>1, <2>2 DEF Locator
<1>6. CASE Locate
  <2> DEFINE m == Head(locator.pending)
             rest == Tail(locator.pending)
  <2>1. m.town \in Towns /\ rest \in Seq([id : RowIds, town : Towns])
    BY <1>1, <1>6, PendingType DEF Locate
  <2> HIDE DEF rest
  <2>2. CASE locator' = [locator EXCEPT !.pending = Tail(@)]
    <3>1. locator' = [pending |-> rest, known |-> locator.known]
      BY <1>2, <2>2 DEF rest
    <3> QED
      BY <1>2, <2>1, <3>1 DEF Locator
  <2>3. CASE \E centre \in TownCentres(m.town) : Remember(m.town, centre)
    <3>1. PICK centre \in TownCentres(m.town) : Remember(m.town, centre)
      BY <2>3
    <3> DEFINE known == IF m.town = <<>> THEN locator.known
                        ELSE [locator.known EXCEPT ![m.town] = centre]
    <3>2. centre \in Int \cup {None}
      BY <1>1, <2>1, <3>1, TownCentreType
    <3>3. known \in [Towns -> Int \cup {None, Gone}]
      BY <1>2, <3>2
    <3>4. locator' = [pending |-> rest, known |-> known]
      BY <3>1 DEF Remember, rest
    <3> HIDE DEF known
    <3> QED
      BY <2>1, <3>3, <3>4 DEF Locator
  <2> QED
    BY <1>6, <2>2, <2>3 DEF Locate
<1> QED
  BY <1>3, <1>4, <1>5, <1>6
     DEF Next, vars, StartLoad, Promote, SaveBatch, SaveRow, MergeDuplicates,
         MergeNameVariants, MergeAliasVariants, MergeFails, LoadDies, PlaceAtTownCentres

LEMMA SpentStep ==
    ASSUME IInv, [Next]_vars
    PROVE  spent' \in [loads : 0 .. MaxLoads, faults : 0 .. MaxFaults, locates : 0 .. MaxLocates]
<1> DEFINE Spent == [loads : 0 .. MaxLoads, faults : 0 .. MaxFaults, locates : 0 .. MaxLocates]
<1>1. /\ spent \in Spent
      /\ spent.loads \in 0 .. MaxLoads /\ spent.faults \in 0 .. MaxFaults
      /\ spent.locates \in 0 .. MaxLocates
  BY DEF IInv, TypeOK
<1>2. /\ MaxLoads \in Nat /\ MaxFaults \in Nat /\ MaxLocates \in Nat
  BY BoundAssumption
<1>3. CASE UNCHANGED spent
  BY <1>1, <1>3
<1>4. CASE MayFault /\ Faulted
  <2>1. spent.faults + 1 \in 0 .. MaxFaults
    BY <1>1, <1>2, <1>4 DEF MayFault
  <2> QED
    BY <1>1, <1>4, <2>1 DEF Faulted
<1>5. CASE StartLoad
  <2>1. spent.loads + 1 \in 0 .. MaxLoads /\ spent' = [spent EXCEPT !.loads = @ + 1]
    BY <1>1, <1>2, <1>5 DEF StartLoad
  <2> QED
    BY <1>1, <2>1
<1>6. CASE StartLocate \/ PlaceAtTownCentres
  <2>1. spent.locates + 1 \in 0 .. MaxLocates /\ spent' = [spent EXCEPT !.locates = @ + 1]
    BY <1>1, <1>2, <1>6 DEF StartLocate, PlaceAtTownCentres
  <2> QED
    BY <1>1, <2>1
<1> QED
  BY <1>3, <1>4, <1>5, <1>6
     DEF Next, vars, Promote, SaveBatch, SaveRow, MergeDuplicates, MergeNameVariants,
         MergeAliasVariants, MergeFails, LoadDies, Locate, LocateEnds

-----------------------------------------------------------------------------
(***************************************************************************)
(* The theorems.                                                           *)
(***************************************************************************)

LEMMA Starts == Init => IInv
<1> SUFFICES ASSUME Init PROVE IInv
  OBVIOUS
<1>1. rows \in Tables /\ Live(rows) = {}
  BY DEF Init, Tables, Live
<1>2. Sound(rows)
  BY <1>1 DEF Sound, UniqueIdentity
<1>3. LoaderOK(loader)
  BY RestingType DEF Init
<1>4. locator \in Locator
  <2>1. locator = [pending |-> <<>>, known |-> [town \in Towns |-> Gone]]
    BY DEF Init
  <2>2. /\ [town \in Towns |-> Gone] \in [Towns -> Int \cup {None, Gone}]
        /\ <<>> \in Seq([id : RowIds, town : Towns])
    OBVIOUS
  <2> QED
    BY <2>1, <2>2 DEF Locator
<1>5. spent \in [loads : 0 .. MaxLoads, faults : 0 .. MaxFaults, locates : 0 .. MaxLocates]
  BY BoundAssumption DEF Init
<1> QED
  BY <1>1, <1>2, <1>3, <1>4, <1>5 DEF IInv, TypeOK, Tables, LoaderOK, CrawlsAreMerged

LEMMA Continues == IInv /\ [Next]_vars => IInv'
<1> SUFFICES ASSUME IInv, [Next]_vars PROVE IInv'
  OBVIOUS
<1>1. Sound(rows')
  BY TableStep DEF Keeps
<1>2. LoaderOK(loader')
  BY LoaderStep
<1>3. TypeOK'
  BY <1>1, <1>2, LocatorStep, SpentStep DEF TypeOK, Sound, Tables, LoaderOK
<1>4. CrawlsAreMerged'
  BY <1>2 DEF LoaderOK, CrawlsAreMerged
<1>5. Sound(rows)'
  BY <1>1 DEF Sound, Live, UniqueIdentity
<1> QED
  BY <1>3, <1>4, <1>5 DEF IInv

LEMMA Invariant == Spec => []IInv
  BY Starts, Continues, PTL DEF Spec

\* No two rows have one identity between any two statements, and a crawl's
\* promotions never collide with the unique index, whatever was stored before
\* (promoteWikidataIDs, the upsert, the merges).
THEOREM CatalogueIsSound == Spec => []CatalogueInv
<1>1. IInv => CrawlPromotionsFit
  <2> SUFFICES ASSUME IInv, loader.kind = "crawl", NEW ps \in Promotions(rows, loader.batch)
               PROVE  UniqueIdentity(Promoted(rows, ps))
    BY DEF CrawlPromotionsFit
  <2>1. Crawled(loader.batch) /\ loader.batch \in SUBSET Records /\ Sound(rows)
    BY Typed DEF IInv, CrawlsAreMerged, Crawled
  <2> QED
    BY <2>1, CrawlPromotionFits
<1>2. IInv => CatalogueInv
  BY <1>1 DEF IInv, CatalogueInv, Sound
<1> QED
  BY <1>2, Invariant, PTL

\* A row that is deleted was folded into one that stays, which, unless two were
\* folded into one row at once, takes over what the columns of the merge let it;
\* no row loses a source, a rank or a name (MergeDuplicates, MergeNameVariants,
\* MergeAliasVariants, the upsert).
THEOREM MergesAreSafe == Spec => MergesLoseNothing
<1>1. ASSUME IInv, [Next]_vars
      PROVE  /\ \A v \in Removed : \E k \in Kept : MayFold(rows, k, v)
             /\ \A i \in Kept : Has(rows'[i], rows[i])
             /\ (\A k \in Live(rows) : Cardinality({v \in Removed : MayFold(rows, k, v)}) <= 1)
                   => \A v \in Removed : \E k \in Kept :
                         MayFold(rows, k, v) /\ TakesOver(loader.pc, rows'[k], rows[v])
  <2>1. LosesNothing(loader.pc, rows, rows')
    BY <1>1, TableStep DEF Keeps
  <2> QED
    BY <2>1 DEF LosesNothing, Removed, Kept
<1>2. IInv /\ [Next]_vars => [\A v \in Removed : \E k \in Kept : MayFold(rows, k, v)]_vars
  BY <1>1
<1>3. IInv /\ [Next]_vars =>
         [/\ \A i \in Kept : Has(rows'[i], rows[i])
          /\ (\A k \in Live(rows) : Cardinality({v \in Removed : MayFold(rows, k, v)}) <= 1)
                => \A v \in Removed : \E k \in Kept :
                      MayFold(rows, k, v) /\ TakesOver(loader.pc, rows'[k], rows[v])]_vars
  BY <1>1
<1> QED
  BY <1>2, <1>3, Invariant, PTL DEF Spec, MergesLoseNothing, FoldedIntoSurvivor, KeepersTakeOver

\* No upsert, lookup or placement lets the centre of a town pass for the
\* position of a museum (saveMuseum, SetLocation, PlaceAtTownCentres).
THEOREM PositionsAreHonest == Spec => OnlyMergesLaunder
<1>1. IInv /\ [Next]_vars =>
         [FlagsAreHonest(rows) /\ Removed = {} => FlagsAreHonest(rows')]_vars
  BY TableStep DEF Keeps, Removed
<1> QED
  BY <1>1, Invariant, PTL DEF Spec, OnlyMergesLaunder

\* A Wikidata id leaves the catalogue, and gets into the row of another museum,
\* only when MergeNameVariants finds two rows of the same significant words within
\* its radius.
THEOREM RowsKeepIds == Spec => IdsAreKept
<1>1. ASSUME IInv, [Next]_vars
      PROVE  /\ \A i \in Live(rows) : rows[i].wd # None =>
                   \/ \E k \in Live(rows') : rows'[k].wd = rows[i].wd
                   \/ \E k \in Kept : k # i /\ MeetAtTheDoorway(k, i)
             /\ \A i \in Live(rows') : \A a \in Strange(rows', i) :
                   /\ i \in Live(rows)
                   /\ \/ a \in Strange(rows, i)
                      \/ \E v \in Removed :
                            /\ MayFold(rows, i, v)
                            /\ \/ a \in Strange(rows, v)
                               \/ rows[v].wd = a /\ MeetAtTheDoorway(i, v)
  <2>1. IdsStay(loader.pc, rows, rows') /\ IdsMeet(loader.pc, rows, rows')
    BY <1>1, TableStep DEF Keeps
  <2>2. \A i \in Live(rows) : rows[i].wd # None =>
           \/ \E k \in Live(rows') : rows'[k].wd = rows[i].wd
           \/ \E k \in Kept : k # i /\ MeetAtTheDoorway(k, i)
    BY <2>1 DEF IdsStay, Kept, MeetAtTheDoorway
  <2> QED
    BY <2>1, <2>2 DEF IdsMeet, Removed, MeetAtTheDoorway
<1>2. IInv /\ [Next]_vars =>
         [\A i \in Live(rows) : rows[i].wd # None =>
            \/ \E k \in Live(rows') : rows'[k].wd = rows[i].wd
            \/ \E k \in Kept : k # i /\ MeetAtTheDoorway(k, i)]_vars
  BY <1>1
<1>3. IInv /\ [Next]_vars =>
         [\A i \in Live(rows') : \A a \in Strange(rows', i) :
             /\ i \in Live(rows)
             /\ \/ a \in Strange(rows, i)
                \/ \E v \in Removed :
                      /\ MayFold(rows, i, v)
                      /\ \/ a \in Strange(rows, v)
                         \/ rows[v].wd = a /\ MeetAtTheDoorway(i, v)]_vars
  BY <1>1
<1> QED
  BY <1>2, <1>3, Invariant, PTL DEF Spec, IdsAreKept, IdsStayCarried, IdsMeetOnlyAtTheDoorway
=============================================================================
