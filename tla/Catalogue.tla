----------------------------- MODULE Catalogue -----------------------------
(***************************************************************************)
(* The museums table and the commands that write it                        *)
(* (internal/postgres/postgres.go): a crawl or a reindex upserts batches   *)
(* of museums and folds together the rows that describe one museum, while  *)
(* "museum locate" gives a position to the rows that have none.            *)
(*                                                                         *)
(* One action per SQL statement, or per transaction: another command may   *)
(* write between two statements of this one, and a command may die there.  *)
(* A row is what the rules look at.  Places are points of a line, a        *)
(* normalized name is a model value with a set of significant words, a     *)
(* normalized town is the sequence of its words, and the aliases are the   *)
(* normalized ones, which the rules compare.  The other columns differ in  *)
(* what the rules do with them: those all of them unite (sources, classes, *)
(* aliases as written) are represented by the set of records a row was     *)
(* made from, and those that only some take over (street, postcode,        *)
(* page_id, source_page) by the locality.                                  *)
(***************************************************************************)
EXTENDS Integers, Sequences, FiniteSets, SequencesExt

CONSTANTS
    Records,         \* what the sources supply: a set of museum records
    Words,           \* Words[n]: the words of name n longer than two letters
    LongWords,       \* the leading words of towns of four letters or more
    Spots,           \* positions the geocoder may answer
    Doorway,         \* 150 m
    Kilometre,       \* 1000 m
    TownSpread,      \* maxTownSpreadKm
    Batch,           \* museums in one SaveMuseums
    MaxHarvest, MaxRows, MaxLoads, MaxFaults, MaxLocates,   \* bounds of the model
    None, Gone       \* no value; the id of a row that was deleted

ASSUME DistanceAssumption ==
    /\ Doorway \in Nat /\ Kilometre \in Nat /\ TownSpread \in Nat /\ Doorway <= Kilometre
    /\ Spots \subseteq Int

ASSUME RecordAssumption ==
    /\ IsFiniteSet(Records)
    /\ \A r \in Records :
          /\ DOMAIN r = {"wd", "name", "country", "aliases", "town", "at", "links"}
          /\ r.name \in DOMAIN Words
          /\ r.aliases \subseteq DOMAIN Words
          /\ r.at \in Int \cup {None}
          /\ r.links \in Nat

ASSUME BoundAssumption ==
    /\ Batch \in Nat \ {0} /\ MaxHarvest \in Nat /\ MaxRows \in Nat
    /\ MaxLoads \in Nat /\ MaxFaults \in Nat /\ MaxLocates \in Nat

VARIABLES
    rows,      \* the museums table: rows[id], None for an id not given out yet
    loader,    \* where the load of a crawl is: its step, and what it has to send
    locator,   \* "museum locate": its list, taken at the start, and its towns
    spent      \* loads, faults and runs of locate so far

vars == <<rows, loader, locator, spent>>

RowIds == 1 .. MaxRows

Names == DOMAIN Words

Countries == {r.country : r \in Records}

\* Towns as the sources write them; <<>> is a town not stated.
Towns == {r.town : r \in Records} \cup {<<>>}

\* A museums row.
Row == [wd : {r.wd : r \in Records} \cup {None},
        name : Names, country : Countries \cup {None},
        aliases : SUBSET Names,         \* aliases_normalized
        town : Towns,                   \* locality
        townKey : Towns,                \* locality_normalized
        at : Int \cup {None}, approximate : BOOLEAN,
        links : Nat,                    \* sitelinks
        from : SUBSET Records]          \* sources: the records folded into it

ASSUME AbsenceAssumption == None # Gone /\ None \notin Row /\ Gone \notin Row

Loader == [pc : {"idle", "promoting", "saving", "duplicates", "variants", "aliases"},
           kind : {"crawl", "reindex"},
           todo : SUBSET Records,       \* records still to send
           batch : SUBSET Records,      \* the batch being saved
           retry : BOOLEAN]             \* row by row, after the batch failed

Locator == [pending : Seq([id : RowIds, town : Towns]),
            known : [Towns -> Int \cup {None, Gone}]]   \* Gone: not looked up yet

TypeOK ==
    /\ rows \in [RowIds -> Row \cup {None, Gone}]
    /\ loader \in Loader
    /\ locator \in Locator
    /\ spent \in [loads : 0 .. MaxLoads, faults : 0 .. MaxFaults, locates : 0 .. MaxLocates]

Live(t) == {i \in RowIds : t[i] \notin {None, Gone}}

Keepers(pairs) == {p[1] : p \in pairs}

Victims(pairs) == {p[2] : p \in pairs}

Distance(a, b) == IF a < b THEN b - a ELSE a - b

First(a, b) == IF a # None THEN a ELSE b

FirstTown(a, b) == IF a # <<>> THEN a ELSE b

Greater(a, b) == IF a < b THEN b ELSE a

MayFault == spent.faults < MaxFaults

Faulted == spent' = [spent EXCEPT !.faults = @ + 1]

(***************************************************************************)
(* Identity.  A row is identified by its Wikidata id, or by its name and   *)
(* country where it has none, and the identity is unique.                  *)
(***************************************************************************)

Identity(r) == IF r.wd # None THEN <<r.wd>> ELSE <<r.name, r.country>>

UniqueIdentity(t) ==
    \A i, j \in Live(t) : i # j => Identity(t[i]) # Identity(t[j])

\* DISTINCT ON name and country: of the incoming records that carry an id, any
\* one for each key.
Incoming(b) ==
    LET known == {r \in b : r.wd # None} IN
    {c \in SUBSET known :
        \A r \in known : \E q \in c :
            {s \in c : s.name = r.name /\ s.country = r.country} = {q}}

\* Mutant: the id may be one that another row carries.
TargetsAny(t, c) ==
    {p \in Live(t) \X c :
        LET sameKey == {i \in Live(t) : /\ t[i].wd = None
                                        /\ t[i].name = p[2].name /\ t[i].country = p[2].country}
        IN  p[1] \in sameKey /\ \A i \in sameKey : p[1] <= i}

\* The rows they supply it to: same name and country, no id of their own, the
\* first of those, and an id no row carries yet.
Targets(t, c) ==
    {p \in Live(t) \X c :
        LET sameKey == {i \in Live(t) : /\ t[i].wd = None
                                        /\ t[i].name = p[2].name /\ t[i].country = p[2].country}
        IN  /\ p[1] \in sameKey /\ \A i \in sameKey : p[1] <= i
            /\ \A j \in Live(t) : t[j].wd # p[2].wd}

Promotions(t, b) == {Targets(t, c) : c \in Incoming(b)}

Promoted(t, ps) ==
    [i \in RowIds |->
        IF \E p \in ps : p[1] = i
        THEN [t[i] EXCEPT !.wd = (CHOOSE p \in ps : p[1] = i)[2].wd] ELSE t[i]]

(***************************************************************************)
(* The upsert of one record.                                               *)
(***************************************************************************)

FreshRow(r) ==
    [wd |-> r.wd, name |-> r.name, country |-> r.country, aliases |-> r.aliases,
     town |-> r.town, townKey |-> r.town, at |-> r.at, approximate |-> FALSE,
     links |-> r.links, from |-> {r}]

\* ON CONFLICT (identity) DO UPDATE: the flag that says whether the position
\* is approximate is not among the columns it sets.
Updated(m, r) ==
    [wd |-> First(r.wd, m.wd), name |-> r.name, country |-> First(r.country, m.country),
     aliases |-> m.aliases \cup r.aliases,
     town |-> FirstTown(r.town, m.town), townKey |-> r.town,
     at |-> First(r.at, m.at), approximate |-> m.approximate,
     links |-> Greater(r.links, m.links), from |-> m.from \cup {r}]

IsNextId(t, i) == t[i] = None /\ \A j \in RowIds : t[j] = None => i <= j

Conflicting(t, r) == {i \in Live(t) : Identity(t[i]) = Identity(r)}

Upserted(t, r) ==
    LET conflicting == Conflicting(t, r) IN
    [i \in RowIds |-> IF i \in conflicting THEN Updated(t[i], r)
                     ELSE IF conflicting = {} /\ IsNextId(t, i) THEN FreshRow(r)
                     ELSE t[i]]

\* The upserts of a batch, in the order of the batch.
Saved(t, order) ==
    LET after[n \in 0 .. Len(order)] ==
            IF n = 0 THEN t ELSE Upserted(after[n - 1], order[n])
    IN  after[Len(order)]

\* Bound of the model: there are ids left for every record of the batch.
Room(t, b) == Cardinality(b) <= Cardinality({i \in RowIds : t[i] = None})

(***************************************************************************)
(* Folding rows together.  Every rule selects pairs <<keeper, victim>>;    *)
(* the statement then updates each keeper from one of its victims and      *)
(* deletes all of them: an UPDATE that joins several rows to its target    *)
(* uses one of them, whichever it meets.                                   *)
(***************************************************************************)

\* The victim each keeper is updated from.
Picks(pairs) ==
    {f \in [Keepers(pairs) -> Victims(pairs)] : \A k \in Keepers(pairs) : <<k, f[k]>> \in pairs}

Folded(t, pairs, updated) ==
    [i \in RowIds |-> IF \E p \in pairs : p[2] = i THEN Gone
                     ELSE IF i \in DOMAIN updated THEN updated[i]
                     ELSE t[i]]

\* MergeDuplicates: the same name and country, with a Wikidata id and without;
\* DISTINCT ON (keeper.id) takes one duplicate per keeper.
SameMuseum(t, k, d) ==
    /\ t[k].wd # None /\ t[d].wd = None
    /\ t[k].name = t[d].name /\ t[k].country = t[d].country

DuplicatePairs(t) ==
    {p \in Live(t) \X Live(t) :
        /\ SameMuseum(t, p[1], p[2])
        /\ \A d \in Live(t) : SameMuseum(t, p[1], d) => p[2] <= d}

\* The normalized aliases are not among the columns it sets.
MergeDuplicate(k, d) ==
    [k EXCEPT !.town = FirstTown(@, d.town), !.at = First(@, d.at),
              !.links = Greater(@, d.links), !.from = @ \cup d.from]

\* One keeper per victim, the one with the smallest id ...
Resolved(pairs) ==
    {p \in pairs : \A k \in Keepers(pairs) : <<k, p[2]>> \in pairs => p[1] <= k}

\* Mutant: a row that is merged away may be merged into.
FinalAny(pairs) == Resolved(pairs)

\* ... and never a row that is itself being merged away.
Final(pairs) == {p \in Resolved(pairs) : p[1] \notin Victims(pairs)}

\* MergeNameVariants: the same significant words, at least two, at one doorway;
\* the better documented row is kept.
Better(t, k, v) ==
    t[k].links > t[v].links \/ (t[k].links = t[v].links /\ k < v)

SameWords(n, m) == Words[n] = Words[m] /\ Cardinality(Words[n]) >= 2

\* Mutant: the same words wherever they are.
VariantPairsAnywhere(t) ==
    {p \in Live(t) \X Live(t) :
        /\ p[1] # p[2]
        /\ SameWords(t[p[1]].name, t[p[2]].name)
        /\ t[p[1]].at # None /\ t[p[2]].at # None
        /\ Better(t, p[1], p[2])}

\* Where a row stands is where the table has it, at its town's centre if that is
\* all that is known.
AtOneDoorway(t, k, v) ==
    /\ SameWords(t[k].name, t[v].name)
    /\ t[k].at # None /\ t[v].at # None
    /\ Distance(t[k].at, t[v].at) <= Doorway

VariantPairs(t) ==
    {p \in Live(t) \X Live(t) :
        p[1] # p[2] /\ AtOneDoorway(t, p[1], p[2]) /\ Better(t, p[1], p[2])}

\* Neither the town nor the position is among the columns it sets.
MergeVariant(k, v) ==
    [k EXCEPT !.aliases = @ \cup v.aliases \cup {v.name},
              !.links = Greater(@, v.links), !.from = @ \cup v.from]

\* MergeAliasVariants: a row with a Wikidata id answers to the name of a row
\* without one, no other row of the country does, and they are not known to be
\* further than a kilometre apart.
Answering(t, name, country) ==
    {i \in Live(t) : t[i].country = country /\ name \in t[i].aliases}

NearOrUnplaced(a, b) ==
    a.at = None \/ b.at = None \/ Distance(a.at, b.at) <= Kilometre

AliasPairs(t) ==
    {p \in Live(t) \X Live(t) :
        /\ p[1] # p[2]
        /\ t[p[1]].wd # None /\ t[p[2]].wd = None
        /\ t[p[1]].country = t[p[2]].country
        /\ Answering(t, t[p[2]].name, t[p[2]].country) = {p[1]}
        /\ NearOrUnplaced(t[p[1]], t[p[2]])}

MergeAlias(k, v) ==
    [k EXCEPT !.aliases = @ \cup v.aliases \cup {v.name},
              !.town = FirstTown(@, v.town), !.at = First(@, v.at),
              !.links = Greater(@, v.links), !.from = @ \cup v.from]

(***************************************************************************)
(* The centres of towns.                                                   *)
(***************************************************************************)

Surveyed(t) ==
    {i \in Live(t) : t[i].at # None /\ ~t[i].approximate
                     /\ t[i].townKey # <<>> /\ t[i].country # None}

\* What tier 1 and tier 2 group a town under: its name, and its leading word.
Key(town, tier) == IF tier = 1 THEN town ELSE <<Head(town)>>

\* The museums whose centre would stand for the town of row m.
Neighbours(t, m, tier) ==
    IF t[m].townKey = <<>> \/ (tier = 2 /\ Head(t[m].townKey) \notin LongWords) THEN {}
    ELSE {i \in Surveyed(t) : t[i].country = t[m].country
                              /\ Key(t[i].townKey, tier) = Key(t[m].townKey, tier)}

Centroid(t, group) ==
    LET upTo[n \in 0 .. MaxRows] ==
            IF n = 0 THEN 0 ELSE upTo[n - 1] + (IF n \in group THEN t[n].at ELSE 0)
    IN  upTo[MaxRows] \div Cardinality(group)

Tight(t, group) == \A i \in group : Distance(t[i].at, Centroid(t, group)) <= TownSpread

Extends(a, b) == IsStrictPrefix(a, b) \/ IsStrictPrefix(b, a)

\* Whether tier places row m, a row with no position.
Placeable(t, m, tier) ==
    LET group == Neighbours(t, m, tier) IN
    /\ t[m].at = None /\ group # {} /\ Tight(t, group)
    /\ tier = 1 \/ \E i \in group : Extends(t[i].townKey, t[m].townKey)

\* A position with its mark, as every statement writes the two.
Located(m, at, approximate) == [m EXCEPT !.at = at, !.approximate = approximate]

Placed(t, tier) ==
    [m \in RowIds |->
        IF t[m] \notin {None, Gone} /\ Placeable(t, m, tier)
        THEN Located(t[m], Centroid(t, Neighbours(t, m, tier)), TRUE)
        ELSE t[m]]

Cleared(t) ==
    [m \in RowIds |->
        IF t[m] \notin {None, Gone} /\ t[m].approximate
        THEN Located(t[m], None, FALSE)
        ELSE t[m]]

\* The transaction of PlaceAtTownCentres: clear, then tier 1, then tier 2.
AtTownCentres(t) == Placed(Placed(Cleared(t), 1), 2)

(***************************************************************************)
(* Loading: a crawl continues after a batch that failed, a reindex stops.  *)
(***************************************************************************)

Resting == [pc |-> "idle", kind |-> "crawl", todo |-> {}, batch |-> {}, retry |-> FALSE]

\* What a crawl merged in memory: no two of its records share a Wikidata id.
Crawled(c) == \A r, s \in c : r # s => r.wd = None \/ r.wd # s.wd

NextBatch(kind, todo) ==
    IF todo = {} THEN loader' = [Resting EXCEPT !.pc = "duplicates", !.kind = kind]
    ELSE \E b \in SUBSET todo :
            /\ Cardinality(b) = Batch \/ (Cardinality(b) < Batch /\ b = todo)
            /\ loader' = [pc |-> "promoting", kind |-> kind, todo |-> todo \ b,
                          batch |-> b, retry |-> FALSE]

StartLoad ==
    /\ loader.pc = "idle"
    /\ spent.loads < MaxLoads
    /\ \E kind \in {"crawl", "reindex"}, c \in SUBSET Records \ {{}} :
          /\ Cardinality(c) <= MaxHarvest
          /\ kind = "crawl" => Crawled(c)
          /\ NextBatch(kind, c)
    /\ spent' = [spent EXCEPT !.loads = @ + 1]
    /\ UNCHANGED <<rows, locator>>

\* SaveMuseums returned an error: the crawl counts the batch as lost.
BatchLost ==
    IF loader.kind = "reindex" THEN loader' = Resting
    ELSE NextBatch(loader.kind, loader.todo)

\* promoteWikidataIDs; the unique index refuses it when it would give two rows
\* the same id.
Promote ==
    /\ loader.pc = "promoting"
    /\ \/ /\ \E ps \in Promotions(rows, loader.batch) :
                IF UniqueIdentity(Promoted(rows, ps))
                THEN /\ rows' = Promoted(rows, ps)
                     /\ loader' = [loader EXCEPT !.pc = "saving"]
                ELSE BatchLost /\ UNCHANGED rows
          /\ UNCHANGED spent
       \/ MayFault /\ Faulted /\ BatchLost /\ UNCHANGED rows
    /\ UNCHANGED locator

\* The batch is one implicit transaction: it takes effect, or none of it does.
SaveBatch ==
    /\ loader.pc = "saving" /\ ~loader.retry /\ Room(rows, loader.batch)
    /\ \/ /\ \E order \in SetToSeqs(loader.batch) : rows' = Saved(rows, order)
          /\ NextBatch(loader.kind, loader.todo)
          /\ UNCHANGED spent
       \/ /\ MayFault /\ Faulted
          /\ loader' = [loader EXCEPT !.retry = TRUE]
          /\ UNCHANGED rows
    /\ UNCHANGED locator

\* After that, one row at a time; a row that is refused is counted and dropped.
SaveRow ==
    /\ loader.pc = "saving" /\ loader.retry
    /\ \/ /\ loader.batch = {}
          /\ NextBatch(loader.kind, loader.todo)
          /\ UNCHANGED <<rows, spent>>
       \/ \E r \in loader.batch :
             /\ \/ rows' = Upserted(rows, r) /\ UNCHANGED spent
                \/ MayFault /\ Faulted /\ UNCHANGED rows
             /\ loader' = [loader EXCEPT !.batch = @ \ {r}]
    /\ UNCHANGED locator

\* A merge that fails ends the load.
MergeFails ==
    /\ loader.pc \in {"duplicates", "variants", "aliases"}
    /\ MayFault /\ Faulted
    /\ loader' = Resting
    /\ UNCHANGED <<rows, locator>>

\* A pass of MergeDuplicates, repeated until it removes nothing.  A reindex
\* ends there.
MergeDuplicates ==
    /\ loader.pc = "duplicates"
    /\ LET pairs == DuplicatePairs(rows) IN
       \/ /\ pairs # {}
          /\ \E f \in Picks(pairs) :
                rows' = Folded(rows, pairs,
                                [k \in Keepers(pairs) |-> MergeDuplicate(rows[k], rows[f[k]])])
          /\ UNCHANGED loader
       \/ /\ pairs = {}
          /\ loader' = IF loader.kind = "crawl" THEN [loader EXCEPT !.pc = "variants"] ELSE Resting
          /\ UNCHANGED rows
    /\ UNCHANGED <<locator, spent>>

MergeNameVariants ==
    /\ loader.pc = "variants"
    /\ LET pairs == Final(VariantPairs(rows)) IN
       \E f \in Picks(pairs) :
             rows' = Folded(rows, pairs,
                             [k \in Keepers(pairs) |-> MergeVariant(rows[k], rows[f[k]])])
    /\ loader' = [loader EXCEPT !.pc = "aliases"]
    /\ UNCHANGED <<locator, spent>>

MergeAliasVariants ==
    /\ loader.pc = "aliases"
    /\ LET pairs == Final(AliasPairs(rows)) IN
       \/ /\ pairs # {}
          /\ \E f \in Picks(pairs) :
                rows' = Folded(rows, pairs,
                                [k \in Keepers(pairs) |-> MergeAlias(rows[k], rows[f[k]])])
          /\ UNCHANGED loader
       \/ pairs = {} /\ loader' = Resting /\ UNCHANGED rows
    /\ UNCHANGED <<locator, spent>>

\* The process is killed, or interrupted: what was committed stays.
LoadDies ==
    /\ loader.pc # "idle"
    /\ MayFault /\ Faulted
    /\ loader' = Resting
    /\ UNCHANGED <<rows, locator>>

(***************************************************************************)
(* "museum locate".                                                        *)
(***************************************************************************)

Unplaced(t) ==
    {i \in Live(t) : t[i].at = None /\ (t[i].town # <<>> \/ t[i].country # None)}

\* UnplacedMuseums: the most prominent first.
StartLocate ==
    /\ locator.pending = <<>>
    /\ spent.locates < MaxLocates
    /\ \E order \in SetToSeqs(Unplaced(rows)) :
          /\ \A m, n \in DOMAIN order : m < n => Better(rows, order[m], order[n])
          /\ locator' = [pending |-> [n \in DOMAIN order |->
                                         [id |-> order[n], town |-> rows[order[n]].town]],
                         known |-> [town \in Towns |-> Gone]]
    /\ spent' = [spent EXCEPT !.locates = @ + 1]
    /\ UNCHANGED <<rows, loader>>

\* Mutant: the mark of an approximate position is not written.
SetLocationUnmarked(t, id, spot, approximate) ==
    IF id \in Live(t) THEN [t EXCEPT ![id].at = spot] ELSE t

SetLocation(t, id, spot, approximate) ==
    IF id \in Live(t) THEN [t EXCEPT ![id] = Located(@, spot, approximate)] ELSE t

\* The centre of the most populous of the towns that share the leading word,
\* approximate positions included; None when nothing is placed there.
InTown(t, town) == {i \in Live(t) : t[i].at # None /\ t[i].townKey # <<>> /\ t[i].town = town}

LocalityPlaces(t, town) ==
    LET alike == {n \in Towns \ {<<>>} : Head(n) = Head(town) /\ InTown(t, n) # {}} IN
    IF alike = {} THEN {None}
    ELSE {Centroid(t, InTown(t, n)) :
             n \in {n \in alike : \A o \in alike : Cardinality(InTown(t, o)) <= Cardinality(InTown(t, n))}}

\* townCentre: every town is looked up once, and what was answered remembered;
\* a lookup that fails is remembered as one that found nothing.
TownCentres(town) ==
    IF town = <<>> THEN {None}
    ELSE IF locator.known[town] # Gone THEN {locator.known[town]}
    ELSE LocalityPlaces(rows, town) \cup {None}

Remember(town, centre) ==
    locator' = [pending |-> Tail(locator.pending),
                known |-> IF town = <<>> THEN locator.known
                          ELSE [locator.known EXCEPT ![town] = centre]]

\* One museum of the list: the geocoder knows it, or answers that it does not
\* and the town's centre is used, or fails.
Locate ==
    /\ locator.pending # <<>>
    /\ LET m == Head(locator.pending) IN
       \/ /\ \E spot \in Spots : rows' = SetLocation(rows, m.id, spot, FALSE)
          /\ locator' = [locator EXCEPT !.pending = Tail(@)]
       \/ \E centre \in TownCentres(m.town) :
             /\ rows' = IF centre = None THEN rows ELSE SetLocation(rows, m.id, centre, TRUE)
             /\ Remember(m.town, centre)
       \/ /\ locator' = [locator EXCEPT !.pending = Tail(@)]
          /\ UNCHANGED rows
    /\ UNCHANGED <<loader, spent>>

\* The write of a position failed, or the command was interrupted.
LocateEnds ==
    /\ locator.pending # <<>>
    /\ MayFault /\ Faulted
    /\ locator' = [locator EXCEPT !.pending = <<>>]
    /\ UNCHANGED <<rows, loader>>

\* "museum locate -town-centres".
PlaceAtTownCentres ==
    /\ spent.locates < MaxLocates
    /\ rows' = AtTownCentres(rows)
    /\ spent' = [spent EXCEPT !.locates = @ + 1]
    /\ UNCHANGED <<loader, locator>>

Init ==
    /\ rows = [i \in RowIds |-> None]
    /\ loader = Resting
    /\ locator = [pending |-> <<>>, known |-> [town \in Towns |-> Gone]]
    /\ spent = [loads |-> 0, faults |-> 0, locates |-> 0]

Next ==
    \/ StartLoad \/ Promote \/ SaveBatch \/ SaveRow
    \/ MergeDuplicates \/ MergeNameVariants \/ MergeAliasVariants
    \/ MergeFails \/ LoadDies
    \/ StartLocate \/ Locate \/ LocateEnds \/ PlaceAtTownCentres

Spec == Init /\ [][Next]_vars

(***************************************************************************)
(* Properties.                                                             *)
(***************************************************************************)

\* Why row v may be folded into row k: one of the three rules.
MayFold(t, k, v) ==
    \/ SameMuseum(t, k, v)
    \/ AtOneDoorway(t, k, v)
    \/ /\ t[v].name \in t[k].aliases /\ t[v].country = t[k].country
       /\ t[v].wd = None /\ NearOrUnplaced(t[k], t[v])

Removed == Live(rows) \ Live(rows')

Kept == Live(rows) \cap Live(rows')

\* A row that is merged away is merged into a row that is still there when the
\* statement is over: a chain of duplicates never loses both of its ends.
FoldedIntoSurvivor ==
    [][\A v \in Removed : \E k \in Kept : MayFold(rows, k, v)]_vars

\* Row m has the sources, the rank and the names of row w.
Has(m, w) == w.from \subseteq m.from /\ w.links <= m.links /\ w.aliases \subseteq m.aliases

\* What row m, the keeper as the merge at pc leaves it, has of row v, which it
\* deletes: its sources and its rank, and a position if v had one; but for
\* MergeNameVariants a town if v had one; but for MergeDuplicates the names v
\* answered to, its own included.
TakesOver(pc, m, v) ==
    /\ v.from \subseteq m.from /\ v.links <= m.links
    /\ v.at # None => m.at # None
    /\ pc # "variants" /\ v.town # <<>> => m.town # <<>>
    /\ pc # "duplicates" => v.aliases \cup {v.name} \subseteq m.aliases

\* "Anything the discarded row knew that the keeper does not is copied over": the
\* row a statement folds another into takes over what TakesOver names, as long
\* as no row had two folded into it by one statement (the case the merges get
\* wrong), and no statement takes a source, a rank or a name from a row it keeps.
KeepersTakeOver ==
    [][/\ \A i \in Kept : Has(rows'[i], rows[i])
       /\ (\A k \in Live(rows) : Cardinality({v \in Removed : MayFold(rows, k, v)}) <= 1)
             => \A v \in Removed : \E k \in Kept :
                   MayFold(rows, k, v) /\ TakesOver(loader.pc, rows'[k], rows[v])]_vars

\* Promoting ids never collides with the unique index while a crawl, whose
\* records carry distinct ids, is loaded: whatever was stored before it.
CrawlPromotionsFit ==
    loader.pc = "promoting" /\ loader.kind = "crawl"
        => \A ps \in Promotions(rows, loader.batch) : UniqueIdentity(Promoted(rows, ps))

\* What holds of the table between any two statements: the unique index, which
\* no statement runs into but the promotion of a reindex.
CatalogueInv == TypeOK /\ UniqueIdentity(rows) /\ CrawlPromotionsFit

\* A merge deletes a row into one that stays, which takes over what the columns
\* of the merge let it.
MergesLoseNothing == FoldedIntoSurvivor /\ KeepersTakeOver

Stated(t, i) == {r.at : r \in t[i].from} \cup Spots

\* Every position not marked approximate was stated by a source of its row or
\* by the geocoder.
FlagsAreHonest(t) ==
    \A i \in Live(t) : t[i].at # None /\ ~t[i].approximate => t[i].at \in Stated(t, i)

\* "Centres are computed only from surveyed positions, never from approximate
\* ones": no upsert, lookup or placement lets a town's centre pass for the
\* position of a museum.  (A merge does: it copies the position of the row it
\* deletes and not the mark.)
OnlyMergesLaunder ==
    [][FlagsAreHonest(rows) /\ Removed = {} => FlagsAreHonest(rows')]_vars

\* The statement folds v into k, or may, by the rule of the doorway.
MeetAtTheDoorway(k, v) == loader.pc = "variants" /\ AtOneDoorway(rows, k, v)

\* A Wikidata id that a row carries stays in the catalogue, unless the row that
\* carries it had the significant words of another, within the radius of the
\* doorway, when MergeNameVariants ran.
IdsStayCarried ==
    [][\A i \in Live(rows) : rows[i].wd # None =>
          \/ \E k \in Live(rows') : rows'[k].wd = rows[i].wd
          \/ \E k \in Kept : k # i /\ MeetAtTheDoorway(k, i)]_vars

\* The ids of the records row i was made from that are not the row's own.
Strange(t, i) == {r.wd : r \in t[i].from} \ {None, t[i].wd}

\* "Never against an explicit disagreement about identity": the id of another
\* museum gets into a row only when a row that carries it, or that it had got
\* into, is folded there, and the first of these only at a doorway.
IdsMeetOnlyAtTheDoorway ==
    [][\A i \in Live(rows') : \A a \in Strange(rows', i) :
          /\ i \in Live(rows)
          /\ \/ a \in Strange(rows, i)
             \/ \E v \in Removed :
                   /\ MayFold(rows, i, v)
                   /\ \/ a \in Strange(rows, v)
                      \/ rows[v].wd = a /\ MeetAtTheDoorway(i, v)]_vars

\* Ids leave the rows that carry them, and meet in a row, only by the rule of the
\* doorway: the same significant words, within its radius, in MergeNameVariants.
IdsAreKept == IdsStayCarried /\ IdsMeetOnlyAtTheDoorway

============================================================================
