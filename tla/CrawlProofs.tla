---------------------------- MODULE CrawlProofs ----------------------------
(***************************************************************************)
(* What a crawl promises for any sources, whatever is interrupted, fails   *)
(* or is written meanwhile: of the merger, which it feeds in any order;    *)
(* of the checkpointer, which writes the merger's entries while it runs;   *)
(* and of the storing and loading that follow.                             *)
(***************************************************************************)
EXTENDS Crawl, WellFoundedInduction, SequenceTheorems, FiniteSetTheorems, TLAPS

(***************************************************************************)
(* The merger, whatever the sources return, in any order.  Two parts of    *)
(* its inductive invariant are properties as they stand; that shared names *)
(* are ambiguous needs the index: every key of an entry is indexed, under  *)
(* the entry or marked ambiguous.                                          *)
(***************************************************************************)

KeysAreIndexed ==
    \A i \in Places : \A k \in EntryKeys(museums[i]) :
        byName[k] # 0 /\ (byName[k] # i => k \in ambiguous)

MergerInv ==
    /\ MergerTypeOK
    /\ OneEntryPerId
    /\ IdsAreNotMixed
    /\ KeysAreIndexed
    /\ StatedCountryWins

\* A set of positions has a first one.
LEMMA FirstIsIn ==
    ASSUME NEW S, S \subseteq Nat, S # {}
    PROVE  First(S) \in S
<1> DEFINE R == {ss \in Nat \X Nat : ss[1] < ss[2]}
<1>1. IsWellFoundedOn(R, Nat)
  BY NatLessThanWellFounded DEF OpToRel
<1> HIDE DEF R
<1>2. PICK x \in S : \A y \in S : ~ (<<y, x>> \in R)
  BY <1>1, WFMin
<1>3. \A y \in S : ~ (y < x)
  BY <1>2 DEF R
<1>4. \A y \in S : x <= y
  BY <1>3
<1> QED
  BY <1>4 DEF First

\* The parts of a record.
LEMMA RecordParts ==
    ASSUME NEW r \in Records
    PROVE  /\ r.id \in Ids \cup {NoId}
           /\ r.names \in Seq(Names) /\ Len(r.names) \in Nat \ {0}
           /\ r.names[1] \in Names
           /\ r.country \in Countries \cup {Unknown}
           /\ r.stated \in BOOLEAN
           /\ NamesOf(r) \in SUBSET Names
           /\ RecordKeys(r) \subseteq Keys
<1>1. r \in [id : Ids \cup {NoId}, names : Seq(Names) \ {<<>>},
             country : Countries \cup {Unknown}, stated : BOOLEAN]
  BY MergerAssumption
<1>2. /\ r.names \in Seq(Names) /\ r.names # <<>>
      /\ r.id \in Ids \cup {NoId}
      /\ r.country \in Countries \cup {Unknown}
      /\ r.stated \in BOOLEAN
  BY <1>1
<1>3. Len(r.names) \in Nat \ {0} /\ \A i \in 1 .. Len(r.names) : r.names[i] \in Names
  BY <1>2
<1>4. NamesOf(r) \in SUBSET Names
  BY <1>3 DEF NamesOf
<1>5. RecordKeys(r) \subseteq Keys
  BY <1>2, <1>4 DEF RecordKeys, KeysOf, Keys
<1> QED
  BY <1>2, <1>3, <1>4, <1>5

\* What is found by name is an entry whose id does not contradict the record's.
LEMMA ByNameAgrees ==
    ASSUME MergerTypeOK, NEW r \in Records, ByName(r) # 0
    PROVE  ByName(r) \in Places /\ Agree(museums[ByName(r)].id, r.id)
<1>1. NamePlaces(r) # {} /\ NamePlaces(r) \subseteq Nat
  BY DEF ByName, NamePlaces
<1>2. First(NamePlaces(r)) \in NamePlaces(r)
  BY <1>1, FirstIsIn
<1> DEFINE key == <<r.names[First(NamePlaces(r))], r.country>>
<1>3. Answers(key, r)
  BY <1>2 DEF NamePlaces
<1>4. ByName(r) = byName[key]
  BY <1>1 DEF ByName
<1> HIDE DEF key
<1>5. key \in Keys
  BY <1>3, RecordParts DEF Answers
<1>6. byName[key] \in 0 .. Len(museums)
  BY <1>5 DEF MergerTypeOK
<1>7. byName[key] \in Places
  BY <1>3, <1>6 DEF Answers, Places
<1> QED
  BY <1>3, <1>4, <1>7 DEF Answers

\* A lookup finds the entry with the record's id if there is one, else an entry
\* whose id does not contradict it, else nothing.
LEMMA LookupAgrees ==
    ASSUME MergerTypeOK, OneEntryPerId, NEW r \in Records
    PROVE  /\ Lookup(r) # 0 => /\ Lookup(r) \in Places
                               /\ Agree(museums[Lookup(r)].id, r.id)
           /\ r.id # NoId /\ (Lookup(r) = 0 \/ museums[Lookup(r)].id # r.id)
                 => byWikidata[r.id] = 0
<1>1. CASE r.id # NoId /\ byWikidata[r.id] # 0
  <2>1. r.id \in Ids
    BY <1>1, RecordParts
  <2>2. byWikidata[r.id] \in Places /\ Lookup(r) = byWikidata[r.id]
    BY <1>1, <2>1 DEF MergerTypeOK, Places, Lookup
  <2>3. museums[Lookup(r)].id = r.id
    BY <2>1, <2>2 DEF OneEntryPerId
  <2> QED
    BY <1>1, <2>2, <2>3 DEF Agree, Places
<1>2. CASE ~ (r.id # NoId /\ byWikidata[r.id] # 0)
  <2>1. Lookup(r) = ByName(r)
    BY <1>2 DEF Lookup
  <2> QED
    BY <1>2, <2>1, ByNameAgrees
<1> QED
  BY <1>1, <1>2

LEMMA NewEntryParts ==
    ASSUME NEW r \in Records
    PROVE  NewEntry(r) \in Entries /\ EntryKeys(NewEntry(r)) \subseteq Keys
<1>1. NewEntry(r) \in Entries
  BY RecordParts DEF NewEntry, Entries
<1> QED
  BY <1>1 DEF EntryKeys, KeysOf, Keys, Entries

LEMMA MergedParts ==
    ASSUME NEW e \in Entries, NEW r \in Records
    PROVE  /\ Merged(e, r) \in Entries /\ EntryKeys(Merged(e, r)) \subseteq Keys
           /\ Merged(e, r).id = IF e.id = NoId THEN r.id ELSE e.id
           /\ Merged(e, r).country = MergedCountry(e, r)
<1>1. MergedCountry(e, r) \in Countries \cup {Unknown}
  BY RecordParts DEF MergedCountry, Entries
<1>2. Merged(e, r) \in Entries
  BY <1>1, RecordParts DEF Merged, Entries
<1>3. EntryKeys(Merged(e, r)) \subseteq Keys
  BY <1>2 DEF EntryKeys, KeysOf, Keys, Entries
<1> QED
  BY <1>2, <1>3 DEF Merged, Entries

\* What Index does to the indexes, for an entry already in its place.
LEMMA IndexParts ==
    ASSUME MergerTypeOK, NEW r \in Records, NEW e \in Entries, NEW i \in Nat \ {0},
           i <= Len(museums) + 1, Index(i, e, r)
    PROVE  /\ byName' \in [Keys -> 0 .. (Len(museums) + 1)]
           /\ i <= Len(museums) => byName' \in [Keys -> 0 .. Len(museums)]
           /\ \A k \in Keys : byName[k] # 0 => byName'[k] = byName[k]
           /\ \A k \in EntryKeys(e) : byName'[k] # 0 /\ (byName'[k] # i => k \in ambiguous')
           /\ ambiguous \subseteq ambiguous' /\ ambiguous' \subseteq Keys
<1> DEFINE keys == IndexedKeys(e, r)
<1>1. keys \subseteq Keys /\ EntryKeys(e) \subseteq keys
  BY RecordParts DEF IndexedKeys, EntryKeys, KeysOf, Keys, Entries
<1>2. /\ byName' = [k \in Keys |-> IF k \in keys /\ byName[k] = 0 THEN i ELSE byName[k]]
      /\ ambiguous' = ambiguous \cup {k \in keys : byName[k] \notin {0, i}}
  BY DEF Index
<1> HIDE DEF keys
<1>3. /\ byName \in [Keys -> 0 .. Len(museums)] /\ ambiguous \subseteq Keys
      /\ Len(museums) \in Nat
  BY DEF MergerTypeOK
<1>4. \A k \in Keys : byName'[k] \in 0 .. (Len(museums) + 1)
  BY <1>2, <1>3
<1>5. i <= Len(museums) => \A k \in Keys : byName'[k] \in 0 .. Len(museums)
  BY <1>2, <1>3
<1>6. ASSUME NEW k \in EntryKeys(e)
      PROVE  byName'[k] # 0 /\ (byName'[k] # i => k \in ambiguous')
  BY <1>1, <1>2, <1>6
<1> QED
  BY <1>1, <1>2, <1>3, <1>4, <1>5, <1>6

LEMMA MergerStart == MergerInit => MergerInv
<1> SUFFICES ASSUME MergerInit PROVE MergerInv
  OBVIOUS
<1> USE DEF MergerInit
<1>1. MergerTypeOK
  BY DEF MergerTypeOK
<1>2. Places = {}
  BY DEF Places
<1>3. OneEntryPerId /\ IdsAreNotMixed /\ KeysAreIndexed /\ StatedCountryWins
  BY <1>2 DEF OneEntryPerId, IdsAreNotMixed, KeysAreIndexed, StatedCountryWins
<1> QED
  BY <1>1, <1>3 DEF MergerInv

\* A record that belongs to no entry starts one.
LEMMA NewKeepsInv ==
    ASSUME MergerInv, NEW r \in Records, AddNew(r)
    PROVE  MergerInv'
<1> DEFINE n == Len(museums) + 1
           e == NewEntry(r)
<1>1. /\ MergerTypeOK /\ Len(museums) \in Nat /\ Len(folded) = Len(museums)
      /\ museums \in Seq(Entries) /\ folded \in Seq(SUBSET Records)
  BY DEF MergerInv, MergerTypeOK
<1>2. e \in Entries /\ EntryKeys(e) \subseteq Keys
  BY NewEntryParts
<1>3. /\ museums' = Append(museums, e) /\ folded' = Append(folded, {r})
      /\ Index(n, e, r) /\ Lookup(r) = 0
  BY DEF AddNew, NewPlace
<1>4. e.id = r.id /\ e.country = r.country
  BY DEF NewEntry
<1> HIDE DEF e
<1>5. /\ museums' \in Seq(Entries) /\ folded' \in Seq(SUBSET Records)
      /\ Len(museums') = n /\ Len(folded') = n
      /\ museums'[n] = e /\ folded'[n] = {r}
      /\ \A i \in Places : museums'[i] = museums[i] /\ folded'[i] = folded[i]
  BY <1>1, <1>2, <1>3 DEF Places
<1>6. Places' = Places \cup {n} /\ n \notin Places /\ n \in Nat \ {0}
  BY <1>1, <1>5 DEF Places
<1>7. r.id # NoId => r.id \in Ids /\ byWikidata[r.id] = 0
  BY <1>1, <1>3, LookupAgrees, RecordParts DEF MergerInv
<1>8. /\ byWikidata' \in [Ids -> 0 .. n]
      /\ \A q \in Ids : byWikidata'[q] = IF q = r.id THEN n ELSE byWikidata[q]
  BY <1>1, <1>3, <1>4, <1>7, MergerAssumption DEF Index, MergerTypeOK
<1>9. /\ byName' \in [Keys -> 0 .. n]
      /\ \A k \in Keys : byName[k] # 0 => byName'[k] = byName[k]
      /\ \A k \in EntryKeys(e) : byName'[k] # 0 /\ (byName'[k] # n => k \in ambiguous')
      /\ ambiguous \subseteq ambiguous' /\ ambiguous' \subseteq Keys
  BY <1>1, <1>2, <1>3, <1>6, IndexParts
<1>10. MergerTypeOK'
  BY <1>5, <1>8, <1>9 DEF MergerTypeOK
<1>11. OneEntryPerId'
  <2> SUFFICES ASSUME NEW i \in Places', NEW q \in Ids
               PROVE  museums'[i].id = q <=> byWikidata'[q] = i
    BY DEF OneEntryPerId
  <2>1. CASE i = n
    <3>1. byWikidata[q] # n
      BY <1>1 DEF MergerTypeOK
    <3> QED
      BY <2>1, <3>1, <1>4, <1>5, <1>8
  <2>2. CASE i \in Places
    <3>1. museums[i].id = q <=> byWikidata[q] = i
      BY <2>2 DEF MergerInv, OneEntryPerId
    <3>2. q = r.id => byWikidata[q] = 0
      BY <1>7, MergerAssumption
    <3> QED
      BY <2>2, <3>1, <3>2, <1>5, <1>6, <1>8 DEF Places
  <2> QED
    BY <2>1, <2>2, <1>6
<1>12. IdsAreNotMixed'
  <2>1. \A i \in Places : \A x \in folded[i] : x.id = NoId \/ x.id = museums[i].id
    BY DEF MergerInv, IdsAreNotMixed
  <2> QED
    BY <2>1, <1>4, <1>5, <1>6 DEF IdsAreNotMixed
<1>13. KeysAreIndexed'
  <2> SUFFICES ASSUME NEW i \in Places', NEW k \in EntryKeys(museums'[i])
               PROVE  byName'[k] # 0 /\ (byName'[k] # i => k \in ambiguous')
    BY DEF KeysAreIndexed, EntryKeys
  <2>1. CASE i = n
    BY <2>1, <1>5, <1>9
  <2>2. CASE i \in Places
    <3>1. museums[i] \in Entries /\ museums'[i] = museums[i]
      BY <2>2, <1>1, <1>5 DEF Places
    <3>2. byName[k] # 0 /\ (byName[k] # i => k \in ambiguous)
      BY <2>2, <3>1 DEF MergerInv, KeysAreIndexed
    <3>3. k \in Keys
      BY <3>1 DEF EntryKeys, KeysOf, Keys, Entries
    <3> QED
      BY <3>2, <3>3, <1>9
  <2> QED
    BY <2>1, <2>2, <1>6
<1>14. StatedCountryWins'
  <2>1. \A i \in Places :
           {x \in folded[i] : x.stated /\ x.country # Unknown} # {}
             => \E x \in {y \in folded[i] : y.stated /\ y.country # Unknown} :
                   museums[i].country = x.country
    BY DEF MergerInv, StatedCountryWins
  <2> QED
    BY <2>1, <1>4, <1>5, <1>6 DEF StatedCountryWins
<1> QED
  BY <1>10, <1>11, <1>12, <1>13, <1>14 DEF MergerInv

\* A record that belongs to an entry is folded into it.
LEMMA MergedKeepsInv ==
    ASSUME MergerInv, NEW r \in Records, AddMerged(r)
    PROVE  MergerInv'
<1> DEFINE i == Lookup(r)
           e == Merged(museums[i], r)
<1>1. /\ MergerTypeOK /\ Len(museums) \in Nat /\ Len(folded) = Len(museums)
      /\ museums \in Seq(Entries) /\ folded \in Seq(SUBSET Records)
      /\ OneEntryPerId
  BY DEF MergerInv, MergerTypeOK
<1>2. /\ i # 0 /\ museums' = [museums EXCEPT ![i] = e]
      /\ Index(i, e, r) /\ folded' = [folded EXCEPT ![i] = @ \cup {r}]
  BY DEF AddMerged
<1>3. /\ i \in Places /\ Agree(museums[i].id, r.id)
      /\ r.id # NoId /\ museums[i].id # r.id => byWikidata[r.id] = 0
  BY <1>1, <1>2, LookupAgrees
<1>4. museums[i] \in Entries /\ folded[i] \in SUBSET Records /\ i \in Nat \ {0} /\ i <= Len(museums)
  BY <1>1, <1>3 DEF Places
<1>5. /\ e \in Entries /\ EntryKeys(e) \subseteq Keys
      /\ e.id = IF museums[i].id = NoId THEN r.id ELSE museums[i].id
      /\ e.country = MergedCountry(museums[i], r)
  BY <1>4, MergedParts
<1> HIDE DEF e, i
<1>6. /\ museums' \in Seq(Entries) /\ folded' \in Seq(SUBSET Records)
      /\ Len(museums') = Len(museums) /\ Len(folded') = Len(museums)
      /\ museums'[i] = e /\ folded'[i] = folded[i] \cup {r}
      /\ \A j \in Places \ {i} : museums'[j] = museums[j] /\ folded'[j] = folded[j]
  BY <1>1, <1>2, <1>4, <1>5 DEF Places
<1>7. Places' = Places
  BY <1>6 DEF Places
<1>8. e.id \in Ids \cup {NoId} /\ museums[i].id \in Ids \cup {NoId} /\ r.id \in Ids \cup {NoId}
  BY <1>4, <1>5, RecordParts DEF Entries
<1>9. /\ byWikidata \in [Ids -> 0 .. Len(museums)]
      /\ byWikidata' = IF e.id = NoId THEN byWikidata ELSE [byWikidata EXCEPT ![e.id] = i]
  BY <1>1, <1>2 DEF Index, MergerTypeOK
<1>10. /\ byWikidata' \in [Ids -> 0 .. Len(museums)]
       /\ \A q \in Ids : byWikidata'[q] = IF q = e.id THEN i ELSE byWikidata[q]
  BY <1>4, <1>8, <1>9, MergerAssumption
<1>11. /\ byName' \in [Keys -> 0 .. Len(museums)]
       /\ \A k \in Keys : byName[k] # 0 => byName'[k] = byName[k]
       /\ \A k \in EntryKeys(e) : byName'[k] # 0 /\ (byName'[k] # i => k \in ambiguous')
       /\ ambiguous \subseteq ambiguous' /\ ambiguous' \subseteq Keys
  BY <1>1, <1>2, <1>4, <1>5, IndexParts
<1>12. MergerTypeOK'
  BY <1>6, <1>10, <1>11 DEF MergerTypeOK
<1>13. OneEntryPerId'
  <2> SUFFICES ASSUME NEW j \in Places, NEW q \in Ids
               PROVE  museums'[j].id = q <=> byWikidata'[q] = j
    BY <1>7 DEF OneEntryPerId
  <2>1. museums[j].id = q <=> byWikidata[q] = j
    BY <1>1 DEF OneEntryPerId
  <2>2. museums[i].id = q <=> byWikidata[q] = i
    BY <1>1, <1>3 DEF OneEntryPerId
  <2>3. CASE j = i
    <3>1. museums[i].id = q => e.id = q
      BY <1>5, MergerAssumption
    <3> QED
      BY <2>2, <2>3, <3>1, <1>6, <1>10
  <2>4. CASE j # i
    <3>1. q = e.id => byWikidata[q] \in {0, i}
      <4> SUFFICES ASSUME q = e.id PROVE byWikidata[q] \in {0, i}
        OBVIOUS
      <4>1. CASE museums[i].id = NoId
        BY <4>1, <1>3, <1>5, MergerAssumption
      <4>2. CASE museums[i].id # NoId
        BY <4>2, <2>2, <1>5
      <4> QED
        BY <4>1, <4>2
    <3>2. j # 0
      BY DEF Places
    <3> QED
      BY <2>1, <2>4, <3>1, <3>2, <1>6, <1>10
  <2> QED
    BY <2>3, <2>4
<1>14. IdsAreNotMixed'
  <2> SUFFICES ASSUME NEW j \in Places, NEW x \in folded'[j]
               PROVE  x.id = NoId \/ x.id = museums'[j].id
    BY <1>7 DEF IdsAreNotMixed
  <2>1. \A y \in folded[j] : y.id = NoId \/ y.id = museums[j].id
    BY DEF MergerInv, IdsAreNotMixed
  <2>2. CASE j # i
    BY <2>1, <2>2, <1>6
  <2>3. CASE j = i /\ x \in folded[i]
    BY <2>1, <2>3, <1>5, <1>6
  <2>4. CASE j = i /\ x = r
    BY <2>4, <1>3, <1>5, <1>6 DEF Agree
  <2> QED
    BY <2>2, <2>3, <2>4, <1>6
<1>15. KeysAreIndexed'
  <2> SUFFICES ASSUME NEW j \in Places, NEW k \in EntryKeys(museums'[j])
               PROVE  byName'[k] # 0 /\ (byName'[k] # j => k \in ambiguous')
    BY <1>7 DEF KeysAreIndexed, EntryKeys
  <2>1. CASE j = i
    BY <2>1, <1>6, <1>11
  <2>2. CASE j # i
    <3>1. museums[j] \in Entries /\ museums'[j] = museums[j]
      BY <2>2, <1>1, <1>6 DEF Places
    <3>2. byName[k] # 0 /\ (byName[k] # j => k \in ambiguous)
      BY <3>1 DEF MergerInv, KeysAreIndexed
    <3>3. k \in Keys
      BY <3>1 DEF EntryKeys, KeysOf, Keys, Entries
    <3> QED
      BY <3>2, <3>3, <1>11
  <2> QED
    BY <2>1, <2>2
<1>16. StatedCountryWins'
  <2> DEFINE Told(S) == {x \in S : x.stated /\ x.country # Unknown}
  <2> SUFFICES ASSUME NEW j \in Places, Told(folded'[j]) # {}
               PROVE  \E x \in Told(folded'[j]) : museums'[j].country = x.country
    BY <1>7 DEF StatedCountryWins
  <2>1. Told(folded[j]) # {} => \E x \in Told(folded[j]) : museums[j].country = x.country
    BY DEF MergerInv, StatedCountryWins
  <2>2. CASE j # i
    BY <2>1, <2>2, <1>6
  <2>3. CASE j = i /\ r \in Told({r})
    BY <2>3, <1>5, <1>6 DEF MergedCountry
  <2>4. CASE j = i /\ r \notin Told({r})
    <3>1. PICK x \in Told(folded[i]) : museums[i].country = x.country
      BY <2>1, <2>4, <1>6
    <3>2. e.country = museums[i].country
      BY <2>4, <3>1, <1>5 DEF MergedCountry
    <3> QED
      BY <2>4, <3>1, <3>2, <1>6
  <2> QED
    BY <2>2, <2>3, <2>4
<1> QED
  BY <1>12, <1>13, <1>14, <1>15, <1>16 DEF MergerInv

LEMMA MergerStep == MergerInv /\ [MergerNext]_mergerVars => MergerInv'
<1> SUFFICES ASSUME MergerInv, [MergerNext]_mergerVars PROVE MergerInv'
  OBVIOUS
<1>1. ASSUME NEW r \in Records, Add(r) PROVE MergerInv'
  BY <1>1, NewKeepsInv, MergedKeepsInv DEF Add
<1>2. CASE UNCHANGED mergerVars
  BY <1>2 DEF mergerVars, MergerInv, MergerTypeOK, OneEntryPerId, IdsAreNotMixed,
              KeysAreIndexed, StatedCountryWins, Places, EntryKeys
<1> QED
  BY <1>1, <1>2 DEF MergerNext

LEMMA MergerInvariant == MergerSpec => []MergerInv
<1> QED
  BY MergerStart, MergerStep, PTL DEF MergerSpec

\* merge.go, Merger: entries and indexes are what their types say.
THEOREM MergerIsTyped == MergerSpec => []MergerTypeOK
<1>1. MergerInv => MergerTypeOK
  BY DEF MergerInv
<1> QED
  BY <1>1, MergerInvariant, PTL

\* merge.go, lookup and index: one entry to a Wikidata id, and the index finds it.
THEOREM IdsAreUnique == MergerSpec => []OneEntryPerId
<1>1. MergerInv => OneEntryPerId
  BY DEF MergerInv
<1> QED
  BY <1>1, MergerInvariant, PTL

\* merge.go, lookup: records with different Wikidata ids are never in one entry.
THEOREM IdsStayApart == MergerSpec => []IdsAreNotMixed
<1>1. MergerInv => IdsAreNotMixed
  BY DEF MergerInv
<1> QED
  BY <1>1, MergerInvariant, PTL

\* merge.go, index: a name two entries answer to identifies neither.
THEOREM SharedNamesIdentifyNobody == MergerSpec => []SharedNamesAreAmbiguous
<1>1. MergerInv => SharedNamesAreAmbiguous
  <2> SUFFICES ASSUME KeysAreIndexed, NEW i \in Places, NEW j \in Places, i # j,
                      NEW k \in EntryKeys(museums[i]) \cap EntryKeys(museums[j])
               PROVE  k \in ambiguous
    BY DEF MergerInv, SharedNamesAreAmbiguous
  <2>1. byName[k] # i => k \in ambiguous
    BY DEF KeysAreIndexed
  <2>2. byName[k] # j => k \in ambiguous
    BY DEF KeysAreIndexed
  <2> QED
    BY <2>1, <2>2
<1> QED
  BY <1>1, MergerInvariant, PTL

\* merge.go, mergeInto: a country Wikidata states is kept in any order of arrival.
THEOREM StatementsPrevail == MergerSpec => []StatedCountryWins
<1>1. MergerInv => StatedCountryWins
  BY DEF MergerInv
<1> QED
  BY <1>1, MergerInvariant, PTL

-----------------------------------------------------------------------------
(***************************************************************************)
(* What reaches the merger are records: a source returns them, and the      *)
(* normaliser turns those it holds into records.  It must not restate one   *)
(* twice, so the invariant tells what it collects from what it passes on,   *)
(* and it must have something to pass on.                                   *)
(***************************************************************************)

Normalisers == [pc : {"collecting", "passing", "ended"}, held : Seq(Records), over : BOOLEAN]

HeldByPhase(n, e) ==
    /\ n.pc = "collecting" => n.held \in Seq(Returns[e])
    /\ n.pc = "passing" => n.held # <<>>

UnreadInv ==
    /\ unread \in [Sources -> SUBSET Records]
    /\ \A s \in Sources : unread[s] \subseteq Returns[s]

NormInv ==
    /\ norm \in [Editions -> Normalisers]
    /\ \A e \in Editions : HeldByPhase(norm[e], e)

SourcesInv == UnreadInv /\ NormInv

\* The crawl starts with everything unread and nothing held.
LEMMA SourcesStart == CrawlInit => SourcesInv
<1> SUFFICES ASSUME CrawlInit PROVE SourcesInv
  OBVIOUS
<1>1. Returns \in [Sources -> SUBSET Records]
  BY CrawlAssumption
<1>2. UnreadInv
  BY <1>1 DEF CrawlInit, UnreadInv
<1> DEFINE n == [pc |-> "collecting", held |-> <<>>, over |-> FALSE]
<1>3. n \in Normalisers /\ \A e \in Editions : HeldByPhase(n, e)
  BY DEF Normalisers, HeldByPhase
<1>4. norm = [e \in Editions |-> n]
  BY DEF CrawlInit
<1> HIDE DEF n
<1>5. NormInv
  BY <1>3, <1>4 DEF NormInv
<1> QED
  BY <1>2, <1>5 DEF SourcesInv

\* What is known of an edition and its normaliser.
LEMMA EditionParts ==
    ASSUME SourcesInv, NEW e \in Editions
    PROVE  /\ e \in Sources
           /\ unread[e] \subseteq Returns[e] /\ Returns[e] \subseteq Records
           /\ norm[e].pc \in {"collecting", "passing", "ended"}
           /\ norm[e].held \in Seq(Records) /\ norm[e].over \in BOOLEAN
           /\ norm[e].pc = "collecting" => norm[e].held \in Seq(Returns[e])
           /\ norm[e].pc = "passing" => norm[e].held # <<>>
           /\ \A r \in Returns[e] : ApplyDetails(r) \in Records
<1>1. e \in Sources /\ norm[e] \in Normalisers /\ HeldByPhase(norm[e], e)
  BY DEF SourcesInv, NormInv, Sources
<1>2. Returns \in [Sources -> SUBSET Records]
      /\ \A f \in Editions : \A r \in Returns[f] : ApplyDetails(r) \in Records
  BY CrawlAssumption DEF Forms, Sources
<1> QED
  BY <1>1, <1>2 DEF SourcesInv, UnreadInv, Normalisers, HeldByPhase

\* Reading a record leaves what is unread within what is returned.
LEMMA ReadingKeeps ==
    ASSUME UnreadInv, NEW s \in Sources, NEW r,
           unread' = [unread EXCEPT ![s] = @ \ {r}]
    PROVE  UnreadInv'
  BY DEF UnreadInv

\* One normaliser changes and its batch is still what it may be.
LEMMA NormaliserKeeps ==
    ASSUME NormInv, NEW e \in Editions, NEW n \in Normalisers, HeldByPhase(n, e),
           norm' = [norm EXCEPT ![e] = n]
    PROVE  NormInv'
<1>1. norm' \in [Editions -> Normalisers]
  BY DEF NormInv
<1>2. ASSUME NEW f \in Editions PROVE HeldByPhase(norm'[f], f)
  <2>1. CASE f = e
    BY <2>1 DEF NormInv
  <2>2. CASE f # e
    BY <2>2 DEF NormInv
  <2> QED
    BY <2>1, <2>2
<1> QED
  BY <1>1, <1>2 DEF NormInv, HeldByPhase

\* A sequence appended to is one over the same set.
LEMMA AppendStays ==
    ASSUME NEW S, NEW seq \in Seq(S), NEW x \in S
    PROVE  Append(seq, x) \in Seq(S)
  OBVIOUS

\* The tail of a sequence is empty when there was one element.
LEMMA TailParts ==
    ASSUME NEW S, NEW seq \in Seq(S), seq # <<>>
    PROVE  IF Len(seq) > 1 THEN Tail(seq) # <<>> ELSE Tail(seq) = <<>>
<1>1. Len(seq) \in Nat \ {0} /\ Tail(seq) \in Seq(S) /\ Len(Tail(seq)) = Len(seq) - 1
  OBVIOUS
<1>2. CASE Len(seq) > 1
  <2>1. Len(Tail(seq)) # 0
    BY <1>1, <1>2
  <2> QED
    BY <1>2, <2>1, EmptySeq
<1>3. CASE ~ (Len(seq) > 1)
  <2>1. Len(Tail(seq)) = 0
    BY <1>1, <1>3
  <2>2. Tail(seq) = <<>>
    BY <1>1, <2>1, EmptySeq, Zenon
  <2> QED
    BY <1>3, <2>2
<1> QED
  BY <1>2, <1>3

\* Collecting moves a record from what is unread to the batch.
LEMMA CollectKeeps ==
    ASSUME SourcesInv, NEW e \in Editions, Collect(e)
    PROVE  SourcesInv' /\ UNCHANGED mergerVars
<1>1. PICK r \in unread[e] :
         /\ unread' = [unread EXCEPT ![e] = @ \ {r}]
         /\ norm' = [norm EXCEPT ![e].held = Append(@, r)]
  BY DEF Collect
<1> DEFINE n == [norm[e] EXCEPT !.held = Append(@, r)]
<1>2. norm[e] \in Normalisers /\ r \in Returns[e] /\ r \in Records
      /\ norm[e].pc = "collecting"
  BY EditionParts DEF SourcesInv, NormInv, Collect
<1>3. norm[e].held \in Seq(Returns[e])
  BY <1>2, EditionParts
<1>4. Append(norm[e].held, r) \in Seq(Returns[e]) /\ Append(norm[e].held, r) \in Seq(Records)
  <2>1. norm[e].held \in Seq(Records)
    BY EditionParts
  <2> QED
    BY <1>2, <1>3, <2>1, AppendStays
<1>5. n \in Normalisers /\ HeldByPhase(n, e)
  BY <1>2, <1>4 DEF Normalisers, HeldByPhase
<1>6. norm' = [norm EXCEPT ![e] = n]
  BY <1>1
<1> HIDE DEF n
<1>7. NormInv'
  BY <1>5, <1>6, NormaliserKeeps DEF SourcesInv
<1>8. UnreadInv'
  BY <1>1, ReadingKeeps, EditionParts DEF SourcesInv
<1> QED
  BY <1>7, <1>8 DEF SourcesInv, Collect

\* The end of the input leaves the batch as it is.
LEMMA InputEndsKeeps ==
    ASSUME SourcesInv, NEW e \in Editions, InputEnds(e)
    PROVE  SourcesInv' /\ UNCHANGED mergerVars
<1> DEFINE n == [norm[e] EXCEPT !.over = TRUE,
                                !.pc = IF norm[e].held = <<>> THEN "ended" ELSE @]
<1>1. norm[e] \in Normalisers /\ HeldByPhase(norm[e], e) /\ norm[e].pc = "collecting"
  BY DEF SourcesInv, NormInv, InputEnds
<1>2. n \in Normalisers /\ HeldByPhase(n, e)
  BY <1>1 DEF Normalisers, HeldByPhase
<1>3. norm' = [norm EXCEPT ![e] = n]
  BY DEF InputEnds
<1> HIDE DEF n
<1>4. NormInv'
  BY <1>2, <1>3, NormaliserKeeps DEF SourcesInv
<1> QED
  BY <1>4 DEF SourcesInv, UnreadInv, InputEnds

\* The batch is restated as a whole or passed on as it is: records either way.
LEMMA NormaliseKeeps ==
    ASSUME SourcesInv, NEW e \in Editions, Normalise(e)
    PROVE  SourcesInv' /\ UNCHANGED mergerVars
<1> DEFINE restated == [i \in 1 .. Len(norm[e].held) |-> ApplyDetails(norm[e].held[i])]
           n(held) == [norm[e] EXCEPT !.pc = "passing", !.held = held]
<1>1. norm[e] \in Normalisers /\ norm[e].pc = "collecting" /\ norm[e].held \in Seq(Returns[e])
  BY EditionParts DEF SourcesInv, NormInv, Normalise
<1>2. restated \in Seq(Records) /\ restated # <<>>
  <2>1. \A i \in 1 .. Len(norm[e].held) : norm[e].held[i] \in Returns[e]
    BY <1>1
  <2>2. \A i \in 1 .. Len(norm[e].held) : ApplyDetails(norm[e].held[i]) \in Records
    BY <2>1, EditionParts
  <2>3. Len(norm[e].held) \in Nat \ {0}
    BY <1>1 DEF Normalise
  <2>4. restated \in Seq(Records) /\ Len(restated) = Len(norm[e].held)
    BY <2>2, <2>3
  <2> QED
    BY <2>3, <2>4
<1>3. norm[e].held \in Seq(Records) /\ norm[e].held # <<>>
  BY EditionParts DEF Normalise
<1>4. \/ norm' = [norm EXCEPT ![e].pc = "passing",
                              ![e].held = [i \in 1 .. Len(@) |-> ApplyDetails(@[i])]]
      \/ norm' = [norm EXCEPT ![e].pc = "passing"]
  BY DEF Normalise
<1>5. norm' = [norm EXCEPT ![e] = n(restated)] \/ norm' = [norm EXCEPT ![e] = n(norm[e].held)]
  BY <1>1, <1>4 DEF Normalisers
<1>6. ASSUME NEW held \in Seq(Records), held # <<>>
      PROVE  n(held) \in Normalisers /\ HeldByPhase(n(held), e)
  BY <1>1, <1>6 DEF Normalisers, HeldByPhase
<1> HIDE DEF restated, n
<1>7. NormInv'
  BY <1>2, <1>3, <1>5, <1>6, NormaliserKeeps DEF SourcesInv
<1> QED
  BY <1>7 DEF SourcesInv, UnreadInv, Normalise

\* What is left is passed on as it is, and an empty batch collects anew.
LEMMA PassOnKeeps ==
    ASSUME SourcesInv, NEW e \in Editions, PassOn(e)
    PROVE  SourcesInv' /\ MergerNext
<1> DEFINE n == [norm[e] EXCEPT !.held = Tail(@), !.pc = AfterPassing(norm[e])]
<1>1. norm[e] \in Normalisers /\ norm[e].held \in Seq(Records)
  BY EditionParts DEF SourcesInv, NormInv
<1>2. Head(norm[e].held) \in Records /\ Tail(norm[e].held) \in Seq(Records)
  BY <1>1, EditionParts DEF PassOn
<1>3. IF Len(norm[e].held) > 1 THEN Tail(norm[e].held) # <<>>
                               ELSE Tail(norm[e].held) = <<>>
  BY <1>1, TailParts, EditionParts DEF PassOn
<1> DEFINE pc == AfterPassing(norm[e])
           held == Tail(norm[e].held)
<1>4. /\ pc \in {"collecting", "passing", "ended"}
      /\ pc = "passing" => held # <<>>
      /\ pc = "collecting" => held = <<>>
  BY <1>3 DEF AfterPassing
<1>5. n = [norm[e] EXCEPT !.held = held, !.pc = pc] /\ norm' = [norm EXCEPT ![e] = n]
  BY DEF PassOn
<1> HIDE DEF pc, held, n
<1>8. held \in Seq(Records)
  BY <1>2 DEF held
<1>9. n \in Normalisers /\ n.pc = pc /\ n.held = held
  BY <1>1, <1>4, <1>5, <1>8 DEF Normalisers
<1>10. HeldByPhase(n, e)
  BY <1>4, <1>9, EmptySeq DEF HeldByPhase
<1>6. NormInv'
  BY <1>5, <1>9, <1>10, NormaliserKeeps DEF SourcesInv
<1>7. MergerNext
  BY <1>2 DEF PassOn, Take, MergerNext
<1> QED
  BY <1>6, <1>7 DEF SourcesInv, UnreadInv, PassOn

\* A cancelled normaliser drops what it holds and ends.
LEMMA AbandonKeeps ==
    ASSUME SourcesInv, NEW e \in Editions, Abandon(e)
    PROVE  SourcesInv' /\ UNCHANGED mergerVars
<1> DEFINE n == [norm[e] EXCEPT !.held = <<>>, !.pc = "ended"]
<1>1. norm[e] \in Normalisers
  BY DEF SourcesInv, NormInv
<1>2. n \in Normalisers /\ HeldByPhase(n, e)
  <2>1. n.pc = "ended" /\ n \in Normalisers
    BY <1>1, EmptySeq DEF Normalisers
  <2> QED
    BY <2>1 DEF HeldByPhase
<1>3. norm' = [norm EXCEPT ![e] = n]
  BY DEF Abandon
<1> HIDE DEF n
<1>4. NormInv'
  BY <1>2, <1>3, NormaliserKeeps DEF SourcesInv
<1> QED
  BY <1>4 DEF SourcesInv, UnreadInv, Abandon

\* A source that is not normalised hands its record straight to the merger.
LEMMA DeliverKeeps ==
    ASSUME SourcesInv, NEW s \in Plain, Deliver(s)
    PROVE  SourcesInv' /\ MergerNext
<1>1. PICK r \in unread[s] : Add(r) /\ unread' = [unread EXCEPT ![s] = @ \ {r}]
  BY DEF Deliver, Take
<1>2. s \in Sources /\ r \in Records
  BY DEF SourcesInv, UnreadInv, Sources
<1>3. UnreadInv'
  BY <1>1, <1>2, ReadingKeeps DEF SourcesInv
<1>4. NormInv'
  BY DEF SourcesInv, NormInv, Deliver
<1> QED
  BY <1>1, <1>2, <1>3, <1>4 DEF SourcesInv, MergerNext

\* Everything else leaves the sources, the normalisers and the merger alone.
LEMMA OthersKeep ==
    ASSUME SourcesInv, UNCHANGED <<mergerVars, unread, norm>>
    PROVE  SourcesInv' /\ UNCHANGED mergerVars
  BY DEF SourcesInv, UnreadInv, NormInv

\* What everything but the goroutines of collection leaves alone.
LEMMA CollectionAlone ==
    ASSUME [CrawlNext]_vars,
           ~(\E s \in Plain : Deliver(s)),
           ~(\E e \in Editions :
                Collect(e) \/ InputEnds(e) \/ Normalise(e) \/ PassOn(e) \/ Abandon(e))
    PROVE  UNCHANGED <<mergerVars, unread, norm>>
<1>1. ASSUME \E s \in Sources : SourceEnds(s) \/ Checkpoint(s)
      PROVE  UNCHANGED <<mergerVars, unread, norm>>
  BY <1>1 DEF SourceEnds, Checkpoint
<1>2. ASSUME \/ \E w \in Writers : Save(w)
             \/ PeriodicFlush \/ Cancel \/ Flush \/ StartStoring
      PROVE  UNCHANGED <<mergerVars, unread, norm>>
  BY <1>2 DEF Save, PeriodicFlush, Cancel, Flush, StartStoring, collectVars
<1>3. ASSUME \E i \in Places :
                StartUpload(i) \/ StatObject(i) \/ PutObject(i) \/ UploadFails(i)
      PROVE  UNCHANGED <<mergerVars, unread, norm>>
  BY <1>3 DEF StartUpload, StatObject, PutObject, UploadFails, collectVars
<1>4. ASSUME \/ WriteTimesOut \/ StoringEnds \/ SkipLoad
             \/ Load \/ LoadEnds \/ FlusherEnds \/ Finish
      PROVE  UNCHANGED <<mergerVars, unread, norm>>
  BY <1>4 DEF WriteTimesOut, StoringEnds, SkipLoad, Load, LoadEnds, FlusherEnds, Finish,
              collectVars
<1>5. ASSUME UNCHANGED vars PROVE UNCHANGED <<mergerVars, unread, norm>>
  BY <1>5 DEF vars, collectVars
<1> QED
  BY <1>1, <1>2, <1>3, <1>4, <1>5 DEF CrawlNext

\* A step of the crawl is an Add of some record or none of the merger's business.
LEMMA CrawlStep ==
    ASSUME SourcesInv, [CrawlNext]_vars
    PROVE  SourcesInv' /\ [MergerNext]_mergerVars
<1>1. CASE \E s \in Plain : Deliver(s)
  BY <1>1, DeliverKeeps
<1>2. CASE \E e \in Editions :
               Collect(e) \/ InputEnds(e) \/ Normalise(e) \/ PassOn(e) \/ Abandon(e)
  BY <1>2, CollectKeeps, InputEndsKeeps, NormaliseKeeps, PassOnKeeps, AbandonKeeps
<1> QED
  BY <1>1, <1>2, CollectionAlone, OthersKeep

\* The crawl implements the merger: whatever its goroutines do, its sources return
\* and its normalisers restate, the entries and the indexes change by Add alone, one
\* record at a time, and only records reach it.
THEOREM CrawlMerges == CrawlSpec => MergerSpec
<1>1. CrawlInit => MergerInit /\ SourcesInv
  BY SourcesStart DEF CrawlInit
<1>2. SourcesInv /\ [CrawlNext]_vars => SourcesInv' /\ [MergerNext]_mergerVars
  BY CrawlStep
<1> QED
  BY <1>1, <1>2, PTL DEF CrawlSpec, MergerSpec

\* So what is proved of the merger holds throughout a crawl: ids name one entry and
\* are not mixed, shared names identify nobody, and a stated country wins.
THEOREM CrawlKeepsIdentities ==
    CrawlSpec => []IdentitiesHold
  BY CrawlMerges, IdsAreUnique, IdsStayApart, SharedNamesIdentifyNobody, StatementsPrevail, PTL
     DEF IdentitiesHold

\* What the two invariants say together of every state of a crawl.
LEMMA MergingInvariant == CrawlSpec => [](MergerInv /\ SourcesInv)
<1>1. CrawlInit => SourcesInv
  BY SourcesStart
<1>2. SourcesInv /\ [CrawlNext]_vars => SourcesInv'
  BY CrawlStep
<1> QED
  BY <1>1, <1>2, CrawlMerges, MergerInvariant, PTL DEF CrawlSpec

(***************************************************************************)
(* Every record reaches the merger once.  It is on its way as it was        *)
(* returned or as it was restated, so the invariant speaks of its forms.    *)
(***************************************************************************)

\* A record that is merged is one of the records that have been.
LEMMA AddMerges ==
    ASSUME MergerInv, NEW r \in Records, Add(r)
    PROVE  MergedRecords' = MergedRecords \cup {r}
<1>1. /\ folded \in Seq(SUBSET Records) /\ museums \in Seq(Entries) /\ Len(folded) = Len(museums)
      /\ Len(museums) \in Nat
  BY DEF MergerInv, MergerTypeOK
<1>2. CASE AddNew(r)
  <2>1. folded' = Append(folded, {r}) /\ Len(museums') = Len(museums) + 1
    BY <1>1, <1>2 DEF AddNew, NewEntry
  <2>2. /\ folded'[Len(museums) + 1] = {r}
        /\ \A i \in 1 .. Len(museums) : folded'[i] = folded[i]
    BY <1>1, <2>1
  <2>3. Places' = Places \cup {Len(museums) + 1} /\ Places = 1 .. Len(museums)
    BY <1>1, <2>1 DEF Places
  <2> QED
    BY <2>2, <2>3 DEF MergedRecords
<1>3. CASE AddMerged(r)
  <2> DEFINE k == Lookup(r)
  <2>1. /\ folded' = [folded EXCEPT ![k] = @ \cup {r}] /\ k # 0
        /\ museums' = [museums EXCEPT ![k] = Merged(museums[k], r)]
    BY <1>3 DEF AddMerged
  <2>2. k \in Places
    BY <2>1, LookupAgrees DEF MergerInv
  <2> HIDE DEF k
  <2>3. Places' = Places
    BY <1>1, <2>1 DEF Places
  <2>4. \A i \in Places : folded'[i] = IF i = k THEN folded[i] \cup {r} ELSE folded[i]
    <3>1. DOMAIN folded = Places
      BY <1>1 DEF Places
    <3> QED
      BY <2>1, <3>1
  <2> QED
    BY <2>2, <2>3, <2>4 DEF MergedRecords
<1> QED
  BY <1>2, <1>3 DEF Add

LEMMA MergedAsBefore ==
    ASSUME UNCHANGED mergerVars
    PROVE  MergedRecords' = MergedRecords
  BY DEF mergerVars, MergedRecords, Places

\* A record of one source is no form of another record.
LEMMA FormsApart ==
    ASSUME NEW s \in Sources, NEW r \in Returns[s], NEW t \in Sources, NEW q \in Returns[t],
           s # t \/ r # q
    PROVE  Forms(s, r) \cap Forms(t, q) = {}
<1>1. <<s, r>> # <<t, q>>
  OBVIOUS
<1> QED
  BY <1>1, CrawlAssumption

LEMMA OwnForms ==
    ASSUME NEW s \in Sources, NEW r \in Returns[s]
    PROVE  /\ r \in Forms(s, r)
           /\ s \in Editions => ApplyDetails(r) \in Forms(s, r)
           /\ Forms(s, r) \subseteq Records /\ r \in Records
<1>1. Forms(s, r) \subseteq Records
  BY CrawlAssumption
<1>2. r \in Forms(s, r) /\ (s \in Editions => ApplyDetails(r) \in Forms(s, r))
  BY DEF Forms
<1> QED
  BY <1>1, <1>2

\* ArriveOnce in its parts: what a source has not returned, and what its
\* normaliser holds.
Unmerged(s, left, merged) == \A r \in left : Forms(s, r) \cap merged = {}

OnItsWay(e, held, left, merged, i) ==
    \E r \in Returns[e] \ left :
       /\ held[i] \in Forms(e, r) /\ Forms(e, r) \cap merged = {}
       /\ \A j \in 1 .. Len(held) : held[j] \in Forms(e, r) => j = i

LEMMA ArrivalParts ==
    ArriveOnce <=> /\ \A s \in Sources : Unmerged(s, unread[s], MergedRecords)
                   /\ \A e \in Editions : \A i \in 1 .. Len(norm[e].held) :
                         OnItsWay(e, norm[e].held, unread[e], MergedRecords, i)
  BY DEF ArriveOnce, Unmerged, OnItsWay

LEMMA ArrivalPartsAfter ==
    ArriveOnce' <=> /\ \A s \in Sources : Unmerged(s, unread'[s], MergedRecords')
                    /\ \A e \in Editions : \A i \in 1 .. Len(norm'[e].held) :
                          OnItsWay(e, norm'[e].held, unread'[e], MergedRecords', i)
  BY DEF ArriveOnce, Unmerged, OnItsWay

\* Merging a form of one record leaves the others as they are.
LEMMA MergingSparesUnread ==
    ASSUME NEW s \in Sources, NEW r \in Returns[s], NEW m \in Forms(s, r), NEW M,
           NEW t \in Sources, NEW left, left \subseteq Returns[t], t = s => r \notin left,
           Unmerged(t, left, M)
    PROVE  Unmerged(t, left, M \cup {m})
<1> SUFFICES ASSUME NEW q \in left PROVE m \notin Forms(t, q)
  BY DEF Unmerged
<1> QED
  BY FormsApart

LEMMA MergingSparesHeld ==
    ASSUME NEW s \in Sources, NEW r \in Returns[s], NEW m \in Forms(s, r), NEW M,
           NEW e \in Editions, NEW held, NEW left, NEW i,
           e # s, OnItsWay(e, held, left, M, i)
    PROVE  OnItsWay(e, held, left, M \cup {m}, i)
<1>1. PICK q \in Returns[e] \ left :
         /\ held[i] \in Forms(e, q) /\ Forms(e, q) \cap M = {}
         /\ \A j \in 1 .. Len(held) : held[j] \in Forms(e, q) => j = i
  BY DEF OnItsWay
<1>2. m \notin Forms(e, q)
  BY FormsApart DEF Sources
<1>3. Forms(e, q) \cap (M \cup {m}) = {}
  BY <1>1, <1>2
<1> QED
  BY <1>1, <1>3 DEF OnItsWay

\* Everything is unread when the crawl starts.
LEMMA ArrivalsStart == CrawlInit => ArriveOnce
<1> SUFFICES ASSUME CrawlInit PROVE ArriveOnce
  OBVIOUS
<1>1. MergedRecords = {}
  BY DEF CrawlInit, MergerInit, MergedRecords, Places
<1>2. \A e \in Editions : norm[e].held = <<>> /\ Len(norm[e].held) = 0
  BY DEF CrawlInit
<1> QED
  BY <1>1, <1>2 DEF ArriveOnce

LEMMA DeliverArrives ==
    ASSUME MergerInv, SourcesInv, ArriveOnce, NEW s \in Plain, Deliver(s)
    PROVE  ArriveOnce'
<1>1. PICK r \in unread[s] : Add(r) /\ unread' = [unread EXCEPT ![s] = @ \ {r}]
  BY DEF Deliver, Take
<1>2. s \in Sources /\ r \in Returns[s] /\ s \notin Editions /\ norm' = norm
  BY <1>1, CrawlAssumption DEF Deliver, SourcesInv, UnreadInv, Sources
<1>3. r \in Forms(s, r) /\ r \in Records
  BY <1>2, OwnForms
<1>4. MergedRecords' = MergedRecords \cup {r}
  BY <1>1, <1>3, AddMerges
<1>5. \A t \in Sources : /\ unread'[t] = IF t = s THEN unread[t] \ {r} ELSE unread[t]
                         /\ unread[t] \subseteq Returns[t]
  BY <1>1 DEF SourcesInv, UnreadInv
<1>6. ASSUME NEW t \in Sources PROVE Unmerged(t, unread'[t], MergedRecords')
  <2>1. Unmerged(t, unread[t], MergedRecords)
    BY ArrivalParts
  <2>2. Unmerged(t, unread'[t], MergedRecords)
    BY <1>5, <2>1 DEF Unmerged
  <2>3. unread'[t] \subseteq Returns[t] /\ (t = s => r \notin unread'[t])
    BY <1>5
  <2> QED
    BY <1>2, <1>3, <1>4, <2>2, <2>3, MergingSparesUnread
<1>7. ASSUME NEW e \in Editions, NEW i \in 1 .. Len(norm'[e].held)
      PROVE  OnItsWay(e, norm'[e].held, unread'[e], MergedRecords', i)
  <2>1. OnItsWay(e, norm'[e].held, unread'[e], MergedRecords, i)
    BY <1>2, <1>5, ArrivalParts DEF Sources
  <2> QED
    BY <1>2, <1>3, <1>4, <2>1, MergingSparesHeld
<1> QED
  BY <1>6, <1>7, ArrivalPartsAfter

LEMMA CollectArrives ==
    ASSUME SourcesInv, ArriveOnce, NEW e \in Editions, Collect(e)
    PROVE  ArriveOnce'
<1>1. PICK r \in unread[e] :
         /\ unread' = [unread EXCEPT ![e] = @ \ {r}]
         /\ norm' = [norm EXCEPT ![e].held = Append(@, r)]
  BY DEF Collect
<1> DEFINE held == norm[e].held
           held2 == norm'[e].held
<1>2. /\ e \in Sources /\ r \in Returns[e] /\ unread[e] \subseteq Returns[e]
      /\ held \in Seq(Records) /\ MergedRecords' = MergedRecords
  BY EditionParts, MergedAsBefore DEF Collect
<1>3. /\ \A t \in Sources : unread'[t] = IF t = e THEN unread[t] \ {r} ELSE unread[t]
      /\ \A f \in Editions : f # e => norm'[f].held = norm[f].held
      /\ held2 = Append(held, r)
  BY <1>1 DEF SourcesInv, UnreadInv, NormInv, Normalisers
<1>4. /\ Len(held) \in Nat /\ Len(held2) = Len(held) + 1 /\ held2[Len(held) + 1] = r
      /\ \A i \in 1 .. Len(held) : held2[i] = held[i]
  BY <1>2, <1>3
<1>5. \A t \in Sources : Unmerged(t, unread[t], MergedRecords)
  BY ArrivalParts
<1>6. \A i \in 1 .. Len(held) : OnItsWay(e, held, unread[e], MergedRecords, i)
  BY ArrivalParts
<1> HIDE DEF held, held2
<1>7. \A t \in Sources : Unmerged(t, unread'[t], MergedRecords)
  BY <1>3, <1>5 DEF Unmerged
<1>8. ASSUME NEW i \in 1 .. Len(held)
      PROVE  OnItsWay(e, held2, unread[e] \ {r}, MergedRecords, i) /\ held[i] \notin Forms(e, r)
  <2>1. PICK q \in Returns[e] \ unread[e] :
           /\ held[i] \in Forms(e, q) /\ Forms(e, q) \cap MergedRecords = {}
           /\ \A j \in 1 .. Len(held) : held[j] \in Forms(e, q) => j = i
    BY <1>6 DEF OnItsWay
  <2>2. q # r /\ Forms(e, q) \cap Forms(e, r) = {}
    BY <1>1, <1>2, <2>1, FormsApart
  <2>3. r \in Forms(e, r)
    BY <1>2, OwnForms
  <2>4. \A j \in 1 .. Len(held2) : held2[j] \in Forms(e, q) => j = i
    BY <1>4, <2>1, <2>2, <2>3
  <2> QED
    BY <1>4, <2>1, <2>2, <2>4 DEF OnItsWay
<1>9. OnItsWay(e, held2, unread[e] \ {r}, MergedRecords, Len(held) + 1)
  <2>1. Forms(e, r) \cap MergedRecords = {} /\ r \in Forms(e, r)
    BY <1>1, <1>2, <1>5, OwnForms DEF Unmerged
  <2>2. \A j \in 1 .. Len(held2) : held2[j] \in Forms(e, r) => j = Len(held) + 1
    BY <1>4, <1>8
  <2> QED
    BY <1>2, <1>4, <2>1, <2>2 DEF OnItsWay
<1>10. ASSUME NEW f \in Editions, NEW i \in 1 .. Len(norm'[f].held)
       PROVE  OnItsWay(f, norm'[f].held, unread'[f], MergedRecords', i)
  <2>1. CASE f = e
    <3>1. i \in 1 .. Len(held) \/ i = Len(held) + 1
      BY <1>4, <2>1 DEF held2
    <3>2. OnItsWay(e, held2, unread[e] \ {r}, MergedRecords, i)
      BY <1>8, <1>9, <3>1
    <3> QED
      BY <1>2, <1>3, <2>1, <3>2 DEF held2
  <2>2. CASE f # e
    BY <1>2, <1>3, <2>2, ArrivalParts DEF Sources
  <2> QED
    BY <2>1, <2>2
<1> QED
  BY <1>2, <1>7, <1>10, ArrivalPartsAfter

\* Each record of the batch stays itself or is restated: a form of the same record.
LEMMA NormaliseArrives ==
    ASSUME SourcesInv, ArriveOnce, NEW e \in Editions, Normalise(e)
    PROVE  ArriveOnce'
<1> DEFINE held == norm[e].held
           held2 == norm'[e].held
<1>1. /\ e \in Sources /\ held \in Seq(Returns[e]) /\ MergedRecords' = MergedRecords
      /\ unread' = unread
  BY EditionParts, MergedAsBefore DEF Normalise
<1>2. /\ held2 = held \/ held2 = [i \in 1 .. Len(held) |-> ApplyDetails(held[i])]
      /\ \A f \in Editions : f # e => norm'[f].held = norm[f].held
  BY DEF Normalise, SourcesInv, NormInv, Normalisers
<1>3. \A i \in 1 .. Len(held) : OnItsWay(e, held, unread[e], MergedRecords, i)
  BY ArrivalParts
<1> HIDE DEF held, held2
<1>4. /\ Len(held) \in Nat /\ Len(held2) = Len(held)
      /\ \A i \in 1 .. Len(held) : held[i] \in Returns[e] /\ held2[i] \in Forms(e, held[i])
  <2>1. Len(held) \in Nat /\ \A i \in 1 .. Len(held) : held[i] \in Returns[e]
    BY <1>1
  <2>2. \A i \in 1 .. Len(held) : {held[i], ApplyDetails(held[i])} \subseteq Forms(e, held[i])
    BY <1>1, <2>1, OwnForms
  <2>3. CASE held2 = held
    BY <2>1, <2>2, <2>3
  <2>4. CASE held2 = [i \in 1 .. Len(held) |-> ApplyDetails(held[i])]
    BY <2>1, <2>2, <2>4
  <2> QED
    BY <1>2, <2>3, <2>4
<1>5. ASSUME NEW i \in 1 .. Len(held)
      PROVE  OnItsWay(e, held2, unread[e], MergedRecords, i)
  <2>1. PICK q \in Returns[e] \ unread[e] :
           /\ held[i] \in Forms(e, q) /\ Forms(e, q) \cap MergedRecords = {}
           /\ \A j \in 1 .. Len(held) : held[j] \in Forms(e, q) => j = i
    BY <1>3 DEF OnItsWay
  <2>2. held[i] = q
    BY <1>1, <1>4, <2>1, FormsApart, OwnForms
  <2>3. ASSUME NEW j \in 1 .. Len(held), held2[j] \in Forms(e, q) PROVE j = i
    <3>1. held[j] \in Returns[e] /\ held2[j] \in Forms(e, held[j])
      BY <1>4
    <3>2. held[j] = q
      BY <1>1, <2>1, <2>3, <3>1, FormsApart
    <3> QED
      BY <1>1, <2>1, <3>2, OwnForms
  <2>4. held2[i] \in Forms(e, q)
    BY <1>4, <2>2
  <2> QED
    BY <1>4, <2>1, <2>3, <2>4 DEF OnItsWay
<1>6. ASSUME NEW f \in Editions, NEW i \in 1 .. Len(norm'[f].held)
      PROVE  OnItsWay(f, norm'[f].held, unread'[f], MergedRecords', i)
  <2>1. CASE f = e
    BY <1>1, <1>4, <1>5, <2>1 DEF held2
  <2>2. CASE f # e
    BY <1>1, <1>2, <2>2, ArrivalParts
  <2> QED
    BY <2>1, <2>2
<1>7. \A t \in Sources : Unmerged(t, unread'[t], MergedRecords')
  BY <1>1, ArrivalParts
<1> QED
  BY <1>6, <1>7, ArrivalPartsAfter

\* The head of the batch is merged, and was on its way once.
LEMMA PassOnArrives ==
    ASSUME MergerInv, SourcesInv, ArriveOnce, NEW e \in Editions, PassOn(e)
    PROVE  ArriveOnce'
<1> DEFINE held == norm[e].held
           held2 == norm'[e].held
           m == Head(held)
<1>1. /\ e \in Sources /\ held \in Seq(Records) /\ held # <<>> /\ unread' = unread
      /\ unread[e] \subseteq Returns[e]
  BY EditionParts DEF PassOn
<1>2. /\ Len(held) \in Nat \ {0} /\ m = held[1] /\ m \in Records
      /\ Len(Tail(held)) = Len(held) - 1
      /\ \A i \in 1 .. Len(held) - 1 : Tail(held)[i] = held[i + 1]
  BY <1>1
<1>3. MergedRecords' = MergedRecords \cup {m}
  BY <1>2, AddMerges DEF PassOn, Take
<1>4. held2 = Tail(held) /\ \A f \in Editions : f # e => norm'[f].held = norm[f].held
  BY DEF PassOn, SourcesInv, NormInv, Normalisers
<1>5. \A i \in 1 .. Len(held) : OnItsWay(e, held, unread[e], MergedRecords, i)
  BY ArrivalParts
<1> HIDE DEF held, held2, m
<1>6. PICK r \in Returns[e] \ unread[e] :
         /\ held[1] \in Forms(e, r) /\ Forms(e, r) \cap MergedRecords = {}
         /\ \A j \in 1 .. Len(held) : held[j] \in Forms(e, r) => j = 1
  BY <1>2, <1>5 DEF OnItsWay
<1>7. ASSUME NEW t \in Sources PROVE Unmerged(t, unread'[t], MergedRecords')
  <2>1. Unmerged(t, unread[t], MergedRecords) /\ unread[t] \subseteq Returns[t]
    BY ArrivalParts DEF SourcesInv, UnreadInv
  <2> QED
    BY <1>1, <1>2, <1>3, <1>6, <2>1, MergingSparesUnread
<1>8. ASSUME NEW i \in 1 .. Len(held2)
      PROVE  OnItsWay(e, held2, unread[e], MergedRecords', i)
  <2>1. /\ Len(held2) = Len(held) - 1 /\ i + 1 \in 1 .. Len(held) /\ i + 1 # 1
        /\ \A j \in 1 .. Len(held2) : held2[j] = held[j + 1] /\ j + 1 \in 1 .. Len(held)
    BY <1>2, <1>4
  <2>2. PICK q \in Returns[e] \ unread[e] :
           /\ held[i + 1] \in Forms(e, q) /\ Forms(e, q) \cap MergedRecords = {}
           /\ \A j \in 1 .. Len(held) : held[j] \in Forms(e, q) => j = i + 1
    BY <1>5, <2>1 DEF OnItsWay
  <2>3. 1 \in 1 .. Len(held)
    BY <1>2
  <2>4. m \notin Forms(e, q)
    BY <1>2, <2>1, <2>2, <2>3
  <2>5. Forms(e, q) \cap MergedRecords' = {}
    BY <1>3, <2>2, <2>4
  <2>6. \A j \in 1 .. Len(held2) : held2[j] \in Forms(e, q) => j = i
    BY <2>1, <2>2
  <2> QED
    BY <2>1, <2>2, <2>5, <2>6 DEF OnItsWay
<1>9. ASSUME NEW f \in Editions, NEW i \in 1 .. Len(norm'[f].held)
      PROVE  OnItsWay(f, norm'[f].held, unread'[f], MergedRecords', i)
  <2>1. CASE f = e
    BY <1>1, <1>8, <2>1 DEF held2
  <2>2. CASE f # e
    <3>1. OnItsWay(f, norm'[f].held, unread'[f], MergedRecords, i)
      BY <1>1, <1>4, <2>2, ArrivalParts
    <3> QED
      BY <1>1, <1>2, <1>3, <1>6, <2>2, <3>1, MergingSparesHeld
  <2> QED
    BY <2>1, <2>2
<1> QED
  BY <1>7, <1>9, ArrivalPartsAfter

\* A batch that is dropped, or that stays as it is, leaves nothing to show.
LEMMA DroppingArrives ==
    ASSUME SourcesInv, ArriveOnce, NEW e \in Editions, InputEnds(e) \/ Abandon(e)
    PROVE  ArriveOnce'
<1>1. MergedRecords' = MergedRecords /\ unread' = unread
  BY MergedAsBefore DEF InputEnds, Abandon
<1>2. \A f \in Editions : norm'[f].held \in {norm[f].held, <<>>}
  <2>1. norm \in [Editions -> Normalisers]
    BY DEF SourcesInv, NormInv
  <2>2. CASE InputEnds(e)
    <3> DEFINE pc == IF norm[e].held = <<>> THEN "ended" ELSE norm[e].pc
    <3>1. norm' = [norm EXCEPT ![e] = [norm[e] EXCEPT !.over = TRUE, !.pc = pc]]
      BY <2>2 DEF InputEnds
    <3> HIDE DEF pc
    <3> QED
      BY <2>1, <3>1 DEF Normalisers
  <2>3. CASE Abandon(e)
    <3>1. norm' = [norm EXCEPT ![e] = [norm[e] EXCEPT !.held = <<>>, !.pc = "ended"]]
      BY <2>3 DEF Abandon
    <3> QED
      BY <2>1, <3>1 DEF Normalisers
  <2> QED
    BY <2>2, <2>3
<1>3. \A f \in Editions : \A i \in 1 .. Len(norm'[f].held) :
         norm'[f].held = norm[f].held
  <2> SUFFICES ASSUME NEW f \in Editions, NEW i \in 1 .. Len(norm'[f].held),
                      norm'[f].held = <<>>
               PROVE  FALSE
    BY <1>2
  <2>1. Len(norm'[f].held) = 0
    OBVIOUS
  <2> QED
    BY <2>1
<1> QED
  BY <1>1, <1>3, ArrivalParts, ArrivalPartsAfter

LEMMA OthersArrive ==
    ASSUME ArriveOnce, UNCHANGED <<mergerVars, unread, norm>>
    PROVE  ArriveOnce'
<1>1. MergedRecords' = MergedRecords /\ unread' = unread /\ norm' = norm
  BY MergedAsBefore
<1> QED
  BY <1>1, ArrivalParts, ArrivalPartsAfter

LEMMA ArrivalsStep ==
    ASSUME MergerInv, SourcesInv, ArriveOnce, [CrawlNext]_vars
    PROVE  ArriveOnce'
<1>1. CASE \E s \in Plain : Deliver(s)
  BY <1>1, DeliverArrives
<1>2. CASE \E e \in Editions :
               Collect(e) \/ InputEnds(e) \/ Normalise(e) \/ PassOn(e) \/ Abandon(e)
  BY <1>2, CollectArrives, NormaliseArrives, PassOnArrives, DroppingArrives
<1> QED
  BY <1>1, <1>2, CollectionAlone, OthersArrive

\* All that is known of collection at every moment.
Collected == MergerInv /\ SourcesInv /\ ArriveOnce

LEMMA CollectionInvariant == CrawlSpec => []Collected
<1>1. MergerInv /\ SourcesInv /\ ArriveOnce /\ [CrawlNext]_vars => ArriveOnce'
  BY ArrivalsStep
<1> QED
  BY <1>1, ArrivalsStart, MergingInvariant, PTL DEF CrawlSpec, Collected

\* A goroutine of collection takes a record that was not merged before.
LEMMA TakenIsNew ==
    ASSUME Collected, NEW s \in Sources, Deliver(s) \/ (s \in Editions /\ PassOn(s))
    PROVE  \E r \in Records \ MergedRecords :
              /\ Receiving(s) /\ handed' = [handed EXCEPT ![s] = <<r>>]
              /\ MergedRecords' = MergedRecords \cup {r}
<1> USE DEF Collected
<1>1. CASE Deliver(s)
  <2>1. PICK r \in unread[s] : Add(r) /\ handed' = [handed EXCEPT ![s] = <<r>>]
    BY <1>1 DEF Deliver, Take
  <2>2. r \in Returns[s] /\ Unmerged(s, unread[s], MergedRecords)
    BY <2>1, ArrivalParts DEF SourcesInv, UnreadInv
  <2>3. r \in Records /\ r \notin MergedRecords
    BY <2>1, <2>2, OwnForms DEF Unmerged
  <2> QED
    BY <1>1, <2>1, <2>3, AddMerges DEF Deliver
<1>2. CASE s \in Editions /\ PassOn(s)
  <2> DEFINE held == norm[s].held
             m == Head(held)
  <2>1. held \in Seq(Records) /\ held # <<>>
    BY <1>2, EditionParts DEF PassOn
  <2>2. 1 \in 1 .. Len(held) /\ m = held[1] /\ m \in Records
    BY <2>1
  <2>3. OnItsWay(s, held, unread[s], MergedRecords, 1)
    BY <1>2, <2>2, ArrivalParts
  <2>4. Add(m) /\ handed' = [handed EXCEPT ![s] = <<m>>]
    BY <1>2 DEF PassOn, Take
  <2> HIDE DEF held, m
  <2>5. m \notin MergedRecords
    BY <2>2, <2>3 DEF OnItsWay
  <2> QED
    BY <1>2, <2>2, <2>4, <2>5, AddMerges DEF PassOn
<1> QED
  BY <1>1, <1>2

(***************************************************************************)
(* Where a merged record is.  A step takes records from one stop to another *)
(* and nothing else, so they stay apart.                                   *)
(***************************************************************************)

Contents == [x \in Stops |-> At(x)]

Apart(at, merged) ==
    /\ merged = UNION {at[x] : x \in Stops}
    /\ \A x \in Stops : \A r \in at[x] : \A y \in Stops : r \in at[y] => y = x

\* The records S go from x to y.
Moved(at, x, y, S) == [at EXCEPT ![x] = @ \ S, ![y] = @ \cup S]

LEMMA MovedParts ==
    ASSUME NEW at \in [Stops -> SUBSET Records], NEW x \in Stops, NEW y \in Stops, x # y,
           NEW S \in SUBSET Records
    PROVE  /\ Moved(at, x, y, S) \in [Stops -> SUBSET Records]
           /\ \A z \in Stops : Moved(at, x, y, S)[z] =
                 IF z = x THEN at[x] \ S ELSE IF z = y THEN at[y] \cup S ELSE at[z]
  BY DEF Moved

LEMMA MovingKeepsApart ==
    ASSUME NEW at \in [Stops -> SUBSET Records], NEW x \in Stops, NEW y \in Stops, x # y,
           NEW S \in SUBSET Records, S \subseteq at[x], NEW M, Apart(at, M)
    PROVE  Apart(Moved(at, x, y, S), M)
<1> DEFINE to == Moved(at, x, y, S)
<1>1. \A z \in Stops : to[z] = IF z = x THEN at[x] \ S ELSE IF z = y THEN at[y] \cup S ELSE at[z]
  BY DEF Moved
<1> HIDE DEF to
<1>2. UNION {to[z] : z \in Stops} = UNION {at[z] : z \in Stops}
  <2>1. ASSUME NEW r, NEW z \in Stops, r \in to[z] PROVE \E v \in Stops : r \in at[v]
    BY <1>1, <2>1
  <2>2. ASSUME NEW r, NEW z \in Stops, r \in at[z] PROVE \E v \in Stops : r \in to[v]
    BY <1>1, <2>2
  <2> QED
    BY <2>1, <2>2
<1>3. ASSUME NEW z \in Stops, NEW r \in to[z], NEW v \in Stops, r \in to[v] PROVE v = z
  BY <1>1, <1>3 DEF Apart
<1> QED
  BY <1>2, <1>3 DEF Apart, to

LEMMA ArrivingKeepsApart ==
    ASSUME NEW at \in [Stops -> SUBSET Records], NEW x \in Stops, NEW M, Apart(at, M),
           NEW r \in Records, r \notin M
    PROVE  /\ [at EXCEPT ![x] = @ \cup {r}] \in [Stops -> SUBSET Records]
           /\ Apart([at EXCEPT ![x] = @ \cup {r}], M \cup {r})
<1> DEFINE to == [at EXCEPT ![x] = @ \cup {r}]
<1>1. \A z \in Stops : to[z] = IF z = x THEN at[x] \cup {r} ELSE at[z]
  OBVIOUS
<1>2. \A z \in Stops : r \notin at[z]
  BY DEF Apart
<1> HIDE DEF to
<1>3. UNION {to[z] : z \in Stops} = (UNION {at[z] : z \in Stops}) \cup {r}
  <2>1. ASSUME NEW q, NEW z \in Stops, q \in to[z] PROVE q = r \/ \E v \in Stops : q \in at[v]
    BY <1>1, <2>1
  <2>2. ASSUME NEW q, NEW z \in Stops, q \in at[z] PROVE \E v \in Stops : q \in to[v]
    BY <1>1, <2>2
  <2>3. r \in to[x]
    BY <1>1
  <2> QED
    BY <2>1, <2>2, <2>3
<1>4. ASSUME NEW z \in Stops, NEW q \in to[z], NEW v \in Stops, q \in to[v] PROVE v = z
  BY <1>1, <1>2, <1>4 DEF Apart
<1> QED
  BY <1>3, <1>4 DEF Apart, to

\* The stops and what is at each.
LEMMA StopsAre ==
    /\ \A s \in Sources : <<"hand", s>> \in Stops
    /\ \A w \in Writers : <<"batch", w>> \in Stops
    /\ {<<"buffer", Main>>, <<"saved", Main>>, <<"lost", Main>>, <<"rejected", Main>>} \subseteq Stops
    /\ \A x \in Stops : \/ \E s \in Sources : x = <<"hand", s>>
                        \/ \E w \in Writers : x = <<"batch", w>>
                        \/ x \in {<<"buffer", Main>>, <<"saved", Main>>, <<"lost", Main>>,
                                  <<"rejected", Main>>}
  BY DEF Stops

LEMMA ContentsAre ==
    /\ \A s \in Sources : Contents[<<"hand", s>>] = Elements(handed[s])
    /\ \A w \in Writers : Contents[<<"batch", w>>] = Elements(batch[w])
    /\ Contents[<<"buffer", Main>>] = Elements(pending)
    /\ Contents[<<"saved", Main>>] = saved /\ Contents[<<"lost", Main>>] = lost
    /\ Contents[<<"rejected", Main>>] = rejected
<1>1. \A x \in Stops : Contents[x] = At(x)
  BY DEF Contents
<1>2. \A s \in Sources : At(<<"hand", s>>) = Elements(handed[s])
  BY DEF At
<1>3. \A w \in Writers : At(<<"batch", w>>) = Elements(batch[w])
  BY DEF At
<1>4. At(<<"buffer", Main>>) = Elements(pending) /\ At(<<"saved", Main>>) = saved
      /\ At(<<"lost", Main>>) = lost /\ At(<<"rejected", Main>>) = rejected
  BY DEF At
<1> QED
  BY <1>1, <1>2, <1>3, <1>4, StopsAre

LEMMA ContentsAfter ==
    ASSUME NEW at \in [Stops -> SUBSET Records],
           \A s \in Sources : Elements(handed'[s]) = at[<<"hand", s>>],
           \A w \in Writers : Elements(batch'[w]) = at[<<"batch", w>>],
           Elements(pending') = at[<<"buffer", Main>>], saved' = at[<<"saved", Main>>],
           lost' = at[<<"lost", Main>>], rejected' = at[<<"rejected", Main>>]
    PROVE  Contents' = at
<1>1. Contents' = [x \in Stops |-> At(x)']
  BY DEF Contents
<1>2. \A s \in Sources : At(<<"hand", s>>)' = Elements(handed'[s])
  BY DEF At, Elements
<1>3. \A w \in Writers : At(<<"batch", w>>)' = Elements(batch'[w])
  BY DEF At, Elements
<1>4. At(<<"buffer", Main>>)' = Elements(pending') /\ At(<<"saved", Main>>)' = saved'
      /\ At(<<"lost", Main>>)' = lost' /\ At(<<"rejected", Main>>)' = rejected'
  BY DEF At, Elements
<1>5. \A x \in Stops : At(x)' = at[x]
  <2> TAKE x \in Stops
  <2>1. CASE \E s \in Sources : x = <<"hand", s>>
    BY <1>2, <2>1
  <2>2. CASE \E w \in Writers : x = <<"batch", w>>
    BY <1>3, <2>2
  <2>3. CASE x \in {<<"buffer", Main>>, <<"saved", Main>>, <<"lost", Main>>, <<"rejected", Main>>}
    BY <1>4, <2>3
  <2> QED
    BY <2>1, <2>2, <2>3, StopsAre
<1> QED
  BY <1>1, <1>5

(***************************************************************************)
(* The checkpointer: types, whose hands are empty, and where records are.   *)
(***************************************************************************)

CheckpointTypes ==
    /\ connected \in BOOLEAN
    /\ handed \in [Sources -> Seq(Records)] /\ ended \subseteq Sources
    /\ pending \in Seq(Records) /\ Len(pending) < CheckpointBatch
    /\ batch \in [Writers -> Seq(Records)]
    /\ \A w \in Writers : Len(batch[w]) <= CheckpointBatch
    /\ saved \subseteq Records /\ lost \subseteq Records /\ rejected \subseteq Records
    /\ main \in {"collecting", "flushing", "storing", "loading", "closing", "finished"}
    /\ flusher \in BOOLEAN

CheckpointInv == CheckpointTypes /\ NothingLeftBehind /\ CheckpointedOnce

\* CheckpointedOnce in its parts.
Singly == IsInjective(pending) /\ \A w \in Writers : IsInjective(batch[w])

LEMMA OnceParts ==
    CheckpointedOnce <=> (connected => Apart(Contents, MergedRecords) /\ Singly)
<1>1. \A x \in Stops : Contents[x] = At(x)
  BY DEF Contents
<1>2. {Contents[x] : x \in Stops} = {At(x) : x \in Stops}
  BY <1>1
<1> QED
  BY <1>1, <1>2 DEF CheckpointedOnce, Apart, Singly

LEMMA OncePartsAfter ==
    CheckpointedOnce' <=> (connected' => Apart(Contents', MergedRecords') /\ Singly')
<1>1. (CheckpointedOnce <=> (connected => Apart(Contents, MergedRecords) /\ Singly))'
  BY OnceParts, PTL
<1> QED
  BY <1>1 DEF Apart

LEMMA ElementsAre ==
    /\ Elements(<<>>) = {}
    /\ \A r : Elements(<<r>>) = {r}
    /\ \A seq \in Seq(Records) : Elements(seq) \subseteq Records
    /\ \A seq \in Seq(Records), r \in Records : Elements(seq \o <<r>>) = Elements(seq) \cup {r}
<1>1. Elements(<<>>) = {} /\ \A r : Elements(<<r>>) = {r}
  BY DEF Elements
<1>2. \A seq \in Seq(Records) : Elements(seq) \subseteq Records
  BY DEF Elements
<1>3. ASSUME NEW seq \in Seq(Records), NEW r \in Records
      PROVE  Elements(seq \o <<r>>) = Elements(seq) \cup {r}
  <2>1. /\ Len(seq) \in Nat /\ Len(seq \o <<r>>) = Len(seq) + 1
        /\ (seq \o <<r>>)[Len(seq) + 1] = r
        /\ \A i \in 1 .. Len(seq) : (seq \o <<r>>)[i] = seq[i]
    OBVIOUS
  <2> DEFINE long == seq \o <<r>>
  <2> HIDE DEF long
  <2>2. /\ Len(seq) \in Nat /\ Len(long) = Len(seq) + 1 /\ long[Len(seq) + 1] = r
        /\ \A i \in 1 .. Len(seq) : long[i] = seq[i]
    BY <2>1 DEF long
  <2>3. 1 .. Len(seq) + 1 = (1 .. Len(seq)) \cup {Len(seq) + 1}
    BY <2>2
  <2> QED
    BY <2>2, <2>3 DEF Elements, long
<1> QED
  BY <1>1, <1>2, <1>3

LEMMA ContentsTyped ==
    ASSUME CheckpointTypes
    PROVE  Contents \in [Stops -> SUBSET Records]
<1>1. \A x \in Stops : Contents[x] \subseteq Records
  <2> TAKE x \in Stops
  <2>1. CASE \E s \in Sources : x = <<"hand", s>>
    BY <2>1, ContentsAre, ElementsAre DEF CheckpointTypes
  <2>2. CASE \E w \in Writers : x = <<"batch", w>>
    BY <2>2, ContentsAre, ElementsAre DEF CheckpointTypes
  <2>3. CASE x \in {<<"buffer", Main>>, <<"saved", Main>>, <<"lost", Main>>, <<"rejected", Main>>}
    <3>1. /\ Elements(pending) \subseteq Records
          /\ saved \subseteq Records /\ lost \subseteq Records /\ rejected \subseteq Records
      BY ElementsAre DEF CheckpointTypes
    <3> QED
      BY <2>3, <3>1, ContentsAre
  <2> QED
    BY <2>1, <2>2, <2>3, StopsAre
<1> QED
  BY <1>1 DEF Contents

LEMMA CheckpointsStart == CrawlInit => CheckpointInv
<1> SUFFICES ASSUME CrawlInit PROVE CheckpointInv
  OBVIOUS
<1>1. CheckpointTypes
  BY CrawlAssumption DEF CrawlInit, CheckpointTypes
<1>2. NothingLeftBehind
  BY DEF CrawlInit, NothingLeftBehind, Writers
<1>3. MergedRecords = {}
  BY DEF CrawlInit, MergerInit, MergedRecords, Places
<1>4. \A x \in Stops : At(x) = {}
  BY ElementsAre DEF CrawlInit, At, Stops
<1>5. CheckpointedOnce
  BY <1>3, <1>4 DEF CheckpointedOnce, CrawlInit, IsInjective
<1> QED
  BY <1>1, <1>2, <1>5 DEF CheckpointInv

\* The writers are told apart.
LEMMA WritersAre ==
    /\ Sources \subseteq Writers /\ Flusher \in Writers /\ Main \in Writers
    /\ Flusher \notin Sources /\ Main \notin Sources /\ Flusher # Main
  BY CrawlAssumption DEF Writers

\* A hand holds nothing or one record.
LEMMA InHand ==
    ASSUME CheckpointTypes, NothingLeftBehind, NEW s \in Sources, handed[s] # <<>>
    PROVE  /\ s \notin ended /\ main = "collecting" /\ batch[s] = <<>>
           /\ \E r \in Records : handed[s] = <<r>>
<1>1. handed[s] \in Seq(Records) /\ Len(handed[s]) <= 1 /\ Len(handed[s]) \in Nat \ {0}
  BY DEF CheckpointTypes, NothingLeftBehind
<1>2. handed[s][1] \in Records /\ handed[s] = <<handed[s][1]>>
  BY <1>1
<1> QED
  BY <1>2 DEF NothingLeftBehind

\* A record arrives in the hands of the goroutine that merged it.
LEMMA ArrivalKeeps ==
    ASSUME Collected, CheckpointInv, NEW s \in Sources,
           Deliver(s) \/ (s \in Editions /\ PassOn(s))
    PROVE  CheckpointInv'
<1> USE DEF CheckpointInv
<1>1. PICK r \in Records \ MergedRecords :
         /\ Receiving(s) /\ handed' = [handed EXCEPT ![s] = <<r>>]
         /\ MergedRecords' = MergedRecords \cup {r}
  BY TakenIsNew
<1>2. UNCHANGED <<ended, pending, batch, saved, lost, rejected, main, flusher, connected>>
  BY DEF Deliver, PassOn, checkpointVars, laterVars, contextVars
<1>3. \A t \in Sources : handed'[t] = IF t = s THEN <<r>> ELSE handed[t]
  BY <1>1 DEF CheckpointTypes
<1>4. CheckpointTypes'
  <2>1. <<r>> \in Seq(Records)
    OBVIOUS
  <2>2. handed' \in [Sources -> Seq(Records)]
    BY <1>1, <2>1 DEF CheckpointTypes
  <2> QED
    BY <1>2, <2>2 DEF CheckpointTypes
<1>5. NothingLeftBehind'
  <2>1. Len(<<r>>) <= 1
    OBVIOUS
  <2>2. \A t \in Sources : /\ Len(handed'[t]) <= 1
                           /\ handed'[t] # <<>> => batch[t] = <<>>
                           /\ t \in ended => handed'[t] = <<>> /\ batch[t] = <<>>
    BY <1>1, <1>3, <2>1 DEF NothingLeftBehind, Receiving
  <2> QED
    BY <1>2, <2>2 DEF NothingLeftBehind
<1>6. CheckpointedOnce'
  <2> DEFINE to == [Contents EXCEPT ![<<"hand", s>>] = @ \cup {r}]
             x == <<"hand", s>>
  <2> SUFFICES ASSUME connected' PROVE Apart(Contents', MergedRecords') /\ Singly'
    BY OncePartsAfter
  <2>1. Apart(Contents, MergedRecords) /\ Singly /\ Contents \in [Stops -> SUBSET Records]
        /\ x \in Stops
    BY <1>2, OnceParts, ContentsTyped, StopsAre
  <2>2. to \in [Stops -> SUBSET Records] /\ Apart(to, MergedRecords')
    BY <1>1, <2>1, ArrivingKeepsApart
  <2>3. Contents' = to
    <3>1. \A z \in Stops : to[z] = IF z = x THEN Contents[x] \cup {r} ELSE Contents[z]
      BY <2>1
    <3>2. Contents[x] = {} /\ Elements(<<r>>) = {r}
      BY <1>1, ContentsAre, ElementsAre DEF Receiving
    <3> HIDE DEF to
    <3>3. \A t \in Sources : Elements(handed'[t]) = to[<<"hand", t>>]
      <4> TAKE t \in Sources
      <4>1. CASE t = s
        BY <1>3, <3>1, <3>2, <4>1, StopsAre
      <4>2. CASE t # s
        <5>1. <<"hand", t>> # x
          BY <4>2
        <5> QED
          BY <1>3, <3>1, <4>2, <5>1, StopsAre, ContentsAre
      <4> QED
        BY <4>1, <4>2
    <3>4. \A w \in Writers : Elements(batch'[w]) = to[<<"batch", w>>]
      <4> TAKE w \in Writers
      <4>1. <<"batch", w>> # x
        OBVIOUS
      <4> QED
        BY <1>2, <3>1, <4>1, StopsAre, ContentsAre
    <3>5. /\ Elements(pending') = to[<<"buffer", Main>>] /\ saved' = to[<<"saved", Main>>]
          /\ lost' = to[<<"lost", Main>>] /\ rejected' = to[<<"rejected", Main>>]
      <4>1. x \notin {<<"buffer", Main>>, <<"saved", Main>>, <<"lost", Main>>, <<"rejected", Main>>}
        OBVIOUS
      <4> QED
        BY <1>2, <3>1, <4>1, StopsAre, ContentsAre
    <3> QED
      BY <2>2, <3>3, <3>4, <3>5, ContentsAfter
  <2>4. Singly'
    BY <1>2, <2>1 DEF Singly
  <2> QED
    BY <2>2, <2>3, <2>4
<1> QED
  BY <1>4, <1>5, <1>6

LEMMA OneMoreIsInjective ==
    ASSUME NEW seq \in Seq(Records), NEW r \in Records, IsInjective(seq), r \notin Elements(seq)
    PROVE  IsInjective(seq \o <<r>>)
<1> DEFINE long == seq \o <<r>>
<1>1. /\ Len(seq) \in Nat /\ DOMAIN long = 1 .. Len(seq) + 1 /\ long[Len(seq) + 1] = r
      /\ \A i \in 1 .. Len(seq) : long[i] = seq[i]
  OBVIOUS
<1> HIDE DEF long
<1>2. \A i \in 1 .. Len(seq) : seq[i] # r
  BY DEF Elements
<1>3. \A i, j \in 1 .. Len(seq) : seq[i] = seq[j] => i = j
  BY DEF IsInjective
<1> QED
  BY <1>1, <1>2, <1>3 DEF IsInjective, long

\* A record goes from the hand into the buffer, and with the buffer when it is full.
LEMMA CheckpointKeeps ==
    ASSUME CheckpointInv, NEW s \in Sources, Checkpoint(s)
    PROVE  CheckpointInv'
<1> USE DEF CheckpointInv
<1>1. s \notin ended /\ main = "collecting" /\ batch[s] = <<>> /\ \E r \in Records : handed[s] = <<r>>
  BY InHand DEF Checkpoint
<1>2. PICK r \in Records : handed[s] = <<r>>
  BY <1>1
<1> DEFINE now == pending \o <<r>>
<1>3. /\ UNCHANGED <<ended, saved, lost, rejected, main, flusher, connected>>
      /\ MergedRecords' = MergedRecords
  BY MergedAsBefore DEF Checkpoint, laterVars, contextVars
<1>4. /\ handed' \in [Sources -> Seq(Records)]
      /\ \A t \in Sources : handed'[t] = IF t = s THEN <<>> ELSE handed[t]
  BY DEF Checkpoint, CheckpointTypes
<1>5. /\ now \in Seq(Records) /\ Len(now) = Len(pending) + 1 /\ Len(now) <= CheckpointBatch
      /\ Elements(now) = Elements(pending) \cup {r}
  <2>1. pending \in Seq(Records) /\ Len(pending) < CheckpointBatch /\ CheckpointBatch \in Nat
    BY CrawlAssumption DEF CheckpointTypes
  <2>2. now \in Seq(Records) /\ Len(now) = Len(pending) + 1
    BY <2>1
  <2> QED
    BY <2>1, <2>2, ElementsAre
<1> DEFINE full == connected /\ Full(now)
<1>6. /\ full => connected /\ pending' = <<>> /\ batch' = [batch EXCEPT ![s] = now]
      /\ ~full => batch' = batch
      /\ ~full /\ connected => pending' = now /\ Len(now) < CheckpointBatch
      /\ ~full /\ ~connected => pending' = pending
  <2>1. CheckpointBatch \in Nat /\ Len(now) \in Nat
    BY <1>5, CrawlAssumption
  <2>2. ~full /\ connected => Len(now) < CheckpointBatch
    BY <2>1 DEF Full
  <2> QED
    BY <1>2, <2>2 DEF Checkpoint
<1> HIDE DEF now, full
<1>7. \A w \in Writers : batch'[w] = IF w = s /\ full THEN now ELSE batch[w]
  BY <1>6 DEF CheckpointTypes
<1>8. CheckpointTypes'
  <2>1. /\ pending' \in Seq(Records) /\ Len(pending') < CheckpointBatch
        /\ batch' \in [Writers -> Seq(Records)]
        /\ \A w \in Writers : Len(batch'[w]) <= CheckpointBatch
    <3>1. CASE ~full
      BY <1>5, <1>6, <3>1 DEF CheckpointTypes
    <3>2. CASE full
      <4>1. pending' = <<>> /\ batch' = [batch EXCEPT ![s] = now]
        BY <1>6, <3>2
      <4>2. <<>> \in Seq(Records) /\ Len(<<>>) = 0
        OBVIOUS
      <4>3. CheckpointBatch \in Nat \ {0}
        BY CrawlAssumption
      <4>4. batch' \in [Writers -> Seq(Records)]
        BY <1>5, <4>1, WritersAre DEF CheckpointTypes
      <4>5. \A w \in Writers : Len(batch'[w]) <= CheckpointBatch
        BY <1>5, <1>7 DEF CheckpointTypes
      <4> QED
        BY <4>1, <4>2, <4>3, <4>4, <4>5
    <3> QED
      BY <3>1, <3>2
  <2> QED
    BY <1>3, <1>4, <2>1 DEF CheckpointTypes
<1>9. NothingLeftBehind'
  <2>1. Len(<<>>) = 0
    OBVIOUS
  <2>2. \A t \in Sources : /\ Len(handed'[t]) <= 1
                           /\ handed'[t] # <<>> => batch'[t] = <<>>
                           /\ t \in ended => handed'[t] = <<>> /\ batch'[t] = <<>>
    BY <1>1, <1>4, <1>7, <2>1, WritersAre DEF NothingLeftBehind
  <2>3. batch'[Main] = batch[Main] /\ batch'[Flusher] = batch[Flusher]
    BY <1>7, WritersAre
  <2>4. connected \/ pending' = <<>>
    BY <1>6 DEF NothingLeftBehind
  <2> QED
    BY <1>1, <1>3, <2>2, <2>3, <2>4 DEF NothingLeftBehind
<1>10. CheckpointedOnce'
  <2> DEFINE x == <<"hand", s>>
             y == <<"buffer", Main>>
             z == <<"batch", s>>
             mid == Moved(Contents, x, y, {r})
             to == IF ~full THEN mid ELSE Moved(mid, y, z, mid[y])
  <2> SUFFICES ASSUME connected' PROVE Apart(Contents', MergedRecords') /\ Singly'
    BY OncePartsAfter
  <2>1. Apart(Contents, MergedRecords) /\ Singly /\ Contents \in [Stops -> SUBSET Records]
        /\ {x, y, z} \subseteq Stops /\ x # y /\ y # z /\ x # z /\ connected
    BY <1>3, OnceParts, ContentsTyped, StopsAre, WritersAre
  <2>2. /\ Contents[x] = {r} /\ Contents[y] = Elements(pending) /\ Contents[z] = {}
        /\ Elements(<<>>) = {}
    BY <1>1, <1>2, ContentsAre, ElementsAre, WritersAre
  <2>3. /\ mid \in [Stops -> SUBSET Records] /\ Apart(mid, MergedRecords)
        /\ \A v \in Stops : mid[v] = IF v = x THEN {}
                                     ELSE IF v = y THEN Elements(now) ELSE Contents[v]
    <3>1. {r} \in SUBSET Records /\ {r} \subseteq Contents[x]
      BY <2>2
    <3>2. mid \in [Stops -> SUBSET Records] /\ Apart(mid, MergedRecords)
      BY <2>1, <3>1, MovedParts, MovingKeepsApart
    <3>3. \A v \in Stops : mid[v] = IF v = x THEN Contents[x] \ {r}
                                    ELSE IF v = y THEN Contents[y] \cup {r} ELSE Contents[v]
      BY <2>1 DEF Moved
    <3> HIDE DEF mid
    <3> QED
      BY <1>5, <2>2, <3>2, <3>3
  <2> HIDE DEF mid
  <2>4. /\ to \in [Stops -> SUBSET Records] /\ Apart(to, MergedRecords)
        /\ \A v \in Stops : to[v] = IF ~full \/ v \notin {y, z} THEN mid[v]
                                    ELSE IF v = y THEN {} ELSE Elements(now)
    <3>1. CASE ~full
      BY <2>3, <3>1
    <3>2. CASE full
      <4>1. mid[y] \in SUBSET Records /\ mid[y] \subseteq mid[y]
        BY <2>1, <2>3
      <4>2. to = Moved(mid, y, z, mid[y])
        BY <3>2
      <4>3. to \in [Stops -> SUBSET Records] /\ Apart(to, MergedRecords)
        BY <2>1, <2>3, <4>1, <4>2, MovedParts, MovingKeepsApart
      <4>4. \A v \in Stops : to[v] = IF v = y THEN mid[y] \ mid[y]
                                     ELSE IF v = z THEN mid[z] \cup mid[y] ELSE mid[v]
        BY <2>1, <2>3, <4>2 DEF Moved
      <4> HIDE DEF to
      <4>5. mid[y] = Elements(now) /\ mid[z] = {}
        BY <2>1, <2>2, <2>3
      <4> QED
        BY <3>2, <4>3, <4>4, <4>5
    <3> QED
      BY <3>1, <3>2
  <2> HIDE DEF to
  <2>5. Contents' = to
    <3>1. \A t \in Sources : Elements(handed'[t]) = to[<<"hand", t>>]
      <4> TAKE t \in Sources
      <4>1. <<"hand", t>> \notin {y, z} /\ (<<"hand", t>> = x <=> t = s) /\ <<"hand", t>> \in Stops
        BY StopsAre
      <4>2. to[<<"hand", t>>] = IF t = s THEN {} ELSE Contents[<<"hand", t>>]
        BY <2>3, <2>4, <4>1
      <4> QED
        BY <1>4, <2>2, <4>2, ContentsAre
    <3>2. \A w \in Writers : Elements(batch'[w]) = to[<<"batch", w>>]
      <4> TAKE w \in Writers
      <4>1. <<"batch", w>> \notin {x, y} /\ (<<"batch", w>> = z <=> w = s) /\ <<"batch", w>> \in Stops
        BY StopsAre
      <4>2. to[<<"batch", w>>] = IF w = s /\ full THEN Elements(now)
                                 ELSE Contents[<<"batch", w>>]
        BY <2>3, <2>4, <4>1
      <4> QED
        BY <1>7, <4>2, ContentsAre
    <3>3. Elements(pending') = to[y]
      <4>1. mid[y] = Elements(now) /\ to[y] = IF ~full THEN mid[y] ELSE {}
        BY <2>1, <2>3, <2>4
      <4>2. pending' = IF full THEN <<>> ELSE now
        BY <1>6, <2>1
      <4> QED
        BY <2>2, <4>1, <4>2
    <3>4. /\ saved' = to[<<"saved", Main>>] /\ lost' = to[<<"lost", Main>>]
          /\ rejected' = to[<<"rejected", Main>>]
      <4> DEFINE rest == {<<"saved", Main>>, <<"lost", Main>>, <<"rejected", Main>>}
      <4>1. rest \subseteq Stops /\ \A v \in rest : v \notin {x, y, z}
        BY StopsAre
      <4>2. \A v \in rest : to[v] = Contents[v]
        BY <2>3, <2>4, <4>1
      <4> QED
        BY <1>3, <4>2, ContentsAre
    <3> QED
      BY <2>4, <3>1, <3>2, <3>3, <3>4, ContentsAfter
  <2>6. Singly'
    <3>1. r \notin Elements(pending)
      BY <2>1, <2>2 DEF Apart
    <3>2. IsInjective(now)
      BY <3>1, <2>1, OneMoreIsInjective DEF now, Singly, CheckpointTypes
    <3>3. IsInjective(<<>>)
      BY DEF IsInjective
    <3> QED
      BY <1>6, <1>7, <2>1, <3>2, <3>3 DEF Singly
  <2> QED
    BY <1>3, <2>4, <2>5, <2>6
<1> QED
  BY <1>8, <1>9, <1>10

\* Whoever takes the buffer takes all of it.
LEMMA TakingKeepsOnce ==
    ASSUME CheckpointTypes, CheckpointedOnce, NEW w \in Writers, batch[w] = <<>>, TakePending(w),
           UNCHANGED <<mergerVars, handed, saved, lost, rejected, connected>>
    PROVE  CheckpointedOnce'
<1> DEFINE x == <<"buffer", Main>>
           y == <<"batch", w>>
           all == Elements(pending)
           to == Moved(Contents, x, y, all)
<1> SUFFICES ASSUME connected' PROVE Apart(Contents', MergedRecords') /\ Singly'
  BY OncePartsAfter
<1>1. Apart(Contents, MergedRecords) /\ Singly /\ Contents \in [Stops -> SUBSET Records]
      /\ {x, y} \subseteq Stops /\ x # y /\ MergedRecords' = MergedRecords
  BY OnceParts, ContentsTyped, StopsAre, MergedAsBefore
<1>2. all \in SUBSET Records /\ all = Contents[x] /\ Contents[y] = {} /\ Elements(<<>>) = {}
  BY ContentsAre, ElementsAre DEF CheckpointTypes
<1>3. to \in [Stops -> SUBSET Records] /\ Apart(to, MergedRecords)
  BY <1>1, <1>2, MovedParts, MovingKeepsApart
<1>4. \A v \in Stops : to[v] = IF v = x THEN Contents[x] \ all
                               ELSE IF v = y THEN Contents[y] \cup all ELSE Contents[v]
  BY <1>1 DEF Moved
<1>5. /\ pending' = <<>>
      /\ \A u \in Writers : batch'[u] = IF u = w THEN pending ELSE batch[u]
  BY DEF TakePending, CheckpointTypes
<1> HIDE DEF to
<1>6. Contents' = to
  <2>1. \A t \in Sources : Elements(handed'[t]) = to[<<"hand", t>>]
    <3> TAKE t \in Sources
    <3>1. <<"hand", t>> \notin {x, y} /\ <<"hand", t>> \in Stops
      BY StopsAre
    <3> QED
      BY <1>4, <3>1, ContentsAre
  <2>2. \A u \in Writers : Elements(batch'[u]) = to[<<"batch", u>>]
    <3> TAKE u \in Writers
    <3>1. <<"batch", u>> # x /\ (<<"batch", u>> = y <=> u = w) /\ <<"batch", u>> \in Stops
      BY StopsAre
    <3>2. to[<<"batch", u>>] = IF u = w THEN all ELSE Contents[<<"batch", u>>]
      BY <1>2, <1>4, <3>1
    <3> QED
      BY <1>5, <3>2, ContentsAre
  <2>3. Elements(pending') = to[x]
    BY <1>1, <1>2, <1>4, <1>5
  <2>4. /\ saved' = to[<<"saved", Main>>] /\ lost' = to[<<"lost", Main>>]
        /\ rejected' = to[<<"rejected", Main>>]
    <3> DEFINE rest == {<<"saved", Main>>, <<"lost", Main>>, <<"rejected", Main>>}
    <3>1. rest \subseteq Stops /\ \A v \in rest : v \notin {x, y}
      BY StopsAre
    <3>2. \A v \in rest : to[v] = Contents[v]
      BY <1>4, <3>1
    <3> QED
      BY <3>2, ContentsAre
  <2> QED
    BY <1>3, <2>1, <2>2, <2>3, <2>4, ContentsAfter
<1>7. Singly'
  BY <1>1, <1>5 DEF Singly, IsInjective
<1> QED
  BY <1>1, <1>3, <1>6, <1>7

LEMMA TakingKeepsTypes ==
    ASSUME CheckpointTypes, NEW w \in Writers, TakePending(w),
           UNCHANGED <<handed, ended, saved, lost, rejected, connected, flusher>>,
           main' \in {main, "flushing"}
    PROVE  CheckpointTypes'
<1>1. pending' = <<>> /\ batch' = [batch EXCEPT ![w] = pending]
  BY DEF TakePending
<1>2. <<>> \in Seq(Records) /\ Len(<<>>) = 0 /\ CheckpointBatch \in Nat \ {0}
      /\ Len(pending) <= CheckpointBatch
  BY CrawlAssumption DEF CheckpointTypes
<1>3. /\ batch' \in [Writers -> Seq(Records)]
      /\ \A u \in Writers : Len(batch'[u]) <= CheckpointBatch
  BY <1>1, <1>2 DEF CheckpointTypes
<1>4. pending' \in Seq(Records) /\ Len(pending') < CheckpointBatch
  BY <1>1, <1>2
<1> QED
  BY <1>3, <1>4 DEF CheckpointTypes

LEMMA PeriodicFlushKeeps ==
    ASSUME CheckpointInv, PeriodicFlush
    PROVE  CheckpointInv'
<1> USE DEF CheckpointInv
<1>1. /\ flusher /\ batch[Flusher] = <<>> /\ TakePending(Flusher)
      /\ UNCHANGED <<mergerVars, handed, ended, saved, lost, rejected, connected, main, flusher>>
  BY DEF PeriodicFlush, collectVars, laterVars, contextVars
<1>2. CheckpointTypes' /\ CheckpointedOnce'
  BY <1>1, TakingKeepsTypes, TakingKeepsOnce, WritersAre
<1>3. pending' = <<>> /\ \A w \in Writers : w # Flusher => batch'[w] = batch[w]
  BY <1>1 DEF TakePending, CheckpointTypes
<1>4. NothingLeftBehind'
  BY <1>1, <1>3, WritersAre DEF NothingLeftBehind
<1> QED
  BY <1>2, <1>4

LEMMA FlushKeeps ==
    ASSUME CheckpointInv, Flush
    PROVE  CheckpointInv'
<1> USE DEF CheckpointInv
<1>1. /\ main = "collecting" /\ ended = Sources /\ main' = "flushing"
      /\ UNCHANGED <<mergerVars, handed, ended, saved, lost, rejected, connected, flusher>>
      /\ batch[Main] = <<>>
      /\ IF connected THEN TakePending(Main) ELSE UNCHANGED <<pending, batch>>
  BY DEF Flush, collectVars, contextVars, NothingLeftBehind
<1>2. CASE connected
  <2>1. CheckpointTypes' /\ CheckpointedOnce'
    BY <1>1, <1>2, TakingKeepsTypes, TakingKeepsOnce, WritersAre
  <2>2. pending' = <<>> /\ \A w \in Writers : w # Main => batch'[w] = batch[w]
    BY <1>1, <1>2 DEF TakePending, CheckpointTypes
  <2>3. NothingLeftBehind'
    BY <1>1, <2>2, WritersAre DEF NothingLeftBehind
  <2> QED
    BY <2>1, <2>3
<1>3. CASE ~connected
  <2>1. CheckpointTypes' /\ CheckpointedOnce'
    BY <1>1, <1>3 DEF CheckpointTypes, CheckpointedOnce
  <2>2. NothingLeftBehind'
    BY <1>1, <1>3 DEF NothingLeftBehind
  <2> QED
    BY <2>1, <2>2
<1> QED
  BY <1>2, <1>3

\* A batch that was written is saved, refused or lost, record by record.
LEMMA SaveKeeps ==
    ASSUME CheckpointInv, NEW w \in Writers, Save(w)
    PROVE  CheckpointInv'
<1> USE DEF CheckpointInv
<1> DEFINE B == Elements(batch[w])
<1>0. \/ saved' = saved \cup B /\ lost' = lost /\ rejected' = rejected
      \/ \E S \in SUBSET B : saved' = saved \cup (B \ S) /\ rejected' = rejected \cup S
                             /\ lost' = lost
      \/ lost' = lost \cup B /\ saved' = saved /\ rejected' = rejected
  BY DEF Save
<1>b. B = Elements(batch[w])
  OBVIOUS
<1> HIDE DEF B
<1>1. \E A, R, L \in SUBSET B :
         /\ saved' = saved \cup A /\ rejected' = rejected \cup R /\ lost' = lost \cup L
         /\ A \cup R \cup L = B /\ A \cap R = {} /\ A \cap L = {} /\ R \cap L = {}
  <2>1. CASE saved' = saved \cup B /\ lost' = lost /\ rejected' = rejected
    <3> WITNESS B \in SUBSET B, {} \in SUBSET B, {} \in SUBSET B
    <3> QED
      BY <2>1
  <2>2. CASE \E S \in SUBSET B : saved' = saved \cup (B \ S) /\ rejected' = rejected \cup S
                                 /\ lost' = lost
    <3>1. PICK S \in SUBSET B : saved' = saved \cup (B \ S) /\ rejected' = rejected \cup S
                                /\ lost' = lost
      BY <2>2
    <3> WITNESS B \ S \in SUBSET B, S \in SUBSET B, {} \in SUBSET B
    <3> QED
      BY <3>1
  <2>3. CASE lost' = lost \cup B /\ saved' = saved /\ rejected' = rejected
    <3> WITNESS {} \in SUBSET B, {} \in SUBSET B, B \in SUBSET B
    <3> QED
      BY <2>3
  <2> QED
    BY <1>0, <2>1, <2>2, <2>3
<1>2. PICK A \in SUBSET B, R \in SUBSET B, L \in SUBSET B :
         /\ saved' = saved \cup A /\ rejected' = rejected \cup R /\ lost' = lost \cup L
         /\ A \cup R \cup L = B /\ A \cap R = {} /\ A \cap L = {} /\ R \cap L = {}
  BY <1>1
<1>3. /\ UNCHANGED <<mergerVars, handed, ended, pending, connected, main, flusher>>
      /\ batch' = [batch EXCEPT ![w] = <<>>] /\ batch \in [Writers -> Seq(Records)]
  BY DEF Save, collectVars, contextVars, CheckpointTypes
<1>4. \A u \in Writers : batch'[u] = IF u = w THEN <<>> ELSE batch[u]
  BY <1>3
<1>5. B \subseteq Records /\ Elements(<<>>) = {} /\ <<>> \in Seq(Records) /\ Len(<<>>) = 0
  BY <1>3, <1>b, ElementsAre
<1>6. CheckpointTypes'
  <2>1. batch' \in [Writers -> Seq(Records)]
    BY <1>3, <1>5
  <2>2. \A u \in Writers : Len(batch'[u]) <= CheckpointBatch
    BY <1>4, <1>5, CrawlAssumption DEF CheckpointTypes
  <2>3. saved' \subseteq Records /\ lost' \subseteq Records /\ rejected' \subseteq Records
    BY <1>2, <1>5 DEF CheckpointTypes
  <2> QED
    BY <1>3, <2>1, <2>2, <2>3 DEF CheckpointTypes
<1>7. NothingLeftBehind'
  BY <1>3, <1>4, WritersAre DEF NothingLeftBehind
<1>8. CheckpointedOnce'
  <2> DEFINE x == <<"batch", w>>
             mid == Moved(Contents, x, <<"saved", Main>>, A)
             far == Moved(mid, x, <<"rejected", Main>>, R)
             to == Moved(far, x, <<"lost", Main>>, L)
             ends == {<<"saved", Main>>, <<"rejected", Main>>, <<"lost", Main>>}
  <2> SUFFICES ASSUME connected' PROVE Apart(Contents', MergedRecords') /\ Singly'
    BY OncePartsAfter
  <2>1. /\ Apart(Contents, MergedRecords) /\ Singly /\ Contents \in [Stops -> SUBSET Records]
        /\ x \in Stops /\ ends \subseteq Stops /\ x \notin ends
        /\ MergedRecords' = MergedRecords
    BY <1>3, OnceParts, ContentsTyped, StopsAre, MergedAsBefore
  <2>2. Contents[x] = B /\ {A, R, L} \subseteq SUBSET Records
    BY <1>5, <1>b, ContentsAre
  <2>3. /\ mid \in [Stops -> SUBSET Records] /\ Apart(mid, MergedRecords)
        /\ \A v \in Stops : mid[v] = IF v = x THEN B \ A
                                     ELSE IF v = <<"saved", Main>> THEN Contents[v] \cup A
                                     ELSE Contents[v]
    <3>0. A \in SUBSET Records /\ A \subseteq Contents[x] /\ <<"saved", Main>> \in Stops
          /\ x # <<"saved", Main>>
      BY <2>1, <2>2
    <3>1. mid \in [Stops -> SUBSET Records] /\ Apart(mid, MergedRecords)
      BY <2>1, <3>0, MovedParts, MovingKeepsApart
    <3>2. \A v \in Stops : mid[v] = IF v = x THEN Contents[x] \ A
                                     ELSE IF v = <<"saved", Main>> THEN Contents[v] \cup A
                                     ELSE Contents[v]
      BY <2>1 DEF Moved
    <3> HIDE DEF mid
    <3> QED
      BY <2>2, <3>1, <3>2
  <2> HIDE DEF mid
  <2>4. /\ far \in [Stops -> SUBSET Records] /\ Apart(far, MergedRecords)
        /\ \A v \in Stops : far[v] = IF v = x THEN (B \ A) \ R
                                     ELSE IF v = <<"rejected", Main>> THEN mid[v] \cup R
                                     ELSE mid[v]
    <3>1. R \subseteq mid[x] /\ mid[x] = B \ A
      BY <1>2, <2>1, <2>3
    <3>2. far \in [Stops -> SUBSET Records] /\ Apart(far, MergedRecords)
      BY <2>1, <2>2, <2>3, <3>1, MovedParts, MovingKeepsApart
    <3>3. \A v \in Stops : far[v] = IF v = x THEN mid[x] \ R
                                     ELSE IF v = <<"rejected", Main>> THEN mid[v] \cup R
                                     ELSE mid[v]
      BY <2>1, <2>3 DEF Moved
    <3> HIDE DEF far
    <3> QED
      BY <3>1, <3>2, <3>3
  <2> HIDE DEF far
  <2>5. /\ to \in [Stops -> SUBSET Records] /\ Apart(to, MergedRecords)
        /\ \A v \in Stops : to[v] = IF v = x THEN {}
                                    ELSE IF v = <<"lost", Main>> THEN far[v] \cup L
                                    ELSE far[v]
    <3>1. L \subseteq far[x] /\ far[x] = (B \ A) \ R /\ far[x] \ L = {}
      BY <1>2, <2>1, <2>4
    <3>2. to \in [Stops -> SUBSET Records] /\ Apart(to, MergedRecords)
      BY <2>1, <2>2, <2>4, <3>1, MovedParts, MovingKeepsApart
    <3>3. \A v \in Stops : to[v] = IF v = x THEN far[x] \ L
                                    ELSE IF v = <<"lost", Main>> THEN far[v] \cup L
                                    ELSE far[v]
      BY <2>1, <2>4 DEF Moved
    <3> HIDE DEF to
    <3> QED
      BY <3>1, <3>2, <3>3
  <2> HIDE DEF to
  <2>6. /\ to[x] = {} /\ \A v \in Stops : v # x /\ v \notin ends => to[v] = Contents[v]
        /\ to[<<"saved", Main>>] = saved \cup A /\ to[<<"rejected", Main>>] = rejected \cup R
        /\ to[<<"lost", Main>>] = lost \cup L
    <3>1. \A v \in Stops : v # x /\ v \notin ends => to[v] = Contents[v]
      BY <2>3, <2>4, <2>5
    <3>2. to[<<"saved", Main>>] = Contents[<<"saved", Main>>] \cup A
      BY <2>1, <2>3, <2>4, <2>5
    <3>3. to[<<"rejected", Main>>] = Contents[<<"rejected", Main>>] \cup R
      BY <2>1, <2>3, <2>4, <2>5
    <3>4. to[<<"lost", Main>>] = Contents[<<"lost", Main>>] \cup L
      BY <2>1, <2>3, <2>4, <2>5
    <3> QED
      BY <2>1, <2>5, <3>1, <3>2, <3>3, <3>4, ContentsAre
  <2>7. Contents' = to
    <3>1. \A t \in Sources : Elements(handed'[t]) = to[<<"hand", t>>]
      <4> TAKE t \in Sources
      <4>1. <<"hand", t>> \notin ends /\ <<"hand", t>> # x /\ <<"hand", t>> \in Stops
        BY StopsAre
      <4> QED
        BY <1>3, <2>6, <4>1, ContentsAre
    <3>2. \A u \in Writers : Elements(batch'[u]) = to[<<"batch", u>>]
      <4> TAKE u \in Writers
      <4>1. <<"batch", u>> \notin ends /\ (<<"batch", u>> = x <=> u = w) /\ <<"batch", u>> \in Stops
        BY StopsAre
      <4>2. to[<<"batch", u>>] = IF u = w THEN {} ELSE Contents[<<"batch", u>>]
        BY <2>6, <4>1
      <4> QED
        BY <1>4, <1>5, <4>2, ContentsAre
    <3>3. Elements(pending') = to[<<"buffer", Main>>]
      <4>1. <<"buffer", Main>> \notin ends /\ <<"buffer", Main>> # x /\ <<"buffer", Main>> \in Stops
        BY StopsAre
      <4> QED
        BY <1>3, <2>6, <4>1, ContentsAre
    <3> QED
      BY <1>2, <2>5, <2>6, <3>1, <3>2, <3>3, ContentsAfter
  <2>8. Singly'
    <3>1. IsInjective(<<>>)
      BY DEF IsInjective
    <3> QED
      BY <1>3, <1>4, <2>1, <3>1 DEF Singly
  <2> QED
    BY <2>1, <2>5, <2>7, <2>8
<1> QED
  BY <1>6, <1>7, <1>8

\* What the checkpointer's records are told by.
checkpointed == <<mergerVars, connected, handed, pending, batch, saved, lost, rejected>>

LEMMA StayingOnce ==
    ASSUME CheckpointedOnce, UNCHANGED checkpointed
    PROVE  CheckpointedOnce'
<1>1. MergedRecords' = MergedRecords
  BY MergedAsBefore DEF checkpointed
<1>2. Contents' = Contents
  BY DEF Contents, At, Elements, checkpointed
<1>3. Singly' = Singly /\ connected' = connected
  BY DEF Singly, checkpointed
<1> QED
  BY <1>1, <1>2, <1>3, OnceParts, OncePartsAfter

\* A source ends with nothing in hand; the records are where they were.
LEMMA EndKeeps ==
    ASSUME CheckpointInv, NEW s \in Sources, SourceEnds(s)
    PROVE  CheckpointInv'
<1> USE DEF CheckpointInv
<1>1. /\ UNCHANGED checkpointed /\ main' = main /\ flusher' = flusher
      /\ handed[s] = <<>> /\ batch[s] = <<>> /\ ended' = ended \cup {s}
  BY DEF SourceEnds, Receiving, checkpointed, checkpointVars, laterVars, contextVars
<1>2. CheckpointTypes'
  BY <1>1 DEF CheckpointTypes, checkpointed
<1>3. NothingLeftBehind'
  BY <1>1 DEF NothingLeftBehind, CheckpointTypes, checkpointed
<1> QED
  BY <1>1, <1>2, <1>3, StayingOnce

\* Main goes on when it has nothing in hand, and ends after the periodic flush.
LEMMA MainKeeps ==
    ASSUME CheckpointInv, StartStoring \/ StoringEnds \/ SkipLoad \/ LoadEnds \/ Finish
    PROVE  CheckpointInv'
<1> USE DEF CheckpointInv
<1>1. /\ UNCHANGED checkpointed /\ flusher' = flusher /\ ended' = ended
      /\ main \in {"flushing", "storing", "loading", "closing"}
      /\ main' \in {"storing", "loading", "closing", "finished"}
      /\ main = "flushing" => batch[Main] = <<>>
      /\ main' = "finished" => ~flusher
  BY DEF StartStoring, StoringEnds, SkipLoad, LoadEnds, Finish, FlusherIsDone, checkpointed,
         checkpointVars, collectVars, contextVars
<1>2. CheckpointTypes'
  BY <1>1 DEF CheckpointTypes, checkpointed
<1>3. NothingLeftBehind'
  BY <1>1 DEF NothingLeftBehind, checkpointed
<1> QED
  BY <1>1, <1>2, <1>3, StayingOnce

LEMMA FlusherEndKeeps ==
    ASSUME CheckpointInv, FlusherEnds
    PROVE  CheckpointInv'
<1> USE DEF CheckpointInv
<1>1. /\ UNCHANGED checkpointed /\ flusher' = FALSE /\ ended' = ended /\ main' = main
      /\ batch[Flusher] = <<>>
  BY DEF FlusherEnds, checkpointed, checkpointVars, collectVars, contextVars
<1>2. CheckpointTypes'
  BY <1>1 DEF CheckpointTypes, checkpointed
<1>3. NothingLeftBehind'
  BY <1>1 DEF NothingLeftBehind, checkpointed
<1> QED
  BY <1>1, <1>2, <1>3, StayingOnce

LEMMA OthersLeaveCheckpoints ==
    ASSUME CheckpointInv, UNCHANGED <<checkpointed, ended, main, flusher>>
    PROVE  CheckpointInv'
<1> USE DEF CheckpointInv
<1>1. CheckpointTypes' /\ NothingLeftBehind'
  BY DEF CheckpointTypes, NothingLeftBehind, checkpointed
<1> QED
  BY <1>1, StayingOnce

\* No step loses a record on its way, takes one twice or leaves one behind.
LEMMA CheckpointStep ==
    ASSUME Collected, CheckpointInv, [CrawlNext]_vars
    PROVE  CheckpointInv'
<1>1. CASE (\E s \in Plain : Deliver(s)) \/ (\E e \in Editions : PassOn(e))
  BY <1>1, ArrivalKeeps DEF Sources
<1>2. CASE \E s \in Sources : SourceEnds(s) \/ Checkpoint(s)
  BY <1>2, EndKeeps, CheckpointKeeps
<1>3. CASE \E e \in Editions : Collect(e) \/ InputEnds(e) \/ Normalise(e) \/ Abandon(e)
  <2>1. UNCHANGED <<checkpointed, ended, main, flusher>>
    BY <1>3 DEF Collect, InputEnds, Normalise, Abandon, checkpointed, checkpointVars, laterVars,
                contextVars
  <2> QED
    BY <2>1, OthersLeaveCheckpoints
<1>4. CASE \/ \E w \in Writers : Save(w)
           \/ PeriodicFlush \/ Flush
  BY <1>4, SaveKeeps, PeriodicFlushKeeps, FlushKeeps
<1>5. CASE StartStoring \/ StoringEnds \/ SkipLoad \/ LoadEnds \/ FlusherEnds \/ Finish
  BY <1>5, MainKeeps, FlusherEndKeeps
<1>6. CASE \E i \in Places : StartUpload(i) \/ StatObject(i) \/ PutObject(i) \/ UploadFails(i)
  <2>1. UNCHANGED <<checkpointed, ended, main, flusher>>
    BY <1>6 DEF StartUpload, StatObject, PutObject, UploadFails, checkpointed, checkpointVars,
                collectVars, contextVars
  <2> QED
    BY <2>1, OthersLeaveCheckpoints
<1>7. CASE Cancel \/ WriteTimesOut \/ Load
  <2>1. UNCHANGED <<checkpointed, ended, main, flusher>>
    BY <1>7 DEF Cancel, WriteTimesOut, Load, checkpointed, checkpointVars, collectVars,
                contextVars
  <2> QED
    BY <2>1, OthersLeaveCheckpoints
<1>8. CASE UNCHANGED vars
  <2>1. UNCHANGED <<checkpointed, ended, main, flusher>>
    BY <1>8 DEF vars, checkpointed, checkpointVars, collectVars, contextVars
  <2> QED
    BY <2>1, OthersLeaveCheckpoints
<1> QED
  BY <1>1, <1>2, <1>3, <1>4, <1>5, <1>6, <1>7, <1>8 DEF CrawlNext

LEMMA CheckpointInvariant == CrawlSpec => [](Collected /\ CheckpointInv)
<1>1. Collected /\ CheckpointInv /\ [CrawlNext]_vars => CheckpointInv'
  BY CheckpointStep
<1> QED
  BY <1>1, CheckpointsStart, CollectionInvariant, PTL DEF CrawlSpec

\* No checkpoint is being written once the pool is closed, and every record has had
\* its answer by then.
LEMMA NothingIsOwedAtTheEnd ==
    ASSUME CheckpointInv
    PROVE  PoolOutlivesWrites /\ AllAreAnswered
<1> USE DEF CheckpointInv
<1> SUFFICES ASSUME main = "finished" PROVE PoolOutlivesWrites /\ AllAreAnswered
  BY DEF PoolOutlivesWrites, AllAreAnswered
<1>1. /\ \A w \in Writers : batch[w] = <<>>
      /\ \A s \in Sources : handed[s] = <<>>
      /\ pending = <<>>
  BY DEF NothingLeftBehind, Writers
<1>2. ASSUME connected PROVE MergedRecords = saved \cup lost \cup rejected
  <2>1. MergedRecords = UNION {Contents[x] : x \in Stops}
    BY <1>2, OnceParts DEF Apart
  <2>2. ASSUME NEW r, NEW x \in Stops, r \in Contents[x] PROVE r \in saved \cup lost \cup rejected
    BY <1>1, <2>2, StopsAre, ContentsAre, ElementsAre
  <2>3. ASSUME NEW r \in saved \cup lost \cup rejected PROVE \E x \in Stops : r \in Contents[x]
    BY StopsAre, ContentsAre
  <2> QED
    BY <2>1, <2>2, <2>3
<1> QED
  BY <1>1, <1>2 DEF PoolOutlivesWrites, AllAreAnswered

(***************************************************************************)
(* The store.  The catalogue no longer changes when storing begins, and     *)
(* what an upload says of the bucket stays true of it.                     *)
(***************************************************************************)

Statuses == {"waiting", "checking", "putting", "stored", "skipped", "failed"}

Gathering == {"collecting", "flushing"}

Afterwards == {"loading", "closing", "finished"}

StoreTypes ==
    /\ timedOut \in BOOLEAN /\ faults \in 0 .. MaxFaults
    /\ main \in Gathering => uploads = <<>>
    /\ main \notin Gathering => uploads \in [Places -> Statuses]
    /\ objects \in [ObjectKeys -> 0 .. Len(museums)]

StoreInv == StoreTypes /\ UploadsAreTrue

\* Failures are counted, up to the bound.
LEMMA FaultsCount ==
    ASSUME faults \in 0 .. MaxFaults, [CrawlNext]_vars
    PROVE  faults' \in 0 .. MaxFaults /\ faults' \in {faults, faults + 1}
<1>1. MaxFaults \in Nat
  BY CrawlAssumption
<1>2. Fault \/ faults' = faults
  <2>1. CASE \/ \E s \in Plain : Deliver(s)
             \/ \E s \in Sources : SourceEnds(s) \/ Checkpoint(s)
             \/ \E e \in Editions :
                   Collect(e) \/ InputEnds(e) \/ Normalise(e) \/ PassOn(e) \/ Abandon(e)
    BY <2>1 DEF Deliver, SourceEnds, Checkpoint, Collect, InputEnds, Normalise, PassOn, Abandon
  <2>2. CASE \/ \E w \in Writers : Save(w)
             \/ PeriodicFlush \/ Cancel \/ Flush \/ StartStoring
    BY <2>2 DEF Save, PeriodicFlush, Cancel, Flush, StartStoring
  <2>3. CASE \E i \in Places : StartUpload(i) \/ StatObject(i) \/ PutObject(i) \/ UploadFails(i)
    BY <2>3 DEF StartUpload, StatObject, PutObject, UploadFails
  <2>4. CASE \/ WriteTimesOut \/ StoringEnds \/ SkipLoad
             \/ Load \/ LoadEnds \/ FlusherEnds \/ Finish
    BY <2>4 DEF WriteTimesOut, StoringEnds, SkipLoad, Load, LoadEnds, FlusherEnds, Finish
  <2>5. CASE UNCHANGED vars
    BY <2>5 DEF vars
  <2> QED
    BY <2>1, <2>2, <2>3, <2>4, <2>5 DEF CrawlNext
<1> QED
  BY <1>1, <1>2 DEF Fault

\* The catalogue grows while sources are read and stays as it is from then on.
LEMMA CatalogueStands ==
    ASSUME Collected, CheckpointInv, [CrawlNext]_vars
    PROVE  \/ UNCHANGED museums
           \/ /\ main = "collecting" /\ Len(museums') >= Len(museums)
              /\ UNCHANGED <<main, timedOut, uploads, objects, loadVars>>
<1>0. Len(museums) \in Nat /\ museums \in Seq(Entries)
  BY DEF Collected, MergerInv, MergerTypeOK
<1>1. ASSUME NEW r \in Records, Add(r) PROVE Len(museums') >= Len(museums)
  <2>1. CASE AddNew(r)
    BY <1>0, <2>1 DEF AddNew
  <2>2. CASE AddMerged(r)
    <3>1. Len(museums') = Len(museums)
      BY <1>0, <2>2 DEF AddMerged
    <3> QED
      BY <1>0, <3>1
  <2> QED
    BY <1>1, <2>1, <2>2 DEF Add
<1>2. ASSUME NEW s \in Sources, Receiving(s) PROVE main = "collecting"
  BY <1>2 DEF Receiving, CheckpointInv, NothingLeftBehind
<1>3. ASSUME NEW s \in Plain, Deliver(s)
      PROVE  /\ main = "collecting" /\ Len(museums') >= Len(museums)
             /\ UNCHANGED <<main, timedOut, uploads, objects, loadVars>>
  <2>1. PICK r \in unread[s] : Add(r)
    BY <1>3 DEF Deliver, Take
  <2>2. r \in Records /\ s \in Sources
    BY DEF Collected, SourcesInv, UnreadInv, Sources
  <2> QED
    BY <1>1, <1>2, <1>3, <2>1, <2>2 DEF Deliver, laterVars, storeVars, contextVars, loadVars
<1>4. ASSUME NEW e \in Editions, PassOn(e)
      PROVE  /\ main = "collecting" /\ Len(museums') >= Len(museums)
             /\ UNCHANGED <<main, timedOut, uploads, objects, loadVars>>
  <2>1. Head(norm[e].held) \in Records /\ Add(Head(norm[e].held)) /\ e \in Sources
    BY <1>4, EditionParts DEF PassOn, Take, Collected
  <2> QED
    BY <1>1, <1>2, <1>4, <2>1 DEF PassOn, laterVars, storeVars, contextVars, loadVars
<1>5. ASSUME NEW e \in Editions, Collect(e) \/ InputEnds(e) \/ Normalise(e) \/ Abandon(e)
      PROVE  UNCHANGED museums
  BY <1>5 DEF Collect, InputEnds, Normalise, Abandon, mergerVars
<1> QED
  BY <1>3, <1>4, <1>5, CollectionAlone DEF mergerVars

LEMMA StoreStarts == CrawlInit => StoreInv
<1> SUFFICES ASSUME CrawlInit PROVE StoreInv
  OBVIOUS
<1>1. museums = <<>> /\ uploads = <<>> /\ main = "collecting" /\ timedOut = FALSE /\ faults = 0
      /\ objects = [k \in ObjectKeys |-> 0] /\ MaxFaults \in Nat
  BY CrawlAssumption DEF CrawlInit, MergerInit
<1>2. Len(museums) = 0 /\ DOMAIN uploads = {}
  BY <1>1
<1>3. StoreTypes
  <2>1. objects \in [ObjectKeys -> 0 .. Len(museums)]
    BY <1>1, <1>2
  <2>2. timedOut \in BOOLEAN
    BY <1>1, Zenon
  <2>3. faults \in 0 .. MaxFaults
    BY <1>1
  <2> QED
    BY <1>1, <2>1, <2>2, <2>3 DEF StoreTypes, Gathering
<1>4. UploadsAreTrue
  BY <1>1, <1>2 DEF UploadsAreTrue
<1> QED
  BY <1>3, <1>4 DEF StoreInv

\* A step that leaves uploads and bucket alone leaves true what was.
LEMMA OthersLeaveStore ==
    ASSUME StoreInv, UNCHANGED <<museums, uploads, objects, timedOut>>,
           faults' \in 0 .. MaxFaults, faults' \in {faults, faults + 1},
           \/ main' = main
           \/ main \in Gathering /\ main' \in Gathering
           \/ main \in Afterwards /\ main' \in Afterwards
    PROVE  StoreInv'
<1>1. MaxFaults \in Nat /\ (faults > 0 => faults' > 0)
  BY CrawlAssumption DEF StoreInv, StoreTypes
<1>2. /\ main' \in Gathering <=> main \in Gathering
      /\ main' \in Afterwards <=> main \in Afterwards
  BY DEF Gathering, Afterwards
<1>3. StoreTypes'
  BY <1>2 DEF StoreInv, StoreTypes, Places
<1>4. UploadsAreTrue'
  BY <1>1, <1>2 DEF StoreInv, UploadsAreTrue, Places, InFlight, Waiting, Gathering, Afterwards
<1> QED
  BY <1>3, <1>4 DEF StoreInv

\* Growing catalogue, nothing uploaded yet.
LEMMA GrowthLeavesStore ==
    ASSUME StoreInv, main = "collecting", Len(museums) \in Nat, Len(museums') \in Nat,
           Len(museums') >= Len(museums),
           UNCHANGED <<main, timedOut, uploads, objects>>,
           faults' \in 0 .. MaxFaults, faults' \in {faults, faults + 1}
    PROVE  StoreInv'
<1>1. uploads = <<>> /\ DOMAIN uploads = {}
  BY DEF StoreInv, StoreTypes, Gathering
<1>2. objects' \in [ObjectKeys -> 0 .. Len(museums')]
  <2>1. 0 .. Len(museums) \subseteq 0 .. Len(museums')
    OBVIOUS
  <2> QED
    BY <2>1 DEF StoreInv, StoreTypes
<1>3. MaxFaults \in Nat /\ (faults > 0 => faults' > 0)
  BY CrawlAssumption DEF StoreInv, StoreTypes
<1>4. StoreTypes'
  BY <1>1, <1>2 DEF StoreInv, StoreTypes, Gathering
<1>5. UploadsAreTrue'
  BY <1>1, <1>3 DEF StoreInv, UploadsAreTrue
<1> QED
  BY <1>4, <1>5 DEF StoreInv

\* What is known of the uploads while storing.
LEMMA Storing ==
    ASSUME StoreInv, main = "storing"
    PROVE  /\ uploads \in [Places -> Statuses] /\ DOMAIN uploads = Places
           /\ timedOut \in BOOLEAN /\ faults \in 0 .. MaxFaults /\ (timedOut => faults > 0)
           /\ objects \in [ObjectKeys -> 0 .. Len(museums)]
           /\ \A i \in Places :
                 /\ uploads[i] \in {"stored", "skipped"} => objects[ObjectKey(museums[i])] # 0
                 /\ uploads[i] = "failed" => faults > 0
<1>1. uploads \in [Places -> Statuses]
  BY DEF StoreInv, StoreTypes, Gathering
<1> QED
  BY <1>1 DEF StoreInv, StoreTypes, UploadsAreTrue

\* One upload goes a step further, and tells the truth.
LEMMA UploadKeeps ==
    ASSUME StoreInv, main = "storing", NEW i \in Places, NEW to \in Statuses, Step(i, to),
           UNCHANGED <<museums, timedOut, main>>,
           objects' \in [ObjectKeys -> 0 .. Len(museums)],
           \A j \in Places : objects[ObjectKey(museums[j])] # 0
                                => objects'[ObjectKey(museums[j])] # 0,
           to \in {"stored", "skipped"} => objects'[ObjectKey(museums[i])] # 0,
           to = "failed" => faults' > 0,
           faults' \in 0 .. MaxFaults, faults' \in {faults, faults + 1}
    PROVE  StoreInv'
<1>1. /\ uploads' \in [Places -> Statuses] /\ DOMAIN uploads' = Places
      /\ \A j \in Places : uploads'[j] = IF j = i THEN to ELSE uploads[j]
  BY Storing DEF Step
<1>2. MaxFaults \in Nat /\ (faults > 0 => faults' > 0)
  BY CrawlAssumption DEF StoreInv, StoreTypes
<1>3. Places' = Places /\ \A j \in Places : ObjectKey(museums'[j]) = ObjectKey(museums[j])
  BY DEF Places
<1>4. StoreTypes'
  BY <1>1, <1>3 DEF StoreInv, StoreTypes, Gathering
<1>5. UploadsAreTrue'
  <2>1. ASSUME NEW j \in Places
        PROVE  /\ uploads'[j] \in {"stored", "skipped"} => objects'[ObjectKey(museums[j])] # 0
               /\ uploads'[j] = "failed" => faults' > 0
    <3>1. CASE j = i
      BY <1>1, <3>1
    <3>2. CASE j # i
      BY <1>1, <1>2, <3>2, Storing
    <3> QED
      BY <3>1, <3>2
  <2>2. timedOut' => faults' > 0
    BY <1>2, Storing
  <2> QED
    BY <1>1, <1>3, <2>1, <2>2 DEF UploadsAreTrue, ObjectKey
<1> QED
  BY <1>4, <1>5 DEF StoreInv

\* Every entry has a key in the bucket.
LEMMA KeysAreTyped ==
    ASSUME Collected, NEW i \in Places
    PROVE  ObjectKey(museums[i]) \in ObjectKeys
<1>1. museums[i] \in Entries
  BY DEF Collected, MergerInv, MergerTypeOK, Places
<1> QED
  BY <1>1 DEF Entries, ObjectKey, ObjectKeys

LEMMA UploadsKeep ==
    ASSUME Collected, StoreInv, NEW i \in Places,
           StartUpload(i) \/ StatObject(i) \/ PutObject(i) \/ UploadFails(i),
           faults' \in 0 .. MaxFaults, faults' \in {faults, faults + 1}
    PROVE  StoreInv'
<1>1. main = "storing" /\ UNCHANGED <<museums, timedOut, main>>
  BY DEF StartUpload, StatObject, PutObject, UploadFails, mergerVars, contextVars
<1>2. CASE StartUpload(i)
  <2>1. Step(i, "checking") /\ objects' = objects
    BY <1>2 DEF StartUpload
  <2> QED
    BY <1>1, <2>1, Storing, UploadKeeps DEF Statuses
<1>3. CASE StatObject(i)
  <2>1. /\ objects' = objects
        /\ \/ Step(i, "putting")
           \/ Step(i, "skipped") /\ objects[ObjectKey(museums[i])] # 0
    BY <1>3 DEF StatObject
  <2> QED
    BY <1>1, <2>1, Storing, UploadKeeps DEF Statuses
<1>4. CASE PutObject(i)
  <2> DEFINE k == ObjectKey(museums[i])
  <2>1. Step(i, "stored") /\ objects' = [objects EXCEPT ![k] = i] /\ k \in ObjectKeys
    BY <1>4, KeysAreTyped DEF PutObject
  <2>2. i \in 0 .. Len(museums) /\ i # 0
    BY DEF Places, Collected, MergerInv, MergerTypeOK
  <2>3. objects \in [ObjectKeys -> 0 .. Len(museums)]
    BY <1>1, Storing
  <2> HIDE DEF k
  <2>4. objects' \in [ObjectKeys -> 0 .. Len(museums)]
    BY <2>1, <2>2, <2>3
  <2>5. \A l \in ObjectKeys : objects'[l] = IF l = k THEN i ELSE objects[l]
    BY <2>1, <2>3
  <2>6. \A j \in Places : objects[ObjectKey(museums[j])] # 0
                             => objects'[ObjectKey(museums[j])] # 0
    BY <2>2, <2>5, KeysAreTyped
  <2>7. objects'[ObjectKey(museums[i])] # 0
    BY <2>1, <2>2, <2>5 DEF k
  <2> QED
    BY <1>1, <2>1, <2>4, <2>6, <2>7, UploadKeeps DEF Statuses
<1>5. CASE UploadFails(i)
  <2>1. Step(i, "failed") /\ objects' = objects /\ (timedOut \/ faults' = faults + 1)
    BY <1>5 DEF UploadFails, Fault
  <2>2. faults' > 0
    BY <1>1, <2>1, Storing, CrawlAssumption
  <2> QED
    BY <1>1, <2>1, <2>2, Storing, UploadKeeps DEF Statuses
<1> QED
  BY <1>2, <1>3, <1>4, <1>5

\* Storing begins with every entry waiting, and ends with none on its way and, unless
\* its time is over, none waiting.
LEMMA StoringBegins ==
    ASSUME StoreInv, StartStoring
    PROVE  StoreInv'
<1>1. /\ main' = "storing" /\ uploads' = [i \in Places |-> "waiting"]
      /\ UNCHANGED <<museums, timedOut, objects, faults>>
  BY DEF StartStoring, mergerVars, contextVars
<1>2. uploads' \in [Places -> Statuses] /\ DOMAIN uploads' = Places /\ Places' = Places
      /\ \A i \in Places : uploads'[i] = "waiting"
  BY <1>1 DEF Statuses, Places
<1>3. StoreTypes'
  BY <1>1, <1>2 DEF StoreInv, StoreTypes, Gathering
<1>4. UploadsAreTrue'
  BY <1>1, <1>2 DEF StoreInv, UploadsAreTrue
<1> QED
  BY <1>3, <1>4 DEF StoreInv

LEMMA StoringIsOver ==
    ASSUME StoreInv, StoringEnds
    PROVE  StoreInv'
<1>1. /\ main = "storing" /\ main' = "loading" /\ InFlight = {} /\ (Waiting = {} \/ timedOut)
      /\ UNCHANGED <<museums, timedOut, uploads, objects, faults>>
  BY DEF StoringEnds, WritingMayStop, mergerVars, contextVars, storeVars
<1>2. StoreTypes'
  BY <1>1 DEF StoreInv, StoreTypes, Gathering, Places
<1>3. UploadsAreTrue'
  BY <1>1 DEF StoreInv, UploadsAreTrue, Places, InFlight, Waiting
<1> QED
  BY <1>2, <1>3 DEF StoreInv

LEMMA TimeoutKeepsStore ==
    ASSUME StoreInv, WriteTimesOut, faults' \in 0 .. MaxFaults
    PROVE  StoreInv'
<1>1. /\ timedOut' /\ faults' = faults + 1
      /\ UNCHANGED <<museums, main, uploads, objects>>
  BY DEF WriteTimesOut, Fault, mergerVars, storeVars
<1>2. faults' > 0 /\ timedOut' \in BOOLEAN
  BY <1>1, CrawlAssumption DEF StoreInv, StoreTypes, WriteTimesOut
<1>3. StoreTypes'
  BY <1>1, <1>2 DEF StoreInv, StoreTypes, Places
<1>4. UploadsAreTrue'
  BY <1>1, <1>2 DEF StoreInv, UploadsAreTrue, Places, InFlight, Waiting
<1> QED
  BY <1>3, <1>4 DEF StoreInv

\* No step makes an upload say of the bucket what is not so.
LEMMA StoreStep ==
    ASSUME Collected, CheckpointInv, StoreInv, [CrawlNext]_vars
    PROVE  StoreInv'
<1>1. faults' \in 0 .. MaxFaults /\ faults' \in {faults, faults + 1}
  BY FaultsCount DEF StoreInv, StoreTypes
<1>2. CASE main = "collecting" /\ Len(museums') >= Len(museums)
           /\ UNCHANGED <<main, timedOut, uploads, objects, loadVars>>
  <2>1. Len(museums) \in Nat
    BY DEF Collected, MergerInv, MergerTypeOK
  <2>2. CASE UNCHANGED museums
    BY <1>1, <1>2, <2>2, OthersLeaveStore
  <2>3. CASE ~UNCHANGED museums
    <3>1. Collected'
      BY ArrivalsStep, CrawlStep, MergerStep DEF Collected
    <3>2. Len(museums') \in Nat
      BY <3>1 DEF Collected, MergerInv, MergerTypeOK
    <3> QED
      BY <1>1, <1>2, <2>1, <3>2, GrowthLeavesStore
  <2> QED
    BY <2>2, <2>3
<1>3. CASE UNCHANGED museums
  <2>1. CASE \/ \E s \in Plain : Deliver(s)
             \/ \E s \in Sources : SourceEnds(s) \/ Checkpoint(s)
             \/ \E e \in Editions :
                   Collect(e) \/ InputEnds(e) \/ Normalise(e) \/ PassOn(e) \/ Abandon(e)
    <3>1. UNCHANGED <<main, timedOut, uploads, objects>>
      BY <2>1 DEF Deliver, SourceEnds, Checkpoint, Collect, InputEnds, Normalise, PassOn, Abandon,
                  laterVars, contextVars, storeVars
    <3> QED
      BY <1>1, <1>3, <3>1, OthersLeaveStore
  <2>2. CASE \/ \E w \in Writers : Save(w)
             \/ PeriodicFlush \/ Cancel \/ FlusherEnds \/ Load \/ UNCHANGED vars
    <3>1. UNCHANGED <<main, timedOut, uploads, objects>>
      BY <2>2 DEF Save, PeriodicFlush, Cancel, FlusherEnds, Load, vars, laterVars, contextVars,
                  storeVars
    <3> QED
      BY <1>1, <1>3, <3>1, OthersLeaveStore
  <2>3. CASE Flush \/ SkipLoad \/ LoadEnds \/ Finish
    <3>1. /\ UNCHANGED <<timedOut, uploads, objects>>
          /\ \/ main \in Gathering /\ main' \in Gathering
             \/ main \in Afterwards /\ main' \in Afterwards
      BY <2>3 DEF Flush, SkipLoad, LoadEnds, Finish, contextVars, storeVars, Gathering, Afterwards
    <3> QED
      BY <1>1, <1>3, <3>1, OthersLeaveStore
  <2>4. CASE \E i \in Places : StartUpload(i) \/ StatObject(i) \/ PutObject(i) \/ UploadFails(i)
    BY <1>1, <2>4, UploadsKeep
  <2>5. CASE StartStoring \/ StoringEnds \/ WriteTimesOut
    BY <1>1, <2>5, StoringBegins, StoringIsOver, TimeoutKeepsStore
  <2> QED
    BY <2>1, <2>2, <2>3, <2>4, <2>5 DEF CrawlNext
<1> QED
  BY <1>2, <1>3, CatalogueStands

LEMMA StoreInvariant == CrawlSpec => [](Collected /\ CheckpointInv /\ StoreInv)
<1>1. Collected /\ CheckpointInv /\ StoreInv /\ [CrawlNext]_vars => StoreInv'
  BY StoreStep
<1> QED
  BY <1>1, StoreStarts, CheckpointInvariant, PTL DEF CrawlSpec

\* Without a failure every upload came to its end, and found or left an object.
LEMMA WithoutFailuresAllIsStored ==
    ASSUME StoreInv
    PROVE  InterruptedCrawlIsStored
<1> SUFFICES ASSUME main \in Afterwards, faults = 0, NEW i \in Places
             PROVE  objects[ObjectKey(museums[i])] # 0
  BY DEF InterruptedCrawlIsStored, Afterwards
<1>1. uploads \in [Places -> Statuses] /\ DOMAIN uploads = Places
  BY DEF StoreInv, StoreTypes, Gathering, Afterwards
<1>2. InFlight = {} /\ Waiting = {}
  BY DEF StoreInv, UploadsAreTrue, Afterwards
<1>3. uploads[i] \notin {"checking", "putting", "waiting"}
  BY <1>1, <1>2 DEF InFlight, Waiting
<1>4. uploads[i] # "failed"
  BY <1>1 DEF StoreInv, UploadsAreTrue
<1>5. uploads[i] \in {"stored", "skipped"}
  BY <1>1, <1>3, <1>4 DEF Statuses
<1> QED
  BY <1>1, <1>5 DEF StoreInv, UploadsAreTrue

\* Interrupting still stores what the sources returned: however many goroutines write,
\* and whenever the crawl was cancelled, with no failure at the storage end an object
\* is under the key of every entry when loading begins.
THEOREM InterruptedCrawlsAreStored == CrawlSpec => []InterruptedCrawlIsStored
<1>1. StoreInv => InterruptedCrawlIsStored
  BY WithoutFailuresAllIsStored
<1> QED
  BY <1>1, StoreInvariant, PTL

(***************************************************************************)
(* The load.  A batch that is missed is a failure, so what is missed is     *)
(* counted by the failures.                                                *)
(***************************************************************************)

Before == {"collecting", "flushing", "storing"}

Over == {"closing", "finished"}

LoadTypes ==
    /\ cancelled \in BOOLEAN /\ skipped \in BOOLEAN
    /\ rows \in [Ids -> Countries \cup {Unknown, Absent}]
    /\ next \in Nat /\ loaded \subseteq Places

LoadInv == LoadTypes /\ MissesArePaidFor

\* A set of places has a last one.
LEMMA LastIsIn ==
    ASSUME NEW n \in Nat, NEW T \in SUBSET (1 .. n), T # {}
    PROVE  (CHOOSE i \in T : \A j \in T : j <= i) \in T
<1> DEFINE R == {ss \in Nat \X Nat : ss[1] < ss[2]}
           above == {n - i : i \in T}
<1>1. IsWellFoundedOn(R, Nat)
  BY NatLessThanWellFounded DEF OpToRel
<1>2. above \subseteq Nat /\ above # {}
  <2>1. \A i \in T : n - i \in Nat
    OBVIOUS
  <2> QED
    BY <2>1
<1> HIDE DEF R, above
<1>3. PICK x \in above : \A y \in above : ~ (<<y, x>> \in R)
  BY <1>1, <1>2, WFMin
<1>4. \A y \in above : ~ (y < x)
  BY <1>2, <1>3 DEF R
<1>5. PICK k \in T : x = n - k
  BY DEF above
<1>6. \A j \in T : n - j \in above
  BY DEF above
<1>7. \A j \in T : j <= k
  BY <1>4, <1>5, <1>6
<1> QED
  BY <1>7, Zenon

\* A row holds a country, a placeholder for one, or nothing.
LEMMA UpsertKeepsRows ==
    ASSUME LoadTypes, NEW seq, NEW n \in Nat, NEW I \in SUBSET (1 .. n),
           \A i \in I : seq[i].country \in Countries \cup {Unknown}, Upsert(seq, I)
    PROVE  rows' \in [Ids -> Countries \cup {Unknown, Absent}]
<1>1. ASSUME NEW q \in Ids PROVE RowAfter(q, seq, I) \in Countries \cup {Unknown, Absent}
  <2> DEFINE mine == {i \in I : seq[i].id = q}
             told == {i \in mine : Known(seq[i].country)}
             last == CHOOSE i \in told : \A j \in told : j <= i
  <2>1. RowAfter(q, seq, I) =
           IF told # {} THEN seq[last].country
           ELSE IF mine # {} /\ rows[q] = Absent THEN Unknown ELSE rows[q]
    BY DEF RowAfter
  <2>2. told \in SUBSET (1 .. n) /\ told \subseteq I
    OBVIOUS
  <2> HIDE DEF mine, told
  <2>3. told # {} => last \in told
    BY <2>2, LastIsIn, Zenon
  <2> HIDE DEF last
  <2>4. told # {} => seq[last].country \in Countries \cup {Unknown}
    BY <2>2, <2>3
  <2>5. rows[q] \in Countries \cup {Unknown, Absent}
    BY DEF LoadTypes
  <2> QED
    BY <2>1, <2>4, <2>5
<1>2. rows' = [q \in Ids |-> RowAfter(q, seq, I)]
  BY DEF Upsert
<1> QED
  BY <1>1, <1>2

\* The country of a record or an entry is a country.
LEMMA CountriesAreTyped ==
    ASSUME Collected, CheckpointInv
    PROVE  /\ \A w \in Writers : \A i \in 1 .. Len(batch[w]) :
                 batch[w][i].country \in Countries \cup {Unknown}
           /\ \A i \in Places : museums[i].country \in Countries \cup {Unknown}
           /\ Len(museums) \in Nat /\ \A w \in Writers : Len(batch[w]) \in Nat
<1>1. museums \in Seq(Entries) /\ batch \in [Writers -> Seq(Records)]
  BY DEF Collected, MergerInv, MergerTypeOK, CheckpointInv, CheckpointTypes
<1>2. \A i \in Places : museums[i].country \in Countries \cup {Unknown}
  <2>1. \A i \in Places : museums[i] \in Entries
    BY <1>1 DEF Places
  <2>2. \A e \in Entries : e.country \in Countries \cup {Unknown}
    BY DEF Entries
  <2> QED
    BY <2>1, <2>2
<1>3. \A w \in Writers : \A i \in 1 .. Len(batch[w]) : batch[w][i] \in Records
  BY <1>1
<1>4. \A r \in Records : r.country \in Countries \cup {Unknown}
  BY RecordParts
<1> QED
  BY <1>1, <1>2, <1>3, <1>4

\* Rows are written by checkpoints and by the load.
LEMMA RowsStayTyped ==
    ASSUME Collected, CheckpointInv, LoadTypes, [CrawlNext]_vars
    PROVE  rows' \in [Ids -> Countries \cup {Unknown, Absent}]
<1>1. CASE \E w \in Writers : Save(w)
  <2>1. PICK w \in Writers : Save(w)
    BY <1>1
  <2>2. \/ rows' = rows
        \/ \E I \in SUBSET (1 .. Len(batch[w])) : Upsert(batch[w], I)
    <3>1. 1 .. Len(batch[w]) \in SUBSET (1 .. Len(batch[w]))
      OBVIOUS
    <3>2. \A S : {i \in 1 .. Len(batch[w]) : batch[w][i] \notin S}
                    \in SUBSET (1 .. Len(batch[w]))
      OBVIOUS
    <3> QED
      BY <2>1, <3>1, <3>2 DEF Save
  <2>3. CASE rows' = rows
    BY <2>3 DEF LoadTypes
  <2>4. CASE \E I \in SUBSET (1 .. Len(batch[w])) : Upsert(batch[w], I)
    <3>1. PICK I \in SUBSET (1 .. Len(batch[w])) : Upsert(batch[w], I)
      BY <2>4
    <3> QED
      BY <3>1, CountriesAreTyped, UpsertKeepsRows
  <2> QED
    BY <2>2, <2>3, <2>4
<1>2. CASE Load
  <2>1. rows' = rows \/ \E S \in SUBSET Offered : Upsert(museums, S)
    BY <1>2 DEF Load
  <2>2. CASE rows' = rows
    BY <2>2 DEF LoadTypes
  <2>3. CASE \E S \in SUBSET Offered : Upsert(museums, S)
    <3>1. PICK S \in SUBSET Offered : Upsert(museums, S)
      BY <2>3
    <3>2. S \in SUBSET (1 .. Len(museums))
      BY DEF Offered, Places
    <3>3. \A i \in S : museums[i].country \in Countries \cup {Unknown}
      BY CountriesAreTyped DEF Offered
    <3> QED
      BY <3>1, <3>2, <3>3, CountriesAreTyped, UpsertKeepsRows
  <2> QED
    BY <2>1, <2>2, <2>3
<1>3. CASE UNCHANGED rows
  BY <1>3 DEF LoadTypes
<1>4. (\E w \in Writers : Save(w)) \/ Load \/ UNCHANGED rows
  <2>1. CASE \/ \E s \in Plain : Deliver(s)
             \/ \E s \in Sources : SourceEnds(s) \/ Checkpoint(s)
             \/ \E e \in Editions :
                   Collect(e) \/ InputEnds(e) \/ Normalise(e) \/ PassOn(e) \/ Abandon(e)
    BY <2>1 DEF Deliver, SourceEnds, Checkpoint, Collect, InputEnds, Normalise, PassOn, Abandon,
                laterVars
  <2>2. CASE PeriodicFlush \/ Cancel \/ Flush \/ StartStoring
    BY <2>2 DEF PeriodicFlush, Cancel, Flush, StartStoring, laterVars
  <2>3. CASE \E i \in Places : StartUpload(i) \/ StatObject(i) \/ PutObject(i) \/ UploadFails(i)
    BY <2>3 DEF StartUpload, StatObject, PutObject, UploadFails
  <2>4. CASE WriteTimesOut \/ StoringEnds \/ SkipLoad \/ LoadEnds \/ FlusherEnds \/ Finish
    BY <2>4 DEF WriteTimesOut, StoringEnds, SkipLoad, LoadEnds, FlusherEnds, Finish
  <2>5. CASE UNCHANGED vars
    BY <2>5 DEF vars
  <2> QED
    BY <2>1, <2>2, <2>3, <2>4, <2>5 DEF CrawlNext
<1> QED
  BY <1>1, <1>2, <1>3, <1>4

LEMMA LoadStarts == CrawlInit => LoadInv
<1> SUFFICES ASSUME CrawlInit PROVE LoadInv
  OBVIOUS
<1>1. museums = <<>> /\ main = "collecting" /\ next = 1 /\ loaded = {} /\ faults = 0
      /\ rows = [q \in Ids |-> Absent]
  BY DEF CrawlInit, MergerInit
<1>2. cancelled \in BOOLEAN /\ skipped \in BOOLEAN
  BY Zenon DEF CrawlInit
<1>3. Missed = {}
  BY <1>1 DEF Missed, Places
<1>4. LoadTypes
  BY <1>1, <1>2 DEF LoadTypes
<1>5. Cardinality(Missed) <= faults * LoadBatch
  BY <1>1, <1>3, FS_EmptySet, CrawlAssumption
<1>6. MissesArePaidFor
  BY <1>1, <1>5 DEF MissesArePaidFor
<1> QED
  BY <1>4, <1>6 DEF LoadInv

\* What is missed is finite, and a batch more is missed at a failure more.
LEMMA MissesAdd ==
    ASSUME NEW M, IsFiniteSet(M), NEW from \in Nat, NEW f \in Nat, NEW k \in Nat,
           Cardinality(M) <= f * k,
           NEW N, N \subseteq M \cup (from .. from + k - 1)
    PROVE  Cardinality(N) <= (f + 1) * k
<1> DEFINE B == from .. from + k - 1
<1>1. IsFiniteSet(B) /\ Cardinality(B) = k
  BY FS_Interval
<1> HIDE DEF B
<1>2. IsFiniteSet(M \cup B) /\ Cardinality(M \cup B) <= Cardinality(M) + Cardinality(B)
  <2>1. IsFiniteSet(M \cap B) /\ Cardinality(M \cap B) \in Nat
    <3>1. M \cap B \in SUBSET M
      OBVIOUS
    <3> QED
      BY <3>1, FS_Subset, FS_CardinalityType
  <2>2. /\ IsFiniteSet(M \cup B)
        /\ Cardinality(M \cup B) = Cardinality(M) + Cardinality(B) - Cardinality(M \cap B)
    BY <1>1, FS_Union
  <2>3. Cardinality(M) \in Nat /\ Cardinality(B) \in Nat
    BY <1>1, FS_CardinalityType
  <2> QED
    BY <2>1, <2>2, <2>3
<1>3. N \in SUBSET (M \cup B)
  BY DEF B
<1>4. /\ Cardinality(N) <= Cardinality(M \cup B) /\ Cardinality(N) \in Nat
      /\ Cardinality(M \cup B) \in Nat /\ Cardinality(M) \in Nat
  BY <1>2, <1>3, FS_Subset, FS_CardinalityType
<1>5. (f + 1) * k = f * k + k /\ f * k \in Nat
  OBVIOUS
<1> QED
  BY <1>1, <1>2, <1>4, <1>5

\* A failure more pays for no less.
LEMMA FaultsPayNoLess ==
    ASSUME NEW f \in Nat, NEW g \in {f, f + 1}, NEW k \in Nat, NEW c \in Nat, c <= f * k
    PROVE  c <= g * k
<1>1. (f + 1) * k = f * k + k /\ f * k \in Nat
  OBVIOUS
<1> QED
  BY <1>1

LEMMA MissedIsFinite ==
    ASSUME Collected
    PROVE  IsFiniteSet(Missed) /\ Cardinality(Missed) \in Nat
<1>1. Len(museums) \in Nat
  BY DEF Collected, MergerInv, MergerTypeOK
<1>2. IsFiniteSet(Places) /\ Missed \in SUBSET Places
  BY <1>1, FS_Interval DEF Places, Missed
<1> QED
  BY <1>2, FS_Subset, FS_CardinalityType

\* The catalogue grows, and nothing is loaded yet.
LEMMA GrowthLeavesLoad ==
    ASSUME LoadInv, main = "collecting", Len(museums) \in Nat, Len(museums') \in Nat,
           Len(museums') >= Len(museums), UNCHANGED <<main, next, loaded, skipped>>,
           cancelled' \in BOOLEAN,
           rows' \in [Ids -> Countries \cup {Unknown, Absent}],
           faults' \in Nat
    PROVE  LoadInv'
<1>1. next = 1 /\ next' = 1 /\ main' = "collecting"
  BY DEF LoadInv, MissesArePaidFor
<1>2. Places \subseteq Places'
  BY DEF Places
<1>3. LoadTypes'
  BY <1>2 DEF LoadInv, LoadTypes
<1>4. Missed' = {}
  BY <1>1 DEF Missed, Places
<1>5. Cardinality(Missed') = 0 /\ 0 <= faults' * LoadBatch
  BY <1>4, FS_EmptySet, CrawlAssumption
<1>6. MissesArePaidFor'
  BY <1>1, <1>5 DEF MissesArePaidFor, Missed
<1> QED
  BY <1>3, <1>6 DEF LoadInv

\* Steps other than the load's leave what is missed, and main goes on when the load is
\* past the end or was skipped.
LEMMA OthersLeaveLoad ==
    ASSUME Collected, LoadInv, UNCHANGED <<museums, next, loaded>>,
           cancelled' \in BOOLEAN, skipped' \in BOOLEAN, skipped => skipped',
           timedOut \in BOOLEAN, timedOut => timedOut',
           rows' \in [Ids -> Countries \cup {Unknown, Absent}],
           faults \in Nat, faults' \in {faults, faults + 1},
           main' \in Before => main \in Before,
           main' \in Over => main \in Over \/ next \notin Places \/ skipped'
    PROVE  LoadInv'
<1>1. Missed' = Missed /\ Places' = Places
  BY DEF Missed, Places
<1>2. LoadTypes'
  BY <1>1 DEF LoadInv, LoadTypes
<1>3. timedOut \/ Cardinality(Missed) <= faults' * LoadBatch
  BY MissedIsFinite, FaultsPayNoLess, CrawlAssumption DEF LoadInv, MissesArePaidFor
<1>4. MissesArePaidFor'
  <2>1. timedOut' \/ Cardinality(Missed') <= faults' * LoadBatch
    BY <1>1, <1>3
  <2> QED
    BY <1>1, <2>1 DEF LoadInv, MissesArePaidFor, Before, Over
<1> QED
  BY <1>2, <1>4 DEF LoadInv

\* A batch is offered: it lands, or what it leaves out is a batch at most, and a failure.
LEMMA LoadKeeps ==
    ASSUME Collected, LoadInv, Load, faults \in Nat,
           rows' \in [Ids -> Countries \cup {Unknown, Absent}]
    PROVE  LoadInv'
<1>1. /\ main = "loading" /\ main' = main /\ next' = next + LoadBatch
      /\ UNCHANGED <<museums, cancelled, timedOut, skipped>>
  BY DEF Load, AfterBatch, mergerVars, contextVars
<1>2. LoadBatch \in Nat \ {0} /\ next \in Nat /\ next >= 1 /\ loaded \subseteq Places
      /\ Len(museums) \in Nat
  BY CrawlAssumption DEF LoadInv, LoadTypes, MissesArePaidFor, Collected, MergerInv, MergerTypeOK
<1>3. Places' = Places /\ Missed' = {i \in Places : i < next + LoadBatch} \ loaded'
  BY <1>1 DEF Missed, Places
<1>4. loaded' \subseteq Places /\ loaded \subseteq loaded'
  BY <1>2 DEF Load, Offered
<1>5. Missed' \subseteq Missed \cup (next .. next + LoadBatch - 1)
  BY <1>2, <1>3, <1>4 DEF Missed, Places
<1>6. timedOut \/ faults' = faults + 1 \/ (faults' = faults /\ loaded' = loaded \cup Offered)
  BY DEF Load, Fault
<1>7. ASSUME ~timedOut PROVE Cardinality(Missed') <= faults' * LoadBatch
  <2>1. Cardinality(Missed) <= faults * LoadBatch /\ IsFiniteSet(Missed)
        /\ Cardinality(Missed) \in Nat
    BY <1>7, MissedIsFinite DEF LoadInv, MissesArePaidFor
  <2>2. CASE faults' = faults + 1
    BY <1>2, <1>5, <2>1, <2>2, MissesAdd
  <2>3. CASE faults' = faults /\ loaded' = loaded \cup Offered
    <3>1. Missed' \in SUBSET Missed
      BY <1>2, <1>3, <2>3 DEF Missed, Places, Offered
    <3>2. Cardinality(Missed') <= Cardinality(Missed) /\ Cardinality(Missed') \in Nat
      BY <2>1, <3>1, FS_Subset, FS_CardinalityType
    <3>3. faults * LoadBatch \in Nat
      BY <1>2
    <3> QED
      BY <2>1, <2>3, <3>2, <3>3
  <2> QED
    BY <1>6, <1>7, <2>2, <2>3
<1>8. LoadTypes'
  BY <1>1, <1>2, <1>3, <1>4 DEF LoadInv, LoadTypes
<1>9. MissesArePaidFor'
  BY <1>1, <1>2, <1>7 DEF MissesArePaidFor
<1> QED
  BY <1>8, <1>9 DEF LoadInv

\* No step misses what its failures do not pay for.
LEMMA LoadStep ==
    ASSUME Collected, CheckpointInv, StoreInv, LoadInv, [CrawlNext]_vars
    PROVE  LoadInv'
<1>1. /\ faults \in Nat /\ faults' \in Nat /\ faults' \in {faults, faults + 1}
      /\ timedOut \in BOOLEAN
      /\ rows' \in [Ids -> Countries \cup {Unknown, Absent}]
  BY FaultsCount, RowsStayTyped DEF StoreInv, StoreTypes, LoadInv
<1>2. /\ cancelled' \in BOOLEAN /\ skipped' \in BOOLEAN /\ (skipped => skipped')
      /\ (timedOut => timedOut')
  <2>1. CASE \/ \E s \in Plain : Deliver(s)
             \/ \E s \in Sources : SourceEnds(s) \/ Checkpoint(s)
             \/ \E e \in Editions :
                   Collect(e) \/ InputEnds(e) \/ Normalise(e) \/ PassOn(e) \/ Abandon(e)
    <3>1. UNCHANGED <<cancelled, timedOut, skipped>>
      BY <2>1 DEF Deliver, SourceEnds, Checkpoint, Collect, InputEnds, Normalise, PassOn, Abandon,
                  laterVars, contextVars, loadVars
    <3> QED
      BY <3>1 DEF LoadInv, LoadTypes
  <2>2. CASE \/ \E w \in Writers : Save(w)
             \/ PeriodicFlush \/ Flush \/ StartStoring \/ UNCHANGED vars
    <3>1. UNCHANGED <<cancelled, timedOut, skipped>>
      BY <2>2 DEF Save, PeriodicFlush, Flush, StartStoring, vars, laterVars, contextVars, loadVars
    <3> QED
      BY <3>1 DEF LoadInv, LoadTypes
  <2>3. CASE \/ \E i \in Places :
                   StartUpload(i) \/ StatObject(i) \/ PutObject(i) \/ UploadFails(i)
             \/ StoringEnds \/ Load \/ LoadEnds \/ FlusherEnds \/ Finish
    <3>1. UNCHANGED <<cancelled, timedOut, skipped>>
      BY <2>3 DEF StartUpload, StatObject, PutObject, UploadFails, StoringEnds, Load, LoadEnds,
                  FlusherEnds, Finish, contextVars, loadVars
    <3> QED
      BY <3>1 DEF LoadInv, LoadTypes
  <2>4. CASE Cancel
    <3>1. cancelled' = TRUE /\ UNCHANGED <<timedOut, skipped>>
      BY <2>4 DEF Cancel, loadVars
    <3> QED
      BY <3>1 DEF LoadInv, LoadTypes
  <2>5. CASE WriteTimesOut
    <3>1. timedOut' = TRUE /\ UNCHANGED <<cancelled, skipped>>
      BY <2>5 DEF WriteTimesOut, loadVars
    <3> QED
      BY <3>1 DEF LoadInv, LoadTypes
  <2>6. CASE SkipLoad
    <3>1. skipped' = TRUE /\ UNCHANGED <<cancelled, timedOut>>
      BY <2>6 DEF SkipLoad, contextVars
    <3> QED
      BY <3>1 DEF LoadInv, LoadTypes
  <2> QED
    BY <2>1, <2>2, <2>3, <2>4, <2>5, <2>6 DEF CrawlNext
<1>3. CASE /\ main = "collecting" /\ Len(museums') >= Len(museums)
           /\ UNCHANGED <<main, timedOut, uploads, objects, loadVars>>
  <2>1. Collected'
    BY ArrivalsStep, CrawlStep, MergerStep DEF Collected
  <2>2. Len(museums) \in Nat /\ Len(museums') \in Nat
    BY <2>1 DEF Collected, MergerInv, MergerTypeOK
  <2> QED
    BY <1>1, <1>2, <1>3, <2>2, GrowthLeavesLoad DEF loadVars
<1>4. CASE UNCHANGED museums /\ Load
  BY <1>1, <1>4, LoadKeeps
<1>5. CASE UNCHANGED museums /\ ~Load
  <2>1. UNCHANGED <<next, loaded>>
    <3>1. CASE \/ \E s \in Plain : Deliver(s)
               \/ \E s \in Sources : SourceEnds(s) \/ Checkpoint(s)
               \/ \E e \in Editions :
                     Collect(e) \/ InputEnds(e) \/ Normalise(e) \/ PassOn(e) \/ Abandon(e)
      BY <3>1 DEF Deliver, SourceEnds, Checkpoint, Collect, InputEnds, Normalise, PassOn, Abandon,
                  laterVars, loadVars
    <3>2. CASE \/ \E w \in Writers : Save(w)
               \/ PeriodicFlush \/ Flush \/ StartStoring \/ UNCHANGED vars
      BY <3>2 DEF Save, PeriodicFlush, Flush, StartStoring, vars, laterVars, loadVars
    <3>3. CASE \E i \in Places : StartUpload(i) \/ StatObject(i) \/ PutObject(i) \/ UploadFails(i)
      BY <3>3 DEF StartUpload, StatObject, PutObject, UploadFails, loadVars
    <3>4. CASE \/ StoringEnds \/ LoadEnds \/ FlusherEnds \/ Finish \/ Cancel \/ WriteTimesOut
               \/ SkipLoad
      BY <3>4 DEF StoringEnds, LoadEnds, FlusherEnds, Finish, Cancel, WriteTimesOut, SkipLoad,
                  loadVars
    <3> QED
      BY <1>5, <3>1, <3>2, <3>3, <3>4 DEF CrawlNext
  <2>2. /\ main' \in Before => main \in Before
        /\ main' \in Over => main \in Over \/ next \notin Places \/ skipped'
    <3>1. CASE \/ \E s \in Plain : Deliver(s)
               \/ \E s \in Sources : SourceEnds(s) \/ Checkpoint(s)
               \/ \E e \in Editions :
                     Collect(e) \/ InputEnds(e) \/ Normalise(e) \/ PassOn(e) \/ Abandon(e)
      BY <3>1 DEF Deliver, SourceEnds, Checkpoint, Collect, InputEnds, Normalise, PassOn, Abandon,
                  laterVars
    <3>2. CASE \/ \E w \in Writers : Save(w)
               \/ PeriodicFlush \/ UNCHANGED vars \/ Cancel \/ WriteTimesOut \/ FlusherEnds
      BY <3>2 DEF Save, PeriodicFlush, vars, laterVars, Cancel, WriteTimesOut, FlusherEnds
    <3>3. CASE \E i \in Places : StartUpload(i) \/ StatObject(i) \/ PutObject(i) \/ UploadFails(i)
      BY <3>3 DEF StartUpload, StatObject, PutObject, UploadFails
    <3>4. CASE Flush \/ StartStoring \/ StoringEnds \/ LoadEnds \/ SkipLoad \/ Finish
      BY <3>4 DEF Flush, StartStoring, StoringEnds, LoadEnds, SkipLoad, Finish, Before, Over
    <3> QED
      BY <1>5, <3>1, <3>2, <3>3, <3>4 DEF CrawlNext
  <2> QED
    BY <1>1, <1>2, <1>5, <2>1, <2>2, OthersLeaveLoad
<1> QED
  BY <1>3, <1>4, <1>5, CatalogueStands

LEMMA LoadInvariant == CrawlSpec => [](Collected /\ CheckpointInv /\ StoreInv /\ LoadInv)
<1>1. Collected /\ CheckpointInv /\ StoreInv /\ LoadInv /\ [CrawlNext]_vars => LoadInv'
  BY LoadStep
<1> QED
  BY <1>1, LoadStarts, StoreInvariant, PTL DEF CrawlSpec

\* The types of the whole crawl, from those of its parts.
LEMMA CrawlIsTyped ==
    ASSUME Collected, CheckpointInv, StoreInv, LoadInv
    PROVE  CrawlTypeOK
<1>1. /\ connected \in BOOLEAN /\ cancelled \in BOOLEAN /\ timedOut \in BOOLEAN
      /\ handed \in [Sources -> Seq(Records)] /\ ended \subseteq Sources
      /\ pending \in Seq(Records) /\ Len(pending) < CheckpointBatch
      /\ batch \in [Writers -> Seq(Records)]
      /\ \A w \in Writers : Len(batch[w]) <= CheckpointBatch
      /\ saved \subseteq Records /\ lost \subseteq Records /\ rejected \subseteq Records
      /\ main \in {"collecting", "flushing", "storing", "loading", "closing", "finished"}
      /\ flusher \in BOOLEAN
  BY DEF CheckpointInv, CheckpointTypes, LoadInv, LoadTypes, StoreInv, StoreTypes
<1>2. /\ unread \in [Sources -> SUBSET Records]
      /\ norm \in [Editions -> [pc : {"collecting", "passing", "ended"},
                                held : Seq(Records), over : BOOLEAN]]
  BY DEF Collected, SourcesInv, UnreadInv, NormInv, Normalisers
<1>3. /\ DOMAIN uploads \subseteq Places
      /\ \A i \in DOMAIN uploads :
            uploads[i] \in {"waiting", "checking", "putting", "stored", "skipped", "failed"}
  <2>1. CASE main \in Gathering
    <3>1. uploads = <<>>
      BY <2>1 DEF StoreInv, StoreTypes
    <3>2. DOMAIN uploads = {}
      BY <3>1
    <3> QED
      BY <3>2
  <2>2. CASE main \notin Gathering
    BY <2>2 DEF StoreInv, StoreTypes, Statuses
  <2> QED
    BY <2>1, <2>2
<1>4. /\ rows \in [Ids -> Countries \cup {Unknown, Absent}]
      /\ objects \in [ObjectKeys -> 0 .. Len(museums)]
      /\ next \in Nat /\ loaded \subseteq Places /\ skipped \in BOOLEAN
      /\ faults \in 0 .. MaxFaults
  BY DEF LoadInv, LoadTypes, StoreInv, StoreTypes
<1> QED
  BY <1>1, <1>2, <1>3, <1>4 DEF CrawlTypeOK

\* What a crawl owes at every moment, for any sources, batches and writers, whatever
\* fails and whenever it is cancelled: each merged record is in one place on its way
\* to the database and there once, whoever takes it; none is left behind by a
\* goroutine that is done, and nothing is being written once the pool is closed; what
\* an upload says of the bucket is so.
THEOREM CrawlIsSound == CrawlSpec => []CrawlInv
<1>1. Collected /\ CheckpointInv /\ StoreInv /\ LoadInv => CrawlInv
  BY CrawlIsTyped, NothingIsOwedAtTheEnd
     DEF CrawlInv, Collected, MergerInv, CheckpointInv, StoreInv, LoadInv
<1> QED
  BY <1>1, LoadInvariant, PTL

\* "One failing batch is not a reason to abandon the rest": when a load that found its
\* database is over in time, what it left out is no more than a batch for each failure.
THEOREM FailuresCostNoMore == CrawlSpec => []FailuresCostTheirBatch
<1>1. ASSUME Collected, LoadInv PROVE FailuresCostTheirBatch
  <2> SUFFICES ASSUME main = "finished", ~skipped, ~timedOut
               PROVE  Cardinality(Places \ loaded) <= faults * LoadBatch
    BY DEF FailuresCostTheirBatch
  <2>1. next \notin Places /\ next >= 1 /\ next \in Nat /\ Len(museums) \in Nat
        /\ Cardinality(Missed) <= faults * LoadBatch
    BY <1>1 DEF LoadInv, LoadTypes, MissesArePaidFor, Collected, MergerInv, MergerTypeOK
  <2>2. Missed = Places \ loaded
    BY <2>1 DEF Missed, Places
  <2> QED
    BY <2>1, <2>2
<1> QED
  BY <1>1, LoadInvariant, PTL
=============================================================================
