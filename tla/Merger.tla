------------------------------- MODULE Merger -------------------------------
(***************************************************************************)
(* internal/collect/merge.go: records of museums arrive from several       *)
(* catalogues, in any order, and those that describe one museum are folded *)
(* into one entry.  Add runs under one lock, so a step is an Add.          *)
(*                                                                         *)
(* A name stands for what normalizeForMatch makes of it, so two spellings  *)
(* it does not tell apart are one name; likewise a country.                *)
(***************************************************************************)
EXTENDS Integers, Sequences, FiniteSets

CONSTANTS
    Ids, NoId,            \* Wikidata ids, and the absence of one
    Names,
    Countries, Unknown,   \* countries, and the placeholder
    Records               \* what the sources may return

ASSUME MergerAssumption ==
    /\ NoId \notin Ids /\ Unknown \notin Countries
    /\ Records \subseteq [id : Ids \cup {NoId},
                          names : Seq(Names) \ {<<>>},
                          country : Countries \cup {Unknown},
                          stated : BOOLEAN]

VARIABLES
    museums,     \* the entries, in the order they were first seen
    byWikidata,  \* byWikidata[q]: the entry with that id, or 0
    byName,      \* byName[k]: the first entry that answered to that key, or 0
    ambiguous,   \* the keys more than one entry answers to
    folded       \* folded[i]: the records that went into entry i (history)

mergerVars == <<museums, byWikidata, byName, ambiguous, folded>>

Keys == Names \X Countries

Entries == [id : Ids \cup {NoId}, name : Names, names : SUBSET Names,
            country : Countries \cup {Unknown}]

NamesOf(r) == {r.names[i] : i \in 1 .. Len(r.names)}

\* A bare name is no evidence: without a country there are no keys.
KeysOf(names, country) == IF country = Unknown THEN {} ELSE names \X {country}

EntryKeys(e) == KeysOf(e.names, e.country)

RecordKeys(r) == KeysOf(NamesOf(r), r.country)

(***************************************************************************)
(* lookup.                                                                 *)
(***************************************************************************)

\* Mutant: a name is evidence even against the ids.
AgreeAlways(p, q) == TRUE

\* An explicit disagreement of ids is stronger than a name.
Agree(p, q) == p = NoId \/ q = NoId \/ p = q

Answers(key, r) ==
    /\ key \in RecordKeys(r)
    /\ key \notin ambiguous
    /\ byName[key] # 0
    /\ Agree(museums[byName[key]].id, r.id)

NamePlaces(r) == {i \in 1 .. Len(r.names) : Answers(<<r.names[i], r.country>>, r)}

First(S) == CHOOSE i \in S : \A j \in S : i <= j

ByName(r) ==
    IF NamePlaces(r) = {} THEN 0 ELSE byName[<<r.names[First(NamePlaces(r))], r.country>>]

\* Mutant: only the names are consulted.
LookupByName(r) == ByName(r)

\* The entry the record belongs to, or 0: by its id, else by the first of its
\* names that identifies an entry.
Lookup(r) ==
    IF r.id # NoId /\ byWikidata[r.id] # 0 THEN byWikidata[r.id] ELSE ByName(r)

(***************************************************************************)
(* mergeInto and index.                                                    *)
(***************************************************************************)

NewEntry(r) == [id |-> r.id, name |-> r.names[1], names |-> NamesOf(r), country |-> r.country]

\* One that Wikidata states wins over one that was inferred.
MergedCountry(e, r) ==
    IF r.country # Unknown /\ (e.country = Unknown \/ r.stated) THEN r.country ELSE e.country

Merged(e, r) ==
    [e EXCEPT !.id = IF e.id = NoId THEN r.id ELSE e.id,
              !.names = e.names \cup NamesOf(r),
              !.country = MergedCountry(e, r)]

IndexedKeys(e, r) == RecordKeys(r) \cup EntryKeys(e)

\* Entry i has become e after record r: the first claimant of a key keeps it, a
\* second one makes it ambiguous.
Index(i, e, r) ==
    LET keys == IndexedKeys(e, r) IN
    /\ byWikidata' = IF e.id = NoId THEN byWikidata ELSE [byWikidata EXCEPT ![e.id] = i]
    /\ byName' = [k \in Keys |-> IF k \in keys /\ byName[k] = 0 THEN i ELSE byName[k]]
    /\ ambiguous' = ambiguous \cup {k \in keys : byName[k] \notin {0, i}}

NewPlace == Len(museums) + 1

AddNew(r) ==
    /\ Lookup(r) = 0
    /\ museums' = Append(museums, NewEntry(r))
    /\ Index(NewPlace, NewEntry(r), r)
    /\ folded' = Append(folded, {r})

AddMerged(r) ==
    LET i == Lookup(r)
        e == Merged(museums[i], r)
    IN /\ i # 0
       /\ museums' = [museums EXCEPT ![i] = e]
       /\ Index(i, e, r)
       /\ folded' = [folded EXCEPT ![i] = @ \cup {r}]

Add(r) == AddNew(r) \/ AddMerged(r)

MergerInit ==
    /\ museums = <<>>
    /\ byWikidata = [q \in Ids |-> 0]
    /\ byName = [k \in Keys |-> 0]
    /\ ambiguous = {}
    /\ folded = <<>>

MergerNext == \E r \in Records : Add(r)

MergerSpec == MergerInit /\ [][MergerNext]_mergerVars

(***************************************************************************)
(* Properties.                                                             *)
(***************************************************************************)

Places == 1 .. Len(museums)

\* Type correctness of the entries and of the three indexes.
MergerTypeOK ==
    /\ museums \in Seq(Entries)
    /\ byWikidata \in [Ids -> 0 .. Len(museums)]
    /\ byName \in [Keys -> 0 .. Len(museums)]
    /\ ambiguous \subseteq Keys
    /\ folded \in Seq(SUBSET Records) /\ Len(folded) = Len(museums)

\* No two entries carry one Wikidata id, and the index finds the one that does:
\* "an exact, authoritative identity".
OneEntryPerId == \A i \in Places, q \in Ids : museums[i].id = q <=> byWikidata[q] = i

\* "Never merge two records that carry different Wikidata ids": everything that
\* went into an entry, by whatever chain of names, has its id or none.
IdsAreNotMixed ==
    \A i \in Places : \A r \in folded[i] : r.id = NoId \/ r.id = museums[i].id

\* "A name more than one museum answers to identifies none of them": a key that
\* two entries have is ambiguous, however each of them came by it.
SharedNamesAreAmbiguous ==
    \A i, j \in Places :
        i # j => EntryKeys(museums[i]) \cap EntryKeys(museums[j]) \subseteq ambiguous

\* "Wikidata states the country outright, so it wins outright", in any order of
\* arrival.
StatedCountryWins ==
    \A i \in Places :
        LET statements == {r \in folded[i] : r.stated /\ r.country # Unknown} IN
        statements # {} => \E r \in statements : museums[i].country = r.country

\* The identities of a catalogue being merged: an id names one entry and is not
\* mixed with another, a shared name identifies nobody, a country that was stated
\* wins, in whatever order the sources answer (merge.go: "Never merge two records
\* that carry different Wikidata ids", "A name more than one museum answers to
\* identifies none of them").
IdentitiesHold ==
    /\ OneEntryPerId
    /\ IdsAreNotMixed
    /\ SharedNamesAreAmbiguous
    /\ StatedCountryWins
=============================================================================
