-------------------------- MODULE ExhibitionTable --------------------------
(***************************************************************************)
(* The exhibitions table as the sweep writes it: the statements of         *)
(* internal/postgres that store, touch and retire what a site lists.       *)
(*                                                                         *)
(* The table is a function from listing URLs to rows.  Of a row it keeps   *)
(* what the sweep reads back: whether the listing is held, and live or     *)
(* retired (retired_at), whose site it is filed under, when it was last    *)
(* seen and when it closes (None: permanent or undated).                   *)
(***************************************************************************)
EXTENDS Integers

CONSTANTS URLs, Sites, None

\* One listing as a page publishes it and as a read returns it.
Entry == [url : URLs, closes : Int \cup {None}]

Listing == [status : {"absent", "live", "retired"}, site : Sites \cup {None},
            seen : Int, closes : Int \cup {None}]

Unlisted == [status |-> "absent", site |-> None, seen |-> 0, closes |-> None]

UrlsOf(entries) == {e.url : e \in entries}

Live(table, site) == {u \in URLs : table[u].status = "live" /\ table[u].site = site}

Greatest(a, b) == IF a > b THEN a ELSE b

ClosesOf(entries, u) == (CHOOSE e \in entries : e.url = u).closes

\* Mutant: last_seen_at is overwritten, not maximised.
UpsertOverwritesSeen(table, site, entries, scraped) ==
    [u \in URLs |->
        IF u \in UrlsOf(entries)
        THEN [status |-> "live", site |-> site, seen |-> scraped,
              closes |-> ClosesOf(entries, u)]
        ELSE table[u]]

\* SaveExhibitions: seeing a listing again undoes its retirement.
Upsert(table, site, entries, scraped) ==
    [u \in URLs |->
        IF u \in UrlsOf(entries)
        THEN [status |-> "live",
              site   |-> site,
              seen   |-> Greatest(table[u].seen, scraped),
              closes |-> ClosesOf(entries, u)]
        ELSE table[u]]

\* TouchSite: the live listings are still current.
Touch(table, site, now) ==
    [u \in URLs |->
        IF u \in Live(table, site) THEN [table[u] EXCEPT !.seen = now] ELSE table[u]]

\* Mutant: listings seen by this very read are retired too.
RetireSeenAtStart(table, site, seenFrom) ==
    [u \in URLs |->
        IF u \in Live(table, site) /\ table[u].seen <= seenFrom
        THEN [table[u] EXCEPT !.status = "retired"] ELSE table[u]]

\* RetireUnseen: what the read that began at seenFrom did not see.
Retire(table, site, seenFrom) ==
    [u \in URLs |->
        IF u \in Live(table, site) /\ table[u].seen < seenFrom
        THEN [table[u] EXCEPT !.status = "retired"] ELSE table[u]]

\* SoonestClose: the earliest closing date held for the site, past or not.
SoonestClose(table, site) ==
    LET dates    == {table[u].closes : u \in Live(table, site)} \ {None}
        earliest == {d \in dates : \A other \in dates : d <= other}
    IN  IF earliest = {} THEN None ELSE CHOOSE d \in earliest : TRUE
=============================================================================
