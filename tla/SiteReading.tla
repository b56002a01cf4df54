---- MODULE SiteReading ----
(***************************************************************************)
(* One museum's site, read again and again (pkg/exhibitions/service.go)    *)
(* and recorded by the sweep (sweep/runner.go, postgres/sweeps.go): the    *)
(* conditional request, the front page, the listing pages, the permanent   *)
(* pages, the museum's own description, and what the database keeps.  The  *)
(* museum edits its pages between any two requests, any request may fail,  *)
(* and the reader's context may end.                                       *)
(***************************************************************************)
EXTENDS PageReading

CONSTANTS
    NoUrl, NoTag,
    Sites,               \* the states a museum's site may be in
    Now,                 \* the day of every read
    ListingPaths,        \* listingPaths
    InfoPaths,           \* infoPaths
    Meant,               \* the runs each exhibition has, by its title
    MaxListingPages, MaxPermanentPages, MaxInfoPages,
    MaxReads, MaxEdits, MaxLost, MaxCancels

ASSUME SiteAssumption ==
    /\ Now \in Nat /\ NoTag \notin Int
    /\ {MaxListingPages, MaxPermanentPages, MaxInfoPages} \subseteq Nat \ {0}
    /\ ListingPaths \in Seq(Range(ListingPaths)) \ {<<>>}
    /\ InfoPaths \in Seq(Range(InfoPaths))
    /\ \A s \in Sites : \A u \in DOMAIN s.pages : u # NoUrl /\ IsPage(s.pages[u])

VARIABLES
    site,       \* [recorded, museum, onShow, pages]
    modified,   \* when each page was last edited: what the host tags it with
    row,        \* the site's listing_url and cache tags in site_scrapes
    held,       \* the live listings stored for the site
    pc, ended,  \* where the reader is, and whether its context has ended
    home,       \* homePage
    todo,       \* the URLs the current loop has still to try
    visited,    \* the pages read as listings
    pages,      \* requests the current loop has made
    found,      \* the entries read so far
    result,     \* [listing, tag, reached, unchanged, failed]
    torn,       \* whether a page of this read was lost, or edited meanwhile
    readAs,     \* the page of row.listing as it was when it was read
    fetches, reads, edits, faults, cancels

reader == <<pc, ended, home, todo, visited, pages, found, result, torn, fetches>>
stored == <<row, held, readAs>>
world  == <<site, modified>>
counts == <<reads, edits, faults, cancels>>
reading == <<reader, stored, world, counts>>

-----------------------------------------------------------------------------
Url(host, path) == [host |-> host, path |-> path, query |-> ""]

Host == site.recorded.host

Conventional(host, paths) == [i \in DOMAIN paths |-> Url(host, paths[i])]

\* The recorded page, then the root of its host.
HomeURLs ==
    IF site.recorded.path = <<>> THEN <<Url(Host, <<>>)>>
    ELSE <<Url(Host, site.recorded.path), Url(Host, <<>>)>>

\* What a front page leads to, and what is known without one.
HomePage(page, url) ==
    [reached |-> TRUE, listings |-> FindListingLinks(page, url),
     permanent |-> FindPermanentLinks(page, url), info |-> FindInfoLinks(page, url)]

NoHome == [reached |-> FALSE, listings |-> <<>>, permanent |-> <<>>, info |-> <<>>]

\* "page" is the listing page as it arrived, which the code does not keep.
NoResult == [listing |-> NoUrl, tag |-> NoTag, page |-> NoUrl, reached |-> FALSE,
             unchanged |-> FALSE, failed |-> FALSE]

Untried(urls, seen) == At(urls, {i \in DOMAIN urls : urls[i] \notin seen})

-----------------------------------------------------------------------------
(* harvest: the entries of a page that was read.                           *)
Entry(c, permanent, undated, url) ==
    [title |-> c.title, url |-> c.url, start |-> c.dates.start, end |-> c.dates.end,
     permanent |-> permanent, source |-> url,
     running |-> permanent \/ undated \/ Runs(c.dates, Now),
     upcoming |-> ~permanent /\ ~undated /\ Upcoming(c.dates, Now)]

\* The candidates of a page with their dates read.
WithDates(candidates) ==
    [i \in DOMAIN candidates |-> [candidates[i] EXCEPT !.dates = DatesFor(candidates[i], Now)]]

IsPermanent(c, pagePermanent) ==
    \/ c.dates.permanent
    \/ IsZero(c.dates) /\ CandidateIsPermanent(c, pagePermanent)

\* Without dates a candidate is kept as permanent, or for the page's sake; one
\* the page alone vouches for needs a run.
Keeps(c, pagePermanent, pageUndated) ==
    /\ IsZero(c.dates) => (IsPermanent(c, pagePermanent) \/ pageUndated)
    /\ c.vouched => IsRun(c.dates) \/ DatedPermanent(c.dates)

EntryFor(c, pagePermanent, pageUndated, url) ==
    LET permanent == IsPermanent(c, pagePermanent)
    IN  Entry(c, permanent, IsZero(c.dates) /\ ~permanent /\ pageUndated, url)

Entries(candidates, pagePermanent, pageUndated, url) ==
    LET kept == At(candidates, {i \in DOMAIN candidates :
                                   Keeps(candidates[i], pagePermanent, pageUndated)})
    IN  [i \in DOMAIN kept |-> EntryFor(kept[i], pagePermanent, pageUndated, url)]

Harvest(page, url, assumePermanent, readAsListing) ==
    LET candidates == WithDates(CandidatesOn(page, url))
        others == {i \in DOMAIN candidates : candidates[i].url \notin readAsListing}
        entries == Entries(At(candidates, others),
                           assumePermanent \/ IsPermanentListing(page, url),
                           UndatedListing(NamesExhibitions(page, url), candidates), url)
    IN  At(entries, {i \in DOMAIN entries : entries[i].running \/ entries[i].upcoming})

\* The museum itself, for a site that lists nothing.
Display(url) ==
    [title |-> site.museum, url |-> url, start |-> NoDate, end |-> NoDate,
     permanent |-> TRUE, source |-> url, running |-> TRUE, upcoming |-> FALSE]

-----------------------------------------------------------------------------
(* dedupe: one entry per title, widened over its other occurrences.        *)
Earlier(a, b) == b # NoDate /\ (a = NoDate \/ b < a)
\* As if an end once known were never moved.
LaterUnset(a, b) == b # NoDate /\ a = NoDate

Later(a, b) == b # NoDate /\ (a = NoDate \/ b > a)

Widen(kept, other) ==
    IF kept.permanent THEN kept
    ELSE [kept EXCEPT !.start = IF Earlier(@, other.start) THEN other.start ELSE @,
                      !.end   = IF Later(@, other.end) THEN other.end ELSE @]

Fold(kept, e) ==
    IF \E i \in DOMAIN kept : kept[i].title = e.title
    THEN [i \in DOMAIN kept |-> IF kept[i].title = e.title THEN Widen(kept[i], e) ELSE kept[i]]
    ELSE Append(kept, e)

Dedupe(entries) ==
    LET kept[n \in 0 .. Len(entries)] ==
            IF n = 0 THEN <<>> ELSE Fold(kept[n - 1], entries[n])
    IN  kept[Len(entries)]

-----------------------------------------------------------------------------
(* A request: the page arrives, or it is not there, or it is lost on the   *)
(* way; nothing is asked once the context has ended.                       *)
Arrives(url) ==
    /\ ~ended
    /\ url \in DOMAIN site.pages
    /\ fetches' = fetches + 1
    /\ UNCHANGED <<torn, faults>>

Fails(url) ==
    \/ /\ ended
       /\ UNCHANGED <<fetches, torn, faults>>
    \/ /\ ~ended
       /\ url \notin DOMAIN site.pages
       /\ fetches' = fetches + 1
       /\ UNCHANGED <<torn, faults>>
    \/ /\ ~ended
       /\ url \in DOMAIN site.pages
       /\ faults < MaxLost
       /\ faults' = faults + 1
       /\ fetches' = fetches + 1
       /\ torn' = TRUE

Tag(url) == IF site.pages[url].tagged THEN modified[url] ELSE NoTag

-----------------------------------------------------------------------------
ReadingInit ==
    /\ site \in Sites
    /\ modified = [u \in DOMAIN site.pages |-> 0]
    /\ row = [listing |-> NoUrl, tag |-> NoTag]
    /\ held = {}
    /\ pc = "idle"
    /\ ended = FALSE
    /\ home = NoHome
    /\ todo = <<>>
    /\ visited = {}
    /\ pages = 0
    /\ found = <<>>
    /\ result = NoResult
    /\ torn = FALSE
    /\ readAs = NoUrl
    /\ fetches = 0
    /\ reads = 0 /\ edits = 0 /\ faults = 0 /\ cancels = 0

\* ForSite: the short path where a page and its tags are known.
Start ==
    /\ pc = "idle"
    /\ reads < MaxReads
    /\ reads' = reads + 1
    /\ pc' = IF row.listing # NoUrl /\ row.tag # NoTag THEN "ask" ELSE "home"
    /\ todo' = HomeURLs
    /\ home' = NoHome
    /\ visited' = {}
    /\ pages' = 0
    /\ found' = <<>>
    /\ result' = NoResult
    /\ torn' = FALSE
    /\ ended' = FALSE
    /\ fetches' = 0
    /\ UNCHANGED <<stored, world, edits, faults, cancels>>

\* The host answers 304 when the page has not been edited since the tag.
AskUnchanged ==
    /\ pc = "ask"
    /\ \/ /\ Arrives(row.listing)
          /\ IF site.pages[row.listing].tagged /\ modified[row.listing] <= row.tag
             THEN /\ result' = [result EXCEPT !.listing = row.listing, !.tag = row.tag,
                                              !.page = site.pages[row.listing],
                                              !.reached = TRUE, !.unchanged = TRUE]
                  /\ pc' = "record"
             ELSE /\ result' = result
                  /\ pc' = "home"
       \/ /\ Fails(row.listing)
          /\ pc' = "home"
          /\ result' = result
    /\ UNCHANGED <<ended, home, todo, visited, pages, found, stored, world, reads, edits, cancels>>

\* As if the pages the code knows of itself were tried first.
ConventionalFirst(front) == Conventional(Host, ListingPaths) \o front.listings

\* The links of the front page come first.
OfferedListings(front) == front.listings \o Conventional(Host, ListingPaths)

\* The loop over the listing pages starts, with what the front page offered.
ListingsOf(front) ==
    /\ home' = front
    /\ result' = [result EXCEPT !.reached = front.reached]
    /\ todo' = OfferedListings(front)
    /\ pc' = "listing"

ReadHome ==
    /\ pc = "home"
    /\ LET url == Head(todo) IN
       \/ /\ Arrives(url)
          /\ ListingsOf(HomePage(site.pages[url], url))
       \/ /\ Fails(url)
          /\ IF Len(todo) > 1
             THEN /\ todo' = Tail(todo)
                  /\ UNCHANGED <<pc, home, result>>
             ELSE ListingsOf(NoHome)
    /\ UNCHANGED <<ended, visited, pages, found, stored, world, reads, edits, cancels>>

\* The page the programme was found on is the one to ask about next time.
ListingFound(r, url) ==
    IF found' = <<>> THEN r ELSE [r EXCEPT !.listing = url, !.tag = Tag(url), !.page = site.pages[url]]

\* As if the tags of the page read last were kept.
PermanentReadTags(r, url) == [r EXCEPT !.tag = Tag(url)]

\* A permanent page adds entries and is not asked about.
PermanentRead(r, url) == r

\* As if a page knew of no listing but itself.
ThisListing(url) == {url}

\* The listings read so far, which are not entries of this page.
ReadAsListings(url) == visited \union {url}

\* Reads the next page not read yet, and adds what it lists.
ReadNext(next, assumePermanent) ==
    LET url == Head(next) IN
    /\ visited' = visited \union {url}
    /\ todo' = Tail(next)
    /\ pages' = pages + 1
    /\ \/ /\ Arrives(url)
          /\ LET entries == Harvest(site.pages[url], url, assumePermanent, ReadAsListings(url)) IN
             /\ found' = found \o entries
             /\ LET reached == [result EXCEPT !.reached = TRUE] IN
                result' = IF assumePermanent THEN PermanentRead(reached, url)
                                             ELSE ListingFound(reached, url)
       \/ /\ Fails(url)
          /\ UNCHANGED <<found, result>>

ReadListing ==
    LET next == Untried(todo, visited) IN
    /\ pc = "listing"
    /\ ~ended
    /\ found = <<>>
    /\ next # <<>>
    /\ Cardinality(visited) < MaxListingPages
    /\ ReadNext(next, FALSE)
    /\ UNCHANGED <<pc, ended, home, stored, world, reads, edits, cancels>>

EndListings ==
    /\ pc = "listing"
    /\ ~ended
    /\ \/ found # <<>>
       \/ Untried(todo, visited) = <<>>
       \/ Cardinality(visited) >= MaxListingPages
    /\ pc' = "permanent"
    /\ todo' = home.permanent
    /\ pages' = 0
    /\ UNCHANGED <<ended, home, visited, found, result, torn, fetches, stored, world, counts>>

ReadPermanent ==
    LET next == Untried(todo, visited) IN
    /\ pc = "permanent"
    /\ ~ended
    /\ next # <<>>
    /\ pages < MaxPermanentPages
    /\ ReadNext(next, TRUE)
    /\ UNCHANGED <<pc, ended, home, stored, world, reads, edits, cancels>>

EndPermanent ==
    /\ pc = "permanent"
    /\ ~ended
    /\ Untried(todo, visited) = <<>> \/ pages >= MaxPermanentPages
    /\ pc' = IF found = <<>> THEN "info" ELSE "record"
    /\ todo' = home.permanent \o home.info \o Conventional(Host, InfoPaths)
    /\ pages' = 0
    /\ UNCHANGED <<ended, home, visited, found, result, torn, fetches, stored, world, counts>>

\* permanentDisplay: the first page that describes something on show.
ReadInfo ==
    /\ pc = "info"
    /\ ~ended
    /\ todo # <<>>
    /\ pages < MaxInfoPages
    /\ LET url == Head(todo) IN
       /\ pages' = pages + 1
       /\ todo' = Untried(todo, {url})
       /\ \/ /\ Arrives(url)
             /\ IF "display" \in site.pages[url].heading
                THEN /\ found' = <<Display(url)>>
                     /\ result' = [result EXCEPT !.reached = TRUE, !.listing = url,
                                               !.page = site.pages[url]]
                     /\ pc' = "record"
                ELSE UNCHANGED <<found, result, pc>>
          \/ /\ Fails(url)
             /\ UNCHANGED <<found, result, pc>>
    /\ UNCHANGED <<ended, home, visited, stored, world, reads, edits, cancels>>

EndInfo ==
    /\ pc = "info"
    /\ ended \/ todo = <<>> \/ pages >= MaxInfoPages
    /\ pc' = "record"
    /\ UNCHANGED <<ended, home, todo, visited, pages, found, result, torn, fetches,
                   stored, world, counts>>

\* A loop over listings that finds the context ended reports its error.
GiveUp ==
    /\ pc \in {"listing", "permanent"}
    /\ ended
    /\ result' = [result EXCEPT !.failed = TRUE]
    /\ pc' = "record"
    /\ UNCHANGED <<ended, home, todo, visited, pages, found, torn, fetches, stored, world, counts>>

-----------------------------------------------------------------------------
\* RecordScrape: each column keeps what it has unless the read says otherwise.
Coalesced(old) ==
    [listing |-> IF result.listing = NoUrl THEN old.listing ELSE result.listing,
     tag     |-> IF result.tag = NoTag THEN old.tag ELSE result.tag]

\* SaveExhibitions, then RetireUnseen: what a read that found something did
\* not see is live no longer.
Kept(entries) ==
    IF entries = <<>> THEN held
    ELSE {[title |-> entries[i].title, url |-> entries[i].url, source |-> entries[i].source] :
             i \in DOMAIN entries}

Succeeded == ~ended /\ ~result.failed /\ result.reached

Record ==
    /\ pc = "record"
    /\ pc' = "idle"
    /\ IF Succeeded /\ ~result.unchanged
       THEN /\ row' = Coalesced(row)
            /\ held' = Kept(Dedupe(found))
            /\ readAs' = IF result.listing = NoUrl THEN readAs ELSE result.page
       ELSE UNCHANGED stored
    /\ UNCHANGED <<ended, home, todo, visited, pages, found, result, torn, fetches,
                   world, counts>>

-----------------------------------------------------------------------------
Edit ==
    /\ edits < MaxEdits
    /\ edits' = edits + 1
    /\ \E s \in Sites \ {site} :
         /\ s.recorded = site.recorded
         /\ site' = s
         /\ modified' = [u \in DOMAIN s.pages |->
                IF u \in DOMAIN site.pages /\ s.pages[u] = site.pages[u]
                THEN modified[u] ELSE edits + 1]
    /\ torn' = (pc # "idle" \/ torn)
    /\ UNCHANGED <<pc, ended, home, todo, visited, pages, found, result, fetches,
                   stored, reads, faults, cancels>>

Cancel ==
    /\ pc # "idle"
    /\ ~ended
    /\ cancels < MaxCancels
    /\ cancels' = cancels + 1
    /\ ended' = TRUE
    /\ UNCHANGED <<pc, home, todo, visited, pages, found, result, torn, fetches, stored,
                   world, reads, edits, faults>>

Read ==
    \/ Start \/ AskUnchanged \/ ReadHome
    \/ ReadListing \/ EndListings \/ ReadPermanent \/ EndPermanent
    \/ ReadInfo \/ EndInfo \/ GiveUp \/ Record

ReadingNext == Read \/ Edit \/ Cancel

ReadingSpec == ReadingInit /\ [][ReadingNext]_reading

-----------------------------------------------------------------------------
Titles(entries) == {entries[i].title : i \in DOMAIN entries}

ReadingTypeOK ==
    /\ site \in Sites
    /\ pc \in {"idle", "ask", "home", "listing", "permanent", "info", "record"}
    /\ row.listing = NoUrl => row.tag = NoTag
    /\ row.tag # NoTag => row.tag \in 0 .. edits
    /\ DOMAIN modified = DOMAIN site.pages
    /\ \A u \in visited : u.host = Host
    /\ \A h \in held : h.url.host = Host

\* The bounds an entry has are the run's; it is permanent if the run is.
SaysOf(e, run) ==
    /\ e.start # NoDate => e.start = run.start
    /\ e.end # NoDate => e.end = run.end
    /\ e.permanent <=> run.permanent

(* Whatever form a listing writes a run in -- both years, one year shared, *)
(* a closing date alone, stamps, a declared event -- the bounds an entry   *)
(* has are the ones that were meant (dates.go, datesFor).                  *)
ReadsWhatWasMeant ==
    \A i \in DOMAIN found : found[i].title \in DOMAIN Meant =>
        \E meant \in Meant[found[i].title] : SaysOf(found[i], meant)

(* Only exhibitions are shown: no paging link, index, archive, ticket      *)
(* office or event comes out of any page, whichever pages are lost         *)
(* (extract.go, harvest).                                                  *)
ShowsNothingElse ==
    \A i \in DOMAIN found : found[i].title \in DOMAIN Meant \union {site.museum}

(* A read asks for no more pages than its loops have a budget for, besides *)
(* the conditional request and the front page, whatever links the pages    *)
(* have and however they change on the way (maxListingPages and the others). *)
ReadsWithinBudget ==
    fetches <= 1 + Len(HomeURLs) + MaxListingPages + MaxPermanentPages + MaxInfoPages

(* What a read may hand on, however many of its pages were lost.            *)
ReadingInv == ReadingTypeOK /\ ReadsWhatWasMeant /\ ShowsNothingElse /\ ReadsWithinBudget

(* A read that saw the whole of one edition of the site found exactly what *)
(* the museum has on or coming, within its budget of pages.                *)
FindsWhatIsOn ==
    pc = "record" /\ ~torn /\ ~ended /\ ~result.unchanged =>
        Titles(found) = site.onShow

(* "Unchanged" is the word of the page the stored listings came from: it   *)
(* still says what it said when it was read (service.go ForSite).          *)
UnchangedIsCurrent ==
    pc = "record" /\ result.unchanged => result.page = readAs

(* The one entry kept of a recurring event reaches from the first opening  *)
(* to the last closing that its occurrences state (dedupe, widen).  An     *)
(* occurrence that states no closing, and so is open, is not covered where *)
(* another one is over: widen takes a missing bound for no information and *)
(* keeps the other's (service.go:480).                                     *)
EveryOccurrenceIsCovered ==
    pc = "record" => \A i \in DOMAIN found : \E e \in {Dedupe(found)[k] : k \in DOMAIN Dedupe(found)} :
        /\ e.title = found[i].title
        /\ \/ e.permanent
           \/ /\ found[i].start # NoDate => e.start <= found[i].start
              /\ found[i].end # NoDate => e.end >= found[i].end

(* "a site answering half a page or blocking us for an afternoon would     *)
(* otherwise erase a museum's whole programme" (README.md:250): what stops *)
(* being listed is what the museum has on no more.  The code does not keep *)
(* this promise: see the findings in README.md.                            *)
OutageErasesNothing ==
    [][\A h \in held \ held' : h.title \in site.onShow =>
          \E k \in held' : k.title = h.title]_held
====
