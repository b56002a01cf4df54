---- MODULE ListingForms ----
(***************************************************************************)
(* What museums write, in the forms the reader knows (the comments and the *)
(* cases of pkg/exhibitions/dates_test.go), and what their sites show: when *)
(* a text states a run, when the pages of a site say what is meant by them *)
(* (SitesTell), and when what a reader comes by is what the museum has on  *)
(* (SitesShow).  The theorems about reading assume the one or the other of *)
(* the sites; the instance that is checked satisfies both.                 *)
(***************************************************************************)
EXTENDS SiteReading

-----------------------------------------------------------------------------
(* Dates in a text, whatever is written around them.                       *)
Dates(text) == {i \in DOMAIN text : text[i].form \in Dated \union {"yearless"}}

DayOf(token, year) == year * YearLength + token.day

\* A date that says its year, and one that leaves it to be known.
SaysDay(token, day) ==
    /\ token.form \in Dated
    /\ Plausible(token.year, token.day)
    /\ day = DayOf(token, token.year)

LeavesYear(token, year, day) ==
    /\ token.form = "yearless"
    /\ Plausible(year, token.day)
    /\ day = DayOf(token, year)

\* "12 March 2026 - 7 September 2026", and with one of the years left out.
WritesRun(text, run) ==
    \E i, j \in DOMAIN text :
        /\ i < j /\ Dates(text) = {i, j}
        /\ \/ SaysDay(text[i], run.start) /\ SaysDay(text[j], run.end)
           \/ LeavesYear(text[i], text[j].year, run.start) /\ SaysDay(text[j], run.end)
           \/ SaysDay(text[i], run.start) /\ LeavesYear(text[j], text[i].year, run.end)
        /\ run.start <= run.end

\* "Until 3 Jan 2027", "From 5 March", "9 May 2026".
WritesOneDate(text, run, now) ==
    \E i \in DOMAIN text, day \in {run.start, run.end} :
        /\ Dates(text) = {i}
        /\ SaysDay(text[i], day) \/ LeavesYear(text[i], now \div YearLength, day)
        /\ "until" \in Lead(text, i) => run.end = day
        /\ "until" \notin Lead(text, i) => run.start = day
        /\ Lead(text, i) \intersect {"until", "from"} = {} => run.end = day

\* "Ongoing", "Permanent exhibition, opens May 23 2026".
WritesOngoing(text, run) ==
    /\ Says(text, "ongoing")
    /\ run.permanent
    /\ Dates(text) # {} =>
          \E i \in Dates(text) : SaysDay(text[i], run.start) /\ \A j \in Dates(text) : i <= j

Writes(text, run, now) ==
    \/ WritesOngoing(text, run)
    \/ /\ ~Says(text, "ongoing")
       /\ \/ Dates(text) = {}
          \/ ~run.permanent /\ (WritesRun(text, run) \/ WritesOneDate(text, run, now))

-----------------------------------------------------------------------------
(* Pages and sites.                                                        *)

\* The bounds that were read are the run's.
Agrees(range, run) ==
    /\ range.start \in {NoDate, run.start}
    /\ range.end \in {NoDate, run.end}
    /\ range.permanent => run.permanent
    /\ run.permanent => range.permanent \/ IsZero(range)

\* A closing date that is meant literally.
InSight(run) ==
    ~run.permanent /\ run.end # NoDate => run.end - Now <= FarFutureYears * YearLength

\* A card or a declared event states the run; one that gives no date is
\* permanent, by its words or its page, just when it is meant to be.
Tells(c, run, listingIsPermanent) ==
    /\ IF Known(c.dates) THEN Agrees(ResolveOpenEnd(c.dates, Now), run)
                         ELSE Writes(c.context, run, Now) /\ InSight(run)
    /\ ~Known(DatesFor(c, Now)) =>
          (run.permanent <=> CandidateIsPermanent(c, listingIsPermanent))

\* A page, read after the one that is read first.
PageTells(page, url, assumePermanent, first) ==
    /\ \A e \in Range(Harvest(page, url, assumePermanent, {first, url})) : e.title \in DOMAIN Meant
    /\ \A c \in Range(CandidatesOn(page, url)) : c.title \in DOMAIN Meant =>
          \E run \in Meant[c.title] :
              Tells(c, run, assumePermanent \/ IsPermanentListing(page, url))

\* The editions of one site, and what their front pages may have led to.
Editions(s) == {t \in Sites : t.recorded = s.recorded}

FrontPages(s) == {Url(s.recorded.host, s.recorded.path), Url(s.recorded.host, <<>>)}

Homes(s) ==
    {NoHome} \union UNION {{HomePage(t.pages[u], u) : u \in FrontPages(s) \intersect DOMAIN t.pages} :
                           t \in Editions(s)}

FirstListing(s, front) ==
    Head(front.listings \o Conventional(s.recorded.host, ListingPaths))

\* Each page, read by itself, says what is meant, whatever a front page of
\* another edition made of it; and a museum keeps its name.
SitesTell ==
    \A s \in Sites :
        /\ \A t \in Editions(s) : t.museum = s.museum
        /\ s.museum \notin DOMAIN Meant
        /\ \A u \in DOMAIN s.pages, front \in Homes(s) :
              LET first == FirstListing(s, front) IN
              /\ PageTells(s.pages[u], u, FALSE, first)
              /\ u \in Range(front.permanent) => PageTells(s.pages[u], u, TRUE, first)

-----------------------------------------------------------------------------
(* What a site shows to a read that nothing disturbs (ForSite).            *)

\* The pages that are offered before a page is.
Ahead(urls, u) == {urls[j] : j \in {k \in DOMAIN urls : \A i \in 1 .. k : urls[i] # u}}

\* What comes of a page: nothing, of one that is not there.
EntriesOf(s, u, assumePermanent, readAsListing) ==
    IF u \in DOMAIN s.pages
    THEN Range(Harvest(s.pages[u], u, assumePermanent, readAsListing)) ELSE {}

\* The front page is the recorded one, or else the root of its host.
FrontOf(s) ==
    LET own  == Url(s.recorded.host, s.recorded.path)
        root == Url(s.recorded.host, <<>>)
    IN  IF own \in DOMAIN s.pages THEN HomePage(s.pages[own], own)
        ELSE IF root \in DOMAIN s.pages THEN HomePage(s.pages[root], root) ELSE NoHome

ListingsOffered(s) == FrontOf(s).listings \o Conventional(s.recorded.host, ListingPaths)

ListedOn(s, u) == EntriesOf(s, u, FALSE, Ahead(ListingsOffered(s), u) \union {u})

\* The listings that are read: the first few, up to the first that lists anything.
ListingPages(s) ==
    {u \in Range(ListingsOffered(s)) :
        /\ Cardinality(Ahead(ListingsOffered(s), u)) < MaxListingPages
        /\ \A v \in Ahead(ListingsOffered(s), u) : ListedOn(s, v) = {}}

PermanentOn(s, u) ==
    EntriesOf(s, u, TRUE, ListingPages(s) \union Ahead(FrontOf(s).permanent, u) \union {u})

\* The first few permanent pages that were not among them.
PermanentPages(s) ==
    {u \in Range(FrontOf(s).permanent) \ ListingPages(s) :
        Cardinality(Ahead(FrontOf(s).permanent, u) \ ListingPages(s)) < MaxPermanentPages}

Programme(s) ==
    (UNION {ListedOn(s, u) : u \in ListingPages(s)})
    \union (UNION {PermanentOn(s, u) : u \in PermanentPages(s)})

\* The first few pages that may say what the museum is.
InfoOffered(s) ==
    FrontOf(s).permanent \o FrontOf(s).info \o Conventional(s.recorded.host, InfoPaths)

Displays(s) ==
    {u \in Range(InfoOffered(s)) \intersect DOMAIN s.pages :
        /\ Cardinality(Ahead(InfoOffered(s), u)) < MaxInfoPages
        /\ "display" \in s.pages[u].heading}

ShownBy(s) ==
    IF Programme(s) # {} THEN {e.title : e \in Programme(s)} ELSE {s.museum : u \in Displays(s)}

\* It is what the museum has on or coming.
SitesShow == \A s \in Sites : ShownBy(s) = s.onShow
====
