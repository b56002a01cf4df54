---- MODULE PageReading ----
(***************************************************************************)
(* Reading one page of a museum's site (pkg/exhibitions/extract.go,        *)
(* permanent.go, jsonld.go): which links lead to the programme, to         *)
(* permanent displays or to the museum's description of itself, and which  *)
(* links and declared events are exhibitions.                              *)
(*                                                                         *)
(* A URL is a host, a sequence of path segments and a query.  The word     *)
(* lists of the code are sets: of the path segments that hold one of their *)
(* words, and of the kinds of words a link's text or a heading holds.      *)
(***************************************************************************)
EXTENDS ListingDates, SequencesExt

CONSTANTS
    NoTitle,            \* text that names nothing
    SlugTitle,          \* the name each path segment spells, or NoTitle
    StrongSegments,     \* strongPathHints
    WeakSegments,       \* weakPathHints
    ViewSegments,       \* viewSegments
    ContainerSegments,  \* containerSegments
    Numerals,           \* digits only
    PermanentSegments,  \* permanentPathHints, which a page's path is tested for
    PermanentNames,     \* permanentWords, which a link's address is tested for
    PastSegments,       \* pastListingWords
    CurrentSegments,    \* currentListingWords
    InfoSegments        \* infoPathHints

-----------------------------------------------------------------------------
(* A link: what its text says, the title it gives (NoTitle for a picture), *)
(* the text of its card and the datetime stamps in it.                     *)
LinkWords == {"listing", "current", "past", "permanent", "closed", "info",
              "skip", "event", "button", "long", "short"}

(* A page: the words of its headings, its links and its declared events.   *)
HeadingWords == {"exhibition", "permanent", "closed", "display"}

\* What is asked of a page's content: texts are tokens, bounds are days.
IsPage(page) ==
    /\ page.links \in Seq(Range(page.links))
    /\ \A i \in DOMAIN page.links : /\ page.links[i].context \in Seq(Token)
                                   /\ page.links[i].stamps \in Seq(Int)
    /\ page.declared \in Seq(Range(page.declared))
    /\ \A i \in DOMAIN page.declared : /\ page.declared[i].start \in Int \union {NoDate}
                                      /\ page.declared[i].end \in Int \union {NoDate}

\* The members of a sequence at the given places, in their order.
At(s, places) ==
    [k \in 1 .. Cardinality(places) |->
        s[CHOOSE i \in places : Cardinality({j \in places : j <= i}) = k]]

Depth(path) == Len(path) - 1

\* strings.HasPrefix(linkPath, basePath+"/")
Under(path, base) == Len(path) > Len(base) /\ IsPrefix(base, path)

HasAny(path, segments) == \E i \in DOMAIN path : path[i] \in segments

NamesPermanent(words) == "permanent" \in words /\ "closed" \notin words

-----------------------------------------------------------------------------
(* A path of container, view and number segments alone is a listing; one   *)
(* that adds a name is an entry.                                           *)
NamesNothing(path) ==
    \A i \in DOMAIN path : path[i] \in ViewSegments \union ContainerSegments \union Numerals

IsNavigationLink(url, base) ==
    /\ url.host = base.host
    /\ \/ url.path = base.path
       \/ /\ base.path = <<>> \/ Under(url.path, base.path)
          /\ NamesNothing(SubSeq(url.path, Len(base.path) + 1, Len(url.path)))

\* namesExhibitions: by the last segment of the path or the heading.
NamesExhibitions(page, base) ==
    \/ base.path # <<>> /\ Last(base.path) \in StrongSegments
    \/ page.heading \intersect {"exhibition", "permanent"} # {}

IsPermanentListing(page, base) ==
    HasAny(base.path, PermanentSegments) \/ NamesPermanent(page.heading)

-----------------------------------------------------------------------------
\* pathSections, and the slug itself where there is no directory above it.
Filing(path) == IF Len(path) < 2 THEN path ELSE Front(path)

IsStrong(path) == HasAny(Filing(path), StrongSegments)

PathNamed(path) == IsStrong(path) \/ HasAny(Filing(path), WeakSegments)

\* The path says what the entry is, or the page it is on is believed; a flat
\* path has only its own strong word.
Filed(path, trustPage) ==
    IF Len(path) < 2 THEN path # <<>> /\ IsStrong(path)
                     ELSE PathNamed(path) \/ trustPage

Repeated(page) ==
    {page.links[i].title : i \in {j \in DOMAIN page.links :
        \E k \in DOMAIN page.links : k # j /\ page.links[k].title = page.links[j].title}}

\* The link's own text, or what the slug spells where that is a button.
TitleOf(link, page) ==
    IF link.title = NoTitle \/ "button" \in link.words \/ link.title \in Repeated(page)
    THEN SlugTitle[Last(link.to.path)]
    ELSE link.title

IsCandidate(link, page, base) ==
    /\ link.to.host = base.host
    /\ Filed(link.to.path, NamesExhibitions(page, base))
    /\ link.words \intersect {"short", "event", "skip"} = {}
    /\ TitleOf(link, page) \notin {NoTitle} \union Numerals

CandidateFrom(link, page) ==
    [title |-> TitleOf(link, page), url |-> link.to, context |-> link.context,
     dates |-> StampedRange(link.stamps), lasting |-> NamesPermanent(link.words),
     vouched |-> ~PathNamed(link.to.path)]

\* Only the first record of each URL is kept.
FirstPerUrl(candidates) ==
    At(candidates, {i \in DOMAIN candidates :
                       \A j \in 1 .. i - 1 : candidates[j].url # candidates[i].url})

ExtractCandidates(page, base) ==
    LET links  == At(page.links, {i \in DOMAIN page.links :
                                     /\ IsCandidate(page.links[i], page, base)
                                     /\ ~IsNavigationLink(page.links[i].to, base)})
        all    == FirstPerUrl([i \in DOMAIN links |-> CandidateFrom(links[i], page)])
        strong == {i \in DOMAIN all : IsStrong(all[i].url.path)}
    IN  IF strong # {} THEN At(all, strong) ELSE all

-----------------------------------------------------------------------------
(* Declared events: the type ("exhibition" is trusted, "event" needs its   *)
(* URL to agree), the dates as stated, and what the description says.      *)
IsDeclared(event, base) ==
    /\ event.type \in {"exhibition", "event"}
    /\ event.words \intersect {"short", "event"} = {}
    /\ event.to.host = base.host
    /\ \/ event.type = "exhibition"
       \/ HasAny(event.to.path, StrongSegments \union WeakSegments)

DeclaredRange(event) ==
    [start |-> event.start, end |-> event.end,
     permanent |-> /\ event.start = NoDate /\ event.end = NoDate
                   /\ NamesPermanent(event.words)]

CandidateFromJSONLD(event) ==
    [title |-> event.title, url |-> event.to, context |-> <<>>,
     dates |-> DeclaredRange(event), lasting |-> FALSE, vouched |-> FALSE]

ExtractJSONLDCandidates(page, base) ==
    LET events == At(page.declared, {i \in DOMAIN page.declared :
                                        IsDeclared(page.declared[i], base)})
    IN  FirstPerUrl([i \in DOMAIN events |-> CandidateFromJSONLD(events[i])])

\* What is declared comes first and wins ties.
CandidatesOn(page, base) ==
    FirstPerUrl(ExtractJSONLDCandidates(page, base) \o ExtractCandidates(page, base))

-----------------------------------------------------------------------------
DatesFor(c, now) ==
    ResolveOpenEnd(IF Known(c.dates) THEN c.dates ELSE ParseDateRange(c.context, now), now)

CandidateIsPermanent(c, listingIsPermanent) ==
    \/ listingIsPermanent
    \/ c.lasting
    \/ Says(c.context, "lasting") /\ ~Says(c.context, "shut")
    \/ HasAny(c.url.path, PermanentSegments)

\* Of candidates whose dates have been read.
UndatedListing(strongPage, dated) ==
    strongPage /\ dated # <<>> /\ \A i \in DOMAIN dated : ~Known(dated[i].dates)

IsRun(r) == r.start # NoDate /\ r.end # NoDate /\ r.end > r.start

DatedPermanent(r) == r.permanent /\ r.start # NoDate

-----------------------------------------------------------------------------
\* Links in order of their score, the higher first; ties keep the page's order.
BestFirst(scored) ==
    LET before(i, j) == \/ scored[i].score > scored[j].score
                        \/ scored[i].score = scored[j].score /\ i <= j
    IN  [k \in DOMAIN scored |->
            scored[CHOOSE i \in DOMAIN scored :
                     Cardinality({j \in DOMAIN scored : before(j, i)}) = k].url]

Points(condition, points) == IF condition THEN points ELSE 0

ListingScore(link) ==
    LET path  == link.to.path
        named == Points("listing" \in link.words, 2)
                 + Points("current" \in link.words \/ HasAny(path, CurrentSegments), 2)
                 + Points(HasAny(path, StrongSegments \union WeakSegments), 1)
    IN  IF named = 0 THEN 0 ELSE named + Points(Depth(path) <= 1, 1)

FindListingLinks(page, base) ==
    LET leads(link) == /\ link.to.host = base.host
                       /\ "past" \notin link.words
                       /\ ~HasAny(link.to.path, PastSegments)
                       /\ ListingScore(link) > 0
        links == At(page.links, {i \in DOMAIN page.links : leads(page.links[i])})
    IN  BestFirst(FirstPerUrl([i \in DOMAIN links |->
            [url |-> links[i].to, score |-> ListingScore(links[i])]]))

\* The address is tested as it is written, for the words of a text.
AddressNamesPermanent(url) ==
    HasAny(url.path, PermanentNames) \/ url.query \in PermanentNames

\* A sentence that holds the word is a headline, not a label.
FindPermanentLinks(page, base) ==
    LET leads(link) == /\ link.to.host = base.host
                       /\ \/ AddressNamesPermanent(link.to)
                          \/ NamesPermanent(link.words) /\ "long" \notin link.words
        links == At(page.links, {i \in DOMAIN page.links : leads(page.links[i])})
    IN  BestFirst(FirstPerUrl([i \in DOMAIN links |-> [url |-> links[i].to, score |-> 0]]))

InfoScore(link) ==
    LET named == Points("info" \in link.words, 2)
                 + Points(HasAny(link.to.path, InfoSegments), 1)
    IN  IF named = 0 THEN 0 ELSE named + Points(Depth(link.to.path) <= 0, 1)

FindInfoLinks(page, base) ==
    LET leads(link) == /\ link.to.host = base.host
                       /\ Depth(link.to.path) <= 1
                       /\ InfoScore(link) > 0
        links == At(page.links, {i \in DOMAIN page.links : leads(page.links[i])})
    IN  BestFirst(FirstPerUrl([i \in DOMAIN links |->
            [url |-> links[i].to, score |-> InfoScore(links[i])]]))
====
