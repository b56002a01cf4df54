---- MODULE MCSiteReading ----
(***************************************************************************)
(* Museums' sites of the shapes the reader's comments describe, each in    *)
(* the editions its museum may publish.  Years have ten days; today is day *)
(* 5 of year 3.                                                            *)
(***************************************************************************)
EXTENDS ListingForms

MCNow == 35

Run(start, end) == [start |-> start, end |-> end, permanent |-> FALSE]
Always(start) == [start |-> start, end |-> NoDate, permanent |-> TRUE]

Exhibitions ==
    "Now" :> Run(32, 38) @@ "Soon" :> Run(41, 45) @@ "Over" :> Run(21, 33)
    @@ "Open" :> Run(34, NoDate) @@ "Fixed" :> Always(24) @@ "Rooms" :> Always(NoDate)
    @@ "Undated" :> Run(NoDate, NoDate)

\* "Weekly" is published as one entry per occurrence.
MCMeant == [t \in DOMAIN Exhibitions |-> {Exhibitions[t]}] @@ "Weekly" :> {Run(34, 35), Run(36, 36)}

\* The second is in permanentPathHints alone, whose words have hyphens.
MCPermanent == {"permanent", "fasta-utstallningar"}

MCStrong == {"exhibitions", "ausstellungen", "ausstellung-soon"} \union MCPermanent
MCWeak == {"event", "calendar"}
MCView == {"page", "list", "archive", "calendar"}
MCContainer == {"exhibitions", "ausstellungen", "event"} \union MCPermanent
MCNumerals == {"1", "2", "3"}
MCPast == {"archive"}
MCInfo == {"visit", "about"}
MCSlugTitle ==
    "now" :> "Now" @@ "soon" :> "Soon" @@ "over" :> "Over" @@ "open" :> "Open"
    @@ "fixed" :> "Fixed" @@ "weekly-1" :> "Weekly" @@ "weekly-2" :> "Weekly"
    @@ "weekly-3" :> "Weekly" @@ "ausstellung-soon" :> "Ausstellung Soon"
    @@ [s \in {"1", "2", "3"} |-> NoTitle]
    @@ [s \in {"exhibitions", "ausstellungen", "permanent", "event", "calendar", "page",
               "list", "archive", "visit", "about", "plan", "late", "spenden", "rooms",
               "undated", "fasta-utstallningar"} |-> s]

MCListingPaths == <<<<"exhibitions">>, <<"en", "exhibitions">>, <<"ausstellungen">>>>
MCInfoPaths == <<<<"visit">>, <<"about">>>>

-----------------------------------------------------------------------------
(* How a museum writes a run up.                                           *)
Day(form, d) == [form |-> form, year |-> d \div YearLength, day |-> d % YearLength]
Yearless(d) == [form |-> "yearless", year |-> 0, day |-> d % YearLength]
Prose == Word("prose")

SameYear(r) == r.start \div YearLength = r.end \div YearLength

Written(r, form) ==
    CASE r.permanent /\ r.start # NoDate /\ form = "until" -> <<Word("ongoing"), Prose>>
      [] r.permanent /\ r.start # NoDate /\ form # "until" ->
            <<Word("ongoing"), Word("from"), Day("iso", r.start)>>
      [] r.permanent /\ r.start = NoDate -> <<Word("lasting"), Prose>>
      [] ~r.permanent /\ r.start = NoDate -> <<Prose>>
      [] ~r.permanent /\ r.start # NoDate /\ r.end = NoDate ->
            <<Prose, Word("from"), Day("dayMonthYear", r.start)>>
      [] ~r.permanent /\ r.end # NoDate /\ form = "shared" /\ SameYear(r) ->
            <<Word("from"), Prose, Yearless(r.start), Day("dayMonthYear", r.end)>>
      [] ~r.permanent /\ r.end # NoDate /\ form = "until" ->
            <<Word("from"), Prose, Word("until"), Day("numeric", r.end)>>
      [] OTHER -> <<Day("monthDayYear", r.start), Word("until"), Day("iso", r.end)>>

M(path) == Url("m", path)

Link(to, words, title, text) ==
    [to |-> to, words |-> words, title |-> title, context |-> text, stamps |-> <<>>]

Nav(to, words, title) == Link(to, words, title, <<Prose>>)

Card(to, title, show, form) ==
    LET run == Exhibitions[show] IN
    IF form = "stamped" /\ ~run.permanent /\ run.end # NoDate
    THEN [to |-> to, words |-> {}, title |-> title, context |-> <<Prose>>,
          stamps |-> <<run.start, run.end>>]
    ELSE Link(to, {}, title, Written(run, form))

Page(heading, links) == [heading |-> heading, links |-> links, declared |-> <<>>, tagged |-> TRUE]

Event(to, title, run, type) ==
    [to |-> to, title |-> title, type |-> type, words |-> {},
     start |-> run.start, end |-> run.end]

-----------------------------------------------------------------------------
(* A museum that files its exhibitions under their own directory.          *)
NestedHome == Page({}, <<
    Nav(Url("tickets", <<"exhibitions">>), {"listing", "current"}, "Book"),
    Nav(M(<<"exhibitions", "archive">>), {"listing", "past"}, "Past exhibitions"),
    Nav(M(<<"calendar">>), {"listing"}, "Calendar"),
    Nav(M(<<"event">>), {"listing"}, "Events"),
    Nav(M(<<"event", "list">>), {"listing"}, "Programme"),
    Nav(M(<<"exhibitions">>), {"listing", "current"}, "Current exhibitions"),
    Nav(M(<<"permanent">>), {"listing", "permanent"}, "Permanent"),
    Nav(M(<<"fasta-utstallningar">>), {}, "Salar"),
    Nav(M(<<"visit">>), {"info"}, "Visit")>>)

Nested(form, shows) ==
    [recorded |-> M(<<>>), museum |-> "Museum", onShow |-> {"Now", "Fixed"} \union shows,
     pages |->
        M(<<>>) :> NestedHome
        @@ M(<<"exhibitions">>) :> Page({"exhibition"}, <<
            Nav([M(<<"exhibitions">>) EXCEPT !.query = "list"], {"listing"}, "List"),
            Nav(M(<<"exhibitions", "page", "2">>), {}, "Older"),
            Nav(M(<<"exhibitions", "plan">>), {}, "Plan your route"),
            Card(M(<<"event", "late">>), "Late", "Now", form),
            Card(M(<<"exhibitions", "now">>), "Now", "Now", form),
            Card(M(<<"exhibitions", "over">>), "Over", "Over", form)>>
            \o (IF "Soon" \in shows THEN <<Card(M(<<"exhibitions", "soon">>), "Soon", "Soon", form)>> ELSE <<>>)
            \o (IF "Open" \in shows THEN <<Card(M(<<"exhibitions", "open">>), NoTitle, "Open", form)>> ELSE <<>>))
        @@ M(<<"permanent">>) :> Page({"permanent"}, <<
            Nav(M(<<"exhibitions">>), {"listing"}, "All exhibitions"),
            Card(M(<<"permanent", "fixed">>), "Fixed", "Fixed", form)>>)
        @@ M(<<"fasta-utstallningar">>) :> Page({}, <<
            Card(M(<<"fasta-utstallningar", "fixed">>), "Fixed", "Fixed", form)>>)
        @@ M(<<"exhibitions", "archive">>) :> Page({"exhibition"}, <<
            Card(M(<<"exhibitions", "over">>), "Over", "Over", form)>>)
        @@ M(<<"calendar">>) :> Page({}, <<Nav(M(<<"calendar", "list">>), {"listing"}, "As a list")>>)
        @@ M(<<"visit">>) :> Page({"display"}, <<Nav(M(<<>>), {}, "Home")>>)]

(* One whose paths say nothing: the listing page is believed.  The page the *)
(* catalogue recorded is gone.                                             *)
Grid(form) ==
    [recorded |-> Url("m", <<"wp">>), museum |-> "Museum",
     onShow |-> {"Now", "Soon"},
     pages |->
        M(<<>>) :> Page({}, <<Nav(M(<<"ausstellungen">>), {"listing"}, "Ausstellungen")>>)
        @@ M(<<"ausstellungen">>) :> Page({}, <<
            Link(M(<<"info", "spenden">>), {}, "Spenden", <<Word("ongoing"), Prose>>),
            Link(M(<<"info", "plan">>), {}, "Schliesstage", <<Day("iso", 36)>>),
            Card(M(<<"portfolio", "1">>), "Now", "Now", form),
            Card(M(<<"portfolio", "soon">>), "More", "Soon", form),
            Card(M(<<"portfolio", "over">>), "More", "Over", form)>>)]

(* One that writes no dates, and whose rooms only their path tells, and    *)
(* one whose event recurs.                                                 *)
Plain(recurs) ==
    [recorded |-> M(<<"plain">>), museum |-> "Museum",
     onShow |-> IF recurs THEN {"Weekly"} ELSE {"Rooms", "Undated"},
     pages |->
        M(<<"plain">>) :> Page({}, <<Nav(M(<<"plain", "exhibitions">>), {"listing"}, "On view")>>)
        @@ M(<<"plain", "exhibitions">>) :> Page({"exhibition"},
            IF recurs
            THEN <<Link(M(<<"exhibitions", "weekly-1">>), {"button"}, "More",
                        <<Day("iso", 34), Word("until"), Yearless(35)>>),
                   Link(M(<<"exhibitions", "weekly-2">>), {}, "Weekly", <<Day("iso", 36)>>),
                   Link(M(<<"exhibitions", "weekly-3">>), {"button"}, "Read on", <<Day("numeric", 36)>>)>>
            ELSE <<Nav(M(<<"plain", "exhibitions", "page", "2">>), {}, "Older"),
                   Card(M(<<"fasta-utstallningar", "rooms">>), "Rooms", "Undated", "both"),
                   Card(M(<<"exhibitions", "undated">>), "Undated", "Undated", "both")>>)]

(* One that declares its events, and one that publishes no programme.      *)
Declared ==
    [recorded |-> M(<<"d">>), museum |-> "Museum", onShow |-> {"Now", "Soon", "Fixed"},
     pages |->
        M(<<"d">>) :> Page({}, <<Nav(M(<<"exhibitions">>), {"listing"}, "Exhibitions")>>)
        @@ M(<<"exhibitions">>) :>
            [heading |-> {"exhibition"}, tagged |-> TRUE,
             links |-> <<Nav(M(<<"exhibitions", "now">>), {}, "Now showing"),
                         Card(M(<<"exhibitions", "soon">>), "Soon", "Soon", "shared")>>,
             declared |-> <<Event(M(<<"x", "now">>), "Now", Run(32, 38), "exhibition"),
                            Event(M(<<"x", "late">>), "Late", Run(35, 35), "event"),
                            Event(M(<<"exhibitions", "fixed">>), "Fixed", Run(24, 98), "event")>>]]

Silent ==
    [recorded |-> M(<<"d">>), museum |-> "Museum", onShow |-> {"Museum"},
     pages |->
        M(<<"d">>) :> Page({}, <<Nav(M(<<"d", "join", "about">>), {"info"}, "About joining"),
                                 Nav(M(<<"about">>), {"info"}, "About")>>)
        @@ M(<<"about">>) :> Page({"display"}, <<Nav(M(<<"d">>), {}, "Home")>>)]

MCSites ==
    {Nested(form, shows) : form \in {"shared", "until", "stamped"},
                           shows \in {{"Soon"}, {"Open", "Soon"}}}
    \union {Grid("both"), Grid("shared"), Plain(TRUE), Plain(FALSE), Declared, Silent}

ASSUME SitesAssumption == SitesTell /\ SitesShow
====
