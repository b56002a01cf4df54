---- MODULE ListingDates ----
(***************************************************************************)
(* Reading the run of an exhibition out of a listing (pkg/exhibitions/     *)
(* dates.go).  A text is a sequence of tokens in the order they are        *)
(* written: dates in one of the forms the five patterns match, the words   *)
(* that say which end a date is, and other text.  A day is its number in a *)
(* calendar of years of YearLength days.                                   *)
(***************************************************************************)
EXTENDS Integers, Sequences, FiniteSetsExt

CONSTANTS
    NoDate,           \* a missing bound
    YearLength,       \* days in a year
    FirstYear,        \* makeDate: the years a listing may plausibly name
    LastYear,
    FarFutureYears,   \* how far ahead a closing date may be
    MaxCardTimes      \* <time> elements read from one card

ASSUME CalendarAssumption ==
    /\ NoDate \notin Int
    /\ {YearLength, FirstYear, LastYear, FarFutureYears, MaxCardTimes} \subseteq Nat \ {0}
    /\ FirstYear <= LastYear

-----------------------------------------------------------------------------
\* The order the patterns are tried in; a date without a year comes last.
Forms == <<"iso", "numeric", "dayMonthYear", "monthDayYear">>

Rank(form) == CHOOSE i \in DOMAIN Forms : Forms[i] = form

Dated == {Forms[i] : i \in DOMAIN Forms}

\* "prose" is text longer than the window before a date that is read for its
\* qualifier; "lasting" says permanence in words only permanentWords knows,
\* "ongoing" in words both lists know, "shut" that a place closed for good.
Words == {"until", "from", "ongoing", "lasting", "shut", "word", "prose"}

Token == [form : Dated \union {"yearless"} \union Words, year : Nat, day : Nat]

Word(form) == [form |-> form, year |-> 0, day |-> 0]

Says(text, form) == \E i \in DOMAIN text : text[i].form = form

-----------------------------------------------------------------------------
DateRange == [start : Int \union {NoDate}, end : Int \union {NoDate}, permanent : BOOLEAN]

Unknown == [start |-> NoDate, end |-> NoDate, permanent |-> FALSE]

IsZero(r) == r.start = NoDate /\ r.end = NoDate

Known(r) == ~IsZero(r) \/ r.permanent

Runs(r, on) ==
    \/ r.permanent
    \/ /\ ~IsZero(r)
       /\ r.start = NoDate \/ r.start <= on
       /\ r.end = NoDate \/ on <= r.end

Upcoming(r, on) == r.start # NoDate /\ r.start > on

ResolveOpenEnd(r, now) ==
    IF \/ r.permanent
       \/ r.end = NoDate
       \/ r.end - now <= FarFutureYears * YearLength
    THEN r
    ELSE [start |-> r.start, end |-> NoDate, permanent |-> TRUE]

-----------------------------------------------------------------------------
\* makeDate: a day the calendar has, in a year a listing may name.
Plausible(year, day) == year \in FirstYear .. LastYear /\ day < YearLength

DatedAt(text) ==
    {i \in DOMAIN text : text[i].form \in Dated /\ Plausible(text[i].year, text[i].day)}

\* As if it were always the current year.
YearHintNow(text, now) == now \div YearLength

\* The year a date without one borrows: that of the dated sibling found last,
\* pattern by pattern, and otherwise the current one.
YearHint(text, now) ==
    LET dated == DatedAt(text)
        later(i, j) == \/ Rank(text[i].form) < Rank(text[j].form)
                       \/ Rank(text[i].form) = Rank(text[j].form) /\ i <= j
        last == CHOOSE j \in dated : \A i \in dated : later(i, j)
    IN  IF dated = {} THEN now \div YearLength ELSE text[last].year

IsDate(token, hint) ==
    \/ token.form \in Dated /\ Plausible(token.year, token.day)
    \/ token.form = "yearless" /\ Plausible(hint, token.day)

When(token, hint) ==
    (IF token.form = "yearless" THEN hint ELSE token.year) * YearLength + token.day

\* The dates of a text and where each is written.
Located(text, hint) ==
    {[at |-> i, when |-> When(text[i], hint)] : i \in {j \in DOMAIN text : IsDate(text[j], hint)}}

FindDates(text, now) == Located(text, YearHint(text, now))

\* The words close enough before a date to say which end of the run it is.
Lead(text, at) ==
    {text[i].form : i \in {j \in 1 .. at - 1 :
                             \A k \in j .. at - 1 : text[k].form # "prose"}}

OneDate(text, date) ==
    IF "until" \in Lead(text, date.at)
    THEN [Unknown EXCEPT !.end = date.when]
    ELSE IF "from" \in Lead(text, date.at)
         THEN [Unknown EXCEPT !.start = date.when]
         ELSE [Unknown EXCEPT !.start = date.when, !.end = date.when]

\* The range a text gives, from the dates found in it: the first and the last
\* as written, in the order of the calendar.
RangeIn(text, found) ==
    LET first == CHOOSE d \in found : \A e \in found : d.at <= e.at
        last  == CHOOSE d \in found : \A e \in found : e.at <= d.at
    IN  CASE Says(text, "ongoing") ->
                [start |-> IF found = {} THEN NoDate ELSE first.when,
                 end |-> NoDate, permanent |-> TRUE]
          [] ~Says(text, "ongoing") /\ found = {} -> Unknown
          [] ~Says(text, "ongoing") /\ Cardinality(found) = 1 -> OneDate(text, first)
          [] OTHER -> [start |-> Min({first.when, last.when}),
                       end |-> Max({first.when, last.when}), permanent |-> FALSE]

ParseDateRange(text, now) == RangeIn(text, FindDates(text, now))

-----------------------------------------------------------------------------
\* machineDates: the extremes of the first maxCardTimes stamps of a card; one
\* stamp alone is left to the text.
StampedRange(stamps) ==
    LET read == {stamps[i] : i \in 1 .. Min({Len(stamps), MaxCardTimes})}
    IN  IF Len(stamps) < 2 THEN Unknown
        ELSE [start |-> Min(read), end |-> Max(read), permanent |-> FALSE]
====
