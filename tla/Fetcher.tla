------------------------------ MODULE Fetcher ------------------------------
(***************************************************************************)
(* Fetching pages politely (pkg/exhibitions/fetch.go): one Fetcher, shared *)
(* by every goroutine that reads museums' sites, gives each host a request *)
(* per interval and asks each origin's robots.txt before its pages.        *)
(*                                                                         *)
(* Each critical section is an action; between them, and while a request   *)
(* is under way, other readers move.  Time is relative, as in Gate.        *)
(***************************************************************************)
EXTENDS Integers, FiniteSets, Sequences

CONSTANTS
    Readers,     \* goroutines with a page to fetch
    Origins,     \* scheme and host; robots rules are kept by origin
    Nowhere,     \* where a reader with nothing to fetch is, or that was not redirected
    Hosts,       \* turns are kept by host
    HostOf,      \* [Origins -> Hosts]
    Paths,       \* sequences of segments; the root is <<>>
    Files,       \* the robots files an origin may publish
    Interval,    \* perHostInterval, in ticks
    MaxRedirects,\* redirects the client follows in one request (ten)
    MaxFetches,  \* bound: fetches of all readers
    MaxFaults,   \* bound: requests that fail
    MaxCancels   \* bound: contexts that end

\* A line of a robots file: the crawler a group is for, or a rule of the group.
Lines ==
    [field : {"agent"}, value : STRING]
        \union [field : {"allow", "disallow"}, value : Paths]

ASSUME FetcherAssumption ==
    /\ HostOf \in [Origins -> Hosts] /\ Nowhere \notin Origins
    /\ Paths \subseteq Seq(STRING) /\ <<>> \in Paths
    /\ Files \subseteq [html : BOOLEAN, lines : Seq(Lines)]
    /\ Interval \in Nat \ {0} /\ IsFiniteSet(Readers)
    /\ MaxRedirects \in Nat
    /\ MaxFetches \in Nat /\ MaxFaults \in Nat /\ MaxCancels \in Nat

VARIABLES
    lead,      \* per host: how far ahead of the clock its next free instant lies
    robots,    \* per origin: what is remembered of its robots file
    reader,    \* each reader's place in Fetch
    published, \* per origin: the file its robots.txt ends at, redirects followed
    clock,     \* the tick, even or odd
    asked,     \* per host: the requests begun, even or odd
    since,     \* per host: ticks since a turn last came up, to Interval at most
    unread,    \* origins whose robots request failed or was given up
    requests,  \* per origin: robots requests begun
    spent

vars == <<lead, robots, reader, published, clock, asked, since, unread, requests, spent>>

Least(a, b) == IF a < b THEN a ELSE b
Greatest(a, b) == IF a > b THEN a ELSE b

(***************************************************************************)
(* Robots files: sequences of lines, each naming an agent or a prefix that *)
(* is allowed or disallowed.                                               *)
(***************************************************************************)

IsPrefixOf(prefix, path) ==
    Len(prefix) <= Len(path) /\ SubSeq(path, 1, Len(prefix)) = prefix

Unknown == [known |-> FALSE, allow |-> {}, disallow |-> {}]
Permissive == [known |-> TRUE, allow |-> {}, disallow |-> {}]

\* The last agent named before line i, which is the one its rule is taken for.
AgentAt(file, i) ==
    LET named == {j \in 1 .. i : file[j].field = "agent"} IN
    IF named = {} THEN "nobody" ELSE file[CHOOSE j \in named : \A k \in named : k <= j].value

\* Mutant: the rules for every crawler but this one.
ParseOthers(file) ==
    [known    |-> TRUE,
     allow    |-> {file[i].value : i \in {j \in DOMAIN file : file[j].field = "allow" /\ AgentAt(file, j) # "*"}},
     disallow |-> {file[i].value : i \in {j \in DOMAIN file : file[j].field = "disallow" /\ AgentAt(file, j) # "*"}}]

\* parseRobots: the rules of the groups for any crawler.
Parse(file) ==
    LET Rules(field) == {file[i].value : i \in {j \in DOMAIN file :
                            file[j].field = field /\ AgentAt(file, j) = "*"}}
    IN  [known |-> TRUE, allow |-> Rules("allow"), disallow |-> Rules("disallow")]

Longest(prefixes, path) ==
    LET lengths == {-1} \union {Len(p) : p \in {q \in prefixes : IsPrefixOf(q, path)}}
    IN  CHOOSE n \in lengths : \A m \in lengths : m <= n

\* allows: the longest rule that matches prevails, and allowing wins a tie.
Allows(rules, path) == Longest(rules.allow, path) >= Longest(rules.disallow, path)

(***************************************************************************)
(* Fetch.                                                                  *)
(***************************************************************************)

\* A reader's fetch: where it is in Fetch, the page it is for, the rules it
\* goes by, its turn, and where the redirects of its request have led it.
Idle == [pc |-> "idle", origin |-> Nowhere, path |-> <<>>, rules |-> Unknown,
         left |-> 0, cancelled |-> FALSE, hops |-> 0, at |-> Nowhere]

Put(r, next) == reader' = [reader EXCEPT ![r] = next]

\* After the rules are known: on to the page, or refused.
Judge(r, job, rules) ==
    IF Allows(rules, job.path)
    THEN Put(r, [job EXCEPT !.pc = "turning", !.rules = rules])
    ELSE Put(r, Idle)

\* allowed's first critical section: are the origin's rules known?
Fetch(r, origin, path) ==
    LET job == [Idle EXCEPT !.origin = origin, !.path = path] IN
    /\ reader[r].pc = "idle" /\ spent.fetches < MaxFetches
    /\ spent' = [spent EXCEPT !.fetches = @ + 1]
    /\ IF robots[origin].known
       THEN Judge(r, job, robots[origin])
       ELSE Put(r, [job EXCEPT !.pc = "turning"])
    /\ UNCHANGED <<lead, robots, published, clock, asked, since, unread, requests>>

\* Whether the request to come, or under way, is for robots.txt.
ForRobots(r) == ~reader[r].rules.known

HostFor(r) == HostOf[reader[r].origin]

\* Mutant: a turn is free again when the one before it has come up.
NextFree(l) == Greatest(l, 1)

\* The instant after the turn just taken.
Later(l) == l + Interval

\* waitFor's critical section: the host's next free instant is this request's.
Reserve(r) ==
    /\ reader[r].pc = "turning"
    /\ Put(r, [reader[r] EXCEPT !.pc = "waiting", !.left = lead[HostFor(r)]])
    /\ lead' = [lead EXCEPT ![HostFor(r)] = Later(@)]
    /\ since' = IF lead[HostFor(r)] = 0 THEN [since EXCEPT ![HostFor(r)] = 0] ELSE since
    /\ UNCHANGED <<robots, published, clock, asked, unread, requests, spent>>

\* The turn has come and the request goes out.
Ask(r) ==
    /\ reader[r].pc = "waiting" /\ reader[r].left = 0 /\ ~reader[r].cancelled
    /\ Put(r, [reader[r] EXCEPT !.pc = "asking"])
    /\ asked' = [asked EXCEPT ![HostFor(r)] = 1 - @]
    /\ requests' = IF ForRobots(r) THEN [requests EXCEPT ![reader[r].origin] = @ + 1] ELSE requests
    /\ UNCHANGED <<lead, robots, published, clock, since, unread, spent>>

\* The client follows a redirect by itself, to any page of any origin: no turn
\* is taken for the request that follows, and no rules are asked.
Redirected(r) ==
    /\ reader[r].pc = "asking" /\ reader[r].hops < MaxRedirects /\ ~reader[r].cancelled
    /\ \E o \in Origins, p \in Paths :
          Put(r, [reader[r] EXCEPT !.hops = @ + 1, !.at = [origin |-> o, path |-> p]])
    /\ UNCHANGED <<lead, robots, published, clock, asked, since, unread, requests, spent>>

\* What a robots request came to, good or bad, is taken for the origin's rules.
Learn(r, rules) ==
    Put(r, [reader[r] EXCEPT !.pc = "storing", !.rules = rules, !.hops = 0, !.at = Nowhere])

\* The answer to a robots request, which get accepts only as HTML.
RobotsArrive(r) ==
    LET file == published[reader[r].origin] IN
    /\ reader[r].pc = "asking" /\ ForRobots(r)
    /\ Learn(r, IF file.html THEN Parse(file.lines) ELSE Permissive)
    /\ UNCHANGED <<lead, robots, published, clock, asked, since, unread, requests, spent>>

PageArrives(r) ==
    /\ reader[r].pc = "asking" /\ ~ForRobots(r)
    /\ Put(r, Idle)
    /\ UNCHANGED <<lead, robots, published, clock, asked, since, unread, requests, spent>>

\* The request fails, for a redirect too many among others, or its context has
\* ended while it waited its turn or an answer.  For a robots request that means there
\* is no robots file.
Fails(r) ==
    /\ \/ reader[r].cancelled /\ reader[r].pc \in {"waiting", "asking"} /\ UNCHANGED spent
       \/ /\ reader[r].pc = "asking" /\ spent.faults < MaxFaults
          /\ spent' = [spent EXCEPT !.faults = @ + 1]
    /\ IF ForRobots(r)
       THEN Learn(r, Permissive) /\ unread' = unread \union {reader[r].origin}
       ELSE Put(r, Idle) /\ UNCHANGED unread
    /\ UNCHANGED <<lead, robots, published, clock, asked, since, requests>>

\* Mutant: what could not be read is not remembered.
RememberedIfRead(rules) ==
    IF rules.allow \union rules.disallow = {} THEN Unknown ELSE rules

\* What is remembered of an origin whose robots request ended so.
Remembered(rules) == rules

\* allowed's second critical section, and its verdict.
Remember(r) ==
    /\ reader[r].pc = "storing"
    /\ robots' = [robots EXCEPT ![reader[r].origin] = Remembered(reader[r].rules)]
    /\ Judge(r, reader[r], reader[r].rules)
    /\ UNCHANGED <<lead, published, clock, asked, since, unread, requests, spent>>

Cancel(r) ==
    /\ reader[r].pc # "idle" /\ ~reader[r].cancelled
    /\ spent.cancels < MaxCancels
    /\ Put(r, [reader[r] EXCEPT !.cancelled = TRUE])
    /\ spent' = [spent EXCEPT !.cancels = @ + 1]
    /\ UNCHANGED <<lead, robots, published, clock, asked, since, unread, requests>>

Sooner(n) == Greatest(n - 1, 0)

ComesUp(host) ==
    \E r \in Readers : reader[r].pc = "waiting" /\ reader[r].left = 1 /\ HostFor(r) = host

Tick ==
    /\ clock' = 1 - clock
    /\ lead' = [h \in Hosts |-> Sooner(lead[h])]
    /\ reader' = [r \in Readers |-> [reader[r] EXCEPT !.left = Sooner(@)]]
    /\ since' = [h \in Hosts |-> IF ComesUp(h) THEN 0 ELSE Least(since[h] + 1, Interval)]
    /\ UNCHANGED <<robots, published, asked, unread, requests, spent>>

Init ==
    /\ lead = [h \in Hosts |-> 0]
    /\ robots = [o \in Origins |-> Unknown]
    /\ reader = [r \in Readers |-> Idle]
    /\ published \in [Origins -> Files]
    /\ clock = 0 /\ asked = [h \in Hosts |-> 0]
    /\ since = [h \in Hosts |-> Interval]
    /\ unread = {} /\ requests = [o \in Origins |-> 0]
    /\ spent = [fetches |-> 0, faults |-> 0, cancels |-> 0]

Step(r) ==
    \/ \E o \in Origins, p \in Paths : Fetch(r, o, p)
    \/ Reserve(r) \/ Ask(r) \/ Redirected(r) \/ RobotsArrive(r) \/ PageArrives(r)
    \/ Fails(r) \/ Remember(r) \/ Cancel(r)

Next == Tick \/ \E r \in Readers : Step(r)

Spec == Init /\ [][Next]_vars

(***************************************************************************)
(* Properties.                                                             *)
(***************************************************************************)

Rules == [known : BOOLEAN, allow : SUBSET Paths, disallow : SUBSET Paths]

Fetching ==
    [pc : {"turning", "waiting", "asking", "storing"}, origin : Origins, path : Paths,
     rules : Rules, left : Nat, cancelled : BOOLEAN, hops : 0 .. MaxRedirects,
     at : {Nowhere} \union [origin : Origins, path : Paths]]

ReaderStates == {Idle} \union Fetching

TypeOK ==
    /\ lead \in [Hosts -> Nat] /\ since \in [Hosts -> 0 .. Interval]
    /\ robots \in [Origins -> Rules]
    /\ published \in [Origins -> Files] /\ unread \subseteq Origins
    /\ clock \in {0, 1} /\ asked \in [Hosts -> {0, 1}] /\ requests \in [Origins -> Nat]
    /\ reader \in [Readers -> ReaderStates]

\* What a host has coming: a turn for each reader late for its own, and the
\* time since the last turn came up.
Late(host) == {r \in Readers : reader[r].pc = "waiting" /\ reader[r].left = 0 /\ HostFor(r) = host}

Promised(host) == since[host] + Interval * Cardinality(Late(host))

\* However many readers share a host, under one origin or several, and however
\* their fetches fail or are given up, one request per interval is begun there;
\* only readers whose timers fired late can go out together ("one request per
\* host per second", fetch.go).  The requests that follow a redirect, to this
\* host or another, are not counted: RedirectsTakeTurns below does not hold.
Promise == INSTANCE RatePromise WITH
    Keys <- Hosts, Gap <- Interval, Capacity <- Interval * (Cardinality(Readers) + 1),
    credit <- [h \in Hosts |-> Promised(h)]

KeepsItsRate == Promise!Spec

\* What a robots file says, read group by group: whoever is named in the lines
\* that open a group is bound by its rules, and the more specific rule prevails.
Opens(file, i) == file[i].field = "agent" /\ (i = 1 \/ file[i - 1].field # "agent")

GroupOf(file, i) ==
    LET opens == {j \in 1 .. i : Opens(file, j)} IN
    IF opens = {} THEN 0 ELSE CHOOSE j \in opens : \A k \in opens : k <= j

Binds(file, i) ==
    \E j \in 1 .. Len(file) :
       file[j] = [field |-> "agent", value |-> "*"] /\ GroupOf(file, j) = GroupOf(file, i)

Forbids(file, path) ==
    \E i \in DOMAIN file :
       /\ file[i].field = "disallow" /\ Binds(file, i) /\ IsPrefixOf(file[i].value, path)
       /\ \A j \in DOMAIN file :
             file[j].field = "allow" /\ Binds(file, j) /\ IsPrefixOf(file[j].value, path)
                => Len(file[j].value) < Len(file[i].value)

\* A reader asks for a page its origin forbids only if it goes by no rules at
\* all, because some reader, this one or another, had its robots request fail or
\* given up, or because the file is not served as HTML and so is refused.  What
\* the cache holds for one origin never stands for another, nor one group's
\* rules for another's ("robots.txt respected", fetch.go).  It is the page
\* fetched that is meant, and not where its redirects lead: RedirectsAreJudged
\* below does not hold.
RobotsAreRespected ==
    [][\A r \in Readers :
          /\ reader[r].pc = "waiting" /\ reader'[r].pc = "asking" /\ ~ForRobots(r)
          /\ Forbids(published[reader[r].origin].lines, reader[r].path)
          => /\ reader[r].rules = Permissive
             /\ reader[r].origin \in unread \/ ~published[reader[r].origin].html]_vars

\* What the code does not keep, and no run checks: a request that follows a
\* redirect is made in a turn of its host, and for a page its origin allows.
RedirectsTakeTurns ==
    [][\A r \in Readers : reader'[r].hops > reader[r].hops =>
          since[HostOf[reader'[r].at.origin]] = Interval]_vars

RedirectsAreJudged ==
    [][\A r \in Readers : reader'[r].hops > reader[r].hops =>
          ~Forbids(published[reader'[r].at.origin].lines, reader'[r].at.path)]_vars

\* What is remembered of an origin, or held by a reader of it, is what its file
\* says, or nothing at all if the file is refused or someone could not get it;
\* and a reader that knows the rules has found its page allowed.
RulesOf == [file \in Files |-> Parse(file.lines)]

TrueTo(rules, origin) ==
    \/ published[origin].html /\ rules = RulesOf[published[origin]]
    \/ rules = Permissive /\ (origin \in unread \/ ~published[origin].html)

RulesAreTheOrigins ==
    /\ \A o \in Origins : robots[o].known => TrueTo(robots[o], o)
    /\ \A r \in Readers : reader[r].pc # "idle" /\ reader[r].rules.known =>
          /\ TrueTo(reader[r].rules, reader[r].origin)
          /\ reader[r].pc # "storing" => Allows(reader[r].rules, reader[r].path)

\* Readers that have asked for an origin's robots file and not stored it, and
\* those that found its rules unknown and have yet to ask.
HasAsked(o) == {r \in Readers : reader[r].origin = o /\
                   (reader[r].pc = "storing" \/ (reader[r].pc = "asking" /\ ForRobots(r)))}

IsToAsk(o) == {r \in Readers : reader[r].origin = o /\
                   reader[r].pc \in {"turning", "waiting"} /\ ForRobots(r)}

\* The readers that may ask for it in time: any that has not, until its rules
\* are known.
MayAsk(o) == IF robots[o].known THEN IsToAsk(o) ELSE Readers \ HasAsked(o)

\* No reader asks twice, though it may find the rules unknown again: each has
\* one request for each origin, made or to be made.
RequestsAreReaders ==
    \A o \in Origins : requests[o] + Cardinality(MayAsk(o)) <= Cardinality(Readers)

\* A request whose answer is to be stored has come to something.
StoredIsKnown == \A r \in Readers : reader[r].pc = "storing" => reader[r].rules.known

\* A reader with a turn at the host that has not come up.
Ahead(r, host) == reader[r].pc = "waiting" /\ reader[r].left > 0 /\ HostFor(r) = host

\* A host's turns to come are spaced, whichever of its origins they are for:
\* from the last that came up, from each other, and from the next to be had.
TurnsAreSpaced ==
    \A h \in Hosts :
       /\ since[h] + lead[h] >= Interval
       /\ \A r \in Readers : Ahead(r, h) => /\ since[h] + reader[r].left >= Interval
                                            /\ reader[r].left + Interval <= lead[h]
       /\ \A r, s \in Readers :
             r # s /\ Ahead(r, h) /\ Ahead(s, h) /\ reader[r].left <= reader[s].left
                => reader[r].left + Interval <= reader[s].left

\* Readers that find the rules unknown at once each ask for them, but no reader
\* asks twice: what came of the first request is remembered, good or bad.
RobotsAskedOncePerReader ==
    \A o \in Origins : requests[o] <= Cardinality(Readers)

\* What holds of the cache and the turns at every moment.
FetcherInv ==
    TypeOK /\ RobotsAskedOncePerReader
      /\ RequestsAreReaders /\ StoredIsKnown /\ RulesAreTheOrigins /\ TurnsAreSpaced
=============================================================================
