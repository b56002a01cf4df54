----------------------------- MODULE SiteSweep -----------------------------
(***************************************************************************)
(* Keeping the exhibitions current: sweepers claim the websites that are   *)
(* due (internal/command/sweep_loop.go, ClaimDueSites), visitors' areas    *)
(* take them without a claim (TargetsNear), and both read them with the    *)
(* same Runner.Read (internal/sweep/runner.go), which stores what a site   *)
(* lists, retires what it no longer lists and schedules the next visit.    *)
(*                                                                         *)
(* Runner.Read is a sequence of requests and statements, so it is one      *)
(* action per statement: everything else may happen between two of them.   *)
(* Every process keeps one job per site it has taken; a job carries the    *)
(* row as it was when the site was selected, which is what the read is     *)
(* compared with and what the next visit is planned from.                  *)
(***************************************************************************)
EXTENDS Schedule, FiniteSets

CONSTANTS
    Sweepers, Visitors,   \* processes that claim sites, and that do not
    Sites, URLs,
    Editions,             \* Editions[s]: the programmes site s may publish
    AboutPage,            \* AboutPage[s]: the display its own description is
    TagRule,              \* "none", "etag", "modified": how sites tag pages
    Batch,                \* -batch: sites claimed at once
    Lease,                \* claimLease
    LongestRead,          \* bound on the length of one read
    LeaseCoversBatch,     \* whether a batch is over before its lease lapses
    MaxTime, MaxEdits, MaxFaults, MaxCrashes   \* bounds of the model

INSTANCE ExhibitionTable

ASSUME ProcessAssumption ==
    /\ Sweepers \cap Visitors = {}
    /\ None \notin Sites \cup URLs

ASSUME PageAssumption ==
    /\ \A s \in Sites : Editions[s] \subseteq SUBSET Entry
    /\ \A s \in Sites : AboutPage[s] \subseteq Entry
    /\ TagRule \in {"none", "etag", "modified"}

ASSUME LeaseAssumption ==
    /\ Batch \in Nat \ {0}
    /\ LongestRead \in Nat \ {0}
    /\ Lease \in Nat
    /\ LongestRead < Lease   \* "Longer than any single site takes to read"
    /\ LeaseCoversBatch \in BOOLEAN

ASSUME BoundAssumption ==
    /\ MaxTime \in Nat /\ MaxEdits \in Nat /\ MaxFaults \in Nat /\ MaxCrashes \in Nat

VARIABLES
    now,
    page,       \* page[s]: the programme the site publishes
    modified,   \* modified[s]: which edit of it that is; what its tags name
    rows,       \* site_scrapes
    table,      \* exhibitions
    job,        \* job[w][s]: how far process w is with site s
    streak,     \* streak[s]: failures recorded since the last success recorded
    spent       \* edits, faults and crashes so far

vars == <<now, page, modified, rows, table, job, streak, spent>>

Workers == Sweepers \cup Visitors

\* A site_scrapes row.  listing and tag are the two halves of the conditional
\* request: the page asked about and the validators offered with it.
Row == [interval : Nat, failures : Nat, due : Int, parked : BOOLEAN,
        everRead : BOOLEAN, listing : {"programme", "about", None},
        tag : Nat \cup {None}, fingerprint : (SUBSET Entry) \cup {None}]

ASSUME RowAssumption == None \notin Row

NoJob == [pc |-> "idle"]

Job == [pc : {"waiting", "asking", "discovering", "touching", "saving",
              "retiring", "consulting", "recording"},
        known : Row,              \* the target as it was selected
        until : Int,              \* when the claim lapses
        started : Nat,
        scraped : Nat,
        outcome : Outcome,
        found : SUBSET Entry,
        stored : SUBSET Entry,    \* of those, the ones the table took
        listing : {"programme", "about", None},
        tag : Nat \cup {None},
        fingerprint : (SUBSET Entry) \cup {None},
        soonest : Int \cup {None}]

Budget == [edits : 0 .. MaxEdits, faults : 0 .. MaxFaults, crashes : 0 .. MaxCrashes]

TypeOK ==
    /\ now \in Nat
    /\ page \in [Sites -> SUBSET Entry]
    /\ modified \in [Sites -> Nat]
    /\ rows \in [Sites -> Row \cup {None}]
    /\ table \in [URLs -> Listing]
    /\ job \in [Workers -> [Sites -> Job \cup {NoJob}]]
    /\ streak \in [Sites -> Nat]
    /\ spent \in Budget

Held(w, s) == job[w][s].pc # "idle"

Finished(w) == \A s \in Sites : ~Held(w, s)

Reading(w, s) == job[w][s].pc \notin {"idle", "waiting"}

\* A database statement may fail; every such error is logged and passed over.
MayFault == spent.faults < MaxFaults

Faulted == spent' = [spent EXCEPT !.faults = @ + 1]

(***************************************************************************)
(* The rows and how they are selected.                                     *)
(***************************************************************************)

\* What DiscoverSites inserts: due at once, everything else by default.
FreshRow(at) ==
    [interval |-> FirstInterval, failures |-> 0, due |-> at, parked |-> FALSE,
     everRead |-> FALSE, listing |-> None, tag |-> None, fingerprint |-> None]

Discovered ==
    [s \in Sites |-> IF rows[s] = None THEN FreshRow(now) ELSE rows[s]]

\* Mutant: a site whose last read failed is not selected again.
DueUnlessFailed(rs) ==
    {s \in Sites : rs[s].failures = 0 /\ ~rs[s].parked /\ rs[s].due <= now}

Due(rs) == {s \in Sites : ~rs[s].parked /\ rs[s].due <= now}

\* ORDER BY never read first, then the most overdue.
Before(rs, s, t) ==
    \/ ~rs[s].everRead /\ rs[t].everRead
    \/ rs[s].everRead = rs[t].everRead /\ rs[s].due < rs[t].due

\* The batches LIMIT may return: as many as it allows, none passed over for a
\* site that comes after it.
DueBatches(rs) ==
    {batch \in SUBSET Due(rs) :
        /\ \/ Cardinality(batch) = Batch
           \/ Cardinality(batch) < Batch /\ batch = Due(rs)
        /\ \A s \in batch, t \in Due(rs) \ batch : ~Before(rs, t, s)}

Target(row, until) ==
    [pc |-> "waiting", known |-> row, until |-> until,
     started |-> 0, scraped |-> 0, outcome |-> "changed", found |-> {}, stored |-> {},
     listing |-> None, tag |-> None, fingerprint |-> None, soonest |-> None]

Take(w, sites, rs, until) ==
    job' = [job EXCEPT ![w] = [s \in Sites |-> IF s \in sites THEN Target(rs[s], until)
                                               ELSE job[w][s]]]

\* Mutant: the claim does not push the due date out.
LeaseNothing(rs, batch) == rs

Leased(rs, batch) ==
    [s \in Sites |-> IF s \in batch THEN [rs[s] EXCEPT !.due = now + Lease] ELSE rs[s]]

\* The top of a sweeper's cycle, reached when its last batch is finished.
Claim(w) ==
    /\ Finished(w)
    /\ \E batch \in DueBatches(Discovered) :
          /\ batch # {}
          /\ rows' = Leased(Discovered, batch)
          /\ Take(w, batch, rows', now + Lease)
    /\ UNCHANGED <<now, page, modified, table, streak, spent>>

\* A visitor's area: any sites that are not parked, due or not, unclaimed.
Visit(w) ==
    /\ Finished(w)
    /\ rows' = Discovered
    /\ \E area \in SUBSET {s \in Sites : ~rows'[s].parked} :
          /\ area # {}
          /\ Take(w, area, rows', 0)
    /\ UNCHANGED <<now, page, modified, table, streak, spent>>

(***************************************************************************)
(* Runner.Read, statement by statement.                                    *)
(***************************************************************************)

\* known.ListingURL != "" && !known.Validators.none()
CanAsk(row) == row.listing # None /\ row.tag # None

\* Process w goes on with site s as j says.
Put(w, s, j) == job' = [job EXCEPT ![w][s] = j]

\* The clock is read first.  Instants of the program are distinct, so what is
\* in the table already was seen before this one: a tick that held both would
\* lose that order, and the read starts on a later tick.
Start(w, s) ==
    LET j == job[w][s] IN
    /\ j.pc = "waiting"
    /\ \A u \in Live(table, s) : table[u].seen < now
    /\ Put(w, s, [j EXCEPT !.pc = IF CanAsk(j.known) THEN "asking" ELSE "discovering",
                           !.started = now, !.scraped = now])
    /\ UNCHANGED <<now, page, modified, rows, table, streak, spent>>

\* The server's answer to the conditional request.  The tag was taken from the
\* programme page; the page describing the museum has not moved in living
\* memory, so it has not moved since any date, but it has a tag of its own.
NotModified(s, row) ==
    \/ row.listing = "programme" /\ row.tag = modified[s]
    \/ row.listing = "about" /\ TagRule = "modified"

\* 304: everything held for the site is still current.
AskUnchanged(w, s) ==
    LET j == job[w][s] IN
    /\ j.pc = "asking"
    /\ NotModified(s, j.known)
    /\ Put(w, s, [j EXCEPT !.pc = "touching", !.outcome = "unchanged",
                           !.listing = j.known.listing, !.tag = j.known.tag,
                           !.fingerprint = j.known.fingerprint])
    /\ UNCHANGED <<now, page, modified, rows, table, streak, spent>>

\* Moved, or the request failed: fall through to full discovery.
AskMoved(w, s) ==
    /\ job[w][s].pc = "asking"
    /\ Put(w, s, [job[w][s] EXCEPT !.pc = "discovering", !.scraped = now])
    /\ UNCHANGED <<now, page, modified, rows, table, streak, spent>>

\* What harvest keeps: an entry already closed is dropped.
Showing(entries, at) == {e \in entries : e.closes = None \/ e.closes >= at}

Tag(s) == IF TagRule = "none" THEN None ELSE modified[s]

\* What readSite may return of the programme and the page it came from.  Pages
\* that fail are skipped, so any part of the programme may be missing.  Entries
\* found only on the pages of permanent displays come without a page to ask
\* again; when nothing is found the page describing the museum may stand in,
\* without validators.
Discovery(s, at) ==
    LET fixtures  == {e \in page[s] : e.closes = None}
        programme == {[found |-> part, listing |-> "programme", tag |-> Tag(s)] :
                         part \in SUBSET Showing(page[s], at) \ {{}}}
        permanent == {[found |-> part, listing |-> None, tag |-> None] :
                         part \in SUBSET fixtures \ {{}}}
        display   == {[found |-> AboutPage[s], listing |-> "about", tag |-> None]}
        nothing   == {[found |-> {}, listing |-> None, tag |-> None]}
    IN  programme \cup permanent \cup nothing
           \cup (IF AboutPage[s] = {} THEN {} ELSE display)

Discover(w, s) ==
    LET j == job[w][s] IN
    /\ j.pc = "discovering"
    /\ \E result \in Discovery(s, j.scraped) :
          Put(w, s, [j EXCEPT !.pc = IF result.found = {} THEN "consulting" ELSE "saving",
                              !.outcome = IF result.found = j.known.fingerprint
                                          THEN "unchanged" ELSE "changed",
                              !.found = result.found,
                              !.listing = result.listing, !.tag = result.tag,
                              !.fingerprint = result.found])
    /\ UNCHANGED <<now, page, modified, rows, table, streak, spent>>

\* Not one page answered, or the read was refused.
DiscoverNothing(w, s) ==
    /\ job[w][s].pc = "discovering"
    /\ Put(w, s, [job[w][s] EXCEPT !.pc = "consulting", !.outcome = "failed"])
    /\ UNCHANGED <<now, page, modified, rows, table, streak, spent>>

To(w, s, pc) == Put(w, s, [job[w][s] EXCEPT !.pc = pc])

TouchListings(w, s) ==
    /\ job[w][s].pc = "touching"
    /\ To(w, s, "consulting")
    /\ \/ table' = Touch(table, s, job[w][s].started) /\ UNCHANGED spent
       \/ MayFault /\ Faulted /\ UNCHANGED table
    /\ UNCHANGED <<now, page, modified, rows, streak>>

\* The batch, or row by row the part of it the database does not reject.  No
\* rejection is reported: SaveExhibitions returns no error.
SaveListings(w, s) ==
    /\ job[w][s].pc = "saving"
    /\ \E rejected \in SUBSET job[w][s].found :
          LET taken == job[w][s].found \ rejected IN
          /\ IF rejected = {} THEN UNCHANGED spent ELSE MayFault /\ Faulted
          /\ table' = Upsert(table, s, taken, job[w][s].scraped)
          /\ Put(w, s, [job[w][s] EXCEPT !.pc = "retiring", !.stored = taken])
    /\ UNCHANGED <<now, page, modified, rows, streak>>

RetireListings(w, s) ==
    /\ job[w][s].pc = "retiring"
    /\ To(w, s, "consulting")
    /\ \/ table' = Retire(table, s, job[w][s].started) /\ UNCHANGED spent
       \/ MayFault /\ Faulted /\ UNCHANGED table
    /\ UNCHANGED <<now, page, modified, rows, streak>>

ConsultClosing(w, s) ==
    /\ job[w][s].pc = "consulting"
    /\ \/ /\ Put(w, s, [job[w][s] EXCEPT !.pc = "recording",
                                           !.soonest = SoonestClose(table, s)])
          /\ UNCHANGED spent
       \/ To(w, s, "recording") /\ MayFault /\ Faulted
    /\ UNCHANGED <<now, page, modified, rows, table, streak>>

\* coalesce(EXCLUDED.column, site_scrapes.column)
Coalesce(new, held) == IF new = None THEN held ELSE new

PlanFor(j) ==
    PlanNext([interval |-> j.known.interval, failures |-> j.known.failures],
             j.outcome, j.soonest, j.started)

\* Mutant: the failures counted before are kept on a success.
RecordedKeepingFailures(row, j) ==
    LET plan == PlanFor(j) IN
    [interval    |-> plan.interval,
     failures    |-> IF j.outcome = "failed" THEN plan.failures ELSE row.failures,
     due         |-> plan.due,
     parked      |-> plan.park,
     everRead    |-> row.everRead \/ j.outcome # "failed",
     listing     |-> Coalesce(j.listing, row.listing),
     tag         |-> Coalesce(j.tag, row.tag),
     fingerprint |-> Coalesce(j.fingerprint, row.fingerprint)]

\* Mutant: a parked site is recorded without a date.
RecordedParkedUndated(row, j) ==
    LET plan == PlanFor(j) IN
    [interval    |-> plan.interval,
     failures    |-> plan.failures,
     due         |-> IF plan.park THEN None ELSE plan.due,
     parked      |-> plan.park,
     everRead    |-> row.everRead \/ j.outcome # "failed",
     listing     |-> Coalesce(j.listing, row.listing),
     tag         |-> Coalesce(j.tag, row.tag),
     fingerprint |-> Coalesce(j.fingerprint, row.fingerprint)]

\* RecordScrape's upsert of one row, planned from the row as it was selected.
Recorded(row, j) ==
    LET plan == PlanFor(j) IN
    [interval    |-> plan.interval,
     failures    |-> plan.failures,
     due         |-> plan.due,
     parked      |-> plan.park,
     everRead    |-> row.everRead \/ j.outcome # "failed",
     listing     |-> Coalesce(j.listing, row.listing),
     tag         |-> Coalesce(j.tag, row.tag),
     fingerprint |-> Coalesce(j.fingerprint, row.fingerprint)]

RecordScrape(w, s) ==
    /\ job[w][s].pc = "recording"
    /\ Put(w, s, NoJob)
    /\ \/ /\ rows' = [rows EXCEPT ![s] = Recorded(@, job[w][s])]
          /\ streak' = [streak EXCEPT ![s] =
                           IF job[w][s].outcome = "failed" THEN @ + 1 ELSE 0]
          /\ UNCHANGED spent
       \/ MayFault /\ Faulted /\ UNCHANGED <<rows, streak>>
    /\ UNCHANGED <<now, page, modified, table>>

ReadStep(w, s) ==
    \/ Start(w, s)
    \/ AskUnchanged(w, s)
    \/ AskMoved(w, s)
    \/ Discover(w, s)
    \/ DiscoverNothing(w, s)
    \/ TouchListings(w, s)
    \/ SaveListings(w, s)
    \/ RetireListings(w, s)
    \/ ConsultClosing(w, s)
    \/ RecordScrape(w, s)

(***************************************************************************)
(* The rest of the world.                                                  *)
(***************************************************************************)

\* A process is killed or its context ends: the jobs it holds go no further,
\* and nothing is written for them.
Crash(w) ==
    /\ spent.crashes < MaxCrashes
    /\ ~Finished(w)
    /\ job' = [job EXCEPT ![w] = [s \in Sites |-> NoJob]]
    /\ spent' = [spent EXCEPT !.crashes = @ + 1]
    /\ UNCHANGED <<now, page, modified, rows, table, streak>>

\* The museum publishes another programme.
Edit(s) ==
    /\ spent.edits < MaxEdits
    /\ \E edition \in Editions[s] \ {page[s]} : page' = [page EXCEPT ![s] = edition]
    /\ modified' = [modified EXCEPT ![s] = @ + 1]
    /\ spent' = [spent EXCEPT !.edits = @ + 1]
    /\ UNCHANGED <<now, rows, table, job, streak>>

\* Time passes, but not past the longest a read can take, nor, when the batch
\* is small enough for the pacer, past the lease of a site still held.
Tick ==
    /\ now < MaxTime
    /\ \A w \in Workers, s \in Sites :
          Reading(w, s) => now < job[w][s].started + LongestRead
    /\ LeaseCoversBatch =>
          \A w \in Sweepers, s \in Sites : Held(w, s) => now + 1 < job[w][s].until
    /\ now' = now + 1
    /\ UNCHANGED <<page, modified, rows, table, job, streak, spent>>

Init ==
    /\ now = 0
    /\ page \in [Sites -> UNION {Editions[s] : s \in Sites}]
    /\ \A s \in Sites : page[s] \in Editions[s]
    /\ modified = [s \in Sites |-> 0]
    /\ rows = [s \in Sites |-> None]
    /\ table = [u \in URLs |-> Unlisted]
    /\ job = [w \in Workers |-> [s \in Sites |-> NoJob]]
    /\ streak = [s \in Sites |-> 0]
    /\ spent = [edits |-> 0, faults |-> 0, crashes |-> 0]

Next ==
    \/ \E w \in Sweepers : Claim(w)
    \/ \E w \in Visitors : Visit(w)
    \/ \E w \in Workers, s \in Sites : ReadStep(w, s)
    \/ \E w \in Workers : Crash(w)
    \/ \E s \in Sites : Edit(s)
    \/ Tick

Spec == Init /\ [][Next]_vars

\* The sweeper's loop never stops on its own, a read always comes to an end
\* (every request has a timeout), and the clock runs.  A crash is never owed.
FairSpec ==
    /\ Spec
    /\ WF_vars(Tick)
    /\ \A w \in Sweepers : WF_vars(Claim(w))
    /\ \A w \in Workers, s \in Sites : WF_vars(ReadStep(w, s))

(***************************************************************************)
(* Properties.                                                             *)
(***************************************************************************)

\* Two sweepers never have the same site in hand: the claim is what keeps two
\* crawlers off one museum's server (README "Safe to run more than one of").
ClaimsDisjoint ==
    \A s \in Sites, v, w \in Sweepers : Held(v, s) /\ Held(w, s) => v = w

\* consecutive_failures is the number of failures recorded in a row, although
\* it is computed from the row as it was when the site was selected.
FailuresAreConsecutive ==
    \A s \in Sites : rows[s] # None => rows[s].failures = streak[s]

Parked(s) == rows[s] # None /\ rows[s].parked

\* Only a site that failed MaxFailures times in a row is parked.
ParkedInARow ==
    \A s \in Sites : Parked(s) => streak[s] >= MaxFailures

\* A step that retires for process w what site s did not list.
RetiresFor(w, s) ==
    job[w][s].pc = "retiring" /\ job'[w][s].pc = "consulting" /\ spent' = spent

\* What a read stored is not retired by that same read ("anything last seen
\* before this was not seen by this read", runner.go).
RetireSparesStored ==
    [][\A w \in Workers, s \in Sites : RetiresFor(w, s) =>
          \A u \in UrlsOf(job[w][s].stored) :
             table[u].status = "live" => table'[u].status = "live"]_vars

\* A read that stored and retired without an error leaves exactly what it
\* stored on show for its site: no vanished listing survives it, however the
\* reads before it ended.
RetireLeavesStored ==
    [][\A w \in Workers, s \in Sites : RetiresFor(w, s) =>
          Live(table', s) = UrlsOf(job[w][s].stored)]_vars

\* A site somebody will owe a read within the horizon is taken up again, even
\* when the sweeper that claimed it died: its claim lapses.
Owed(s) ==
    /\ rows[s] # None /\ ~Parked(s) /\ rows[s].due <= MaxTime
    /\ \A w \in Workers : ~Held(w, s)

NothingStranded ==
    \A s \in Sites : Owed(s) ~> ((\E w \in Workers : Held(w, s)) \/ Parked(s))
=============================================================================
