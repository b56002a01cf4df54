# Verification of the museum catalogue

TLA+ models of the program in `src/`, the TLC runs that check them on small
instances, and TLAPS proofs of what matters most for every instance.

The program (`museum`, one Go binary) crawls museums from Wikidata, Wikipedia and
OpenStreetMap into object storage and PostgreSQL, enriches them from Nominatim by
way of Kafka, reads museums' own websites for what is on show, and serves it all
over HTTP.  What it promises is mostly about time and about other people's
servers: a listing is shown while it is current, a site is read when it is likely
to be wrong and by one reader, a visitor panning a map does not become traffic.

## The system

| Part | State it keeps | Operations | Talks to |
| --- | --- | --- | --- |
| Scheduler, `internal/sweep/schedule.go` | none (a site's interval and failures are handed to it) | `Next` | called by the runner |
| Runner, `internal/sweep/runner.go` | none | `Read`: ask, save or touch, retire, consult closings, record | scraper, store; called by the sweep and by the on-demand queue |
| Site records, `internal/postgres/sweeps.go` | `site_scrapes`: due date, interval, failures, validators, fingerprint, parked | `DiscoverSites`, `ClaimDueSites`, `TargetsNear`, `RecordScrape` | PostgreSQL |
| Exhibitions, `sweeps.go` and `postgres.go` | `exhibitions`: listings, when last seen, retired, closing | `SaveExhibitions`, `TouchSite`, `RetireUnseen`, `SoonestClose`, `MergeDuplicateExhibitions`, `PruneNavigationListings` | PostgreSQL |
| Sweep, `internal/command/sweep*.go` | a batch of claimed sites | claim, read, record, repeat | site records, runner |
| On-demand queue, `internal/api/scrape.go` | cells queued, running and cooling; areas being read; `area_scrapes` | `enqueue`, `admit`, `dispatch`, `work`, `collect`, `close`, recovery | store, runner |
| Scraper, `pkg/exhibitions` | per-host clock, robots rules | `ForSite`, `Fetch` | museums' websites |
| Enrichment, `internal/enrich`, `internal/service`, `pkg/kafkaclient` | items in flight, acknowledgements, offsets | consume, load, stages, write back, commit | Kafka, object storage, Nominatim |
| Crawl, `internal/command/crawl.go`, `internal/collect` | the merged catalogue, a checkpoint buffer | sources, merge, checkpoint, store | sources, object storage, PostgreSQL |
| Gates, `internal/ratelimit`, `internal/api/ratelimit.go` | next instant and spacing; a bucket per client | `Wait`, `SlowDown`, `SpeedUp`; `allow`, `acquire`, `release` | every client; every request |
| Places, `internal/api/places.go` | names resolved and not | lookup, remember | Nominatim, PostgreSQL |
| Museums, `internal/postgres/postgres.go`, `internal/keys`, `internal/storage` | museums by identity; objects by key | upsert, reconcile, create-only writes | crawl, reindex |

Where they meet is where they are hard.  Several sweepers and several areas read
the same sites through the same `Runner.Read`, whose statements are separate
transactions, so that everything else happens between two of them.  Decisions are
taken from rows read minutes before.  Processes are killed in the middle of a
batch.  Database errors are logged and passed over, so the statements after a
failed one still run.  The queue is five kinds of goroutine around three channels
and one mutex, and it has to end cleanly whichever of them leaves first.

What makes each part correct:

- **Scheduler**: intervals settle between floor and ceiling, failures space out,
  the next read is ahead, a closing date brings it forward.
- **Claims**: one sweeper to a site; a claim whose owner died is given up.
- **Runner and tables**: a read never retires what it has itself seen; afterwards
  the site shows what was stored and nothing else; "last seen" never goes back;
  a count of failures in a row is that; validators belong to the page they are
  offered for.
- **Queue**: one piece of work per cell; a cooling cell is left alone, a restart
  included; areas take turns; whatever is accepted ends; closing ends everything.
- **Enrichment**: a message is acknowledged once for each of its records, nothing read
  is lost between two goroutines, what is committed at the end of the stages is
  finished; a session drains, and ends.  (That nothing at all is committed before it is
  written back is what the program is meant for, and a finding.)
- **Crawl and merge**: what a source returned is stored; one museum per Wikidata
  id, whatever order the sources answer in.
- **Gates**: requests to a host are begun at a spacing, however many wait; a client is
  held to its rate and its slots; a page robots.txt forbids is not asked for.
- **Museums**: a merge loses no museum, and of what it deletes takes over what its columns
  let it; two Wikidata ids end in one row only at a doorway; a town's centre never
  passes for a surveyed position.
- **Scraper**: what it hands on is exhibitions with the dates that were meant,
  whatever is lost; all of them when nothing is; "unchanged" is true of what is held.

`PROJECT.json` lists every component with its status, and under `hazards` what is
hard to test in each, at its line, with the properties that watch it.

## Modules

| Module | Models | State and actions |
| --- | --- | --- |
| `Schedule` | `schedule.go` | no state: `PlanNext` is `Next`, split into the operators its comment names (lengthen, shorten, clamp, back off, recheck) |
| `ScheduleHistory` | the scheduler fed its own plans | one action, `Read`: any outcome, any soonest closing |
| `ExhibitionTable` | the statements on `exhibitions` | no state: each statement is an operator from table to table |
| `SiteSweep` | claims, `Runner.Read`, the world around them | below |
| `ScrapeQueue` | the on-demand queue | below |
| `Enrich` | enrichment, from the topic to the write back | below |
| `Merger` | `merge.go` | the entries, the two indexes and the keys that identify nobody; one action, `Add` |
| `Crawl` | `museum crawl` around the merger | below |
| `Catalogue` | the museums table and what writes it: upsert, promotion of ids, merges, `reindex`, `locate` | below |
| `ListingDates` | `dates.go`, and the dates of `extract.go` | no state: operators on sequences of tokens |
| `PageReading` | `extract.go`, `permanent.go`, `jsonld.go` | no state: which links are programme, navigation, entries |
| `SiteReading` | `service.go`: one site read again and again | below |
| `ListingForms` | what museums write and what their sites show: what the reader is measured against | no state: when a text states a run (`Writes`), when pages say what is meant (`SitesTell`), what a site shows to a read that nothing disturbs (`ShownBy`) |
| `RatePromise` | what any limit on requests promises | abstract: `Earn`, `Spend`, `Forfeit` |
| `Fetcher`, `Gate`, `RateLimiter` | the three limits; each implements `RatePromise` | below |
| `MC*` | instances | values of the constants |
| `SiteSweepProofs` (with the scheduler's), `CrawlProofs` (with the merger's), `ScrapeProofs` (the queue's and the reading's), `CatalogueProofs`, `EnrichProofs`, `FetcherProofs`, `GateProofs`, `RateLimiterProofs` | the proofs | |

`SiteSweep` extends `Schedule` and instantiates `ExhibitionTable`.  A worker (a
sweeper, which claims, or a visitor's area, which does not) holds one job per site
it has taken.  `Claim` is `DiscoverSites` followed by `ClaimDueSites`, `Visit` is
`DiscoverSites` followed by `TargetsNear`.  Then `Runner.Read` goes through
`Start`, `AskUnchanged` or `AskMoved`, `Discover` or `DiscoverNothing`,
`TouchListings` or `SaveListings` and `RetireListings`, `ConsultClosing` and
`RecordScrape`: one action for each request or statement, the job's `pc` saying
which comes next.  The job carries the row as selected (`known`), as the Go
`Target` does; it is what the plan is made from, whatever the row says by then.
Every statement may fail while `MaxFaults` allows, and the code goes on, as it
does.  `Edit` is a museum changing its programme, `Crash` a process dying with its
jobs, `Tick` time.

`ScrapeQueue` has one action per critical section, channel operation or statement:
`Ask`, `Send`, `Refuse` are `enqueue` (decide under the lock, send after it, take
it back); `Admit`, `LookupFails`, `LookupEmpty`, `Prepare`, `Join`, `OfferStopped`
are `admit` and `prepare`; `HandOut` is the dispatcher's send and a worker's
receive, one step because the channel is unbuffered; `Report` is the end of
`work`; `Count`, `Finish`, `MarkFinished`, `CollectorQuits` are `collect` and
`release`; `Close` and `Restart` the life of the process, `Restart` at any moment,
with `recoverCooldowns`.

`Enrich` is the four goroutines of `museum enrich` in a row, each with a `pc`:
`ReadMessage` and `ConsumerEnds` are `StartConsuming`; `Receive`, `SkipRecord`,
`Load` and `IteratorEnds` are `Iterator.Objects` (`Receive` also the consumer's
send, one step because the channel is unbuffered, and `HandOn`, `TakeItem`
likewise); `HandOn` and `AdapterEnds` are `pipelineItems`; `CheckContext`,
`TakeItem`, `PipelineReturns`, the three steps and `Finish` are `Pipeline.Process`.
`ReadMessage` fetches, commits what it fetched, as the reader belongs to a group, and
returns it unless that commit failed: then the message is passed over (`NextRead`).
Two variables are history: `left` has the items that were let go of (passed over by a
read, or in hand when the context or the process ended), `finished` the furthest
message that an item committed at the end of its stages.
`Ack` is the acker, called by the iterator for what it skips and by the pipeline
for what it ends.  `Cancel`, `Exit`, `Crash` and `Start` are the process; a session
starts at the group's committed offset, which is all that is left of the one
before, with the object store.  `pending` is one counter per message, as a message
is delivered once in a session.

`Crawl` extends `Merger`.  A source's goroutine merges a record (`Deliver`, or
`PassOn` from an edition's normaliser) and then checkpoints it (`Checkpoint`), two
critical sections with anything between them.  `Collect`, `InputEnds`, `Normalise`,
`PassOn` and `Abandon` are `englishNormalized`.  A batch is written by whoever took it
out of the buffer: a source that filled it, the ticker (`PeriodicFlush`), the end of
collection (`Flush`); `batch` says what each has in hand and `Save` is
`SaveMuseums` in its three outcomes.  `main` follows `runCrawl`: `Flush`,
`StartStoring`, `StartUpload`, `StatObject`, `PutObject` and `StoringEnds`
(`StoreFromChannel`), `Load` or `SkipLoad`, `FlusherEnds` and `Finish` (`close`).  A
crash is not an action: it leaves `rows` and `objects` as they are in any state, and
what it costs is in the type invariant's bounds on the buffer and on batches.

`Catalogue` keeps the rows of `museums`, each with the records it was made from, and
two commands at work on them.  A loader (a crawl, whose batches fail one at a time,
or a reindex, which stops) goes through `StartLoad`, then for each batch
`Promote` and `SaveBatch`, or `SaveRow` by row when that fails, then
`MergeDuplicates`, after which a crawl goes on with `MergeNameVariants` and
`MergeAliasVariants`; `locate` takes the list of rows without a position
(`StartLocate`), then writes them one by one (`Locate`, with the centres it remembers)
or places them at town centres.  A step is a statement or a transaction, and the process may
die between any two.  The merges are the SQL read as set comprehensions:
`Promotions` keeps the `DISTINCT ON` before the filter that follows it, and a merge
writes any one victim into its keeper when an `UPDATE` joins several.

`SiteReading` is `ForSite` request by request: `AskUnchanged`, `ReadHome`,
`ReadListing` and `ReadPermanent` (`harvest`),
`ReadInfo`, then `Record`, which is what `Runner.Read` does with the result.  The
museum's site is one of `Sites` and may change to another between any two requests
(`Edit`), any request may fail, and the context may end (`Cancel`).  `PageReading`
says what a page yields: a URL is a sequence of segments, the word lists are sets of
segments, a text is a sequence of tokens which `ListingDates` reads as `dates.go`
does, forms in the order of the patterns, qualifiers in a window before a date.

`ListingForms` states, without the reader's loops and tables, what the reading is to
come to.  `Writes` is the forms a run is written in, by the cases of `dates_test.go`;
`SitesTell` says of each page by itself that its entries are exhibitions and that its
texts and declarations write their runs.  `ShownBy` says which pages count by where they
stand among the links, not by what has been read before: a listing counts if fewer than
`MaxListingPages` are offered ahead of it and none of those lists anything, and so for
the permanent pages and the museum's own description.  `SitesTell` and `SitesShow`, that
what is shown is what the museum has on, are hypotheses of theorems about any sites;
`MCSiteReading` assumes both, so that TLC evaluates them on the sites of the run.

`Fetcher` has readers that reserve a turn of their host (`Reserve`, the critical
section of `waitFor`), wait, `Ask` for the origin's robots file when its rules are not
known (`RobotsArrive`), remember them (`Remember`, the other critical section) and ask
for the page (`PageArrives`); the client follows redirects by itself (`Redirected`: no
turn, no rules), any request `Fails`, any context may `Cancel`.
`Gate` has callers in the retry loop of the Wikipedia and Nominatim clients:
`Get`, `Reserve` a turn, `Ask`, then `Succeed`, `Fail`, or `Refuse` with the pause and the
`Retry` that follow, unless the request is given up (`Abandon`).  `RateLimiter` has
requests that read the clock (`Arrive`) before `allow`, `acquire` and `release`.  In
all three time is relative, so it has no bound: an instant is kept as the ticks left
until it, or its age up to where the code no longer tells ages apart.

`RatePromise` says that a key earns a tick of credit per tick, up to a capacity, and
pays a gap for each request.  `Promise == INSTANCE RatePromise WITH ...` in each of
the three maps `credit` to what is owed: in `Fetcher` and `Gate` the time since the
last turn came up and a gap for every reader whose timer is late, in `RateLimiter` the
tokens, brought up to now.  `KeepsItsRate` is `Promise!Spec`.

### What is abstracted

- **Time** is counted in ticks in `SiteSweep`: the configurations keep the order of
  the program's durations (a read is shorter than the lease, the floor is below
  the first interval and that below the ceiling), not their ratios.
  `ScheduleHistory` uses the program's own numbers, in hours.  An interval is
  rounded down to the unit where the code keeps fractions.
- Two instants read at different moments differ, so a read starts on a tick later
  than anything already seen on its site (`Start`); within a read, several
  statements may share a tick.
- A page is a set of entries, an entry a URL and a closing date; a fingerprint is
  the set it digests.  An edit numbers the page, and the number is its tag.
- `LIMIT`, `ORDER BY` and `SKIP LOCKED` are the set `DueBatches`: the batches one
  atomic statement may return.  `DiscoverSites` and the selection after it are
  one step, as nothing between them reads what the first one writes.
- The rows of one `SaveExhibitions` call land together, less those rejected.
- Redirects that would file a listing under another site's key, submissions, and
  museums that lose their coordinates are left out; a visitor's area is any set
  of sites that are not parked.
- In the queue a read is a job taken and later a report; what it does is
  `SiteSweep`.  A cell has a fixed number of sites.  Pruning and merging at the
  end of an area, which touch no state of the queue, belong to `Finish`.  The
  in-memory cooldown and its row hold the same instant and lapse together.
- `status` and the handlers only read.
- The topic has one partition and the group one member; nothing is appended while
  the model runs, as `Topic` may be any sequence.  Kafka is external: a commit moves
  the group to the message it names, backwards too, and one that fails or whose context
  is over may have been made.
- An enriched museum is `bare`, `placed` or `detailed`; what the steps merge, and
  the choice between coordinates, is left out.
- In the crawl a name stands for its normal form, and records are told apart in
  whatever form they have, as a record keeps the link it was found under; a source
  returns each once; of a row only its country is kept, and only rows with a Wikidata id, since
  those are what two writers share.  The bucket starts empty.  The counters of the
  checkpointer, which only go to the log, are the sets `saved` and `lost`.  The
  reconciliation of stored twins after the load is `Catalogue`'s.
- In the catalogue positions are points of a line and names carry their significant
  words as a set.  A row's aliases are the normalized ones, which the rules compare, and
  which not every merge unites.  The other columns go by what the merges do with them:
  the locality stands for those that only some take over (street, postcode, `page_id`,
  `source_page`), the set of records for those that all unite (sources, classes, aliases
  as written).  Promotion and its insert, and a placement at town centres, are
  single steps, as each is one statement or one transaction.
- In the scraper a year has ten days and a page is links, a heading and declared
  events; patterns, languages and HTML are data.  Redirects are left out, as are the
  sort order of the result and the attempt to read dates from a title alone.
  `permanentPathHints` (`PermanentSegments`) and `permanentWords` as far as an address is
  tested for them (`PermanentNames`) are two sets.  A host tags a
  page with its last edit.  No day passes between reads.
- In the limits a timer that is due may fire as late as it likes, and a tick finds
  every reader where it is: that a request takes time needs no clock.  Bodies are
  left out of `Fetcher`; redirects, to any page of any origin, are in it
  (`Redirected`), but what is promised is of the requests that are begun.

## Runs

| Run | Question | Bounds, and why they are enough |
| --- | --- | --- |
| `ScheduleHistory` | Do intervals converge, retries space out, closings count, over every history? | the program's constants; closings before, at and around every boundary of the comparison; the state is finite, so histories of any length |
| `Sweep` | Do claims, counts and retirement hold with two sweepers, a crash, a failed statement and a changing page, and is every owed site taken up again? | one site is what two sweepers contend for; five ticks let a claim lapse and be taken again after a crash; two failures park |
| `SweepOverlap` | Do a sweeper and an area reading one site retire each other's listings? | both may be anywhere in their read; no validators, so no 304 |
| `Queue` | Is a cell one piece of work, do turns and cooldowns hold, across a restart? | two of every goroutine that contends, three cells with one, two and two sites, so that an area leaves the list at its head, middle and end; a queue of one, so that it is full |
| `QueueLive` | Does everything accepted, and every close, end? | one of each goroutine, a failed statement, a timeout, a restart, a cell with no sites |
| `Enrich` | Are acknowledgements accounted for, is nothing lost between the goroutines, is what the pipeline commits finished, do sessions drain and end? | a message of two records, one that does not parse, a heartbeat, a museum twice; every request and every commit may fail, those of a read included; an interrupt or a crash anywhere and a second session, which is where an offset too far shows |
| `Crawl` | Is every record merged once, checkpointed once and stored, through an interrupt and a failure, do identities hold, and does the crawl end? | a record for each kind of evidence (an id and a stated country, an id and a wrong country, a name, an edition's name), in every order of arrival; batches of two, so that each writer of checkpoints gets one; one failure anywhere |
| `Catalogue` | Does what a merge deletes go to a survivor, with what the columns of that merge take over, do ids leave their rows and meet only at a doorway, do centres stay marked? | five records of one or two museums: three names of the same words, an alias, two ids, one of them under two names, two records without one, towns that nest; any three of them in two loads, so that a row of the first is a twin, a keeper or a victim of the second, and three rows are a chain; one failed statement, one death, one lookup |
| `SiteReading` | Does a read hand on what is on show and nothing else, with its dates, and is "unchanged" true? | a site for each shape the comments in the code describe, in each edition and with runs written in each form; three reads, an edit, a lost page and an ended context anywhere: a second read offers what the first one stored, a third what the second did |
| `Fetcher` | Is a host asked once per interval, and no forbidden page asked for? | two readers, http and https of one host, so that turns are shared and rules are not; every file of groups and rules of two lengths that overlap, served as HTML or not; three fetches, so that one finds what another remembered; one redirect of each request, to either page of either origin (the client's own bound is ten: a second one does what the first did) |
| `Gate` | Is an endpoint asked once per minimum interval, is a Retry-After honoured, does the gate come back? | two callers and three attempts; a floor of four and a ceiling of sixteen, so that widening doubles twice and narrowing rounds; a refusal that asks for more, and for less, than the backoff |
| `RateLimiter` | Does a client get its burst, its rate and its slots, and no more? | three requests of two clients, so that one client has two at once while another's request sweeps; instants up to a tick old; the shortest life of a bucket the assumption allows |

The properties are stated, with the code they are about, at the end of each module.
With two workers a run takes from ten seconds to about four minutes, and
reaches from some thousands of states (`ScheduleHistory`) to 2.8 million
(`RateLimiter`).

### What the code does not keep

`findings` in `PROJECT.json` lists where the code and what is said of it part, each
with its lines.  Some are stated as properties of the modules, which no run checks
because the code breaks them; adding one to its configuration shows how:

| Property | Add it to | What TLC finds |
| --- | --- | --- |
| `RetireSparesStored` with `TagRule = "etag"`, `MaxTime = 4` | `SweepOverlap` | a 304 sets "last seen" back, and another reader retires what it stored |
| `CooldownOnlyAfterReading` | `QueueLive` | an area that ran out of time is locked for a day unread |
| `CommittedIsWritten` with `Faults = {}` | `Enrich` | the read commits a museum before any stage has seen it |
| `MergedFormStands` | `Crawl` | a checkpoint still being written lands over the merged form of its museum |
| `OutageErasesNothing` | `SiteReading` | one listing page is lost, the permanent pages are read, and the programme is retired |
| `RedirectsTakeTurns` | `Fetcher` | a request is redirected in a tick in which its host has no turn |
| `RedirectsAreJudged` | `Fetcher` | an allowed page leads to one the file of its origin forbids |

Some properties are stated with the exception the code needs.  `Catalogue!KeepersTakeOver`
names what each merge takes over (`TakesOver`): `MergeDuplicates` leaves out the
normalized aliases, `MergeNameVariants` the locality and the columns like it; it
speaks of statements that fold one row into a keeper, not two.  `OnlyMergesLaunder`
excepts the merges.  `IdsAreKept` excepts two rows of the same significant words within
the doorway's distance of each other, in `MergeNameVariants` and nowhere else.
`KeepsItsRate` of the limiter allows for the age of the oldest instant.
`EveryOccurrenceIsCovered` is about bounds that are known: one that is open takes that
of the occurrence it is folded with.  `RobotsAreRespected` leaves out readers that go by
no rules, because the file is refused or a request for it failed, and it and
`KeepsItsRate` of the fetcher the requests that follow a redirect.  The comment above
each says so, and a finding says what it costs.
The other findings come from reading the code next to what it says: of the sweep
(a batch that outlives a lease sized for one site, visible with
`LeaseCoversBatch = FALSE`; validators of another page; a past closing that hides
a later one; rejected rows retired), the queue, enrichment, objects under one key,
refresh, searches that show retired rows, date and link reading, and robots files
that are refused for their content type.

`CHECK_DEADLOCK FALSE` is set where the model really stops: time ends at
`MaxTime`, a parked site is read no more, a closed queue stays closed, a crawl ends,
loads and reads are bounded.

### Fairness

`SiteSweep!FairSpec`: the clock ticks; a sweeper whose batch is finished claims
again (its loop only ends with its context); a read goes on (every request and
statement has a deadline).  Visitors, edits and crashes are owed nothing.

`ScrapeQueue!FairSpec`: every goroutine that can move does, a read ends, a
statement ends.  Requests, closes, restarts, timeouts and the end of a cooldown
are owed nothing.  `HandOut` has fairness per worker because the dispatcher's
select offers a site to whichever worker is ready.

`Enrich!FairSpec`: every goroutine that can move does, and the process exits when
its pipeline has returned and its consumer has ended; requests have deadlines or
the context.  Interrupts, crashes and starts are owed nothing.

`Crawl!FairCrawlSpec`: something always moves while something can, other than an
interrupt, the write deadline or a source returning one more record: sources end,
and requests and statements do.  (A checkpoint's context has no deadline of its own;
that its statement ends is PostgreSQL's part.)

`Catalogue`, `SiteReading` and the three limits have safety properties only and state no
fairness: that a read or a load ends follows from a bounded number of requests.

## Proofs

A theorem holds for every value of the constants that satisfies the assumptions named
in its modules; TLC evaluates those on every instance.  The library's induction
theorems take the claim as an operator, which the provers cannot instantiate, so
where an argument is by induction it looks at the least exception instead: the set of
numbers for which the claim fails has a least element (`WFMin`), and that one cannot
fail.

**`SiteSweepProofs`**, the scheduler.  `PlanIsAhead` bounds every plan: a due date strictly after the
read and at most the ceiling away.  `HistoryIsTimely`, `HistoryHonoursClosings` and
`HistoryBacksOff` lift it to histories; the last needs `BackoffAssumption` (the
doubling stays below the ceiling and a site is parked before the cap makes two gaps
equal), which the program's numbers satisfy.  `HistoryConverges` is about integer
steps with rounding: lengthening and shortening keep the order of intervals, so a
site's interval is always between those of two imagined sites, one that started at
the ceiling and has met its streak of changes, one that started at the floor and has
met its streak of quiet reads (`Between`).  How long these two take is arithmetic:
the hypothesis `ReadsAreEnough`, and `ProgramReadsAreEnough` shows that with two days
and sixty five changes (60, 30, 15, 7.5, 3.75, 2 days) and nine quiet reads are enough.

**`SiteSweepProofs`**, the sweep, for any sweepers, sites, URLs and bounds.

- `SweepIsTyped` needs nothing more.  `TypeOK` alone is not inductive: a taken
  site must have a row (`TakenAreKnown`).
- The rest but the last assume `SweepersAlone`: no visitors, and batches that end within their
  lease.  The findings about the sweep show that either half is needed.
- `SweepersKeepApart`: `ClaimsDisjoint` is not inductive, since it says nothing of
  why a second claim fails.  `HeldUnderLease` does: while a sweeper holds a site
  the row's due date is the end of its lease, which is still ahead, so no other
  sweeper finds it due; `Tick` may not pass it.
- `FailuresCountRuns`: a plan is made from the row as selected, so the invariant
  (`CountInv`) says that while a site is held its row still has the failures that
  were selected.  That follows from the claim: nobody else records.
- `ParkingIsEarned`: the same, with "parked only at `MaxFailures`".
- `RetirementIsSafe`: what is stored by a read is seen no earlier than its start
  (`StoredIsSeen`) until it is retired, because the only writer of the site's
  listings is that read.
- `RetirementIsComplete`: the other half, that nothing else stays on show.  Until a
  read retires, whatever the site shows that it did not store was seen before it began
  (`RestUnseen`), also what reads that died between the two statements left behind.
  It assumes `OwnListings` besides: what two sites both list is handed to whichever
  stored it last, so that a read of the one may lose rows to the other.
- `OverlapIsSafe` is `RetirementIsSafe` without claims: any sweepers and visitors in one
  site, leases that lapse, but `Untagged`, as in the run `SweepOverlap`.  Its invariant
  is stronger where the other's leans on the lease (`StaysSeen`: also of what another
  read has retired meanwhile), and is kept because without tags nothing is touched and every
  other statement only raises "last seen" (`SeenRises`).  With tags the property fails,
  which is a finding.

**`CrawlProofs`**, the merger, for any records in any order of arrival.

- `MergerIsTyped`, `IdsAreUnique`, `IdsStayApart` and `StatementsPrevail` are parts
  of one inductive invariant, `MergerInv`: merging into an entry found by name is
  safe for ids because the entry had none or the record has none, and that in turn
  needs `OneEntryPerId`, by which the record's id names no other entry.
- `SharedNamesIdentifyNobody` is not inductive: an entry gains keys by being merged
  into, and by gaining a country all its names become keys at once.
  `KeysAreIndexed` is: each key of each entry is in the index, and is either that
  entry's or ambiguous, so a key two entries share is ambiguous by whichever of
  them the index does not name.

**`CrawlProofs`**, the crawl.  `CrawlMerges` says that the crawl implements the merger:
every step of it is an `Add` of one record, or leaves the entries and the indexes alone.
The refinement mapping is the identity; what it needs is that only records reach
the merger, which for a normalised source is the invariant `SourcesInv`: a batch
being collected is what the source returned, so that it is restated once, and a
batch being passed on has something in it.  `CrawlKeepsIdentities` then carries the
merger's theorems over to the crawl.  `CrawlIsSound` proves `CrawlInv`, in layers, each
of which is inductive given those before it:

- `Collected`: a record arrives once (`ArriveOnce`).  A normaliser restates records, so
  the invariant speaks of every form a record takes, and `CrawlAssumption` supplies
  what the sources do: a record keeps the link it was found under, so that the forms
  of two records never meet.
- `CheckpointInv`: of the buffer, the batches that are being written and the sets
  `saved` and `lost`, a record is in one at most, and there once (`CheckpointedOnce`);
  whatever is merged and checkpointed is in one of them (`NothingLeftBehind`).
  Each step moves what one of these stops holds to another (`Stops`, `Contents`), and
  the proof is about a family of disjoint sets of which two change.  That the pool is
  closed after the last writer and that all that was buffered is answered for at the
  end follow from it.
- `StoreInv`: once the main goroutine has left the collection nothing is merged, so
  the entries that are uploaded are those of the catalogue; what an upload counts as
  stored is in the bucket (`UploadsAreTrue`).  Hence
  `InterruptedCrawlsAreStored`.
- `LoadInv`: every entry the load has passed and not written is in a batch that failed
  (`MissesArePaidFor`), a batch per failure.  Hence `FailuresCostNoMore`.

**`ScrapeProofs`**, the queue, for any numbers of callers, admitters, workers, cells and
sites.  `QueueInv` is inductive as it is stated, because what it needs besides its
first three parts is part of it: where a cell may be (`OnePlacePerCell`), what its
state tells `enqueue` (`StatesAreTrue`: also that no cell stays marked that nobody is at work
on), and `SitesAreCounted`, which balances the
sites handed out against those being read, reported and counted; without it a
collector could release a cell that is still read, and the dispatcher index past an
area's sites.  `NobodyReadsAReleasedCell` is that balance at the moment of release.
`AreasTakeTurns` needs `PassedComeFirst`: an area that was passed over stands before
whoever passed it, in the order of the turn, and the list is rotated, shortened in
the middle and appended to without breaking this.  (An area that is offered to the
dispatcher joins at the end of the list, which is not the end of the turn, so it may
be served before areas that were there: it was never passed, and the property says
nothing of it.)  `CooldownsOutliveTheProcess` rests on `CooldownsAreMarked`: while no
statement has failed, a cell that cools has its row or a goroutine about to write it.

**`ScrapeProofs`**, the reading, for any sites made of pages (`IsPage`), any edits and
any requests lost.

- `UnchangedIsTrue`: the tag kept need not be that of the page recorded with it, since
  a read without a tag leaves the old one in its column.  `TagsAreTrue` says why this
  does no harm where a tag is the time of an edit: the page asked about still reads as
  it did when the listings were taken from it, if it was not edited after the tag
  (`StillReads`), and a later edit has a later tag.
- `RunsAreReadAsWritten` and `TextsAreReadAsWritten` are about texts by themselves, of any
  length: the dates of a text are found at the places of its dated tokens, in order, so
  that a text with two has its run between them, whatever is around them; a year
  left out is that of the sibling, and the words before a date decide which bound it
  is.  `NewYearSwapsTheEnds` is what becomes of the one form that is not read as written,
  a run over a new year with the opening year left out: a finding, stated exactly.
- `ListingsAreMeant` proves `ReadingInv` for sites that satisfy `SitesTell`.  `SentInv` says
  where a read can have been sent: to pages of the host which a front page of some
  edition, or the convention, offered, and that the first of these is among the pages
  read as listings before any other is looked at, since what a page yields depends on
  which pages are listings.  `MeantInv` says of all that was found, and of all that is
  stored, that it was harvested from a page that says what is meant; ranking, taking
  from lists and folding titles lose or add nothing (`LinksStayOnTheHost`,
  `HarvestTells`, `DedupeLeads`).  `ReadsStayInBudget` needs no hypothesis: each loop
  makes a request for a page it has not read, and counts it (`BudgetInv`).
- `ReadsAreWhatIsShown` says that the loops of `ForSite` compute `ShownBy`, for any sites and
  with no hypothesis; `UndisturbedReadsFindAll` is `FindsWhatIsOn` from it, for sites
  that show what is on (`SitesShow`).  Its invariant, `CourseInv`, follows a read from loop to loop as
  long as nothing has disturbed it.  What a loop has left to try is the rest of what was offered, in
  its order (`LeftOf`), so that the next page is the one ahead of which all has been tried
  (`HeadIsNext`); so the pages read are those with a place within the budget, and
  the loop ends when there is no other.  A permanent page that was read as a
  listing is passed over without being counted, which is why the two budgets are stated of different
  sets.
- `OccurrencesAreCovered` is about what one run of `ForSite` makes of a title that
  occurs on several pages.  `Dedupe` is a recursive function of the list of entries, and
  its least exception (above) would be an entry whose `Widen` lost a date; that needs
  every date read to be a day or none, whatever the text says (`ParsedType`) or the
  page's markup declares (`StampedType`).

**`CatalogueProofs`**, for any records, names, distances, loads, faults and placements.
Every statement does one of three things to the table: it adds records to rows
(`Grows`), moves rows about (`Moves`), or folds pairs of rows (`Updates`, then the
victims go), and each keeps the unique index (`Sound`).

- `CatalogueIsSound`: besides, a crawl's records carry distinct ids
  (`CrawlsAreMerged`), so its promotions fit the index; a batch is sound by the least
  record at which its upserts would not be.
- `MergesAreSafe`: of the pairs a merge finds only those are folded of which no row is on
  both sides (`Foldable`), so a victim's keeper survives the statement; with one
  victim each, the keeper has what `TakesOver` names of the victim.  What that is
  differs from merge to merge, so the lemmas carry the statement as a parameter (`pc`).
- `RowsKeepIds`: a statement that deletes no row gives no row an id of another museum; a
  fold that is `Respectful` deletes only rows without an id, but at a doorway, so that an
  id that is new in a keeper came with a row that had got it before, or by the doorway.
- `PositionsAreHonest` goes over the same three kinds of statement.

**`EnrichProofs`**, for any topic and any faults.  `EnrichIsSound` proves `EnrichInv`.  Its
last part, that no item is on its way up to where the pipeline has committed, needs
the others: items are handed on in order (`HandedOnInOrder`), so what the pipeline
finishes comes before all that is left; an acker waits for exactly what is left of its
message (`AckersAwaitWhatIsLeft`, counted by cardinality), so the last acknowledgement
finds nothing left of it; and what the reader is past and nobody holds has ended or was
let go of where the code does so (`NothingIsDropped`).  A new session owes that to the
one before, and to `NothingIsCommittedUnread`: it starts at the group's offset, which
is no further than the reader had come.  The commits of the reads themselves, and of
the iterator, do overtake: that is a finding.

**`GateProofs`**, **`FetcherProofs`** and **`RateLimiterProofs`**, for any number of
callers, readers, requests, clients and hosts.

- `GateKeepsItsRate`, `FetcherKeepsItsRate` and `LimiterKeepsItsRate` are the refinements of
  `RatePromise`, step by step: initial states map to initial states, and each action
  to `Earn`, `Spend`, `Forfeit` or a stutter.  For the first two the invariant is
  `TurnsAreSpaced`: the turns reserved are a minimum interval apart from each other,
  from the last that came up and from the next to be had, so that a tick makes at
  most one reader late.  For the limiter it is `DebtIsCovered`: a bucket is in debt by
  no more than the age of an instant that was read before the lock.
- `GateIsKept`: `SpacingRecovers` bounds the spacing after each success by a recursive
  function of the floor, and the floor is regained because narrowing is monotone and
  strictly decreasing above it.  `RefusalsAreHonoured` needs `SleepsAsAsked`, that a sleep
  is never shorter than what is owed.
- `LimiterIsSound`: `SlotsAreCounted` relates a set of requests to a counter, through
  sweeps; a bucket that counts a request is not swept.
- `FetcherIsSound`: `RequestsAreReaders` counts the readers that may still ask for an
  origin's robots file; a redirect leaves a fetch what it was for (`MovedOn`), so the rules
  learned are held for the origin they were asked of.  `FetcherObeysRobots` assumes
  `OneCrawlerPerGroup`, files whose groups name one crawler each: `parseRobots` takes a rule for the crawler named last, so in
  a group of several it reads the others' rules wrong, which is a finding.  From there
  the rules held are those published or none (`RulesAreTheOrigins`), and the longest match
  of `Allows` is the most specific rule of the file.

**Model-checked only**: liveness (`NothingStranded`, `EveryAreaEnds`, `CloseFinishes`,
`EverySessionDrains`, `InterruptEnds`, `CrawlEnds`), which is outside the prover's reach, and
that the sites of `MCSiteReading` satisfy the hypotheses `SitesTell` and `SitesShow`, which is
evaluated.  Every other property of every run is a theorem.

## Plan

What the plan named is done.  What would come next is outside the present modules: the
museums that share one sweep of `museum refresh`, and the maintenance statements on
exhibitions, each a component of its own.

## Not modelled

- `Stream`, `ForMuseums` and `museum refresh`: museums spread over workers, each read
  being `SiteReading`, their results saved by the modelled statements.
- `MergeDuplicateExhibitions` and `PruneNavigationListings`: maintenance statements on
  the exhibitions table; that the first ignores retired rows is a finding.
- The crawlers of Wikidata, Wikipedia and OpenStreetMap but for the loop around their
  requests; the gazetteer (`pkg/geo`), the quality report, address parsing: functions
  from answers to records, whose content is data here.
- The HTTP handlers and the rankings of the searches, which only read; the cache of
  place names, a read-through cache of single statements.
- Flags, environment, signals.
