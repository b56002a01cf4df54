---------------------------- MODULE ScrapeQueue ----------------------------
(***************************************************************************)
(* The on-demand queue of internal/api/scrape.go: someone panning a map    *)
(* asks for an area (a cell of a grid) to be read, admitters look its      *)
(* museums' sites up, one dispatcher hands the sites of every waiting area *)
(* out in turn, a pool of workers reads them, and one collector per area   *)
(* counts the reports and starts the area's cooldown.                      *)
(*                                                                         *)
(* One action per critical section, channel operation or statement of the  *)
(* database.  What a read does to the catalogue is SiteSweep; here it is a *)
(* site taken and, some time later, a report.  An area is identified by    *)
(* its cell, which OneAreaPerCell justifies.                               *)
(***************************************************************************)
EXTENDS Integers, FiniteSets, SequencesExt

CONSTANTS
    Cells,
    Museums,        \* Museums[c]: how many sites there are to read in cell c
    Callers, Admitters, SiteWorkers,
    QueueDepth,     \* scrapeQueueDepth
    MaxMuseums,     \* scrapeMaxMuseums
    None,
    MaxAsks, MaxFaults, MaxRestarts, MaxTimeouts   \* bounds of the model

Area == [targets : Nat, sent : Nat, results : Nat, read : Nat,
         cut : BOOLEAN,       \* some read ran into the end of the area's context
         expired : BOOLEAN,   \* the context's deadline has passed
         collector : {"counting", "marking", "gone"}]

ASSUME QueueAssumption ==
    /\ None \notin Cells \cup Area /\ IsFiniteSet(SiteWorkers)
    /\ Museums \in [Cells -> Nat]
    /\ QueueDepth \in Nat \ {0} /\ MaxMuseums \in Nat \ {0}
    /\ MaxAsks \in Nat /\ MaxFaults \in Nat /\ MaxRestarts \in Nat /\ MaxTimeouts \in Nat

VARIABLES
    state,       \* state[c]: what enqueue knows of the cell ("idle": no entry)
    progress,    \* progress[c]: sites read, or None when it is not being read
    cooling,     \* cells whose entry in done is younger than the cooldown
    requests,    \* the channel of requested cells
    caller,
    admitter,
    area,        \* area[c]: the area being read in cell c, or None
    areas, turn, dispatching,   \* the dispatcher's locals, and whether it runs
    worker,
    marked,      \* area_scrapes rows younger than the cooldown
    stopping,    \* q.stop is closed
    passed,      \* passed[c]: areas served since c last was (history)
    spent

vars == <<state, progress, cooling, requests, caller, admitter, area, areas, turn,
          dispatching, worker, marked, stopping, passed, spent>>

Idle == [pc |-> "idle", cell |-> None]
Gone == [pc |-> "gone", cell |-> None]

TypeOK ==
    /\ state \in [Cells -> {"idle", "queued", "running"}]
    /\ progress \in [Cells -> Nat \cup {None}]
    /\ cooling \subseteq Cells /\ marked \subseteq Cells
    /\ requests \in Seq(Cells)
    /\ caller \in [Callers -> [pc : {"idle", "sending", "refused"}, cell : Cells \cup {None}]]
    /\ admitter \in [Admitters -> [pc : {"idle", "preparing", "offering", "marking", "gone"},
                                   cell : Cells \cup {None}]]
    /\ area \in [Cells -> Area \cup {None}]
    /\ areas \in Seq(Cells) /\ turn \in Nat \ {0} /\ dispatching \in BOOLEAN
    /\ worker \in [SiteWorkers -> [pc : {"idle", "reading", "gone"}, cell : Cells \cup {None}]]
    /\ stopping \in BOOLEAN
    /\ passed \in [Cells -> SUBSET Cells]
    /\ spent \in [asks : 0 .. MaxAsks, faults : 0 .. MaxFaults,
                  restarts : 0 .. MaxRestarts, timeouts : 0 .. MaxTimeouts]

MayFault == spent.faults < MaxFaults

Faulted == spent' = [spent EXCEPT !.faults = @ + 1]

(***************************************************************************)
(* enqueue, in the goroutine of a request: decide under the lock, send     *)
(* after it, and take the decision back when the channel is full.          *)
(***************************************************************************)

\* Mutant: only an area being read is turned away, not one that is waiting.
AnswerIfRunning(c) ==
    IF c \in cooling THEN "cooling"
    ELSE IF state[c] = "running" THEN "running" ELSE "send"

\* What the critical section finds: an answer, or that the cell is free.
Answer(c) ==
    IF c \in cooling THEN "cooling"
    ELSE IF state[c] # "idle" THEN state[c] ELSE "send"

Ask(k, c) ==
    /\ caller[k].pc = "idle"
    /\ spent.asks < MaxAsks
    /\ spent' = [spent EXCEPT !.asks = @ + 1]
    /\ IF Answer(c) = "send"
       THEN /\ state' = [state EXCEPT ![c] = "queued"]
            /\ caller' = [caller EXCEPT ![k] = [pc |-> "sending", cell |-> c]]
       ELSE UNCHANGED <<state, caller>>
    /\ UNCHANGED <<progress, cooling, requests, admitter, area, areas, turn, dispatching,
                   worker, marked, stopping, passed>>

Send(k) ==
    LET c == caller[k].cell IN
    /\ caller[k].pc = "sending"
    /\ IF Len(requests) < QueueDepth
       THEN /\ requests' = Append(requests, c)
            /\ caller' = [caller EXCEPT ![k] = Idle]
       ELSE /\ caller' = [caller EXCEPT ![k].pc = "refused"]
            /\ UNCHANGED requests
    /\ UNCHANGED <<state, progress, cooling, admitter, area, areas, turn, dispatching,
                   worker, marked, stopping, passed, spent>>

Refuse(k) ==
    /\ caller[k].pc = "refused"
    /\ state' = [state EXCEPT ![caller[k].cell] = "idle"]
    /\ caller' = [caller EXCEPT ![k] = Idle]
    /\ UNCHANGED <<progress, cooling, requests, admitter, area, areas, turn, dispatching,
                   worker, marked, stopping, passed, spent>>

(***************************************************************************)
(* release: its critical section, then MarkAreaScraped outside the lock.   *)
(***************************************************************************)

Release(c, scraped) ==
    /\ state' = [state EXCEPT ![c] = "idle"]
    /\ progress' = [progress EXCEPT ![c] = None]
    /\ cooling' = IF scraped THEN cooling \cup {c} ELSE cooling

\* Mutant: the write is skipped once the server is closing.
MarkUnlessStopping(c) ==
    /\ marked' = IF stopping THEN marked ELSE marked \cup {c}
    /\ UNCHANGED spent

\* The row is written, or the database does not answer in time.
Mark(c) ==
    \/ marked' = marked \cup {c} /\ UNCHANGED spent
    \/ MayFault /\ Faulted /\ UNCHANGED marked

(***************************************************************************)
(* admit and prepare.                                                      *)
(***************************************************************************)

\* Stopping or not: a select with both channels ready takes either.
Admit(a) ==
    /\ admitter[a].pc = "idle"
    /\ requests # <<>>
    /\ requests' = Tail(requests)
    /\ admitter' = [admitter EXCEPT ![a] = [pc |-> "preparing", cell |-> Head(requests)]]
    /\ UNCHANGED <<state, progress, cooling, caller, area, areas, turn, dispatching,
                   worker, marked, stopping, passed, spent>>

\* What TargetsNear returns: every site of the cell, up to its limit.
TargetCount(c) == IF Museums[c] > MaxMuseums THEN MaxMuseums ELSE Museums[c]

FreshArea(n) == [targets |-> n, sent |-> 0, results |-> 0, read |-> 0,
                 cut |-> FALSE, expired |-> FALSE, collector |-> "counting"]

\* TargetsNear fails: the cell is free again, with no cooldown.
LookupFails(a) ==
    /\ admitter[a].pc = "preparing"
    /\ MayFault /\ Faulted
    /\ Release(admitter[a].cell, FALSE)
    /\ admitter' = [admitter EXCEPT ![a] = Idle]
    /\ UNCHANGED <<requests, caller, area, areas, turn, dispatching, worker, marked,
                   stopping, passed>>

LookupEmpty(a) ==
    /\ admitter[a].pc = "preparing"
    /\ TargetCount(admitter[a].cell) = 0
    /\ Release(admitter[a].cell, TRUE)
    /\ admitter' = [admitter EXCEPT ![a].pc = "marking"]
    /\ UNCHANGED <<requests, caller, area, areas, turn, dispatching, worker, marked,
                   stopping, passed, spent>>

MarkEmpty(a) ==
    /\ admitter[a].pc = "marking"
    /\ Mark(admitter[a].cell)
    /\ admitter' = [admitter EXCEPT ![a] = Idle]
    /\ UNCHANGED <<state, progress, cooling, requests, caller, area, areas, turn,
                   dispatching, worker, stopping, passed>>

\* The area is running and has its collector before the dispatcher knows it.
Prepare(a) ==
    LET c == admitter[a].cell IN
    /\ admitter[a].pc = "preparing"
    /\ TargetCount(c) > 0
    /\ state' = [state EXCEPT ![c] = "running"]
    /\ progress' = [progress EXCEPT ![c] = 0]
    /\ area' = [area EXCEPT ![c] = FreshArea(TargetCount(c))]
    /\ admitter' = [admitter EXCEPT ![a].pc = "offering"]
    /\ UNCHANGED <<cooling, requests, caller, areas, turn, dispatching, worker, marked,
                   stopping, passed, spent>>

\* q.ready <- area, an unbuffered channel: the dispatcher takes it as it is sent.
Join(a) ==
    LET c == admitter[a].cell IN
    /\ admitter[a].pc = "offering"
    /\ dispatching
    /\ areas' = Append(areas, c)
    /\ passed' = [d \in Cells |-> IF d = c THEN {} ELSE passed[d] \ {c}]
    /\ admitter' = [admitter EXCEPT ![a] = Idle]
    /\ UNCHANGED <<state, progress, cooling, requests, caller, area, turn, dispatching,
                   worker, marked, stopping, spent>>

\* Mutant: the area is sent without a way out.
OfferBlocks(a) == FALSE

\* The area's context is cancelled; nothing will be handed out for it.
OfferStopped(a) ==
    /\ admitter[a].pc = "offering"
    /\ stopping
    /\ area' = [area EXCEPT ![admitter[a].cell] =
                   IF @ = None THEN None ELSE [@ EXCEPT !.expired = TRUE]]
    /\ admitter' = [admitter EXCEPT ![a] = Idle]
    /\ UNCHANGED <<state, progress, cooling, requests, caller, areas, turn, dispatching,
                   worker, marked, stopping, passed, spent>>

AdmitterQuits(a) ==
    /\ admitter[a].pc = "idle"
    /\ stopping
    /\ admitter' = [admitter EXCEPT ![a] = Gone]
    /\ UNCHANGED <<state, progress, cooling, requests, caller, area, areas, turn,
                   dispatching, worker, marked, stopping, passed, spent>>

(***************************************************************************)
(* dispatch and work.                                                      *)
(***************************************************************************)

\* Mutant: the turn moves on although the list has closed up behind it.
TurnPastRemoved(i, removed, left) == IF i + 1 > left THEN 1 ELSE i + 1

\* Whose turn is next, with left areas in the list: removing an area brings the
\* one behind it to its place.
NextTurn(i, removed, left) ==
    LET next == IF removed THEN i ELSE i + 1
    IN  IF next > left THEN 1 ELSE next

\* Mutant: the area is dropped with one site still to hand out.
LastButOne(c) == area[c].sent + 2 >= area[c].targets

LastSite(c) == area[c].sent + 1 = area[c].targets

\* offer <- job: an idle worker takes the next site of the area whose turn it is.
HandOut(w) ==
    LET c         == areas[turn]
        removed   == LastSite(c)
        remaining == IF removed THEN RemoveAt(areas, turn) ELSE areas
    IN
    /\ dispatching /\ areas # <<>>
    /\ worker[w].pc = "idle"
    /\ worker' = [worker EXCEPT ![w] = [pc |-> "reading", cell |-> c]]
    /\ area' = [area EXCEPT ![c].sent = @ + 1]
    /\ areas' = remaining
    /\ turn' = NextTurn(turn, removed, Len(remaining))
    /\ passed' = [d \in Cells |-> IF d = c THEN {} ELSE passed[d] \cup {c}]
    /\ UNCHANGED <<state, progress, cooling, requests, caller, admitter, dispatching,
                   marked, stopping, spent>>

DispatcherQuits ==
    /\ dispatching /\ stopping
    /\ dispatching' = FALSE
    /\ UNCHANGED <<state, progress, cooling, requests, caller, admitter, area, areas, turn,
                   worker, marked, stopping, passed, spent>>

\* The read is over, whole or cut short by its context, and deposited in the
\* area's channel, which has a place for every site.
Report(w) ==
    LET c == worker[w].cell IN
    /\ worker[w].pc = "reading"
    /\ \E cut \in {FALSE, area[c].expired} :
          area' = [area EXCEPT ![c].results = @ + 1, ![c].cut = @ \/ cut]
    /\ worker' = [worker EXCEPT ![w] = Idle]
    /\ UNCHANGED <<state, progress, cooling, requests, caller, admitter, areas, turn,
                   dispatching, marked, stopping, passed, spent>>

\* q.jobs is closed when the dispatcher returns.
WorkerQuits(w) ==
    /\ worker[w].pc = "idle"
    /\ ~dispatching
    /\ worker' = [worker EXCEPT ![w] = Gone]
    /\ UNCHANGED <<state, progress, cooling, requests, caller, admitter, area, areas, turn,
                   dispatching, marked, stopping, passed, spent>>

(***************************************************************************)
(* collect.                                                                *)
(***************************************************************************)

Collecting(c, pc) == area[c] # None /\ area[c].collector = pc

Count(c) ==
    /\ Collecting(c, "counting")
    /\ area[c].results > 0
    /\ area' = [area EXCEPT ![c].results = @ - 1, ![c].read = @ + 1]
    /\ progress' = [progress EXCEPT ![c] = IF @ = None THEN None ELSE @ + 1]
    /\ UNCHANGED <<state, cooling, requests, caller, admitter, areas, turn, dispatching,
                   worker, marked, stopping, passed, spent>>

\* Mutant: the area is finished off when its last site is handed out.
AllSent(c) == area[c].sent = area[c].targets

AllRead(c) == area[c].read = area[c].targets

\* Pruned, merged and released: the cooldown starts.
Finish(c) ==
    /\ Collecting(c, "counting")
    /\ AllRead(c)
    /\ Release(c, TRUE)
    /\ area' = [area EXCEPT ![c].collector = "marking"]
    /\ UNCHANGED <<requests, caller, admitter, areas, turn, dispatching, worker, marked,
                   stopping, passed, spent>>

MarkFinished(c) ==
    /\ Collecting(c, "marking")
    /\ Mark(c)
    /\ area' = [area EXCEPT ![c] = None]
    /\ UNCHANGED <<state, progress, cooling, requests, caller, admitter, areas, turn,
                   dispatching, worker, stopping, passed>>

\* It returns without releasing the cell, and its context goes with it.
CollectorQuits(c) ==
    /\ Collecting(c, "counting")
    /\ stopping /\ ~AllRead(c)
    /\ area' = [area EXCEPT ![c].collector = "gone", ![c].expired = TRUE]
    /\ UNCHANGED <<state, progress, cooling, requests, caller, admitter, areas, turn,
                   dispatching, worker, marked, stopping, passed, spent>>

(***************************************************************************)
(* Time, and the life of the process.                                      *)
(***************************************************************************)

\* scrapeJobTimeout passes.
Expire(c) ==
    /\ Collecting(c, "counting") /\ ~area[c].expired
    /\ spent.timeouts < MaxTimeouts
    /\ area' = [area EXCEPT ![c].expired = TRUE]
    /\ spent' = [spent EXCEPT !.timeouts = @ + 1]
    /\ UNCHANGED <<state, progress, cooling, requests, caller, admitter, areas, turn,
                   dispatching, worker, marked, stopping, passed>>

BeingMarked(c) ==
    \/ Collecting(c, "marking")
    \/ \E a \in Admitters : admitter[a] = [pc |-> "marking", cell |-> c]

\* scrapeCooldown passes, in memory and in the table alike: both hold the same
\* instant, and writing it takes seconds of the day it covers.
Lapse(c) ==
    /\ c \in cooling \cup marked
    /\ ~BeingMarked(c)
    /\ cooling' = cooling \ {c}
    /\ marked' = marked \ {c}
    /\ UNCHANGED <<state, progress, requests, caller, admitter, area, areas, turn,
                   dispatching, worker, stopping, passed, spent>>

Close ==
    /\ ~stopping
    /\ stopping' = TRUE
    /\ UNCHANGED <<state, progress, cooling, requests, caller, admitter, area, areas, turn,
                   dispatching, worker, marked, passed, spent>>

\* q.wg.Wait() returns.
AllGone ==
    /\ ~dispatching
    /\ \A a \in Admitters : admitter[a] = Gone
    /\ \A w \in SiteWorkers : worker[w] = Gone
    /\ \A c \in Cells : area[c] # None => area[c].collector = "gone"

\* newScrapeQueue, whose cooldowns recoverCooldowns takes from the table.
Started(cooldowns) ==
    /\ state' = [c \in Cells |-> "idle"]
    /\ progress' = [c \in Cells |-> None]
    /\ cooling' = cooldowns
    /\ requests' = <<>>
    /\ caller' = [k \in Callers |-> Idle]
    /\ admitter' = [a \in Admitters |-> Idle]
    /\ area' = [c \in Cells |-> None]
    /\ areas' = <<>> /\ turn' = 1 /\ dispatching' = TRUE
    /\ worker' = [w \in SiteWorkers |-> Idle]
    /\ stopping' = FALSE
    /\ passed' = [c \in Cells |-> {}]
    /\ UNCHANGED marked

\* The next process, after a close that finished or a death at any moment.
Restart ==
    /\ spent.restarts < MaxRestarts
    /\ \/ Started(marked) /\ spent' = [spent EXCEPT !.restarts = @ + 1]
       \/ MayFault /\ Started({})
          /\ spent' = [spent EXCEPT !.restarts = @ + 1, !.faults = @ + 1]

Init ==
    /\ state = [c \in Cells |-> "idle"]
    /\ progress = [c \in Cells |-> None]
    /\ cooling = {} /\ marked = {}
    /\ requests = <<>>
    /\ caller = [k \in Callers |-> Idle]
    /\ admitter = [a \in Admitters |-> Idle]
    /\ area = [c \in Cells |-> None]
    /\ areas = <<>> /\ turn = 1 /\ dispatching = TRUE
    /\ worker = [w \in SiteWorkers |-> Idle]
    /\ stopping = FALSE
    /\ passed = [c \in Cells |-> {}]
    /\ spent = [asks |-> 0, faults |-> 0, restarts |-> 0, timeouts |-> 0]

CallerStep(k) == Send(k) \/ Refuse(k)

AdmitterStep(a) ==
    \/ Admit(a) \/ LookupFails(a) \/ LookupEmpty(a) \/ MarkEmpty(a)
    \/ Prepare(a) \/ Join(a) \/ OfferStopped(a) \/ AdmitterQuits(a)

WorkerStep(w) == HandOut(w) \/ Report(w) \/ WorkerQuits(w)

CollectorStep(c) == Count(c) \/ Finish(c) \/ MarkFinished(c) \/ CollectorQuits(c)

Next ==
    \/ \E k \in Callers, c \in Cells : Ask(k, c)
    \/ \E k \in Callers : CallerStep(k)
    \/ \E a \in Admitters : AdmitterStep(a)
    \/ \E w \in SiteWorkers : WorkerStep(w)
    \/ \E c \in Cells : CollectorStep(c)
    \/ DispatcherQuits
    \/ \E c \in Cells : Expire(c) \/ Lapse(c)
    \/ Close
    \/ Restart

Spec == Init /\ [][Next]_vars

\* A goroutine that can run does, a read ends (its context and every request in
\* it have deadlines), and so does a statement.  Nobody owes a request, a close
\* or a restart.
FairSpec ==
    /\ Spec
    /\ \A k \in Callers : WF_vars(CallerStep(k))
    /\ \A a \in Admitters : WF_vars(AdmitterStep(a))
    /\ \A w \in SiteWorkers : WF_vars(HandOut(w)) /\ WF_vars(Report(w)) /\ WF_vars(WorkerQuits(w))
    /\ \A c \in Cells : WF_vars(CollectorStep(c))
    /\ WF_vars(DispatcherQuits)

(***************************************************************************)
(* Properties.                                                             *)
(***************************************************************************)

Requested(c) == {i \in 1 .. Len(requests) : requests[i] = c}

Preparing(c) == {a \in Admitters : admitter[a] = [pc |-> "preparing", cell |-> c]}

Sending(c) == {k \in Callers : caller[k].pc # "idle" /\ caller[k].cell = c}

BeingRead(c) == IF Collecting(c, "counting") THEN {c} ELSE {}

InFlight(c) == Requested(c) # {} \/ Preparing(c) # {} \/ BeingRead(c) # {}

\* Two people looking at one city are one piece of work: a cell is being sent,
\* waiting, looked up or read at most once (cellFor: "the second is told it is
\* already happening").
OneAreaPerCell ==
    \A c \in Cells : Cardinality(Sending(c)) + Cardinality(Requested(c))
                        + Cardinality(Preparing(c)) + Cardinality(BeingRead(c)) <= 1

\* A cell in its cooldown is not asked for, looked up or read.
CoolingIsLeftAlone == \A c \in cooling : ~InFlight(c) /\ Sending(c) = {}

\* The dispatcher never indexes past its areas, or past an area's sites.
HandsOutInRange ==
    areas # <<>> =>
        /\ turn <= Len(areas)
        /\ \A i \in 1 .. Len(areas) : area[areas[i]].sent < area[areas[i]].targets

Offering(c) == {a \in Admitters : admitter[a] = [pc |-> "offering", cell |-> c]}

Reading(c) == {w \in SiteWorkers : worker[w] = [pc |-> "reading", cell |-> c]}

\* Whoever is at work is at work on a cell.
BusyHaveCells ==
    /\ \A k \in Callers : caller[k].pc # "idle" => caller[k].cell \in Cells
    /\ \A a \in Admitters : admitter[a].pc \notin {"idle", "gone"} => admitter[a].cell \in Cells
    /\ \A w \in SiteWorkers : worker[w].pc = "reading" => worker[w].cell \in Cells

\* Until it is read a cell is in one place, and in it once.
OnePlacePerCell ==
    \A c \in Cells :
       /\ \A k, l \in Sending(c) : k = l
       /\ \A i, j \in Requested(c) : i = j
       /\ \A a, b \in Preparing(c) : a = b
       /\ \A a, b \in Offering(c) : a = b
       /\ Sending(c) = {} \/ (Requested(c) = {} /\ Preparing(c) = {})
       /\ Requested(c) = {} \/ Preparing(c) = {}

\* What enqueue is told of a cell is true of it, and a cell is marked only while
\* somebody is at work on it: one that is refused does not stay so, nor, while the
\* server runs, does one whose collector has left.
StatesAreTrue ==
    \A c \in Cells :
       /\ state[c] # "idle" => \/ Sending(c) # {} \/ Requested(c) # {} \/ Preparing(c) # {}
                              \/ (area[c] # None /\ area[c].collector # "marking")
       /\ area[c] # None /\ area[c].collector = "gone" => stopping
       /\ Sending(c) # {} \/ Requested(c) # {} \/ Preparing(c) # {} => state[c] = "queued"
       /\ area[c] # None /\ area[c].collector # "marking" => state[c] = "running"
       /\ c \in cooling => state[c] = "idle"
       /\ BeingMarked(c) => c \in cooling

\* Every site handed out is being read, reported or counted, and nothing is read
\* for an area that is no longer there.
SitesAreCounted ==
    \A c \in Cells :
       /\ area[c] = None => Reading(c) = {}
       /\ area[c] # None =>
             /\ area[c].results + area[c].read + Cardinality(Reading(c)) = area[c].sent
             /\ area[c].sent <= area[c].targets /\ area[c].targets > 0
             /\ area[c].collector = "marking" => area[c].read = area[c].targets

\* The dispatcher's list holds areas with sites to hand out, each once, and an
\* area on offer is not in it yet.
ListIsSound ==
    /\ turn <= Len(areas) \/ (areas = <<>> /\ turn = 1)
    /\ \A i, j \in 1 .. Len(areas) : i # j => areas[i] # areas[j]
    /\ \A i \in 1 .. Len(areas) :
          area[areas[i]] # None /\ area[areas[i]].sent < area[areas[i]].targets
    /\ \A c \in Cells : Offering(c) # {} =>
          /\ area[c] # None /\ area[c].sent = 0
          /\ \A i \in 1 .. Len(areas) : areas[i] # c

\* Place i has its turn before place j.
Sooner(i, j) == IF i >= turn THEN j < turn \/ i < j ELSE j < turn /\ i < j

\* An area that was passed over has its turn before whoever passed it.
PassedComeFirst ==
    \A i, j \in 1 .. Len(areas) : areas[j] \in passed[areas[i]] => Sooner(i, j)

\* While no statement has failed a cooldown is in the table, or about to be.
CooldownsAreMarked ==
    spent.faults = 0 =>
       marked \subseteq cooling /\ \A c \in cooling \ marked : BeingMarked(c)

\* What holds of the queue at every moment: one piece of work for a cell, none
\* for one that cools, a dispatcher that stays within its lists, and the
\* accounts that make it so.
QueueInv ==
    /\ TypeOK /\ OneAreaPerCell /\ CoolingIsLeftAlone /\ HandsOutInRange
    /\ BusyHaveCells /\ OnePlacePerCell /\ StatesAreTrue /\ SitesAreCounted
    /\ ListIsSound /\ PassedComeFirst /\ CooldownsAreMarked

\* Areas take turns: no area is served twice while another one waits.
TakesTurns ==
    [][\A w \in SiteWorkers : worker[w].pc = "idle" /\ worker'[w].pc = "reading" =>
          \A i \in 1 .. Len(areas) :
             areas[i] # worker'[w].cell => worker'[w].cell \notin passed[areas[i]]]_vars

\* A site is read only on behalf of an area that is still running: when a cell
\* is released nobody is reading for it any more, so two reads of the cell never
\* overlap.
ReleasedIsFinished ==
    \A w \in SiteWorkers : worker[w].pc = "reading" =>
        state[worker[w].cell] = "running"

\* "Areas read on a visitor's behalf are remembered across a restart": one that
\* follows a close that ran to its end, with a database that answered.
CooldownSurvivesRestart ==
    [][(AllGone /\ stopping /\ ~stopping' /\ spent'.faults = 0) => cooling' = cooling]_vars

\* Whatever was accepted is finished with, unless the server is closed first.
EveryAreaEnds ==
    \A c \in Cells : InFlight(c) ~> (~InFlight(c) \/ stopping)

\* Closing the queue stops every goroutine: nothing waits on one that has left.
CloseFinishes == stopping ~> (AllGone \/ ~stopping)

\* "The cooldown means this has been read recently": an area is put into its
\* cooldown only if every site in it was read to the end.  The code does not keep this promise: see
\* the findings in README.md.
CooldownOnlyAfterReading ==
    [][\A c \in Cells :
          (Collecting(c, "counting") /\ c \in cooling' \ cooling)
             => ~area[c].cut /\ area[c].read = Museums[c]]_vars
=============================================================================
