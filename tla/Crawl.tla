-------------------------------- MODULE Crawl --------------------------------
(***************************************************************************)
(* museum crawl (internal/command/crawl.go): sources run at once and feed   *)
(* the merger; each record is also checkpointed, in batches that whoever    *)
(* fills one, a ticker and the end of collection write; then the merged     *)
(* catalogue goes to object storage and to the database.                    *)
(*                                                                          *)
(* A crash loses the variables other than objects and rows, so what it      *)
(* costs is a property of every state; nothing else is restarted.           *)
(***************************************************************************)
EXTENDS Merger, Functions

CONSTANTS
    Plain, Editions,     \* sources; editions are those englishNormalized restates
    Flusher, Main,       \* the other two goroutines that write checkpoints
    Returns,             \* Returns[s]: the records source s may return
    Absent, NoName,      \* no such row, no label
    Details,             \* Details[q]: what Wikidata says of q in English
    CheckpointBatch, NormalizeBatch, LoadBatch, StoreConcurrency,
    MaxFaults

Sources == Plain \cup Editions

Writers == Sources \cup {Flusher, Main}

Known(c) == c # Unknown

(***************************************************************************)
(* applyDetails.                                                           *)
(***************************************************************************)

Elements(seq) == {seq[i] : i \in 1 .. Len(seq)}

\* The label comes first and the name it replaces is kept as an alias.
Restated(names, label) ==
    IF label \in {NoName, names[1]} THEN names
    ELSE LET aliases == Tail(names) IN
         <<label>> \o (IF names[1] \in Elements(aliases) THEN aliases
                       ELSE Append(aliases, names[1]))

ApplyDetails(r) ==
    IF r.id = NoId THEN r
    ELSE [r EXCEPT !.names = Restated(@, Details[r.id].label),
                   !.country = IF Known(Details[r.id].country) THEN Details[r.id].country ELSE @]

\* What a record of source s may be when it reaches the merger.
Forms(s, r) == {r} \cup (IF s \in Editions THEN {ApplyDetails(r)} ELSE {})

\* A record keeps the link it was found under, so that it is told from every
\* other one, of its own source too, restated or not.
ASSUME CrawlAssumption ==
    /\ Plain \cap Editions = {} /\ {Flusher, Main} \cap Sources = {} /\ Flusher # Main
    /\ Returns \in [Sources -> SUBSET Records]
    /\ \A s \in Sources : \A r \in Returns[s] : Forms(s, r) \subseteq Records
    /\ \A s, t \in Sources : \A r \in Returns[s], q \in Returns[t] :
           <<s, r>> # <<t, q>> => Forms(s, r) \cap Forms(t, q) = {}
    /\ Absent \notin Countries \cup {Unknown} /\ NoName \notin Names
    /\ Details \in [Ids -> [label : Names \cup {NoName}, country : Countries \cup {Unknown}]]
    /\ {CheckpointBatch, NormalizeBatch, LoadBatch, StoreConcurrency} \subseteq Nat \ {0}
    /\ MaxFaults \in Nat

VARIABLES
    connected,   \* whether the crawl has a database to checkpoint to
    cancelled,   \* the crawl's context is over
    unread,      \* unread[s]: the records source s has not returned yet
    norm,        \* norm[e]: the normaliser of edition e
    handed,      \* handed[s]: the record merged and not yet checkpointed, if any
    ended,       \* the sources whose goroutine has ended
    pending,     \* the checkpoint buffer
    batch,       \* batch[w]: what w has taken and is writing
    saved, lost, rejected,   \* the records of batches written, failed; rows refused
    rows,        \* rows[q]: the country in the row of Wikidata id q
    main,        \* where runCrawl is
    flusher,     \* whether the periodic flush runs
    uploads,     \* uploads[i]: how far entry i is on its way to storage
    objects,     \* the bucket: the entry each key was written from
    next,        \* the first entry not yet offered to the database
    loaded,      \* the entries in the database in their merged form
    skipped,     \* the load found no database
    timedOut,    \* the write context is over
    faults

collectVars == <<unread, norm, handed, ended>>
checkpointVars == <<pending, batch, saved, lost, rejected>>
storeVars == <<uploads, objects>>
loadVars == <<next, loaded, skipped>>
contextVars == <<connected, cancelled, timedOut>>
vars == <<mergerVars, contextVars, collectVars, checkpointVars, rows, main,
          flusher, storeVars, loadVars, faults>>
\* What collection leaves alone.
laterVars == <<contextVars, rows, main, flusher, storeVars, loadVars>>

Fault == faults < MaxFaults /\ faults' = faults + 1

ObjectKeys == Names \X (Countries \cup {Unknown})

ObjectKey(e) == <<e.name, e.country>>

CrawlInit ==
    /\ MergerInit
    /\ connected \in BOOLEAN
    /\ cancelled = FALSE
    /\ unread = Returns
    /\ norm = [e \in Editions |-> [pc |-> "collecting", held |-> <<>>, over |-> FALSE]]
    /\ handed = [s \in Sources |-> <<>>]
    /\ ended = {}
    /\ pending = <<>>
    /\ batch = [w \in Writers |-> <<>>]
    /\ saved = {} /\ lost = {} /\ rejected = {}
    /\ rows = [q \in Ids |-> Absent]
    /\ main = "collecting"
    /\ flusher = connected
    /\ uploads = <<>>
    /\ objects = [k \in ObjectKeys |-> 0]
    /\ next = 1
    /\ loaded = {}
    /\ skipped = FALSE
    /\ timedOut = FALSE
    /\ faults = 0

(***************************************************************************)
(* collectSources: a goroutine per source receives, merges, checkpoints.   *)
(***************************************************************************)

Receiving(s) == s \notin ended /\ handed[s] = <<>> /\ batch[s] = <<>>

\* museum := <-stream; merger.Add(museum).
Take(s, r) ==
    /\ Add(r)
    /\ handed' = [handed EXCEPT ![s] = <<r>>]

Deliver(s) ==
    /\ Receiving(s)
    /\ \E r \in unread[s] :
          /\ Take(s, r)
          /\ unread' = [unread EXCEPT ![s] = @ \ {r}]
    /\ UNCHANGED <<norm, ended, checkpointVars, faults, laterVars>>

\* A source ends when it has returned what it will: it may fail, or be cancelled.
SourceEnds(s) ==
    /\ Receiving(s)
    /\ s \in Editions => norm[s].pc = "ended"
    /\ ended' = ended \cup {s}
    /\ UNCHANGED <<mergerVars, unread, norm, handed, checkpointVars, faults, laterVars>>

(***************************************************************************)
(* englishNormalized: holds a batch, asks for its details, passes it on.   *)
(***************************************************************************)

Collect(e) ==
    /\ norm[e].pc = "collecting" /\ ~norm[e].over
    /\ Len(norm[e].held) < NormalizeBatch
    /\ \E r \in unread[e] :
          /\ unread' = [unread EXCEPT ![e] = @ \ {r}]
          /\ norm' = [norm EXCEPT ![e].held = Append(@, r)]
    /\ UNCHANGED <<mergerVars, handed, ended, checkpointVars, faults, laterVars>>

InputEnds(e) ==
    /\ norm[e].pc = "collecting" /\ ~norm[e].over
    /\ Len(norm[e].held) < NormalizeBatch
    /\ norm' = [norm EXCEPT ![e].over = TRUE,
                            ![e].pc = IF norm[e].held = <<>> THEN "ended" ELSE @]
    /\ UNCHANGED <<mergerVars, unread, handed, ended, checkpointVars, faults, laterVars>>

\* svc.Details: records pass unchanged when it fails, and it fails once cancelled.
Normalise(e) ==
    /\ norm[e].pc = "collecting" /\ norm[e].held # <<>>
    /\ norm[e].over \/ Len(norm[e].held) = NormalizeBatch
    /\ \/ /\ ~cancelled
          /\ norm' = [norm EXCEPT ![e].pc = "passing",
                                  ![e].held = [i \in 1 .. Len(@) |-> ApplyDetails(@[i])]]
          /\ faults' = faults
       \/ /\ norm' = [norm EXCEPT ![e].pc = "passing"]
          /\ IF cancelled THEN faults' = faults ELSE Fault
    /\ UNCHANGED <<mergerVars, unread, handed, ended, checkpointVars, laterVars>>

\* Mutant: the channel is not closed after the last batch.
LeftOpen(n) == IF Len(n.held) > 1 THEN "passing" ELSE "collecting"

AfterPassing(n) ==
    IF Len(n.held) > 1 THEN "passing" ELSE IF n.over THEN "ended" ELSE "collecting"

PassOn(e) ==
    /\ norm[e].pc = "passing"
    /\ Receiving(e)
    /\ Take(e, Head(norm[e].held))
    /\ norm' = [norm EXCEPT ![e].held = Tail(@), ![e].pc = AfterPassing(norm[e])]
    /\ UNCHANGED <<unread, ended, checkpointVars, faults, laterVars>>

\* The context is over: what is left of the batch goes with it.
Abandon(e) ==
    /\ norm[e].pc = "passing" /\ cancelled
    /\ norm' = [norm EXCEPT ![e].held = <<>>, ![e].pc = "ended"]
    /\ UNCHANGED <<mergerVars, unread, handed, ended, checkpointVars, faults, laterVars>>

(***************************************************************************)
(* The checkpointer.  Whoever takes a batch out of the buffer writes it     *)
(* outside the lock.                                                       *)
(***************************************************************************)

Full(seq) == Len(seq) >= CheckpointBatch

\* checkpointer.add: the records stay or, when the batch is full, go with s.
\* Without a database nothing is kept.
Checkpoint(s) ==
    /\ handed[s] # <<>>
    /\ handed' = [handed EXCEPT ![s] = <<>>]
    /\ LET now == pending \o handed[s] IN
       IF ~connected THEN UNCHANGED <<pending, batch>>
       ELSE IF ~Full(now) THEN pending' = now /\ UNCHANGED batch
       ELSE pending' = <<>> /\ batch' = [batch EXCEPT ![s] = now]
    /\ UNCHANGED <<mergerVars, laterVars, unread, norm, ended, saved, lost, rejected, faults>>

\* Mutant: the buffer is read and not emptied.
TakeACopy(w) == batch' = [batch EXCEPT ![w] = pending] /\ UNCHANGED pending

\* take.
TakePending(w) == batch' = [batch EXCEPT ![w] = pending] /\ pending' = <<>>

\* The ticker of flushPeriodically; an empty batch is not written.
PeriodicFlush ==
    /\ flusher /\ batch[Flusher] = <<>> /\ pending # <<>>
    /\ TakePending(Flusher)
    /\ UNCHANGED <<mergerVars, laterVars, collectVars, saved, lost, rejected, faults>>

\* What SaveMuseums leaves in the row of an id when it writes the places I of seq in
\* order: a known country replaces what is there.
RowAfter(q, seq, I) ==
    LET mine == {i \in I : seq[i].id = q}
        told == {i \in mine : Known(seq[i].country)}
        last == CHOOSE i \in told : \A j \in told : j <= i
    IN IF told # {} THEN seq[last].country
       ELSE IF mine # {} /\ rows[q] = Absent THEN Unknown ELSE rows[q]

Upsert(seq, I) == rows' = [q \in Ids |-> RowAfter(q, seq, I)]

\* save: the batch lands; or its rows are retried one by one and some refused;
\* or the statement before it fails, which is the error SaveMuseums returns.
Save(w) ==
    /\ batch[w] # <<>>
    /\ batch' = [batch EXCEPT ![w] = <<>>]
    /\ \/ /\ Upsert(batch[w], 1 .. Len(batch[w]))
          /\ saved' = saved \cup Elements(batch[w])
          /\ UNCHANGED <<lost, rejected, faults>>
       \/ /\ Fault
          /\ \E S \in SUBSET Elements(batch[w]) :
                /\ S # {}
                /\ Upsert(batch[w], {i \in 1 .. Len(batch[w]) : batch[w][i] \notin S})
                /\ saved' = saved \cup (Elements(batch[w]) \ S)
                /\ rejected' = rejected \cup S
          /\ UNCHANGED lost
       \/ /\ Fault
          /\ lost' = lost \cup Elements(batch[w])
          /\ UNCHANGED <<saved, rejected, rows>>
    /\ UNCHANGED <<mergerVars, contextVars, collectVars, pending, main, flusher, storeVars,
                   loadVars>>

(***************************************************************************)
(* runCrawl.                                                               *)
(***************************************************************************)

\* Ctrl-C.
Cancel ==
    /\ ~cancelled
    /\ cancelled' = TRUE
    /\ UNCHANGED <<mergerVars, connected, timedOut, collectVars, checkpointVars, rows, main,
                   flusher, storeVars, loadVars, faults>>

\* collectSources returns and flush takes what is left.
Flush ==
    /\ main = "collecting" /\ ended = Sources
    /\ main' = "flushing"
    /\ IF connected THEN TakePending(Main) ELSE UNCHANGED <<pending, batch>>
    /\ UNCHANGED <<mergerVars, contextVars, collectVars, saved, lost, rejected, rows,
                   flusher, storeVars, loadVars, faults>>

\* The flush is written; storing begins.
StartStoring ==
    /\ main = "flushing" /\ batch[Main] = <<>>
    /\ main' = "storing"
    /\ uploads' = [i \in Places |-> "waiting"]
    /\ UNCHANGED <<mergerVars, contextVars, collectVars, checkpointVars, rows, flusher,
                   objects, loadVars, faults>>

\* The write context has a deadline of its own.
WriteTimesOut ==
    /\ main \in {"storing", "loading"} /\ ~timedOut
    /\ Fault
    /\ timedOut' = TRUE
    /\ UNCHANGED <<mergerVars, connected, cancelled, collectVars, checkpointVars, rows, main,
                   flusher, storeVars, loadVars>>

\* Mutant: writing ends with the crawl's context.
WritingStopsWhenCancelled == timedOut \/ cancelled

WritingMayStop == timedOut

InFlight == {i \in DOMAIN uploads : uploads[i] \in {"checking", "putting"}}

Waiting == {i \in DOMAIN uploads : uploads[i] = "waiting"}

Step(i, to) == uploads' = [uploads EXCEPT ![i] = to]

\* StoreFromChannel: entries in order, so many at a time.
StartUpload(i) ==
    /\ main = "storing"
    /\ i \in Waiting /\ \A j \in Waiting : i <= j
    /\ Cardinality(InFlight) < StoreConcurrency
    /\ Step(i, "checking")
    /\ UNCHANGED <<mergerVars, contextVars, collectVars, checkpointVars, rows, main, flusher,
                   objects, loadVars, faults>>

\* StoreObject: written only when the key is free when it looks.
StatObject(i) ==
    /\ main = "storing" /\ i \in DOMAIN uploads /\ uploads[i] = "checking"
    /\ Step(i, IF objects[ObjectKey(museums[i])] = 0 THEN "putting" ELSE "skipped")
    /\ UNCHANGED <<mergerVars, contextVars, collectVars, checkpointVars, rows, main, flusher,
                   objects, loadVars, faults>>

PutObject(i) ==
    /\ main = "storing" /\ i \in DOMAIN uploads /\ uploads[i] = "putting"
    /\ Step(i, "stored")
    /\ objects' = [objects EXCEPT ![ObjectKey(museums[i])] = i]
    /\ UNCHANGED <<mergerVars, contextVars, collectVars, checkpointVars, rows, main, flusher,
                   loadVars, faults>>

UploadFails(i) ==
    /\ main = "storing" /\ i \in InFlight
    /\ Step(i, "failed")
    /\ IF timedOut THEN faults' = faults ELSE Fault
    /\ UNCHANGED <<mergerVars, contextVars, collectVars, checkpointVars, rows, main, flusher,
                   objects, loadVars>>

StoringEnds ==
    /\ main = "storing" /\ InFlight = {}
    /\ Waiting = {} \/ WritingMayStop
    /\ main' = "loading"
    /\ UNCHANGED <<mergerVars, contextVars, collectVars, checkpointVars, rows, flusher,
                   storeVars, loadVars, faults>>

\* loadIntoDatabase opens the database anew.
SkipLoad ==
    /\ main = "loading" /\ next = 1
    /\ IF connected /\ ~timedOut THEN Fault ELSE faults' = faults
    /\ skipped' = TRUE
    /\ main' = "closing"
    /\ UNCHANGED <<mergerVars, contextVars, collectVars, checkpointVars, rows, flusher,
                   storeVars, next, loaded>>

\* Mutant: the first batch to fail is the last.
AfterFailedBatch == Len(museums) + 1

\* One failing batch is not a reason to abandon the rest.
AfterBatch == next + LoadBatch

Offered == {i \in Places : next <= i /\ i < next + LoadBatch}

Load ==
    /\ main = "loading" /\ next \in Places
    /\ \/ /\ ~timedOut
          /\ \E S \in SUBSET Offered :
                /\ IF S = Offered THEN faults' = faults ELSE Fault
                /\ Upsert(museums, S)
                /\ loaded' = loaded \cup S
          /\ next' = next + LoadBatch
       \/ /\ IF timedOut THEN faults' = faults ELSE Fault
          /\ next' = AfterBatch
          /\ UNCHANGED <<rows, loaded>>
    /\ UNCHANGED <<mergerVars, contextVars, collectVars, checkpointVars, main, flusher,
                   storeVars, skipped>>

LoadEnds ==
    /\ main = "loading" /\ next \notin Places
    /\ main' = "closing"
    /\ UNCHANGED <<mergerVars, contextVars, collectVars, checkpointVars, rows, flusher,
                   storeVars, loadVars, faults>>

\* The periodic flush notices that close was called.
FlusherEnds ==
    /\ main = "closing" /\ flusher /\ batch[Flusher] = <<>>
    /\ flusher' = FALSE
    /\ UNCHANGED <<mergerVars, contextVars, collectVars, checkpointVars, rows, main,
                   storeVars, loadVars, faults>>

FlusherIsDone == ~flusher

\* close returns with the pool closed.
Finish ==
    /\ main = "closing" /\ FlusherIsDone
    /\ main' = "finished"
    /\ UNCHANGED <<mergerVars, contextVars, collectVars, checkpointVars, rows, flusher,
                   storeVars, loadVars, faults>>

CrawlNext ==
    \/ \E s \in Plain : Deliver(s)
    \/ \E s \in Sources : SourceEnds(s) \/ Checkpoint(s)
    \/ \E e \in Editions :
          Collect(e) \/ InputEnds(e) \/ Normalise(e) \/ PassOn(e) \/ Abandon(e)
    \/ \E w \in Writers : Save(w)
    \/ PeriodicFlush
    \/ Cancel
    \/ Flush \/ StartStoring
    \/ \E i \in Places : StartUpload(i) \/ StatObject(i) \/ PutObject(i) \/ UploadFails(i)
    \/ WriteTimesOut
    \/ StoringEnds \/ SkipLoad \/ Load \/ LoadEnds \/ FlusherEnds \/ Finish

CrawlSpec == CrawlInit /\ [][CrawlNext]_vars

\* What the goroutines do when left to themselves.
Progress ==
    \/ \E s \in Sources : SourceEnds(s) \/ Checkpoint(s)
    \/ \E e \in Editions : InputEnds(e) \/ Normalise(e) \/ PassOn(e)
    \/ \E w \in Writers : Save(w)
    \/ Flush \/ StartStoring
    \/ \E i \in Places : StartUpload(i) \/ StatObject(i) \/ PutObject(i)
    \/ StoringEnds \/ Load \/ LoadEnds \/ FlusherEnds \/ Finish

\* Something always moves: sources end, whether they return everything or not, and
\* requests and statements end.  Every step is taken a bounded number of times, so
\* nothing is owed to a goroutine in particular.
FairCrawlSpec == CrawlSpec /\ WF_vars(Progress)

(***************************************************************************)
(* Properties.                                                             *)
(***************************************************************************)

\* Type correctness; the buffer is below a full batch and a batch is never above it,
\* which is what a crash may cost.
CrawlTypeOK ==
    /\ connected \in BOOLEAN /\ cancelled \in BOOLEAN /\ timedOut \in BOOLEAN
    /\ unread \in [Sources -> SUBSET Records]
    /\ norm \in [Editions -> [pc : {"collecting", "passing", "ended"},
                              held : Seq(Records), over : BOOLEAN]]
    /\ handed \in [Sources -> Seq(Records)]
    /\ ended \subseteq Sources
    /\ pending \in Seq(Records) /\ Len(pending) < CheckpointBatch
    /\ batch \in [Writers -> Seq(Records)]
    /\ \A w \in Writers : Len(batch[w]) <= CheckpointBatch
    /\ saved \subseteq Records /\ lost \subseteq Records /\ rejected \subseteq Records
    /\ rows \in [Ids -> Countries \cup {Unknown, Absent}]
    /\ main \in {"collecting", "flushing", "storing", "loading", "closing", "finished"}
    /\ flusher \in BOOLEAN
    /\ DOMAIN uploads \subseteq Places
    /\ \A i \in DOMAIN uploads :
          uploads[i] \in {"waiting", "checking", "putting", "stored", "skipped", "failed"}
    /\ objects \in [ObjectKeys -> 0 .. Len(museums)]
    /\ next \in Nat /\ loaded \subseteq Places /\ skipped \in BOOLEAN
    /\ faults \in 0 .. MaxFaults

MergedRecords == UNION {folded[i] : i \in Places}

\* Where a merged record may be on its way to its end as a checkpoint, and which
\* records are there.
Stops == ({"hand"} \X Sources) \cup ({"batch"} \X Writers)
            \cup ({"buffer", "saved", "lost", "rejected"} \X {Main})

At(x) ==
    CASE x[1] = "hand" -> Elements(handed[x[2]])
      [] x[1] = "batch" -> Elements(batch[x[2]])
      [] x[1] = "buffer" -> Elements(pending)
      [] x[1] = "saved" -> saved
      [] x[1] = "lost" -> lost
      [] x[1] = "rejected" -> rejected

\* Every record merged is in one place on its way to the database, and in it once,
\* whichever of the goroutines takes it there: none is written twice and none
\* forgotten.
CheckpointedOnce ==
    connected =>
       /\ MergedRecords = UNION {At(x) : x \in Stops}
       /\ \A x \in Stops : \A r \in At(x) : \A y \in Stops : r \in At(y) => y = x
       /\ IsInjective(pending) /\ \A w \in Writers : IsInjective(batch[w])

\* "close cannot return while a write is still in flight": no checkpoint is being
\* written once the pool is closed, whoever took it.
PoolOutlivesWrites == main = "finished" => \A w \in Writers : batch[w] = <<>>

\* When the crawl is over every record merged has had its answer.
AllAreAnswered ==
    main = "finished" /\ connected => MergedRecords = saved \cup lost \cup rejected

\* A record that has not reached the merger has not reached it in another form
\* either, and is on its way once.
ArriveOnce ==
    /\ \A s \in Sources : \A r \in unread[s] : Forms(s, r) \cap MergedRecords = {}
    /\ \A e \in Editions :
          LET held == norm[e].held IN
          \A i \in 1 .. Len(held) :
             \E r \in Returns[e] \ unread[e] :
                /\ held[i] \in Forms(e, r) /\ Forms(e, r) \cap MergedRecords = {}
                /\ \A j \in 1 .. Len(held) : held[j] \in Forms(e, r) => j = i

\* Whoever is done has nothing left in hand, and main goes on only then.
NothingLeftBehind ==
    /\ \A s \in Sources : /\ Len(handed[s]) <= 1
                          /\ handed[s] # <<>> => batch[s] = <<>>
                          /\ s \in ended => handed[s] = <<>> /\ batch[s] = <<>>
    /\ main # "collecting" => ended = Sources /\ pending = <<>>
    /\ main # "flushing" => batch[Main] = <<>>
    /\ connected \/ pending = <<>>
    /\ ~flusher => batch[Flusher] = <<>>
    /\ main = "finished" => ~flusher

\* What an upload says of the bucket is true of it, and one that failed is paid for.
UploadsAreTrue ==
    /\ main \in {"collecting", "flushing"} => uploads = <<>>
    /\ main \notin {"collecting", "flushing"} => DOMAIN uploads = Places
    /\ \A i \in DOMAIN uploads :
          /\ uploads[i] \in {"stored", "skipped"} => objects[ObjectKey(museums[i])] # 0
          /\ uploads[i] = "failed" => faults > 0
    /\ main \in {"loading", "closing", "finished"} =>
          InFlight = {} /\ (Waiting = {} \/ timedOut)
    /\ timedOut => faults > 0

\* What the load has been past and left out.
Missed == {i \in Places : i < next} \ loaded

\* A batch missed is a failure, and the load stops at the end.
MissesArePaidFor ==
    /\ next >= 1
    /\ main \in {"collecting", "flushing", "storing"} => next = 1
    /\ main \in {"closing", "finished"} => next \notin Places \/ skipped
    /\ timedOut \/ Cardinality(Missed) <= faults * LoadBatch

\* What the checkpointer owes at every moment, whoever is writing, and the accounts
\* of the store and the load.
CrawlInv ==
    /\ CrawlTypeOK /\ MergerTypeOK
    /\ CheckpointedOnce /\ PoolOutlivesWrites /\ AllAreAnswered
    /\ ArriveOnce /\ NothingLeftBehind /\ UploadsAreTrue /\ MissesArePaidFor

\* "Interrupting still stores what the sources returned": with no failure at the
\* storage end, a crawl leaves an object under the key of each of its entries,
\* cancelled or not.
InterruptedCrawlIsStored ==
    main \in {"loading", "closing", "finished"} /\ faults = 0 =>
        \A i \in Places : objects[ObjectKey(museums[i])] # 0

\* "One failing batch is not a reason to abandon the rest": what the load misses is
\* no more than its failures account for.
FailuresCostTheirBatch ==
    main = "finished" /\ ~skipped /\ ~timedOut =>
        Cardinality(Places \ loaded) <= faults * LoadBatch

\* A crawl comes to its end, cancelled or not.
CrawlEnds == <>(main = "finished")

\* "Written again at the end, and deliberately": the rows of what was loaded have
\* the merged country, not that of one source.  The code does not keep this promise: see
\* the findings in README.md.
MergedFormStands ==
    main = "finished" =>
        \A i \in loaded : museums[i].id # NoId /\ Known(museums[i].country) =>
            rows[museums[i].id] = museums[i].country
=============================================================================
