------------------------------- MODULE Enrich -------------------------------
(***************************************************************************)
(* museum enrich: one process reads storage events from a partition of a   *)
(* Kafka topic, loads the museums they name, geocodes them, writes the     *)
(* result back and commits the event.  Four goroutines stand in a row, each *)
(* handing on over an unbuffered channel: the consumer (pkg/kafkaclient),   *)
(* the iterator (internal/service), the adapter (pipelineItems) and the    *)
(* pipeline (internal/enrich).  The process is interrupted, dies, and is   *)
(* started again at the group's committed offset.                          *)
(*                                                                         *)
(* Messages are numbered from 1; the offset is the number of messages the  *)
(* group is past.  An item is a record of a message.                       *)
(***************************************************************************)
EXTENDS Integers, Sequences, FiniteSets

CONSTANTS
    Museums,
    BadKey,        \* an object key that does not decode, or is blank
    Topic,         \* the messages, in the order of the partition
    Faults,        \* the requests that may fail although nobody interrupts
    MaxSessions    \* bound: how often the process is started

ASSUME EnrichAssumption ==
    /\ BadKey \notin Museums
    /\ Topic \in Seq([parses : BOOLEAN, records : Seq(Museums \cup {BadKey})])
    \* What does not parse names nothing.
    /\ \A n \in 1 .. Len(Topic) : ~Topic[n].parses => Topic[n].records = <<>>
    /\ Faults \subseteq {"load", "details", "store", "commit"}
    /\ MaxSessions \in Nat \ {0}

VARIABLES
    offset,      \* the group's committed offset, kept by the broker
    enriched,    \* enriched[m]: what enriched_data/ holds for museum m
    session,     \* number and state of the process
    position,    \* how far the reader has fetched in this session
    consumer,
    pending,     \* pending[n]: acknowledgements message n waits for (acker)
    iterator,
    adapter,
    pipeline,
    ended,       \* items every stage has run for, or that were skipped (history)
    left,        \* items a session let go of before they ended (history)
    finished     \* the furthest message an item at its end has committed (history)

vars == <<offset, enriched, session, position, consumer, pending, iterator, adapter,
          pipeline, ended, left, finished>>

goroutines == <<position, consumer, pending, iterator, adapter, pipeline>>
history == <<ended, left, finished>>

Messages == 1 .. Len(Topic)

Records(n) == Topic[n].records

Items == UNION {{[msg |-> n, rec |-> k] : k \in 1 .. Len(Records(n))} : n \in Messages}

ItemsOf(n) == {i \in Items : i.msg = n}

Named(item) == Records(item.msg)[item.rec]

NoItem == [msg |-> 0, rec |-> 0]

\* What the steps have added to an item: nothing, a place, and its details.
Results == {"bare", "placed", "detailed"}

Running == session.state # "down"
Cancelled == session.state = "cancelled"

MayFail(request) == request \in Faults \/ Cancelled

ConsumerClosed == consumer.pc = "ended"

(***************************************************************************)
(* Kafka, as far as the program uses it.                                   *)
(***************************************************************************)

\* A commit of message n moves the group there, forwards or backwards.  One
\* that reports a failure, or whose context is cancelled, may or may not have
\* taken effect.
FailedCommit(n) == MayFail("commit") /\ offset' \in {n, offset}

Commit(n) == offset' = n \/ FailedCommit(n)

(***************************************************************************)
(* StartConsuming.                                                         *)
(***************************************************************************)

\* The top of the loop, where the context ends it.
NextRead == [pc |-> IF Cancelled THEN "ended" ELSE "reading", msg |-> 0]

\* ReadMessage fetches the next message and, as the reader belongs to a group,
\* commits it.  If the commit fails the message is not returned: the error is
\* logged, and the next read fetches the next message.
ReadMessage ==
    LET n == position + 1 IN
    /\ Running /\ consumer.pc = "reading"
    /\ position < Len(Topic)
    /\ position' = n
    /\ \/ /\ offset' = n
          /\ consumer' = [pc |-> "sending", msg |-> n]
          /\ UNCHANGED left
       \/ /\ FailedCommit(n)
          /\ consumer' = NextRead
          /\ left' = left \cup ItemsOf(n)
    /\ UNCHANGED <<enriched, session, pending, iterator, adapter, pipeline, ended, finished>>

\* Mutant: the send has no case for the context.
EndsBetweenReads == consumer.pc = "reading"

EndsAnywhere == ~ConsumerClosed

\* The context ends the loop in a read, which fetches nothing then, and in a
\* send; Stop follows the end of the pipeline and finds it ended or ending.
ConsumerEnds ==
    /\ Cancelled /\ EndsAnywhere
    /\ consumer' = [pc |-> "ended", msg |-> 0]
    /\ left' = left \cup ItemsOf(consumer.msg)
    /\ UNCHANGED <<offset, enriched, session, position, pending, iterator, adapter, pipeline,
                   ended, finished>>

(***************************************************************************)
(* Iterator.Objects and its acker.                                         *)
(***************************************************************************)

\* acker.done: the last acknowledgement of a message commits it, and one more
\* than that is ignored.
Ack(n) ==
    /\ pending' = [pending EXCEPT ![n] = IF @ = 0 THEN 0 ELSE @ - 1]
    /\ IF pending[n] = 1 THEN Commit(n) ELSE UNCHANGED offset

\* Mutant: what does not parse ends the loop.
StopAtUnparsable == [iterator EXCEPT !.pc = "ended"]

SkipUnparsable == iterator

\* The iterator receives the message the consumer offers.  One that does not
\* parse is passed over, one without records is committed; once the context is
\* done, the iterator returns with the message in hand.
Receive ==
    LET n == consumer.msg IN
    /\ Running /\ consumer.pc = "sending" /\ iterator.pc = "waiting"
    /\ consumer' = NextRead
    /\ \/ /\ Cancelled
          /\ iterator' = [iterator EXCEPT !.pc = "ended"]
          /\ left' = left \cup ItemsOf(n)
          /\ UNCHANGED <<offset, pending>>
       \/ /\ ~Cancelled /\ ~Topic[n].parses
          /\ iterator' = SkipUnparsable
          /\ UNCHANGED <<offset, pending, left>>
       \/ /\ ~Cancelled /\ Topic[n].parses /\ Records(n) = <<>>
          /\ Commit(n)
          /\ UNCHANGED <<pending, iterator, left>>
       \/ /\ ~Cancelled /\ Topic[n].parses /\ Records(n) # <<>>
          /\ pending' = [pending EXCEPT ![n] = Len(Records(n))]
          /\ iterator' = [pc |-> "loading", msg |-> n, rec |-> 1]
          /\ UNCHANGED <<offset, left>>
    /\ UNCHANGED <<enriched, session, position, adapter, pipeline, ended, finished>>

AtHand == [msg |-> iterator.msg, rec |-> iterator.rec]

\* On to the next record of the message, if there is one.
NextRecord ==
    [iterator EXCEPT !.rec = @ + 1,
                     !.pc = IF iterator.rec < Len(Records(iterator.msg)) THEN "loading"
                            ELSE "waiting"]

\* Mutant: a record that is skipped is not acknowledged.
SkipUnacked(n) == UNCHANGED <<pending, offset>>

\* A skipped record is acknowledged on the spot.
SkipAck(n) == Ack(n)

\* A key that cannot be read, an object that is gone or a load that failed.
SkipRecord ==
    /\ Running /\ iterator.pc = "loading"
    /\ Named(AtHand) = BadKey \/ MayFail("load")
    /\ SkipAck(iterator.msg)
    /\ ended' = ended \cup {AtHand}
    /\ iterator' = NextRecord
    /\ UNCHANGED <<enriched, session, position, consumer, adapter, pipeline, left, finished>>

Load ==
    /\ Running /\ iterator.pc = "loading"
    /\ Named(AtHand) \in Museums
    /\ iterator' = [iterator EXCEPT !.pc = "offering"]
    /\ UNCHANGED <<offset, enriched, session, position, consumer, pending, adapter, pipeline,
                   ended, left, finished>>

\* The context ends it in its send; the consumer's closing ends its loop.
IteratorEnds ==
    /\ Running
    /\ \/ iterator.pc = "offering" /\ Cancelled
       \/ iterator.pc = "waiting" /\ ConsumerClosed
    /\ iterator' = [iterator EXCEPT !.pc = "ended"]
    /\ UNCHANGED <<offset, enriched, session, position, consumer, pending, adapter, pipeline,
                   ended, left, finished>>

(***************************************************************************)
(* pipelineItems.                                                          *)
(***************************************************************************)

\* Mutant: the item is acknowledged as it is handed on.
AckOnHandOff(n) == Ack(n)

\* The acknowledgement travels with the item.
CarryAck(n) == UNCHANGED <<pending, offset>>

HandOn ==
    /\ Running /\ iterator.pc = "offering" /\ adapter.pc = "waiting"
    /\ adapter' = [pc |-> "holding", item |-> AtHand]
    /\ CarryAck(iterator.msg)
    /\ iterator' = NextRecord
    /\ UNCHANGED <<enriched, session, position, consumer, pipeline, ended, left, finished>>

AdapterEnds ==
    /\ Running /\ adapter.pc = "waiting" /\ iterator.pc = "ended"
    /\ adapter' = [adapter EXCEPT !.pc = "ended"]
    /\ UNCHANGED <<offset, enriched, session, position, consumer, pending, iterator, pipeline,
                   ended, left, finished>>

(***************************************************************************)
(* Pipeline.Process, processItem and the steps of the enricher.            *)
(***************************************************************************)

PipelineAt(pc) == Running /\ pipeline.pc = pc

\* ctx.Err() is consulted before the select.
CheckContext ==
    /\ PipelineAt("checking")
    /\ pipeline' = [pipeline EXCEPT !.pc = IF Cancelled THEN "returned" ELSE "selecting"]
    /\ UNCHANGED <<offset, enriched, session, position, consumer, pending, iterator, adapter,
                   ended, left, finished>>

\* Of the cases that are ready a select takes any.
TakeItem ==
    /\ PipelineAt("selecting") /\ adapter.pc = "holding"
    /\ pipeline' = [pc |-> "locating", item |-> adapter.item, results |-> "bare"]
    /\ adapter' = [pc |-> "waiting", item |-> NoItem]
    /\ UNCHANGED <<offset, enriched, session, position, consumer, pending, iterator, ended, left, finished>>

PipelineReturns ==
    /\ PipelineAt("selecting")
    /\ Cancelled \/ adapter.pc = "ended"
    /\ pipeline' = [pipeline EXCEPT !.pc = "returned"]
    /\ UNCHANGED <<offset, enriched, session, position, consumer, pending, iterator, adapter,
                   ended, left, finished>>

\* StepLocation: a place, or none, because there is none or by an error that is
\* logged.
StepLocation ==
    /\ PipelineAt("locating")
    /\ \E results \in {"bare", "placed"} :
          pipeline' = [pipeline EXCEPT !.pc = "detailing", !.results = results]
    /\ UNCHANGED <<offset, enriched, session, position, consumer, pending, iterator, adapter,
                   ended, left, finished>>

\* StepLocationDetails looks up what StepLocation found, if it found anything.
Detailed(results) ==
    IF results = "bare" THEN {"bare"}
    ELSE {"detailed"} \cup (IF MayFail("details") THEN {"placed"} ELSE {})

StepLocationDetails ==
    /\ PipelineAt("detailing")
    /\ \E results \in Detailed(pipeline.results) :
          pipeline' = [pipeline EXCEPT !.pc = "storing", !.results = results]
    /\ UNCHANGED <<offset, enriched, session, position, consumer, pending, iterator, adapter,
                   ended, left, finished>>

\* s3Sink.Store overwrites.  Its error is logged like any step's, and a write
\* that reports one may have been made.
Store ==
    LET written == [enriched EXCEPT ![Named(pipeline.item)] = pipeline.results] IN
    /\ PipelineAt("storing")
    /\ enriched' \in {written} \cup (IF MayFail("store") THEN {enriched} ELSE {})
    /\ pipeline' = [pipeline EXCEPT !.pc = "finishing"]
    /\ UNCHANGED <<offset, session, position, consumer, pending, iterator, adapter, ended, left, finished>>

Further(m, n) == IF m < n THEN n ELSE m

\* signalDone: the item is acknowledged, whatever became of its steps.
Finish ==
    /\ PipelineAt("finishing")
    /\ Ack(pipeline.item.msg)
    /\ ended' = ended \cup {pipeline.item}
    /\ finished' = IF pending[pipeline.item.msg] = 1 THEN Further(finished, pipeline.item.msg)
                   ELSE finished
    /\ pipeline' = [pc |-> "checking", item |-> NoItem, results |-> "bare"]
    /\ UNCHANGED <<enriched, session, position, consumer, iterator, adapter, left>>

(***************************************************************************)
(* The life of the process.                                                *)
(***************************************************************************)

Cancel ==
    /\ session.state = "up"
    /\ session' = [session EXCEPT !.state = "cancelled"]
    /\ UNCHANGED <<offset, enriched, goroutines, history>>

\* Items of message n that a goroutine has received and not dealt with.
Outstanding(n) ==
    {i \in Items : /\ i.msg = n
                   /\ \/ iterator.msg = n /\ i.rec >= iterator.rec
                      \/ adapter.item = i
                      \/ pipeline.item = i}

\* What the process has in hand, the message the consumer offers included.
InHand == {i \in Items : i \in Outstanding(i.msg) \/ i.msg = consumer.msg}

\* The process is gone, and with it whatever it had in hand.
Stop ==
    /\ session' = [session EXCEPT !.state = "down"]
    /\ left' = left \cup InHand
    /\ UNCHANGED <<offset, enriched, goroutines, ended, finished>>

\* runEnrich returns once the consumer has stopped; goroutines that are left
\* end with the process.
Exit == PipelineAt("returned") /\ ConsumerClosed /\ Stop

Crash == Running /\ Stop

FreshConsumer == [pc |-> "reading", msg |-> 0]
FreshIterator == [pc |-> "waiting", msg |-> 0, rec |-> 0]
FreshAdapter == [pc |-> "waiting", item |-> NoItem]
FreshPipeline == [pc |-> "checking", item |-> NoItem, results |-> "bare"]

\* The group's committed offset is where the next process reads on.
Start ==
    /\ ~Running /\ session.number < MaxSessions
    /\ session' = [number |-> session.number + 1, state |-> "up"]
    /\ position' = offset
    /\ consumer' = FreshConsumer
    /\ pending' = [n \in Messages |-> 0]
    /\ iterator' = FreshIterator
    /\ adapter' = FreshAdapter
    /\ pipeline' = FreshPipeline
    /\ UNCHANGED <<offset, enriched, history>>

Init ==
    /\ offset = 0
    /\ enriched = [m \in Museums |-> "unwritten"]
    /\ session = [number |-> 1, state |-> "up"]
    /\ position = 0
    /\ consumer = FreshConsumer
    /\ pending = [n \in Messages |-> 0]
    /\ iterator = FreshIterator
    /\ adapter = FreshAdapter
    /\ pipeline = FreshPipeline
    /\ ended = {} /\ left = {} /\ finished = 0

ConsumerStep == ReadMessage \/ ConsumerEnds

IteratorStep == Receive \/ SkipRecord \/ Load \/ IteratorEnds

AdapterStep == HandOn \/ AdapterEnds

PipelineStep ==
    \/ CheckContext \/ TakeItem \/ PipelineReturns
    \/ StepLocation \/ StepLocationDetails \/ Store \/ Finish

Next ==
    \/ ConsumerStep \/ IteratorStep \/ AdapterStep \/ PipelineStep
    \/ Cancel \/ Exit \/ Crash \/ Start

Spec == Init /\ [][Next]_vars

\* A goroutine that can run does, and every request ends, as each is given a
\* context or a client with a deadline.  Nobody owes an interrupt, a crash or a
\* new start.
FairSpec ==
    /\ Spec
    /\ WF_vars(ConsumerStep) /\ WF_vars(IteratorStep)
    /\ WF_vars(AdapterStep) /\ WF_vars(PipelineStep) /\ WF_vars(Exit)

(***************************************************************************)
(* Properties.                                                             *)
(***************************************************************************)

ItemOrNone == Items \cup {NoItem}

\* Type correctness: the states the four goroutines, the broker and the store
\* can be in.
TypeOK ==
    /\ offset \in 0 .. Len(Topic)
    /\ enriched \in [Museums -> Results \cup {"unwritten"}]
    /\ session \in [number : 1 .. MaxSessions, state : {"up", "cancelled", "down"}]
    /\ position \in 0 .. Len(Topic)
    /\ consumer \in [pc : {"reading", "sending", "ended"}, msg : 0 .. Len(Topic)]
    /\ pending \in [Messages -> Nat]
    /\ iterator \in [pc : {"waiting", "loading", "offering", "ended"},
                     msg : 0 .. Len(Topic), rec : Nat]
    /\ adapter \in [pc : {"waiting", "holding", "ended"}, item : ItemOrNone]
    /\ pipeline \in [pc : {"checking", "selecting", "locating", "detailing", "storing",
                           "finishing", "returned"},
                     item : ItemOrNone, results : Results]
    /\ ended \subseteq Items /\ left \subseteq Items
    /\ finished \in 0 .. Len(Topic)

\* The order in which the records come out of the topic.
Before(i, j) == i.msg < j.msg \/ (i.msg = j.msg /\ i.rec < j.rec)

\* Nobody overtakes: what the pipeline has in hand comes before what the adapter
\* holds, that before the iterator's place, and that before what was read.
HandedOnInOrder ==
    /\ consumer.pc = "sending" => consumer.msg = position /\ iterator.msg < position
    /\ iterator.msg <= position
    /\ adapter.item # NoItem => Before(adapter.item, AtHand)
    /\ pipeline.item # NoItem => Before(pipeline.item, AtHand)
    /\ (adapter.item # NoItem /\ pipeline.item # NoItem)
         => Before(pipeline.item, adapter.item)

\* A goroutine holds an item where its code does, and the iterator waits for a
\* message only when it has been through the last.
HandsAreFullOrEmpty ==
    /\ consumer.pc # "sending" => consumer.msg = 0
    /\ iterator.pc \in {"loading", "offering"} => AtHand \in Items
    /\ iterator.pc = "waiting" =>
          \A i \in Items : i.msg = iterator.msg => i.rec < iterator.rec
    /\ adapter.pc = "holding" <=> adapter.item # NoItem
    /\ pipeline.pc \in {"locating", "detailing", "storing", "finishing"}
          <=> pipeline.item # NoItem

\* An acker waits for exactly the items of its message that are still on their
\* way (acker: "Repeated calls beyond the count are ignored", so too many would
\* commit early and too few would never commit).
AckersAwaitWhatIsLeft ==
    \A n \in Messages : pending[n] = Cardinality(Outstanding(n))

\* An item the reader is past, in this session or an earlier one, has ended, is
\* in somebody's hands, or was let go of where the code does that: its message
\* was read and the commit of the read failed, or it was in hand when the context
\* or the process ended.  Nothing is lost on the way from one goroutine to the
\* next, however records and requests fail.
NothingIsDropped ==
    \A i \in Items : i.msg <= position => i \in ended \cup left \cup InHand

\* The group is never past what this reader has read, so that nothing is skipped
\* by a commit: what a restart does not deliver again has ended or was in hand.
NothingIsCommittedUnread == offset <= position

\* "The offset is committed only once every object carried by this message has
\* been acknowledged by the consumer" (iterator.go): true of the commits made by
\* an item at the end of its stages.  Up to there no item is on its way any more,
\* in this message or one before it.
ThePipelineNeverOvertakes ==
    \A i \in Items : i.msg <= finished => i \in ended \cup left

\* What the four goroutines and the broker agree on at every moment: who holds
\* what, who is waited for, and what is no longer.
EnrichInv ==
    /\ TypeOK
    /\ HandedOnInOrder
    /\ HandsAreFullOrEmpty
    /\ AckersAwaitWhatIsLeft
    /\ NothingIsDropped
    /\ NothingIsCommittedUnread
    /\ ThePipelineNeverOvertakes

Idle ==
    /\ consumer.pc = "reading" /\ iterator.pc = "waiting" /\ adapter.pc = "waiting"
    /\ pipeline.pc \in {"checking", "selecting"}

\* A session that nobody interrupts comes to the end of the topic and finishes
\* every item on the way: no record, however it fails, stalls the consumer.
EverySessionDrains == []<>(session.state # "up" \/ (Idle /\ position = Len(Topic)))

\* An interrupt ends the process: no goroutine it waits for waits on one that
\* has left.
InterruptEnds == Cancelled ~> ~Running

\* "the Kafka offset advances only once a museum has been through every stage and
\* written back": every museum of a committed message has been written, unless
\* its object was not there to be loaded.  The code does not keep this promise, as
\* the read itself commits: see the findings in README.md.
CommittedIsWritten ==
    "load" \notin Faults =>
        \A i \in Items : i.msg <= offset /\ Named(i) \in Museums =>
            enriched[Named(i)] # "unwritten"
=============================================================================
