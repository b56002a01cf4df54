---------------------------- MODULE EnrichProofs ----------------------------
(***************************************************************************)
(* What the four goroutines of an enrichment owe one another and the       *)
(* broker, for any topic, whatever fails, however often the process dies   *)
(* and is started again.                                                   *)
(***************************************************************************)
EXTENDS Enrich, FunctionTheorems, FiniteSetTheorems, TLAPS

(***************************************************************************)
(* The topic and its items.                                                *)
(***************************************************************************)

LEMMA MessagesHaveRecords ==
    ASSUME NEW n \in Messages
    PROVE  /\ Records(n) \in Seq(Museums \cup {BadKey})
           /\ Len(Records(n)) \in Nat
           /\ Topic[n].parses \in BOOLEAN
           /\ ~Topic[n].parses => Len(Records(n)) = 0
           /\ Records(n) = <<>> <=> Len(Records(n)) = 0
<1>1. /\ Topic \in Seq([parses : BOOLEAN, records : Seq(Museums \cup {BadKey})])
      /\ ~Topic[n].parses => Topic[n].records = <<>>
  BY EnrichAssumption DEF Messages
<1> DEFINE Events == [parses : BOOLEAN, records : Seq(Museums \cup {BadKey})]
<1>2. Topic[n] \in Events
  <2>1. Topic \in Seq(Events) /\ n \in 1 .. Len(Topic)
    BY <1>1 DEF Messages
  <2> HIDE DEF Events
  <2> QED
    BY <2>1
<1>3. Records(n) \in Seq(Museums \cup {BadKey}) /\ Topic[n].parses \in BOOLEAN
  BY <1>2 DEF Records
<1>4. ~Topic[n].parses => Records(n) = <<>>
  BY <1>1 DEF Records
<1>5. Records(n) = <<>> <=> Len(Records(n)) = 0
  BY <1>3
<1> QED
  BY <1>3, <1>4, <1>5

LEMMA TopicIsFinite == Len(Topic) \in Nat
  BY EnrichAssumption

\* An item is a message and the place of a record in it.
LEMMA ItemsAreRecords ==
    ASSUME NEW i \in Items
    PROVE  /\ i.msg \in Messages /\ i.rec \in 1 .. Len(Records(i.msg))
           /\ i.msg \in Nat \ {0} /\ i.rec \in Nat \ {0}
           /\ i = [msg |-> i.msg, rec |-> i.rec]
           /\ i # NoItem
<1>1. PICK n \in Messages : i \in {[msg |-> n, rec |-> k] : k \in 1 .. Len(Records(n))}
  BY DEF Items
<1>2. PICK k \in 1 .. Len(Records(n)) : i = [msg |-> n, rec |-> k]
  BY <1>1
<1>3. i.msg = n /\ i.rec = k
  BY <1>2
<1>4. n \in Nat \ {0} /\ k \in Nat \ {0}
  BY <1>2, MessagesHaveRecords, TopicIsFinite DEF Messages
<1> QED
  BY <1>2, <1>3, <1>4 DEF NoItem

LEMMA RecordsAreItems ==
    ASSUME NEW n \in Messages, NEW k \in 1 .. Len(Records(n))
    PROVE  [msg |-> n, rec |-> k] \in Items
  BY DEF Items

LEMMA ItemsAreEqual ==
    ASSUME NEW i \in Items, NEW j \in Items, i.msg = j.msg, i.rec = j.rec
    PROVE  i = j
  BY ItemsAreRecords

\* A message has as many items as it has records.
LEMMA ItemsAreCounted ==
    ASSUME NEW n \in Messages
    PROVE  IsFiniteSet(ItemsOf(n)) /\ Cardinality(ItemsOf(n)) = Len(Records(n))
<1> DEFINE K == 1 .. Len(Records(n))
           f == [k \in K |-> [msg |-> n, rec |-> k]]
<1>1. Len(Records(n)) \in Nat
  BY MessagesHaveRecords
<1>2. IsFiniteSet(K) /\ Cardinality(K) = Len(Records(n))
  <2>1. /\ IsFiniteSet(1 .. Len(Records(n)))
        /\ Cardinality(1 .. Len(Records(n))) =
             IF 1 > Len(Records(n)) THEN 0 ELSE Len(Records(n)) - 1 + 1
    BY <1>1, FS_Interval, SMT
  <2> QED
    BY <1>1, <2>1
<1>3. f \in [K -> ItemsOf(n)]
  BY RecordsAreItems DEF ItemsOf
<1>4. \A a, b \in K : f[a] = f[b] => a = b
  <2> SUFFICES ASSUME NEW a \in K, NEW b \in K, f[a] = f[b] PROVE a = b
    OBVIOUS
  <2>1. f[a].rec = a /\ f[b].rec = b
    OBVIOUS
  <2> QED
    BY <2>1
<1>5. \A i \in ItemsOf(n) : \E k \in K : f[k] = i
  <2> SUFFICES ASSUME NEW i \in ItemsOf(n) PROVE \E k \in K : f[k] = i
    OBVIOUS
  <2>1. i.rec \in K /\ i = [msg |-> n, rec |-> i.rec]
    BY ItemsAreRecords DEF ItemsOf
  <2> QED
    BY <2>1
<1>6. f \in Bijection(K, ItemsOf(n))
  BY <1>3, <1>4, <1>5 DEF Bijection, Injection, Surjection, IsInjective
<1> QED
  BY <1>2, <1>6, FS_Bijection DEF ExistsBijection

LEMMA OutstandingIsFinite ==
    ASSUME NEW n \in Messages
    PROVE  IsFiniteSet(Outstanding(n))
<1>1. Outstanding(n) \subseteq ItemsOf(n)
  BY DEF Outstanding, ItemsOf
<1> QED
  BY <1>1, ItemsAreCounted, FS_Subset

(***************************************************************************)
(* Commits and acknowledgements.                                           *)
(***************************************************************************)

\* A commit moves the group to the message, or not at all.
LEMMA CommitsMove ==
    ASSUME TypeOK, NEW n \in 0 .. Len(Topic), Commit(n)
    PROVE  offset' \in {n, offset} /\ offset' \in 0 .. Len(Topic)
  BY DEF Commit, FailedCommit, TypeOK

\* Only the last acknowledgement of a message commits it.
LEMMA AcksCount ==
    ASSUME TypeOK, NEW n \in Messages, Ack(n)
    PROVE  /\ pending' \in [Messages -> Nat]
           /\ \A m \in Messages : m # n => pending'[m] = pending[m]
           /\ pending[n] # 0 => pending'[n] = pending[n] - 1
           /\ offset' \in {n, offset} /\ offset' \in 0 .. Len(Topic)
           /\ pending[n] # 1 => offset' = offset
<1>1. pending \in [Messages -> Nat] /\ offset \in 0 .. Len(Topic) /\ n \in 0 .. Len(Topic)
  BY TopicIsFinite DEF TypeOK, Messages
<1>2. pending[n] \in Nat
  BY <1>1
<1>3. pending' = [pending EXCEPT ![n] = IF pending[n] = 0 THEN 0 ELSE pending[n] - 1]
  BY DEF Ack
<1>4. (IF pending[n] = 0 THEN 0 ELSE pending[n] - 1) \in Nat
  BY <1>2
<1>5. offset' \in {n, offset} /\ (pending[n] # 1 => offset' = offset)
  BY <1>1, CommitsMove DEF Ack
<1> QED
  BY <1>1, <1>2, <1>3, <1>4, <1>5

(***************************************************************************)
(* Types.                                                                  *)
(***************************************************************************)

Shape == HandedOnInOrder /\ HandsAreFullOrEmpty

\* What the iterator is given is the message that was read last.
LEMMA OfferIsFresh ==
    ASSUME TypeOK, Shape, consumer.pc = "sending"
    PROVE  /\ consumer.msg \in Messages /\ consumer.msg = position
           /\ iterator.msg < consumer.msg
<1>1. /\ consumer.msg = position /\ iterator.msg < position
      /\ position \in 0 .. Len(Topic) /\ iterator.msg \in 0 .. Len(Topic)
  BY DEF TypeOK, Shape, HandedOnInOrder
<1> QED
  BY <1>1, TopicIsFinite DEF Messages

\* The iterator moves on to the next record of its message, or to waiting.
LEMMA NextRecordIs ==
    ASSUME TypeOK
    PROVE  /\ NextRecord.msg = iterator.msg /\ NextRecord.rec = iterator.rec + 1
           /\ NextRecord.pc = IF iterator.rec < Len(Records(iterator.msg)) THEN "loading"
                              ELSE "waiting"
           /\ NextRecord \in [pc : {"waiting", "loading", "offering", "ended"},
                              msg : 0 .. Len(Topic), rec : Nat]
<1>1. iterator \in [pc : {"waiting", "loading", "offering", "ended"},
                    msg : 0 .. Len(Topic), rec : Nat]
  BY DEF TypeOK
<1>2. iterator.rec + 1 \in Nat
  BY <1>1
<1>3. NextRecord = [iterator EXCEPT !.rec = iterator.rec + 1,
                                    !.pc = IF iterator.rec < Len(Records(iterator.msg))
                                           THEN "loading" ELSE "waiting"]
  BY DEF NextRecord
<1> QED
  BY <1>1, <1>2, <1>3

LEMMA TypesStart == Init => TypeOK
<1>1. 0 \in 0 .. Len(Topic) /\ 1 \in 1 .. MaxSessions
  BY TopicIsFinite, EnrichAssumption
<1> QED
  BY <1>1 DEF Init, TypeOK, FreshConsumer, FreshIterator, FreshAdapter, FreshPipeline,
              ItemOrNone, NoItem, Results

\* Every action keeps the types; the offset stays within the topic because the
\* iterator commits what it received and the pipeline what it holds.
LEMMA TypesAreKept == TypeOK /\ Shape /\ [Next]_vars => TypeOK'
<1> SUFFICES ASSUME TypeOK, Shape, [Next]_vars PROVE TypeOK'
  OBVIOUS
<1>1. CASE UNCHANGED vars
  BY <1>1 DEF TypeOK, vars
<1>2. CASE ReadMessage
  <2>1. position + 1 \in 0 .. Len(Topic) /\ 0 \in 0 .. Len(Topic)
    BY <1>2, TopicIsFinite DEF ReadMessage, TypeOK
  <2>2. offset' \in 0 .. Len(Topic) /\ left' \subseteq Items
    BY <1>2, <2>1 DEF ReadMessage, FailedCommit, ItemsOf, TypeOK
  <2>3. consumer' \in [pc : {"reading", "sending", "ended"}, msg : 0 .. Len(Topic)]
    BY <1>2, <2>1 DEF ReadMessage, NextRead
  <2> QED
    BY <1>2, <2>1, <2>2, <2>3 DEF ReadMessage, TypeOK
<1>3. CASE ConsumerEnds
  BY <1>3, TopicIsFinite DEF ConsumerEnds, ItemsOf, TypeOK
<1>4. CASE Receive
  <2> DEFINE n == consumer.msg
  <2>1. n \in Messages /\ n \in 0 .. Len(Topic) /\ Len(Records(n)) \in Nat
    BY <1>4, OfferIsFresh, TopicIsFinite, MessagesHaveRecords DEF Receive, Messages
  <2>2. offset' \in 0 .. Len(Topic) /\ left' \subseteq Items
    BY <1>4, <2>1, CommitsMove DEF Receive, ItemsOf, TypeOK
  <2>3. consumer' \in [pc : {"reading", "sending", "ended"}, msg : 0 .. Len(Topic)]
    BY <1>4, TopicIsFinite DEF Receive, NextRead
  <2>4. pending' \in [Messages -> Nat]
    BY <1>4, <2>1 DEF Receive, TypeOK
  <2>5. iterator' \in [pc : {"waiting", "loading", "offering", "ended"},
                       msg : 0 .. Len(Topic), rec : Nat]
    BY <1>4, <2>1 DEF Receive, SkipUnparsable, TypeOK
  <2> QED
    BY <1>4, <2>2, <2>3, <2>4, <2>5 DEF Receive, TypeOK
<1>5. CASE SkipRecord
  <2>1. AtHand \in Items /\ iterator.msg \in Messages
    BY <1>5, ItemsAreRecords DEF SkipRecord, Shape, HandsAreFullOrEmpty, AtHand
  <2>2. pending' \in [Messages -> Nat] /\ offset' \in 0 .. Len(Topic)
    BY <1>5, <2>1, AcksCount DEF SkipRecord, SkipAck
  <2>3. ended' \subseteq Items
    BY <1>5, <2>1 DEF SkipRecord, TypeOK
  <2> QED
    BY <1>5, <2>2, <2>3, NextRecordIs DEF SkipRecord, TypeOK
<1>6. CASE Load
  BY <1>6 DEF Load, TypeOK
<1>7. CASE IteratorEnds
  BY <1>7 DEF IteratorEnds, TypeOK
<1>8. CASE HandOn
  <2>1. AtHand \in Items
    BY <1>8 DEF HandOn, Shape, HandsAreFullOrEmpty
  <2> QED
    BY <1>8, <2>1, NextRecordIs DEF HandOn, CarryAck, TypeOK, ItemOrNone
<1>9. CASE AdapterEnds
  BY <1>9 DEF AdapterEnds, TypeOK
<1>10. CASE CheckContext
  BY <1>10 DEF CheckContext, PipelineAt, TypeOK
<1>11. CASE TakeItem
  BY <1>11 DEF TakeItem, PipelineAt, TypeOK, ItemOrNone, Results
<1>12. CASE PipelineReturns
  BY <1>12 DEF PipelineReturns, PipelineAt, TypeOK
<1>13. CASE StepLocation
  BY <1>13 DEF StepLocation, PipelineAt, TypeOK, Results
<1>14. CASE StepLocationDetails
  <2>1. PICK results \in Detailed(pipeline.results) :
             pipeline' = [pipeline EXCEPT !.pc = "storing", !.results = results]
    BY <1>14 DEF StepLocationDetails
  <2>2. results \in Results
    BY DEF Detailed, Results
  <2> QED
    BY <1>14, <2>1, <2>2 DEF StepLocationDetails, TypeOK
<1>15. CASE Store
  BY <1>15 DEF Store, PipelineAt, TypeOK
<1>16. CASE Finish
  <2>1. pipeline.item \in Items /\ pipeline.item.msg \in Messages
    BY <1>16, ItemsAreRecords
    DEF Finish, PipelineAt, Shape, HandsAreFullOrEmpty, TypeOK, ItemOrNone
  <2>2. pending' \in [Messages -> Nat] /\ offset' \in 0 .. Len(Topic)
    BY <1>16, <2>1, AcksCount DEF Finish
  <2>3. finished' \in 0 .. Len(Topic)
    BY <1>16, <2>1, TopicIsFinite DEF Finish, Further, TypeOK, Messages
  <2>4. /\ pipeline' \in [pc : {"checking", "selecting", "locating", "detailing", "storing",
                                "finishing", "returned"},
                          item : ItemOrNone, results : Results]
        /\ ended' \subseteq Items
    BY <1>16, <2>1 DEF Finish, TypeOK, ItemOrNone, Results
  <2> QED
    BY <1>16, <2>2, <2>3, <2>4 DEF Finish, TypeOK
<1>17. CASE Cancel
  BY <1>17 DEF Cancel, TypeOK, goroutines, history
<1>18. CASE Exit \/ Crash
  BY <1>18 DEF Exit, Crash, Stop, InHand, TypeOK, goroutines
<1>20. CASE Start
  <2>1. session' \in [number : 1 .. MaxSessions, state : {"up", "cancelled", "down"}]
    BY <1>20, EnrichAssumption DEF Start, TypeOK
  <2>2. 0 \in 0 .. Len(Topic)
    BY TopicIsFinite
  <2> QED
    BY <1>20, <2>1, <2>2 DEF Start, TypeOK, FreshConsumer, FreshIterator, FreshAdapter,
                             FreshPipeline, ItemOrNone, NoItem, Results, history
<1> QED
  BY <1>1, <1>2, <1>3, <1>4, <1>5, <1>6, <1>7, <1>8, <1>9, <1>10, <1>11, <1>12, <1>13,
     <1>14, <1>15, <1>16, <1>17, <1>18, <1>20
  DEF Next, ConsumerStep, IteratorStep, AdapterStep, PipelineStep

LEMMA ShapeStarts == Init => Shape
  BY ItemsAreRecords
  DEF Init, Shape, HandedOnInOrder, HandsAreFullOrEmpty, FreshConsumer, FreshIterator,
      FreshAdapter, FreshPipeline, NoItem

\* What is neither read, received nor handed on disturbs nobody's place.
LEMMA ShapeRests ==
    ASSUME Shape, position' = position, iterator' = iterator, adapter' = adapter,
           pipeline'.item = pipeline.item,
           pipeline'.pc \in {"locating", "detailing", "storing", "finishing"}
             <=> pipeline.pc \in {"locating", "detailing", "storing", "finishing"},
           consumer' = consumer \/ (consumer'.pc # "sending" /\ consumer'.msg = 0)
    PROVE  Shape'
  BY DEF Shape, HandedOnInOrder, HandsAreFullOrEmpty, AtHand

\* Items are handed on one at a time and in order, each goroutine at most one.
LEMMA ShapeIsKept == TypeOK /\ Shape /\ [Next]_vars => Shape'
<1> SUFFICES ASSUME TypeOK, Shape, [Next]_vars PROVE Shape'
  OBVIOUS
<1> DEFINE Busy == {"locating", "detailing", "storing", "finishing"}
<1>0. /\ position \in Nat /\ iterator.msg \in Nat /\ iterator.rec \in Nat
      /\ adapter.item \in ItemOrNone /\ pipeline.item \in ItemOrNone
      /\ Len(Topic) \in Nat
  BY TopicIsFinite DEF TypeOK
<1>1. CASE UNCHANGED vars
  BY <1>1, ShapeRests DEF vars
<1>2. CASE ReadMessage
  <2>1. /\ position' = position + 1
        /\ \/ consumer'.pc = "sending" /\ consumer'.msg = position + 1
           \/ consumer'.pc # "sending" /\ consumer'.msg = 0
        /\ iterator' = iterator /\ adapter' = adapter /\ pipeline' = pipeline
    BY <1>2 DEF ReadMessage, NextRead
  <2>2. iterator.msg <= position
    BY DEF Shape, HandedOnInOrder
  <2>3. HandedOnInOrder'
    BY <1>0, <2>1, <2>2 DEF Shape, HandedOnInOrder, AtHand
  <2> QED
    BY <2>1, <2>3 DEF Shape, HandsAreFullOrEmpty, AtHand
<1>3. CASE ConsumerEnds
  BY <1>3, ShapeRests DEF ConsumerEnds
<1>4. CASE Receive
  <2> DEFINE n == consumer.msg
  <2>1. /\ n \in Messages /\ n = position /\ iterator.msg < n /\ n \in Nat
        /\ Len(Records(n)) \in Nat
    BY <1>4, OfferIsFresh, MessagesHaveRecords DEF Receive, Messages
  <2>2. /\ consumer'.pc # "sending" /\ consumer'.msg = 0 /\ position' = position
        /\ adapter' = adapter /\ pipeline' = pipeline
    BY <1>4 DEF Receive, NextRead
  <2>3. CASE iterator' = iterator
    BY <2>2, <2>3, ShapeRests
  <2>4. CASE iterator' = [iterator EXCEPT !.pc = "ended"]
    <3>1. iterator'.pc = "ended" /\ iterator'.msg = iterator.msg /\ iterator'.rec = iterator.rec
      BY <2>4 DEF TypeOK
    <3>2. HandedOnInOrder'
      BY <2>2, <3>1 DEF Shape, HandedOnInOrder, AtHand
    <3> QED
      BY <2>2, <3>1, <3>2 DEF Shape, HandsAreFullOrEmpty
  <2>5. CASE iterator' = [pc |-> "loading", msg |-> n, rec |-> 1] /\ Records(n) # <<>>
    <3>1. iterator'.pc = "loading" /\ iterator'.msg = n /\ iterator'.rec = 1
      BY <2>5
    <3>2. Len(Records(n)) # 0
      BY <2>1, <2>5, MessagesHaveRecords
    <3>3. AtHand' \in Items
      BY <2>1, <3>1, <3>2, RecordsAreItems DEF AtHand
    <3>4. /\ adapter.item # NoItem => adapter.item.msg <= iterator.msg /\ adapter.item.msg \in Nat
          /\ pipeline.item # NoItem => pipeline.item.msg <= iterator.msg /\ pipeline.item.msg \in Nat
      BY <1>0, ItemsAreRecords DEF Shape, HandedOnInOrder, Before, AtHand, ItemOrNone
    <3>5. HandedOnInOrder'
      BY <1>0, <2>1, <2>2, <3>1, <3>4 DEF Shape, HandedOnInOrder, Before, AtHand
    <3> QED
      BY <2>2, <3>1, <3>3, <3>5 DEF Shape, HandsAreFullOrEmpty
  <2> QED
    BY <1>4, <2>3, <2>4, <2>5 DEF Receive, SkipUnparsable
<1>5. CASE iterator' = NextRecord /\ iterator.pc \in {"loading", "offering"}
           /\ adapter' = adapter /\ pipeline' = pipeline
           /\ consumer' = consumer /\ position' = position
  <2>1. /\ AtHand \in Items /\ iterator.msg \in Messages
        /\ iterator.rec \in 1 .. Len(Records(iterator.msg))
        /\ Len(Records(iterator.msg)) \in Nat
    BY <1>5, ItemsAreRecords, MessagesHaveRecords DEF Shape, HandsAreFullOrEmpty, AtHand
  <2>2. /\ iterator'.msg = iterator.msg /\ iterator'.rec = iterator.rec + 1
        /\ iterator'.pc = IF iterator.rec < Len(Records(iterator.msg)) THEN "loading"
                          ELSE "waiting"
    BY <1>5, NextRecordIs
  <2>3. \A i \in Items : Before(i, AtHand) => Before(i, AtHand)'
    BY <1>0, <2>2, ItemsAreRecords DEF Before, AtHand
  <2>4. HandedOnInOrder'
    BY <1>0, <1>5, <2>2, <2>3 DEF Shape, HandedOnInOrder, ItemOrNone
  <2>5. iterator'.pc \in {"loading", "offering"} => AtHand' \in Items
    BY <2>1, <2>2, RecordsAreItems DEF AtHand
  <2>6. iterator'.pc = "waiting" => \A i \in Items : i.msg = iterator'.msg => i.rec < iterator'.rec
    BY <2>1, <2>2, ItemsAreRecords
  <2> QED
    BY <1>5, <2>4, <2>5, <2>6 DEF Shape, HandsAreFullOrEmpty
<1>6. CASE SkipRecord
  BY <1>5, <1>6 DEF SkipRecord
<1>7. CASE Load
  <2>1. /\ iterator'.pc = "offering" /\ iterator'.msg = iterator.msg /\ iterator'.rec = iterator.rec
        /\ iterator.pc = "loading" /\ position' = position /\ consumer' = consumer
        /\ adapter' = adapter /\ pipeline' = pipeline
    BY <1>7 DEF Load, TypeOK
  <2> QED
    BY <2>1 DEF Shape, HandedOnInOrder, HandsAreFullOrEmpty, AtHand
<1>8. CASE IteratorEnds
  <2>1. /\ iterator'.pc = "ended" /\ iterator'.msg = iterator.msg /\ iterator'.rec = iterator.rec
        /\ position' = position /\ consumer' = consumer
        /\ adapter' = adapter /\ pipeline' = pipeline
    BY <1>8 DEF IteratorEnds, TypeOK
  <2> QED
    BY <2>1 DEF Shape, HandedOnInOrder, HandsAreFullOrEmpty, AtHand
<1>9. CASE HandOn
  <2>1. /\ AtHand \in Items /\ iterator.msg \in Messages
        /\ iterator.rec \in 1 .. Len(Records(iterator.msg))
        /\ Len(Records(iterator.msg)) \in Nat
    BY <1>9, ItemsAreRecords, MessagesHaveRecords DEF HandOn, Shape, HandsAreFullOrEmpty, AtHand
  <2>2. /\ iterator'.msg = iterator.msg /\ iterator'.rec = iterator.rec + 1
        /\ iterator'.pc = IF iterator.rec < Len(Records(iterator.msg)) THEN "loading"
                          ELSE "waiting"
    BY <1>9, NextRecordIs DEF HandOn
  <2>3. /\ adapter'.pc = "holding" /\ adapter'.item = AtHand
        /\ pipeline' = pipeline /\ consumer' = consumer /\ position' = position
    BY <1>9 DEF HandOn
  <2>4. \A i \in Items : Before(i, AtHand) => Before(i, AtHand)'
    BY <1>0, <2>2, ItemsAreRecords DEF Before, AtHand
  <2>5. iterator.msg = iterator'.msg /\ iterator.rec < iterator'.rec
    BY <1>0, <2>2
  <2>6. HandedOnInOrder'
    <3>1. adapter'.item # NoItem => Before(adapter.item, AtHand)'
      BY <2>3, <2>5 DEF Before, AtHand
    <3>2. pipeline'.item # NoItem => Before(pipeline.item, AtHand)'
      BY <1>0, <2>3, <2>4 DEF Shape, HandedOnInOrder, ItemOrNone
    <3>3. pipeline'.item # NoItem => Before(pipeline.item, adapter.item)'
      BY <2>3 DEF Shape, HandedOnInOrder, Before
    <3> QED
      BY <2>2, <2>3, <3>1, <3>2, <3>3 DEF Shape, HandedOnInOrder
  <2>7. iterator'.pc \in {"loading", "offering"} => AtHand' \in Items
    BY <2>1, <2>2, RecordsAreItems DEF AtHand
  <2>8. iterator'.pc = "waiting" => \A i \in Items : i.msg = iterator'.msg => i.rec < iterator'.rec
    BY <2>1, <2>2, ItemsAreRecords
  <2> QED
    BY <2>1, <2>3, <2>6, <2>7, <2>8, ItemsAreRecords DEF Shape, HandsAreFullOrEmpty
<1>10. CASE AdapterEnds
  <2>1. /\ adapter.pc = "waiting" /\ adapter'.pc = "ended" /\ adapter'.item = adapter.item
        /\ iterator' = iterator /\ pipeline' = pipeline /\ consumer' = consumer
        /\ position' = position
    BY <1>10 DEF AdapterEnds, TypeOK
  <2> QED
    BY <2>1 DEF Shape, HandedOnInOrder, HandsAreFullOrEmpty, AtHand
<1>11. CASE CheckContext
  BY <1>11, ShapeRests DEF CheckContext, PipelineAt, TypeOK
<1>12. CASE TakeItem
  <2>1. /\ adapter.item # NoItem
        /\ pipeline'.pc = "locating" /\ pipeline'.item = adapter.item
        /\ adapter'.pc = "waiting" /\ adapter'.item = NoItem
        /\ iterator' = iterator /\ consumer' = consumer /\ position' = position
    BY <1>12 DEF TakeItem, Shape, HandsAreFullOrEmpty
  <2> QED
    BY <2>1 DEF Shape, HandedOnInOrder, HandsAreFullOrEmpty, AtHand
<1>13. CASE PipelineReturns
  BY <1>13, ShapeRests DEF PipelineReturns, PipelineAt, TypeOK
<1>14. CASE StepLocation
  BY <1>14, ShapeRests DEF StepLocation, PipelineAt, TypeOK
<1>15. CASE StepLocationDetails
  BY <1>15, ShapeRests DEF StepLocationDetails, PipelineAt, TypeOK
<1>16. CASE Store
  BY <1>16, ShapeRests DEF Store, PipelineAt, TypeOK
<1>17. CASE Finish
  <2>1. /\ pipeline'.pc = "checking" /\ pipeline'.item = NoItem
        /\ adapter' = adapter /\ iterator' = iterator /\ consumer' = consumer
        /\ position' = position
    BY <1>17 DEF Finish
  <2> QED
    BY <2>1 DEF Shape, HandedOnInOrder, HandsAreFullOrEmpty, AtHand
<1>18. CASE Cancel \/ Exit \/ Crash
  BY <1>18, ShapeRests DEF Cancel, Exit, Crash, Stop, goroutines
<1>19. CASE Start
  <2>1. /\ consumer'.pc = "reading" /\ consumer'.msg = 0 /\ position' = offset
        /\ iterator'.pc = "waiting" /\ iterator'.msg = 0 /\ iterator'.rec = 0
        /\ adapter'.pc = "waiting" /\ adapter'.item = NoItem
        /\ pipeline'.pc = "checking" /\ pipeline'.item = NoItem
    BY <1>19 DEF Start, FreshConsumer, FreshIterator, FreshAdapter, FreshPipeline
  <2>2. offset \in Nat
    BY TopicIsFinite DEF TypeOK
  <2> QED
    BY <2>1, <2>2, ItemsAreRecords DEF Shape, HandedOnInOrder, HandsAreFullOrEmpty
<1> QED
  BY <1>1, <1>2, <1>3, <1>4, <1>6, <1>7, <1>8, <1>9, <1>10, <1>11, <1>12, <1>13, <1>14,
     <1>15, <1>16, <1>17, <1>18, <1>19
  DEF Next, ConsumerStep, IteratorStep, AdapterStep, PipelineStep

(***************************************************************************)
(* What is left.  Three actions change it: a message that is received adds *)
(* its items, and a record skipped or an item finished is one less.        *)
(***************************************************************************)

\* A record the iterator has in hand is left, and with nobody else.
LEMMA AtHandIsLeft ==
    ASSUME TypeOK, Shape, iterator.pc \in {"loading", "offering"}
    PROVE  /\ AtHand \in Items /\ iterator.msg \in Messages
           /\ AtHand.msg = iterator.msg /\ AtHand.rec = iterator.rec
           /\ AtHand \in Outstanding(iterator.msg)
           /\ adapter.item # AtHand /\ pipeline.item # AtHand
<1>1. /\ AtHand \in Items /\ AtHand.msg = iterator.msg /\ AtHand.rec = iterator.rec
      /\ iterator.msg \in Nat /\ iterator.rec \in Nat
  BY DEF TypeOK, Shape, HandsAreFullOrEmpty, AtHand
<1>2. iterator.msg \in Messages /\ AtHand # NoItem
  BY <1>1, ItemsAreRecords
<1>3. AtHand \in Outstanding(iterator.msg)
  BY <1>1 DEF Outstanding
<1>4. adapter.item # AtHand /\ pipeline.item # AtHand
  BY <1>1, <1>2 DEF Shape, HandedOnInOrder, Before
<1> QED
  BY <1>1, <1>2, <1>3, <1>4

\* The item the pipeline works on is left, and with nobody else.
LEMMA InWorkIsLeft ==
    ASSUME TypeOK, Shape, pipeline.item # NoItem
    PROVE  /\ pipeline.item \in Items /\ pipeline.item.msg \in Messages
           /\ pipeline.item \in Outstanding(pipeline.item.msg)
           /\ adapter.item # pipeline.item
           /\ pipeline.item.msg <= iterator.msg
           /\ pipeline.item.msg = iterator.msg => pipeline.item.rec < iterator.rec
           /\ \A i \in Items :
                 i \in Outstanding(i.msg) => i = pipeline.item \/ Before(pipeline.item, i)
<1> DEFINE p == pipeline.item
<1>1. /\ p \in Items /\ p.msg \in Messages /\ p.msg \in Nat /\ p.rec \in Nat
      /\ iterator.msg \in Nat /\ iterator.rec \in Nat
  BY ItemsAreRecords DEF TypeOK, ItemOrNone
<1>2. p \in Outstanding(p.msg)
  BY <1>1 DEF Outstanding
<1>3. adapter.item # p
  BY <1>1 DEF Shape, HandedOnInOrder, Before
<1>4. p.msg <= iterator.msg /\ (p.msg = iterator.msg => p.rec < iterator.rec)
  BY <1>1 DEF Shape, HandedOnInOrder, Before, AtHand
<1>5. ASSUME NEW i \in Items, i \in Outstanding(i.msg), i # p PROVE Before(p, i)
  <2>1. i.msg \in Nat /\ i.rec \in Nat /\ i # NoItem
    BY ItemsAreRecords
  <2>2. CASE iterator.msg = i.msg /\ i.rec >= iterator.rec
    BY <1>1, <1>4, <2>1, <2>2 DEF Before
  <2>3. CASE adapter.item = i
    BY <2>1, <2>3 DEF Shape, HandedOnInOrder
  <2> QED
    BY <1>5, <2>2, <2>3 DEF Outstanding
<1> QED
  BY <1>1, <1>2, <1>3, <1>4, <1>5

\* What is left of every message, when nobody's place has changed.
LEMMA NothingDone ==
    ASSUME iterator'.msg = iterator.msg, iterator'.rec = iterator.rec,
           adapter'.item = adapter.item, pipeline'.item = pipeline.item, NEW n
    PROVE  Outstanding(n)' = Outstanding(n)
  BY DEF Outstanding

\* An item handed on is left all the same.
LEMMA HandingOnKeeps ==
    ASSUME TypeOK, Shape, HandOn \/ TakeItem, NEW n \in Messages
    PROVE  Outstanding(n)' = Outstanding(n)
<1>1. CASE HandOn
  <2>1. /\ AtHand \in Items /\ AtHand.msg = iterator.msg /\ AtHand.rec = iterator.rec
        /\ iterator.rec \in Nat
    BY <1>1, AtHandIsLeft DEF HandOn, TypeOK
  <2>2. /\ adapter.item = NoItem /\ adapter'.item = AtHand /\ pipeline' = pipeline
        /\ iterator'.msg = iterator.msg /\ iterator'.rec = iterator.rec + 1
    BY <1>1, NextRecordIs DEF HandOn, Shape, HandsAreFullOrEmpty
  <2>3. ASSUME NEW i \in Items, i.msg = iterator.msg
        PROVE  i.rec >= iterator.rec <=> (i.rec >= iterator.rec + 1 \/ i = AtHand)
    BY <2>1, <2>3, ItemsAreRecords, ItemsAreEqual
  <2>4. \A i \in Items : i # NoItem
    BY ItemsAreRecords
  <2>5. ASSUME NEW i \in Items
        PROVE  i \in Outstanding(n)' <=> i \in Outstanding(n)
    BY <2>1, <2>2, <2>3, <2>4 DEF Outstanding
  <2> QED
    BY <2>5 DEF Outstanding
<1>2. CASE TakeItem
  <2>1. /\ pipeline.item = NoItem /\ pipeline'.item = adapter.item /\ adapter'.item = NoItem
        /\ iterator' = iterator
    BY <1>2 DEF TakeItem, PipelineAt, Shape, HandsAreFullOrEmpty
  <2>2. \A i \in Items : i # NoItem
    BY ItemsAreRecords
  <2> QED
    BY <2>1, <2>2 DEF Outstanding
<1> QED
  BY <1>1, <1>2

\* A record that is skipped is done with.
LEMMA SkippingTakesOne ==
    ASSUME TypeOK, Shape, SkipRecord, NEW n \in Messages
    PROVE  Outstanding(n)' = Outstanding(n) \ {AtHand}
<1>1. /\ AtHand \in Items /\ AtHand.msg = iterator.msg /\ AtHand.rec = iterator.rec
      /\ adapter.item # AtHand /\ pipeline.item # AtHand
      /\ iterator.rec \in Nat
  BY AtHandIsLeft DEF SkipRecord, TypeOK
<1>2. /\ adapter' = adapter /\ pipeline' = pipeline
      /\ iterator'.msg = iterator.msg /\ iterator'.rec = iterator.rec + 1
  BY NextRecordIs DEF SkipRecord
<1>3. ASSUME NEW i \in Items, i.msg = iterator.msg
      PROVE  i.rec >= iterator.rec + 1 <=> (i.rec >= iterator.rec /\ i # AtHand)
  BY <1>1, <1>3, ItemsAreRecords, ItemsAreEqual
<1>4. ASSUME NEW i \in Items
      PROVE  i \in Outstanding(n)' <=> (i \in Outstanding(n) /\ i # AtHand)
  BY <1>1, <1>2, <1>3 DEF Outstanding
<1> QED
  BY <1>4 DEF Outstanding

\* So is an item that is finished.
LEMMA FinishingTakesOne ==
    ASSUME TypeOK, Shape, Finish, NEW n \in Messages
    PROVE  Outstanding(n)' = Outstanding(n) \ {pipeline.item}
<1>1. pipeline.item # NoItem
  BY DEF Finish, PipelineAt, Shape, HandsAreFullOrEmpty
<1>2. /\ adapter' = adapter /\ iterator' = iterator /\ pipeline'.item = NoItem
  BY DEF Finish
<1>3. ASSUME NEW i \in Items
      PROVE  i \in Outstanding(n)' <=> (i \in Outstanding(n) /\ i # pipeline.item)
  <2>1. i # NoItem /\ i.rec \in Nat /\ iterator.rec \in Nat /\ pipeline.item.rec \in Nat
    BY <1>1, ItemsAreRecords DEF TypeOK, ItemOrNone
  <2> QED
    BY <1>1, <1>2, <2>1, InWorkIsLeft DEF Outstanding
<1> QED
  BY <1>3 DEF Outstanding

\* A message that is received leaves all its items, and the others what they were.
LEMMA ReceivingAddsAll ==
    ASSUME TypeOK, Shape, Receive, NEW n \in Messages
    PROVE  /\ iterator'.msg = iterator.msg => Outstanding(n)' = Outstanding(n)
           /\ iterator'.msg # iterator.msg =>
                 Outstanding(n)' = IF n = consumer.msg THEN ItemsOf(n) ELSE Outstanding(n)
<1>1. /\ consumer.msg \in Messages /\ iterator.msg < consumer.msg
      /\ consumer.msg \in Nat /\ iterator.msg \in Nat
      /\ adapter' = adapter /\ pipeline' = pipeline /\ iterator.pc = "waiting"
  BY OfferIsFresh, TopicIsFinite DEF Receive, TypeOK, Messages
<1>2. CASE iterator'.msg = iterator.msg
  <2>1. iterator'.rec = iterator.rec
    BY <1>1, <1>2 DEF Receive, SkipUnparsable, TypeOK
  <2> QED
    BY <1>1, <1>2, <2>1, NothingDone
<1>3. CASE iterator'.msg # iterator.msg
  <2>1. iterator'.msg = consumer.msg /\ iterator'.rec = 1
    BY <1>1, <1>3 DEF Receive, SkipUnparsable, TypeOK
  <2>2. CASE n = consumer.msg
    <3>1. \A i \in Items : i.rec >= 1
      BY ItemsAreRecords
    <3> QED
      BY <1>3, <2>1, <2>2, <3>1 DEF Outstanding, ItemsOf
  <2>3. CASE n # consumer.msg
    <3>1. \A i \in Items : i.msg = iterator.msg => i.rec < iterator.rec
      BY <1>1 DEF Shape, HandsAreFullOrEmpty
    <3>2. \A i \in Items : i.rec \in Nat
      BY ItemsAreRecords
    <3>3. iterator.rec \in Nat
      BY DEF TypeOK
    <3> QED
      BY <1>1, <1>3, <2>1, <2>3, <3>1, <3>2, <3>3 DEF Outstanding
  <2> QED
    BY <1>3, <2>2, <2>3
<1> QED
  BY <1>2, <1>3

(***************************************************************************)
(* Acknowledgements.                                                       *)
(***************************************************************************)

\* An acknowledgement of an item that was left keeps the account of its message.
LEMMA AckKeepsAccounts ==
    ASSUME TypeOK, AckersAwaitWhatIsLeft, NEW n \in Messages, Ack(n),
           NEW i \in Outstanding(n),
           \A m \in Messages : Outstanding(m)' = Outstanding(m) \ {i}
    PROVE  AckersAwaitWhatIsLeft'
<1> SUFFICES ASSUME NEW m \in Messages PROVE pending'[m] = Cardinality(Outstanding(m)')
  BY DEF AckersAwaitWhatIsLeft
<1>1. pending[m] = Cardinality(Outstanding(m)) /\ IsFiniteSet(Outstanding(m))
  BY OutstandingIsFinite DEF AckersAwaitWhatIsLeft
<1>2. Cardinality(Outstanding(m) \ {i}) =
        IF i \in Outstanding(m) THEN Cardinality(Outstanding(m)) - 1
        ELSE Cardinality(Outstanding(m))
  BY <1>1, FS_RemoveElement, Zenon
<1>3. CASE m = n
  <2>1. Outstanding(m) # {}
    BY <1>3
  <2>2. pending[m] # 0
    BY <1>1, <2>1, FS_EmptySet
  <2> QED
    BY <1>1, <1>2, <1>3, <2>2, AcksCount
<1>4. CASE m # n
  <2>1. i.msg = n
    BY DEF Outstanding
  <2>2. i \notin Outstanding(m)
    BY <1>4, <2>1 DEF Outstanding
  <2> QED
    BY <1>1, <1>2, <1>4, <2>2, AcksCount
<1> QED
  BY <1>3, <1>4

\* Where nothing is acknowledged and nothing is done, the accounts stand.
LEMMA AccountsRest ==
    ASSUME AckersAwaitWhatIsLeft, pending' = pending,
           \A m \in Messages : Outstanding(m)' = Outstanding(m)
    PROVE  AckersAwaitWhatIsLeft'
  BY DEF AckersAwaitWhatIsLeft

LEMMA AccountsStart == Init => AckersAwaitWhatIsLeft
<1> SUFFICES ASSUME Init PROVE AckersAwaitWhatIsLeft
  OBVIOUS
<1>1. \A i \in Items : i.msg # 0 /\ i # NoItem
  BY ItemsAreRecords
<1>2. \A n \in Messages : Outstanding(n) = {} /\ pending[n] = 0
  BY <1>1
  DEF Init, Outstanding, FreshIterator, FreshAdapter, FreshPipeline, Messages
<1> QED
  BY <1>2, FS_EmptySet DEF AckersAwaitWhatIsLeft

\* An acker is made for every item of a message, and told once of each: by the
\* iterator of those it skips, by the pipeline of those it finishes.
LEMMA AccountsAreKept ==
    TypeOK /\ Shape /\ AckersAwaitWhatIsLeft /\ [Next]_vars => AckersAwaitWhatIsLeft'
<1> SUFFICES ASSUME TypeOK, Shape, AckersAwaitWhatIsLeft, [Next]_vars
             PROVE  AckersAwaitWhatIsLeft'
  OBVIOUS
<1>1. CASE /\ iterator'.msg = iterator.msg /\ iterator'.rec = iterator.rec
           /\ adapter'.item = adapter.item /\ pipeline'.item = pipeline.item
           /\ pending' = pending
  BY <1>1, NothingDone, AccountsRest
<1>2. CASE UNCHANGED vars
  BY <1>1, <1>2 DEF vars
<1>3. CASE ReadMessage \/ ConsumerEnds
  BY <1>1, <1>3 DEF ReadMessage, ConsumerEnds
<1>4. CASE Receive
  <2> DEFINE n == consumer.msg
  <2>1. n \in Messages /\ Len(Records(n)) \in Nat /\ iterator.msg < n /\ iterator.msg \in Nat
    BY <1>4, OfferIsFresh, MessagesHaveRecords DEF Receive, TypeOK
  <2>2. CASE iterator'.msg = iterator.msg
    <3>1. pending' = pending
      BY <1>4, <2>1, <2>2 DEF Receive
    <3> QED
      BY <1>4, <2>2, <3>1, ReceivingAddsAll, AccountsRest
  <2>3. CASE iterator'.msg # iterator.msg
    <3>1. pending' = [pending EXCEPT ![n] = Len(Records(n))]
      BY <1>4, <2>3 DEF Receive, SkipUnparsable, TypeOK
    <3>2. \A m \in Messages :
             Outstanding(m)' = IF m = n THEN ItemsOf(m) ELSE Outstanding(m)
      BY <1>4, <2>3, ReceivingAddsAll
    <3>3. \A m \in Messages : pending'[m] = IF m = n THEN Len(Records(m)) ELSE pending[m]
      BY <3>1 DEF TypeOK
    <3> QED
      BY <3>2, <3>3, ItemsAreCounted DEF AckersAwaitWhatIsLeft
  <2> QED
    BY <2>2, <2>3
<1>5. CASE SkipRecord
  <2>1. iterator.msg \in Messages /\ AtHand \in Outstanding(iterator.msg)
    BY <1>5, AtHandIsLeft DEF SkipRecord
  <2>2. Ack(iterator.msg)
    BY <1>5 DEF SkipRecord, SkipAck
  <2>3. \A m \in Messages : Outstanding(m)' = Outstanding(m) \ {AtHand}
    BY <1>5, SkippingTakesOne
  <2> DEFINE n == iterator.msg
             i == AtHand
  <2>4. n \in Messages /\ i \in Outstanding(n) /\ Ack(n)
        /\ \A m \in Messages : Outstanding(m)' = Outstanding(m) \ {i}
    BY <2>1, <2>2, <2>3
  <2> QED
    BY <2>4, AckKeepsAccounts
<1>6. CASE Load \/ IteratorEnds
  <2>1. iterator'.msg = iterator.msg /\ iterator'.rec = iterator.rec
    BY <1>6 DEF Load, IteratorEnds, TypeOK
  <2> QED
    BY <1>1, <1>6, <2>1 DEF Load, IteratorEnds
<1>7. CASE HandOn
  BY <1>7, HandingOnKeeps, AccountsRest DEF HandOn, CarryAck
<1>8. CASE AdapterEnds
  <2>1. adapter'.item = adapter.item
    BY <1>8 DEF AdapterEnds, TypeOK
  <2> QED
    BY <1>1, <1>8, <2>1 DEF AdapterEnds
<1>9. CASE TakeItem
  BY <1>9, HandingOnKeeps, AccountsRest DEF TakeItem
<1>10. CASE CheckContext \/ PipelineReturns \/ StepLocation \/ StepLocationDetails \/ Store
  <2>1. pipeline'.item = pipeline.item
    BY <1>10 DEF CheckContext, PipelineReturns, StepLocation, StepLocationDetails, Store, TypeOK
  <2> QED
    BY <1>1, <1>10, <2>1
    DEF CheckContext, PipelineReturns, StepLocation, StepLocationDetails, Store
<1>11. CASE Finish
  <2> DEFINE i == pipeline.item
             n == pipeline.item.msg
  <2>1. pipeline.item # NoItem
    BY <1>11 DEF Finish, PipelineAt, Shape, HandsAreFullOrEmpty
  <2>2. n \in Messages /\ i \in Outstanding(n)
    BY <2>1, InWorkIsLeft
  <2>3. Ack(n) /\ \A m \in Messages : Outstanding(m)' = Outstanding(m) \ {i}
    BY <1>11, FinishingTakesOne DEF Finish
  <2> QED
    BY <2>2, <2>3, AckKeepsAccounts
<1>12. CASE Cancel \/ Exit \/ Crash
  BY <1>1, <1>12 DEF Cancel, Exit, Crash, Stop, goroutines
<1>13. CASE Start
  <2>1. \A n \in Messages : Outstanding(n)' = {} /\ pending'[n] = 0
    <3>1. \A i \in Items : i.msg # 0 /\ i # NoItem
      BY ItemsAreRecords
    <3> QED
      BY <1>13, <3>1 DEF Start, Outstanding, FreshIterator, FreshAdapter, FreshPipeline, Messages
  <2> QED
    BY <2>1, FS_EmptySet DEF AckersAwaitWhatIsLeft
<1> QED
  BY <1>2, <1>3, <1>4, <1>5, <1>6, <1>7, <1>8, <1>9, <1>10, <1>11, <1>12, <1>13
  DEF Next, ConsumerStep, IteratorStep, AdapterStep, PipelineStep

(***************************************************************************)
(* Nothing is dropped.  Why the pipeline's commits are in order: the       *)
(* item it finishes is before everything else that is left, so that what   *)
(* the session is past and that is not left has been dealt with.           *)
(***************************************************************************)

\* What keeps NothingIsDropped: what is read goes into somebody's hands, and what
\* leaves them has ended or is let go of.
LEMMA NothingLost ==
    ASSUME NothingIsDropped, ended \subseteq ended', left \subseteq left',
           \A i \in Items : i.msg <= position' => i.msg <= position \/ i \in left' \cup InHand',
           \A i \in InHand : i \in ended' \cup left' \cup InHand'
    PROVE  NothingIsDropped'
  BY DEF NothingIsDropped

\* What is in hand, when nobody's place has changed.
LEMMA HandsRest ==
    ASSUME consumer'.msg = consumer.msg, \A n \in Messages : Outstanding(n)' = Outstanding(n)
    PROVE  InHand' = InHand
<1>1. \A i \in Items : Outstanding(i.msg)' = Outstanding(i.msg)
  BY ItemsAreRecords
<1> QED
  BY <1>1 DEF InHand

\* What is no longer with one goroutine is with the next, or has ended.
LEMMA HandsEmptyOne ==
    ASSUME consumer' = consumer, NEW j,
           \A n \in Messages : Outstanding(n)' = Outstanding(n) \ {j}
    PROVE  \A i \in InHand : i \in InHand' \/ i = j
<1>1. \A i \in Items : Outstanding(i.msg)' = Outstanding(i.msg) \ {j}
  BY ItemsAreRecords
<1> QED
  BY <1>1 DEF InHand

\* The pipeline commits a message with the last of its items, which is the last
\* of all that is in hand up to there.
LEMMA FinishingIsInOrder ==
    ASSUME TypeOK, Shape, AckersAwaitWhatIsLeft, NothingIsDropped,
           ThePipelineNeverOvertakes, Finish
    PROVE  ThePipelineNeverOvertakes'
<1> DEFINE p == pipeline.item
           n == p.msg
<1>1. p # NoItem
  BY DEF Finish, PipelineAt, Shape, HandsAreFullOrEmpty
<1>2. /\ p \in Items /\ n \in Messages /\ p \in Outstanding(n)
      /\ n \in Nat /\ n <= iterator.msg
      /\ \A i \in Items : i \in Outstanding(i.msg) => i = p \/ Before(p, i)
  BY <1>1, InWorkIsLeft, ItemsAreRecords
<1>3. ended' = ended \cup {p} /\ left' = left
  BY DEF Finish
<1>4. finished' \in {n, finished} /\ (pending[n] # 1 => finished' = finished)
  BY DEF Finish, Further
<1>5. /\ position \in Nat /\ iterator.msg \in Nat /\ iterator.msg <= position
      /\ consumer.msg = 0 \/ iterator.msg < consumer.msg
  BY TopicIsFinite DEF TypeOK, Shape, HandedOnInOrder, HandsAreFullOrEmpty
<1>6. ASSUME NEW i \in Items, i.msg <= finished', ~(i.msg <= finished)
      PROVE  i \in ended' \cup left'
  <2>1. finished' = n /\ pending[n] = 1
    BY <1>4, <1>6
  <2>2. Outstanding(n) \ {p} = {}
    <3>1. Cardinality(Outstanding(n)) = 1 /\ IsFiniteSet(Outstanding(n))
      BY <1>2, <2>1, OutstandingIsFinite DEF AckersAwaitWhatIsLeft
    <3>2. /\ IsFiniteSet(Outstanding(n) \ {p})
          /\ Cardinality(Outstanding(n) \ {p}) = Cardinality(Outstanding(n)) - 1
      BY <1>2, <3>1, FS_RemoveElement, Zenon
    <3>3. Cardinality(Outstanding(n) \ {p}) = 0
      BY <3>1, <3>2
    <3> QED
      BY <3>2, <3>3, FS_EmptySet
  <2>3. /\ i.msg \in Nat \ {0} /\ i.msg <= n
        /\ i.msg <= position /\ i.msg # consumer.msg
    BY <1>2, <1>5, <1>6, <2>1, ItemsAreRecords
  <2>4. i \in ended \cup left \cup Outstanding(i.msg)
    BY <2>3 DEF NothingIsDropped, InHand
  <2>5. CASE i \in Outstanding(i.msg) /\ i # p
    <3>1. i.msg = n
      BY <1>2, <2>3, <2>5 DEF Before
    <3> QED
      BY <2>2, <2>5, <3>1
  <2> QED
    BY <1>3, <2>4, <2>5
<1> QED
  BY <1>3, <1>6 DEF ThePipelineNeverOvertakes

\* A process that is gone has let go of what it had in hand.
NothingInHandWhenDown == ~Running => InHand \subseteq left

Coverage ==
    /\ NothingIsDropped /\ NothingIsCommittedUnread /\ ThePipelineNeverOvertakes
    /\ NothingInHandWhenDown

LEMMA CoverageStarts == Init => Coverage
<1> SUFFICES ASSUME Init PROVE Coverage
  OBVIOUS
<1>1. position = 0 /\ offset = 0 /\ finished = 0 /\ Running
  BY DEF Init, Running
<1>2. \A i \in Items : ~(i.msg <= 0)
  BY ItemsAreRecords
<1> QED
  BY <1>1, <1>2
  DEF Coverage, NothingIsDropped, NothingIsCommittedUnread, ThePipelineNeverOvertakes,
      NothingInHandWhenDown

Accounts == AckersAwaitWhatIsLeft /\ Coverage

\* What an action has to show while the process runs: the commits it makes are of
\* what was read, and what it takes out of a hand has ended or is let go of.
LEMMA CoverageFollows ==
    ASSUME Coverage, Running', offset' <= position',
           ended \subseteq ended', left \subseteq left', finished' = finished,
           \A i \in Items : i.msg <= position' => i.msg <= position \/ i \in left' \cup InHand',
           \A i \in InHand : i \in ended' \cup left' \cup InHand'
    PROVE  Coverage'
<1>1. NothingIsDropped'
  BY NothingLost DEF Coverage
<1>2. ThePipelineNeverOvertakes'
  BY DEF Coverage, ThePipelineNeverOvertakes
<1> QED
  BY <1>1, <1>2 DEF Coverage, NothingIsCommittedUnread, NothingInHandWhenDown

\* A session takes up where the group's offset is: what lies before it was read,
\* and has ended or been let go of; what lies behind it comes again.
LEMMA CoverageIsKept ==
    TypeOK /\ Shape /\ Accounts /\ [Next]_vars => Coverage'
<1> SUFFICES ASSUME TypeOK, Shape, Accounts, [Next]_vars PROVE Coverage'
  OBVIOUS
<1>0. /\ AckersAwaitWhatIsLeft /\ Coverage /\ NothingIsDropped /\ offset <= position
      /\ ThePipelineNeverOvertakes
      /\ offset \in Nat /\ position \in Nat
      /\ iterator.msg \in Nat /\ iterator.msg <= position
  BY TopicIsFinite
  DEF Accounts, Coverage, NothingIsCommittedUnread, TypeOK, Shape, HandedOnInOrder
<1>1. CASE /\ Running' /\ offset' = offset /\ position' = position
           /\ ended' = ended /\ left' = left /\ finished' = finished
           /\ consumer'.msg = consumer.msg
           /\ \A n \in Messages : Outstanding(n)' = Outstanding(n)
  BY <1>0, <1>1, HandsRest, CoverageFollows
<1>2. CASE /\ Running' /\ offset' = offset /\ position' = position
           /\ ended' = ended /\ left' = left /\ finished' = finished
           /\ consumer'.msg = consumer.msg
           /\ iterator'.msg = iterator.msg /\ iterator'.rec = iterator.rec
           /\ adapter'.item = adapter.item /\ pipeline'.item = pipeline.item
  BY <1>1, <1>2, NothingDone
<1>3. CASE UNCHANGED vars
  <2>1. \A n : Outstanding(n)' = Outstanding(n)
    BY <1>3, NothingDone DEF vars
  <2>2. InHand' = InHand
    BY <1>3, <2>1, HandsRest DEF vars
  <2> QED
    BY <1>0, <1>3, <2>2
    DEF vars, Coverage, NothingIsDropped, NothingIsCommittedUnread,
        ThePipelineNeverOvertakes, NothingInHandWhenDown, Running
<1>4. CASE ReadMessage
  <2>1. /\ Running' /\ position' = position + 1 /\ position + 1 \in Messages
        /\ offset' \in {position + 1, offset} /\ consumer.msg = 0
        /\ iterator' = iterator /\ adapter' = adapter /\ pipeline' = pipeline
        /\ ended' = ended /\ left \subseteq left' /\ finished' = finished
        /\ consumer'.msg = position + 1 \/ ItemsOf(position + 1) \subseteq left'
    BY <1>0, <1>4, TopicIsFinite
    DEF ReadMessage, FailedCommit, Running, Messages, Shape, HandsAreFullOrEmpty
  <2>2. \A n : Outstanding(n)' = Outstanding(n)
    BY <2>1, NothingDone
  <2>3. \A i \in Items : i.msg = position + 1 => i \in left' \cup InHand'
    BY <2>1 DEF InHand, ItemsOf
  <2>4. \A i \in Items : i.msg <= position' => i.msg <= position \/ i \in left' \cup InHand'
    BY <1>0, <2>1, <2>3, ItemsAreRecords
  <2>5. \A i \in InHand : i \in InHand'
    BY <2>1, <2>2, ItemsAreRecords DEF InHand
  <2>6. offset' <= position'
    BY <1>0, <2>1
  <2> QED
    BY <1>0, <2>1, <2>4, <2>5, <2>6, CoverageFollows
<1>5. CASE ConsumerEnds
  <2>1. /\ Running' /\ position' = position /\ offset' = offset /\ finished' = finished
        /\ ended' = ended /\ left' = left \cup ItemsOf(consumer.msg)
        /\ iterator' = iterator /\ adapter' = adapter /\ pipeline' = pipeline
    BY <1>5 DEF ConsumerEnds, Cancelled, Running
  <2>2. \A n : Outstanding(n)' = Outstanding(n)
    BY <2>1, NothingDone
  <2>3. \A i \in InHand : i \in left' \cup InHand'
    BY <2>1, <2>2 DEF InHand, ItemsOf
  <2> QED
    BY <1>0, <2>1, <2>3, CoverageFollows
<1>6. CASE Receive
  <2> DEFINE n == consumer.msg
  <2>1. /\ n \in Messages /\ n = position /\ n \in 0 .. Len(Topic)
        /\ Running' /\ position' = position /\ ended' = ended /\ finished' = finished
        /\ left \subseteq left'
    BY <1>6, OfferIsFresh, TopicIsFinite DEF Receive, Messages, Running
  <2>2. offset' \in {n, offset}
    BY <1>6, <2>1, CommitsMove DEF Receive
  <2>3. \A i \in Items : i.msg = n => i \in left' \cup Outstanding(i.msg)'
    <3>1. CASE iterator'.msg # iterator.msg
      <4>1. \A m \in Messages : m = n => Outstanding(m)' = ItemsOf(m)
        BY <1>6, <3>1, ReceivingAddsAll
      <4> QED
        BY <4>1, ItemsAreRecords DEF ItemsOf
    <3>2. CASE iterator'.msg = iterator.msg
      <4>1. n # iterator.msg
        BY <1>6, OfferIsFresh DEF Receive, TypeOK
      <4>2. \/ left' = left \cup ItemsOf(n)
            \/ ~Topic[n].parses \/ Records(n) = <<>>
        BY <1>6, <3>2, <4>1 DEF Receive
      <4>3. CASE ~Topic[n].parses \/ Records(n) = <<>>
        <5>1. Len(Records(n)) = 0
          BY <2>1, <4>3, MessagesHaveRecords
        <5> QED
          BY <5>1, ItemsAreRecords
      <4> QED
        BY <4>2, <4>3 DEF ItemsOf
    <3> QED
      BY <3>1, <3>2
  <2>4. \A i \in Items : i.msg # n => Outstanding(i.msg)' = Outstanding(i.msg)
    BY <1>6, ReceivingAddsAll, ItemsAreRecords
  <2>5. \A i \in InHand : i \in left' \cup InHand'
    BY <2>3, <2>4 DEF InHand
  <2>6. offset' <= position'
    BY <1>0, <2>1, <2>2
  <2> QED
    BY <1>0, <2>1, <2>5, <2>6, CoverageFollows
<1>7. CASE SkipRecord
  <2> DEFINE n == iterator.msg
  <2>1. /\ n \in Messages /\ Ack(n) /\ ended' = ended \cup {AtHand}
        /\ Running' /\ left' = left /\ finished' = finished
        /\ consumer' = consumer /\ position' = position
    BY <1>7, AtHandIsLeft DEF SkipRecord, SkipAck, Running
  <2>2. offset' <= position'
    BY <1>0, <2>1, AcksCount
  <2>3. \A m \in Messages : Outstanding(m)' = Outstanding(m) \ {AtHand}
    BY <1>7, SkippingTakesOne
  <2>4. \A i \in InHand : i \in InHand' \/ i = AtHand
    BY <2>1, <2>3, HandsEmptyOne, Zenon
  <2> QED
    BY <1>0, <2>1, <2>2, <2>4, CoverageFollows
<1>8. CASE Load \/ IteratorEnds
  <2>1. iterator'.msg = iterator.msg /\ iterator'.rec = iterator.rec
    BY <1>8 DEF Load, IteratorEnds, TypeOK
  <2> QED
    BY <1>2, <1>8, <2>1 DEF Load, IteratorEnds, Running
<1>9. CASE HandOn \/ TakeItem
  BY <1>1, <1>9, HandingOnKeeps DEF HandOn, TakeItem, CarryAck, PipelineAt, Running
<1>10. CASE AdapterEnds \/ CheckContext \/ PipelineReturns \/ StepLocation
              \/ StepLocationDetails \/ Store
  <2>1. adapter'.item = adapter.item /\ pipeline'.item = pipeline.item
    BY <1>10
    DEF AdapterEnds, CheckContext, PipelineReturns, StepLocation, StepLocationDetails, Store,
        TypeOK
  <2> QED
    BY <1>2, <1>10, <2>1
    DEF AdapterEnds, CheckContext, PipelineReturns, StepLocation, StepLocationDetails, Store,
        PipelineAt, Running
<1>11. CASE Finish
  <2> DEFINE n == pipeline.item.msg
  <2>0. pipeline.item # NoItem
    BY <1>11 DEF Finish, PipelineAt, Shape, HandsAreFullOrEmpty
  <2>1. /\ n \in Messages /\ n \in Nat /\ n <= iterator.msg /\ Ack(n)
        /\ ended' = ended \cup {pipeline.item} /\ left' = left /\ Running'
        /\ consumer' = consumer /\ position' = position
    BY <1>11, <2>0, InWorkIsLeft, ItemsAreRecords DEF Finish, PipelineAt, Running
  <2>2. offset' <= position'
    BY <1>0, <2>1, AcksCount
  <2>3. \A m \in Messages : Outstanding(m)' = Outstanding(m) \ {pipeline.item}
    BY <1>11, FinishingTakesOne
  <2>4. \A i \in InHand : i \in InHand' \/ i = pipeline.item
    BY <2>1, <2>3, HandsEmptyOne, Zenon
  <2>5. NothingIsDropped'
    BY <1>0, <2>1, <2>4, NothingLost
  <2>6. ThePipelineNeverOvertakes'
    BY <1>0, <1>11, FinishingIsInOrder
  <2> QED
    BY <2>1, <2>2, <2>5, <2>6
    DEF Coverage, NothingIsCommittedUnread, NothingInHandWhenDown
<1>12. CASE Cancel
  BY <1>2, <1>12 DEF Cancel, Running, goroutines, history
<1>13. CASE Exit \/ Crash
  <2>1. /\ left' = left \cup InHand /\ ended' = ended /\ finished' = finished
        /\ offset' = offset /\ position' = position
        /\ consumer' = consumer /\ iterator' = iterator /\ adapter' = adapter
        /\ pipeline' = pipeline
    BY <1>13 DEF Exit, Crash, Stop, goroutines
  <2>2. \A n : Outstanding(n)' = Outstanding(n)
    BY <2>1, NothingDone
  <2>3. InHand' = InHand
    BY <2>1, <2>2, HandsRest
  <2> QED
    BY <1>0, <2>1, <2>3
    DEF Coverage, NothingIsDropped, NothingIsCommittedUnread, ThePipelineNeverOvertakes,
        NothingInHandWhenDown
<1>14. CASE Start
  <2>1. /\ offset' = offset /\ ended' = ended /\ left' = left /\ finished' = finished
        /\ position' = offset /\ Running' /\ ~Running
    BY <1>14 DEF Start, history, Running
  <2>2. InHand \subseteq left
    BY <1>0, <2>1 DEF Coverage, NothingInHandWhenDown
  <2>3. \A i \in Items : i.msg <= offset => i.msg <= position
    BY <1>0, ItemsAreRecords
  <2>4. \A i \in InHand : i \in left'
    BY <2>1, <2>2
  <2> QED
    BY <1>0, <2>1, <2>3, <2>4, CoverageFollows
<1> QED
  BY <1>3, <1>4, <1>5, <1>6, <1>7, <1>8, <1>9, <1>10, <1>11, <1>12, <1>13, <1>14
  DEF Next, ConsumerStep, IteratorStep, AdapterStep, PipelineStep

-----------------------------------------------------------------------------
(***************************************************************************)
(* The theorems.                                                           *)
(***************************************************************************)

\* Whatever is read, skipped, worked on or interrupted, and however often the
\* process dies: nobody overtakes; an acker waits for exactly what is left of its
\* message (iterator.go, acker), so that what the pipeline commits lies behind
\* nothing that is still on its way; and whatever the group is past has ended, is
\* in hand, or was let go of when the commit of its read failed or the process
\* ended with it in hand.
THEOREM EnrichIsSound == Spec => []EnrichInv
<1> DEFINE IInv == TypeOK /\ Shape /\ Accounts
<1>1. Init => IInv
  BY TypesStart, ShapeStarts, AccountsStart, CoverageStarts DEF Accounts
<1>2. IInv /\ [Next]_vars => IInv'
  BY TypesAreKept, ShapeIsKept, AccountsAreKept, CoverageIsKept DEF Accounts
<1>3. IInv => EnrichInv
  BY DEF Shape, Accounts, Coverage, EnrichInv
<1> QED
  BY <1>1, <1>2, <1>3, PTL DEF Spec
=============================================================================
