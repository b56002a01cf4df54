---------------------------- MODULE FetcherProofs ----------------------------
(***************************************************************************)
(* For any number of readers, origins and hosts, and whatever robots files *)
(* the origins publish, one request per interval is begun at each host, no *)
(* reader asks an origin for its robots file twice, and the file is obeyed *)
(* unless it is refused or was not got.  Redirects are followed in         *)
(* between, in no turn and by no rules.                                    *)
(***************************************************************************)
EXTENDS Fetcher, FiniteSetTheorems, WellFoundedInduction, TLAPS

(***************************************************************************)
(* Constants, readers and rules.                                           *)
(***************************************************************************)

LEMMA Constants ==
    /\ Interval \in Nat \ {0} /\ IsFiniteSet(Readers) /\ Cardinality(Readers) \in Nat
    /\ \A o \in Origins : HostOf[o] \in Hosts
    /\ <<>> \in Paths /\ MaxRedirects \in Nat
  BY FetcherAssumption, FS_CardinalityType

LEMMA RulesOfNothing ==
    /\ Unknown \in Rules /\ ~Unknown.known
    /\ Permissive \in Rules /\ Permissive.known
  BY DEF Unknown, Permissive, Rules

LEMMA IdleIsReader ==
    Idle \in ReaderStates /\ Idle.pc = "idle" /\ Idle.left = 0 /\ ~Idle.rules.known
  BY RulesOfNothing DEF Idle, ReaderStates

LEMMA ReaderParts ==
    ASSUME NEW job \in ReaderStates
    PROVE  /\ job.pc \in {"idle", "turning", "waiting", "asking", "storing"}
           /\ job.pc # "idle" => job.origin \in Origins
           /\ job.path \in Paths /\ job.rules \in Rules
           /\ job.left \in Nat /\ job.cancelled \in BOOLEAN
           /\ job.rules.known \in BOOLEAN
<1>1. CASE job = Idle
  BY <1>1, RulesOfNothing, FetcherAssumption DEF Idle, Rules
<1>2. CASE job # Idle
  BY <1>2 DEF ReaderStates, Fetching, Rules
<1> QED
  BY <1>1, <1>2

\* The fields of a reader, with a page to fetch or not.
Fields ==
    [pc : {"idle", "turning", "waiting", "asking", "storing"}, origin : {Nowhere} \union Origins,
     path : Paths, rules : Rules, left : Nat, cancelled : BOOLEAN, hops : 0 .. MaxRedirects,
     at : {Nowhere} \union [origin : Origins, path : Paths]]

LEMMA ReaderFields ==
    /\ Idle \in Fields
    /\ \A job \in ReaderStates : job \in Fields /\ (job.pc # "idle" => job.origin \in Origins)
    /\ \A job \in Fields : job.pc # "idle" /\ job.origin \in Origins => job \in ReaderStates
<1>1. Idle \in Fields
  BY Constants, RulesOfNothing DEF Idle, Fields
<1>2. ASSUME NEW job \in ReaderStates
      PROVE  job \in Fields /\ (job.pc # "idle" => job.origin \in Origins)
  <2>1. CASE job = Idle
    BY <1>1, <2>1, IdleIsReader
  <2>2. CASE job \in Fetching
    BY <2>2 DEF Fetching, Fields
  <2> QED
    BY <2>1, <2>2 DEF ReaderStates
<1>3. ASSUME NEW job \in Fields, job.pc # "idle", job.origin \in Origins
      PROVE  job \in Fetching
  BY <1>3 DEF Fetching, Fields
<1> QED
  BY <1>1, <1>2, <1>3 DEF ReaderStates

\* What a robots file comes to is rules about paths.
LEMMA ParsedIsRules ==
    ASSUME NEW lines \in Seq(Lines)
    PROVE  Parse(lines) \in Rules /\ Parse(lines).known
<1>1. ASSUME NEW i \in DOMAIN lines, lines[i].field \in {"allow", "disallow"}
      PROVE  lines[i].value \in Paths
  <2>1. lines[i] \in Lines
    OBVIOUS
  <2> QED
    BY <1>1, <2>1 DEF Lines
<1> QED
  BY <1>1 DEF Parse, Rules

LEMMA PublishedIsParsed ==
    ASSUME TypeOK, NEW o \in Origins
    PROVE  /\ published[o].lines \in Seq(Lines)
           /\ RulesOf[published[o]] = Parse(published[o].lines)
<1>1. published[o] \in Files
  BY DEF TypeOK
<1> QED
  BY <1>1, FetcherAssumption DEF RulesOf

\* A reader's place after a step, and everyone else's.
LEMMA PutPlaces ==
    ASSUME TypeOK, NEW r \in Readers, NEW job \in ReaderStates, Put(r, job)
    PROVE  /\ reader' \in [Readers -> ReaderStates] /\ reader'[r] = job
           /\ \A s \in Readers \ {r} : reader'[s] = reader[s]
           /\ \A s \in Readers : reader[s] \in ReaderStates
  BY DEF TypeOK, Put

(***************************************************************************)
(* The inductive invariant, part by part.                                  *)
(***************************************************************************)

\* The parts of FetcherInv that the others follow from.
IInv == TypeOK /\ RequestsAreReaders /\ StoredIsKnown /\ RulesAreTheOrigins /\ TurnsAreSpaced

\* A step of one reader that takes no turn and is given none.
LEMMA TurnsKept ==
    ASSUME TypeOK, TurnsAreSpaced, NEW r \in Readers, NEW job \in ReaderStates, Put(r, job),
           UNCHANGED <<lead, since>>,
           job.pc = "waiting" /\ job.left > 0 =>
              /\ reader[r].pc = "waiting" /\ reader[r].left = job.left
              /\ reader[r].origin = job.origin
    PROVE  TurnsAreSpaced'
<1>1. ASSUME NEW s \in Readers, NEW h \in Hosts, Ahead(s, h)'
      PROVE  Ahead(s, h) /\ reader'[s].left = reader[s].left
  <2>1. reader'[s].pc = "waiting" /\ reader'[s].left > 0 /\ HostOf[reader'[s].origin] = h
    BY <1>1 DEF Ahead, HostFor
  <2> QED
    BY <2>1, PutPlaces DEF Ahead, HostFor
<1>2. UNCHANGED <<lead, since>>
  OBVIOUS
<1> QED
  BY <1>1, <1>2 DEF TurnsAreSpaced

\* A reader that stores what it knows.
LEMMA StoredKept ==
    ASSUME TypeOK, StoredIsKnown, NEW r \in Readers, NEW job \in ReaderStates, Put(r, job),
           job.pc = "storing" => job.rules.known
    PROVE  StoredIsKnown'
  BY PutPlaces DEF StoredIsKnown

\* The rules are those of the origin, were these the origins whose requests failed.
TrueBut(rules, origin, missed) ==
    \/ published[origin].html /\ rules = RulesOf[published[origin]]
    \/ rules = Permissive /\ (origin \in missed \/ ~published[origin].html)

\* A reader's rules are, and if it asks for its page they allow it.
Knows(job, missed) ==
    job.pc # "idle" /\ job.rules.known =>
       /\ TrueBut(job.rules, job.origin, missed)
       /\ job.pc # "storing" => Allows(job.rules, job.path)

LEMMA RulesBefore ==
    RulesAreTheOrigins <=>
       /\ \A o \in Origins : robots[o].known => TrueBut(robots[o], o, unread)
       /\ \A r \in Readers : Knows(reader[r], unread)
  BY DEF RulesAreTheOrigins, TrueTo, TrueBut, Knows

LEMMA RulesAfter ==
    ASSUME UNCHANGED published,
           \A o \in Origins : robots'[o].known => TrueBut(robots'[o], o, unread'),
           \A r \in Readers : Knows(reader'[r], unread')
    PROVE  RulesAreTheOrigins'
  BY DEF RulesAreTheOrigins, TrueTo, TrueBut, Knows

\* A step that leaves the cache, and a reader that knows no other rules.
LEMMA RulesKept ==
    ASSUME TypeOK, RulesAreTheOrigins, NEW r \in Readers, NEW job \in ReaderStates, Put(r, job),
           UNCHANGED <<robots, published>>, unread \subseteq unread',
           Knows(job, unread')
    PROVE  RulesAreTheOrigins'
<1>1. \A o \in Origins : robots'[o].known => TrueBut(robots'[o], o, unread')
  BY RulesBefore DEF TrueBut
<1>2. ASSUME NEW s \in Readers
      PROVE  Knows(reader'[s], unread')
  <2>1. CASE s = r
    BY <2>1, PutPlaces
  <2>2. CASE s # r
    BY <2>2, PutPlaces, RulesBefore DEF Knows, TrueBut
  <2> QED
    BY <2>1, <2>2
<1> QED
  BY <1>1, <1>2, RulesAfter

(***************************************************************************)
(* Robots requests.                                                        *)
(***************************************************************************)

\* A reader in this place has asked for the origin's robots file, or is to.
Asked(job, o) ==
    job.origin = o /\ (job.pc = "storing" \/ (job.pc = "asking" /\ ~job.rules.known))

ToAsk(job, o) == job.origin = o /\ job.pc \in {"turning", "waiting"} /\ ~job.rules.known

LEMMA AskersByPlace ==
    ASSUME NEW o
    PROVE  /\ HasAsked(o) = {r \in Readers : Asked(reader[r], o)}
           /\ IsToAsk(o) = {r \in Readers : ToAsk(reader[r], o)}
  BY DEF HasAsked, IsToAsk, Asked, ToAsk, ForRobots

LEMMA AskersByPlaceAfter ==
    ASSUME NEW o
    PROVE  /\ HasAsked(o)' = {r \in Readers : Asked(reader'[r], o)}
           /\ IsToAsk(o)' = {r \in Readers : ToAsk(reader'[r], o)}
  BY DEF HasAsked, IsToAsk, Asked, ToAsk, ForRobots

\* A set of readers can be counted.
LEMMA ReadersAreCounted ==
    ASSUME NEW S \in SUBSET Readers, NEW T \in SUBSET S
    PROVE  /\ IsFiniteSet(S) /\ Cardinality(S) \in Nat
           /\ Cardinality(T) \in Nat /\ Cardinality(T) <= Cardinality(S)
           /\ \A r \in S \ T : Cardinality(T) < Cardinality(S)
<1>1. IsFiniteSet(S) /\ IsFiniteSet(T) /\ Cardinality(T) <= Cardinality(S)
  BY Constants, FS_Subset
<1>2. Cardinality(S) \in Nat /\ Cardinality(T) \in Nat
  BY <1>1, FS_CardinalityType
<1>3. ASSUME NEW r \in S \ T
      PROVE  Cardinality(T) < Cardinality(S)
  <2>1. T # S
    OBVIOUS
  <2> QED
    BY <1>1, <1>2, <2>1, FS_Subset
<1> QED
  BY <1>1, <1>2, <1>3

LEMMA MayAskIsReaders ==
    ASSUME NEW o
    PROVE  MayAsk(o) \in SUBSET Readers
  BY DEF MayAsk, IsToAsk

\* A step that lets no reader ask that might not, and asks for nothing.
LEMMA RequestsKept ==
    ASSUME TypeOK, RequestsAreReaders, UNCHANGED requests,
           \A o \in Origins : MayAsk(o)' \subseteq MayAsk(o)
    PROVE  RequestsAreReaders'
<1>1. ASSUME NEW o \in Origins
      PROVE  requests'[o] + Cardinality(MayAsk(o)') <= Cardinality(Readers)
  <2>1. Cardinality(MayAsk(o)) \in Nat /\ Cardinality(MayAsk(o)') \in Nat
        /\ Cardinality(MayAsk(o)') <= Cardinality(MayAsk(o))
    BY MayAskIsReaders, ReadersAreCounted
  <2>2. requests'[o] = requests[o] /\ requests[o] \in Nat
        /\ requests[o] + Cardinality(MayAsk(o)) <= Cardinality(Readers)
    BY DEF TypeOK, RequestsAreReaders
  <2> QED
    BY <2>1, <2>2, Constants
<1> QED
  BY <1>1 DEF RequestsAreReaders

\* One reader's step, while the cache stays: it does not come to ask where the
\* rules are known, nor forgets having asked where they are not.
LEMMA AskersKept ==
    ASSUME TypeOK, NEW r \in Readers, NEW job \in ReaderStates, Put(r, job), UNCHANGED robots,
           NEW o \in Origins,
           robots[o].known /\ ToAsk(job, o) => ToAsk(reader[r], o),
           ~robots[o].known /\ Asked(reader[r], o) => Asked(job, o)
    PROVE  MayAsk(o)' \subseteq MayAsk(o)
<1>1. \A s \in Readers \ {r} : reader'[s] = reader[s]
  BY PutPlaces
<1>2. reader'[r] = job
  BY PutPlaces
<1>3. CASE robots[o].known
  <2>1. MayAsk(o)' = IsToAsk(o)' /\ MayAsk(o) = IsToAsk(o)
    BY <1>3 DEF MayAsk
  <2> QED
    BY <1>1, <1>2, <1>3, <2>1, AskersByPlace, AskersByPlaceAfter
<1>4. CASE ~robots[o].known
  <2>1. MayAsk(o)' = Readers \ HasAsked(o)' /\ MayAsk(o) = Readers \ HasAsked(o)
    BY <1>4 DEF MayAsk
  <2> QED
    BY <1>1, <1>2, <1>4, <2>1, AskersByPlace, AskersByPlaceAfter
<1> QED
  BY <1>3, <1>4

(***************************************************************************)
(* The steps.                                                              *)
(***************************************************************************)

\* A step that changes one reader and nothing that others go by.
LEMMA PutKeeps ==
    ASSUME IInv, NEW r \in Readers, NEW job \in ReaderStates, Put(r, job),
           UNCHANGED <<lead, since, robots, published, clock, asked, requests>>,
           unread \subseteq unread', unread' \subseteq Origins,
           job.pc = "waiting" /\ job.left > 0 =>
              /\ reader[r].pc = "waiting" /\ reader[r].left = job.left
              /\ reader[r].origin = job.origin,
           job.pc = "storing" => job.rules.known,
           Knows(job, unread'),
           \A o \in Origins : robots[o].known /\ ToAsk(job, o) => ToAsk(reader[r], o),
           \A o \in Origins : ~robots[o].known /\ Asked(reader[r], o) => Asked(job, o)
    PROVE  IInv'
<1> USE DEF IInv
<1>1. TypeOK'
  BY PutPlaces DEF TypeOK
<1>2. TurnsAreSpaced'
  BY TurnsKept
<1>3. StoredIsKnown'
  BY StoredKept
<1>4. RulesAreTheOrigins'
  BY RulesKept
<1>5. RequestsAreReaders'
  BY AskersKept, RequestsKept
<1> QED
  BY <1>1, <1>2, <1>3, <1>4, <1>5

LEMMA FetchKeeps ==
    ASSUME IInv, NEW r \in Readers, NEW origin \in Origins, NEW path \in Paths,
           Fetch(r, origin, path)
    PROVE  IInv'
<1> DEFINE job == [Idle EXCEPT !.origin = origin, !.path = path]
           asker == [job EXCEPT !.pc = "turning"]
           knower == [job EXCEPT !.pc = "turning", !.rules = robots[origin]]
<1>1. /\ UNCHANGED <<lead, since, robots, published, clock, asked, unread, requests>>
      /\ unread \subseteq Origins /\ robots[origin] \in Rules
  BY DEF Fetch, IInv, TypeOK
<1>2. \A o : ~Asked(reader[r], o)
  BY DEF Fetch, Asked
<1>3. CASE robots[origin].known /\ Allows(robots[origin], path)
  <2>1. /\ knower \in ReaderStates /\ knower.pc = "turning" /\ knower.origin = origin
        /\ knower.path = path /\ knower.rules = robots[origin]
    BY <1>1, ReaderFields DEF Fields
  <2>2. Put(r, knower)
    <3>1. job.path = path
      BY ReaderFields DEF Fields
    <3> QED
      BY <1>3, <3>1 DEF Fetch, Judge
  <2>3. TrueBut(robots[origin], origin, unread)
    BY <1>3, RulesBefore DEF IInv
  <2> HIDE DEF knower
  <2>4. Knows(knower, unread)
    BY <1>3, <2>1, <2>3 DEF Knows
  <2> QED
    BY <1>1, <1>2, <1>3, <2>1, <2>2, <2>4, PutKeeps DEF ToAsk
<1>4. CASE robots[origin].known /\ ~Allows(robots[origin], path)
  <2>1. Put(r, Idle)
    <3>1. job.path = path
      BY ReaderFields DEF Fields
    <3> QED
      BY <1>4, <3>1 DEF Fetch, Judge
  <2> QED
    BY <1>1, <1>2, <2>1, IdleIsReader, PutKeeps DEF ToAsk, Knows
<1>5. CASE ~robots[origin].known
  <2>1. /\ asker \in ReaderStates /\ asker.pc = "turning" /\ asker.origin = origin
        /\ ~asker.rules.known
    BY ReaderFields, IdleIsReader DEF Fields
  <2>2. Put(r, asker)
    BY <1>5 DEF Fetch
  <2> HIDE DEF asker
  <2> QED
    BY <1>1, <1>2, <1>5, <2>1, <2>2, PutKeeps DEF ToAsk, Knows
<1> QED
  BY <1>3, <1>4, <1>5

\* An answer or a failure of a robots request, in the turn or after it.
LEMMA LearnKeeps ==
    ASSUME IInv, NEW r \in Readers, NEW rules \in Rules, rules.known, Learn(r, rules),
           ForRobots(r), reader[r].pc \in {"waiting", "asking"},
           UNCHANGED <<lead, since, robots, published, clock, asked, requests>>,
           unread' \in {unread, unread \union {reader[r].origin}},
           TrueBut(rules, reader[r].origin, unread')
    PROVE  IInv'
<1> DEFINE job == [reader[r] EXCEPT !.pc = "storing", !.rules = rules,
                                    !.hops = 0, !.at = Nowhere]
<1>1. /\ reader[r] \in Fields /\ reader[r].origin \in Origins /\ unread \subseteq Origins
      /\ 0 \in 0 .. MaxRedirects
  BY ReaderFields, Constants DEF IInv, TypeOK
<1>2. /\ job \in ReaderStates /\ job.pc = "storing" /\ job.origin = reader[r].origin
      /\ job.rules = rules
  <2>1. /\ job \in Fields /\ job.pc = "storing" /\ job.origin = reader[r].origin
        /\ job.rules = rules
    BY <1>1 DEF Fields
  <2> HIDE DEF job
  <2> QED
    BY <1>1, <2>1, ReaderFields
<1>3. Put(r, job)
  BY DEF Learn
<1> HIDE DEF job
<1>4. unread \subseteq unread' /\ unread' \subseteq Origins
  BY <1>1
<1>5. \A o : Asked(reader[r], o) => Asked(job, o)
  BY <1>2 DEF Asked
<1> QED
  BY <1>2, <1>3, <1>4, <1>5, PutKeeps DEF Knows, ToAsk

\* A redirect or the end of its context leaves a reader's fetch as it was.
LEMMA MovedOn ==
    ASSUME TypeOK, NEW r \in Readers, Redirected(r) \/ Cancel(r)
    PROVE  \E job \in ReaderStates :
              /\ Put(r, job) /\ job.pc = reader[r].pc /\ job.origin = reader[r].origin
              /\ job.rules = reader[r].rules /\ job.left = reader[r].left
              /\ job.path = reader[r].path
<1>1. reader[r] \in ReaderStates /\ reader[r].pc # "idle"
  BY DEF Redirected, Cancel, TypeOK
<1>2. CASE Redirected(r)
  <2>1. PICK o \in Origins, p \in Paths :
           Put(r, [reader[r] EXCEPT !.hops = @ + 1, !.at = [origin |-> o, path |-> p]])
    BY <1>2 DEF Redirected
  <2>2. reader[r].hops + 1 \in 0 .. MaxRedirects
    <3>1. reader[r].hops \in 0 .. MaxRedirects
      BY <1>1, ReaderFields DEF Fields
    <3>2. reader[r].hops < MaxRedirects
      BY <1>2 DEF Redirected
    <3> QED
      BY <3>1, <3>2, Constants
  <2>3. [reader[r] EXCEPT !.hops = @ + 1, !.at = [origin |-> o, path |-> p]] \in ReaderStates
    BY <1>1, <2>2, ReaderFields DEF Fields
  <2> QED
    BY <1>1, <2>1, <2>3, ReaderFields DEF Fields
<1>3. CASE Cancel(r)
  <2>1. [reader[r] EXCEPT !.cancelled = TRUE] \in ReaderStates
    BY <1>1, ReaderFields DEF Fields
  <2> QED
    BY <1>1, <1>3, <2>1, ReaderFields DEF Cancel, Fields
<1> QED
  BY <1>2, <1>3

LEMMA AnswerKeeps ==
    ASSUME IInv, NEW r \in Readers,
           Redirected(r) \/ RobotsArrive(r) \/ PageArrives(r) \/ Fails(r) \/ Cancel(r)
    PROVE  IInv'
<1>1. /\ UNCHANGED <<lead, since, robots, published, clock, asked, requests>>
      /\ reader[r] \in ReaderStates /\ unread \subseteq Origins
  BY DEF Redirected, RobotsArrive, PageArrives, Fails, Cancel, IInv, TypeOK
<1>2. CASE RobotsArrive(r)
  <2> DEFINE origin == reader[r].origin
             rules == IF published[origin].html THEN Parse(published[origin].lines) ELSE Permissive
  <2>1. origin \in Origins
    BY <1>1, <1>2, ReaderParts DEF RobotsArrive
  <2>2. /\ Parse(published[origin].lines) \in Rules /\ Parse(published[origin].lines).known
        /\ RulesOf[published[origin]] = Parse(published[origin].lines)
    BY <2>1, PublishedIsParsed, ParsedIsRules DEF IInv
  <2>3. rules \in Rules /\ rules.known
    BY <2>2, RulesOfNothing
  <2>4. Learn(r, rules) /\ ForRobots(r) /\ reader[r].pc = "asking"
    BY <1>2 DEF RobotsArrive
  <2>5. unread' = unread
    BY <1>2 DEF RobotsArrive
  <2>6. TrueBut(rules, origin, unread')
    BY <2>2, <2>5 DEF TrueBut
  <2> HIDE DEF rules
  <2> QED
    BY <1>1, <2>3, <2>4, <2>5, <2>6, LearnKeeps
<1>3. CASE PageArrives(r)
  <2>1. Put(r, Idle) /\ unread' = unread /\ \A o : ~Asked(reader[r], o)
    BY <1>3 DEF PageArrives, Asked, ForRobots
  <2> QED
    BY <1>1, <2>1, IdleIsReader, PutKeeps DEF Knows, ToAsk
<1>4. CASE Fails(r) /\ ForRobots(r)
  <2>1. /\ Learn(r, Permissive) /\ unread' = unread \union {reader[r].origin}
        /\ reader[r].pc \in {"waiting", "asking"}
    BY <1>4 DEF Fails
  <2> QED
    BY <1>1, <1>4, <2>1, RulesOfNothing, LearnKeeps DEF TrueBut
<1>5. CASE Fails(r) /\ ~ForRobots(r)
  <2>1. Put(r, Idle) /\ unread' = unread /\ \A o : ~Asked(reader[r], o)
    BY <1>5 DEF Fails, Asked, ForRobots
  <2> QED
    BY <1>1, <2>1, IdleIsReader, PutKeeps DEF Knows, ToAsk
<1>6. CASE Redirected(r) \/ Cancel(r)
  <2>1. PICK job \in ReaderStates :
           /\ Put(r, job) /\ job.pc = reader[r].pc /\ job.origin = reader[r].origin
           /\ job.rules = reader[r].rules /\ job.left = reader[r].left /\ job.path = reader[r].path
    BY <1>6, <1>1, MovedOn DEF IInv
  <2>2. unread' = unread
    BY <1>6 DEF Redirected, Cancel
  <2>3. Knows(job, unread) /\ (job.pc = "storing" => job.rules.known)
    BY <2>1, RulesBefore DEF IInv, Knows, StoredIsKnown
  <2>4. \A o : (ToAsk(job, o) <=> ToAsk(reader[r], o)) /\ (Asked(job, o) <=> Asked(reader[r], o))
    BY <2>1 DEF ToAsk, Asked
  <2> QED
    BY <1>1, <2>1, <2>2, <2>3, <2>4, PutKeeps
<1> QED
  BY <1>2, <1>3, <1>4, <1>5, <1>6

\* The request goes out: one that was to be made has been, if it is for robots.
LEMMA AskKeeps ==
    ASSUME IInv, NEW r \in Readers, Ask(r)
    PROVE  IInv'
<1> USE DEF IInv
<1> DEFINE job == [reader[r] EXCEPT !.pc = "asking"]
<1>1. reader[r] \in ReaderStates /\ reader[r].pc = "waiting"
  BY DEF Ask, TypeOK
<1>2. /\ job \in ReaderStates /\ job.pc = "asking" /\ job.origin = reader[r].origin
      /\ job.rules = reader[r].rules /\ job.path = reader[r].path
  BY <1>1, ReaderFields DEF Fields
<1>3. Put(r, job) /\ UNCHANGED <<lead, since, robots, published, clock, unread>>
  BY DEF Ask
<1> HIDE DEF job
<1>4. asked' \in [Hosts -> {0, 1}] /\ requests' \in [Origins -> Nat]
  <2>1. \A h \in Hosts : 1 - asked[h] \in {0, 1}
    BY DEF TypeOK
  <2>2. asked' \in [Hosts -> {0, 1}]
    BY <2>1 DEF Ask, TypeOK
  <2>3. requests' \in [Origins -> Nat]
    <3>1. \A o \in Origins : requests[o] + 1 \in Nat
      BY DEF TypeOK
    <3> QED
      BY <3>1 DEF Ask, TypeOK
  <2> QED
    BY <2>2, <2>3
<1>5. TypeOK'
  BY <1>2, <1>3, <1>4, PutPlaces DEF TypeOK
<1>6. TurnsAreSpaced' /\ StoredIsKnown'
  BY <1>2, <1>3, TurnsKept, StoredKept
<1>7. RulesAreTheOrigins'
  <2>1. Knows(job, unread)
    BY <1>1, <1>2, RulesBefore DEF Knows
  <2> QED
    BY <1>2, <1>3, <2>1, RulesKept
<1>8. \A o \in Origins : MayAsk(o)' \subseteq MayAsk(o)
  <2>1. \A o : ~ToAsk(job, o) /\ ~Asked(reader[r], o)
    BY <1>1, <1>2 DEF ToAsk, Asked
  <2> QED
    BY <1>2, <1>3, <2>1, AskersKept
<1>9. RequestsAreReaders'
  <2>1. CASE ForRobots(r)
    <3>1. PICK origin \in Origins : origin = reader[r].origin /\ ~reader[r].rules.known
      BY <1>1, <2>1, ReaderParts DEF ForRobots
    <3>2. requests' = [requests EXCEPT ![origin] = @ + 1]
      BY <2>1, <3>1 DEF Ask
    <3>3. r \in MayAsk(origin)
      BY <1>1, <3>1, AskersByPlace DEF MayAsk, ToAsk, Asked
    <3>4. r \notin MayAsk(origin)'
      <4>1. r \notin IsToAsk(origin)' /\ r \in HasAsked(origin)'
        BY <1>2, <1>3, <3>1, PutPlaces, AskersByPlaceAfter DEF ToAsk, Asked
      <4> QED
        BY <4>1 DEF MayAsk
    <3>5. ASSUME NEW o \in Origins
          PROVE  requests'[o] + Cardinality(MayAsk(o)') <= Cardinality(Readers)
      <4>1. /\ requests[o] \in Nat
            /\ requests[o] + Cardinality(MayAsk(o)) <= Cardinality(Readers)
        BY DEF TypeOK, RequestsAreReaders
      <4>2. /\ Cardinality(MayAsk(o)) \in Nat /\ Cardinality(MayAsk(o)') \in Nat
            /\ Cardinality(MayAsk(o)') <= Cardinality(MayAsk(o))
            /\ o = origin => Cardinality(MayAsk(o)') < Cardinality(MayAsk(o))
        <5>1. MayAsk(o) \in SUBSET Readers /\ MayAsk(o)' \in SUBSET MayAsk(o)
          BY <1>8, MayAskIsReaders
        <5>2. o = origin => r \in MayAsk(o) \ MayAsk(o)'
          BY <3>3, <3>4
        <5> QED
          BY <5>1, <5>2, ReadersAreCounted
      <4>3. requests'[o] = IF o = origin THEN requests[o] + 1 ELSE requests[o]
        BY <3>2 DEF TypeOK
      <4> QED
        BY <4>1, <4>2, <4>3, Constants
    <3> QED
      BY <3>5 DEF RequestsAreReaders
  <2>2. CASE ~ForRobots(r)
    <3>1. requests' = requests
      BY <2>2 DEF Ask
    <3> QED
      BY <1>8, <3>1, RequestsKept
  <2> QED
    BY <2>1, <2>2
<1> QED
  BY <1>5, <1>6, <1>7, <1>9

\* What came of the request is remembered; those yet to ask still may.
LEMMA RememberKeeps ==
    ASSUME IInv, NEW r \in Readers, Remember(r)
    PROVE  IInv'
<1> USE DEF IInv
<1> DEFINE origin == reader[r].origin
           rules == reader[r].rules
           turner == [reader[r] EXCEPT !.pc = "turning", !.rules = rules]
<1>1. /\ reader[r] \in ReaderStates /\ reader[r].pc = "storing" /\ rules.known
      /\ origin \in Origins /\ rules \in Rules
      /\ UNCHANGED <<lead, since, published, clock, asked, unread, requests>>
  BY ReaderParts DEF Remember, TypeOK, StoredIsKnown
<1>2. robots' = [robots EXCEPT ![origin] = rules] /\ robots' \in [Origins -> Rules]
  BY <1>1 DEF Remember, Remembered, TypeOK
<1>3. TrueBut(rules, origin, unread)
  BY <1>1, RulesBefore DEF Knows
<1>4. PICK job \in ReaderStates :
         /\ Put(r, job) /\ job.pc \in {"turning", "idle"} /\ Knows(job, unread)
         /\ \A o : ~ToAsk(job, o)
  <2>1. CASE Allows(rules, reader[r].path)
    <3>1. /\ turner \in ReaderStates /\ turner.pc = "turning" /\ turner.left = reader[r].left
          /\ turner.origin = origin /\ turner.rules = rules /\ turner.path = reader[r].path
      BY <1>1, ReaderFields DEF Fields
    <3>2. Put(r, turner)
      BY <2>1 DEF Remember, Judge
    <3> HIDE DEF turner
    <3> QED
      BY <1>1, <1>3, <2>1, <3>1, <3>2 DEF Knows, ToAsk
  <2>2. CASE ~Allows(rules, reader[r].path)
    <3>1. Put(r, Idle)
      BY <2>2 DEF Remember, Judge
    <3> QED
      BY <3>1, IdleIsReader DEF Knows, ToAsk
  <2> QED
    BY <2>1, <2>2
<1>5. TypeOK'
  BY <1>1, <1>2, <1>4, PutPlaces DEF TypeOK
<1>6. TurnsAreSpaced' /\ StoredIsKnown'
  BY <1>1, <1>4, TurnsKept, StoredKept
<1>7. RulesAreTheOrigins'
  <2>1. \A o \in Origins : robots'[o].known => TrueBut(robots'[o], o, unread')
    BY <1>1, <1>2, <1>3, RulesBefore DEF TypeOK
  <2>2. \A s \in Readers : Knows(reader'[s], unread')
    BY <1>1, <1>4, PutPlaces, RulesBefore
  <2> QED
    BY <1>1, <2>1, <2>2, RulesAfter
<1>8. ASSUME NEW o \in Origins
      PROVE  MayAsk(o)' \subseteq MayAsk(o)
  <2>1. \A s \in Readers : ToAsk(reader'[s], o) => s # r /\ ToAsk(reader[s], o)
    BY <1>4, PutPlaces
  <2>2. IsToAsk(o)' \subseteq IsToAsk(o)
    BY <2>1, AskersByPlace, AskersByPlaceAfter
  <2>3. IsToAsk(o) \cap HasAsked(o) = {}
    BY AskersByPlace DEF ToAsk, Asked
  <2>4. CASE o = origin
    <3>1. robots'[o].known
      BY <1>1, <1>2, <2>4 DEF TypeOK
    <3>2. MayAsk(o)' = IsToAsk(o)'
      BY <3>1 DEF MayAsk
    <3>3. IsToAsk(o) \subseteq MayAsk(o)
      BY <2>3 DEF MayAsk, IsToAsk
    <3> QED
      BY <2>2, <3>2, <3>3
  <2>5. CASE o # origin
    <3>1. robots'[o] = robots[o]
      BY <1>2, <2>5 DEF TypeOK
    <3>2. \A s \in Readers : Asked(reader[s], o) => Asked(reader'[s], o)
      BY <1>4, <2>5, PutPlaces DEF Asked
    <3>3. HasAsked(o) \subseteq HasAsked(o)'
      BY <3>2, AskersByPlace, AskersByPlaceAfter
    <3>4. MayAsk(o)' = IF robots[o].known THEN IsToAsk(o)' ELSE Readers \ HasAsked(o)'
      BY <3>1 DEF MayAsk
    <3>5. CASE robots[o].known
      BY <2>2, <3>4, <3>5 DEF MayAsk
    <3>6. CASE ~robots[o].known
      BY <3>3, <3>4, <3>6 DEF MayAsk
    <3> QED
      BY <3>5, <3>6
  <2> QED
    BY <2>4, <2>5
<1>9. RequestsAreReaders'
  BY <1>1, <1>8, RequestsKept
<1> QED
  BY <1>5, <1>6, <1>7, <1>9

\* A turn taken is behind every turn its host has given.
LEMMA ReserveKeeps ==
    ASSUME IInv, NEW r \in Readers, Reserve(r)
    PROVE  IInv'
<1> USE DEF IInv
<1> DEFINE host == HostOf[reader[r].origin]
           job == [reader[r] EXCEPT !.pc = "waiting", !.left = lead[host]]
<1>1. /\ reader[r] \in ReaderStates /\ reader[r].pc = "turning" /\ host \in Hosts
      /\ lead \in [Hosts -> Nat] /\ since \in [Hosts -> 0 .. Interval] /\ lead[host] \in Nat
  BY Constants, ReaderParts DEF Reserve, TypeOK
<1>2. /\ job \in ReaderStates /\ job.pc = "waiting" /\ job.left = lead[host]
      /\ job.origin = reader[r].origin /\ job.rules = reader[r].rules /\ job.path = reader[r].path
  BY <1>1, ReaderFields DEF Fields
<1>3. Put(r, job) /\ UNCHANGED <<robots, published, clock, asked, unread, requests>>
  BY DEF Reserve, HostFor
<1> HIDE DEF job
<1>4. /\ \A h \in Hosts : lead'[h] = IF h = host THEN lead[h] + Interval ELSE lead[h]
      /\ \A h \in Hosts : since'[h] = IF h = host /\ lead[h] = 0 THEN 0 ELSE since[h]
      /\ lead' \in [Hosts -> Nat] /\ since' \in [Hosts -> 0 .. Interval]
  <2>1. lead' = [lead EXCEPT ![host] = lead[host] + Interval] /\ lead[host] + Interval \in Nat
    BY <1>1, Constants DEF Reserve, HostFor, Later
  <2>2. since' = IF lead[host] = 0 THEN [since EXCEPT ![host] = 0] ELSE since
    BY DEF Reserve, HostFor
  <2>3. 0 \in 0 .. Interval
    BY Constants
  <2> HIDE DEF host
  <2>4. /\ lead' \in [Hosts -> Nat]
        /\ \A h \in Hosts : lead'[h] = IF h = host THEN lead[h] + Interval ELSE lead[h]
    BY <1>1, <2>1
  <2>5. /\ since' \in [Hosts -> 0 .. Interval]
        /\ \A h \in Hosts : since'[h] = IF h = host /\ lead[h] = 0 THEN 0 ELSE since[h]
    BY <1>1, <2>2, <2>3
  <2> QED
    BY <2>4, <2>5
<1>5. TypeOK'
  BY <1>2, <1>3, <1>4, PutPlaces DEF TypeOK
<1>6. StoredIsKnown'
  BY <1>2, <1>3, StoredKept
<1>7. RulesAreTheOrigins'
  <2>1. Knows(job, unread)
    BY <1>1, <1>2, RulesBefore DEF Knows
  <2> QED
    BY <1>2, <1>3, <2>1, RulesKept
<1>8. RequestsAreReaders'
  <2>1. \A o : (ToAsk(job, o) => ToAsk(reader[r], o)) /\ ~Asked(reader[r], o)
    BY <1>1, <1>2 DEF ToAsk, Asked
  <2> QED
    BY <1>2, <1>3, <2>1, AskersKept, RequestsKept
<1>9. ASSUME NEW h \in Hosts
      PROVE  /\ since'[h] + lead'[h] >= Interval
             /\ \A s \in Readers : Ahead(s, h)' => /\ since'[h] + reader'[s].left >= Interval
                                                   /\ reader'[s].left + Interval <= lead'[h]
             /\ \A s, t \in Readers :
                   s # t /\ Ahead(s, h)' /\ Ahead(t, h)' /\ reader'[s].left <= reader'[t].left
                      => reader'[s].left + Interval <= reader'[t].left
  <2>1. /\ Ahead(r, h)' => h = host /\ lead[h] > 0 /\ reader'[r].left = lead[h]
        /\ \A s \in Readers \ {r} : Ahead(s, h)' => Ahead(s, h) /\ reader'[s].left = reader[s].left
    <3>1. \A s \in Readers :
             Ahead(s, h)' <=> /\ reader'[s].pc = "waiting" /\ reader'[s].left > 0
                              /\ HostOf[reader'[s].origin] = h
      BY DEF Ahead, HostFor
    <3> QED
      BY <1>2, <1>3, <3>1, PutPlaces DEF Ahead, HostFor
  <2>2. \A s \in Readers : reader[s].left \in Nat
    BY ReaderParts DEF TypeOK
  <2>3. /\ since[h] + lead[h] >= Interval
        /\ \A s \in Readers : Ahead(s, h) => /\ since[h] + reader[s].left >= Interval
                                             /\ reader[s].left + Interval <= lead[h]
                                             /\ reader[s].left > 0
    BY DEF TurnsAreSpaced, Ahead
  <2>4. lead[h] \in Nat /\ since[h] \in 0 .. Interval
    BY <1>1
  <2>5. since'[h] + lead'[h] >= Interval
    BY <1>4, <2>3, <2>4, Constants
  <2>6. ASSUME NEW s \in Readers, Ahead(s, h)'
        PROVE  since'[h] + reader'[s].left >= Interval /\ reader'[s].left + Interval <= lead'[h]
    <3>1. CASE s = r
      BY <1>4, <2>1, <2>3, <2>4, <2>6, <3>1, Constants
    <3>2. CASE s # r
      <4>1. /\ reader'[s].left = reader[s].left /\ reader[s].left \in Nat /\ reader[s].left > 0
            /\ since[h] + reader[s].left >= Interval /\ reader[s].left + Interval <= lead[h]
        BY <2>1, <2>2, <2>3, <2>6, <3>2
      <4>2. lead[h] # 0 /\ lead'[h] >= lead[h]
        BY <1>4, <2>4, <4>1, Constants
      <4>3. since'[h] = since[h] /\ lead'[h] \in Nat
        BY <1>4, <4>2
      <4> QED
        BY <2>4, <4>1, <4>2, <4>3, Constants
    <3> QED
      BY <3>1, <3>2
  <2>7. ASSUME NEW s \in Readers, NEW t \in Readers, s # t, Ahead(s, h)', Ahead(t, h)',
               reader'[s].left <= reader'[t].left
        PROVE  reader'[s].left + Interval <= reader'[t].left
    <3>1. CASE s = r
      BY <2>1, <2>2, <2>3, <2>4, <2>7, <3>1, Constants
    <3>2. CASE t = r
      BY <2>1, <2>3, <2>7, <3>2
    <3>3. CASE s # r /\ t # r
      BY <2>1, <2>7, <3>3 DEF TurnsAreSpaced
    <3> QED
      BY <3>1, <3>2, <3>3
  <2> QED
    BY <2>5, <2>6, <2>7
<1>10. TurnsAreSpaced'
  BY <1>9 DEF TurnsAreSpaced
<1> QED
  BY <1>5, <1>6, <1>7, <1>8, <1>10

\* What a tick does to a reader and to a host.
LEMMA TickSteps ==
    ASSUME IInv, Tick
    PROVE  /\ reader' \in [Readers -> ReaderStates]
           /\ \A r \in Readers :
                 /\ reader[r].left \in Nat
                 /\ reader'[r].left = (IF reader[r].left > 0 THEN reader[r].left - 1 ELSE 0)
                 /\ reader'[r].pc = reader[r].pc /\ reader'[r].origin = reader[r].origin
                 /\ reader'[r].rules = reader[r].rules /\ reader'[r].path = reader[r].path
           /\ \A h \in Hosts :
                 /\ lead[h] \in Nat /\ since[h] \in 0 .. Interval
                 /\ lead'[h] = (IF lead[h] > 0 THEN lead[h] - 1 ELSE 0)
                 /\ since'[h] = (IF ComesUp(h) THEN 0 ELSE Least(since[h] + 1, Interval))
                 /\ since'[h] \in 0 .. Interval
           /\ lead' \in [Hosts -> Nat] /\ since' \in [Hosts -> 0 .. Interval]
           /\ UNCHANGED <<robots, published, asked, unread, requests>> /\ clock' = 1 - clock
<1>1. /\ lead \in [Hosts -> Nat] /\ since \in [Hosts -> 0 .. Interval]
      /\ reader \in [Readers -> ReaderStates]
  BY DEF IInv, TypeOK
<1>2. \A n \in Nat : Sooner(n) = (IF n > 0 THEN n - 1 ELSE 0) /\ Sooner(n) \in Nat
  BY DEF Sooner, Greatest
<1>3. ASSUME NEW r \in Readers
      PROVE  /\ reader'[r] \in ReaderStates /\ reader[r].left \in Nat
             /\ reader'[r].left = Sooner(reader[r].left)
             /\ reader'[r].pc = reader[r].pc /\ reader'[r].origin = reader[r].origin
             /\ reader'[r].rules = reader[r].rules /\ reader'[r].path = reader[r].path
  <2>1. reader'[r] = [reader[r] EXCEPT !.left = Sooner(@)]
    BY DEF Tick
  <2>2. reader[r] \in ReaderStates /\ reader[r].left \in Nat
    BY <1>1, ReaderParts
  <2>3. Sooner(reader[r].left) \in Nat
    BY <1>2, <2>2
  <2>4. CASE reader[r] = Idle
    <3>1. [Idle EXCEPT !.left = 0] = Idle
      BY ReaderFields, IdleIsReader DEF Fields
    <3> QED
      BY <1>2, <2>1, <2>2, <2>4, <3>1, IdleIsReader
  <2>5. CASE reader[r] \in Fetching
    BY <2>1, <2>2, <2>3, <2>5 DEF Fetching, ReaderStates
  <2> QED
    BY <2>2, <2>4, <2>5 DEF ReaderStates
<1>4. reader' \in [Readers -> ReaderStates]
  BY <1>3 DEF Tick
<1>5. ASSUME NEW h \in Hosts
      PROVE  /\ lead[h] \in Nat /\ since[h] \in 0 .. Interval
             /\ lead'[h] = Sooner(lead[h]) /\ lead'[h] \in Nat
             /\ since'[h] = (IF ComesUp(h) THEN 0 ELSE Least(since[h] + 1, Interval))
             /\ since'[h] \in 0 .. Interval
  <2>1. lead[h] \in Nat /\ since[h] \in 0 .. Interval
    BY <1>1
  <2>2. 0 \in 0 .. Interval /\ Least(since[h] + 1, Interval) \in 0 .. Interval
    BY <2>1, Constants DEF Least
  <2>3. since'[h] = (IF ComesUp(h) THEN 0 ELSE Least(since[h] + 1, Interval))
    BY DEF Tick
  <2> QED
    BY <1>2, <2>1, <2>2, <2>3 DEF Tick
<1>6. lead' \in [Hosts -> Nat] /\ since' \in [Hosts -> 0 .. Interval]
  BY <1>5 DEF Tick
<1>7. UNCHANGED <<robots, published, asked, unread, requests>> /\ clock' = 1 - clock
  BY DEF Tick
<1> QED
  BY <1>2, <1>3, <1>4, <1>5, <1>6, <1>7

\* The turns that are still ahead after a tick were, and are a tick nearer.
LEMMA TickNears ==
    ASSUME IInv, Tick, NEW h \in Hosts, NEW r \in Readers
    PROVE  Ahead(r, h)' => Ahead(r, h) /\ reader[r].left > 1 /\ reader'[r].left = reader[r].left - 1
<1>1. Ahead(r, h)' <=> /\ reader'[r].pc = "waiting" /\ reader'[r].left > 0
                       /\ HostOf[reader'[r].origin] = h
  BY DEF Ahead, HostFor
<1> QED
  BY <1>1, TickSteps DEF Ahead, HostFor

\* Where a turn comes up the others are at least an interval behind it.
LEMMA TickKeeps ==
    ASSUME IInv, Tick
    PROVE  IInv'
<1> USE DEF IInv
<1>1. ASSUME NEW h \in Hosts
      PROVE  /\ since'[h] + lead'[h] >= Interval
             /\ \A s \in Readers : Ahead(s, h)' => /\ since'[h] + reader'[s].left >= Interval
                                                   /\ reader'[s].left + Interval <= lead'[h]
             /\ \A s, t \in Readers :
                   s # t /\ Ahead(s, h)' /\ Ahead(t, h)' /\ reader'[s].left <= reader'[t].left
                      => reader'[s].left + Interval <= reader'[t].left
  <2>1. /\ lead[h] \in Nat /\ since[h] \in 0 .. Interval /\ since'[h] \in 0 .. Interval
        /\ lead'[h] = (IF lead[h] > 0 THEN lead[h] - 1 ELSE 0)
        /\ ~ComesUp(h) => since'[h] = Interval \/ since'[h] = since[h] + 1
    BY TickSteps DEF Least
  <2>2. /\ since[h] + lead[h] >= Interval
        /\ \A s \in Readers : Ahead(s, h) => /\ since[h] + reader[s].left >= Interval
                                             /\ reader[s].left + Interval <= lead[h]
        /\ \A s, t \in Readers : s # t /\ Ahead(s, h) /\ Ahead(t, h) /\ reader[s].left <= reader[t].left
                                   => reader[s].left + Interval <= reader[t].left
    BY DEF TurnsAreSpaced
  <2>3. ASSUME ComesUp(h)
        PROVE  /\ since'[h] = 0 /\ lead[h] >= Interval + 1
               /\ \A s \in Readers : Ahead(s, h)' => reader'[s].left >= Interval
    <3>1. PICK t \in Readers : Ahead(t, h) /\ reader[t].left = 1
      BY <2>3 DEF ComesUp, Ahead
    <3>2. 1 + Interval <= lead[h]
      BY <2>2, <3>1
    <3>3. ASSUME NEW s \in Readers, Ahead(s, h)'
          PROVE  reader'[s].left >= Interval
      <4>1. s # t /\ Ahead(s, h) /\ reader[t].left <= reader[s].left
            /\ reader'[s].left = reader[s].left - 1
        BY <3>1, <3>3, TickNears, TickSteps
      <4>2. 1 + Interval <= reader[s].left
        BY <2>2, <3>1, <4>1
      <4> QED
        BY <4>1, <4>2, TickSteps, Constants
    <3> QED
      BY <2>3, <3>2, <3>3, TickSteps, Constants
  <2>4. since'[h] + lead'[h] >= Interval
    <3>1. Interval \in Nat
      BY Constants
    <3>2. CASE ComesUp(h)
      BY <2>1, <2>3, <3>1, <3>2
    <3>3. CASE since'[h] = Interval
      BY <2>1, <3>1, <3>3
    <3>4. CASE since'[h] = since[h] + 1
      BY <2>1, <2>2, <3>1, <3>4
    <3> QED
      BY <2>1, <3>2, <3>3, <3>4
  <2>5. ASSUME NEW s \in Readers, Ahead(s, h)'
        PROVE  since'[h] + reader'[s].left >= Interval /\ reader'[s].left + Interval <= lead'[h]
    <3>1. /\ reader'[s].left = reader[s].left - 1 /\ reader[s].left \in Nat
          /\ since[h] + reader[s].left >= Interval /\ reader[s].left + Interval <= lead[h]
      BY <2>2, <2>5, TickNears, TickSteps
    <3>2. Interval \in Nat /\ Interval >= 1
      BY Constants
    <3>3. lead[h] > 0 /\ lead'[h] = lead[h] - 1
      BY <2>1, <3>1, <3>2
    <3>4. reader'[s].left + Interval <= lead'[h]
      BY <2>1, <3>1, <3>2, <3>3
    <3>5. reader'[s].left > 0
      BY <2>5 DEF Ahead
    <3>6. CASE ComesUp(h)
      <4>1. since'[h] = 0 /\ reader'[s].left >= Interval
        BY <2>3, <2>5, <3>6
      <4> QED
        BY <3>1, <3>2, <3>4, <4>1
    <3>7. CASE since'[h] = Interval
      BY <3>1, <3>2, <3>4, <3>5, <3>7
    <3>8. CASE since'[h] = since[h] + 1
      BY <2>1, <3>1, <3>2, <3>4, <3>8
    <3> QED
      BY <2>1, <3>6, <3>7, <3>8
  <2>6. ASSUME NEW s \in Readers, NEW t \in Readers, s # t, Ahead(s, h)', Ahead(t, h)',
               reader'[s].left <= reader'[t].left
        PROVE  reader'[s].left + Interval <= reader'[t].left
    <3>1. /\ Ahead(s, h) /\ reader'[s].left = reader[s].left - 1 /\ reader[s].left \in Nat
          /\ Ahead(t, h) /\ reader'[t].left = reader[t].left - 1 /\ reader[t].left \in Nat
      BY <2>6, TickNears, TickSteps
    <3>2. reader[s].left <= reader[t].left
      BY <2>6, <3>1
    <3>3. reader[s].left + Interval <= reader[t].left
      BY <2>2, <2>6, <3>1, <3>2
    <3> QED
      BY <3>1, <3>3, Constants
  <2> QED
    BY <2>4, <2>5, <2>6
<1>2. TurnsAreSpaced'
  BY <1>1 DEF TurnsAreSpaced
<1>3. TypeOK'
  BY TickSteps DEF TypeOK
<1>4. StoredIsKnown'
  BY TickSteps DEF StoredIsKnown
<1>5. RulesAreTheOrigins'
  <2>1. \A o \in Origins : robots'[o].known => TrueBut(robots'[o], o, unread')
    BY TickSteps, RulesBefore
  <2>2. \A r \in Readers : Knows(reader'[r], unread')
    BY TickSteps, RulesBefore DEF Knows
  <2> QED
    BY <2>1, <2>2, TickSteps, RulesAfter
<1>6. RequestsAreReaders'
  <2>1. ASSUME NEW o \in Origins
        PROVE  MayAsk(o)' = MayAsk(o)
    <3>1. \A r \in Readers : /\ ToAsk(reader'[r], o) <=> ToAsk(reader[r], o)
                             /\ Asked(reader'[r], o) <=> Asked(reader[r], o)
      BY TickSteps DEF ToAsk, Asked
    <3>2. HasAsked(o)' = HasAsked(o) /\ IsToAsk(o)' = IsToAsk(o)
      BY <3>1, AskersByPlace, AskersByPlaceAfter
    <3> QED
      BY <3>2, TickSteps DEF MayAsk
  <2> QED
    BY <2>1, TickSteps, RequestsKept
<1> QED
  BY <1>2, <1>3, <1>4, <1>5, <1>6

LEMMA InitKeeps == Init => IInv
<1> SUFFICES ASSUME Init PROVE IInv
  OBVIOUS
<1>1. \A r \in Readers : reader[r] = Idle
  BY DEF Init
<1>2. TypeOK
  BY <1>1, IdleIsReader, RulesOfNothing, Constants DEF Init, TypeOK
<1>3. StoredIsKnown
  BY <1>1, IdleIsReader DEF StoredIsKnown
<1>4. RulesAreTheOrigins
  <2>1. \A o \in Origins : ~robots[o].known
    BY RulesOfNothing DEF Init
  <2> QED
    BY <1>1, <2>1, IdleIsReader DEF RulesAreTheOrigins
<1>5. TurnsAreSpaced
  <2>1. \A h \in Hosts, r \in Readers : ~Ahead(r, h)
    BY <1>1, IdleIsReader DEF Ahead
  <2> QED
    BY <2>1, Constants DEF Init, TurnsAreSpaced
<1>6. RequestsAreReaders
  <2>1. ASSUME NEW o \in Origins
        PROVE  requests[o] + Cardinality(MayAsk(o)) <= Cardinality(Readers)
    <3>1. Cardinality(MayAsk(o)) <= Cardinality(Readers) /\ Cardinality(MayAsk(o)) \in Nat
      BY MayAskIsReaders, ReadersAreCounted
    <3> QED
      BY <3>1, Constants DEF Init
  <2> QED
    BY <2>1 DEF RequestsAreReaders
<1> QED
  BY <1>2, <1>3, <1>4, <1>5, <1>6 DEF IInv

LEMMA StutterKeeps ==
    ASSUME IInv, UNCHANGED vars
    PROVE  IInv'
<1> USE DEF IInv, vars
<1>1. TypeOK' /\ StoredIsKnown' /\ RulesAreTheOrigins'
  BY DEF TypeOK, StoredIsKnown, RulesAreTheOrigins, TrueTo
<1>2. RequestsAreReaders'
  BY DEF RequestsAreReaders, MayAsk, HasAsked, IsToAsk, ForRobots
<1>3. TurnsAreSpaced'
  BY DEF TurnsAreSpaced, Ahead, HostFor
<1> QED
  BY <1>1, <1>2, <1>3

LEMMA NextKeeps == IInv /\ [Next]_vars => IInv'
<1> SUFFICES ASSUME IInv, [Next]_vars PROVE IInv'
  OBVIOUS
<1>1. CASE Tick
  BY <1>1, TickKeeps
<1>2. ASSUME NEW r \in Readers, Step(r)
      PROVE  IInv'
  BY <1>2, FetchKeeps, ReserveKeeps, AskKeeps, AnswerKeeps, RememberKeeps DEF Step
<1>3. CASE UNCHANGED vars
  BY <1>3, StutterKeeps
<1> QED
  BY <1>1, <1>2, <1>3 DEF Next

LEMMA Invariant == Spec => []IInv
  BY InitKeeps, NextKeeps, PTL DEF Spec

(***************************************************************************)
(* What is promised.                                                       *)
(***************************************************************************)

\* However many readers find an origin's rules unknown at once, none asks for
\* them twice; turns are spaced by host, and what is known of an origin is what
\* it publishes, or nothing if the file is refused or someone could not get it.
THEOREM FetcherIsSound == Spec => []FetcherInv
<1>1. IInv => FetcherInv
  <2> SUFFICES ASSUME IInv PROVE RobotsAskedOncePerReader
    BY DEF IInv, FetcherInv
  <2>1. ASSUME NEW o \in Origins
        PROVE  requests[o] <= Cardinality(Readers)
    <3>1. Cardinality(MayAsk(o)) \in Nat
      BY MayAskIsReaders, ReadersAreCounted
    <3>2. requests[o] \in Nat /\ requests[o] + Cardinality(MayAsk(o)) <= Cardinality(Readers)
      BY DEF IInv, TypeOK, RequestsAreReaders
    <3> QED
      BY <3>1, <3>2, Constants
  <2> QED
    BY <2>1 DEF RobotsAskedOncePerReader
<1> QED
  BY <1>1, Invariant, PTL

(***************************************************************************)
(* The fetcher implements RatePromise, host by host: the time since the    *)
(* last turn pays for the next, a turn that comes up moves an interval's   *)
(* worth from since to the readers that are late, and asking spends it.    *)
(***************************************************************************)

\* Turns cost an interval each.
LEMMA Turns ==
    /\ \A n \in Nat : Interval * n \in Nat /\ Interval * (n + 1) = Interval * n + Interval
    /\ \A m, n \in Nat : m <= n => Interval * m <= Interval * n
  BY Constants

Savings == 0 .. Interval * (Cardinality(Readers) + 1)

LEMMA LateIsReaders ==
    ASSUME NEW h
    PROVE  Late(h) \in SUBSET Readers /\ IsFiniteSet(Late(h)) /\ Cardinality(Late(h)) \in Nat
<1>1. Late(h) \in SUBSET Readers
  BY DEF Late
<1> QED
  BY <1>1, ReadersAreCounted

\* What is promised can be saved up to a turn for every reader and one more.
LEMMA PromisedRange ==
    ASSUME TypeOK, NEW h \in Hosts
    PROVE  Promised(h) \in Savings
<1>1. Cardinality(Late(h)) \in Nat /\ Cardinality(Late(h)) <= Cardinality(Readers)
  BY LateIsReaders, ReadersAreCounted
<1>2. /\ Interval * Cardinality(Late(h)) \in Nat /\ Interval * Cardinality(Readers) \in Nat
      /\ Interval * Cardinality(Late(h)) <= Interval * Cardinality(Readers)
      /\ Interval * (Cardinality(Readers) + 1) = Interval * Cardinality(Readers) + Interval
  BY <1>1, Constants, Turns
<1>3. since[h] \in 0 .. Interval
  BY DEF TypeOK
<1> QED
  BY <1>2, <1>3, Constants DEF Promised, Savings

LEMMA CreditBefore == IInv => \A h \in Hosts : Promised(h) \in Savings
  BY PromisedRange DEF IInv

LEMMA CreditAfter == IInv' => (\A h \in Hosts : Promised(h) \in Savings)'
  BY CreditBefore, PTL

LEMMA CreditsAfter ==
    ASSUME IInv'
    PROVE  [h \in Hosts |-> Promised(h)]' \in Promise!Credits
<1>1. \A h \in Hosts : Promised(h)' \in Savings
  BY CreditAfter DEF Savings
<1> QED
  BY <1>1 DEF Promise!Credits, Savings

\* What a host is promised before and after a step that changes who is late.
LEMMA PromisedSteps ==
    ASSUME IInv, IInv', NEW h \in Hosts
    PROVE  /\ Promised(h) = since[h] + Interval * Cardinality(Late(h))
           /\ Promised(h)' = since'[h] + Interval * Cardinality(Late(h)')
           /\ since[h] \in Nat /\ since'[h] \in Nat /\ since[h] <= Interval
           /\ Interval * Cardinality(Late(h)) \in Nat /\ Interval * Cardinality(Late(h)') \in Nat
           /\ Late(h)' \subseteq Late(h) =>
                 Interval * Cardinality(Late(h)') <= Interval * Cardinality(Late(h))
           /\ \A r : r \notin Late(h) /\ Late(h)' = Late(h) \union {r} =>
                 Interval * Cardinality(Late(h)') = Interval * Cardinality(Late(h)) + Interval
           /\ \A r : r \in Late(h) /\ Late(h)' = Late(h) \ {r} =>
                 Interval * Cardinality(Late(h)) = Interval * Cardinality(Late(h)') + Interval
<1>1. Promised(h) = since[h] + Interval * Cardinality(Late(h))
  BY DEF Promised
<1>2. Promised(h)' = since'[h] + Interval * Cardinality(Late(h)')
  BY DEF Promised
<1>3. since[h] \in Nat /\ since'[h] \in Nat /\ since[h] <= Interval
  BY Constants DEF IInv, TypeOK
<1>4. /\ IsFiniteSet(Late(h)) /\ Cardinality(Late(h)) \in Nat
      /\ IsFiniteSet(Late(h)') /\ Cardinality(Late(h)') \in Nat
  <2>1. Late(h) \in SUBSET Readers /\ Late(h)' \in SUBSET Readers
    BY DEF Late
  <2> QED
    BY <2>1, ReadersAreCounted
<1>5. ASSUME Late(h)' \subseteq Late(h)
      PROVE  Interval * Cardinality(Late(h)') <= Interval * Cardinality(Late(h))
  BY <1>4, <1>5, FS_Subset, Turns
<1>6. ASSUME NEW r, r \notin Late(h), Late(h)' = Late(h) \union {r}
      PROVE  Interval * Cardinality(Late(h)') = Interval * Cardinality(Late(h)) + Interval
  <2>1. Cardinality(Late(h)') = Cardinality(Late(h)) + 1
    BY <1>4, <1>6, FS_AddElement
  <2> QED
    BY <1>4, <2>1, Turns
<1>7. ASSUME NEW r, r \in Late(h), Late(h)' = Late(h) \ {r}
      PROVE  Interval * Cardinality(Late(h)) = Interval * Cardinality(Late(h)') + Interval
  <2>1. Cardinality(Late(h)) = Cardinality(Late(h)') + 1
    BY <1>4, <1>7, FS_RemoveElement
  <2> QED
    BY <1>4, <2>1, Turns
<1> QED
  BY <1>1, <1>2, <1>3, <1>4, <1>5, <1>6, <1>7, Turns

\* A step within a tick that asks for nothing and promises no host more.
LEMMA ForfeitStep ==
    ASSUME IInv, IInv', UNCHANGED <<clock, asked>>,
           \A h \in Hosts : Promised(h)' <= Promised(h)
    PROVE  Promise!Forfeit
  BY CreditsAfter DEF Promise!Forfeit

\* A reader in this place is late for a turn at the host.
IsLate(job, h) == job.pc = "waiting" /\ job.left = 0 /\ HostOf[job.origin] = h

LEMMA LateAfterPut ==
    ASSUME TypeOK, NEW r \in Readers, NEW job \in ReaderStates, Put(r, job), NEW h
    PROVE  /\ IsLate(job, h) => Late(h)' = Late(h) \union {r}
           /\ ~IsLate(job, h) => Late(h)' = Late(h) \ {r}
           /\ r \in Late(h) <=> IsLate(reader[r], h)
<1>1. Late(h)' = {s \in Readers : IsLate(reader'[s], h)}
  BY DEF Late, HostFor, IsLate
<1>2. Late(h) = {s \in Readers : IsLate(reader[s], h)}
  BY DEF Late, HostFor, IsLate
<1>3. reader'[r] = job /\ \A s \in Readers \ {r} : reader'[s] = reader[s]
  BY PutPlaces
<1> QED
  BY <1>1, <1>2, <1>3

\* A step that makes no one late and gives no turn.
LEMMA QuietStep ==
    ASSUME IInv, IInv', UNCHANGED <<clock, asked, since>>,
           \A h \in Hosts : Late(h)' \subseteq Late(h)
    PROVE  Promise!Forfeit
<1>1. ASSUME NEW h \in Hosts
      PROVE  Promised(h)' <= Promised(h)
  BY PromisedSteps
<1> QED
  BY <1>1, ForfeitStep

LEMMA ReserveForfeits ==
    ASSUME IInv, IInv', NEW r \in Readers, Reserve(r)
    PROVE  Promise!Forfeit
<1> DEFINE host == HostOf[reader[r].origin]
           job == [reader[r] EXCEPT !.pc = "waiting", !.left = lead[host]]
<1>1. /\ reader[r] \in ReaderStates /\ reader[r].pc = "turning" /\ host \in Hosts
      /\ lead \in [Hosts -> Nat] /\ since \in [Hosts -> 0 .. Interval] /\ lead[host] \in Nat
  BY Constants, ReaderParts DEF Reserve, IInv, TypeOK
<1>2. /\ job \in ReaderStates /\ job.pc = "waiting" /\ job.left = lead[host]
      /\ job.origin = reader[r].origin
  BY <1>1, ReaderFields DEF Fields
<1>3. Put(r, job) /\ UNCHANGED <<clock, asked>>
  BY DEF Reserve, HostFor
<1> HIDE DEF job
<1>4. \A h \in Hosts : since'[h] = IF h = host /\ lead[h] = 0 THEN 0 ELSE since[h]
  BY <1>1, Constants DEF Reserve, HostFor
<1>5. ASSUME NEW h \in Hosts
      PROVE  Promised(h)' <= Promised(h)
  <2>1. r \notin Late(h)
    BY <1>1, <1>2, <1>3, LateAfterPut DEF IInv, IsLate
  <2>2. CASE h = host /\ lead[h] = 0
    <3>1. Late(h)' = Late(h) \union {r}
      BY <1>2, <1>3, <2>2, LateAfterPut DEF IInv, IsLate
    <3>2. since'[h] = 0 /\ since[h] >= Interval
      BY <1>1, <1>4, <2>2, Constants DEF IInv, TurnsAreSpaced
    <3> QED
      BY <2>1, <3>1, <3>2, PromisedSteps, Constants
  <2>3. CASE ~(h = host /\ lead[h] = 0)
    <3>1. Late(h)' = Late(h) \ {r}
      BY <1>2, <1>3, <2>3, LateAfterPut DEF IInv, IsLate
    <3>2. since'[h] = since[h]
      BY <1>4, <2>3
    <3> QED
      BY <3>1, <3>2, PromisedSteps
  <2> QED
    BY <2>2, <2>3
<1> QED
  BY <1>3, <1>5, ForfeitStep

LEMMA AskSpends ==
    ASSUME IInv, IInv', NEW r \in Readers, Ask(r)
    PROVE  \E h \in Hosts : Promise!Spend(h)
<1> DEFINE job == [reader[r] EXCEPT !.pc = "asking"]
<1>1. /\ reader[r] \in ReaderStates /\ reader[r].pc = "waiting" /\ reader[r].left = 0
  BY DEF Ask, IInv, TypeOK
<1>2. job \in ReaderStates /\ job.pc = "asking"
  BY <1>1, ReaderFields DEF Fields
<1>3. Put(r, job) /\ UNCHANGED <<clock, since>>
  BY DEF Ask
<1> HIDE DEF job
<1>4. PICK host \in Hosts : host = HostOf[reader[r].origin]
  BY <1>1, Constants, ReaderParts
<1>5. /\ asked'[host] # asked[host]
      /\ \A h \in Hosts \ {host} : asked'[h] = asked[h]
  BY <1>4 DEF Ask, HostFor, IInv, TypeOK
<1>6. \A h \in Hosts : Late(h)' = Late(h) \ {r} /\ (r \in Late(h) <=> h = host)
  BY <1>1, <1>2, <1>3, <1>4, LateAfterPut DEF IInv, IsLate
<1>7. Promised(host)' = Promised(host) - Interval /\ Promised(host) >= Interval
  BY <1>3, <1>6, PromisedSteps, Constants
<1>8. \A h \in Hosts : Promised(h)' <= Promised(h)
  <2>1. ASSUME NEW h \in Hosts
        PROVE  Promised(h)' <= Promised(h)
    BY <1>3, <1>6, PromisedSteps
  <2> QED
    BY <2>1
<1> DEFINE credit == [h \in Hosts |-> Promised(h)]
<1>9. /\ credit[host] >= Interval /\ credit' \in Promise!Credits
      /\ credit'[host] <= credit[host] - Interval
      /\ \A h \in Hosts \ {host} : credit'[h] <= credit[h]
  <2>1. \A h \in Hosts : credit[h] = Promised(h) /\ credit'[h] = Promised(h)'
    OBVIOUS
  <2>2. credit' \in Promise!Credits
    BY CreditsAfter
  <2> HIDE DEF credit
  <2>3. \A h \in Hosts : credit'[h] <= credit[h]
    BY <1>8, <2>1
  <2>4. credit[host] >= Interval /\ credit'[host] <= credit[host] - Interval
    <3>1. credit'[host] = Promised(host)' /\ credit[host] = Promised(host)
      BY <2>1
    <3> QED
      BY <1>7, <3>1, PromisedSteps, Constants
  <2> QED
    BY <2>2, <2>3, <2>4
<1>10. Promise!Spend(host)
  BY <1>3, <1>5, <1>9 DEF Promise!Spend
<1> QED
  BY <1>10

LEMMA TickEarns ==
    ASSUME IInv, IInv', Tick
    PROVE  Promise!Earn
<1>1. ASSUME NEW h \in Hosts
      PROVE  Promised(h)' <= Promised(h) + 1
  <2> DEFINE due == {r \in Readers : reader[r].pc = "waiting" /\ reader[r].left = 1
                                       /\ HostOf[reader[r].origin] = h}
  <2>1. Late(h)' = Late(h) \union due
    <3>1. Late(h)' = {r \in Readers : reader'[r].pc = "waiting" /\ reader'[r].left = 0
                                        /\ HostOf[reader'[r].origin] = h}
      BY DEF Late, HostFor
    <3> QED
      BY <3>1, TickSteps DEF Late, HostFor
  <2>2. since[h] \in 0 .. Interval /\ (ComesUp(h) <=> due # {})
        /\ since'[h] = (IF ComesUp(h) THEN 0 ELSE Least(since[h] + 1, Interval))
    <3>1. ComesUp(h) <=> due # {}
      BY DEF ComesUp, HostFor
    <3> QED
      BY <3>1, TickSteps
  <2>3. CASE due = {}
    <3>1. Late(h)' = Late(h)
      BY <2>1, <2>3
    <3>2. since'[h] <= since[h] + 1
      BY <2>2, <2>3, Constants DEF Least
    <3> QED
      BY <3>1, <3>2, PromisedSteps
  <2>4. CASE due # {}
    <3>1. PICK r \in due : TRUE
      BY <2>4
    <3>2. \A s \in due : Ahead(s, h) /\ reader[s].left = 1
      BY DEF Ahead, HostFor
    <3>3. due = {r}
      BY <3>1, <3>2, Constants DEF IInv, TurnsAreSpaced
    <3>4. r \notin Late(h) /\ Late(h)' = Late(h) \union {r}
      BY <2>1, <3>1, <3>3 DEF Late
    <3>5. since[h] + 1 >= Interval /\ since'[h] = 0
      BY <2>2, <2>4, <3>1, <3>2 DEF IInv, TurnsAreSpaced
    <3> QED
      BY <3>4, <3>5, PromisedSteps, Constants
  <2> QED
    BY <2>3, <2>4
<1> DEFINE credit == [h \in Hosts |-> Promised(h)]
<1>2. \A h \in Hosts : credit[h] = Promised(h) /\ credit'[h] = Promised(h)'
  OBVIOUS
<1>3. credit' \in Promise!Credits
  BY CreditsAfter
<1>4. \A h \in Hosts : credit'[h] <= credit[h] + 1
  <2> HIDE DEF credit
  <2> QED
    BY <1>1, <1>2
<1>5. clock' # clock /\ UNCHANGED asked
  BY TickSteps DEF IInv, TypeOK
<1> QED
  BY <1>3, <1>4, <1>5 DEF Promise!Earn

\* Where a step that takes no turn, spends none and is not a redirect or a
\* cancellation puts its reader.
LEMMA PlaceAfterStep ==
    ASSUME IInv, NEW r \in Readers, Step(r), ~Reserve(r), ~Ask(r), ~Redirected(r), ~Cancel(r)
    PROVE  \E next : Put(r, next) /\ next.pc \in {"turning", "storing", "idle"}
<1>0. reader[r] \in Fields /\ Idle.pc = "idle" /\ Idle \in Fields
  BY IdleIsReader, ReaderFields DEF IInv, TypeOK
<1>1. ASSUME NEW job \in Fields, NEW rules, Judge(r, job, rules)
      PROVE  \E next : Put(r, next) /\ next.pc \in {"turning", "storing", "idle"}
  <2>1. [job EXCEPT !.pc = "turning", !.rules = rules].pc = "turning"
    BY DEF Fields
  <2> QED
    BY <1>0, <1>1, <2>1 DEF Judge
<1>2. ASSUME NEW rules, Learn(r, rules)
      PROVE  \E next : Put(r, next) /\ next.pc \in {"turning", "storing", "idle"}
  <2> DEFINE job == [reader[r] EXCEPT !.pc = "storing", !.rules = rules,
                                      !.hops = 0, !.at = Nowhere]
  <2>1. job.pc = "storing"
    BY <1>0 DEF Fields
  <2>2. Put(r, job)
    BY <1>2 DEF Learn
  <2> HIDE DEF job
  <2> QED
    BY <2>1, <2>2
<1>3. ASSUME NEW o \in Origins, NEW p \in Paths, Fetch(r, o, p)
      PROVE  \E next : Put(r, next) /\ next.pc \in {"turning", "storing", "idle"}
  <2> DEFINE job == [Idle EXCEPT !.origin = o, !.path = p]
  <2>1. job \in Fields /\ [job EXCEPT !.pc = "turning"].pc = "turning"
    BY <1>0 DEF Fields
  <2>2. Judge(r, job, robots[o]) \/ Put(r, [job EXCEPT !.pc = "turning"])
    BY <1>3 DEF Fetch
  <2> HIDE DEF job
  <2> QED
    BY <1>1, <2>1, <2>2
<1>4. CASE RobotsArrive(r) \/ (Fails(r) /\ ForRobots(r))
  <2>1. \E rules : Learn(r, rules)
    BY <1>4 DEF RobotsArrive, Fails
  <2> QED
    BY <1>2, <2>1
<1>5. CASE PageArrives(r) \/ (Fails(r) /\ ~ForRobots(r))
  BY <1>0, <1>5 DEF PageArrives, Fails
<1>6. CASE Remember(r)
  BY <1>0, <1>1, <1>6 DEF Remember
<1>7. \/ \E o \in Origins, p \in Paths : Fetch(r, o, p)
      \/ RobotsArrive(r) \/ PageArrives(r) \/ Fails(r) \/ Remember(r)
  BY DEF Step
<1>8. CASE \E o \in Origins, p \in Paths : Fetch(r, o, p)
  BY <1>3, <1>8
<1> QED
  BY <1>4, <1>5, <1>6, <1>7, <1>8

\* However many readers share a host, and however their fetches fail or are
\* given up, a request to it is begun once per interval but for readers whose
\* timers fired late.  (What a redirect leads to is no request begun.)
THEOREM FetcherKeepsItsRate == Spec => KeepsItsRate
<1>1. Init => Promise!Init
  <2> SUFFICES ASSUME Init PROVE Promise!Init
    OBVIOUS
  <2>1. \A h \in Hosts : Promised(h) \in Savings
    BY InitKeeps, CreditBefore
  <2> QED
    BY <2>1 DEF Promise!Init, Promise!Credits, Savings
<1>2. IInv /\ IInv' /\ [Next]_vars => [Promise!Next]_(Promise!vars)
  <2> SUFFICES ASSUME IInv, IInv', [Next]_vars
               PROVE  Promise!Next \/ UNCHANGED Promise!vars
    OBVIOUS
  <2>1. CASE Tick
    BY <2>1, TickEarns DEF Promise!Next
  <2>2. ASSUME NEW r \in Readers, Step(r)
        PROVE  Promise!Next
    <3>0. reader[r] \in ReaderStates /\ reader \in [Readers -> ReaderStates]
      BY DEF IInv, TypeOK
    <3>1. CASE Reserve(r)
      BY <3>1, ReserveForfeits DEF Promise!Next
    <3>2. CASE Ask(r)
      BY <3>2, AskSpends DEF Promise!Next
    <3>3. CASE ~Reserve(r) /\ ~Ask(r)
      <4>1. UNCHANGED <<clock, asked, since>>
        BY <2>2, <3>3 DEF Step, Fetch, Redirected, RobotsArrive, PageArrives, Fails, Remember, Cancel
      <4>2. /\ \A s \in Readers \ {r} : reader'[s] = reader[s]
            /\ reader'[r].pc = "waiting" => /\ reader[r].pc = "waiting"
                                            /\ reader'[r].left = reader[r].left
                                            /\ reader'[r].origin = reader[r].origin
        <5>2. CASE ~Redirected(r) /\ ~Cancel(r)
          <6>1. PICK job : Put(r, job) /\ job.pc \in {"turning", "storing", "idle"}
            BY <2>2, <3>3, <5>2, PlaceAfterStep
          <6> QED
            BY <3>0, <6>1 DEF Put
        <5>5. CASE Redirected(r) \/ Cancel(r)
          BY <5>5, MovedOn, PutPlaces DEF IInv
        <5> QED
          BY <5>2, <5>5
      <4>3. ASSUME NEW h \in Hosts
            PROVE  Late(h)' \subseteq Late(h)
        <5>1. Late(h)' = {s \in Readers : IsLate(reader'[s], h)}
          BY DEF Late, HostFor, IsLate
        <5>2. Late(h) = {s \in Readers : IsLate(reader[s], h)}
          BY DEF Late, HostFor, IsLate
        <5> QED
          BY <4>2, <5>1, <5>2 DEF IsLate
      <4> QED
        BY <4>1, <4>3, QuietStep DEF Promise!Next
    <3> QED
      BY <3>1, <3>2, <3>3
  <2>3. CASE UNCHANGED vars
    <3>1. \A h \in Hosts : Promised(h)' = Promised(h)
      BY <2>3 DEF vars, Promised, Late, HostFor
    <3>2. UNCHANGED <<clock, asked>>
      BY <2>3 DEF vars
    <3> QED
      BY <3>1, <3>2 DEF Promise!vars
  <2> QED
    BY <2>1, <2>2, <2>3 DEF Next
<1> QED
  BY <1>1, <1>2, Invariant, PTL DEF Spec, KeepsItsRate, Promise!Spec

(***************************************************************************)
(* Robots files.  The rules are obeyed in files whose groups name one      *)
(* crawler each: parseRobots takes a rule for the crawler named last, and  *)
(* so reads the others' groups wrong when a group names several.           *)
(***************************************************************************)

OneCrawlerPerGroup(lines) ==
    \A i \in 2 .. Len(lines) : lines[i].field = "agent" => lines[i - 1].field # "agent"

\* Any numbers have a least, and if they are bounded a greatest.
LEMMA LeastElement ==
    ASSUME NEW T \in SUBSET Nat, T # {}
    PROVE  \E n \in T : \A m \in T : n <= m
<1>1. PICK n \in T : \A m \in T : ~(<<m, n>> \in OpToRel(<, Nat))
  BY NatLessThanWellFounded, WFMin
<1>2. \A m \in T : ~(m < n)
  <2> TAKE m \in T
  <2>1. m < n => <<m, n>> \in OpToRel(<, Nat)
    BY DEF OpToRel
  <2> QED
    BY <1>1, <2>1
<1> QED
  BY <1>2

LEMMA GreatestElement ==
    ASSUME NEW T \in SUBSET Int, T # {}, NEW top \in Int, \A n \in T : n <= top
    PROVE  \E n \in T : \A m \in T : m <= n
<1> DEFINE below == {top - n : n \in T}
<1>1. below \in SUBSET Nat /\ below # {}
  <2>1. \A n \in T : top - n \in Nat
    OBVIOUS
  <2> QED
    BY <2>1
<1>2. PICK d \in below : \A e \in below : d <= e
  <2> HIDE DEF below
  <2> QED
    BY <1>1, LeastElement
<1>3. PICK n \in T : d = top - n
  BY <1>2
<1>4. \A m \in T : top - n <= top - m
  BY <1>2, <1>3
<1>5. \A m \in T : m <= n
  BY <1>4
<1> QED
  BY <1>5

\* The last of the lines up to i that are of some kind.
LEMMA LastLine ==
    ASSUME NEW i \in Nat, NEW T \in SUBSET (1 .. i), T # {}
    PROVE  /\ (CHOOSE j \in T : \A k \in T : k <= j) \in T
           /\ \A k \in T : k <= (CHOOSE j \in T : \A m \in T : m <= j)
<1>1. \E j \in T : \A k \in T : k <= j
  <2>1. T \in SUBSET Int /\ i \in Int
    OBVIOUS
  <2>2. \A n \in T : n <= i
    OBVIOUS
  <2> QED
    BY <2>1, <2>2, GreatestElement, Zenon
<1> QED
  BY <1>1, Zenon

\* In such a file the crawler a rule is taken for is the one its group binds.
LEMMA RuleOfGroup ==
    ASSUME NEW lines \in Seq(Lines), OneCrawlerPerGroup(lines), NEW i \in DOMAIN lines
    PROVE  Binds(lines, i) <=> AgentAt(lines, i) = "*"
<1> DEFINE named(n) == {j \in 1 .. n : lines[j].field = "agent"}
           opens(n) == {j \in 1 .. n : Opens(lines, j)}
           last(n) == CHOOSE j \in named(n) : \A k \in named(n) : k <= j
<1>1. i \in Nat /\ i >= 1 /\ i <= Len(lines) /\ Len(lines) \in Nat
  OBVIOUS
<1>2. \A n \in 1 .. Len(lines) : opens(n) = named(n)
  BY DEF Opens, OneCrawlerPerGroup
<1>3. \A n \in 1 .. Len(lines) : GroupOf(lines, n) = IF named(n) = {} THEN 0 ELSE last(n)
  <2> TAKE n \in 1 .. Len(lines)
  <2>1. GroupOf(lines, n) = IF opens(n) = {} THEN 0
                           ELSE CHOOSE j \in opens(n) : \A k \in opens(n) : k <= j
    BY DEF GroupOf
  <2>2. opens(n) = named(n)
    BY <1>2
  <2> HIDE DEF opens, named
  <2> QED
    BY <2>1, <2>2, Zenon
<1>4. \A n \in 1 .. Len(lines) :
         named(n) # {} => last(n) \in named(n) /\ \A k \in named(n) : k <= last(n)
  <2> TAKE n \in 1 .. Len(lines)
  <2> HAVE named(n) # {}
  <2>1. n \in Nat /\ named(n) \in SUBSET (1 .. n)
    BY <1>1
  <2> HIDE DEF named
  <2> QED
    BY <2>1, LastLine
<1>5. \A j \in 1 .. Len(lines) : lines[j].field = "agent" => GroupOf(lines, j) = j
  <2> TAKE j \in 1 .. Len(lines)
  <2> HAVE lines[j].field = "agent"
  <2>1. j \in named(j) /\ \A k \in named(j) : k <= j
    BY <1>1
  <2>2. last(j) = j
    <3>1. last(j) \in named(j) /\ j <= last(j)
      BY <1>4, <2>1
    <3>2. last(j) \in Int /\ last(j) <= j
      BY <2>1, <3>1
    <3> QED
      BY <3>1, <3>2
  <2> QED
    BY <1>3, <2>1, <2>2
<1>6. AgentAt(lines, i) = IF named(i) = {} THEN "nobody" ELSE lines[last(i)].value
  BY DEF AgentAt
<1>7. ASSUME Binds(lines, i)
      PROVE  AgentAt(lines, i) = "*"
  <2>1. PICK j \in 1 .. Len(lines) :
           /\ lines[j] = [field |-> "agent", value |-> "*"]
           /\ GroupOf(lines, j) = GroupOf(lines, i)
    BY <1>7 DEF Binds
  <2>2. GroupOf(lines, i) = j /\ j # 0 /\ lines[j].value = "*"
    BY <1>5, <2>1
  <2>3. named(i) # {} /\ last(i) = j
    BY <1>1, <1>3, <2>2
  <2> QED
    BY <1>6, <2>2, <2>3
<1>8. ASSUME AgentAt(lines, i) = "*"
      PROVE  Binds(lines, i)
  <2>1. named(i) # {} /\ lines[last(i)].value = "*"
    BY <1>6, <1>8
  <2>2. last(i) \in named(i) /\ GroupOf(lines, i) = last(i)
    <3>1. i \in 1 .. Len(lines)
      BY <1>1
    <3> HIDE DEF named, last
    <3> QED
      BY <3>1, <1>3, <1>4, <2>1
  <2>3. PICK j \in 1 .. Len(lines) : j = last(i) /\ lines[j].field = "agent"
    BY <1>1, <2>2
  <2>4. lines[j] = [field |-> "agent", value |-> "*"]
    <3>1. lines[j] \in Lines
      OBVIOUS
    <3> QED
      BY <2>1, <2>3, <3>1 DEF Lines
  <2> QED
    BY <1>5, <2>2, <2>3, <2>4 DEF Binds
<1> QED
  BY <1>7, <1>8

\* Longest is the length of the longest prefix that matches, or -1.
LEMMA LongestMatches ==
    ASSUME NEW prefixes \in SUBSET Paths, NEW path \in Paths
    PROVE  /\ Longest(prefixes, path) \in Int
           /\ \A p \in prefixes : IsPrefixOf(p, path) => Len(p) <= Longest(prefixes, path)
           /\ \/ Longest(prefixes, path) = -1
              \/ \E p \in prefixes : IsPrefixOf(p, path) /\ Longest(prefixes, path) = Len(p)
<1> DEFINE lengths == {-1} \union {Len(p) : p \in {q \in prefixes : IsPrefixOf(q, path)}}
<1>1. \A p \in Paths : Len(p) \in Nat
  BY FetcherAssumption
<1>0. Len(path) \in Int
  BY <1>1
<1>2. lengths \in SUBSET Int /\ lengths # {} /\ \A n \in lengths : n <= Len(path)
  BY <1>1 DEF IsPrefixOf
<1>3. \E n \in lengths : \A m \in lengths : m <= n
  <2> HIDE DEF lengths
  <2> QED
    BY <1>1, <1>2, <1>0, GreatestElement, Zenon
<1>4. Longest(prefixes, path) = CHOOSE n \in lengths : \A m \in lengths : m <= n
  BY DEF Longest
<1>5. Longest(prefixes, path) \in lengths /\ \A m \in lengths : m <= Longest(prefixes, path)
  BY <1>3, <1>4, Zenon
<1> QED
  BY <1>1, <1>5

\* What a file forbids, the rules taken from it do not allow.
LEMMA ForbiddenIsNotAllowed ==
    ASSUME NEW lines \in Seq(Lines), OneCrawlerPerGroup(lines), NEW path \in Paths,
           Forbids(lines, path)
    PROVE  ~Allows(Parse(lines), path)
<1> DEFINE rules == Parse(lines)
<1>1. rules.allow \in SUBSET Paths /\ rules.disallow \in SUBSET Paths
  BY ParsedIsRules DEF Rules
<1>2. /\ rules.allow = {lines[i].value : i \in {j \in DOMAIN lines :
                            lines[j].field = "allow" /\ AgentAt(lines, j) = "*"}}
      /\ rules.disallow = {lines[i].value : i \in {j \in DOMAIN lines :
                            lines[j].field = "disallow" /\ AgentAt(lines, j) = "*"}}
  BY DEF Parse
<1> HIDE DEF rules
<1>3. PICK i \in DOMAIN lines :
         /\ lines[i].field = "disallow" /\ Binds(lines, i) /\ IsPrefixOf(lines[i].value, path)
         /\ \A j \in DOMAIN lines :
               lines[j].field = "allow" /\ Binds(lines, j) /\ IsPrefixOf(lines[j].value, path)
                  => Len(lines[j].value) < Len(lines[i].value)
  BY DEF Forbids
<1>4. lines[i].value \in rules.disallow
  BY <1>2, <1>3, RuleOfGroup
<1>5. Len(lines[i].value) \in Nat /\ Len(lines[i].value) <= Longest(rules.disallow, path)
  <2>1. Len(lines[i].value) \in Nat
    BY <1>1, <1>4, FetcherAssumption
  <2> QED
    BY <1>1, <1>3, <1>4, <2>1, LongestMatches
<1>6. Longest(rules.allow, path) < Len(lines[i].value)
  <2>1. CASE Longest(rules.allow, path) = -1
    BY <1>5, <2>1
  <2>2. ASSUME NEW p \in rules.allow, IsPrefixOf(p, path), Longest(rules.allow, path) = Len(p)
        PROVE  Longest(rules.allow, path) < Len(lines[i].value)
    <3>1. PICK j \in DOMAIN lines :
             p = lines[j].value /\ lines[j].field = "allow" /\ AgentAt(lines, j) = "*"
      BY <1>2
    <3>2. Binds(lines, j)
      BY <3>1, RuleOfGroup
    <3> QED
      BY <1>3, <2>2, <3>1, <3>2
  <2> QED
    BY <1>1, <2>1, <2>2, LongestMatches
<1>7. Longest(rules.allow, path) \in Int /\ Longest(rules.disallow, path) \in Int
  BY <1>1, LongestMatches
<1> QED
  BY <1>5, <1>6, <1>7 DEF Allows, rules

\* A page its origin forbids is asked for only by a reader that goes by no rules,
\* because a request for them failed or the file is refused, whatever the files
\* say in groups of one crawler each.
THEOREM FetcherObeysRobots ==
    ASSUME \A file \in Files : OneCrawlerPerGroup(file.lines)
    PROVE  Spec => RobotsAreRespected
<1> DEFINE Obeys == \A r \in Readers :
                       /\ reader[r].pc = "waiting" /\ reader'[r].pc = "asking" /\ ~ForRobots(r)
                       /\ Forbids(published[reader[r].origin].lines, reader[r].path)
                       => /\ reader[r].rules = Permissive
                          /\ reader[r].origin \in unread \/ ~published[reader[r].origin].html
<1>1. IInv => Obeys
  <2> SUFFICES ASSUME IInv, NEW r \in Readers, reader[r].pc = "waiting", ~ForRobots(r),
                      Forbids(published[reader[r].origin].lines, reader[r].path),
                      ~ (/\ reader[r].rules = Permissive
                         /\ reader[r].origin \in unread \/ ~published[reader[r].origin].html)
               PROVE  FALSE
    OBVIOUS
  <2>1. reader[r].origin \in Origins /\ reader[r].path \in Paths
    BY ReaderParts DEF IInv, TypeOK
  <2>2. reader[r].rules.known
    BY DEF ForRobots
  <2>3. reader[r].rules = RulesOf[published[reader[r].origin]] /\ Allows(reader[r].rules, reader[r].path)
    <3>1. TrueBut(reader[r].rules, reader[r].origin, unread) /\ Allows(reader[r].rules, reader[r].path)
      BY <2>2, RulesBefore DEF IInv, Knows
    <3> QED
      BY <3>1 DEF TrueBut
  <2>4. /\ published[reader[r].origin] \in Files
        /\ published[reader[r].origin].lines \in Seq(Lines)
        /\ reader[r].rules = Parse(published[reader[r].origin].lines)
    BY <2>1, <2>3, PublishedIsParsed DEF IInv, TypeOK
  <2> QED
    BY <2>1, <2>3, <2>4, ForbiddenIsNotAllowed
<1>2. IInv => [Obeys]_vars
  BY <1>1
<1> QED
  BY <1>2, Invariant, PTL DEF RobotsAreRespected
=============================================================================
