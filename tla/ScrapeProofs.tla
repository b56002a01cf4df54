---------------------------- MODULE ScrapeProofs ----------------------------
(***************************************************************************)
(* Reading museums' sites on demand.  For any number of callers,           *)
(* admitters, workers and cells, a cell is one piece of work, reads end    *)
(* before their area does, areas take turns, and a cooldown outlives the   *)
(* process.  For any sites, what the reading of one calls unchanged is     *)
(* unchanged, of an event that recurs no occurrence is lost, a text is     *)
(* read as it was written, a read takes only exhibitions out of the pages, *)
(* within its budget, and one that nothing disturbs finds what is shown.   *)
(***************************************************************************)
EXTENDS ScrapeQueue, ListingForms, FiniteSetTheorems, SequenceTheorems,
        WellFoundedInduction, TLAPS

(***************************************************************************)
(* Sequences, sets and constants.                                          *)
(***************************************************************************)

\* The sequence without one of its places.
LEMMA RemoveAtPlaces ==
    ASSUME NEW S, NEW s \in Seq(S), NEW i \in 1 .. Len(s)
    PROVE  /\ RemoveAt(s, i) \in Seq(S) /\ Len(RemoveAt(s, i)) = Len(s) - 1
           /\ \A j \in 1 .. Len(s) - 1 :
                 RemoveAt(s, i)[j] = IF j < i THEN s[j] ELSE s[j + 1]
<1>1. SubSeq(s, 1, i - 1) \in Seq(S) /\ Len(SubSeq(s, 1, i - 1)) = i - 1
      /\ \A j \in 1 .. i - 1 : SubSeq(s, 1, i - 1)[j] = s[j]
  OBVIOUS
<1>2. SubSeq(s, i + 1, Len(s)) \in Seq(S) /\ Len(SubSeq(s, i + 1, Len(s))) = Len(s) - i
      /\ \A j \in 1 .. Len(s) - i : SubSeq(s, i + 1, Len(s))[j] = s[j + i]
  OBVIOUS
<1> DEFINE front == SubSeq(s, 1, i - 1)
           back == SubSeq(s, i + 1, Len(s))
<1>3. RemoveAt(s, i) = front \o back
  BY DEF RemoveAt
<1>4. /\ front \in Seq(S) /\ Len(front) = i - 1 /\ \A j \in 1 .. i - 1 : front[j] = s[j]
      /\ back \in Seq(S) /\ Len(back) = Len(s) - i /\ \A j \in 1 .. Len(s) - i : back[j] = s[j + i]
  BY <1>1, <1>2
<1> HIDE DEF front, back
<1>5. /\ front \o back \in Seq(S) /\ Len(front \o back) = Len(front) + Len(back)
      /\ \A j \in 1 .. Len(front) + Len(back) :
            (front \o back)[j] = IF j <= Len(front) THEN front[j] ELSE back[j - Len(front)]
  BY <1>4, ConcatProperties
<1>6. ASSUME NEW j \in 1 .. Len(s) - 1
      PROVE  (front \o back)[j] = IF j < i THEN s[j] ELSE s[j + 1]
  <2>1. CASE j < i
    <3>1. j \in 1 .. Len(front) /\ j \in 1 .. Len(front) + Len(back) /\ j \in 1 .. i - 1
      BY <1>4, <2>1
    <3>2. (front \o back)[j] = front[j]
      BY <1>5, <3>1
    <3> QED
      BY <1>4, <2>1, <3>1, <3>2
  <2>2. CASE ~ (j < i)
    <3> DEFINE k == j - Len(front)
    <3>1. /\ j \in 1 .. Len(front) + Len(back) /\ ~ (j <= Len(front))
          /\ k \in 1 .. Len(s) - i /\ k + i = j + 1
      BY <1>4, <2>2
    <3>2. (front \o back)[j] = back[k]
      BY <1>5, <3>1
    <3> HIDE DEF k
    <3>3. back[k] = s[j + 1]
      BY <1>4, <3>1
    <3> QED
      BY <2>2, <3>2, <3>3
  <2> QED
    BY <2>1, <2>2
<1> QED
  BY <1>3, <1>4, <1>5, <1>6

LEMMA Constants ==
    /\ None \notin Cells /\ None \notin Area /\ IsFiniteSet(SiteWorkers)
    /\ \A c \in Cells : TargetCount(c) \in Nat
    /\ \A n \in Nat : FreshArea(n) \in Area
  BY QueueAssumption DEF TargetCount, FreshArea, Area

(***************************************************************************)
(* The inductive invariant, and what a step may leave of each part.        *)
(***************************************************************************)

\* The parts of QueueInv that the others follow from.
IInv ==
    /\ TypeOK /\ BusyHaveCells /\ OnePlacePerCell /\ StatesAreTrue
    /\ SitesAreCounted /\ ListIsSound /\ PassedComeFirst /\ CooldownsAreMarked

LEMMA PlacesKept ==
    ASSUME OnePlacePerCell, UNCHANGED <<caller, requests, admitter>>
    PROVE  OnePlacePerCell'
<1>1. \A c \in Cells : /\ Sending(c)' = Sending(c) /\ Requested(c)' = Requested(c)
                       /\ Preparing(c)' = Preparing(c) /\ Offering(c)' = Offering(c)
  BY DEF Sending, Requested, Preparing, Offering
<1> QED
  BY <1>1 DEF OnePlacePerCell

LEMMA BusyKept ==
    ASSUME BusyHaveCells, UNCHANGED <<caller, admitter, worker>>
    PROVE  BusyHaveCells'
  BY DEF BusyHaveCells

\* An area keeps the sites it has, and where its collector is.
SameSites(before, after) ==
    /\ after.targets = before.targets /\ after.sent = before.sent
    /\ after.results + after.read = before.results + before.read

LEMMA CountsKept ==
    ASSUME SitesAreCounted, UNCHANGED worker,
           \A c \in Cells : IF area[c] = None THEN area'[c] = None
                            ELSE /\ area'[c] # None /\ SameSites(area[c], area'[c])
                                 /\ area'[c].collector = "marking" => area'[c].read = area'[c].targets
    PROVE  SitesAreCounted'
  BY DEF SitesAreCounted, Reading, SameSites

LEMMA ListKept ==
    ASSUME TypeOK, ListIsSound, UNCHANGED <<areas, turn>>,
           \A c \in Cells : Offering(c)' \subseteq Offering(c),
           \A c \in Cells : area[c] # None =>
              area'[c] # None /\ area'[c].sent = area[c].sent /\ area'[c].targets = area[c].targets
    PROVE  ListIsSound'
<1>1. \A i \in 1 .. Len(areas) : areas[i] \in Cells
  BY DEF TypeOK
<1>2. \A i \in 1 .. Len(areas) :
         area'[areas[i]] # None /\ area'[areas[i]].sent < area'[areas[i]].targets
  BY <1>1 DEF ListIsSound
<1>3. \A c \in Cells : Offering(c)' # {} =>
         /\ area'[c] # None /\ area'[c].sent = 0
         /\ \A i \in 1 .. Len(areas) : areas[i] # c
  BY DEF ListIsSound
<1> QED
  BY <1>2, <1>3 DEF ListIsSound

LEMMA PassedKept ==
    ASSUME PassedComeFirst, UNCHANGED <<areas, turn, passed>>
    PROVE  PassedComeFirst'
  BY DEF PassedComeFirst, Sooner

LEMMA MarksKept ==
    ASSUME CooldownsAreMarked, UNCHANGED <<marked, cooling>>, spent'.faults = spent.faults,
           \A c \in Cells : BeingMarked(c) => BeingMarked(c)', TypeOK
    PROVE  CooldownsAreMarked'
  BY DEF CooldownsAreMarked, TypeOK

LEMMA StatesKept ==
    ASSUME StatesAreTrue, UNCHANGED <<state, cooling>>, stopping => stopping',
           \A c \in Cells :
              /\ Sending(c)' # {} \/ Requested(c)' # {} \/ Preparing(c)' # {} <=>
                    Sending(c) # {} \/ Requested(c) # {} \/ Preparing(c) # {}
              /\ area'[c] # None /\ area'[c].collector # "marking" <=>
                    area[c] # None /\ area[c].collector # "marking"
              /\ area'[c] # None /\ area'[c].collector = "gone" =>
                    (area[c] # None /\ area[c].collector = "gone") \/ stopping'
              /\ BeingMarked(c)' => BeingMarked(c)
    PROVE  StatesAreTrue'
  BY DEF StatesAreTrue

(***************************************************************************)
(* enqueue.                                                                *)
(***************************************************************************)

\* A step that counts something and changes nothing else.
LEMMA SpendKeeps ==
    ASSUME IInv, UNCHANGED <<state, progress, cooling, requests, caller, admitter, area, areas,
                             turn, worker, marked, passed>>,
           stopping' \in BOOLEAN, dispatching' \in BOOLEAN, stopping => stopping',
           spent'.faults = spent.faults,
           spent' \in [asks : 0 .. MaxAsks, faults : 0 .. MaxFaults,
                       restarts : 0 .. MaxRestarts, timeouts : 0 .. MaxTimeouts]
    PROVE  IInv'
<1> USE DEF IInv
<1>1. TypeOK'
  BY DEF TypeOK
<1>2. \A c \in Cells : /\ Sending(c)' = Sending(c) /\ Requested(c)' = Requested(c)
                       /\ Preparing(c)' = Preparing(c) /\ Offering(c)' = Offering(c)
                       /\ BeingMarked(c)' <=> BeingMarked(c)
  BY DEF Sending, Requested, Preparing, Offering, BeingMarked, Collecting
<1>3. BusyHaveCells' /\ OnePlacePerCell' /\ PassedComeFirst'
  BY BusyKept, PlacesKept, PassedKept
<1>4. StatesAreTrue'
  BY <1>2, StatesKept
<1>5. SitesAreCounted'
  BY DEF SitesAreCounted, Reading
<1>6. ListIsSound'
  BY <1>2, ListKept
<1>7. CooldownsAreMarked'
  BY <1>2, MarksKept
<1> QED
  BY <1>1, <1>3, <1>4, <1>5, <1>6, <1>7

\* A caller that takes the cell of another place, or leaves its own.
LEMMA AskKeeps ==
    ASSUME IInv, NEW k \in Callers, NEW c \in Cells, Ask(k, c)
    PROVE  IInv'
<1> USE DEF IInv
<1>1. spent' \in [asks : 0 .. MaxAsks, faults : 0 .. MaxFaults,
                  restarts : 0 .. MaxRestarts, timeouts : 0 .. MaxTimeouts]
      /\ spent'.faults = spent.faults
  <2>1. spent' = [spent EXCEPT !.asks = @ + 1] /\ spent.asks < MaxAsks
    BY DEF Ask
  <2>2. spent \in [asks : 0 .. MaxAsks, faults : 0 .. MaxFaults,
                   restarts : 0 .. MaxRestarts, timeouts : 0 .. MaxTimeouts]
    BY DEF TypeOK
  <2>3. spent.asks + 1 \in 0 .. MaxAsks
    BY <2>1, <2>2, QueueAssumption
  <2> QED
    BY <2>1, <2>2, <2>3
<1>2. CASE Answer(c) # "send"
  <2>1. UNCHANGED <<state, progress, cooling, requests, caller, admitter, area, areas,
                    turn, dispatching, worker, marked, passed, stopping>>
    BY <1>2 DEF Ask
  <2>2. stopping' \in BOOLEAN /\ dispatching' \in BOOLEAN
    BY <2>1 DEF TypeOK
  <2> QED
    BY <1>1, <2>1, <2>2, SpendKeeps
<1>3. CASE Answer(c) = "send"
  <2>1. /\ state' = [state EXCEPT ![c] = "queued"] /\ state[c] = "idle" /\ c \notin cooling
        /\ caller' = [caller EXCEPT ![k] = [pc |-> "sending", cell |-> c]]
        /\ caller[k].pc = "idle"
        /\ UNCHANGED <<progress, cooling, requests, admitter, area, areas, turn, dispatching,
                       worker, marked, stopping, passed>>
    BY <1>3 DEF Ask, Answer, TypeOK
  <2>2. Sending(c) = {} /\ Requested(c) = {} /\ Preparing(c) = {}
        /\ (area[c] = None \/ area[c].collector = "marking") /\ ~BeingMarked(c)
    BY <2>1 DEF StatesAreTrue
  <2>3. \A d \in Cells : Sending(d)' = IF d = c THEN {k} ELSE Sending(d)
    <3> TAKE d \in Cells
    <3>1. Sending(d)' = {l \in Callers : caller'[l].pc # "idle" /\ caller'[l].cell = d}
      BY DEF Sending
    <3>2. \A l \in Callers : caller'[l] = IF l = k THEN [pc |-> "sending", cell |-> c] ELSE caller[l]
      BY <2>1 DEF TypeOK
    <3> QED
      BY <2>1, <2>2, <3>1, <3>2 DEF Sending
  <2>4. \A d \in Cells : /\ Requested(d)' = Requested(d) /\ Preparing(d)' = Preparing(d)
                         /\ Offering(d)' = Offering(d)
                         /\ BeingMarked(d)' <=> BeingMarked(d)
    BY <2>1 DEF Requested, Preparing, Offering, BeingMarked, Collecting
  <2>5. TypeOK'
    BY <1>1, <2>1 DEF TypeOK
  <2>6. BusyHaveCells'
    BY <2>1 DEF BusyHaveCells, TypeOK
  <2>7. OnePlacePerCell'
    BY <2>2, <2>3, <2>4 DEF OnePlacePerCell
  <2>8. StatesAreTrue'
    <3>1. \A d \in Cells : state'[d] = IF d = c THEN "queued" ELSE state[d]
      BY <2>1 DEF TypeOK
    <3>2. \A d \in Cells : Sending(d)' # {} \/ Requested(d)' # {} \/ Preparing(d)' # {}
                          <=> d = c \/ Sending(d) # {} \/ Requested(d) # {} \/ Preparing(d) # {}
      BY <2>3, <2>4
    <3> QED
      BY <2>1, <2>2, <2>4, <3>1, <3>2 DEF StatesAreTrue
  <2>9. SitesAreCounted' /\ PassedComeFirst'
    BY <2>1, PassedKept DEF SitesAreCounted, Reading
  <2>10. ListIsSound'
    BY <2>1, <2>4, ListKept
  <2>11. CooldownsAreMarked'
    BY <1>1, <2>1, <2>4, MarksKept
  <2> QED
    BY <2>5, <2>6, <2>7, <2>8, <2>9, <2>10, <2>11
<1> QED
  BY <1>2, <1>3

\* A cell on its way to be read is queued, does not cool and has no area.
LEMMA QueuedCell ==
    ASSUME IInv, NEW c \in Cells, Sending(c) # {} \/ Requested(c) # {} \/ Preparing(c) # {}
    PROVE  /\ state[c] = "queued" /\ c \notin cooling /\ ~BeingMarked(c) /\ area[c] = None
           /\ Reading(c) = {} /\ Offering(c) = {} /\ \A i \in 1 .. Len(areas) : areas[i] # c
<1> USE DEF IInv
<1>1. state[c] = "queued" /\ c \notin cooling /\ ~BeingMarked(c)
  BY DEF StatesAreTrue
<1>2. area[c] = None
  BY <1>1 DEF StatesAreTrue, BeingMarked, Collecting
<1> QED
  BY <1>1, <1>2 DEF SitesAreCounted, ListIsSound

LEMMA SendKeeps ==
    ASSUME IInv, NEW k \in Callers, Send(k)
    PROVE  IInv'
<1> USE DEF IInv
<1>1. PICK c \in Cells : c = caller[k].cell /\ k \in Sending(c)
  BY DEF Send, BusyHaveCells, Sending
<1>2. /\ caller[k].pc = "sending"
      /\ UNCHANGED <<state, progress, cooling, admitter, area, areas, turn, dispatching,
                     worker, marked, stopping, passed, spent>>
  BY DEF Send
<1>3. Sending(c) = {k} /\ Requested(c) = {} /\ Preparing(c) = {} /\ state[c] = "queued"
  BY <1>1, QueuedCell DEF OnePlacePerCell
<1>4. \A d \in Cells : /\ Preparing(d)' = Preparing(d) /\ Offering(d)' = Offering(d)
                       /\ BeingMarked(d)' <=> BeingMarked(d)
  BY <1>2 DEF Preparing, Offering, BeingMarked, Collecting
<1>5. SitesAreCounted' /\ PassedComeFirst' /\ ListIsSound' /\ CooldownsAreMarked'
  <2>1. SitesAreCounted'
    BY <1>2 DEF SitesAreCounted, Reading
  <2>2. ListIsSound'
    BY <1>2, <1>4, ListKept
  <2> QED
    BY <1>2, <1>4, <2>1, <2>2, PassedKept, MarksKept
<1>6. CASE Len(requests) < QueueDepth
  <2>1. requests' = Append(requests, c) /\ caller' = [caller EXCEPT ![k] = Idle]
    BY <1>1, <1>6 DEF Send
  <2>2. TypeOK'
    BY <1>2, <2>1 DEF TypeOK, Idle
  <2>3. BusyHaveCells'
    BY <1>2, <2>1 DEF BusyHaveCells, TypeOK, Idle
  <2>4. \A d \in Cells : Sending(d)' = IF d = c THEN {} ELSE Sending(d)
    <3> TAKE d \in Cells
    <3>1. Sending(d)' = {l \in Callers : caller'[l].pc # "idle" /\ caller'[l].cell = d}
      BY DEF Sending
    <3>2. \A l \in Callers : caller'[l] = IF l = k THEN Idle ELSE caller[l]
      BY <2>1 DEF TypeOK
    <3> QED
      BY <1>1, <1>3, <3>1, <3>2 DEF Sending, Idle
  <2>5. \A d \in Cells : Requested(d)' = IF d = c THEN {Len(requests) + 1} ELSE Requested(d)
    <3> TAKE d \in Cells
    <3>1. Requested(d)' = {i \in 1 .. Len(requests') : requests'[i] = d}
      BY DEF Requested
    <3>2. /\ requests \in Seq(Cells) /\ Len(requests') = Len(requests) + 1
          /\ requests'[Len(requests) + 1] = c
          /\ \A i \in 1 .. Len(requests) : requests'[i] = requests[i]
      BY <2>1 DEF TypeOK
    <3> QED
      BY <1>3, <3>1, <3>2 DEF Requested
  <2>6. OnePlacePerCell'
    BY <1>3, <1>4, <2>4, <2>5 DEF OnePlacePerCell
  <2>7. StatesAreTrue'
    BY <1>2, <1>3, <1>4, <2>4, <2>5 DEF StatesAreTrue
  <2> QED
    BY <1>5, <2>2, <2>3, <2>6, <2>7
<1>7. CASE ~(Len(requests) < QueueDepth)
  <2>1. requests' = requests /\ caller' = [caller EXCEPT ![k].pc = "refused"]
    BY <1>7 DEF Send
  <2>2. \A l \in Callers : /\ caller'[l].cell = caller[l].cell
                           /\ caller'[l].pc # "idle" <=> caller[l].pc # "idle"
    BY <1>2, <2>1 DEF TypeOK
  <2>3. TypeOK'
    <3> DEFINE Caller == [pc : {"idle", "sending", "refused"}, cell : Cells \cup {None}]
    <3>1. caller \in [Callers -> Caller]
      BY DEF TypeOK
    <3>2. [caller[k] EXCEPT !.pc = "refused"] \in Caller
      BY <3>1
    <3>3. caller' \in [Callers -> Caller]
      BY <2>1, <3>1, <3>2
    <3> QED
      BY <1>2, <2>1, <3>3 DEF TypeOK
  <2>4. BusyHaveCells'
    BY <1>2, <2>2 DEF BusyHaveCells
  <2>5. \A d \in Cells : Sending(d)' = Sending(d) /\ Requested(d)' = Requested(d)
    BY <2>1, <2>2 DEF Sending, Requested
  <2>6. OnePlacePerCell'
    BY <1>4, <2>5 DEF OnePlacePerCell
  <2>7. StatesAreTrue'
    BY <1>2, <1>4, <2>5 DEF StatesAreTrue
  <2> QED
    BY <1>5, <2>3, <2>4, <2>6, <2>7
<1> QED
  BY <1>6, <1>7

LEMMA RefuseKeeps ==
    ASSUME IInv, NEW k \in Callers, Refuse(k)
    PROVE  IInv'
<1> USE DEF IInv
<1>1. PICK c \in Cells : c = caller[k].cell /\ k \in Sending(c)
  BY DEF Refuse, BusyHaveCells, Sending
<1>2. /\ state' = [state EXCEPT ![c] = "idle"] /\ caller' = [caller EXCEPT ![k] = Idle]
      /\ UNCHANGED <<progress, cooling, requests, admitter, area, areas, turn, dispatching,
                     worker, marked, stopping, passed, spent>>
  BY <1>1 DEF Refuse
<1>3. Sending(c) = {k} /\ Requested(c) = {} /\ Preparing(c) = {} /\ area[c] = None
  BY <1>1, QueuedCell DEF OnePlacePerCell
<1>4. \A d \in Cells : Sending(d)' = IF d = c THEN {} ELSE Sending(d)
  <2> TAKE d \in Cells
  <2>1. Sending(d)' = {l \in Callers : caller'[l].pc # "idle" /\ caller'[l].cell = d}
    BY DEF Sending
  <2>2. \A l \in Callers : caller'[l] = IF l = k THEN Idle ELSE caller[l]
    BY <1>2 DEF TypeOK
  <2> QED
    BY <1>1, <1>3, <2>1, <2>2 DEF Sending, Idle
<1>5. \A d \in Cells : /\ Preparing(d)' = Preparing(d) /\ Offering(d)' = Offering(d)
                       /\ Requested(d)' = Requested(d)
                       /\ BeingMarked(d)' <=> BeingMarked(d)
  BY <1>2 DEF Preparing, Offering, Requested, BeingMarked, Collecting
<1>6. TypeOK'
  BY <1>2 DEF TypeOK, Idle
<1>7. BusyHaveCells'
  BY <1>2 DEF BusyHaveCells, TypeOK, Idle
<1>8. OnePlacePerCell'
  BY <1>4, <1>5 DEF OnePlacePerCell
<1>9. StatesAreTrue'
  BY <1>2, <1>3, <1>4, <1>5 DEF StatesAreTrue, TypeOK
<1>10. SitesAreCounted'
  BY <1>2 DEF SitesAreCounted, Reading
<1>11. ListIsSound'
  BY <1>2, <1>5, ListKept
<1>12. PassedComeFirst' /\ CooldownsAreMarked'
  BY <1>2, <1>5, PassedKept, MarksKept
<1> QED
  BY <1>6, <1>7, <1>8, <1>9, <1>10, <1>11, <1>12

(***************************************************************************)
(* admit and prepare.                                                      *)
(***************************************************************************)

Marking(c) == {a \in Admitters : admitter[a] = [pc |-> "marking", cell |-> c]}

LEMMA MarkedBySomeone ==
    \A c \in Cells : /\ BeingMarked(c) <=> Collecting(c, "marking") \/ Marking(c) # {}
                     /\ BeingMarked(c)' <=> Collecting(c, "marking")' \/ Marking(c)' # {}
  BY DEF BeingMarked, Marking

\* Admitter a goes to a place with cell d.
Moves(a, place, d) == admitter' = [admitter EXCEPT ![a] = [pc |-> place, cell |-> d]]

LEMMA AdmitterMoves ==
    ASSUME TypeOK, NEW a \in Admitters, NEW place, NEW d, Moves(a, place, d), NEW c
    PROVE  /\ Preparing(c)' = IF place = "preparing" /\ c = d
                              THEN Preparing(c) \cup {a} ELSE Preparing(c) \ {a}
           /\ Offering(c)' = IF place = "offering" /\ c = d
                             THEN Offering(c) \cup {a} ELSE Offering(c) \ {a}
           /\ Marking(c)' = IF place = "marking" /\ c = d
                            THEN Marking(c) \cup {a} ELSE Marking(c) \ {a}
<1>1. \A b \in Admitters : admitter'[b] = IF b = a THEN [pc |-> place, cell |-> d] ELSE admitter[b]
  BY DEF TypeOK, Moves
<1>2. /\ Preparing(c)' = {b \in Admitters : admitter'[b] = [pc |-> "preparing", cell |-> c]}
      /\ Offering(c)' = {b \in Admitters : admitter'[b] = [pc |-> "offering", cell |-> c]}
      /\ Marking(c)' = {b \in Admitters : admitter'[b] = [pc |-> "marking", cell |-> c]}
  BY DEF Preparing, Offering, Marking
<1>3. Preparing(c)' = IF place = "preparing" /\ c = d
                      THEN Preparing(c) \cup {a} ELSE Preparing(c) \ {a}
  BY <1>1, <1>2 DEF Preparing
<1>4. Offering(c)' = IF place = "offering" /\ c = d
                     THEN Offering(c) \cup {a} ELSE Offering(c) \ {a}
  BY <1>1, <1>2 DEF Offering
<1>5. Marking(c)' = IF place = "marking" /\ c = d
                    THEN Marking(c) \cup {a} ELSE Marking(c) \ {a}
  BY <1>1, <1>2 DEF Marking
<1> QED
  BY <1>3, <1>4, <1>5

\* What the places are after a step of an admitter that was idle, that looked its
\* cell up, that offered it or that marked it.
LEMMA IdleMoves ==
    ASSUME TypeOK, NEW a \in Admitters, admitter[a].pc = "idle",
           NEW place, NEW e, Moves(a, place, e), NEW d
    PROVE  /\ Preparing(d)' = IF place = "preparing" /\ d = e THEN Preparing(d) \cup {a} ELSE Preparing(d)
           /\ Offering(d)' = IF place = "offering" /\ d = e THEN Offering(d) \cup {a} ELSE Offering(d)
           /\ Marking(d)' = IF place = "marking" /\ d = e THEN Marking(d) \cup {a} ELSE Marking(d)
<1>1. a \notin Preparing(d) /\ a \notin Offering(d) /\ a \notin Marking(d)
  BY DEF Preparing, Offering, Marking
<1> QED
  BY <1>1, AdmitterMoves

LEMMA PreparingMoves ==
    ASSUME TypeOK, NEW a \in Admitters, NEW c, a \in Preparing(c),
           NEW place, place \in {"idle", "offering", "marking"}, NEW e, Moves(a, place, e), NEW d
    PROVE  /\ Preparing(d)' = IF d = c THEN Preparing(d) \ {a} ELSE Preparing(d)
           /\ (place = "offering" /\ d = e) => Offering(d)' = Offering(d) \cup {a}
           /\ place # "offering" => Offering(d)' = Offering(d)
           /\ (place = "marking" /\ d = e) => Marking(d)' = Marking(d) \cup {a}
           /\ place # "marking" => Marking(d)' = Marking(d)
<1>1. (d # c => a \notin Preparing(d)) /\ a \notin Offering(d) /\ a \notin Marking(d)
  BY DEF Preparing, Offering, Marking
<1> QED
  BY <1>1, AdmitterMoves

LEMMA OtherCellsStay ==
    ASSUME TypeOK, NEW a \in Admitters, NEW c, a \in Preparing(c),
           NEW place, NEW e, Moves(a, place, e), NEW d, d # e
    PROVE  Offering(d)' = Offering(d) /\ Marking(d)' = Marking(d)
<1>1. a \notin Offering(d) /\ a \notin Marking(d)
  BY DEF Preparing, Offering, Marking
<1>2. Offering(d)' = Offering(d) \ {a} /\ Marking(d)' = Marking(d) \ {a}
  BY AdmitterMoves
<1> QED
  BY <1>1, <1>2

LEMMA OfferingMoves ==
    ASSUME TypeOK, NEW a \in Admitters, NEW c, a \in Offering(c),
           NEW place, place \in {"idle", "gone"}, NEW e, Moves(a, place, e), NEW d
    PROVE  /\ Preparing(d)' = Preparing(d) /\ Marking(d)' = Marking(d)
           /\ Offering(d)' = IF d = c THEN Offering(d) \ {a} ELSE Offering(d)
<1>1. (d # c => a \notin Offering(d)) /\ a \notin Preparing(d) /\ a \notin Marking(d)
  BY DEF Preparing, Offering, Marking
<1> QED
  BY <1>1, AdmitterMoves

LEMMA MarkingMoves ==
    ASSUME TypeOK, NEW a \in Admitters, NEW c, a \in Marking(c),
           NEW place, place \in {"idle", "gone"}, NEW e, Moves(a, place, e), NEW d
    PROVE  /\ Preparing(d)' = Preparing(d) /\ Offering(d)' = Offering(d)
           /\ Marking(d)' = IF d = c THEN Marking(d) \ {a} ELSE Marking(d)
<1>1. (d # c => a \notin Marking(d)) /\ a \notin Preparing(d) /\ a \notin Offering(d)
  BY DEF Preparing, Offering, Marking
<1> QED
  BY <1>1, AdmitterMoves

\* An admitter at work is in the place of its cell.
LEMMA AdmitterPlace ==
    ASSUME IInv, NEW a \in Admitters, admitter[a].pc \notin {"idle", "gone"}
    PROVE  \E c \in Cells :
              /\ c = admitter[a].cell
              /\ admitter[a].pc = "preparing" => a \in Preparing(c) /\ Preparing(c) = {a}
              /\ admitter[a].pc = "offering" => Offering(c) = {a}
              /\ admitter[a].pc = "marking" => a \in Marking(c)
<1> USE DEF IInv
<1>1. PICK c \in Cells : c = admitter[a].cell
  BY DEF BusyHaveCells
<1>2. admitter[a] = [pc |-> admitter[a].pc, cell |-> c]
  BY <1>1 DEF TypeOK
<1>3. /\ admitter[a].pc = "preparing" => a \in Preparing(c)
      /\ admitter[a].pc = "offering" => a \in Offering(c)
      /\ admitter[a].pc = "marking" => a \in Marking(c)
  BY <1>2 DEF Preparing, Offering, Marking
<1> QED
  BY <1>1, <1>3 DEF OnePlacePerCell

\* An admitter's place, typed, after a step.
LEMMA AdmitterTyped ==
    ASSUME TypeOK, BusyHaveCells, NEW a \in Admitters, NEW place, NEW d,
           UNCHANGED <<caller, worker>>, Moves(a, place, d),
           \/ place \in {"preparing", "offering", "marking"} /\ d \in Cells
           \/ place \in {"idle", "gone"} /\ d = None
    PROVE  /\ admitter' \in [Admitters -> [pc : {"idle", "preparing", "offering", "marking", "gone"},
                                           cell : Cells \cup {None}]]
           /\ BusyHaveCells'
<1> DEFINE next == [pc |-> place, cell |-> d]
<1>1. next \in [pc : {"idle", "preparing", "offering", "marking", "gone"}, cell : Cells \cup {None}]
      /\ (next.pc \notin {"idle", "gone"} => next.cell \in Cells)
  OBVIOUS
<1>2. \A b \in Admitters : admitter'[b] = IF b = a THEN next ELSE admitter[b]
  BY DEF TypeOK, Moves
<1>4. admitter' = [admitter EXCEPT ![a] = next]
  BY DEF Moves
<1> HIDE DEF next
<1>3. BusyHaveCells'
  BY <1>1, <1>2 DEF BusyHaveCells
<1> QED
  BY <1>1, <1>3, <1>4 DEF TypeOK

\* The channel after its first cell is taken.
LEMMA RequestedAfterTail ==
    ASSUME TypeOK, requests # <<>>, requests' = Tail(requests), OnePlacePerCell
    PROVE  /\ Head(requests) \in Cells /\ requests' \in Seq(Cells)
           /\ Requested(Head(requests)) # {}
           /\ \A c \in Cells :
                 /\ \A i, j \in Requested(c)' : i = j
                 /\ c = Head(requests) => Requested(c)' = {}
                 /\ Requested(c)' # {} => Requested(c) # {}
                 /\ c # Head(requests) /\ Requested(c) # {} => Requested(c)' # {}
<1>1. /\ requests \in Seq(Cells) /\ Len(requests) \in Nat /\ Len(requests) >= 1
      /\ Head(requests) = requests[1] /\ Head(requests) \in Cells
      /\ requests' \in Seq(Cells) /\ Len(requests') = Len(requests) - 1
      /\ \A i \in 1 .. Len(requests) - 1 : requests'[i] = requests[i + 1]
  BY DEF TypeOK
<1>2. 1 \in Requested(Head(requests))
  BY <1>1 DEF Requested
<1>3. ASSUME NEW c \in Cells
      PROVE  /\ \A i, j \in Requested(c)' : i = j
             /\ c = Head(requests) => Requested(c)' = {}
             /\ Requested(c)' # {} => Requested(c) # {}
             /\ c # Head(requests) /\ Requested(c) # {} => Requested(c)' # {}
  <2>1. Requested(c)' = {i \in 1 .. Len(requests') : requests'[i] = c}
    BY DEF Requested
  <2>2. \A i \in Requested(c)' : i \in Nat /\ i >= 1 /\ i + 1 \in Requested(c)
    BY <1>1, <2>1 DEF Requested
  <2>3. \A i, j \in Requested(c) : i = j
    BY DEF OnePlacePerCell
  <2>4. c = Head(requests) => 1 \in Requested(c)
    BY <1>2
  <2>5. ASSUME c # Head(requests), NEW i \in Requested(c)
        PROVE  i - 1 \in Requested(c)'
    <3>1. i \in 1 .. Len(requests) /\ requests[i] = c
      BY <2>5 DEF Requested
    <3>2. i # 1
      BY <1>1, <2>5, <3>1
    <3>3. i - 1 \in 1 .. Len(requests') /\ requests'[i - 1] = requests[i]
      BY <1>1, <3>1, <3>2
    <3> QED
      BY <2>1, <3>1, <3>3
  <2> HIDE DEF OnePlacePerCell
  <2> QED
    BY <2>2, <2>3, <2>4, <2>5
<1> QED
  BY <1>1, <1>2, <1>3

LEMMA AdmitKeeps ==
    ASSUME IInv, NEW a \in Admitters, Admit(a)
    PROVE  IInv'
<1> USE DEF IInv
<1>1. PICK c \in Cells :
         /\ c = Head(requests) /\ Requested(c) # {}
         /\ Moves(a, "preparing", c)
  BY RequestedAfterTail DEF Admit, Moves
<1>2. /\ admitter[a].pc = "idle" /\ requests # <<>> /\ requests' = Tail(requests)
      /\ UNCHANGED <<state, progress, cooling, caller, area, areas, turn, dispatching,
                     worker, marked, stopping, passed, spent>>
  BY DEF Admit
<1>4. Preparing(c) = {} /\ Sending(c) = {} /\ state[c] = "queued"
  BY <1>1, QueuedCell DEF OnePlacePerCell
<1>5. \A d \in Cells : /\ Preparing(d)' = IF d = c THEN {a} ELSE Preparing(d)
                       /\ Offering(d)' = Offering(d) /\ Marking(d)' = Marking(d)
  BY <1>1, <1>2, <1>4, IdleMoves
<1>6. \A d \in Cells : /\ Sending(d)' = Sending(d)
                       /\ BeingMarked(d)' <=> BeingMarked(d)
                       /\ \A i, j \in Requested(d)' : i = j
                       /\ d = c => Requested(d)' = {}
                       /\ Requested(d)' # {} => Requested(d) # {}
                       /\ d # c /\ Requested(d) # {} => Requested(d)' # {}
  BY <1>1, <1>2, <1>5, RequestedAfterTail, MarkedBySomeone DEF Sending, Collecting
<1>7. TypeOK' /\ BusyHaveCells'
  <2>1. requests' \in Seq(Cells)
    BY <1>2, RequestedAfterTail
  <2>2. /\ admitter' \in [Admitters -> [pc : {"idle", "preparing", "offering", "marking", "gone"},
                                        cell : Cells \cup {None}]]
        /\ BusyHaveCells'
    BY <1>1, <1>2, AdmitterTyped
  <2> QED
    BY <1>2, <2>1, <2>2 DEF TypeOK
<1>8. OnePlacePerCell'
  BY <1>4, <1>5, <1>6 DEF OnePlacePerCell
<1>9. StatesAreTrue'
  <2>1. \A d \in Cells : Sending(d)' # {} \/ Requested(d)' # {} \/ Preparing(d)' # {}
                        <=> Sending(d) # {} \/ Requested(d) # {} \/ Preparing(d) # {}
    BY <1>1, <1>4, <1>5, <1>6
  <2> QED
    BY <1>2, <1>6, <2>1, StatesKept
<1>10. SitesAreCounted'
  BY <1>2 DEF SitesAreCounted, Reading
<1>11. ListIsSound'
  BY <1>2, <1>5, ListKept
<1>12. PassedComeFirst' /\ CooldownsAreMarked'
  BY <1>2, <1>6, PassedKept, MarksKept
<1> QED
  BY <1>7, <1>8, <1>9, <1>10, <1>11, <1>12

\* A statement that fails is counted, and no promise about the table is left.
LEMMA FaultTyped ==
    ASSUME TypeOK, MayFault, Faulted
    PROVE  /\ spent' \in [asks : 0 .. MaxAsks, faults : 0 .. MaxFaults,
                          restarts : 0 .. MaxRestarts, timeouts : 0 .. MaxTimeouts]
           /\ CooldownsAreMarked'
<1>1. spent \in [asks : 0 .. MaxAsks, faults : 0 .. MaxFaults,
                 restarts : 0 .. MaxRestarts, timeouts : 0 .. MaxTimeouts]
  BY DEF TypeOK
<1>2. spent.faults + 1 \in 0 .. MaxFaults /\ spent.faults + 1 # 0
  BY <1>1, QueueAssumption DEF MayFault
<1>3. spent' = [spent EXCEPT !.faults = @ + 1]
  BY DEF Faulted
<1> QED
  BY <1>1, <1>2, <1>3 DEF CooldownsAreMarked

LEMMA LookupFailsKeeps ==
    ASSUME IInv, NEW a \in Admitters, LookupFails(a)
    PROVE  IInv'
<1> USE DEF IInv
<1>1. PICK c \in Cells : c = admitter[a].cell /\ a \in Preparing(c)
  BY AdmitterPlace DEF LookupFails
<1>0. Preparing(c) = {a}
  BY <1>1 DEF OnePlacePerCell
<1>2. /\ state' = [state EXCEPT ![c] = "idle"] /\ progress' = [progress EXCEPT ![c] = None]
      /\ Moves(a, "idle", None)
      /\ MayFault /\ Faulted
      /\ UNCHANGED <<cooling, requests, caller, area, areas, turn, dispatching, worker,
                     marked, stopping, passed>>
  BY <1>1 DEF LookupFails, Release, Idle, Moves
<1>3. Sending(c) = {} /\ Requested(c) = {} /\ area[c] = None
  BY <1>1, QueuedCell DEF OnePlacePerCell
<1>4. \A d \in Cells : /\ Preparing(d)' = IF d = c THEN {} ELSE Preparing(d)
                       /\ Offering(d)' = Offering(d) /\ Marking(d)' = Marking(d)
  <2>0. TypeOK /\ a \in Preparing(c) /\ Moves(a, "idle", None)
    BY <1>1, <1>2
  <2>1. \A d \in Cells : /\ Preparing(d)' = IF d = c THEN Preparing(d) \ {a} ELSE Preparing(d)
                         /\ Offering(d)' = Offering(d)
                         /\ Marking(d)' = Marking(d)
    <3>1. "idle" \in {"idle", "offering", "marking"} /\ "idle" # "offering" /\ "idle" # "marking"
      OBVIOUS
    <3> QED
      BY <2>0, <3>1, PreparingMoves
  <2> QED
    BY <1>0, <2>1
<1>5. \A d \in Cells : /\ Sending(d)' = Sending(d) /\ Requested(d)' = Requested(d)
                       /\ BeingMarked(d)' <=> BeingMarked(d)
  BY <1>2, <1>4, MarkedBySomeone DEF Sending, Requested, Collecting
<1>6. TypeOK' /\ BusyHaveCells'
  <2>1. /\ admitter' \in [Admitters -> [pc : {"idle", "preparing", "offering", "marking", "gone"},
                                        cell : Cells \cup {None}]]
        /\ BusyHaveCells'
    BY <1>2, AdmitterTyped
  <2>2. spent' \in [asks : 0 .. MaxAsks, faults : 0 .. MaxFaults,
                    restarts : 0 .. MaxRestarts, timeouts : 0 .. MaxTimeouts]
    BY <1>2, FaultTyped
  <2> QED
    BY <1>2, <2>1, <2>2 DEF TypeOK
<1>7. OnePlacePerCell'
  BY <1>4, <1>5 DEF OnePlacePerCell
<1>8. StatesAreTrue'
  <2>1. \A d \in Cells : state'[d] = IF d = c THEN "idle" ELSE state[d]
    BY <1>2 DEF TypeOK
  <2> QED
    BY <1>2, <1>3, <1>4, <1>5, <2>1 DEF StatesAreTrue
<1>9. SitesAreCounted'
  BY <1>2 DEF SitesAreCounted, Reading
<1>10. ListIsSound'
  BY <1>2, <1>4, ListKept
<1>11. PassedComeFirst' /\ CooldownsAreMarked'
  BY <1>2, PassedKept, FaultTyped
<1> QED
  BY <1>6, <1>7, <1>8, <1>9, <1>10, <1>11

\* A cell that is given its cooldown is one that is about to be marked.
LEMMA CooldownStarts ==
    ASSUME CooldownsAreMarked, NEW c \in Cells, cooling' = cooling \cup {c}, BeingMarked(c)',
           UNCHANGED <<marked, spent>>, TypeOK,
           \A d \in Cells : BeingMarked(d) => BeingMarked(d)'
    PROVE  CooldownsAreMarked'
  BY DEF CooldownsAreMarked, TypeOK

LEMMA LookupEmptyKeeps ==
    ASSUME IInv, NEW a \in Admitters, LookupEmpty(a)
    PROVE  IInv'
<1> USE DEF IInv
<1>1. PICK c \in Cells : c = admitter[a].cell /\ a \in Preparing(c)
  BY AdmitterPlace DEF LookupEmpty
<1>0. Preparing(c) = {a}
  BY <1>1 DEF OnePlacePerCell
<1>2. /\ state' = [state EXCEPT ![c] = "idle"] /\ progress' = [progress EXCEPT ![c] = None]
      /\ cooling' = cooling \cup {c}
      /\ Moves(a, "marking", c)
      /\ UNCHANGED <<requests, caller, area, areas, turn, dispatching, worker,
                     marked, stopping, passed, spent>>
  <2>1. [admitter[a] EXCEPT !.pc = "marking"] = [pc |-> "marking", cell |-> c]
    BY <1>1 DEF TypeOK
  <2> QED
    BY <1>1, <2>1 DEF LookupEmpty, Release, Moves
<1>3. Sending(c) = {} /\ Requested(c) = {} /\ area[c] = None
  BY <1>1, QueuedCell DEF OnePlacePerCell
<1>4. \A d \in Cells : /\ Preparing(d)' = IF d = c THEN {} ELSE Preparing(d)
                       /\ Offering(d)' = Offering(d)
                       /\ Marking(d)' = IF d = c THEN Marking(d) \cup {a} ELSE Marking(d)
  <2>1. TypeOK /\ a \in Preparing(c) /\ Moves(a, "marking", c)
    BY <1>1, <1>2
  <2>2. Marking(c)' = Marking(c) \cup {a}
    BY <2>1, PreparingMoves
  <2>3. \A d \in Cells : d # c => Marking(d)' = Marking(d)
    BY <2>1, OtherCellsStay
  <2>4. \A d \in Cells : Offering(d)' = Offering(d)
    BY <2>1, PreparingMoves
  <2>5. \A d \in Cells : Preparing(d)' = IF d = c THEN Preparing(d) \ {a} ELSE Preparing(d)
    BY <2>1, PreparingMoves
  <2> QED
    BY <1>0, <2>2, <2>3, <2>4, <2>5
<1>5. \A d \in Cells : /\ Sending(d)' = Sending(d) /\ Requested(d)' = Requested(d)
                       /\ BeingMarked(d)' <=> (d = c \/ BeingMarked(d))
  <2>1. \A d \in Cells : Collecting(d, "marking")' <=> Collecting(d, "marking")
    BY <1>2 DEF Collecting
  <2> QED
    BY <1>2, <1>4, <2>1, MarkedBySomeone DEF Sending, Requested
<1>6. TypeOK' /\ BusyHaveCells'
  <2>1. /\ admitter' \in [Admitters -> [pc : {"idle", "preparing", "offering", "marking", "gone"},
                                        cell : Cells \cup {None}]]
        /\ BusyHaveCells'
    BY <1>2, AdmitterTyped
  <2> QED
    BY <1>2, <2>1 DEF TypeOK
<1>7. OnePlacePerCell'
  BY <1>4, <1>5 DEF OnePlacePerCell
<1>8. StatesAreTrue'
  <2>1. \A d \in Cells : state'[d] = IF d = c THEN "idle" ELSE state[d]
    BY <1>2 DEF TypeOK
  <2> QED
    BY <1>2, <1>3, <1>4, <1>5, <2>1 DEF StatesAreTrue
<1>9. SitesAreCounted'
  BY <1>2 DEF SitesAreCounted, Reading
<1>10. ListIsSound'
  BY <1>2, <1>4, ListKept
<1>11. PassedComeFirst' /\ CooldownsAreMarked'
  BY <1>2, <1>5, PassedKept, CooldownStarts
<1> QED
  BY <1>6, <1>7, <1>8, <1>9, <1>10, <1>11

\* The row is written, or a statement has failed.
LEMMA MarkKeeps ==
    ASSUME IInv, NEW c \in Cells, Mark(c), cooling' = cooling, BeingMarked(c),
           \A d \in Cells : d # c /\ BeingMarked(d) => BeingMarked(d)'
    PROVE  /\ CooldownsAreMarked' /\ marked' \subseteq Cells
           /\ spent' \in [asks : 0 .. MaxAsks, faults : 0 .. MaxFaults,
                          restarts : 0 .. MaxRestarts, timeouts : 0 .. MaxTimeouts]
<1> USE DEF IInv
<1>1. CASE marked' = marked \cup {c} /\ UNCHANGED spent
  BY <1>1 DEF CooldownsAreMarked, TypeOK, StatesAreTrue
<1>2. CASE MayFault /\ Faulted /\ UNCHANGED marked
  BY <1>2, FaultTyped DEF TypeOK
<1> QED
  BY <1>1, <1>2 DEF Mark

LEMMA MarkEmptyKeeps ==
    ASSUME IInv, NEW a \in Admitters, MarkEmpty(a)
    PROVE  IInv'
<1> USE DEF IInv
<1>1. PICK c \in Cells : c = admitter[a].cell /\ a \in Marking(c)
  BY AdmitterPlace DEF MarkEmpty
<1>2. /\ Moves(a, "idle", None)
      /\ Mark(c)
      /\ UNCHANGED <<state, progress, cooling, requests, caller, area, areas, turn,
                     dispatching, worker, stopping, passed>>
  BY <1>1 DEF MarkEmpty, Idle, Moves
<1>4. \A d \in Cells : /\ Preparing(d)' = Preparing(d) /\ Offering(d)' = Offering(d)
                       /\ Marking(d)' = IF d = c THEN Marking(d) \ {a} ELSE Marking(d)
  BY <1>1, <1>2, MarkingMoves
<1>5. \A d \in Cells : /\ Sending(d)' = Sending(d) /\ Requested(d)' = Requested(d)
                       /\ BeingMarked(d)' => BeingMarked(d)
                       /\ d # c /\ BeingMarked(d) => BeingMarked(d)'
  <2>1. \A d \in Cells : Collecting(d, "marking")' <=> Collecting(d, "marking")
    BY <1>2 DEF Collecting
  <2> QED
    BY <1>2, <1>4, <2>1, MarkedBySomeone DEF Sending, Requested
<1>6. CooldownsAreMarked' /\ marked' \subseteq Cells
      /\ spent' \in [asks : 0 .. MaxAsks, faults : 0 .. MaxFaults,
                     restarts : 0 .. MaxRestarts, timeouts : 0 .. MaxTimeouts]
  BY <1>1, <1>2, <1>5, MarkKeeps, MarkedBySomeone
<1>7. TypeOK' /\ BusyHaveCells'
  <2>1. /\ admitter' \in [Admitters -> [pc : {"idle", "preparing", "offering", "marking", "gone"},
                                        cell : Cells \cup {None}]]
        /\ BusyHaveCells'
    BY <1>2, AdmitterTyped
  <2> QED
    BY <1>2, <1>6, <2>1 DEF TypeOK
<1>8. OnePlacePerCell'
  BY <1>4, <1>5 DEF OnePlacePerCell
<1>9. StatesAreTrue'
  BY <1>2, <1>4, <1>5, StatesKept
<1>10. SitesAreCounted'
  BY <1>2 DEF SitesAreCounted, Reading
<1>11. ListIsSound'
  BY <1>2, <1>4, ListKept
<1>12. PassedComeFirst'
  BY <1>2, PassedKept
<1> QED
  BY <1>6, <1>7, <1>8, <1>9, <1>10, <1>11, <1>12

LEMMA PrepareKeeps ==
    ASSUME IInv, NEW a \in Admitters, Prepare(a)
    PROVE  IInv'
<1> USE DEF IInv
<1>1. PICK c \in Cells : c = admitter[a].cell /\ a \in Preparing(c)
  BY AdmitterPlace DEF Prepare
<1>0. Preparing(c) = {a}
  BY <1>1 DEF OnePlacePerCell
<1> DEFINE fresh == FreshArea(TargetCount(c))
<1>2. /\ state' = [state EXCEPT ![c] = "running"] /\ progress' = [progress EXCEPT ![c] = 0]
      /\ area' = [area EXCEPT ![c] = fresh]
      /\ Moves(a, "offering", c)
      /\ UNCHANGED <<cooling, requests, caller, areas, turn, dispatching, worker, marked,
                     stopping, passed, spent>>
  <2>1. [admitter[a] EXCEPT !.pc = "offering"] = [pc |-> "offering", cell |-> c]
    BY <1>1 DEF TypeOK
  <2> QED
    BY <1>1, <2>1 DEF Prepare, Moves
<1>3. /\ fresh \in Area /\ fresh # None /\ fresh.collector = "counting"
      /\ fresh.sent = 0 /\ fresh.results = 0 /\ fresh.read = 0 /\ fresh.targets > 0
  <2>1. fresh \in Area /\ fresh # None
    BY Constants
  <2>2. TargetCount(c) > 0
    BY <1>1 DEF Prepare
  <2> QED
    BY <2>1, <2>2 DEF FreshArea
<1> HIDE DEF fresh
<1>4. \A d \in Cells : area'[d] = IF d = c THEN fresh ELSE area[d]
  BY <1>2 DEF TypeOK
<1>5. /\ Sending(c) = {} /\ Requested(c) = {} /\ area[c] = None /\ Offering(c) = {}
      /\ Reading(c) = {} /\ c \notin cooling /\ \A i \in 1 .. Len(areas) : areas[i] # c
  BY <1>1, QueuedCell DEF OnePlacePerCell
<1>6. \A d \in Cells : /\ Preparing(d)' = IF d = c THEN {} ELSE Preparing(d)
                       /\ Offering(d)' = IF d = c THEN {a} ELSE Offering(d)
                       /\ Marking(d)' = Marking(d)
  <2>1. TypeOK /\ a \in Preparing(c) /\ Moves(a, "offering", c)
    BY <1>1, <1>2
  <2>2. Offering(c)' = Offering(c) \cup {a}
    BY <2>1, PreparingMoves
  <2>3. \A d \in Cells : d # c => Offering(d)' = Offering(d)
    BY <2>1, OtherCellsStay
  <2>4. \A d \in Cells : Marking(d)' = Marking(d)
    BY <2>1, PreparingMoves
  <2>5. \A d \in Cells : Preparing(d)' = IF d = c THEN Preparing(d) \ {a} ELSE Preparing(d)
    BY <2>1, PreparingMoves
  <2> QED
    BY <1>0, <1>5, <2>2, <2>3, <2>4, <2>5
<1>7. \A d \in Cells : /\ Sending(d)' = Sending(d) /\ Requested(d)' = Requested(d)
                       /\ Reading(d)' = Reading(d)
                       /\ BeingMarked(d)' <=> BeingMarked(d)
  <2>1. \A d \in Cells : Collecting(d, "marking")' <=> Collecting(d, "marking")
    BY <1>3, <1>4, <1>5 DEF Collecting
  <2> QED
    BY <1>2, <1>6, <2>1, MarkedBySomeone DEF Sending, Requested, Reading
<1>8. TypeOK' /\ BusyHaveCells'
  <2>1. /\ admitter' \in [Admitters -> [pc : {"idle", "preparing", "offering", "marking", "gone"},
                                        cell : Cells \cup {None}]]
        /\ BusyHaveCells'
    BY <1>2, AdmitterTyped
  <2> QED
    BY <1>2, <1>3, <2>1 DEF TypeOK
<1>9. OnePlacePerCell'
  BY <1>6, <1>7 DEF OnePlacePerCell
<1>10. StatesAreTrue'
  BY <1>2, <1>3, <1>4, <1>5, <1>6, <1>7 DEF StatesAreTrue, TypeOK
<1>11. SitesAreCounted'
  <2>1. Cardinality(Reading(c)') = 0
    BY <1>5, <1>7, FS_EmptySet
  <2>2. \A d \in Cells \ {c} : area'[d] = area[d] /\ Reading(d)' = Reading(d)
    BY <1>4, <1>7
  <2>3. ASSUME NEW d \in Cells
        PROVE  /\ area'[d] = None => Reading(d)' = {}
               /\ area'[d] # None =>
                     /\ area'[d].results + area'[d].read + Cardinality(Reading(d)') = area'[d].sent
                     /\ area'[d].sent <= area'[d].targets /\ area'[d].targets > 0
                     /\ area'[d].collector = "marking" => area'[d].read = area'[d].targets
    <3>1. CASE d = c
      <4>1. area'[d] = fresh /\ fresh.targets \in Nat
        BY <3>1, <1>3, <1>4 DEF Area
      <4> QED
        BY <3>1, <4>1, <1>3, <2>1
    <3>2. CASE d # c
      BY <3>2, <2>2 DEF SitesAreCounted
    <3> QED
      BY <3>1, <3>2
  <2> QED
    BY <2>3 DEF SitesAreCounted
<1>12. ListIsSound'
  <2>1. \A i \in 1 .. Len(areas) : areas[i] \in Cells /\ area'[areas[i]] = area[areas[i]]
    BY <1>4, <1>5 DEF TypeOK
  <2>2. \A d \in Cells : Offering(d)' # {} =>
           /\ area'[d] # None /\ area'[d].sent = 0
           /\ \A i \in 1 .. Len(areas) : areas[i] # d
    BY <1>3, <1>4, <1>5, <1>6 DEF ListIsSound
  <2> QED
    BY <1>2, <2>1, <2>2 DEF ListIsSound
<1>13. PassedComeFirst' /\ CooldownsAreMarked'
  BY <1>2, <1>7, PassedKept, MarksKept
<1> QED
  BY <1>8, <1>9, <1>10, <1>11, <1>12, <1>13

\* An area on offer, and the admitter that offers it.
LEMMA OfferLeft ==
    ASSUME IInv, NEW a \in Admitters, NEW c \in Cells, Offering(c) = {a},
           Moves(a, "idle", None)
    PROVE  \A d \in Cells : /\ Preparing(d)' = Preparing(d) /\ Marking(d)' = Marking(d)
                            /\ Offering(d)' = IF d = c THEN {} ELSE Offering(d)
<1>1. a \in Offering(c)
  OBVIOUS
<1> QED
  BY <1>1, OfferingMoves DEF IInv

LEMMA JoinKeeps ==
    ASSUME IInv, NEW a \in Admitters, Join(a)
    PROVE  IInv'
<1> USE DEF IInv
<1>1. PICK c \in Cells : c = admitter[a].cell /\ Offering(c) = {a}
  BY AdmitterPlace DEF Join
<1>2. /\ areas' = Append(areas, c)
      /\ passed' = [d \in Cells |-> IF d = c THEN {} ELSE passed[d] \ {c}]
      /\ Moves(a, "idle", None)
      /\ UNCHANGED <<state, progress, cooling, requests, caller, area, turn, dispatching,
                     worker, marked, stopping, spent>>
  BY <1>1 DEF Join, Idle, Moves
<1>3. /\ area[c] # None /\ area[c].sent = 0 /\ area[c].targets > 0
      /\ \A i \in 1 .. Len(areas) : areas[i] # c
  BY <1>1 DEF ListIsSound, SitesAreCounted
<1>4. \A d \in Cells : /\ Preparing(d)' = Preparing(d) /\ Marking(d)' = Marking(d)
                       /\ Offering(d)' = IF d = c THEN {} ELSE Offering(d)
  BY <1>1, <1>2, OfferLeft
<1>5. \A d \in Cells : /\ Sending(d)' = Sending(d) /\ Requested(d)' = Requested(d)
                       /\ BeingMarked(d)' <=> BeingMarked(d)
  BY <1>2, <1>4, MarkedBySomeone DEF Sending, Requested, Collecting
<1>6. /\ areas \in Seq(Cells) /\ Len(areas) \in Nat /\ areas' \in Seq(Cells)
      /\ Len(areas') = Len(areas) + 1 /\ areas'[Len(areas) + 1] = c
      /\ \A i \in 1 .. Len(areas) : areas'[i] = areas[i] /\ areas[i] \in Cells
  BY <1>2 DEF TypeOK
<1>7. TypeOK' /\ BusyHaveCells'
  <2>1. /\ admitter' \in [Admitters -> [pc : {"idle", "preparing", "offering", "marking", "gone"},
                                        cell : Cells \cup {None}]]
        /\ BusyHaveCells'
    BY <1>2, AdmitterTyped
  <2>2. passed' \in [Cells -> SUBSET Cells]
    BY <1>2 DEF TypeOK
  <2> QED
    BY <1>2, <1>6, <2>1, <2>2 DEF TypeOK
<1>8. OnePlacePerCell'
  BY <1>4, <1>5 DEF OnePlacePerCell
<1>9. StatesAreTrue'
  BY <1>2, <1>4, <1>5, StatesKept
<1>10. SitesAreCounted'
  BY <1>2 DEF SitesAreCounted, Reading
<1>11. ListIsSound'
  <2>1. turn' <= Len(areas')
    BY <1>2, <1>6 DEF ListIsSound, TypeOK
  <2>2. \A i, j \in 1 .. Len(areas') : i # j => areas'[i] # areas'[j]
    BY <1>3, <1>6 DEF ListIsSound
  <2>3. \A i \in 1 .. Len(areas') :
           area'[areas'[i]] # None /\ area'[areas'[i]].sent < area'[areas'[i]].targets
    <3> TAKE i \in 1 .. Len(areas')
    <3>1. CASE i \in 1 .. Len(areas)
      BY <1>2, <1>6, <3>1 DEF ListIsSound
    <3>2. CASE i = Len(areas) + 1
      BY <1>2, <1>3, <1>6, <3>2
    <3> QED
      BY <1>6, <3>1, <3>2
  <2>4. \A d \in Cells : Offering(d)' # {} =>
           /\ area'[d] # None /\ area'[d].sent = 0
           /\ \A i \in 1 .. Len(areas') : areas'[i] # d
    BY <1>2, <1>4, <1>6 DEF ListIsSound
  <2> QED
    BY <2>1, <2>2, <2>3, <2>4 DEF ListIsSound
<1>12. PassedComeFirst'
  <2>1. ASSUME NEW i \in 1 .. Len(areas'), NEW j \in 1 .. Len(areas'),
               areas'[j] \in passed'[areas'[i]]
        PROVE  Sooner(i, j)'
    <3>1. areas'[i] # c /\ areas'[j] # c /\ areas'[j] \in passed[areas'[i]]
      BY <1>2, <1>6, <2>1
    <3>2. i \in 1 .. Len(areas) /\ j \in 1 .. Len(areas)
      BY <1>6, <3>1
    <3>3. Sooner(i, j)
      BY <1>6, <3>1, <3>2 DEF PassedComeFirst
    <3> QED
      BY <1>2, <3>3 DEF Sooner
  <2> QED
    BY <2>1 DEF PassedComeFirst
<1>13. CooldownsAreMarked'
  BY <1>2, <1>5, MarksKept
<1> QED
  BY <1>7, <1>8, <1>9, <1>10, <1>11, <1>12, <1>13

\* An area that only changes what its context and its collector say.
LEMMA OfferStoppedKeeps ==
    ASSUME IInv, NEW a \in Admitters, OfferStopped(a)
    PROVE  IInv'
<1> USE DEF IInv
<1>1. PICK c \in Cells : c = admitter[a].cell /\ Offering(c) = {a}
  BY AdmitterPlace DEF OfferStopped
<1>2. area[c] # None /\ area[c] \in Area
  BY <1>1 DEF ListIsSound, TypeOK
<1> DEFINE left == [area[c] EXCEPT !.expired = TRUE]
<1>3. /\ area' = [area EXCEPT ![c] = left]
      /\ Moves(a, "idle", None)
      /\ UNCHANGED <<state, progress, cooling, requests, caller, areas, turn, dispatching,
                     worker, marked, stopping, passed, spent>>
  BY <1>1, <1>2 DEF OfferStopped, Idle, Moves
<1>4. /\ left \in Area /\ left # None /\ SameSites(area[c], left)
      /\ left.read = area[c].read /\ left.collector = area[c].collector
  BY <1>2, Constants DEF Area, SameSites
<1> HIDE DEF left
<1>5. \A d \in Cells : area'[d] = IF d = c THEN left ELSE area[d]
  BY <1>3 DEF TypeOK
<1>6. \A d \in Cells : /\ Preparing(d)' = Preparing(d) /\ Marking(d)' = Marking(d)
                       /\ Offering(d)' = IF d = c THEN {} ELSE Offering(d)
  BY <1>1, <1>3, OfferLeft
<1>7. \A d \in Cells : /\ Sending(d)' = Sending(d) /\ Requested(d)' = Requested(d)
                       /\ BeingMarked(d)' <=> BeingMarked(d)
  <2>1. \A d \in Cells : Collecting(d, "marking")' <=> Collecting(d, "marking")
    BY <1>2, <1>4, <1>5 DEF Collecting
  <2> QED
    BY <1>3, <1>6, <2>1, MarkedBySomeone DEF Sending, Requested
<1>8. TypeOK' /\ BusyHaveCells'
  <2>1. /\ admitter' \in [Admitters -> [pc : {"idle", "preparing", "offering", "marking", "gone"},
                                        cell : Cells \cup {None}]]
        /\ BusyHaveCells'
    BY <1>3, AdmitterTyped
  <2> QED
    BY <1>3, <1>4, <2>1 DEF TypeOK
<1>9. OnePlacePerCell'
  BY <1>6, <1>7 DEF OnePlacePerCell
<1>10. StatesAreTrue'
  BY <1>2, <1>3, <1>4, <1>5, <1>6, <1>7, StatesKept
<1>11. SitesAreCounted'
  <2>1. \A d \in Cells : IF area[d] = None THEN area'[d] = None
                         ELSE /\ area'[d] # None /\ SameSites(area[d], area'[d])
                              /\ area'[d].collector = "marking" => area'[d].read = area'[d].targets
    BY <1>2, <1>4, <1>5 DEF SitesAreCounted, SameSites
  <2> QED
    BY <1>3, <2>1, CountsKept
<1>12. ListIsSound'
  <2>1. \A d \in Cells : area[d] # None =>
           area'[d] # None /\ area'[d].sent = area[d].sent /\ area'[d].targets = area[d].targets
    BY <1>4, <1>5 DEF SameSites
  <2> QED
    BY <1>3, <1>6, <2>1, ListKept
<1>13. PassedComeFirst' /\ CooldownsAreMarked'
  BY <1>3, <1>7, PassedKept, MarksKept
<1> QED
  BY <1>8, <1>9, <1>10, <1>11, <1>12, <1>13

LEMMA AdmitterQuitsKeeps ==
    ASSUME IInv, NEW a \in Admitters, AdmitterQuits(a)
    PROVE  IInv'
<1> USE DEF IInv
<1>1. /\ admitter[a].pc = "idle"
      /\ Moves(a, "gone", None)
      /\ UNCHANGED <<state, progress, cooling, requests, caller, area, areas, turn,
                     dispatching, worker, marked, stopping, passed, spent>>
  BY DEF AdmitterQuits, Gone, Moves
<1>2. \A d \in Cells : /\ Preparing(d)' = Preparing(d) /\ Marking(d)' = Marking(d)
                       /\ Offering(d)' = Offering(d)
  BY <1>1, IdleMoves
<1>3. \A d \in Cells : /\ Sending(d)' = Sending(d) /\ Requested(d)' = Requested(d)
                       /\ BeingMarked(d)' <=> BeingMarked(d)
  BY <1>1, <1>2, MarkedBySomeone DEF Sending, Requested, Collecting
<1>4. TypeOK' /\ BusyHaveCells'
  <2>1. /\ admitter' \in [Admitters -> [pc : {"idle", "preparing", "offering", "marking", "gone"},
                                        cell : Cells \cup {None}]]
        /\ BusyHaveCells'
    BY <1>1, AdmitterTyped
  <2> QED
    BY <1>1, <2>1 DEF TypeOK
<1>5. OnePlacePerCell'
  BY <1>2, <1>3 DEF OnePlacePerCell
<1>6. StatesAreTrue'
  BY <1>1, <1>2, <1>3, StatesKept
<1>7. SitesAreCounted'
  BY <1>1 DEF SitesAreCounted, Reading
<1>8. ListIsSound'
  BY <1>1, <1>2, ListKept
<1>9. PassedComeFirst' /\ CooldownsAreMarked'
  BY <1>1, <1>3, PassedKept, MarksKept
<1> QED
  BY <1>4, <1>5, <1>6, <1>7, <1>8, <1>9

(***************************************************************************)
(* dispatch and work.                                                      *)
(***************************************************************************)

\* Places nobody enters or leaves.
LEMMA NobodyMoves ==
    ASSUME UNCHANGED <<caller, requests, admitter>>, NEW c \in Cells
    PROVE  /\ Sending(c)' = Sending(c) /\ Requested(c)' = Requested(c)
           /\ Preparing(c)' = Preparing(c) /\ Offering(c)' = Offering(c)
           /\ Marking(c)' = Marking(c)
  BY DEF Sending, Requested, Preparing, Offering, Marking

\* An area that changes but stays, with a collector that does not start to mark.
LEMMA AreaMoves ==
    ASSUME IInv, NEW c \in Cells, NEW after, area' = [area EXCEPT ![c] = after],
           UNCHANGED <<caller, requests, admitter, state, cooling, marked, stopping>>,
           spent'.faults = spent.faults,
           area[c] # None, after \in Area,
           after.collector = area[c].collector
              \/ (area[c].collector # "marking" /\ after.collector # "marking"
                     /\ (after.collector = "gone" => stopping))
    PROVE  /\ OnePlacePerCell' /\ StatesAreTrue' /\ CooldownsAreMarked'
           /\ area' \in [Cells -> Area \cup {None}] /\ after # None
           /\ \A d \in Cells : area'[d] = IF d = c THEN after ELSE area[d]
<1> USE DEF IInv
<1>1. area' \in [Cells -> Area \cup {None}] /\ after # None
  BY Constants DEF TypeOK
<1>2. \A d \in Cells : area'[d] = IF d = c THEN after ELSE area[d]
  BY DEF TypeOK
<1>3. \A d \in Cells : Collecting(d, "marking")' <=> Collecting(d, "marking")
  BY <1>1, <1>2 DEF Collecting
<1>4. \A d \in Cells : BeingMarked(d)' <=> BeingMarked(d)
  BY <1>3, NobodyMoves, MarkedBySomeone
<1>5. StatesAreTrue'
  <2>1. \A d \in Cells :
           /\ Sending(d)' = Sending(d) /\ Requested(d)' = Requested(d)
           /\ Preparing(d)' = Preparing(d)
           /\ area'[d] # None /\ area'[d].collector # "marking" <=>
                 area[d] # None /\ area[d].collector # "marking"
           /\ area'[d] # None /\ area'[d].collector = "gone" =>
                 (area[d] # None /\ area[d].collector = "gone") \/ stopping'
    BY <1>1, <1>2, NobodyMoves
  <2> QED
    BY <1>4, <2>1, StatesKept
<1>6. OnePlacePerCell' /\ CooldownsAreMarked'
  BY <1>4, PlacesKept, MarksKept
<1> QED
  BY <1>1, <1>2, <1>5, <1>6

\* An area whose sites are all where they were.
LEMMA AreaKeeps ==
    ASSUME IInv, NEW c \in Cells, NEW after, area' = [area EXCEPT ![c] = after],
           UNCHANGED <<caller, requests, admitter, worker, areas, turn, passed, state, cooling,
                       marked, dispatching, stopping>>,
           spent'.faults = spent.faults,
           spent' \in [asks : 0 .. MaxAsks, faults : 0 .. MaxFaults,
                       restarts : 0 .. MaxRestarts, timeouts : 0 .. MaxTimeouts],
           progress' \in [Cells -> Nat \cup {None}],
           area[c] # None, after \in Area, SameSites(area[c], after),
           \/ after.collector = area[c].collector /\ after.collector # "marking"
           \/ /\ area[c].collector # "marking" /\ after.collector # "marking"
              /\ after.collector = "gone" => stopping
    PROVE  IInv'
<1> USE DEF IInv
<1>1. /\ OnePlacePerCell' /\ StatesAreTrue' /\ CooldownsAreMarked'
      /\ area' \in [Cells -> Area \cup {None}] /\ after # None
      /\ \A d \in Cells : area'[d] = IF d = c THEN after ELSE area[d]
  BY AreaMoves
<1>2. TypeOK' /\ BusyHaveCells'
  BY <1>1, BusyKept DEF TypeOK
<1>3. SitesAreCounted'
  <2>1. \A d \in Cells : IF area[d] = None THEN area'[d] = None
                         ELSE /\ area'[d] # None /\ SameSites(area[d], area'[d])
                              /\ area'[d].collector = "marking" => area'[d].read = area'[d].targets
    BY <1>1 DEF SitesAreCounted, SameSites
  <2> QED
    BY <2>1, CountsKept
<1>4. ListIsSound'
  <2>1. \A d \in Cells : area[d] # None =>
           area'[d] # None /\ area'[d].sent = area[d].sent /\ area'[d].targets = area[d].targets
    BY <1>1 DEF SameSites
  <2>2. \A d \in Cells : Offering(d)' \subseteq Offering(d)
    BY NobodyMoves
  <2> QED
    BY <2>1, <2>2, ListKept
<1> QED
  BY <1>1, <1>2, <1>3, <1>4, PassedKept

\* Worker w goes to a place with cell d.
Turns(w, place, d) == worker' = [worker EXCEPT ![w] = [pc |-> place, cell |-> d]]

LEMMA WorkerMoves ==
    ASSUME TypeOK, NEW w \in SiteWorkers, NEW place, NEW d, Turns(w, place, d), NEW c
    PROVE  Reading(c)' = IF place = "reading" /\ c = d THEN Reading(c) \cup {w} ELSE Reading(c) \ {w}
<1>1. \A v \in SiteWorkers : worker'[v] = IF v = w THEN [pc |-> place, cell |-> d] ELSE worker[v]
  BY DEF TypeOK, Turns
<1>2. Reading(c)' = {v \in SiteWorkers : worker'[v] = [pc |-> "reading", cell |-> c]}
  BY DEF Reading
<1> QED
  BY <1>1, <1>2 DEF Reading

LEMMA ReadersAreCounted ==
    \A c \in Cells, w \in SiteWorkers :
       /\ Cardinality(Reading(c)) \in Nat
       /\ w \notin Reading(c) => Cardinality(Reading(c) \cup {w}) = Cardinality(Reading(c)) + 1
       /\ w \in Reading(c) => Cardinality(Reading(c) \ {w}) = Cardinality(Reading(c)) - 1
<1>1. \A c \in Cells : IsFiniteSet(Reading(c))
  BY Constants, FS_Subset DEF Reading
<1> QED
  BY <1>1, FS_CardinalityType, FS_AddElement, FS_RemoveElement

LEMMA ReportKeeps ==
    ASSUME IInv, NEW w \in SiteWorkers, Report(w)
    PROVE  IInv'
<1> USE DEF IInv
<1>1. PICK c \in Cells : c = worker[w].cell /\ w \in Reading(c) /\ area[c] # None
  <2>1. worker[w].cell \in Cells /\ worker[w].pc = "reading"
    BY DEF Report, BusyHaveCells
  <2>2. w \in Reading(worker[w].cell)
    BY <2>1 DEF Reading, TypeOK
  <2> QED
    BY <2>1, <2>2 DEF SitesAreCounted
<1>2. PICK cut \in BOOLEAN :
         area' = [area EXCEPT ![c].results = @ + 1, ![c].cut = @ \/ cut]
  <2>1. area[c].expired \in BOOLEAN
    BY <1>1 DEF TypeOK, Area
  <2> QED
    BY <1>1, <2>1 DEF Report
<1> DEFINE after == [area[c] EXCEPT !.results = @ + 1, !.cut = @ \/ cut]
<1>3. /\ area' = [area EXCEPT ![c] = after]
      /\ Turns(w, "idle", None)
      /\ UNCHANGED <<state, progress, cooling, requests, caller, admitter, areas, turn,
                     dispatching, marked, stopping, passed, spent>>
  BY <1>1, <1>2 DEF Report, Idle, Turns, TypeOK
<1>4. /\ area[c] \in Area /\ after \in Area /\ after.collector = area[c].collector
      /\ after.targets = area[c].targets /\ after.sent = area[c].sent
      /\ after.results = area[c].results + 1 /\ after.read = area[c].read
  <2>1. area[c] \in Area
    BY <1>1 DEF TypeOK
  <2>2. area[c].results + 1 \in Nat /\ (area[c].cut \/ cut) \in BOOLEAN
    BY <2>1 DEF Area
  <2> QED
    BY <2>1, <2>2 DEF Area
<1> HIDE DEF after
<1>5. /\ OnePlacePerCell' /\ StatesAreTrue' /\ CooldownsAreMarked'
      /\ area' \in [Cells -> Area \cup {None}] /\ after # None
      /\ \A d \in Cells : area'[d] = IF d = c THEN after ELSE area[d]
  BY <1>1, <1>3, <1>4, AreaMoves
<1>6. \A d \in Cells : Reading(d)' = IF d = c THEN Reading(c) \ {w} ELSE Reading(d)
  <2>1. \A d \in Cells : Reading(d)' = Reading(d) \ {w}
    BY <1>3, WorkerMoves
  <2>2. \A d \in Cells : d # c => w \notin Reading(d)
    BY <1>1 DEF Reading
  <2> QED
    BY <2>1, <2>2
<1>7. TypeOK' /\ BusyHaveCells'
  <2>1. \A v \in SiteWorkers : worker'[v] = IF v = w THEN [pc |-> "idle", cell |-> None] ELSE worker[v]
    BY <1>3 DEF TypeOK, Turns
  <2>2. BusyHaveCells'
    BY <1>3, <2>1 DEF BusyHaveCells
  <2> QED
    BY <1>3, <1>5, <2>2 DEF TypeOK, Turns
<1>8. SitesAreCounted'
  <2>1. Cardinality(Reading(c)') = Cardinality(Reading(c)) - 1 /\ Cardinality(Reading(c)) \in Nat
    BY <1>1, <1>6, ReadersAreCounted
  <2>2. ASSUME NEW d \in Cells
        PROVE  /\ area'[d] = None => Reading(d)' = {}
               /\ area'[d] # None =>
                     /\ area'[d].results + area'[d].read + Cardinality(Reading(d)') = area'[d].sent
                     /\ area'[d].sent <= area'[d].targets /\ area'[d].targets > 0
                     /\ area'[d].collector = "marking" => area'[d].read = area'[d].targets
    <3>1. CASE d = c
      <4>1. area'[d] = after /\ after # None /\ Reading(d)' = Reading(c)'
        BY <3>1, <1>5
      <4>2. /\ area[c].results + area[c].read + Cardinality(Reading(c)) = area[c].sent
            /\ area[c].sent <= area[c].targets /\ area[c].targets > 0
            /\ area[c].collector = "marking" => area[c].read = area[c].targets
            /\ area[c].results \in Nat /\ area[c].read \in Nat
        BY <1>1, <1>4 DEF SitesAreCounted, Area
      <4>3. after.results + after.read + Cardinality(Reading(c)') = after.sent
        BY <4>2, <1>4, <2>1
      <4> QED
        BY <4>1, <4>2, <4>3, <1>4
    <3>2. CASE d # c
      BY <3>2, <1>5, <1>6 DEF SitesAreCounted
    <3> QED
      BY <3>1, <3>2
  <2> QED
    BY <2>2 DEF SitesAreCounted
<1>9. ListIsSound'
  <2>1. \A d \in Cells : area[d] # None =>
           area'[d] # None /\ area'[d].sent = area[d].sent /\ area'[d].targets = area[d].targets
    BY <1>4, <1>5
  <2>2. \A d \in Cells : Offering(d)' \subseteq Offering(d)
    BY <1>3, NobodyMoves
  <2> QED
    BY <1>3, <2>1, <2>2, ListKept
<1> QED
  BY <1>3, <1>5, <1>7, <1>8, <1>9, PassedKept

LEMMA WorkerQuitsKeeps ==
    ASSUME IInv, NEW w \in SiteWorkers, WorkerQuits(w)
    PROVE  IInv'
<1> USE DEF IInv
<1>1. /\ worker[w].pc = "idle"
      /\ Turns(w, "gone", None)
      /\ UNCHANGED <<state, progress, cooling, requests, caller, admitter, area, areas, turn,
                     dispatching, marked, stopping, passed, spent>>
  BY DEF WorkerQuits, Gone, Turns
<1>2. \A d \in Cells : Reading(d)' = Reading(d)
  <2>1. \A d \in Cells : Reading(d)' = Reading(d) \ {w}
    BY <1>1, WorkerMoves
  <2>2. \A d \in Cells : w \notin Reading(d)
    BY <1>1 DEF Reading
  <2> QED
    BY <2>1, <2>2
<1>3. \A v \in SiteWorkers : worker'[v] = IF v = w THEN [pc |-> "gone", cell |-> None] ELSE worker[v]
  BY <1>1 DEF TypeOK, Turns
<1>4. TypeOK' /\ BusyHaveCells'
  <2>1. BusyHaveCells'
    BY <1>1, <1>3 DEF BusyHaveCells
  <2> QED
    BY <1>1, <2>1 DEF TypeOK, Turns
<1>5. \A d \in Cells : BeingMarked(d)' <=> BeingMarked(d)
  BY <1>1 DEF BeingMarked, Collecting
<1>6. OnePlacePerCell' /\ PassedComeFirst' /\ CooldownsAreMarked'
  BY <1>1, <1>5, PlacesKept, PassedKept, MarksKept
<1>7. StatesAreTrue'
  BY <1>1, <1>5, NobodyMoves, StatesKept
<1>8. SitesAreCounted'
  BY <1>1, <1>2 DEF SitesAreCounted
<1>9. ListIsSound'
  BY <1>1, NobodyMoves, ListKept
<1> QED
  BY <1>4, <1>6, <1>7, <1>8, <1>9

\* Where place j of a list was before the one at place t was taken out of it.
Was(t, removed, j) == IF removed /\ j >= t THEN j + 1 ELSE j

\* Place i has its turn before place j when the turn is at t.
InOrder(t, i, j) == IF i >= t THEN j < t \/ i < j ELSE j < t /\ i < j

\* The list after a site is handed out for the area at the turn.
LEMMA ListAfterHandOut ==
    ASSUME IInv, areas # <<>>, NEW removed \in BOOLEAN,
           areas' = (IF removed THEN RemoveAt(areas, turn) ELSE areas),
           turn' = NextTurn(turn, removed, Len(areas'))
    PROVE  /\ areas' \in Seq(Cells) /\ Len(areas') = IF removed THEN Len(areas) - 1 ELSE Len(areas)
           /\ turn' \in Nat \ {0}
           /\ turn' <= Len(areas') \/ (areas' = <<>> /\ turn' = 1)
           /\ \A j \in 1 .. Len(areas') :
                 /\ Was(turn, removed, j) \in 1 .. Len(areas)
                 /\ areas'[j] = areas[Was(turn, removed, j)]
                 /\ removed => Was(turn, removed, j) # turn
<1>1. areas \in Seq(Cells) /\ Len(areas) \in Nat /\ turn \in 1 .. Len(areas)
  BY DEF IInv, TypeOK, ListIsSound
<1>2. CASE ~removed
  <2>1. areas' = areas /\ Len(areas') = Len(areas)
        /\ turn' = IF turn + 1 > Len(areas) THEN 1 ELSE turn + 1
    BY <1>2 DEF NextTurn
  <2> QED
    BY <1>1, <1>2, <2>1 DEF Was
<1>3. CASE removed
  <2>1. areas' = RemoveAt(areas, turn)
        /\ turn' = IF turn > Len(areas') THEN 1 ELSE turn
    BY <1>3 DEF NextTurn
  <2>2. /\ areas' \in Seq(Cells) /\ Len(areas') = Len(areas) - 1
        /\ \A j \in 1 .. Len(areas) - 1 : areas'[j] = IF j < turn THEN areas[j] ELSE areas[j + 1]
    BY <1>1, <2>1, RemoveAtPlaces
  <2>3. Len(areas') = 0 => areas' = <<>>
    BY <2>2, EmptySeq
  <2>4. turn' \in Nat \ {0} /\ (turn' <= Len(areas') \/ (areas' = <<>> /\ turn' = 1))
    BY <1>1, <2>1, <2>2, <2>3
  <2>5. \A j \in 1 .. Len(areas) - 1 :
           /\ Was(turn, removed, j) = IF j < turn THEN j ELSE j + 1
           /\ Was(turn, removed, j) \in 1 .. Len(areas) /\ Was(turn, removed, j) # turn
    BY <1>1, <1>3 DEF Was
  <2> QED
    BY <1>1, <1>3, <2>2, <2>4, <2>5
<1> QED
  BY <1>2, <1>3

\* The turn moves on in the order the list had.
LEMMA TurnsKeepOrder ==
    ASSUME NEW n \in Nat, NEW t \in 1 .. n, NEW removed \in BOOLEAN,
           NEW m, m = IF removed THEN n - 1 ELSE n,
           NEW k \in 1 .. m, NEW l \in 1 .. m,
           Was(t, removed, k) # t,
           Was(t, removed, l) = t \/ InOrder(t, Was(t, removed, k), Was(t, removed, l))
    PROVE  InOrder(NextTurn(t, removed, m), k, l)
<1>1. CASE removed
  <2>1. m = n - 1 /\ NextTurn(t, removed, m) = IF t > n - 1 THEN 1 ELSE t
    BY <1>1 DEF NextTurn
  <2>2. /\ Was(t, removed, k) = IF k >= t THEN k + 1 ELSE k
        /\ Was(t, removed, l) = IF l >= t THEN l + 1 ELSE l
    BY <1>1 DEF Was
  <2> DEFINE i == Was(t, removed, k)
             j == Was(t, removed, l)
             u == NextTurn(t, removed, m)
  <2>3. /\ u = (IF t > n - 1 THEN 1 ELSE t)
        /\ i = (IF k >= t THEN k + 1 ELSE k) /\ j = (IF l >= t THEN l + 1 ELSE l)
    BY <2>1, <2>2
  <2>4. InOrder(t, i, j)
    BY <2>2
  <2>5. k \in 1 .. n - 1 /\ l \in 1 .. n - 1
    BY <2>1
  <2> HIDE DEF i, j, u
  <2>6. InOrder(u, k, l)
    BY <2>3, <2>4, <2>5 DEF InOrder
  <2> QED
    BY <2>6 DEF u
<1>2. CASE ~removed
  <2>1. m = n /\ NextTurn(t, removed, m) = IF t + 1 > n THEN 1 ELSE t + 1
    BY <1>2 DEF NextTurn
  <2>2. Was(t, removed, k) = k /\ Was(t, removed, l) = l
    BY <1>2 DEF Was
  <2> QED
    BY <1>2, <2>1, <2>2 DEF InOrder
<1> QED
  BY <1>1, <1>2

LEMMA HandOutKeeps ==
    ASSUME IInv, NEW w \in SiteWorkers, HandOut(w)
    PROVE  IInv'
<1> USE DEF IInv
<1>1. areas # <<>> /\ areas \in Seq(Cells) /\ Len(areas) \in Nat /\ turn \in 1 .. Len(areas)
  BY DEF HandOut, TypeOK, ListIsSound
<1>2. PICK c \in Cells : c = areas[turn]
  BY <1>1
<1>3. PICK removed \in BOOLEAN : removed = LastSite(c)
  BY DEF LastSite
<1> DEFINE after == [area[c] EXCEPT !.sent = @ + 1]
<1>4. /\ worker[w].pc = "idle" /\ Turns(w, "reading", c)
      /\ area' = [area EXCEPT ![c] = after]
      /\ areas' = (IF removed THEN RemoveAt(areas, turn) ELSE areas)
      /\ turn' = NextTurn(turn, removed, Len(areas'))
      /\ passed' = [d \in Cells |-> IF d = c THEN {} ELSE passed[d] \cup {c}]
      /\ UNCHANGED <<state, progress, cooling, requests, caller, admitter, dispatching,
                     marked, stopping, spent>>
  BY <1>2, <1>3, Zenon DEF HandOut, Turns
<1>5. area[c] # None /\ area[c] \in Area /\ area[c].sent < area[c].targets
  BY <1>1, <1>2 DEF ListIsSound, TypeOK
<1>6. /\ after \in Area /\ after.collector = area[c].collector
      /\ after.targets = area[c].targets /\ after.sent = area[c].sent + 1
      /\ after.results = area[c].results /\ after.read = area[c].read
  <2>1. area[c].sent + 1 \in Nat
    BY <1>5 DEF Area
  <2> QED
    BY <1>5, <2>1 DEF Area
<1>7. removed <=> after.sent = after.targets
  BY <1>3, <1>6 DEF LastSite
<1> HIDE DEF after
<1>8. /\ OnePlacePerCell' /\ StatesAreTrue' /\ CooldownsAreMarked'
      /\ area' \in [Cells -> Area \cup {None}] /\ after # None
      /\ \A d \in Cells : area'[d] = IF d = c THEN after ELSE area[d]
  BY <1>4, <1>5, <1>6, AreaMoves
<1>9. \A d \in Cells : Reading(d)' = IF d = c THEN Reading(c) \cup {w} ELSE Reading(d)
  <2>1. TypeOK /\ Turns(w, "reading", c)
    BY <1>4
  <2>2. \A d \in Cells : Reading(d)' = IF d = c THEN Reading(d) \cup {w} ELSE Reading(d) \ {w}
    BY <2>1, WorkerMoves
  <2>3. \A d \in Cells : w \notin Reading(d)
    BY <1>4 DEF Reading
  <2> QED
    BY <2>2, <2>3
<1>10. /\ areas' \in Seq(Cells) /\ Len(areas') = IF removed THEN Len(areas) - 1 ELSE Len(areas)
       /\ turn' \in Nat \ {0}
       /\ turn' <= Len(areas') \/ (areas' = <<>> /\ turn' = 1)
       /\ \A j \in 1 .. Len(areas') :
             /\ Was(turn, removed, j) \in 1 .. Len(areas)
             /\ areas'[j] = areas[Was(turn, removed, j)]
             /\ removed => Was(turn, removed, j) # turn
  BY <1>1, <1>4, ListAfterHandOut
<1>11. \A i \in 1 .. Len(areas) : areas[i] = c <=> i = turn
  BY <1>1, <1>2 DEF ListIsSound
<1>12. TypeOK' /\ BusyHaveCells'
  <2>1. \A v \in SiteWorkers : worker'[v] = IF v = w THEN [pc |-> "reading", cell |-> c] ELSE worker[v]
    BY <1>4 DEF TypeOK, Turns
  <2>2. BusyHaveCells'
    BY <1>4, <2>1 DEF BusyHaveCells
  <2>3. worker' \in [SiteWorkers -> [pc : {"idle", "reading", "gone"}, cell : Cells \cup {None}]]
    BY <1>4 DEF TypeOK, Turns
  <2>4. passed' \in [Cells -> SUBSET Cells]
    BY <1>4 DEF TypeOK
  <2> QED
    BY <1>4, <1>8, <1>10, <2>2, <2>3, <2>4 DEF TypeOK
<1>13. SitesAreCounted'
  <2>1. Cardinality(Reading(c)') = Cardinality(Reading(c)) + 1 /\ Cardinality(Reading(c)) \in Nat
    <3>1. w \notin Reading(c)
      BY <1>4 DEF Reading
    <3> QED
      BY <3>1, <1>9, ReadersAreCounted
  <2>2. ASSUME NEW d \in Cells
        PROVE  /\ area'[d] = None => Reading(d)' = {}
               /\ area'[d] # None =>
                     /\ area'[d].results + area'[d].read + Cardinality(Reading(d)') = area'[d].sent
                     /\ area'[d].sent <= area'[d].targets /\ area'[d].targets > 0
                     /\ area'[d].collector = "marking" => area'[d].read = area'[d].targets
    <3>1. CASE d = c
      <4>1. area'[d] = after /\ after # None /\ Reading(d)' = Reading(c)'
        BY <3>1, <1>8
      <4>2. /\ area[c].results + area[c].read + Cardinality(Reading(c)) = area[c].sent
            /\ area[c].targets > 0 /\ area[c].targets \in Nat /\ area[c].sent \in Nat
            /\ area[c].collector = "marking" => area[c].read = area[c].targets
            /\ area[c].results \in Nat /\ area[c].read \in Nat
        BY <1>5 DEF SitesAreCounted, Area
      <4>3. after.results + after.read + Cardinality(Reading(c)') = after.sent
            /\ after.sent <= after.targets
        BY <4>2, <1>5, <1>6, <2>1
      <4> QED
        BY <4>1, <4>2, <4>3, <1>6
    <3>2. CASE d # c
      BY <3>2, <1>8, <1>9 DEF SitesAreCounted
    <3> QED
      BY <3>1, <3>2
  <2> QED
    BY <2>2 DEF SitesAreCounted
<1>14. ListIsSound'
  <2>1. \A i, j \in 1 .. Len(areas') : i # j => areas'[i] # areas'[j]
    <3> TAKE i, j \in 1 .. Len(areas')
    <3>1. i # j => Was(turn, removed, i) # Was(turn, removed, j)
      BY <1>1, <1>10 DEF Was
    <3>2. \A p, q \in 1 .. Len(areas) : p # q => areas[p] # areas[q]
      BY DEF ListIsSound
    <3>3. /\ Was(turn, removed, i) \in 1 .. Len(areas)
          /\ Was(turn, removed, j) \in 1 .. Len(areas)
          /\ areas'[i] = areas[Was(turn, removed, i)]
          /\ areas'[j] = areas[Was(turn, removed, j)]
      BY <1>10
    <3> QED
      BY <3>1, <3>2, <3>3
  <2>2. ASSUME NEW i \in 1 .. Len(areas')
        PROVE  areas'[i] \in Cells /\ area'[areas'[i]] # None
               /\ area'[areas'[i]].sent < area'[areas'[i]].targets
    <3>1. areas'[i] \in Cells /\ areas'[i] = areas[Was(turn, removed, i)] /\ Was(turn, removed, i) \in 1 .. Len(areas)
      BY <1>10
    <3>2. CASE areas'[i] = c
      <4>1. ~removed
        BY <1>10, <1>11, <3>1, <3>2
      <4>2. after.sent \in Nat /\ after.targets \in Nat
        BY <1>6 DEF Area
      <4>3. after.sent < after.targets
        BY <4>1, <4>2, <1>5, <1>6, <1>7 DEF Area
      <4> QED
        BY <4>3, <1>8, <3>1, <3>2
    <3>3. CASE areas'[i] # c
      BY <1>8, <3>1, <3>3 DEF ListIsSound
    <3> QED
      BY <3>2, <3>3
  <2>3. \A d \in Cells : Offering(d)' # {} =>
           /\ area'[d] # None /\ area'[d].sent = 0
           /\ \A i \in 1 .. Len(areas') : areas'[i] # d
    <3> SUFFICES ASSUME NEW d \in Cells, Offering(d)' # {}
                 PROVE  /\ area'[d] # None /\ area'[d].sent = 0
                        /\ \A i \in 1 .. Len(areas') : areas'[i] # d
      OBVIOUS
    <3>1. Offering(d) # {}
      BY <1>4, NobodyMoves
    <3>2. area[d] # None /\ area[d].sent = 0 /\ \A i \in 1 .. Len(areas) : areas[i] # d
      BY <3>1 DEF ListIsSound
    <3>3. d # c
      BY <1>1, <1>2, <3>2
    <3>4. area'[d] # None /\ area'[d].sent = 0
      BY <3>2, <3>3, <1>8
    <3>5. \A i \in 1 .. Len(areas') : areas'[i] # d
      BY <3>2, <1>10
    <3> QED
      BY <3>4, <3>5
  <2> QED
    BY <1>10, <2>1, <2>2, <2>3 DEF ListIsSound
<1>15. PassedComeFirst'
  <2>1. ASSUME NEW k \in 1 .. Len(areas'), NEW l \in 1 .. Len(areas'),
               areas'[l] \in passed'[areas'[k]]
        PROVE  InOrder(turn', k, l)
    <3>1. /\ areas'[k] = areas[Was(turn, removed, k)] /\ Was(turn, removed, k) \in 1 .. Len(areas)
          /\ areas'[l] = areas[Was(turn, removed, l)] /\ Was(turn, removed, l) \in 1 .. Len(areas)
          /\ areas'[k] \in Cells
      BY <1>10
    <3>2. areas'[k] # c /\ (areas'[l] = c \/ areas'[l] \in passed[areas'[k]])
      BY <1>4, <2>1, <3>1
    <3>3. Was(turn, removed, k) # turn
      BY <1>11, <3>1, <3>2
    <3>4. \/ Was(turn, removed, l) = turn
          \/ InOrder(turn, Was(turn, removed, k), Was(turn, removed, l))
      BY <1>11, <3>1, <3>2 DEF PassedComeFirst, Sooner, InOrder
    <3>5. Len(areas') = IF removed THEN Len(areas) - 1 ELSE Len(areas)
      BY <1>10
    <3>6. InOrder(NextTurn(turn, removed, Len(areas')), k, l)
      BY <1>1, <3>3, <3>4, <3>5, TurnsKeepOrder
    <3> QED
      BY <1>4, <3>6
  <2> QED
    BY <2>1 DEF PassedComeFirst, Sooner, InOrder
<1> QED
  BY <1>8, <1>12, <1>13, <1>14, <1>15

(***************************************************************************)
(* collect, time and the life of the process.                              *)
(***************************************************************************)

LEMMA CountKeeps ==
    ASSUME IInv, NEW c \in Cells, Count(c)
    PROVE  IInv'
<1> DEFINE after == [area[c] EXCEPT !.results = @ - 1, !.read = @ + 1]
<1>1. /\ area[c] # None /\ area[c].collector = "counting" /\ area[c].results > 0
      /\ area' = [area EXCEPT ![c] = after]
      /\ progress' = [progress EXCEPT ![c] = IF @ = None THEN None ELSE @ + 1]
      /\ UNCHANGED <<state, cooling, requests, caller, admitter, areas, turn, dispatching,
                     worker, marked, stopping, passed, spent>>
  BY DEF Count, Collecting, IInv, TypeOK
<1>2. area[c] \in Area
  BY <1>1 DEF IInv, TypeOK
<1>3. /\ after \in Area /\ after.collector = "counting" /\ SameSites(area[c], after)
  <2>1. area[c].results - 1 \in Nat /\ area[c].read + 1 \in Nat
        /\ area[c].results - 1 + (area[c].read + 1) = area[c].results + area[c].read
    BY <1>1, <1>2 DEF Area
  <2> QED
    BY <1>1, <1>2, <2>1 DEF Area, SameSites
<1> HIDE DEF after
<1>4. progress' \in [Cells -> Nat \cup {None}]
  <2>1. progress \in [Cells -> Nat \cup {None}]
    BY DEF IInv, TypeOK
  <2>2. (IF progress[c] = None THEN None ELSE progress[c] + 1) \in Nat \cup {None}
    BY <2>1
  <2> QED
    BY <1>1, <2>1, <2>2
<1>5. spent' \in [asks : 0 .. MaxAsks, faults : 0 .. MaxFaults,
                  restarts : 0 .. MaxRestarts, timeouts : 0 .. MaxTimeouts]
      /\ spent'.faults = spent.faults
  BY <1>1 DEF IInv, TypeOK
<1> QED
  BY <1>1, <1>2, <1>3, <1>4, <1>5, AreaKeeps

LEMMA CollectorQuitsKeeps ==
    ASSUME IInv, NEW c \in Cells, CollectorQuits(c)
    PROVE  IInv'
<1> DEFINE after == [area[c] EXCEPT !.collector = "gone", !.expired = TRUE]
<1>1. /\ area[c] # None /\ area[c].collector = "counting" /\ stopping
      /\ area' = [area EXCEPT ![c] = after]
      /\ UNCHANGED <<state, progress, cooling, requests, caller, admitter, areas, turn,
                     dispatching, worker, marked, stopping, passed, spent>>
  BY DEF CollectorQuits, Collecting, IInv, TypeOK
<1>2. area[c] \in Area
  BY <1>1 DEF IInv, TypeOK
<1>3. after \in Area /\ after.collector = "gone" /\ SameSites(area[c], after)
  BY <1>2 DEF Area, SameSites
<1> HIDE DEF after
<1>4. /\ progress' \in [Cells -> Nat \cup {None}]
      /\ spent' \in [asks : 0 .. MaxAsks, faults : 0 .. MaxFaults,
                     restarts : 0 .. MaxRestarts, timeouts : 0 .. MaxTimeouts]
      /\ spent'.faults = spent.faults
  BY <1>1 DEF IInv, TypeOK
<1> QED
  BY <1>1, <1>2, <1>3, <1>4, AreaKeeps

LEMMA ExpireKeeps ==
    ASSUME IInv, NEW c \in Cells, Expire(c)
    PROVE  IInv'
<1> DEFINE after == [area[c] EXCEPT !.expired = TRUE]
<1>1. /\ area[c] # None /\ area[c].collector = "counting" /\ spent.timeouts < MaxTimeouts
      /\ area' = [area EXCEPT ![c] = after]
      /\ spent' = [spent EXCEPT !.timeouts = @ + 1]
      /\ UNCHANGED <<state, progress, cooling, requests, caller, admitter, areas, turn,
                     dispatching, worker, marked, stopping, passed>>
  BY DEF Expire, Collecting
<1>2. area[c] \in Area
  BY <1>1 DEF IInv, TypeOK
<1>3. after \in Area /\ after.collector = "counting" /\ SameSites(area[c], after)
  BY <1>1, <1>2 DEF Area, SameSites
<1> HIDE DEF after
<1>4. spent \in [asks : 0 .. MaxAsks, faults : 0 .. MaxFaults,
                 restarts : 0 .. MaxRestarts, timeouts : 0 .. MaxTimeouts]
  BY DEF IInv, TypeOK
<1>5. spent.timeouts + 1 \in 0 .. MaxTimeouts
  BY <1>1, <1>4, QueueAssumption
<1>6. /\ progress' \in [Cells -> Nat \cup {None}]
      /\ spent' \in [asks : 0 .. MaxAsks, faults : 0 .. MaxFaults,
                     restarts : 0 .. MaxRestarts, timeouts : 0 .. MaxTimeouts]
      /\ spent'.faults = spent.faults
  BY <1>1, <1>4, <1>5 DEF IInv, TypeOK
<1> QED
  BY <1>1, <1>2, <1>3, <1>6, AreaKeeps

\* The last site of an area is counted: the cooldown starts, and a collector marks it.
LEMMA FinishKeeps ==
    ASSUME IInv, NEW c \in Cells, Finish(c)
    PROVE  IInv'
<1> USE DEF IInv
<1> DEFINE after == [area[c] EXCEPT !.collector = "marking"]
<1>1. /\ area[c] # None /\ area[c].collector = "counting" /\ area[c].read = area[c].targets
      /\ state' = [state EXCEPT ![c] = "idle"] /\ progress' = [progress EXCEPT ![c] = None]
      /\ cooling' = cooling \cup {c}
      /\ area' = [area EXCEPT ![c] = after]
      /\ UNCHANGED <<requests, caller, admitter, areas, turn, dispatching, worker, marked,
                     stopping, passed, spent>>
  BY DEF Finish, Collecting, AllRead, Release
<1>2. /\ area[c] \in Area /\ after \in Area /\ after # None /\ after.collector = "marking"
      /\ SameSites(area[c], after) /\ after.read = after.targets
  <2>1. area[c] \in Area
    BY <1>1 DEF TypeOK
  <2> QED
    BY <1>1, <2>1, Constants DEF Area, SameSites
<1> HIDE DEF after
<1>3. \A d \in Cells : area'[d] = IF d = c THEN after ELSE area[d]
  BY <1>1 DEF TypeOK
<1>4. Sending(c) = {} /\ Requested(c) = {} /\ Preparing(c) = {}
  BY <1>1 DEF StatesAreTrue
<1>5. \A d \in Cells : Collecting(d, "marking")' <=> (d = c \/ Collecting(d, "marking"))
  BY <1>2, <1>3 DEF Collecting
<1>6. \A d \in Cells : BeingMarked(d)' <=> (d = c \/ BeingMarked(d))
  <2>1. \A d \in Cells : Marking(d)' = Marking(d)
    BY <1>1, NobodyMoves
  <2> QED
    BY <1>5, <2>1, MarkedBySomeone
<1>7. TypeOK' /\ BusyHaveCells' /\ OnePlacePerCell' /\ PassedComeFirst'
  <2>1. TypeOK'
    BY <1>1, <1>2 DEF TypeOK
  <2> QED
    BY <1>1, <2>1, BusyKept, PlacesKept, PassedKept
<1>8. StatesAreTrue'
  <2>1. \A d \in Cells : Sending(d)' = Sending(d) /\ Requested(d)' = Requested(d)
                         /\ Preparing(d)' = Preparing(d)
    BY <1>1, NobodyMoves
  <2> QED
    BY <1>1, <1>2, <1>3, <1>4, <1>6, <2>1 DEF StatesAreTrue, TypeOK
<1>9. SitesAreCounted'
  <2>1. \A d \in Cells : IF area[d] = None THEN area'[d] = None
                         ELSE /\ area'[d] # None /\ SameSites(area[d], area'[d])
                              /\ area'[d].collector = "marking" => area'[d].read = area'[d].targets
    BY <1>1, <1>2, <1>3 DEF SitesAreCounted, SameSites
  <2> QED
    BY <1>1, <2>1, CountsKept
<1>10. ListIsSound'
  <2>1. \A d \in Cells : area[d] # None =>
           area'[d] # None /\ area'[d].sent = area[d].sent /\ area'[d].targets = area[d].targets
    BY <1>2, <1>3 DEF SameSites
  <2>2. \A d \in Cells : Offering(d)' \subseteq Offering(d)
    BY <1>1, NobodyMoves
  <2> QED
    BY <1>1, <2>1, <2>2, ListKept
<1>11. CooldownsAreMarked'
  BY <1>1, <1>6, CooldownStarts
<1> QED
  BY <1>7, <1>8, <1>9, <1>10, <1>11

\* An area that is marked has no reader, no admitter and no place in the list left.
LEMMA MarkFinishedKeeps ==
    ASSUME IInv, NEW c \in Cells, MarkFinished(c)
    PROVE  IInv'
<1> USE DEF IInv
<1>1. /\ area[c] # None /\ area[c].collector = "marking" /\ Mark(c)
      /\ area' = [area EXCEPT ![c] = None]
      /\ UNCHANGED <<state, progress, cooling, requests, caller, admitter, areas, turn,
                     dispatching, worker, stopping, passed>>
  BY DEF MarkFinished, Collecting
<1>2. area[c] \in Area
  BY <1>1 DEF TypeOK
<1>3. \A d \in Cells : area'[d] = IF d = c THEN None ELSE area[d]
  BY <1>1 DEF TypeOK
<1>4. /\ area[c].results + area[c].read + Cardinality(Reading(c)) = area[c].sent
      /\ area[c].sent <= area[c].targets /\ area[c].targets > 0
      /\ area[c].read = area[c].targets
  BY <1>1 DEF SitesAreCounted
<1>5. IsFiniteSet(Reading(c)) /\ Cardinality(Reading(c)) \in Nat
  BY Constants, FS_Subset, FS_CardinalityType DEF Reading
<1>6. area[c].sent = area[c].targets /\ Cardinality(Reading(c)) = 0
  BY <1>2, <1>4, <1>5 DEF Area
<1>7. Reading(c) = {}
  BY <1>5, <1>6, FS_EmptySet
<1>8. Offering(c) = {} /\ \A i \in 1 .. Len(areas) : areas[i] # c
  BY <1>2, <1>4, <1>6 DEF ListIsSound, Area
<1>9. \A d \in Cells : /\ BeingMarked(d)' => BeingMarked(d)
                       /\ d # c /\ BeingMarked(d) => BeingMarked(d)'
  <2>1. \A d \in Cells : Marking(d)' = Marking(d)
    BY <1>1, NobodyMoves
  <2>2. \A d \in Cells : /\ Collecting(d, "marking")' => Collecting(d, "marking")
                         /\ d # c /\ Collecting(d, "marking") => Collecting(d, "marking")'
    BY <1>3 DEF Collecting
  <2> QED
    BY <2>1, <2>2, MarkedBySomeone
<1>10. CooldownsAreMarked' /\ marked' \subseteq Cells
       /\ spent' \in [asks : 0 .. MaxAsks, faults : 0 .. MaxFaults,
                      restarts : 0 .. MaxRestarts, timeouts : 0 .. MaxTimeouts]
  <2>1. BeingMarked(c)
    BY <1>1 DEF BeingMarked, Collecting
  <2> QED
    BY <1>1, <1>9, <2>1, MarkKeeps
<1>11. TypeOK' /\ BusyHaveCells' /\ OnePlacePerCell' /\ PassedComeFirst'
  <2>1. TypeOK'
    BY <1>1, <1>10 DEF TypeOK
  <2> QED
    BY <1>1, <2>1, BusyKept, PlacesKept, PassedKept
<1>12. StatesAreTrue'
  <2>1. \A d \in Cells : Sending(d)' = Sending(d) /\ Requested(d)' = Requested(d)
                         /\ Preparing(d)' = Preparing(d)
    BY <1>1, NobodyMoves
  <2> QED
    BY <1>1, <1>3, <1>9, <2>1, StatesKept
<1>13. SitesAreCounted'
  <2>1. \A d \in Cells : Reading(d)' = Reading(d)
    BY <1>1 DEF Reading
  <2> QED
    BY <1>3, <1>7, <2>1 DEF SitesAreCounted
<1>14. ListIsSound'
  <2>1. \A i \in 1 .. Len(areas) : areas[i] \in Cells /\ area'[areas[i]] = area[areas[i]]
    BY <1>3, <1>8 DEF TypeOK
  <2>2. \A d \in Cells : Offering(d)' # {} =>
           /\ area'[d] # None /\ area'[d].sent = 0
           /\ \A i \in 1 .. Len(areas) : areas[i] # d
    <3>1. \A d \in Cells : Offering(d)' = Offering(d)
      BY <1>1, NobodyMoves
    <3> QED
      BY <1>3, <1>8, <3>1 DEF ListIsSound
  <2> QED
    BY <1>1, <2>1, <2>2 DEF ListIsSound
<1> QED
  BY <1>10, <1>11, <1>12, <1>13, <1>14

LEMMA LapseKeeps ==
    ASSUME IInv, NEW c \in Cells, Lapse(c)
    PROVE  IInv'
<1> USE DEF IInv
<1>1. /\ ~BeingMarked(c) /\ cooling' = cooling \ {c} /\ marked' = marked \ {c}
      /\ UNCHANGED <<state, progress, requests, caller, admitter, area, areas, turn,
                     dispatching, worker, stopping, passed, spent>>
  BY DEF Lapse
<1>2. \A d \in Cells : /\ Sending(d)' = Sending(d) /\ Requested(d)' = Requested(d)
                       /\ Preparing(d)' = Preparing(d) /\ Offering(d)' = Offering(d)
                       /\ BeingMarked(d)' <=> BeingMarked(d)
  BY <1>1 DEF Sending, Requested, Preparing, Offering, BeingMarked, Collecting
<1>3. TypeOK' /\ BusyHaveCells' /\ OnePlacePerCell' /\ PassedComeFirst'
  <2>1. TypeOK'
    BY <1>1 DEF TypeOK
  <2> QED
    BY <1>1, <2>1, BusyKept, PlacesKept, PassedKept
<1>4. StatesAreTrue'
  BY <1>1, <1>2 DEF StatesAreTrue
<1>5. SitesAreCounted'
  BY <1>1 DEF SitesAreCounted, Reading
<1>6. ListIsSound'
  BY <1>1, <1>2, ListKept
<1>7. CooldownsAreMarked'
  BY <1>1, <1>2 DEF CooldownsAreMarked, TypeOK
<1> QED
  BY <1>3, <1>4, <1>5, <1>6, <1>7

\* A new process, with the cooldowns it found in the table or none.
LEMMA NothingAtWork ==
    ASSUME NEW cooldowns, Started(cooldowns)
    PROVE  \A c \in Cells : /\ Sending(c)' = {} /\ Requested(c)' = {} /\ Preparing(c)' = {}
                            /\ Offering(c)' = {} /\ Reading(c)' = {} /\ ~BeingMarked(c)'
  BY DEF Started, Sending, Requested, Preparing, Offering, Reading, BeingMarked, Collecting, Idle

LEMMA RestartKeeps ==
    ASSUME IInv, Restart
    PROVE  IInv'
<1> USE DEF IInv
<1>1. PICK cooldowns \in SUBSET Cells :
         /\ Started(cooldowns)
         /\ spent' \in [asks : 0 .. MaxAsks, faults : 0 .. MaxFaults,
                        restarts : 0 .. MaxRestarts, timeouts : 0 .. MaxTimeouts]
         /\ spent'.faults = 0 => cooldowns = marked
  <2>1. spent \in [asks : 0 .. MaxAsks, faults : 0 .. MaxFaults,
                   restarts : 0 .. MaxRestarts, timeouts : 0 .. MaxTimeouts]
        /\ marked \in SUBSET Cells
    BY DEF TypeOK
  <2>2. spent.restarts + 1 \in 0 .. MaxRestarts
    BY <2>1, QueueAssumption DEF Restart
  <2>3. CASE Started(marked) /\ spent' = [spent EXCEPT !.restarts = @ + 1]
    BY <2>1, <2>2, <2>3
  <2>4. CASE MayFault /\ Started({})
             /\ spent' = [spent EXCEPT !.restarts = @ + 1, !.faults = @ + 1]
    <3>1. spent.faults + 1 \in 0 .. MaxFaults /\ spent.faults + 1 # 0
      BY <2>1, <2>4, QueueAssumption DEF MayFault
    <3> QED
      BY <2>1, <2>2, <2>4, <3>1
  <2> QED
    BY <2>3, <2>4 DEF Restart
<1>2. \A c \in Cells : /\ Sending(c)' = {} /\ Requested(c)' = {} /\ Preparing(c)' = {}
                       /\ Offering(c)' = {} /\ Reading(c)' = {} /\ ~BeingMarked(c)'
  BY <1>1, NothingAtWork
<1>3. TypeOK'
  <2>1. /\ caller' \in [Callers -> [pc : {"idle", "sending", "refused"}, cell : Cells \cup {None}]]
        /\ admitter' \in [Admitters -> [pc : {"idle", "preparing", "offering", "marking", "gone"},
                                        cell : Cells \cup {None}]]
        /\ worker' \in [SiteWorkers -> [pc : {"idle", "reading", "gone"}, cell : Cells \cup {None}]]
    BY <1>1 DEF Started, Idle
  <2>2. /\ state' \in [Cells -> {"idle", "queued", "running"}]
        /\ progress' \in [Cells -> Nat \cup {None}] /\ area' \in [Cells -> Area \cup {None}]
        /\ passed' \in [Cells -> SUBSET Cells]
    BY <1>1 DEF Started
  <2>3. requests' \in Seq(Cells) /\ areas' \in Seq(Cells)
    BY <1>1, EmptySeq DEF Started
  <2>4. cooling' \subseteq Cells /\ marked' \subseteq Cells
    BY <1>1 DEF Started, TypeOK
  <2>5. turn' \in Nat \ {0}
    BY <1>1 DEF Started
  <2>6. dispatching' \in BOOLEAN /\ stopping' \in BOOLEAN
    BY <1>1, Zenon DEF Started
  <2> QED
    BY <1>1, <2>1, <2>2, <2>3, <2>4, <2>5, <2>6 DEF TypeOK
<1>4. BusyHaveCells'
  BY <1>1 DEF BusyHaveCells, Started, Idle
<1>5. OnePlacePerCell'
  BY <1>2 DEF OnePlacePerCell
<1>6. StatesAreTrue' /\ SitesAreCounted'
  BY <1>1, <1>2 DEF StatesAreTrue, SitesAreCounted, Started
<1>7. ListIsSound' /\ PassedComeFirst'
  BY <1>1, <1>2 DEF ListIsSound, PassedComeFirst, Started
<1>8. CooldownsAreMarked'
  BY <1>1 DEF CooldownsAreMarked, Started
<1> QED
  BY <1>3, <1>4, <1>5, <1>6, <1>7, <1>8

(***************************************************************************)
(* The theorems.                                                           *)
(***************************************************************************)

LEMMA InitHolds == Init => IInv
<1> SUFFICES ASSUME Init
             PROVE  IInv
  OBVIOUS
<1>1. \A c \in Cells : /\ Sending(c) = {} /\ Requested(c) = {} /\ Preparing(c) = {}
                       /\ Offering(c) = {} /\ Reading(c) = {} /\ ~BeingMarked(c)
  BY DEF Init, Sending, Requested, Preparing, Offering, Reading, BeingMarked, Collecting, Idle
<1>2. TypeOK
  <2>1. /\ caller \in [Callers -> [pc : {"idle", "sending", "refused"}, cell : Cells \cup {None}]]
        /\ admitter \in [Admitters -> [pc : {"idle", "preparing", "offering", "marking", "gone"},
                                       cell : Cells \cup {None}]]
        /\ worker \in [SiteWorkers -> [pc : {"idle", "reading", "gone"}, cell : Cells \cup {None}]]
    BY DEF Init, Idle
  <2>2. /\ state \in [Cells -> {"idle", "queued", "running"}]
        /\ progress \in [Cells -> Nat \cup {None}] /\ area \in [Cells -> Area \cup {None}]
        /\ passed \in [Cells -> SUBSET Cells]
    BY DEF Init
  <2>3. requests \in Seq(Cells) /\ areas \in Seq(Cells)
    BY EmptySeq DEF Init
  <2>4. spent \in [asks : 0 .. MaxAsks, faults : 0 .. MaxFaults,
                   restarts : 0 .. MaxRestarts, timeouts : 0 .. MaxTimeouts]
    BY QueueAssumption DEF Init
  <2>5. cooling \subseteq Cells /\ marked \subseteq Cells /\ turn \in Nat \ {0}
    BY DEF Init
  <2>6. dispatching \in BOOLEAN /\ stopping \in BOOLEAN
    BY Zenon DEF Init
  <2> QED
    BY <2>1, <2>2, <2>3, <2>4, <2>5, <2>6 DEF TypeOK
<1>3. BusyHaveCells
  BY DEF Init, BusyHaveCells, Idle
<1>4. OnePlacePerCell
  BY <1>1 DEF OnePlacePerCell
<1>5. StatesAreTrue /\ SitesAreCounted
  BY <1>1 DEF Init, StatesAreTrue, SitesAreCounted
<1>6. ListIsSound /\ PassedComeFirst /\ CooldownsAreMarked
  BY <1>1 DEF Init, ListIsSound, PassedComeFirst, CooldownsAreMarked
<1> QED
  BY <1>2, <1>3, <1>4, <1>5, <1>6 DEF IInv

LEMMA StepKeeps == IInv /\ [Next]_vars => IInv'
<1> SUFFICES ASSUME IInv, [Next]_vars
             PROVE  IInv'
  OBVIOUS
<1>1. spent \in [asks : 0 .. MaxAsks, faults : 0 .. MaxFaults,
                 restarts : 0 .. MaxRestarts, timeouts : 0 .. MaxTimeouts]
      /\ stopping \in BOOLEAN /\ dispatching \in BOOLEAN
  BY DEF IInv, TypeOK
<1>2. ASSUME NEW k \in Callers, NEW c \in Cells, Ask(k, c) PROVE IInv'
  BY <1>2, AskKeeps
<1>3. ASSUME NEW k \in Callers, CallerStep(k) PROVE IInv'
  BY <1>3, SendKeeps, RefuseKeeps DEF CallerStep
<1>4. ASSUME NEW a \in Admitters, AdmitterStep(a) PROVE IInv'
  BY <1>4, AdmitKeeps, LookupFailsKeeps, LookupEmptyKeeps, MarkEmptyKeeps, PrepareKeeps,
     JoinKeeps, OfferStoppedKeeps, AdmitterQuitsKeeps DEF AdmitterStep
<1>5. ASSUME NEW w \in SiteWorkers, WorkerStep(w) PROVE IInv'
  BY <1>5, HandOutKeeps, ReportKeeps, WorkerQuitsKeeps DEF WorkerStep
<1>6. ASSUME NEW c \in Cells, CollectorStep(c) PROVE IInv'
  BY <1>6, CountKeeps, FinishKeeps, MarkFinishedKeeps, CollectorQuitsKeeps DEF CollectorStep
<1>7. CASE DispatcherQuits
  <2>1. UNCHANGED <<state, progress, cooling, requests, caller, admitter, area, areas,
                    turn, worker, marked, passed>>
        /\ stopping' \in BOOLEAN /\ (stopping => stopping') /\ dispatching' \in BOOLEAN
        /\ spent' = spent
    BY <1>1, <1>7 DEF DispatcherQuits
  <2> QED
    BY <1>1, <2>1, SpendKeeps
<1>8. ASSUME NEW c \in Cells, Expire(c) \/ Lapse(c) PROVE IInv'
  BY <1>8, ExpireKeeps, LapseKeeps
<1>9. CASE Close
  <2>1. UNCHANGED <<state, progress, cooling, requests, caller, admitter, area, areas,
                    turn, worker, marked, passed>>
        /\ stopping' \in BOOLEAN /\ (stopping => stopping') /\ dispatching' \in BOOLEAN
        /\ spent' = spent
    BY <1>1, <1>9 DEF Close
  <2> QED
    BY <1>1, <2>1, SpendKeeps
<1>10. CASE Restart
  BY <1>10, RestartKeeps
<1>11. CASE UNCHANGED vars
  <2>1. UNCHANGED <<state, progress, cooling, requests, caller, admitter, area, areas,
                    turn, worker, marked, passed>>
        /\ stopping' \in BOOLEAN /\ (stopping => stopping') /\ dispatching' \in BOOLEAN
        /\ spent' = spent
    BY <1>1, <1>11 DEF vars
  <2> QED
    BY <1>1, <2>1, SpendKeeps
<1> QED
  BY <1>2, <1>3, <1>4, <1>5, <1>6, <1>7, <1>8, <1>9, <1>10, <1>11 DEF Next

LEMMA Inductive == Spec => []IInv
  BY InitHolds, StepKeeps, PTL DEF Spec

(***************************************************************************)
(* What the inductive invariant says of a cell: how many places it is in.  *)
(***************************************************************************)

\* A set of at most one thing.
LEMMA AtMostOne ==
    ASSUME NEW S, \A x, y \in S : x = y
    PROVE  Cardinality(S) = IF S = {} THEN 0 ELSE 1
<1>1. CASE S = {}
  BY <1>1, FS_EmptySet
<1>2. CASE S # {}
  <2>1. PICK x : S = {x}
    BY <1>2
  <2> QED
    BY <1>2, <2>1, FS_Singleton
<1> QED
  BY <1>1, <1>2

\* A cell is being sent, waiting, looked up or read, and only one of these.
LEMMA OnePlace ==
    ASSUME IInv, NEW c \in Cells
    PROVE  /\ Sending(c) # {} => Requested(c) = {} /\ Preparing(c) = {} /\ BeingRead(c) = {}
           /\ Requested(c) # {} => Preparing(c) = {} /\ BeingRead(c) = {}
           /\ Preparing(c) # {} => BeingRead(c) = {}
<1>1. Sending(c) # {} \/ Requested(c) # {} \/ Preparing(c) # {} => BeingRead(c) = {}
  BY QueuedCell DEF BeingRead, Collecting
<1> QED
  BY <1>1 DEF IInv, OnePlacePerCell

LEMMA OneAreaHolds == IInv => OneAreaPerCell
<1> SUFFICES ASSUME IInv, NEW c \in Cells
             PROVE  Cardinality(Sending(c)) + Cardinality(Requested(c))
                       + Cardinality(Preparing(c)) + Cardinality(BeingRead(c)) <= 1
  BY DEF OneAreaPerCell
<1>1. /\ \A k, l \in Sending(c) : k = l
      /\ \A i, j \in Requested(c) : i = j
      /\ \A a, b \in Preparing(c) : a = b
      /\ \A d, e \in BeingRead(c) : d = e
  BY DEF IInv, OnePlacePerCell, BeingRead
<1>2. /\ Cardinality(Sending(c)) = IF Sending(c) = {} THEN 0 ELSE 1
      /\ Cardinality(Requested(c)) = IF Requested(c) = {} THEN 0 ELSE 1
      /\ Cardinality(Preparing(c)) = IF Preparing(c) = {} THEN 0 ELSE 1
      /\ Cardinality(BeingRead(c)) = IF BeingRead(c) = {} THEN 0 ELSE 1
  BY <1>1, AtMostOne
<1> QED
  BY <1>2, OnePlace

LEMMA CoolingHolds == IInv => CoolingIsLeftAlone
<1> SUFFICES ASSUME IInv, NEW c \in cooling
             PROVE  ~InFlight(c) /\ Sending(c) = {}
  BY DEF CoolingIsLeftAlone
<1>1. c \in Cells /\ state[c] = "idle"
  BY DEF IInv, TypeOK, StatesAreTrue
<1>2. Sending(c) = {} /\ Requested(c) = {} /\ Preparing(c) = {}
  BY <1>1 DEF IInv, StatesAreTrue
<1>3. BeingRead(c) = {}
  BY <1>1 DEF IInv, StatesAreTrue, BeingRead, Collecting
<1> QED
  BY <1>2, <1>3 DEF InFlight

LEMMA InRangeHolds == IInv => HandsOutInRange
  BY DEF IInv, ListIsSound, HandsOutInRange

\* A cell is one piece of work however many people ask for it, one that cools is
\* left alone, and the dispatcher never indexes past its areas or their sites:
\* enqueue, admit, prepare, dispatch, work, collect and release of scrape.go.
THEOREM QueueIsSound == Spec => []QueueInv
<1>1. IInv => QueueInv
  BY OneAreaHolds, CoolingHolds, InRangeHolds DEF IInv, QueueInv
<1> QED
  BY <1>1, Inductive, PTL

\* Nobody reads for a cell that has been released: the collector of scrape.go
\* releases it when every report is in, and no report comes after the last.
THEOREM NobodyReadsAReleasedCell == Spec => []ReleasedIsFinished
<1>1. IInv => ReleasedIsFinished
  <2> SUFFICES ASSUME IInv, NEW w \in SiteWorkers, worker[w].pc = "reading"
               PROVE  state[worker[w].cell] = "running"
    BY DEF ReleasedIsFinished
  <2>1. PICK c \in Cells : c = worker[w].cell /\ w \in Reading(c)
    <3>1. worker[w].cell \in Cells
      BY DEF IInv, BusyHaveCells
    <3> QED
      BY <3>1 DEF IInv, TypeOK, Reading
  <2>2. area[c] # None /\ area[c] \in Area
    BY <2>1 DEF IInv, SitesAreCounted, TypeOK
  <2>3. Cardinality(Reading(c)) \in Nat /\ Cardinality(Reading(c)) # 0
    <3>1. IsFiniteSet(Reading(c))
      BY Constants, FS_Subset DEF Reading
    <3> QED
      BY <2>1, <3>1, FS_CardinalityType, FS_EmptySet
  <2>4. area[c].read < area[c].targets
    BY <2>2, <2>3 DEF IInv, SitesAreCounted, Area
  <2>5. area[c].collector # "marking"
    BY <2>2, <2>4 DEF IInv, SitesAreCounted, Area
  <2> QED
    BY <2>1, <2>2, <2>5 DEF IInv, StatesAreTrue
<1> QED
  BY <1>1, Inductive, PTL

\* dispatch hands out one site of each waiting area before a second of any: the
\* area whose turn it is was not served since an area that still waits.
THEOREM AreasTakeTurns == Spec => TakesTurns
<1>1. ASSUME IInv, Next, NEW w \in SiteWorkers,
             worker[w].pc = "idle" /\ worker'[w].pc = "reading",
             NEW i \in 1 .. Len(areas), areas[i] # worker'[w].cell
      PROVE  worker'[w].cell \notin passed[areas[i]]
  <2>1. HandOut(w)
    <3>1. worker' # worker
      BY <1>1
    <3>2. ~Restart
      BY <1>1 DEF Restart, Started, Idle
    <3>3. \A v \in SiteWorkers : Report(v) \/ WorkerQuits(v) => worker'[w].pc # "reading"
      BY <1>1 DEF Report, WorkerQuits, Idle, Gone, IInv, TypeOK
    <3>4. \A v \in SiteWorkers : HandOut(v) => v = w
      BY <1>1 DEF HandOut, IInv, TypeOK
    <3>5. \E v \in SiteWorkers : WorkerStep(v)
      BY <1>1, <3>1, <3>2 DEF Next, Ask, CallerStep, Send, Refuse, AdmitterStep, Admit, LookupFails,
        LookupEmpty, MarkEmpty, Prepare, Join, OfferStopped, AdmitterQuits, CollectorStep, Count,
        Finish, MarkFinished, CollectorQuits, DispatcherQuits, Expire, Lapse, Close
    <3> QED
      BY <1>1, <3>3, <3>4, <3>5 DEF WorkerStep
  <2>2. areas # <<>> /\ areas \in Seq(Cells) /\ Len(areas) \in Nat /\ turn \in 1 .. Len(areas)
    BY <2>1, <1>1 DEF HandOut, IInv, TypeOK, ListIsSound
  <2>3. worker'[w].cell = areas[turn]
    BY <2>1, <1>1 DEF HandOut, IInv, TypeOK
  <2>4. ~Sooner(i, turn)
    BY <1>1, <2>2, <2>3 DEF Sooner
  <2> QED
    BY <1>1, <2>2, <2>3, <2>4 DEF IInv, PassedComeFirst
<1> DEFINE Turn(w) ==
      (worker[w].pc = "idle" /\ worker'[w].pc = "reading") =>
         \A i \in 1 .. Len(areas) :
            areas[i] # worker'[w].cell => worker'[w].cell \notin passed[areas[i]]
<1>2. IInv /\ [Next]_vars => [\A w \in SiteWorkers : Turn(w)]_vars
  BY <1>1
<1> QED
  BY <1>2, Inductive, PTL DEF Spec, TakesTurns

\* Areas read on a visitor's behalf are remembered by the next process, when the
\* last one was closed and the database answered: release marks each before its
\* goroutine ends, and recoverCooldowns reads the marks.
THEOREM CooldownsOutliveTheProcess == Spec => CooldownSurvivesRestart
<1>1. ASSUME IInv, Next, AllGone, stopping, ~stopping', spent'.faults = 0
      PROVE  cooling' = cooling
  <2>1. Restart
    BY <1>1 DEF Next, Ask, CallerStep, Send, Refuse, AdmitterStep, Admit, LookupFails,
      LookupEmpty, MarkEmpty, Prepare, Join, OfferStopped, AdmitterQuits, WorkerStep, HandOut,
      Report, WorkerQuits, CollectorStep, Count, Finish, MarkFinished, CollectorQuits,
      DispatcherQuits, Expire, Lapse, Close
  <2>2. spent.faults \in Nat
    BY <1>1 DEF IInv, TypeOK
  <2>3. Started(marked) /\ spent.faults = 0
    <3>1. CASE Started(marked) /\ spent' = [spent EXCEPT !.restarts = @ + 1]
      BY <3>1, <1>1 DEF IInv, TypeOK
    <3>2. CASE Started({}) /\ spent' = [spent EXCEPT !.restarts = @ + 1, !.faults = @ + 1]
      <4>1. spent'.faults = spent.faults + 1
        BY <3>2, <1>1 DEF IInv, TypeOK
      <4> QED
        BY <4>1, <2>2, <1>1
    <3> QED
      BY <2>1, <3>1, <3>2 DEF Restart
  <2>4. \A c \in Cells : ~BeingMarked(c)
    BY <1>1 DEF AllGone, BeingMarked, Collecting, Gone
  <2>5. cooling = marked
    BY <1>1, <2>3, <2>4 DEF IInv, CooldownsAreMarked, TypeOK
  <2> QED
    BY <2>3, <2>5 DEF Started
<1>2. IInv /\ [Next]_vars =>
         [(AllGone /\ stopping /\ ~stopping' /\ spent'.faults = 0) => cooling' = cooling]_vars
  BY <1>1
<1> QED
  BY <1>2, Inductive, PTL DEF Spec, CooldownSurvivesRestart

-----------------------------------------------------------------------------
(***************************************************************************)
(* One site, read again and again: what a tag says.                        *)
(***************************************************************************)

\* A page has been what it was since an edit no later than the tag.
StillReads(listing, tag, page) ==
    listing \in DOMAIN site.pages /\ modified[listing] <= tag => site.pages[listing] = page

\* The page a tag is asked about is the page that was read with it: the tag
\* counts the edits there had been, and any edit since has a higher number.
TagsAreTrue ==
    /\ edits \in Nat /\ site \in Sites
    /\ DOMAIN modified = DOMAIN site.pages
    /\ {row.tag, result.tag} \subseteq (0 .. edits) \cup {NoTag}
    /\ \A u \in DOMAIN modified : modified[u] \in 0 .. edits
    /\ row.tag # NoTag => StillReads(row.listing, row.tag, readAs)
    /\ result.listing = NoUrl => result.tag = NoTag
    /\ result.listing # NoUrl =>
          \A tag \in {row.tag, result.tag} \ {NoTag} : StillReads(result.listing, tag, result.page)
    /\ result.unchanged => pc \in {"record", "idle"}
    /\ pc = "record" /\ result.unchanged => result.page = readAs
    /\ pc = "ask" => row.tag # NoTag
    /\ row.listing = NoUrl => row.tag = NoTag

\* The fields of a result.
IsResult(r) == DOMAIN r = {"listing", "tag", "page", "reached", "unchanged", "failed"}

StaleInv == TagsAreTrue /\ IsResult(result)

LEMMA StaleInit == ReadingInit => StaleInv
  BY SiteAssumption DEF ReadingInit, StaleInv, TagsAreTrue, IsResult, NoResult, StillReads

LEMMA StaleNext == StaleInv /\ [ReadingNext]_reading => StaleInv'
<1> SUFFICES ASSUME StaleInv, [ReadingNext]_reading PROVE StaleInv'
  OBVIOUS
<1> USE SiteAssumption DEF StaleInv, TagsAreTrue, IsResult, StillReads
<1>1. CASE UNCHANGED reading
  BY <1>1 DEF reading, reader, stored, world, counts
<1>2. CASE Start
  BY <1>2 DEF Start, NoResult, stored, world
<1>3. CASE AskUnchanged
  <2>1. CASE result' = result
    BY <1>3, <2>1 DEF AskUnchanged, Arrives, Fails, stored, world
  <2>2. CASE result' # result
    <3>1. /\ row.listing \in DOMAIN site.pages /\ modified[row.listing] <= row.tag
          /\ result' = [result EXCEPT !.listing = row.listing, !.tag = row.tag,
                                      !.page = site.pages[row.listing],
                                      !.reached = TRUE, !.unchanged = TRUE]
          /\ pc = "ask" /\ pc' = "record"
          /\ UNCHANGED <<site, modified, edits, row, readAs>>
      BY <1>3, <2>2 DEF AskUnchanged, Arrives, stored, world
    <3>2. /\ result'.listing = row.listing /\ result'.tag = row.tag
          /\ result'.page = site.pages[row.listing]
          /\ DOMAIN result' = DOMAIN result
      BY <3>1
    <3>3. result'.page = readAs
      BY <3>1, <3>2
    <3> QED
      BY <3>1, <3>2, <3>3
  <2> QED
    BY <2>1, <2>2
<1>4. CASE ReadHome
  <2>1. /\ UNCHANGED <<site, modified, edits, row, readAs>> /\ pc = "home" /\ pc' \in {"home", "listing"}
        /\ \/ result' = result
           \/ \E front : result' = [result EXCEPT !.reached = front.reached]
    BY <1>4 DEF ReadHome, ListingsOf, stored, world
  <2>2. /\ result'.listing = result.listing /\ result'.tag = result.tag
        /\ result'.page = result.page /\ result'.unchanged = result.unchanged
        /\ DOMAIN result' = DOMAIN result
    BY <2>1
  <2> QED
    BY <2>1, <2>2
<1>5. CASE ReadListing
  <2>1. UNCHANGED <<site, modified, edits, row, readAs, pc>> /\ pc = "listing"
    BY <1>5 DEF ReadListing, stored, world
  <2>2. PICK url : \/ result' = result
                   \/ url \in DOMAIN site.pages
                      /\ result' = ListingFound([result EXCEPT !.reached = TRUE], url)
    BY <1>5 DEF ReadListing, ReadNext, Arrives
  <2>3. CASE result' = result
    BY <2>1, <2>3
  <2>4. CASE /\ url \in DOMAIN site.pages
             /\ result' = [result EXCEPT !.reached = TRUE]
    BY <2>1, <2>4
  <2>5. CASE /\ url \in DOMAIN site.pages
             /\ result' = [[result EXCEPT !.reached = TRUE] EXCEPT
                             !.listing = url, !.tag = Tag(url), !.page = site.pages[url]]
    <3>1. /\ result'.listing = url /\ result'.tag = Tag(url)
          /\ result'.page = site.pages[url] /\ result'.unchanged = result.unchanged
          /\ DOMAIN result' = DOMAIN result
      BY <2>5
    <3>2. Tag(url) \in (0 .. edits) \cup {NoTag} /\ url # NoUrl
      BY <2>5 DEF Tag
    <3> QED
      BY <2>1, <2>5, <3>1, <3>2
  <2> QED
    BY <2>2, <2>3, <2>4, <2>5 DEF ListingFound
<1>6. CASE EndListings
  BY <1>6 DEF EndListings, stored, world, counts
<1>7. CASE ReadPermanent
  <2>1. /\ UNCHANGED <<site, modified, edits, row, readAs, pc>> /\ pc = "permanent"
        /\ result' = result \/ result' = [result EXCEPT !.reached = TRUE]
    BY <1>7 DEF ReadPermanent, ReadNext, PermanentRead, stored, world
  <2>2. /\ result'.listing = result.listing /\ result'.tag = result.tag
        /\ result'.page = result.page /\ result'.unchanged = result.unchanged
        /\ DOMAIN result' = DOMAIN result
    BY <2>1
  <2> QED
    BY <2>1, <2>2
<1>8. CASE EndPermanent
  BY <1>8 DEF EndPermanent, stored, world, counts
<1>9. CASE ReadInfo
  <2>1. UNCHANGED <<site, modified, edits, row, readAs>> /\ pc = "info" /\ pc' \in {pc, "record"}
    BY <1>9 DEF ReadInfo, stored, world
  <2>2. PICK url : \/ result' = result
                   \/ /\ url \in DOMAIN site.pages
                      /\ result' = [result EXCEPT !.reached = TRUE, !.listing = url,
                                                  !.page = site.pages[url]]
    BY <1>9 DEF ReadInfo, Arrives
  <2>3. CASE result' = result
    BY <2>1, <2>3
  <2>4. CASE /\ url \in DOMAIN site.pages
             /\ result' = [result EXCEPT !.reached = TRUE, !.listing = url,
                                         !.page = site.pages[url]]
    <3>1. /\ result'.listing = url /\ result'.tag = result.tag
          /\ result'.page = site.pages[url] /\ result'.unchanged = result.unchanged
          /\ DOMAIN result' = DOMAIN result
      BY <2>4
    <3> QED
      BY <2>1, <2>4, <3>1
  <2> QED
    BY <2>2, <2>3, <2>4
<1>10. CASE EndInfo
  BY <1>10 DEF EndInfo, stored, world, counts
<1>11. CASE GiveUp
  BY <1>11 DEF GiveUp, stored, world, counts
<1>12. CASE Record
  BY <1>12 DEF Record, Coalesced, stored, world, counts
<1>13. CASE Edit
  BY <1>13 DEF Edit, stored, world, counts
<1>14. CASE Cancel
  BY <1>14 DEF Cancel, stored, world
<1> QED
  BY <1>1, <1>2, <1>3, <1>4, <1>5, <1>6, <1>7, <1>8, <1>9, <1>10, <1>11, <1>12, <1>13, <1>14
     DEF ReadingNext, Read

\* "Unchanged" is the word of the page the stored listings came from: it still
\* says what it said when it was read, whatever the museum edits, at whatever
\* moment, and whichever requests fail (ForSite, RecordScrape).
THEOREM UnchangedIsTrue == ReadingSpec => []UnchangedIsCurrent
<1>1. StaleInv => UnchangedIsCurrent
  BY DEF StaleInv, TagsAreTrue, UnchangedIsCurrent
<1> QED
  BY <1>1, StaleInit, StaleNext, PTL DEF ReadingSpec

-----------------------------------------------------------------------------
(***************************************************************************)
(* Numbers and sequences.                                                  *)
(***************************************************************************)

\* Any numbers have a least.
LEMMA LeastElement ==
    ASSUME NEW T \in SUBSET Nat, T # {}
    PROVE  \E n \in T : \A m \in T : n <= m
<1>1. PICK n \in T : \A m \in T : ~(<<m, n>> \in OpToRel(<, Nat))
  BY NatLessThanWellFounded, WFMin
<1>2. \A m \in T : ~(m < n)
  <2> TAKE m \in T
  <2>1. m < n => <<m, n>> \in OpToRel(<, Nat)
    BY DEF OpToRel
  <2> QED
    BY <1>1, <2>1
<1> QED
  BY <1>2

\* What starts out well and never goes wrong at a step is right to the end.
LEMMA StepByStep ==
    ASSUME NEW n \in Nat, NEW Right \in SUBSET Nat, 0 \in Right,
           \A i \in 1 .. n : i - 1 \in Right => i \in Right
    PROVE  n \in Right
<1> DEFINE Wrong == {i \in 0 .. n : i \notin Right}
<1> SUFFICES ASSUME Wrong # {} PROVE FALSE
  OBVIOUS
<1>1. PICK i \in Wrong : \A j \in Wrong : i <= j
  <2>1. Wrong \in SUBSET Nat
    OBVIOUS
  <2> QED
    BY <2>1, LeastElement
<1>2. i # 0 /\ i \in 1 .. n /\ i - 1 \in 0 .. n
  BY <1>1
<1>3. i - 1 \notin Wrong
  BY <1>1, <1>2
<1> QED
  BY <1>1, <1>2, <1>3

\* Of integers in a row one is the least and one the greatest.
LEMMA Extremes ==
    ASSUME NEW n \in Nat, NEW f, \A i \in 1 .. n : f[i] \in Int
    PROVE  n = 0 \/ \E low, high \in 1 .. n : \A i \in 1 .. n : f[low] <= f[i] /\ f[i] <= f[high]
<1> DEFINE Right == {k \in 0 .. n : k = 0 \/ \E low, high \in 1 .. k :
                        \A i \in 1 .. k : f[low] <= f[i] /\ f[i] <= f[high]}
<1>1. 0 \in Right /\ Right \in SUBSET Nat
  OBVIOUS
<1>2. ASSUME NEW k \in 1 .. n, k - 1 \in Right
      PROVE  k \in Right
  <2>1. CASE k = 1
    <3>1. \A i \in 1 .. 1 : f[1] <= f[i] /\ f[i] <= f[1]
      OBVIOUS
    <3> QED
      BY <2>1, <3>1
  <2>2. CASE k # 1
    <3>1. PICK low \in 1 .. k - 1, high \in 1 .. k - 1 :
             \A i \in 1 .. k - 1 : f[low] <= f[i] /\ f[i] <= f[high]
      BY <1>2, <2>2
    <3> DEFINE down == IF f[k] < f[low] THEN k ELSE low
               up   == IF f[k] > f[high] THEN k ELSE high
    <3>2. \A i \in 1 .. k : f[down] <= f[i] /\ f[i] <= f[up]
      <4> TAKE i \in 1 .. k
      <4>1. i = k \/ i \in 1 .. k - 1
        OBVIOUS
      <4>2. f[k] \in Int /\ f[low] \in Int /\ f[high] \in Int /\ f[i] \in Int
        OBVIOUS
      <4>3. CASE i = k
        BY <3>1, <4>2, <4>3
      <4>4. CASE i \in 1 .. k - 1
        BY <3>1, <4>2, <4>4
      <4> QED
        BY <4>1, <4>3, <4>4
    <3>3. down \in 1 .. k /\ up \in 1 .. k
      OBVIOUS
    <3> HIDE DEF down, up
    <3> QED
      BY <3>2, <3>3
  <2> QED
    BY <2>1, <2>2
<1>3. n \in Right
  BY <1>1, <1>2, StepByStep
<1> QED
  BY <1>3

\* A sequence, whatever it is of.
IsList(s) == s \in Seq(Range(s))

LEMMA Lists ==
    ASSUME NEW n \in Nat, NEW s, s = [i \in 1 .. n |-> s[i]]
    PROVE  IsList(s) /\ Len(s) = n /\ DOMAIN s = 1 .. n
<1>1. DOMAIN s = 1 .. n
  OBVIOUS
<1>2. \A i \in 1 .. n : s[i] \in Range(s)
  BY <1>1 DEF Range
<1> QED
  BY <1>1, <1>2 DEF IsList

LEMMA ListPlaces ==
    ASSUME NEW s, IsList(s)
    PROVE  Len(s) \in Nat /\ DOMAIN s = 1 .. Len(s) /\ s = [i \in 1 .. Len(s) |-> s[i]]
  BY DEF IsList

LEMMA ListsJoin ==
    ASSUME NEW a, NEW b, IsList(a), IsList(b)
    PROVE  IsList(a \o b) /\ Range(a \o b) = Range(a) \cup Range(b)
<1> DEFINE S == Range(a) \cup Range(b)
<1>1. a \in Seq(S) /\ b \in Seq(S)
  BY DEF IsList
<1>2. /\ a \o b \in Seq(S) /\ Len(a \o b) = Len(a) + Len(b)
      /\ \A i \in 1 .. Len(a) + Len(b) : (a \o b)[i] = IF i <= Len(a) THEN a[i] ELSE b[i - Len(a)]
  BY <1>1, ConcatProperties
<1> DEFINE c == a \o b
<1>3. /\ c \in Seq(S) /\ Len(c) = Len(a) + Len(b)
      /\ \A i \in 1 .. Len(a) + Len(b) : c[i] = IF i <= Len(a) THEN a[i] ELSE b[i - Len(a)]
  BY <1>2
<1> HIDE DEF c, S
<1>4. /\ Len(a) \in Nat /\ DOMAIN a = 1 .. Len(a) /\ Len(b) \in Nat /\ DOMAIN b = 1 .. Len(b)
      /\ DOMAIN c = 1 .. Len(a) + Len(b)
  BY <1>1, <1>3
<1>5. Range(c) \subseteq S
  BY <1>3 DEF Range
<1>6. S \subseteq Range(c)
  <2>1. ASSUME NEW i \in DOMAIN a PROVE a[i] \in Range(c)
    <3>1. i \in 1 .. Len(a) + Len(b) /\ i <= Len(a)
      BY <1>4
    <3> QED
      BY <1>3, <1>4, <3>1 DEF Range
  <2>2. ASSUME NEW i \in DOMAIN b PROVE b[i] \in Range(c)
    <3>1. /\ i + Len(a) \in 1 .. Len(a) + Len(b) /\ ~(i + Len(a) <= Len(a))
          /\ i + Len(a) - Len(a) = i
      BY <1>4
    <3>2. c[i + Len(a)] = b[i]
      BY <1>3, <3>1
    <3> QED
      BY <1>4, <3>1, <3>2 DEF Range
  <2> QED
    BY <2>1, <2>2 DEF S, Range
<1>7. Range(c) = S
  BY <1>5, <1>6
<1> QED
  BY <1>3, <1>7 DEF IsList, c, S

\* The k-th of a set of places is there.
LEMMA PlaceInOrder ==
    ASSUME NEW n \in Nat, NEW places \in SUBSET (1 .. n)
    PROVE  /\ Cardinality(places) \in Nat
           /\ \A k \in 1 .. Cardinality(places) :
                 \E i \in places : Cardinality({j \in places : j <= i}) = k
<1>n. \A j \in places : j \in Nat /\ j >= 1 /\ j <= n
  BY places \subseteq 1 .. n
<1> DEFINE UpTo(i) == Cardinality({j \in places : j <= i})
<1>0. IsFiniteSet(places) /\ \A i \in Nat : IsFiniteSet({j \in places : j <= i}) /\ UpTo(i) \in Nat
  <2>1. IsFiniteSet(places)
    BY FS_Interval, FS_Subset, 1 \in Int, n \in Int
  <2>2. \A i \in Nat : {j \in places : j <= i} \subseteq places
    OBVIOUS
  <2> QED
    BY <2>1, <2>2, FS_Subset, FS_CardinalityType
<1>1. Cardinality(places) \in Nat
  BY <1>0, FS_CardinalityType
<1> SUFFICES ASSUME NEW k \in 1 .. Cardinality(places)
             PROVE  \E i \in places : UpTo(i) = k
  BY <1>1
<1> DEFINE Enough == {i \in Nat : UpTo(i) >= k}
<1>2. UpTo(n) = Cardinality(places)
  <2>1. {j \in places : j <= n} = places
    BY <1>n
  <2> QED
    BY <2>1
<1>3. n \in Enough /\ Enough \in SUBSET Nat
  BY <1>1, <1>2
<1>4. PICK i \in Nat : i \in Enough /\ \A m \in Enough : i <= m
  <2> HIDE DEF Enough
  <2> QED
    BY <1>3, LeastElement
<1>5. i # 0
  <2>0. \A j \in places : ~(j <= 0)
    BY <1>n
  <2>1. {j \in places : j <= 0} = {}
    BY <2>0
  <2>2. UpTo(0) = 0
    BY <2>1, FS_EmptySet
  <2>3. UpTo(i) >= k
    BY <1>4
  <2> QED
    BY <2>2, <2>3
<1>6. i - 1 \in Nat /\ UpTo(i - 1) < k
  <2>1. i - 1 \in Nat /\ i - 1 \notin Enough
    <3> HIDE DEF Enough
    <3> QED
      BY <1>4, <1>5
  <2>2. ~(UpTo(i - 1) >= k) /\ UpTo(i - 1) \in Nat
    BY <1>0, <2>1
  <2> HIDE DEF UpTo
  <2> QED
    BY <1>1, <2>1, <2>2
<1>7. i \in places
  <2> SUFFICES ASSUME i \notin places PROVE FALSE
    OBVIOUS
  <2>1. \A j \in places : j <= i <=> j <= i - 1
    BY <1>n
  <2>2. {j \in places : j <= i} = {j \in places : j <= i - 1}
    BY <2>1
  <2>3. UpTo(i) = UpTo(i - 1) /\ UpTo(i) >= k
    BY <1>4, <2>2
  <2>4. UpTo(i - 1) \in Nat
    BY <1>0, <1>6
  <2> HIDE DEF UpTo
  <2> QED
    BY <1>1, <1>6, <2>3, <2>4
<1>8. UpTo(i) = UpTo(i - 1) + 1
  <2> DEFINE Before == {j \in places : j <= i - 1}
  <2>0. \A j \in places : j <= i <=> (j <= i - 1 \/ j = i)
    BY <1>n
  <2>1. {j \in places : j <= i} = Before \cup {i}
    BY <1>7, <2>0, Zenon
  <2>4. i \notin Before
    OBVIOUS
  <2>2. IsFiniteSet(Before)
    BY <1>0, <1>6
  <2> HIDE DEF Before
  <2>3. Cardinality(Before \cup {i}) = Cardinality(Before) + 1
    BY <2>2, <2>4, FS_AddElement
  <2> QED
    BY <2>1, <2>3 DEF Before
<1>9. UpTo(i) \in Nat /\ UpTo(i - 1) \in Nat /\ UpTo(i) >= k
  BY <1>0, <1>4, <1>6
<1> HIDE DEF UpTo
<1> QED
  BY <1>1, <1>6, <1>7, <1>8, <1>9

\* At takes members, and nothing else.
LEMMA AtTakes ==
    ASSUME NEW s, IsList(s), NEW places \in SUBSET DOMAIN s
    PROVE  /\ IsList(At(s, places)) /\ Range(At(s, places)) \subseteq Range(s)
           /\ \A k \in DOMAIN At(s, places) : \E i \in places : At(s, places)[k] = s[i]
<1>1. Len(s) \in Nat /\ DOMAIN s = 1 .. Len(s)
  BY ListPlaces
<1> DEFINE n == Cardinality(places)
           a == At(s, places)
<1>2. n \in Nat /\ \A k \in 1 .. n : \E i \in places : Cardinality({j \in places : j <= i}) = k
  BY <1>1, PlaceInOrder
<1>3. /\ a = [k \in 1 .. n |-> a[k]]
      /\ \A k \in 1 .. n : a[k] = s[CHOOSE i \in places : Cardinality({j \in places : j <= i}) = k]
  BY DEF At
<1> HIDE DEF a, n
<1>4. IsList(a) /\ DOMAIN a = 1 .. n
  BY <1>2, <1>3, Lists
<1>5. \A k \in 1 .. n : \E i \in places : a[k] = s[i]
  BY <1>2, <1>3
<1>6. Range(a) \subseteq Range(s)
  BY <1>4, <1>5 DEF Range
<1> QED
  BY <1>4, <1>5, <1>6 DEF a

-----------------------------------------------------------------------------
(***************************************************************************)
(* Dates.                                                                  *)
(***************************************************************************)

\* The forms have an order.
LEMMA Ranks == \A form \in Dated : Rank(form) \in 1 .. 4
<1>1. DOMAIN Forms = 1 .. 4 /\ Dated = {"iso", "numeric", "dayMonthYear", "monthDayYear"}
  BY DEF Forms, Dated
<1>2. \A form \in Dated : \E i \in DOMAIN Forms : Forms[i] = form
  BY DEF Dated
<1> QED
  BY <1>1, <1>2 DEF Rank

LEMMA Tokens ==
    ASSUME NEW text \in Seq(Token), NEW i \in DOMAIN text
    PROVE  text[i].year \in Nat /\ text[i].day \in Nat
<1>1. text[i] \in Token
  OBVIOUS
<1> QED
  BY <1>1 DEF Token

LEMMA Texts ==
    ASSUME NEW text \in Seq(Token)
    PROVE  Len(text) \in Nat /\ DOMAIN text = 1 .. Len(text)
  OBVIOUS

\* A borrowed year is a year.
LEMMA HintType ==
    ASSUME NEW text \in Seq(Token), NEW now \in Int
    PROVE  YearHint(text, now) \in Int
<1> DEFINE dated == DatedAt(text)
           n == Len(text)
           later(i, j) == \/ Rank(text[i].form) < Rank(text[j].form)
                          \/ Rank(text[i].form) = Rank(text[j].form) /\ i <= j
           last == CHOOSE j \in dated : \A i \in dated : later(i, j)
<1>1. YearHint(text, now) = IF dated = {} THEN now \div YearLength ELSE text[last].year
  BY DEF YearHint
<1>2. now \div YearLength \in Int
  BY CalendarAssumption
<1>3. n \in Nat /\ dated \subseteq 1 .. n /\ \A i \in dated : Rank(text[i].form) \in 1 .. 4
  BY Ranks, Texts DEF DatedAt
<1>4. ASSUME dated # {} PROVE text[last].year \in Int
  <2> DEFINE Place(i) == (4 - Rank(text[i].form)) * (n + 1) + (n - i)
             Places == {Place(i) : i \in dated}
  <2>1. \A i \in dated : Place(i) \in Nat
    <3> TAKE i \in dated
    <3> DEFINE r == 4 - Rank(text[i].form)
    <3>1. r \in Nat /\ n + 1 \in Nat /\ n - i \in Nat
      BY <1>3
    <3> HIDE DEF r
    <3>2. r * (n + 1) \in Nat
      BY <3>1
    <3> QED
      BY <3>1, <3>2 DEF r
  <2>2. PICK j \in dated : \A i \in dated : Place(j) <= Place(i)
    <3>1. Places \in SUBSET Nat /\ Places # {}
      BY <1>4, <2>1
    <3>2. PICK p \in Places : \A q \in Places : p <= q
      BY <3>1, LeastElement
    <3> QED
      BY <3>2
  <2>3. \A i \in dated : later(i, j)
    <3> TAKE i \in dated
    <3> DEFINE a == Rank(text[i].form)
               b == Rank(text[j].form)
    <3>1. a \in 1 .. 4 /\ b \in 1 .. 4 /\ i \in 1 .. n /\ j \in 1 .. n
      BY <1>3
    <3>2. (4 - b) * (n + 1) + (n - j) <= (4 - a) * (n + 1) + (n - i)
      BY <2>2
    <3> HIDE DEF a, b
    <3>3. a < b \/ (a = b /\ i <= j)
      <4>1. a = 1 \/ a = 2 \/ a = 3 \/ a = 4
        BY <3>1
      <4>2. b = 1 \/ b = 2 \/ b = 3 \/ b = 4
        BY <3>1
      <4> QED
        BY <1>3, <3>1, <3>2, <4>1, <4>2
    <3> QED
      BY <3>3 DEF a, b
  <2> HIDE DEF later
  <2>4. last \in dated
    BY <2>3
  <2> HIDE DEF last
  <2>5. last \in DOMAIN text
    BY <2>4 DEF DatedAt
  <2> QED
    BY <2>5, Tokens
<1> QED
  BY <1>1, <1>2, <1>4

\* The dates of a text are days, at places of the text.
LEMMA FoundType ==
    ASSUME NEW text \in Seq(Token), NEW now \in Int
    PROVE  FindDates(text, now) \subseteq [at : 1 .. Len(text), when : Int]
<1> DEFINE hint == YearHint(text, now)
<1>1. hint \in Int
  BY HintType
<1> HIDE DEF hint
<1>2. \A i \in DOMAIN text : When(text[i], hint) \in Int
  <2> TAKE i \in DOMAIN text
  <2>1. text[i].year \in Int /\ text[i].day \in Int /\ YearLength \in Int
    BY Tokens, CalendarAssumption
  <2>2. hint * YearLength \in Int /\ text[i].year * YearLength \in Int
    BY <1>1, <2>1
  <2> QED
    BY <2>1, <2>2 DEF When
<1>3. Located(text, hint) \subseteq [at : 1 .. Len(text), when : Int]
  BY <1>2, Texts DEF Located
<1> QED
  BY <1>3 DEF FindDates, hint

\* What a text says is a range: the first and the last date there are.
LEMMA ParsedType ==
    ASSUME NEW text \in Seq(Token), NEW now \in Int
    PROVE  ParseDateRange(text, now) \in DateRange
<1> DEFINE dates == FindDates(text, now)
           n == Len(text)
<1>1. dates \subseteq [at : 1 .. n, when : Int] /\ n \in Nat
  BY FoundType, Texts
<1> HIDE DEF dates
<1> DEFINE first == CHOOSE d \in dates : \A e \in dates : d.at <= e.at
           last  == CHOOSE d \in dates : \A e \in dates : e.at <= d.at
<1>2. ASSUME dates # {}
      PROVE  first \in dates /\ last \in dates
  <2>1. \A d \in dates : d.at \in Nat /\ d.at <= n /\ n - d.at \in Nat
    BY <1>1
  <2>2. \E d \in dates : \A e \in dates : d.at <= e.at
    <3> DEFINE places == {d.at : d \in dates}
    <3>1. places \in SUBSET Nat /\ places # {}
      BY <1>2, <2>1
    <3>2. PICK p \in places : \A q \in places : p <= q
      BY <3>1, LeastElement
    <3> QED
      BY <3>2
  <2>3. \E d \in dates : \A e \in dates : e.at <= d.at
    <3> DEFINE places == {n - d.at : d \in dates}
    <3>1. places \in SUBSET Nat /\ places # {}
      BY <1>2, <2>1
    <3>2. PICK p \in places : \A q \in places : p <= q
      BY <3>1, LeastElement
    <3>3. PICK d \in dates : p = n - d.at
      BY <3>2
    <3>4. \A e \in dates : n - d.at <= n - e.at
      BY <3>2, <3>3
    <3>5. \A e \in dates : e.at <= d.at
      BY <1>1, <2>1, <3>4
    <3> QED
      BY <3>5
  <2> QED
    BY <2>2, <2>3
<1> HIDE DEF first, last
<1>3. dates # {} => first.when \in Int /\ last.when \in Int
  BY <1>1, <1>2
<1>4. dates # {} => OneDate(text, first) \in DateRange
  BY <1>3 DEF OneDate, Unknown, DateRange
<1>5. \A a, b \in Int : Min({a, b}) \in Int /\ Max({a, b}) \in Int
  BY DEF Min, Max
<1>6. CASE Says(text, "ongoing")
  <2>1. ParseDateRange(text, now) = [start |-> IF dates = {} THEN NoDate ELSE first.when,
                                    end |-> NoDate, permanent |-> TRUE]
    BY <1>6 DEF ParseDateRange, RangeIn, dates, first
  <2> QED
    BY <1>3, <2>1 DEF DateRange
<1>7. CASE ~Says(text, "ongoing") /\ dates = {}
  <2>1. Cardinality(dates) # 1
    BY <1>7, FS_EmptySet
  <2>2. ParseDateRange(text, now) = Unknown
    BY <1>7, <2>1 DEF ParseDateRange, RangeIn, dates
  <2> QED
    BY <2>2 DEF Unknown, DateRange
<1>8. CASE ~Says(text, "ongoing") /\ dates # {} /\ Cardinality(dates) = 1
  <2>1. ParseDateRange(text, now) = OneDate(text, first)
    BY <1>8 DEF ParseDateRange, RangeIn, dates, first
  <2> QED
    BY <1>4, <1>8, <2>1
<1>9. CASE ~Says(text, "ongoing") /\ dates # {} /\ Cardinality(dates) # 1
  <2>1. ParseDateRange(text, now) = [start |-> Min({first.when, last.when}),
                                    end |-> Max({first.when, last.when}), permanent |-> FALSE]
    BY <1>9 DEF ParseDateRange, RangeIn, dates, first, last
  <2>2. Min({first.when, last.when}) \in Int /\ Max({first.when, last.when}) \in Int
    BY <1>3, <1>5, <1>9
  <2> QED
    BY <2>1, <2>2 DEF DateRange
<1> QED
  BY <1>6, <1>7, <1>8, <1>9

\* So do the stamps of a card.
LEMMA StampedType ==
    ASSUME NEW stamps \in Seq(Int)
    PROVE  StampedRange(stamps) \in DateRange
<1> DEFINE m == Min({Len(stamps), MaxCardTimes})
           read == {stamps[i] : i \in 1 .. m}
<1>1. Len(stamps) \in Nat /\ MaxCardTimes \in Nat \ {0}
  BY CalendarAssumption
<1>2. m \in Nat /\ m <= Len(stamps) /\ (Len(stamps) # 0 => m # 0)
  <2>1. ASSUME NEW a \in Nat, NEW b \in Nat
        PROVE  Min({a, b}) \in {a, b} /\ Min({a, b}) <= a
    <3>1. \E x \in {a, b} : \A y \in {a, b} : x <= y
      <4>1. CASE a <= b
        BY <4>1
      <4>2. CASE ~(a <= b)
        BY <4>2
      <4> QED
        BY <4>1, <4>2
    <3>2. Min({a, b}) \in {a, b} /\ \A y \in {a, b} : Min({a, b}) <= y
      BY <3>1 DEF Min
    <3> QED
      BY <3>2
  <2> HIDE DEF m
  <2>2. m \in {Len(stamps), MaxCardTimes} /\ m <= Len(stamps)
    BY <1>1, <2>1 DEF m
  <2> QED
    BY <1>1, <2>2
<1> HIDE DEF m
<1>3. \A i \in 1 .. m : stamps[i] \in Int
  BY <1>1, <1>2
<1>4. ASSUME m # 0
      PROVE  Min(read) \in Int /\ Max(read) \in Int
  <2>1. PICK low \in 1 .. m, high \in 1 .. m :
           \A i \in 1 .. m : stamps[low] <= stamps[i] /\ stamps[i] <= stamps[high]
    BY <1>2, <1>3, <1>4, Extremes
  <2>2. stamps[low] \in read /\ \A y \in read : stamps[low] <= y
    BY <2>1
  <2>3. stamps[high] \in read /\ \A y \in read : stamps[high] >= y
    BY <1>3, <2>1
  <2>4. read \subseteq Int
    BY <1>3
  <2> HIDE DEF read
  <2>5. Min(read) \in read
    BY <2>2 DEF Min
  <2>6. Max(read) \in read
    BY <2>3 DEF Max
  <2> QED
    BY <2>4, <2>5, <2>6
<1>5. CASE Len(stamps) < 2
  BY <1>5 DEF StampedRange, Unknown, DateRange
<1>6. CASE ~(Len(stamps) < 2)
  <2>1. StampedRange(stamps) = [start |-> Min(read), end |-> Max(read), permanent |-> FALSE]
    BY <1>6 DEF StampedRange, m
  <2>2. Min(read) \in Int /\ Max(read) \in Int
    BY <1>1, <1>2, <1>4, <1>6
  <2> HIDE DEF read
  <2> QED
    BY <2>1, <2>2 DEF DateRange
<1> QED
  BY <1>5, <1>6

\* The dates of a candidate, whether it came with some or not.
LEMMA DatesType ==
    ASSUME NEW c, c.dates \in DateRange, c.context \in Seq(Token), NEW now \in Int
    PROVE  DatesFor(c, now) \in DateRange
<1>1. ParseDateRange(c.context, now) \in DateRange
  BY ParsedType
<1>2. \A r \in DateRange : ResolveOpenEnd(r, now) \in DateRange
  BY DEF ResolveOpenEnd, DateRange
<1> QED
  BY <1>1, <1>2 DEF DatesFor

-----------------------------------------------------------------------------
(***************************************************************************)
(* What a page lists.                                                      *)
(***************************************************************************)

\* What is read of a candidate later on.
IsCandidateRecord(c) ==
    "dates" \in DOMAIN c /\ c.dates \in DateRange /\ c.context \in Seq(Token)

\* An entry that can be folded into another of its title.
IsEntry(e) ==
    /\ {"title", "url", "start", "end", "permanent"} \subseteq DOMAIN e
    /\ e.start \in Int \cup {NoDate} /\ e.end \in Int \cup {NoDate}

LEMMA FirstPerUrlTakes ==
    ASSUME NEW s, IsList(s)
    PROVE  IsList(FirstPerUrl(s)) /\ Range(FirstPerUrl(s)) \subseteq Range(s)
<1> DEFINE places == {i \in DOMAIN s : \A j \in 1 .. i - 1 : s[j].url # s[i].url}
<1>1. places \in SUBSET DOMAIN s
  OBVIOUS
<1>2. FirstPerUrl(s) = At(s, places)
  BY DEF FirstPerUrl
<1> HIDE DEF places
<1> QED
  BY <1>1, <1>2, AtTakes

LEMMA LinkedCandidates ==
    ASSUME NEW page, IsPage(page), NEW base
    PROVE  /\ IsList(ExtractCandidates(page, base))
           /\ \A c \in Range(ExtractCandidates(page, base)) : IsCandidateRecord(c) /\ c.url.host = base.host
<1> DEFINE places == {i \in DOMAIN page.links : /\ IsCandidate(page.links[i], page, base)
                                               /\ ~IsNavigationLink(page.links[i].to, base)}
           links == At(page.links, places)
           read == [i \in DOMAIN links |-> CandidateFrom(links[i], page)]
           all == FirstPerUrl(read)
           strong == {i \in DOMAIN all : IsStrong(all[i].url.path)}
<1>1. /\ IsList(page.links) /\ places \in SUBSET DOMAIN page.links
      /\ \A i \in places : page.links[i].to.host = base.host
  BY DEF IsPage, IsList, IsCandidate
<1>2. ExtractCandidates(page, base) = IF strong # {} THEN At(all, strong) ELSE all
  BY DEF ExtractCandidates
<1> HIDE DEF places
<1>3. IsList(links) /\ \A k \in DOMAIN links : \E i \in places : links[k] = page.links[i]
  BY <1>1, AtTakes
<1> HIDE DEF links
<1>4. \A k \in DOMAIN links : /\ IsCandidateRecord(CandidateFrom(links[k], page))
                             /\ CandidateFrom(links[k], page).url.host = base.host
  <2> TAKE k \in DOMAIN links
  <2>1. /\ links[k].stamps \in Seq(Int) /\ links[k].context \in Seq(Token)
        /\ links[k].to.host = base.host
    BY <1>1, <1>3 DEF IsPage
  <2>2. StampedRange(links[k].stamps) \in DateRange
    BY <2>1, StampedType
  <2> QED
    BY <2>1, <2>2 DEF CandidateFrom, IsCandidateRecord
<1>5. IsList(read) /\ \A c \in Range(read) : IsCandidateRecord(c) /\ c.url.host = base.host
  <2>1. Len(links) \in Nat /\ DOMAIN links = 1 .. Len(links)
    BY <1>3, ListPlaces
  <2>2. read = [i \in 1 .. Len(links) |-> read[i]] /\ DOMAIN read = DOMAIN links
    BY <2>1
  <2>3. \A i \in DOMAIN links : IsCandidateRecord(read[i]) /\ read[i].url.host = base.host
    BY <1>4
  <2> HIDE DEF read
  <2> QED
    BY <2>1, <2>2, <2>3, Lists DEF Range
<1> HIDE DEF read
<1>6. IsList(all) /\ Range(all) \subseteq Range(read)
  BY <1>5, FirstPerUrlTakes
<1> HIDE DEF all
<1>7. IsList(At(all, strong)) /\ Range(At(all, strong)) \subseteq Range(all)
  BY <1>6, AtTakes, strong \in SUBSET DOMAIN all
<1> HIDE DEF strong
<1> QED
  BY <1>2, <1>5, <1>6, <1>7

LEMMA DeclaredCandidates ==
    ASSUME NEW page, IsPage(page), NEW base
    PROVE  /\ IsList(ExtractJSONLDCandidates(page, base))
           /\ \A c \in Range(ExtractJSONLDCandidates(page, base)) : IsCandidateRecord(c) /\ c.url.host = base.host
<1> DEFINE places == {i \in DOMAIN page.declared : IsDeclared(page.declared[i], base)}
           events == At(page.declared, places)
           read == [i \in DOMAIN events |-> CandidateFromJSONLD(events[i])]
<1>1. /\ IsList(page.declared) /\ places \in SUBSET DOMAIN page.declared
      /\ \A i \in places : page.declared[i].to.host = base.host
  BY DEF IsPage, IsList, IsDeclared
<1>2. ExtractJSONLDCandidates(page, base) = FirstPerUrl(read)
  BY DEF ExtractJSONLDCandidates
<1> HIDE DEF places
<1>3. IsList(events) /\ \A k \in DOMAIN events : \E i \in places : events[k] = page.declared[i]
  BY <1>1, AtTakes
<1> HIDE DEF events
<1>4. \A k \in DOMAIN events : /\ IsCandidateRecord(CandidateFromJSONLD(events[k]))
                              /\ CandidateFromJSONLD(events[k]).url.host = base.host
  <2> TAKE k \in DOMAIN events
  <2>1. /\ events[k].start \in Int \cup {NoDate} /\ events[k].end \in Int \cup {NoDate}
        /\ events[k].to.host = base.host
    BY <1>1, <1>3 DEF IsPage
  <2>2. DeclaredRange(events[k]).permanent \in BOOLEAN
    BY DEF DeclaredRange, NamesPermanent
  <2>3. DeclaredRange(events[k]) \in DateRange
    BY <2>1, <2>2 DEF DeclaredRange, DateRange
  <2>4. <<>> \in Seq(Token)
    OBVIOUS
  <2> QED
    BY <2>1, <2>3, <2>4 DEF CandidateFromJSONLD, IsCandidateRecord
<1>5. IsList(read) /\ \A c \in Range(read) : IsCandidateRecord(c) /\ c.url.host = base.host
  <2>1. Len(events) \in Nat /\ DOMAIN events = 1 .. Len(events)
    BY <1>3, ListPlaces
  <2>2. read = [i \in 1 .. Len(events) |-> read[i]] /\ DOMAIN read = DOMAIN events
    BY <2>1
  <2>3. \A i \in DOMAIN events : IsCandidateRecord(read[i]) /\ read[i].url.host = base.host
    BY <1>4
  <2> HIDE DEF read
  <2> QED
    BY <2>1, <2>2, <2>3, Lists DEF Range
<1> HIDE DEF read
<1> QED
  BY <1>2, <1>5, FirstPerUrlTakes

LEMMA PageCandidates ==
    ASSUME NEW page, IsPage(page), NEW base
    PROVE  /\ IsList(CandidatesOn(page, base))
           /\ \A c \in Range(CandidatesOn(page, base)) : IsCandidateRecord(c) /\ c.url.host = base.host
<1> DEFINE a == ExtractJSONLDCandidates(page, base)
           b == ExtractCandidates(page, base)
<1>1. IsList(a) /\ IsList(b) /\ \A c \in Range(a) \cup Range(b) : IsCandidateRecord(c) /\ c.url.host = base.host
  BY LinkedCandidates, DeclaredCandidates
<1>2. CandidatesOn(page, base) = FirstPerUrl(a \o b)
  BY DEF CandidatesOn
<1> HIDE DEF a, b
<1> QED
  BY <1>1, <1>2, ListsJoin, FirstPerUrlTakes

\* Reading the dates of candidates leaves them dated.
LEMMA DatedCandidates ==
    ASSUME NEW s, IsList(s), \A c \in Range(s) : IsCandidateRecord(c)
    PROVE  /\ IsList(WithDates(s)) /\ \A c \in Range(WithDates(s)) : c.dates \in DateRange
<1> DEFINE d == WithDates(s)
<1>1. Len(s) \in Nat /\ DOMAIN s = 1 .. Len(s)
  BY ListPlaces
<1>2. /\ d = [i \in 1 .. Len(s) |-> d[i]]
      /\ \A i \in 1 .. Len(s) : d[i] = [s[i] EXCEPT !.dates = DatesFor(s[i], Now)]
  BY <1>1 DEF WithDates
<1> HIDE DEF d
<1>3. \A i \in 1 .. Len(s) : d[i].dates \in DateRange
  <2> TAKE i \in 1 .. Len(s)
  <2>1. IsCandidateRecord(s[i])
    BY <1>1 DEF Range
  <2>2. DatesFor(s[i], Now) \in DateRange
    BY <2>1, SiteAssumption, DatesType DEF IsCandidateRecord
  <2> QED
    BY <1>2, <2>1, <2>2 DEF IsCandidateRecord
<1>4. IsList(d) /\ DOMAIN d = 1 .. Len(s)
  BY <1>1, <1>2, Lists
<1> QED
  BY <1>3, <1>4 DEF Range, d

LEMMA EntriesListed ==
    ASSUME NEW s, IsList(s), \A c \in Range(s) : c.dates \in DateRange,
           NEW pagePermanent, NEW pageUndated, NEW url
    PROVE  LET es == Entries(s, pagePermanent, pageUndated, url) IN
           IsList(es) /\ \A e \in Range(es) : IsEntry(e)
<1> DEFINE places == {i \in DOMAIN s : Keeps(s[i], pagePermanent, pageUndated)}
           kept == At(s, places)
           es == Entries(s, pagePermanent, pageUndated, url)
<1>1. es = [i \in DOMAIN kept |-> EntryFor(kept[i], pagePermanent, pageUndated, url)]
  BY DEF Entries
<1>2. places \in SUBSET DOMAIN s
  OBVIOUS
<1> HIDE DEF places
<1>3. IsList(kept) /\ Range(kept) \subseteq Range(s)
  BY <1>2, AtTakes
<1> HIDE DEF kept, es
<1>4. Len(kept) \in Nat /\ DOMAIN kept = 1 .. Len(kept)
  BY <1>3, ListPlaces
<1>5. \A i \in DOMAIN kept : IsEntry(EntryFor(kept[i], pagePermanent, pageUndated, url))
  <2> TAKE i \in DOMAIN kept
  <2>1. kept[i].dates \in DateRange
    BY <1>3 DEF Range
  <2> QED
    BY <2>1 DEF EntryFor, Entry, IsEntry, DateRange
<1>6. es = [i \in 1 .. Len(kept) |-> es[i]] /\ \A i \in 1 .. Len(kept) : IsEntry(es[i])
  BY <1>1, <1>4, <1>5
<1>7. IsList(es) /\ DOMAIN es = 1 .. Len(kept)
  BY <1>4, <1>6, Lists
<1> QED
  BY <1>6, <1>7 DEF Range, es

LEMMA Harvested ==
    ASSUME NEW page, IsPage(page), NEW url, NEW assumePermanent, NEW readAsListing
    PROVE  LET es == Harvest(page, url, assumePermanent, readAsListing) IN
           IsList(es) /\ \A e \in Range(es) : IsEntry(e)
<1> DEFINE candidates == WithDates(CandidatesOn(page, url))
           others == {i \in DOMAIN candidates : candidates[i].url \notin readAsListing}
           rest == At(candidates, others)
           permanent == assumePermanent \/ IsPermanentListing(page, url)
           undated == UndatedListing(NamesExhibitions(page, url), candidates)
           es == Entries(rest, permanent, undated, url)
           shown == {i \in DOMAIN es : es[i].running \/ es[i].upcoming}
<1>1. Harvest(page, url, assumePermanent, readAsListing) = At(es, shown)
  BY DEF Harvest
<1>2. IsList(candidates) /\ \A c \in Range(candidates) : c.dates \in DateRange
  BY PageCandidates, DatedCandidates
<1>3. others \in SUBSET DOMAIN candidates
  OBVIOUS
<1> HIDE DEF candidates, others
<1>4. IsList(rest) /\ Range(rest) \subseteq Range(candidates)
  BY <1>2, <1>3, AtTakes
<1> HIDE DEF rest, permanent, undated
<1>5. IsList(es) /\ \A e \in Range(es) : IsEntry(e)
  BY <1>2, <1>4, EntriesListed
<1>6. shown \in SUBSET DOMAIN es
  OBVIOUS
<1> HIDE DEF es, shown
<1> QED
  BY <1>1, <1>5, <1>6, AtTakes

-----------------------------------------------------------------------------
(***************************************************************************)
(* One entry per title.                                                    *)
(***************************************************************************)

\* What one entry says another's dates are part of.
Covers(e, x) ==
    /\ e.title = x.title
    /\ \/ e.permanent
       \/ /\ x.start # NoDate => e.start # NoDate /\ e.start <= x.start
          /\ x.end # NoDate => e.end # NoDate /\ e.end >= x.end

LEMMA Widens ==
    ASSUME NEW k, IsEntry(k), NEW e, IsEntry(e), k.title = e.title
    PROVE  LET w == Widen(k, e) IN
           /\ IsEntry(w) /\ Covers(w, e)
           /\ \A x : IsEntry(x) /\ Covers(k, x) => Covers(w, x)
<1> DEFINE w == Widen(k, e)
<1>1. CASE k.permanent
  <2>1. w = k
    BY <1>1 DEF Widen
  <2> QED
    BY <1>1, <2>1 DEF Covers
<1>2. CASE ~k.permanent
  <2>1. /\ DOMAIN w = DOMAIN k /\ w.title = k.title /\ w.permanent = k.permanent
        /\ w.start = IF Earlier(k.start, e.start) THEN e.start ELSE k.start
        /\ w.end = IF Later(k.end, e.end) THEN e.end ELSE k.end
    BY <1>2 DEF Widen, IsEntry
  <2> HIDE DEF w
  <2>2. /\ NoDate \notin Int
        /\ k.start \in Int \cup {NoDate} /\ e.start \in Int \cup {NoDate}
        /\ k.end \in Int \cup {NoDate} /\ e.end \in Int \cup {NoDate}
    BY CalendarAssumption DEF IsEntry
  <2>3. /\ w.start \in {k.start, e.start}
        /\ k.start # NoDate => w.start # NoDate /\ w.start <= k.start
        /\ e.start # NoDate => w.start # NoDate /\ w.start <= e.start
    BY <2>1, <2>2 DEF Earlier
  <2>4. /\ w.end \in {k.end, e.end}
        /\ k.end # NoDate => w.end # NoDate /\ w.end >= k.end
        /\ e.end # NoDate => w.end # NoDate /\ w.end >= e.end
    BY <2>1, <2>2 DEF Later
  <2>5. IsEntry(w)
    BY <2>1, <2>2, <2>3, <2>4 DEF IsEntry
  <2>6. Covers(w, e)
    BY <2>1, <2>3, <2>4 DEF Covers
  <2>7. ASSUME NEW x, IsEntry(x), Covers(k, x)
        PROVE  Covers(w, x)
    <3>1. x.start \in Int \cup {NoDate} /\ x.end \in Int \cup {NoDate}
      BY <2>7 DEF IsEntry
    <3>2. /\ k.title = x.title
          /\ x.start # NoDate => k.start # NoDate /\ k.start <= x.start
          /\ x.end # NoDate => k.end # NoDate /\ k.end >= x.end
      BY <1>2, <2>7 DEF Covers
    <3>3. x.start # NoDate => w.start # NoDate /\ w.start <= x.start
      BY <2>2, <2>3, <3>1, <3>2
    <3>4. x.end # NoDate => w.end # NoDate /\ w.end >= x.end
      BY <2>2, <2>4, <3>1, <3>2
    <3> QED
      BY <2>1, <3>2, <3>3, <3>4 DEF Covers
  <2> QED
    BY <2>5, <2>6, <2>7 DEF w
<1> QED
  BY <1>1, <1>2

\* Folding an entry in covers it, and all that was covered.
LEMMA FoldCovers ==
    ASSUME NEW s, IsList(s), \A e \in Range(s) : IsEntry(e), NEW e, IsEntry(e)
    PROVE  /\ IsList(Fold(s, e)) /\ \A k \in Range(Fold(s, e)) : IsEntry(k)
           /\ \E k \in Range(Fold(s, e)) : Covers(k, e)
           /\ \A x : IsEntry(x) /\ (\E k \in Range(s) : Covers(k, x))
                 => \E k \in Range(Fold(s, e)) : Covers(k, x)
<1> DEFINE n == Len(s)
           t == Fold(s, e)
<1>1. n \in Nat /\ DOMAIN s = 1 .. n /\ \A i \in 1 .. n : s[i] \in Range(s) /\ IsEntry(s[i])
  BY ListPlaces DEF Range
<1>2. Covers(e, e)
  BY CalendarAssumption DEF Covers, IsEntry
<1>3. CASE \E i \in DOMAIN s : s[i].title = e.title
  <2>1. t = [i \in 1 .. n |-> IF s[i].title = e.title THEN Widen(s[i], e) ELSE s[i]]
    BY <1>1, <1>3 DEF Fold
  <2> HIDE DEF t
  <2>2. IsList(t) /\ DOMAIN t = 1 .. n
    BY <1>1, <2>1, Lists
  <2>3. ASSUME NEW i \in 1 .. n
        PROVE  /\ IsEntry(t[i]) /\ (s[i].title = e.title => Covers(t[i], e))
               /\ \A x : IsEntry(x) /\ Covers(s[i], x) => Covers(t[i], x)
    <3>1. CASE s[i].title = e.title
      <4>1. t[i] = Widen(s[i], e) /\ IsEntry(s[i])
        BY <1>1, <2>1, <3>1
      <4> QED
        BY <3>1, <4>1, Widens
    <3>2. CASE s[i].title # e.title
      BY <1>1, <2>1, <3>2
    <3> QED
      BY <3>1, <3>2
  <2>4. \A i \in 1 .. n : t[i] \in Range(t)
    BY <2>2 DEF Range
  <2>5. \A k \in Range(t) : IsEntry(k)
    BY <2>2, <2>3 DEF Range
  <2>6. \E k \in Range(t) : Covers(k, e)
    BY <1>1, <1>3, <2>3, <2>4
  <2>7. ASSUME NEW x, IsEntry(x), NEW k \in Range(s), Covers(k, x)
        PROVE  \E j \in Range(t) : Covers(j, x)
    <3>1. PICK i \in 1 .. n : k = s[i]
      BY <1>1 DEF Range
    <3> QED
      BY <2>3, <2>4, <2>7, <3>1
  <2> QED
    BY <2>2, <2>5, <2>6, <2>7 DEF t
<1>4. CASE ~\E i \in DOMAIN s : s[i].title = e.title
  <2>1. t = Append(s, e)
    BY <1>4 DEF Fold
  <2> HIDE DEF t
  <2>2. s \in Seq(Range(s) \cup {e})
    BY DEF IsList
  <2>3. /\ Len(t) = n + 1 /\ DOMAIN t = 1 .. n + 1 /\ t \in Seq(Range(s) \cup {e})
        /\ t[n + 1] = e /\ \A i \in 1 .. n : t[i] = s[i]
    BY <1>1, <2>1, <2>2
  <2>4. t = [i \in 1 .. n + 1 |-> t[i]] /\ n + 1 \in Nat
    BY <1>1, <2>3
  <2>5. IsList(t)
    BY <2>4, Lists
  <2>6. Range(t) = Range(s) \cup {e}
    <3>1. Range(t) \subseteq Range(s) \cup {e}
      BY <2>3 DEF Range
    <3>2. e \in Range(t)
      <4>1. n + 1 \in DOMAIN t
        BY <1>1, <2>3
      <4> QED
        BY <2>3, <4>1 DEF Range
    <3>3. Range(s) \subseteq Range(t)
      <4>1. \A i \in 1 .. n : i \in DOMAIN t
        BY <1>1, <2>3
      <4> QED
        BY <1>1, <2>3, <4>1 DEF Range
    <3> QED
      BY <3>1, <3>2, <3>3
  <2> QED
    BY <1>2, <2>5, <2>6 DEF t
<1> QED
  BY <1>3, <1>4

\* Dedupe is what its definition says: one entry folded in after another.
LEMMA DedupeSteps ==
    ASSUME NEW entries, Len(entries) \in Nat
    PROVE  \E after : /\ after[0] = <<>>
                      /\ \A n \in 1 .. Len(entries) : after[n] = Fold(after[n - 1], entries[n])
                      /\ Dedupe(entries) = after[Len(entries)]
<1> DEFINE F(k, g) == g = [n \in 0 .. k |-> IF n = 0 THEN <<>> ELSE Fold(g[n - 1], entries[n])]
           Good == {k \in Nat : \E g : F(k, g)}
<1> HIDE DEF F
<1>1. 0 \in Good
  <2>1. F(0, [n \in 0 .. 0 |-> <<>>])
    BY DEF F
  <2> QED
    BY <2>1
<1>2. ASSUME NEW k \in 1 .. Len(entries), k - 1 \in Good
      PROVE  k \in Good
  <2>1. PICK g : F(k - 1, g)
    BY <1>2
  <2> DEFINE h == [n \in 0 .. k |-> IF n = k THEN Fold(g[k - 1], entries[k]) ELSE g[n]]
  <2>2. F(k, h)
    BY <2>1 DEF F
  <2> QED
    BY <2>2
<1>3. Len(entries) \in Good
  BY <1>1, <1>2, StepByStep
<1> DEFINE after == CHOOSE g : F(Len(entries), g)
<1>4. F(Len(entries), after)
  BY <1>3
<1>5. Dedupe(entries) = after[Len(entries)]
  BY Zenon DEF Dedupe, F, after
<1> HIDE DEF after
<1>6. \A n \in 0 .. Len(entries) :
         after[n] = IF n = 0 THEN <<>> ELSE Fold(after[n - 1], entries[n])
  BY <1>4, Zenon DEF F
<1>7. /\ after[0] = <<>>
      /\ \A n \in 1 .. Len(entries) : after[n] = Fold(after[n - 1], entries[n])
  BY <1>6
<1> QED
  BY <1>5, <1>7

\* What is kept covers every entry there was.
LEMMA DedupeCovers ==
    ASSUME NEW entries, IsList(entries), \A e \in Range(entries) : IsEntry(e)
    PROVE  \A i \in DOMAIN entries : \E k \in Range(Dedupe(entries)) : Covers(k, entries[i])
<1> DEFINE n == Len(entries)
<1>1. n \in Nat /\ DOMAIN entries = 1 .. n /\ \A i \in 1 .. n : IsEntry(entries[i])
  BY ListPlaces DEF Range
<1>2. PICK after : /\ after[0] = <<>>
                   /\ \A m \in 1 .. n : after[m] = Fold(after[m - 1], entries[m])
                   /\ Dedupe(entries) = after[n]
  BY <1>1, DedupeSteps
<1> DEFINE Fine(m) == /\ IsList(after[m]) /\ \A e \in Range(after[m]) : IsEntry(e)
                      /\ \A i \in 1 .. m : \E k \in Range(after[m]) : Covers(k, entries[i])
           Right == {m \in 0 .. n : Fine(m)}
<1>3. 0 \in Right
  <2>1. IsList(<<>>) /\ Range(<<>>) = {}
    BY DEF IsList, Range
  <2> QED
    BY <1>1, <1>2, <2>1
<1>4. ASSUME NEW m \in 1 .. n, m - 1 \in Right
      PROVE  m \in Right
  <2>1. Fine(m - 1) /\ IsEntry(entries[m]) /\ after[m] = Fold(after[m - 1], entries[m])
    BY <1>1, <1>2, <1>4
  <2>2. /\ IsList(after[m]) /\ \A e \in Range(after[m]) : IsEntry(e)
        /\ \E k \in Range(after[m]) : Covers(k, entries[m])
        /\ \A x : IsEntry(x) /\ (\E k \in Range(after[m - 1]) : Covers(k, x))
              => \E k \in Range(after[m]) : Covers(k, x)
    BY <2>1, FoldCovers
  <2>3. \A i \in 1 .. m : \E k \in Range(after[m]) : Covers(k, entries[i])
    <3> TAKE i \in 1 .. m
    <3>1. CASE i = m
      BY <2>2, <3>1
    <3>2. CASE i \in 1 .. m - 1
      <4>1. IsEntry(entries[i])
        BY <1>1, <3>2
      <4> QED
        BY <2>1, <2>2, <3>2, <4>1
    <3> QED
      BY <3>1, <3>2
  <2> QED
    BY <2>2, <2>3
<1> HIDE DEF Fine
<1>5. Right \in SUBSET Nat
  OBVIOUS
<1>6. n \in Right
  BY <1>1, <1>3, <1>4, <1>5, StepByStep
<1>7. Fine(n)
  BY <1>6
<1> QED
  BY <1>1, <1>2, <1>7 DEF Fine

-----------------------------------------------------------------------------
\* What has been found so far.
FoundInv == /\ site \in Sites
            /\ IsList(found) /\ \A e \in Range(found) : IsEntry(e)

LEMMA FoundNothing == IsList(<<>>) /\ \A e \in Range(<<>>) : IsEntry(e)
<1>1. Range(<<>>) = {}
  BY DEF Range
<1> QED
  BY <1>1 DEF IsList

LEMMA FoundInit == ReadingInit => FoundInv
  BY FoundNothing DEF ReadingInit, FoundInv

LEMMA FoundMore ==
    ASSUME FoundInv, NEW next, NEW assumePermanent, ReadNext(next, assumePermanent)
    PROVE  IsList(found') /\ \A e \in Range(found') : IsEntry(e)
<1>1. CASE UNCHANGED found
  BY <1>1 DEF FoundInv
<1>2. CASE ~ UNCHANGED found
  <2> DEFINE url == Head(next)
             es == Harvest(site.pages[url], url, assumePermanent, ReadAsListings(url))
  <2>1. url \in DOMAIN site.pages /\ found' = found \o es
    BY <1>2 DEF ReadNext, Arrives
  <2>2. IsPage(site.pages[url])
    BY <2>1, SiteAssumption DEF FoundInv
  <2>3. IsList(es) /\ \A e \in Range(es) : IsEntry(e)
    BY <2>2, Harvested
  <2> HIDE DEF url, es
  <2>4. IsList(found \o es) /\ Range(found \o es) = Range(found) \cup Range(es)
    BY <2>3, ListsJoin DEF FoundInv
  <2> QED
    BY <2>1, <2>3, <2>4 DEF FoundInv
<1> QED
  BY <1>1, <1>2

LEMMA FoundDisplay ==
    ASSUME NEW url
    PROVE  IsList(<<Display(url)>>) /\ \A e \in Range(<<Display(url)>>) : IsEntry(e)
<1> DEFINE s == <<Display(url)>>
<1>1. s = [i \in 1 .. 1 |-> s[i]] /\ s[1] = Display(url) /\ DOMAIN s = 1 .. 1
  OBVIOUS
<1>2. IsEntry(Display(url))
  BY DEF IsEntry, Display
<1> HIDE DEF s
<1>3. IsList(s)
  BY <1>1, Lists
<1>4. \A e \in Range(s) : IsEntry(e)
  BY <1>1, <1>2 DEF Range
<1> QED
  BY <1>3, <1>4 DEF s

LEMMA FoundNext == FoundInv /\ [ReadingNext]_reading => FoundInv'
<1> SUFFICES ASSUME FoundInv, [ReadingNext]_reading PROVE FoundInv'
  OBVIOUS
<1>1. site' \in Sites
  BY DEF FoundInv, ReadingNext, Read, reading, world, stored, Start, AskUnchanged, ReadHome, ReadListing,
         EndListings, ReadPermanent, EndPermanent, ReadInfo, EndInfo, GiveUp, Record, Edit, Cancel
<1>2. CASE UNCHANGED found
  BY <1>1, <1>2 DEF FoundInv
<1>3. CASE Start
  BY <1>1, <1>3, FoundNothing DEF Start, FoundInv
<1>4. CASE ReadListing
  BY <1>1, <1>4, FoundMore DEF ReadListing, FoundInv
<1>5. CASE ReadPermanent
  BY <1>1, <1>5, FoundMore DEF ReadPermanent, FoundInv
<1>6. CASE ReadInfo
  <2>1. UNCHANGED found \/ \E url : found' = <<Display(url)>>
    BY <1>6 DEF ReadInfo
  <2> QED
    BY <1>1, <1>2, <2>1, FoundDisplay DEF FoundInv
<1>7. AskUnchanged \/ ReadHome \/ EndListings \/ EndPermanent \/ EndInfo \/ GiveUp \/ Record
      \/ Edit \/ Cancel \/ UNCHANGED reading => UNCHANGED found
  BY DEF AskUnchanged, ReadHome, EndListings, EndPermanent, EndInfo, GiveUp, Record,
         Edit, Cancel, reading, reader
<1> QED
  BY <1>2, <1>3, <1>4, <1>5, <1>6, <1>7 DEF ReadingNext, Read

\* The one entry kept of a recurring event covers each occurrence of it that
\* was read, on any site, whatever texts its dates are read from (harvest,
\* dedupe, widen).
THEOREM OccurrencesAreCovered == ReadingSpec => []EveryOccurrenceIsCovered
<1>1. FoundInv => EveryOccurrenceIsCovered
  <2> SUFFICES ASSUME FoundInv, NEW i \in DOMAIN found
               PROVE  \E e \in {Dedupe(found)[k] : k \in DOMAIN Dedupe(found)} :
                         /\ e.title = found[i].title
                         /\ \/ e.permanent
                            \/ /\ found[i].start # NoDate => e.start <= found[i].start
                               /\ found[i].end # NoDate => e.end >= found[i].end
    BY Zenon DEF EveryOccurrenceIsCovered
  <2>1. PICK e \in Range(Dedupe(found)) : Covers(e, found[i])
    BY DedupeCovers DEF FoundInv
  <2> QED
    BY <2>1 DEF Covers, Range
<1> QED
  BY <1>1, FoundInit, FoundNext, PTL DEF ReadingSpec

-----------------------------------------------------------------------------
(***************************************************************************)
(* What a text states is what is read out of it.                           *)
(***************************************************************************)

LEMMA FormsApart == "yearless" \notin Dated
  BY DEF Dated, Forms

\* A date is found where it is written, with its own year or with the year
\* there is for it.
LEMMA SaidIsFound ==
    ASSUME NEW token, NEW day, SaysDay(token, day), NEW hint
    PROVE  IsDate(token, hint) /\ When(token, hint) = day
<1>1. token.form \in Dated /\ token.form # "yearless" /\ Plausible(token.year, token.day)
      /\ day = token.year * YearLength + token.day
  BY FormsApart DEF SaysDay, DayOf
<1> QED
  BY <1>1 DEF IsDate, When

LEMMA LeftIsFound ==
    ASSUME NEW token, NEW day, NEW hint, LeavesYear(token, hint, day)
    PROVE  IsDate(token, hint) /\ When(token, hint) = day
  BY DEF LeavesYear, DayOf, IsDate, When

\* A day that is said is a number.
LEMMA SaidType ==
    ASSUME NEW text \in Seq(Token), NEW i \in DOMAIN text, NEW day, NEW year \in Int,
           SaysDay(text[i], day) \/ LeavesYear(text[i], year, day)
    PROVE  day \in Int
<1>1. text[i].year \in Nat /\ text[i].day \in Nat /\ YearLength \in Nat
  BY Tokens, CalendarAssumption
<1>2. text[i].year * YearLength \in Int /\ year * YearLength \in Int
  BY <1>1
<1> QED
  BY <1>1, <1>2 DEF SaysDay, LeavesYear, DayOf

\* The year that is left out is that of the one date that has a year.
LEMMA SiblingsYear ==
    ASSUME NEW text \in Seq(Token), NEW now \in Int, NEW j, DatedAt(text) = {j}
    PROVE  YearHint(text, now) = text[j].year
<1> DEFINE later(a, b) == \/ Rank(text[a].form) < Rank(text[b].form)
                          \/ Rank(text[a].form) = Rank(text[b].form) /\ a <= b
           last == CHOOSE b \in {j} : \A a \in {j} : later(a, b)
<1>1. YearHint(text, now) = text[last].year
  BY DEF YearHint
<1>2. j \in DOMAIN text
  BY DEF DatedAt
<1>3. later(j, j)
  BY <1>2, Texts
<1> HIDE DEF later
<1>4. last = j
  BY <1>3
<1> QED
  BY <1>1, <1>4

LEMMA NobodysYear ==
    ASSUME NEW text, NEW now, DatedAt(text) = {}
    PROVE  YearHint(text, now) = now \div YearLength
  BY DEF YearHint

\* No text but its dates says a day.
LEMMA OnlyDates ==
    ASSUME NEW text, NEW now
    PROVE  LET hint == YearHint(text, now) IN
           FindDates(text, now) =
             {[at |-> i, when |-> When(text[i], hint)] : i \in {j \in Dates(text) : IsDate(text[j], hint)}}
<1>1. \A hint : \A j \in DOMAIN text : IsDate(text[j], hint) => j \in Dates(text)
  BY DEF IsDate, Dates
<1>2. \A hint : {j \in DOMAIN text : IsDate(text[j], hint)} = {j \in Dates(text) : IsDate(text[j], hint)}
  BY <1>1 DEF Dates
<1> QED
  BY <1>2 DEF FindDates, Located

LEMMA OneDateFound ==
    ASSUME NEW text, NEW now, NEW i, Dates(text) = {i}, NEW day,
           IsDate(text[i], YearHint(text, now)), When(text[i], YearHint(text, now)) = day
    PROVE  FindDates(text, now) = {[at |-> i, when |-> day]}
<1>1. {j \in Dates(text) : IsDate(text[j], YearHint(text, now))} = {i}
  OBVIOUS
<1> QED
  BY <1>1, OnlyDates

LEMMA TwoDatesFound ==
    ASSUME NEW text, NEW now, NEW i, NEW j, Dates(text) = {i, j}, NEW a, NEW b,
           IsDate(text[i], YearHint(text, now)), When(text[i], YearHint(text, now)) = a,
           IsDate(text[j], YearHint(text, now)), When(text[j], YearHint(text, now)) = b
    PROVE  FindDates(text, now) = {[at |-> i, when |-> a], [at |-> j, when |-> b]}
<1>1. {k \in Dates(text) : IsDate(text[k], YearHint(text, now))} = {i, j}
  OBVIOUS
<1> QED
  BY <1>1, OnlyDates

LEMMA PairSize ==
    ASSUME NEW x, NEW y, x # y
    PROVE  Cardinality({x, y}) = 2
<1>1. IsFiniteSet({x}) /\ Cardinality({x}) = 1 /\ y \notin {x}
  BY FS_Singleton
<1>2. Cardinality({x} \cup {y}) = Cardinality({x}) + 1
  BY <1>1, FS_AddElement
<1>3. {x} \cup {y} = {x, y}
  OBVIOUS
<1> QED
  BY <1>1, <1>2, <1>3

\* Two dates are the ends of a run, the earlier its start.
LEMMA TwoDatesRead ==
    ASSUME NEW text \in Seq(Token), NEW i \in DOMAIN text, NEW j \in DOMAIN text, i < j,
           Dates(text) = {i, j}, ~Says(text, "ongoing"), NEW now \in Int, NEW a \in Int, NEW b \in Int,
           IsDate(text[i], YearHint(text, now)), When(text[i], YearHint(text, now)) = a,
           IsDate(text[j], YearHint(text, now)), When(text[j], YearHint(text, now)) = b
    PROVE  ParseDateRange(text, now) =
             [start |-> IF a <= b THEN a ELSE b, end |-> IF a <= b THEN b ELSE a, permanent |-> FALSE]
<1>0. i \in Nat /\ j \in Nat
  BY Texts
<1> DEFINE d == [at |-> i, when |-> a]
           e == [at |-> j, when |-> b]
           dates == FindDates(text, now)
           first == CHOOSE x \in dates : \A y \in dates : x.at <= y.at
           last  == CHOOSE x \in dates : \A y \in dates : y.at <= x.at
<1>1. dates = {d, e} /\ d.at = i /\ e.at = j /\ d.when = a /\ e.when = b
  BY TwoDatesFound
<1> HIDE DEF d, e, dates
<1>2. d # e
  BY <1>0, <1>1
<1>3. first = d /\ last = e
  <2>1. \A x \in dates : (\A y \in dates : x.at <= y.at) <=> x = d
    BY <1>0, <1>1
  <2>2. \A x \in dates : (\A y \in dates : y.at <= x.at) <=> x = e
    BY <1>0, <1>1
  <2> QED
    BY <1>1, <2>1, <2>2
<1>4. dates # {} /\ Cardinality(dates) = 2
  BY <1>1, <1>2, PairSize
<1> HIDE DEF first, last
<1>5. ParseDateRange(text, now) = [start |-> Min({first.when, last.when}),
                                  end |-> Max({first.when, last.when}), permanent |-> FALSE]
  <2>1. ~Says(text, "ongoing") /\ dates # {} /\ Cardinality(dates) # 1
    BY <1>4
  <2> QED
    BY ONLY <2>1 DEF ParseDateRange, RangeIn, dates, first, last
<1>6. Min({a, b}) = (IF a <= b THEN a ELSE b) /\ Max({a, b}) = IF a <= b THEN b ELSE a
  <2>1. CASE a <= b
    BY <2>1 DEF Min, Max
  <2>2. CASE ~(a <= b)
    BY <2>2 DEF Min, Max
  <2> QED
    BY <2>1, <2>2
<1> QED
  BY <1>1, <1>3, <1>5, <1>6

\* One date is a bound, or both, as the words before it say.
LEMMA OneDateRead ==
    ASSUME NEW text, NEW now, ~Says(text, "ongoing"), NEW i, NEW day,
           FindDates(text, now) = {[at |-> i, when |-> day]}
    PROVE  ParseDateRange(text, now) = OneDate(text, [at |-> i, when |-> day])
<1> DEFINE d == [at |-> i, when |-> day]
           dates == FindDates(text, now)
           first == CHOOSE x \in dates : \A y \in dates : x.at <= y.at
<1>1. dates = {d}
  OBVIOUS
<1> HIDE DEF dates
<1>2. dates # {} /\ Cardinality(dates) = 1
  <2> HIDE DEF d
  <2>1. Cardinality({d}) = 1
    BY FS_Singleton
  <2> QED
    BY <1>1, <2>1
<1>3. first = d
  BY <1>1
<1> HIDE DEF first, d
<1>4. ParseDateRange(text, now) = OneDate(text, first)
  BY ONLY <1>2, ~Says(text, "ongoing") DEF ParseDateRange, RangeIn, dates, first
<1> QED
  BY <1>3, <1>4 DEF d

\* The year that one date lends the other.
LEMMA LentYear ==
    ASSUME NEW text \in Seq(Token), NEW i \in DOMAIN text, NEW j \in DOMAIN text,
           Dates(text) = {i, j}, NEW now \in Int, NEW day,
           SaysDay(text[j], day), text[i].form = "yearless"
    PROVE  YearHint(text, now) = text[j].year
<1>1. DatedAt(text) = {j}
  <2>1. j \in DatedAt(text)
    BY DEF SaysDay, DatedAt
  <2>2. i \notin DatedAt(text)
    BY FormsApart DEF DatedAt
  <2>3. DatedAt(text) \subseteq Dates(text)
    BY DEF DatedAt, Dates
  <2> QED
    BY <2>1, <2>2, <2>3
<1> QED
  BY <1>1, SiblingsYear

\* A run between two dates is read as it is written, whatever is written
\* around them and whichever of them leaves its year to the other (findDates:
\* "the trailing year is shared backwards").
THEOREM RunsAreReadAsWritten ==
    ASSUME NEW text \in Seq(Token), NEW now \in Int, NEW run,
           ~Says(text, "ongoing"), WritesRun(text, run)
    PROVE  ParseDateRange(text, now) = [start |-> run.start, end |-> run.end, permanent |-> FALSE]
<1> DEFINE hint == YearHint(text, now)
<1>1. PICK i \in DOMAIN text, j \in DOMAIN text :
         /\ i < j /\ Dates(text) = {i, j}
         /\ \/ SaysDay(text[i], run.start) /\ SaysDay(text[j], run.end)
            \/ LeavesYear(text[i], text[j].year, run.start) /\ SaysDay(text[j], run.end)
            \/ SaysDay(text[i], run.start) /\ LeavesYear(text[j], text[i].year, run.end)
         /\ run.start <= run.end
  BY DEF WritesRun
<1>2. run.start \in Int /\ run.end \in Int
  <2>1. text[i].year \in Int /\ text[j].year \in Int
    BY Tokens
  <2> QED
    BY <1>1, <2>1, SaidType
<1>3. /\ IsDate(text[i], hint) /\ When(text[i], hint) = run.start
      /\ IsDate(text[j], hint) /\ When(text[j], hint) = run.end
  <2>1. CASE SaysDay(text[i], run.start) /\ SaysDay(text[j], run.end)
    BY <2>1, SaidIsFound
  <2>2. CASE LeavesYear(text[i], text[j].year, run.start) /\ SaysDay(text[j], run.end)
    <3>1. hint = text[j].year
      BY <1>1, <2>2, LentYear DEF LeavesYear
    <3> QED
      BY <2>2, <3>1, SaidIsFound, LeftIsFound
  <2>3. CASE SaysDay(text[i], run.start) /\ LeavesYear(text[j], text[i].year, run.end)
    <3>1. hint = text[i].year
      <4>1. Dates(text) = {j, i} /\ text[j].form = "yearless"
        BY <1>1, <2>3 DEF LeavesYear
      <4> QED
        BY <2>3, <4>1, LentYear
    <3> QED
      BY <2>3, <3>1, SaidIsFound, LeftIsFound
  <2> QED
    BY <1>1, <2>1, <2>2, <2>3
<1> HIDE DEF hint
<1> QED
  BY <1>1, <1>2, <1>3, TwoDatesRead DEF hint

LEMMA YearsApart ==
    ASSUME NEW year \in Nat, NEW days \in Nat, NEW a \in Nat, NEW b \in Nat, b < a, a < days
    PROVE  LET before == (year - 1) * days + a
               last   == year * days + b
               after  == year * days + a
           IN  /\ {before, last, after} \subseteq Int
               /\ after = before + days /\ before < last /\ last < after
<1> DEFINE y == year * days
<1>1. y \in Int /\ (year - 1) * days = y - days
  OBVIOUS
<1> HIDE DEF y
<1> QED
  BY <1>1 DEF y

\* The same of a run over a new year, its opening date without the year: it is
\* read as a run that begins when it ends, and ends a year after it begins.
THEOREM NewYearSwapsTheEnds ==
    ASSUME NEW text \in Seq(Token), NEW now \in Int, ~Says(text, "ongoing"),
           NEW i \in DOMAIN text, NEW j \in DOMAIN text, i < j, Dates(text) = {i, j},
           NEW start, NEW end, SaysDay(text[j], end),
           text[i].form = "yearless", text[i].day < YearLength,
           start = DayOf(text[i], text[j].year - 1), text[j].day < text[i].day
    PROVE  /\ start < end
           /\ ParseDateRange(text, now) = [start |-> end, end |-> start + YearLength, permanent |-> FALSE]
<1> DEFINE year == text[j].year
           day == DayOf(text[i], year)
<1>1. /\ year \in Nat /\ text[i].day \in Nat /\ text[j].day \in Nat /\ YearLength \in Nat
      /\ text[j].day < YearLength /\ Plausible(year, text[i].day)
      /\ end = year * YearLength + text[j].day
  BY Tokens, CalendarAssumption DEF SaysDay, Plausible, DayOf
<1>3. day = start + YearLength /\ start \in Int /\ end \in Int /\ end < day /\ start < end
  <2> DEFINE a == text[i].day
             b == text[j].day
  <2>1. /\ day = year * YearLength + a /\ end = year * YearLength + b
        /\ start = (year - 1) * YearLength + a
    BY <1>1 DEF DayOf
  <2>2. year \in Nat /\ YearLength \in Nat /\ a \in Nat /\ b \in Nat /\ b < a /\ a < YearLength
    BY <1>1
  <2> HIDE DEF a, b, year, day
  <2> QED
    BY <2>1, <2>2, YearsApart
<1>4. YearHint(text, now) = year
  BY LentYear
<1>5. LeavesYear(text[i], year, day)
  BY <1>1 DEF LeavesYear
<1> HIDE DEF day, year
<1>6. /\ IsDate(text[i], year) /\ When(text[i], year) = day
      /\ IsDate(text[j], year) /\ When(text[j], year) = end
  BY <1>5, SaidIsFound, LeftIsFound
<1>7. day \in Int
  BY <1>1, <1>3
<1>8. ParseDateRange(text, now) = [start |-> IF day <= end THEN day ELSE end,
                                  end |-> IF day <= end THEN end ELSE day, permanent |-> FALSE]
  BY <1>3, <1>4, <1>6, <1>7, TwoDatesRead
<1>9. ~(day <= end)
  BY <1>3, <1>7
<1> QED
  BY <1>3, <1>8, <1>9

\* One date is read as the bound it is said to be (openEnded, openStart).
LEMMA OneDateAgrees ==
    ASSUME NEW text \in Seq(Token), NEW now \in Int, NEW run,
           ~Says(text, "ongoing"), ~run.permanent, WritesOneDate(text, run, now)
    PROVE  Agrees(ParseDateRange(text, now), run)
<1> DEFINE hint == YearHint(text, now)
<1>1. PICK i \in DOMAIN text, day \in {run.start, run.end} :
         /\ Dates(text) = {i}
         /\ SaysDay(text[i], day) \/ LeavesYear(text[i], now \div YearLength, day)
         /\ "until" \in Lead(text, i) => run.end = day
         /\ "until" \notin Lead(text, i) => run.start = day
         /\ Lead(text, i) \cap {"until", "from"} = {} => run.end = day
  BY DEF WritesOneDate
<1>2. IsDate(text[i], hint) /\ When(text[i], hint) = day
  <2>1. CASE SaysDay(text[i], day)
    BY <2>1, SaidIsFound
  <2>2. CASE LeavesYear(text[i], now \div YearLength, day)
    <3>1. DatedAt(text) \subseteq Dates(text) /\ i \notin DatedAt(text)
      BY <2>2, FormsApart DEF DatedAt, Dates, LeavesYear
    <3>2. DatedAt(text) = {}
      BY <1>1, <3>1
    <3> QED
      BY <2>2, <3>2, NobodysYear, LeftIsFound
  <2> QED
    BY <1>1, <2>1, <2>2
<1>3. FindDates(text, now) = {[at |-> i, when |-> day]}
  BY <1>1, <1>2, OneDateFound
<1> DEFINE d == [at |-> i, when |-> day]
<1>4. ParseDateRange(text, now) = OneDate(text, d)
  BY <1>3, OneDateRead
<1>5. d.at = i /\ d.when = day
  OBVIOUS
<1> HIDE DEF d
<1>6. OneDate(text, d) =
        [start |-> IF "until" \in Lead(text, i) THEN NoDate ELSE day,
         end |-> IF "until" \notin Lead(text, i) /\ "from" \in Lead(text, i) THEN NoDate ELSE day,
         permanent |-> FALSE]
  BY <1>5 DEF OneDate, Unknown
<1> QED
  BY <1>1, <1>4, <1>6 DEF Agrees

\* "Ongoing" is read as permanence, from the first date there is.
LEMMA OngoingAgrees ==
    ASSUME NEW text \in Seq(Token), NEW now \in Int, NEW run, WritesOngoing(text, run)
    PROVE  Agrees(ParseDateRange(text, now), run) /\ ParseDateRange(text, now).end = NoDate
<1> DEFINE dates == FindDates(text, now)
           hint == YearHint(text, now)
           first == CHOOSE d \in dates : \A e \in dates : d.at <= e.at
<1>1. dates = {[at |-> i, when |-> When(text[i], hint)] : i \in {j \in Dates(text) : IsDate(text[j], hint)}}
  BY OnlyDates
<1>2. Says(text, "ongoing") /\ run.permanent
  BY DEF WritesOngoing
<1>3. ParseDateRange(text, now) =
        [start |-> IF dates = {} THEN NoDate ELSE first.when, end |-> NoDate, permanent |-> TRUE]
  BY <1>2 DEF ParseDateRange, RangeIn
<1>4. ASSUME Dates(text) # {} PROVE first.when = run.start
  <2>1. PICK i \in Dates(text) : SaysDay(text[i], run.start) /\ \A j \in Dates(text) : i <= j
    BY <1>4 DEF WritesOngoing
  <2>2. IsDate(text[i], hint) /\ When(text[i], hint) = run.start
    BY <2>1, SaidIsFound
  <2> DEFINE d == [at |-> i, when |-> run.start]
  <2>3. d \in dates /\ d.at = i /\ d.when = run.start
    BY <1>1, <2>2
  <2>4. \A e \in dates : \E j \in Dates(text) : e = [at |-> j, when |-> When(text[j], hint)]
    BY <1>1
  <2>5. \A j \in Dates(text) : j \in Nat
    BY Texts DEF Dates
  <2> HIDE DEF dates, d
  <2>6. \A e \in dates : d.at <= e.at
    BY <2>1, <2>3, <2>4
  <2>7. \A e \in dates : (e.at <= d.at) => e = d
    <3> SUFFICES ASSUME NEW e \in dates, e.at <= d.at PROVE e = d
      OBVIOUS
    <3>1. PICK j \in Dates(text) : e = [at |-> j, when |-> When(text[j], hint)]
      BY <2>4
    <3>2. e.at = j
      BY <3>1
    <3>3. j = i
      BY <2>1, <2>3, <2>5, <3>2
    <3> QED
      BY <2>2, <3>1, <3>3 DEF d
  <2>8. first \in dates /\ first.at <= d.at
    BY <2>3, <2>6
  <2> QED
    BY <2>3, <2>7, <2>8
<1>5. Dates(text) = {} => dates = {}
  BY <1>1
<1> HIDE DEF dates, first
<1> QED
  BY <1>2, <1>3, <1>4, <1>5 DEF Agrees

\* Where nothing is said of days or of permanence, nothing is read.
LEMMA NothingRead ==
    ASSUME NEW text, NEW now, ~Says(text, "ongoing"), Dates(text) = {}
    PROVE  ParseDateRange(text, now) = Unknown
<1>1. FindDates(text, now) = {}
  BY OnlyDates
<1>2. Cardinality(FindDates(text, now)) # 1
  BY <1>1, FS_EmptySet
<1> DEFINE dates == FindDates(text, now)
<1>3. ~Says(text, "ongoing") /\ dates = {} /\ Cardinality(dates) # 1
  BY <1>1, <1>2
<1> HIDE DEF dates
<1> QED
  BY ONLY <1>3 DEF ParseDateRange, RangeIn, dates

\* Whatever form a text gives its run in, the bounds that are read are the
\* ones that were meant, for any days and any words around them
\* (ParseDateRange).
THEOREM TextsAreReadAsWritten ==
    ASSUME NEW text \in Seq(Token), NEW now \in Int, NEW run, Writes(text, run, now)
    PROVE  Agrees(ParseDateRange(text, now), run)
<1>1. CASE WritesOngoing(text, run)
  BY <1>1, OngoingAgrees
<1>2. CASE ~Says(text, "ongoing") /\ Dates(text) = {}
  BY <1>2, NothingRead DEF Unknown, Agrees, IsZero
<1>3. CASE ~Says(text, "ongoing") /\ ~run.permanent /\ WritesRun(text, run)
  <2>1. ParseDateRange(text, now) = [start |-> run.start, end |-> run.end, permanent |-> FALSE]
    BY <1>3, RunsAreReadAsWritten
  <2> QED
    BY <1>3, <2>1 DEF Agrees
<1>4. CASE ~Says(text, "ongoing") /\ ~run.permanent /\ WritesOneDate(text, run, now)
  BY <1>4, OneDateAgrees
<1> QED
  BY <1>1, <1>2, <1>3, <1>4 DEF Writes

-----------------------------------------------------------------------------
(***************************************************************************)
(* What is taken of a sequence, and in which order.                        *)
(***************************************************************************)

\* Of places in order each has a number of its own.
LEMMA PlacesDiffer ==
    ASSUME NEW n \in Nat, NEW places \in SUBSET (1 .. n), NEW i \in places, NEW m \in places, i < m
    PROVE  Cardinality({j \in places : j <= i}) < Cardinality({j \in places : j <= m})
<1> DEFINE low == {j \in places : j <= i}
           high == {j \in places : j <= m}
<1>0. /\ IsFiniteSet(places) /\ i \in Nat /\ m \in Nat /\ i < m
      /\ \A j \in places : j \in Nat
  <2>1. IsFiniteSet(1 .. n)
    BY FS_Interval, 1 \in Int, n \in Int
  <2>2. places \subseteq 1 .. n /\ \A j \in 1 .. n : j \in Nat
    OBVIOUS
  <2> QED
    BY <2>1, <2>2, FS_Subset
<1>1. low \cup {m} \subseteq high /\ m \notin low
  <2>1. \A j \in places : j <= i => j <= m
    BY ONLY <1>0
  <2>2. m <= m /\ ~(m <= i)
    BY ONLY <1>0
  <2> QED
    BY ONLY <2>1, <2>2, m \in places DEF low, high
<1>2. IsFiniteSet(high) /\ IsFiniteSet(low)
  <2>1. high \subseteq places /\ low \subseteq places
    OBVIOUS
  <2> QED
    BY <1>0, <2>1, FS_Subset
<1> HIDE DEF low, high
<1>3. Cardinality(low \cup {m}) = Cardinality(low) + 1
  BY <1>1, <1>2, FS_AddElement
<1>4. Cardinality(low \cup {m}) <= Cardinality(high)
  BY <1>1, <1>2, FS_Subset
<1>5. Cardinality(low) \in Nat /\ Cardinality(high) \in Nat
  BY <1>2, FS_CardinalityType
<1> QED
  BY <1>3, <1>4, <1>5 DEF low, high

\* At takes the places it is to take, each once and in their order.
LEMMA AtOrder ==
    ASSUME NEW s, IsList(s), NEW places \in SUBSET DOMAIN s
    PROVE  \E at \in [DOMAIN At(s, places) -> places] :
              /\ \A k, m \in DOMAIN At(s, places) : k < m => at[k] < at[m]
              /\ \A k \in DOMAIN At(s, places) : At(s, places)[k] = s[at[k]]
              /\ \A i \in places : \E k \in DOMAIN At(s, places) : at[k] = i
<1> DEFINE n == Len(s)
           UpTo(i) == Cardinality({j \in places : j <= i})
           a == At(s, places)
           D == 1 .. Cardinality(places)
           at == [k \in D |-> CHOOSE i \in places : UpTo(i) = k]
<1>1. n \in Nat /\ DOMAIN s = 1 .. n /\ places \in SUBSET (1 .. n) /\ \A i \in places : i \in Nat
  <2>1. n \in Nat /\ DOMAIN s = 1 .. n
    BY ListPlaces
  <2> QED
    BY <2>1
<1>2. Cardinality(places) \in Nat /\ \A k \in D : \E i \in places : UpTo(i) = k
  BY <1>1, PlaceInOrder
<1>3. DOMAIN a = D /\ \A k \in D : a[k] = s[at[k]]
  BY DEF At
<1>4. ASSUME NEW i \in places, NEW m \in places, i < m
      PROVE  UpTo(i) < UpTo(m)
  BY <1>1, <1>4, PlacesDiffer
<1>5. \A i \in places : UpTo(i) \in D
  <2> TAKE i \in places
  <2> DEFINE low == {j \in places : j <= i}
  <2>0. IsFiniteSet(places)
    <3>1. IsFiniteSet(1 .. n) /\ places \subseteq 1 .. n
      BY <1>1, FS_Interval, 1 \in Int, n \in Int
    <3> QED
      BY <3>1, FS_Subset
  <2>1. low \subseteq places /\ i \in low
    BY <1>1
  <2> HIDE DEF low
  <2>2. /\ IsFiniteSet(low) /\ Cardinality(low) \in Nat
        /\ Cardinality(low) <= Cardinality(places) /\ Cardinality(low) # 0
    BY <2>0, <2>1, FS_Subset, FS_CardinalityType, FS_EmptySet
  <2> QED
    BY <1>2, <2>2 DEF low
<1> HIDE DEF UpTo, a
<1>6. \A k \in D : at[k] \in places /\ UpTo(at[k]) = k
  BY <1>2
<1>7. \A i, m \in places : UpTo(i) = UpTo(m) => i = m
  <2> SUFFICES ASSUME NEW i \in places, NEW m \in places, UpTo(i) = UpTo(m), i # m PROVE FALSE
    OBVIOUS
  <2>1. UpTo(i) \in Int /\ UpTo(m) \in Int /\ (i < m \/ m < i)
    BY <1>1, <1>5
  <2> QED
    BY <1>4, <2>1
<1> HIDE DEF at
<1>8. \A k, m \in D : k < m => at[k] < at[m]
  <2> SUFFICES ASSUME NEW k \in D, NEW m \in D, k < m, ~(at[k] < at[m]) PROVE FALSE
    OBVIOUS
  <2>1. at[k] \in Nat /\ at[m] \in Nat /\ k \in Int /\ m \in Int
    BY <1>1, <1>6
  <2>2. at[k] # at[m]
    BY <1>6, <2>1
  <2>3. at[m] < at[k]
    BY <2>1, <2>2
  <2>4. m < k
    BY <1>4, <1>6, <2>3
  <2> QED
    BY <2>1, <2>4
<1>9. \A i \in places : \E k \in D : at[k] = i
  BY <1>5, <1>6, <1>7
<1>10. at \in [D -> places]
  BY <1>6 DEF at
<1>11. /\ at \in [DOMAIN a -> places]
       /\ \A k, m \in DOMAIN a : k < m => at[k] < at[m]
       /\ \A k \in DOMAIN a : a[k] = s[at[k]]
       /\ \A i \in places : \E k \in DOMAIN a : at[k] = i
  <2> HIDE DEF D
  <2> QED
    BY <1>3, <1>8, <1>9, <1>10
<1> QED
  BY <1>11 DEF a

\* At takes every member it is to take.
LEMMA AtIs ==
    ASSUME NEW s, IsList(s), NEW places \in SUBSET DOMAIN s
    PROVE  IsList(At(s, places)) /\ Range(At(s, places)) = {s[i] : i \in places}
<1> DEFINE a == At(s, places)
<1>1. IsList(a)
  BY AtTakes
<1>2. PICK at \in [DOMAIN a -> places] :
         /\ \A k \in DOMAIN a : a[k] = s[at[k]]
         /\ \A i \in places : \E k \in DOMAIN a : at[k] = i
  BY AtOrder
<1> HIDE DEF a
<1> QED
  BY <1>1, <1>2 DEF Range, a

\* Links in order of their score are the links there were.
LEMMA BestFirstTakes ==
    ASSUME NEW s, IsList(s), \A i \in DOMAIN s : s[i].score \in Int
    PROVE  IsList(BestFirst(s)) /\ Range(BestFirst(s)) \subseteq {s[i].url : i \in DOMAIN s}
<1> DEFINE n == Len(s)
           D == 1 .. n
           before(i, j) == \/ s[i].score > s[j].score
                           \/ s[i].score = s[j].score /\ i <= j
           Upto(i) == {j \in D : before(j, i)}
           Place == [i \in D |-> Cardinality(Upto(i))]
           b == BestFirst(s)
<1>1. n \in Nat /\ DOMAIN s = D
  BY ListPlaces
<1>2. IsFiniteSet(D) /\ Cardinality(D) = n
  BY <1>1, FS_Interval, 1 \in Int, n \in Int, n - 1 + 1 = n
<1>3. \A i, j \in D : before(i, j) \/ before(j, i)
  BY <1>1
<1>4. \A i, j, k \in D : before(i, j) /\ before(j, k) => before(i, k)
  BY <1>1
<1>5. \A i, j \in D : before(i, j) /\ before(j, i) => i = j
  BY <1>1
<1>6. b = [k \in D |-> s[CHOOSE i \in D : Cardinality(Upto(i)) = k].url]
  BY <1>1 DEF BestFirst
<1> HIDE DEF before
<1>7. \A i \in D : Upto(i) \subseteq D /\ i \in Upto(i)
  BY <1>3
<1>8. ASSUME NEW i \in D, NEW j \in D, i # j, before(i, j)
      PROVE  Place[i] < Place[j]
  <2>1. Upto(i) \cup {j} \subseteq Upto(j) /\ j \notin Upto(i)
    BY <1>4, <1>5, <1>7, <1>8
  <2> HIDE DEF Upto
  <2>2. IsFiniteSet(Upto(i)) /\ IsFiniteSet(Upto(j))
    BY <1>2, <1>7, FS_Subset
  <2>3. Cardinality(Upto(i) \cup {j}) = Cardinality(Upto(i)) + 1
    BY <2>1, <2>2, FS_AddElement
  <2>4. Cardinality(Upto(i) \cup {j}) <= Cardinality(Upto(j))
    BY <2>1, <2>2, FS_Subset
  <2> QED
    BY <2>2, <2>3, <2>4, FS_CardinalityType
<1>9. Place \in [D -> D]
  <2> HIDE DEF Upto
  <2>1. ASSUME NEW i \in D PROVE Cardinality(Upto(i)) \in D
    <3>1. /\ IsFiniteSet(Upto(i)) /\ Cardinality(Upto(i)) \in Nat
          /\ Cardinality(Upto(i)) <= n /\ Cardinality(Upto(i)) # 0
      BY <1>2, <1>7, FS_Subset, FS_CardinalityType, FS_EmptySet
    <3> QED
      BY <1>1, <3>1
  <2> QED
    BY <2>1
<1>10. \A k \in D : \E i \in D : Place[i] = k
  <2>1. \A i, j \in D : Place[i] = Place[j] => i = j
    <3> SUFFICES ASSUME NEW i \in D, NEW j \in D, Place[i] = Place[j], i # j PROVE FALSE
      OBVIOUS
    <3>1. Place[i] \in Int /\ Place[j] \in Int
      <4> HIDE DEF Place
      <4> QED
        BY <1>1, <1>9
    <3> HIDE DEF Place, Upto
    <3> QED
      BY <1>3, <1>8, <3>1
  <2> HIDE DEF Place, Upto
  <2>2. Place \in Injection(D, D)
    BY <1>9, <2>1 DEF Injection, IsInjective
  <2> HIDE DEF D
  <2>3. Place \in Surjection(D, D)
    BY <1>2, <2>2, FS_Injection
  <2> QED
    BY <2>3 DEF Surjection
<1>11. \A k \in D : b[k] \in {s[i].url : i \in D}
  <2> TAKE k \in D
  <2>1. \E i \in D : Cardinality(Upto(i)) = k
    BY <1>10
  <2> HIDE DEF Upto
  <2> QED
    BY <1>6, <2>1
<1>12. b = [k \in 1 .. n |-> b[k]]
  BY <1>6
<1> HIDE DEF b, D
<1>13. IsList(b) /\ DOMAIN b = 1 .. n
  BY <1>1, <1>12, Lists
<1> QED
  BY <1>1, <1>11, <1>13 DEF Range, b, D

\* What is made of each member of a sequence is in a sequence.
LEMMA Mapped ==
    ASSUME NEW s, IsList(s), NEW t, t = [i \in DOMAIN s |-> t[i]]
    PROVE  IsList(t) /\ DOMAIN t = DOMAIN s
<1>1. Len(s) \in Nat /\ DOMAIN s = 1 .. Len(s)
  BY ListPlaces
<1>2. t = [i \in 1 .. Len(s) |-> t[i]]
  BY <1>1
<1> QED
  BY <1>1, <1>2, Lists

\* What is followed of a page's links is on its host.
LEMMA LinksFollowed ==
    ASSUME NEW all, IsList(all), NEW host,
           \A i \in DOMAIN all : all[i].url.host = host /\ all[i].score \in Int
    PROVE  /\ IsList(BestFirst(FirstPerUrl(all)))
           /\ \A u \in Range(BestFirst(FirstPerUrl(all))) : u.host = host
<1> DEFINE scored == FirstPerUrl(all)
<1>1. IsList(scored) /\ Range(scored) \subseteq Range(all)
  BY FirstPerUrlTakes
<1> HIDE DEF scored
<1>2. \A i \in DOMAIN scored : scored[i].url.host = host /\ scored[i].score \in Int
  BY <1>1 DEF Range
<1>3. IsList(BestFirst(scored)) /\ Range(BestFirst(scored)) \subseteq {scored[i].url : i \in DOMAIN scored}
  BY <1>1, <1>2, BestFirstTakes
<1>4. \A u \in Range(BestFirst(scored)) : u.host = host
  BY <1>2, <1>3
<1> QED
  BY <1>3, <1>4 DEF scored

LEMMA ScoresAreNumbers ==
    \A link : ListingScore(link) \in Int /\ InfoScore(link) \in Int
<1>1. \A c : Points(c, 1) \in Int /\ Points(c, 2) \in Int
  BY DEF Points
<1>2. \A a, b, c, d \in Int : (IF a + b + c = 0 THEN 0 ELSE a + b + c + d) \in Int
                             /\ (IF a + b = 0 THEN 0 ELSE a + b + d) \in Int
  OBVIOUS
<1> QED
  BY <1>1, <1>2 DEF ListingScore, InfoScore

\* What a front page leads to is on its host.
LEMMA LinksStayOnTheHost ==
    ASSUME NEW page, IsPage(page), NEW base
    PROVE  /\ IsList(FindListingLinks(page, base)) /\ IsList(FindPermanentLinks(page, base))
           /\ IsList(FindInfoLinks(page, base))
           /\ \A u \in Range(FindListingLinks(page, base)) \cup Range(FindPermanentLinks(page, base))
                       \cup Range(FindInfoLinks(page, base)) : u.host = base.host
<1>0. IsList(page.links)
  BY DEF IsPage, IsList
<1>1. /\ IsList(FindListingLinks(page, base))
      /\ \A u \in Range(FindListingLinks(page, base)) : u.host = base.host
  <2> DEFINE places == {i \in DOMAIN page.links :
                          /\ page.links[i].to.host = base.host
                          /\ "past" \notin page.links[i].words
                          /\ ~HasAny(page.links[i].to.path, PastSegments)
                          /\ ListingScore(page.links[i]) > 0}
             links == At(page.links, places)
             all == [i \in DOMAIN links |-> [url |-> links[i].to, score |-> ListingScore(links[i])]]
  <2>1. places \in SUBSET DOMAIN page.links /\ \A i \in places : page.links[i].to.host = base.host
    OBVIOUS
  <2>2. FindListingLinks(page, base) = BestFirst(FirstPerUrl(all))
    BY DEF FindListingLinks
  <2> HIDE DEF places
  <2>3. IsList(links) /\ \A k \in DOMAIN links : links[k].to.host = base.host
    BY <1>0, <2>1, AtTakes
  <2> HIDE DEF links
  <2>4. /\ all = [i \in DOMAIN links |-> all[i]] /\ DOMAIN all = DOMAIN links
        /\ \A i \in DOMAIN links : all[i].url = links[i].to /\ all[i].score = ListingScore(links[i])
    OBVIOUS
  <2> HIDE DEF all
  <2>5. IsList(all) /\ \A i \in DOMAIN all : all[i].url.host = base.host /\ all[i].score \in Int
    BY <2>3, <2>4, Mapped, ScoresAreNumbers
  <2> QED
    BY <2>2, <2>5, LinksFollowed
<1>2. /\ IsList(FindPermanentLinks(page, base))
      /\ \A u \in Range(FindPermanentLinks(page, base)) : u.host = base.host
  <2> DEFINE places == {i \in DOMAIN page.links :
                          /\ page.links[i].to.host = base.host
                          /\ \/ AddressNamesPermanent(page.links[i].to)
                             \/ NamesPermanent(page.links[i].words) /\ "long" \notin page.links[i].words}
             links == At(page.links, places)
             all == [i \in DOMAIN links |-> [url |-> links[i].to, score |-> 0]]
  <2>1. places \in SUBSET DOMAIN page.links /\ \A i \in places : page.links[i].to.host = base.host
    OBVIOUS
  <2>2. FindPermanentLinks(page, base) = BestFirst(FirstPerUrl(all))
    BY DEF FindPermanentLinks
  <2> HIDE DEF places
  <2>3. IsList(links) /\ \A k \in DOMAIN links : links[k].to.host = base.host
    BY <1>0, <2>1, AtTakes
  <2> HIDE DEF links
  <2>4. /\ all = [i \in DOMAIN links |-> all[i]] /\ DOMAIN all = DOMAIN links
        /\ \A i \in DOMAIN links : all[i].url = links[i].to /\ all[i].score = 0
    OBVIOUS
  <2> HIDE DEF all
  <2>5. IsList(all) /\ \A i \in DOMAIN all : all[i].url.host = base.host /\ all[i].score \in Int
    BY <2>3, <2>4, Mapped, ScoresAreNumbers
  <2> QED
    BY <2>2, <2>5, LinksFollowed
<1>3. /\ IsList(FindInfoLinks(page, base))
      /\ \A u \in Range(FindInfoLinks(page, base)) : u.host = base.host
  <2> DEFINE places == {i \in DOMAIN page.links :
                          /\ page.links[i].to.host = base.host
                          /\ Depth(page.links[i].to.path) <= 1
                          /\ InfoScore(page.links[i]) > 0}
             links == At(page.links, places)
             all == [i \in DOMAIN links |-> [url |-> links[i].to, score |-> InfoScore(links[i])]]
  <2>1. places \in SUBSET DOMAIN page.links /\ \A i \in places : page.links[i].to.host = base.host
    OBVIOUS
  <2>2. FindInfoLinks(page, base) = BestFirst(FirstPerUrl(all))
    BY DEF FindInfoLinks
  <2> HIDE DEF places
  <2>3. IsList(links) /\ \A k \in DOMAIN links : links[k].to.host = base.host
    BY <1>0, <2>1, AtTakes
  <2> HIDE DEF links
  <2>4. /\ all = [i \in DOMAIN links |-> all[i]] /\ DOMAIN all = DOMAIN links
        /\ \A i \in DOMAIN links : all[i].url = links[i].to /\ all[i].score = InfoScore(links[i])
    OBVIOUS
  <2> HIDE DEF all
  <2>5. IsList(all) /\ \A i \in DOMAIN all : all[i].url.host = base.host /\ all[i].score \in Int
    BY <2>3, <2>4, Mapped, ScoresAreNumbers
  <2> QED
    BY <2>2, <2>5, LinksFollowed
<1> QED
  BY <1>1, <1>2, <1>3

-----------------------------------------------------------------------------
(***************************************************************************)
(* What comes of a page.                                                   *)
(***************************************************************************)

LEMMA DatedAre ==
    ASSUME NEW s, IsList(s)
    PROVE  /\ IsList(WithDates(s))
           /\ Range(WithDates(s)) = {[c EXCEPT !.dates = DatesFor(c, Now)] : c \in Range(s)}
<1> DEFINE d == WithDates(s)
<1>1. d = [i \in DOMAIN s |-> d[i]] /\ \A i \in DOMAIN s : d[i] = [s[i] EXCEPT !.dates = DatesFor(s[i], Now)]
  BY DEF WithDates
<1> HIDE DEF d
<1>2. IsList(d) /\ DOMAIN d = DOMAIN s
  BY <1>1, Mapped
<1> QED
  BY <1>1, <1>2 DEF Range, d

LEMMA EntriesAre ==
    ASSUME NEW s, IsList(s), NEW pagePermanent, NEW pageUndated, NEW url
    PROVE  LET es == Entries(s, pagePermanent, pageUndated, url) IN
           /\ IsList(es)
           /\ Range(es) = {EntryFor(c, pagePermanent, pageUndated, url) :
                             c \in {d \in Range(s) : Keeps(d, pagePermanent, pageUndated)}}
<1> DEFINE places == {i \in DOMAIN s : Keeps(s[i], pagePermanent, pageUndated)}
           kept == At(s, places)
           es == Entries(s, pagePermanent, pageUndated, url)
<1>1. es = [i \in DOMAIN kept |-> EntryFor(kept[i], pagePermanent, pageUndated, url)]
  BY DEF Entries
<1>2. IsList(kept) /\ Range(kept) = {s[i] : i \in places}
  BY AtIs, places \in SUBSET DOMAIN s
<1>3. {s[i] : i \in places} = {d \in Range(s) : Keeps(d, pagePermanent, pageUndated)}
  BY DEF Range
<1> HIDE DEF kept, es, places
<1>4. /\ es = [i \in DOMAIN kept |-> es[i]] /\ DOMAIN es = DOMAIN kept
      /\ \A i \in DOMAIN kept : es[i] = EntryFor(kept[i], pagePermanent, pageUndated, url)
  BY <1>1
<1>5. IsList(es)
  BY <1>2, <1>4, Mapped
<1>6. Range(es) = {EntryFor(c, pagePermanent, pageUndated, url) : c \in Range(kept)}
  BY <1>4 DEF Range
<1> QED
  BY <1>2, <1>3, <1>5, <1>6 DEF es

\* The entries of a page are those of its candidates that are kept, are not
\* pages read as listings, and are on or coming.
Harvestable(page, url, assumePermanent, readAsListing) ==
    LET candidates == WithDates(CandidatesOn(page, url))
        permanent == assumePermanent \/ IsPermanentListing(page, url)
        undated == UndatedListing(NamesExhibitions(page, url), candidates)
    IN  {EntryFor(c, permanent, undated, url) :
            c \in {d \in Range(candidates) : d.url \notin readAsListing /\ Keeps(d, permanent, undated)}}

LEMMA HarvestIs ==
    ASSUME NEW page, IsPage(page), NEW url, NEW assumePermanent, NEW readAsListing
    PROVE  Range(Harvest(page, url, assumePermanent, readAsListing)) =
             {e \in Harvestable(page, url, assumePermanent, readAsListing) : e.running \/ e.upcoming}
<1> DEFINE candidates == WithDates(CandidatesOn(page, url))
           others == {i \in DOMAIN candidates : candidates[i].url \notin readAsListing}
           rest == At(candidates, others)
           permanent == assumePermanent \/ IsPermanentListing(page, url)
           undated == UndatedListing(NamesExhibitions(page, url), candidates)
           es == Entries(rest, permanent, undated, url)
           shown == {i \in DOMAIN es : es[i].running \/ es[i].upcoming}
<1>1. Harvest(page, url, assumePermanent, readAsListing) = At(es, shown)
  BY DEF Harvest
<1>2. Harvestable(page, url, assumePermanent, readAsListing) =
        {EntryFor(c, permanent, undated, url) :
            c \in {d \in Range(candidates) : d.url \notin readAsListing /\ Keeps(d, permanent, undated)}}
  BY DEF Harvestable
<1>3. IsList(candidates)
  BY PageCandidates, DatedAre
<1> HIDE DEF candidates, permanent, undated
<1>4. IsList(rest) /\ Range(rest) = {candidates[i] : i \in others}
  BY <1>3, AtIs, others \in SUBSET DOMAIN candidates
<1>5. {candidates[i] : i \in others} = {d \in Range(candidates) : d.url \notin readAsListing}
  BY DEF Range
<1> HIDE DEF rest, others
<1>6. /\ IsList(es)
      /\ Range(es) = {EntryFor(c, permanent, undated, url) : c \in {d \in Range(rest) : Keeps(d, permanent, undated)}}
  BY <1>4, EntriesAre
<1>7. {d \in Range(rest) : Keeps(d, permanent, undated)}
        = {d \in Range(candidates) : d.url \notin readAsListing /\ Keeps(d, permanent, undated)}
  BY <1>4, <1>5
<1>8. Range(es) = Harvestable(page, url, assumePermanent, readAsListing)
  BY <1>2, <1>6, <1>7
<1> HIDE DEF es
<1>9. Range(At(es, shown)) = {es[i] : i \in shown}
  BY <1>6, AtIs, shown \in SUBSET DOMAIN es
<1>10. {es[i] : i \in shown} = {e \in Range(es) : e.running \/ e.upcoming}
  BY DEF Range
<1> QED
  BY <1>1, <1>8, <1>9, <1>10

\* The more has been read as listings, the less is an entry.
LEMMA HarvestShrinks ==
    ASSUME NEW page, IsPage(page), NEW url, NEW assumePermanent, NEW fewer, NEW more, fewer \subseteq more
    PROVE  Range(Harvest(page, url, assumePermanent, more))
             \subseteq Range(Harvest(page, url, assumePermanent, fewer))
<1>1. Harvestable(page, url, assumePermanent, more) \subseteq Harvestable(page, url, assumePermanent, fewer)
  BY DEF Harvestable
<1> QED
  BY <1>1, HarvestIs

\* What an entry says is what its candidate tells.
LEMMA EntrySays ==
    ASSUME NEW c, IsCandidateRecord(c), NEW run, NEW permanent \in BOOLEAN, Tells(c, run, permanent),
           NEW undated, NEW url
    PROVE  SaysOf(EntryFor([c EXCEPT !.dates = DatesFor(c, Now)], permanent, undated, url), run)
<1> DEFINE d == [c EXCEPT !.dates = DatesFor(c, Now)]
           range == DatesFor(c, Now)
           e == EntryFor(d, permanent, undated, url)
<1>1. /\ d.dates = range /\ range \in DateRange
      /\ CandidateIsPermanent(d, permanent) <=> CandidateIsPermanent(c, permanent)
  <2>1. range \in DateRange
    BY DatesType, SiteAssumption DEF IsCandidateRecord
  <2>2. d.dates = range /\ d.lasting = c.lasting /\ d.context = c.context /\ d.url = c.url
    BY DEF IsCandidateRecord
  <2> HIDE DEF d
  <2> QED
    BY <2>1, <2>2 DEF CandidateIsPermanent
<1>2. Agrees(range, run)
  <2>1. CASE Known(c.dates)
    BY <2>1 DEF Tells, DatesFor
  <2>2. CASE ~Known(c.dates)
    <3> DEFINE parsed == ParseDateRange(c.context, Now)
    <3>1. Writes(c.context, run, Now) /\ InSight(run) /\ range = ResolveOpenEnd(parsed, Now)
      BY <2>2 DEF Tells, DatesFor
    <3>2. Agrees(parsed, run)
      BY <3>1, TextsAreReadAsWritten, SiteAssumption DEF IsCandidateRecord
    <3>3. parsed.permanent \/ parsed.end = NoDate \/ (~run.permanent /\ parsed.end = run.end)
          \/ (run.permanent /\ IsZero(parsed))
      BY <3>2 DEF Agrees
    <3> HIDE DEF parsed, range
    <3>4. range = parsed
      BY <3>1, <3>3 DEF ResolveOpenEnd, InSight, IsZero
    <3> QED
      BY <3>2, <3>4
  <2> QED
    BY <2>1, <2>2
<1>3. ~Known(range) => (run.permanent <=> CandidateIsPermanent(c, permanent))
  BY DEF Tells
<1>4. /\ e.start = range.start /\ e.end = range.end
      /\ e.permanent = (range.permanent \/ (IsZero(range) /\ CandidateIsPermanent(d, permanent)))
  <2> HIDE DEF d
  <2> QED
    BY <1>1 DEF EntryFor, Entry, IsPermanent
<1> HIDE DEF d, range, e
<1> QED
  BY <1>1, <1>2, <1>3, <1>4 DEF SaysOf, Agrees, Known, IsZero, e, d

-----------------------------------------------------------------------------
(***************************************************************************)
(* Every listing of a site is one of its exhibitions, as it is meant.      *)
(***************************************************************************)

\* An exhibition of a museum as it is meant, or the museum itself.
IsMeantAt(e, host, museum) ==
    /\ e.url.host = host
    /\ e.title # museum =>
          e.title \in DOMAIN Meant /\ \E run \in Meant[e.title] : SaysOf(e, run)

\* The entries of a page that tells are exhibitions as they are meant.
LEMMA HarvestTells ==
    ASSUME NEW page, IsPage(page), NEW url, NEW assumePermanent \in BOOLEAN, NEW first,
           PageTells(page, url, assumePermanent, first), NEW readAsListing,
           {first, url} \subseteq readAsListing, NEW museum
    PROVE  \A e \in Range(Harvest(page, url, assumePermanent, readAsListing)) :
              IsMeantAt(e, url.host, museum)
<1> DEFINE candidates == CandidatesOn(page, url)
           dated == WithDates(candidates)
           permanent == assumePermanent \/ IsPermanentListing(page, url)
           undated == UndatedListing(NamesExhibitions(page, url), dated)
<1> SUFFICES ASSUME NEW e \in Range(Harvest(page, url, assumePermanent, readAsListing))
             PROVE  IsMeantAt(e, url.host, museum)
  OBVIOUS
<1>1. e.title \in DOMAIN Meant
  BY HarvestShrinks DEF PageTells
<1>2. PICK d \in Range(dated) : e = EntryFor(d, permanent, undated, url)
  BY HarvestIs DEF Harvestable
<1>3. IsList(candidates) /\ \A c \in Range(candidates) : IsCandidateRecord(c) /\ c.url.host = url.host
  BY PageCandidates
<1>4. permanent \in BOOLEAN
  BY DEF IsPermanentListing, HasAny, NamesPermanent
<1>5. \A c \in Range(candidates) : c.title \in DOMAIN Meant =>
         \E run \in Meant[c.title] : Tells(c, run, permanent)
  BY DEF PageTells
<1> HIDE DEF candidates, undated, permanent
<1>6. PICK c \in Range(candidates) : d = [c EXCEPT !.dates = DatesFor(c, Now)]
  BY <1>2, <1>3, DatedAre
<1>7. d.title = c.title /\ d.url = c.url
  BY <1>6
<1>8. e.title = d.title /\ e.url = d.url
  BY <1>2 DEF EntryFor, Entry
<1>9. PICK run \in Meant[c.title] : Tells(c, run, permanent)
  BY <1>1, <1>5, <1>7, <1>8
<1>10. SaysOf(e, run)
  BY <1>2, <1>3, <1>4, <1>6, <1>9, EntrySays
<1> QED
  BY <1>1, <1>3, <1>7, <1>8, <1>9, <1>10 DEF IsMeantAt

\* What is kept of a museum's listings leads where one of them led.
LEMMA FoldLeads ==
    ASSUME NEW s, IsList(s), \A k \in Range(s) : IsEntry(k), NEW e
    PROVE  \A k \in Range(Fold(s, e)) : k = e \/ \E x \in Range(s) : k.url = x.url
<1> DEFINE t == Fold(s, e)
<1>1. CASE \E i \in DOMAIN s : s[i].title = e.title
  <2>1. t = [i \in DOMAIN s |-> IF s[i].title = e.title THEN Widen(s[i], e) ELSE s[i]]
    BY <1>1 DEF Fold
  <2>2. \A i \in DOMAIN s : Widen(s[i], e).url = s[i].url
    BY DEF Widen, IsEntry, Range
  <2> QED
    BY <2>1, <2>2 DEF Range
<1>2. CASE ~ \E i \in DOMAIN s : s[i].title = e.title
  <2>1. t = Append(s, e)
    BY <1>2 DEF Fold
  <2>2. Len(s) \in Nat /\ DOMAIN s = 1 .. Len(s) /\ s \in Seq(Range(s) \cup {e})
    BY ListPlaces DEF IsList
  <2>3. DOMAIN t = 1 .. Len(s) + 1 /\ \A i \in 1 .. Len(s) + 1 : t[i] = IF i <= Len(s) THEN s[i] ELSE e
    BY <2>1, <2>2
  <2> HIDE DEF t
  <2>4. \A i \in DOMAIN t : t[i] = e \/ t[i] \in Range(s)
    BY <2>2, <2>3 DEF Range
  <2> QED
    BY <2>4 DEF Range, t
<1> QED
  BY <1>1, <1>2

LEMMA DedupeLeads ==
    ASSUME NEW entries, IsList(entries), \A e \in Range(entries) : IsEntry(e)
    PROVE  /\ \A k \in Range(Dedupe(entries)) : IsEntry(k)
           /\ \A k \in Range(Dedupe(entries)) : \E x \in Range(entries) : k.url = x.url
<1> DEFINE n == Len(entries)
<1>1. n \in Nat /\ DOMAIN entries = 1 .. n /\ \A i \in 1 .. n : entries[i] \in Range(entries)
  BY ListPlaces DEF Range
<1>2. PICK after : /\ after[0] = <<>>
                   /\ \A m \in 1 .. n : after[m] = Fold(after[m - 1], entries[m])
                   /\ Dedupe(entries) = after[n]
  BY <1>1, DedupeSteps
<1> DEFINE Fine(m) == /\ IsList(after[m]) /\ \A e \in Range(after[m]) : IsEntry(e)
                      /\ \A k \in Range(after[m]) : \E x \in Range(entries) : k.url = x.url
           Right == {m \in 0 .. n : Fine(m)}
<1>3. 0 \in Right
  <2>1. IsList(<<>>) /\ Range(<<>>) = {}
    BY DEF IsList, Range
  <2> QED
    BY <1>1, <1>2, <2>1
<1>4. ASSUME NEW m \in 1 .. n, m - 1 \in Right
      PROVE  m \in Right
  <2>1. Fine(m - 1) /\ IsEntry(entries[m]) /\ after[m] = Fold(after[m - 1], entries[m])
        /\ entries[m] \in Range(entries) /\ m \in 0 .. n
    BY <1>1, <1>2, <1>4
  <2>2. IsList(after[m]) /\ \A e \in Range(after[m]) : IsEntry(e)
    BY <2>1, FoldCovers
  <2>3. \A k \in Range(after[m]) : k = entries[m] \/ \E x \in Range(after[m - 1]) : k.url = x.url
    BY <2>1, FoldLeads
  <2> QED
    BY <2>1, <2>2, <2>3
<1>5. Right \in SUBSET Nat
  OBVIOUS
<1> HIDE DEF Right
<1>6. n \in Right
  BY <1>1, <1>3, <1>4, <1>5, StepByStep
<1> QED
  BY <1>2, <1>6 DEF Right

\* Pages of a host, in a sequence.
OnHost(urls, host) == IsList(urls) /\ \A u \in Range(urls) : u.host = host

LEMMA OnHostJoin ==
    ASSUME NEW host, NEW a, NEW b, OnHost(a, host), OnHost(b, host)
    PROVE  OnHost(a \o b, host)
BY ListsJoin DEF OnHost

LEMMA OnHostTail ==
    ASSUME NEW s, IsList(s), s # <<>>
    PROVE  /\ IsList(Tail(s)) /\ Range(Tail(s)) \subseteq Range(s)
           /\ Head(s) \in Range(s) /\ Len(Tail(s)) = Len(s) - 1 /\ Len(s) \in Nat \ {0}
<1> DEFINE t == Tail(s)
<1>1. Len(s) \in Nat \ {0} /\ s \in Seq(Range(s)) /\ DOMAIN s = 1 .. Len(s)
  BY ListPlaces DEF IsList
<1>2. t \in Seq(Range(s)) /\ Len(t) = Len(s) - 1 /\ \A i \in 1 .. Len(s) - 1 : t[i] = s[i + 1]
  BY <1>1
<1>3. Head(s) \in Range(s)
  BY <1>1 DEF Range
<1> HIDE DEF t
<1>4. t = [i \in 1 .. Len(t) |-> t[i]] /\ Len(t) \in Nat
  BY <1>2
<1>5. IsList(t) /\ DOMAIN t = 1 .. Len(t)
  BY <1>4, Lists
<1>6. Range(t) \subseteq Range(s)
  BY <1>1, <1>2, <1>5 DEF Range
<1> QED
  BY <1>1, <1>2, <1>3, <1>5, <1>6 DEF t

\* What has not been tried is part of what is to be tried.
LEMMA UntriedIs ==
    ASSUME NEW s, IsList(s), NEW seen
    PROVE  IsList(Untried(s, seen)) /\ Range(Untried(s, seen)) = Range(s) \ seen
<1> DEFINE places == {i \in DOMAIN s : s[i] \notin seen}
<1>1. IsList(At(s, places)) /\ Range(At(s, places)) = {s[i] : i \in places}
  BY AtIs, places \in SUBSET DOMAIN s
<1>2. {s[i] : i \in places} = Range(s) \ seen
  BY DEF Range
<1> QED
  BY <1>1, <1>2 DEF Untried

\* Of pages none of which has been tried the first is the next.
LEMMA FirstUntried ==
    ASSUME NEW s, IsList(s), s # <<>>
    PROVE  Untried(s, {}) # <<>> /\ Head(Untried(s, {})) = Head(s)
<1> DEFINE n == Len(s)
           UpTo(i) == Cardinality({j \in 1 .. n : j <= i})
           t == At(s, 1 .. n)
<1>1. n \in Nat \ {0} /\ DOMAIN s = 1 .. n
  <2>1. n \in Nat /\ DOMAIN s = 1 .. n /\ s \in Seq(Range(s))
    BY ListPlaces DEF IsList
  <2> QED
    BY <2>1
<1>2. Untried(s, {}) = t
  <2>1. {i \in DOMAIN s : s[i] \notin {}} = 1 .. n
    BY <1>1
  <2> QED
    BY <2>1 DEF Untried
<1>3. \A i \in 1 .. n : UpTo(i) = i
  <2> TAKE i \in 1 .. n
  <2>1. {j \in 1 .. n : j <= i} = 1 .. i /\ i \in Nat
    BY <1>1
  <2>2. Cardinality(1 .. i) = i - 1 + 1
    BY <2>1, FS_Interval, 1 \in Int, i \in Int, 1 <= i + 1
  <2>3. UpTo(i) = Cardinality(1 .. i)
    BY <2>1
  <2> HIDE DEF UpTo
  <2> QED
    BY <2>1, <2>2, <2>3
<1>4. t = [k \in 1 .. n |-> s[CHOOSE i \in 1 .. n : UpTo(i) = k]]
  <2>1. Cardinality(1 .. n) = n
    <3>1. Cardinality(1 .. n) = n - 1 + 1
      BY <1>1, FS_Interval, 1 \in Int, n \in Int, 1 <= n + 1
    <3> QED
      BY <1>1, <3>1
  <2> QED
    BY <2>1 DEF At
<1> HIDE DEF UpTo, t
<1>5. t[1] = s[1]
  <2>1. 1 \in 1 .. n /\ t[1] = s[CHOOSE i \in 1 .. n : UpTo(i) = 1]
    BY <1>1, <1>4
  <2>2. (CHOOSE i \in 1 .. n : UpTo(i) = 1) = 1
    BY <1>3, <2>1
  <2> QED
    BY <2>1, <2>2
<1>6. t = [k \in 1 .. n |-> t[k]] /\ DOMAIN t = 1 .. n
  BY <1>4
<1>7. IsList(t)
  BY <1>1, <1>6, Lists
<1>8. t # <<>> /\ Head(t) = t[1] /\ Head(s) = s[1]
  <2>1. t \in Seq(Range(t)) /\ s \in Seq(Range(s)) /\ 1 \in DOMAIN t
    BY <1>1, <1>6, <1>7 DEF IsList
  <2> QED
    BY <2>1
<1> QED
  BY <1>2, <1>5, <1>8

\* The pages the code knows of itself are on the host it is sent to.
LEMMA ConventionalStays ==
    ASSUME NEW host, NEW paths, IsList(paths)
    PROVE  OnHost(Conventional(host, paths), host) /\ Len(Conventional(host, paths)) = Len(paths)
<1> DEFINE s == Conventional(host, paths)
<1>1. s = [i \in DOMAIN paths |-> s[i]] /\ \A i \in DOMAIN paths : s[i].host = host
  BY DEF Conventional, Url
<1> HIDE DEF s
<1>2. DOMAIN paths = 1 .. Len(paths) /\ Len(paths) \in Nat
  BY ListPlaces
<1>3. s = [i \in 1 .. Len(paths) |-> s[i]]
  BY <1>1, <1>2
<1>4. IsList(s) /\ Len(s) = Len(paths) /\ DOMAIN s = DOMAIN paths
  BY <1>2, <1>3, Lists
<1> QED
  BY <1>1, <1>4 DEF OnHost, Range, s

\* Wherever a front page of some edition leads is on the site's host.
LEMMA HomesStay ==
    ASSUME NEW s \in Sites, NEW front \in Homes(s)
    PROVE  LET host == s.recorded.host IN
           /\ OnHost(front.listings, host) /\ OnHost(front.permanent, host) /\ OnHost(front.info, host)
<1>1. CASE front = NoHome
  <2>1. IsList(<<>>) /\ Range(<<>>) = {}
    BY DEF IsList, Range
  <2> QED
    BY <1>1, <2>1 DEF OnHost, NoHome
<1>2. CASE front # NoHome
  <2>0. PICK t \in Editions(s) : \E u \in FrontPages(s) \cap DOMAIN t.pages : front = HomePage(t.pages[u], u)
    BY <1>2 DEF Homes
  <2>1. PICK u \in FrontPages(s) \cap DOMAIN t.pages : front = HomePage(t.pages[u], u)
    BY <2>0
  <2>2. IsPage(t.pages[u]) /\ u.host = s.recorded.host
    <3>1. t \in Sites /\ u \in DOMAIN t.pages
      BY <2>1 DEF Editions
    <3>2. IsPage(t.pages[u])
      BY <3>1, SiteAssumption
    <3>3. u.host = s.recorded.host
      <4>1. \A path : Url(s.recorded.host, path).host = s.recorded.host
        BY DEF Url
      <4>2. u \in FrontPages(s)
        OBVIOUS
      <4> QED
        BY <4>1, <4>2, Zenon DEF FrontPages
    <3> QED
      BY <3>2, <3>3
  <2>3. /\ front.listings = FindListingLinks(t.pages[u], u)
        /\ front.permanent = FindPermanentLinks(t.pages[u], u)
        /\ front.info = FindInfoLinks(t.pages[u], u)
    BY <2>1 DEF HomePage
  <2> DEFINE page == t.pages[u]
  <2> HIDE DEF page
  <2>4. /\ IsList(FindListingLinks(page, u)) /\ IsList(FindPermanentLinks(page, u))
        /\ IsList(FindInfoLinks(page, u))
        /\ \A v \in Range(FindListingLinks(page, u)) \cup Range(FindPermanentLinks(page, u))
                    \cup Range(FindInfoLinks(page, u)) : v.host = u.host
    BY <2>2, LinksStayOnTheHost DEF page
  <2> QED
    BY <2>2, <2>3, <2>4 DEF OnHost, page
<1> QED
  BY <1>1, <1>2

LEMMA FirstPages ==
    ASSUME NEW s \in Sites, NEW front \in Homes(s)
    PROVE  LET todo0 == front.listings \o Conventional(s.recorded.host, ListingPaths) IN
           /\ OnHost(todo0, s.recorded.host) /\ todo0 # <<>>
           /\ FirstListing(s, front) = Head(todo0)
<1> DEFINE host == s.recorded.host
           c == Conventional(host, ListingPaths)
<1>1. IsList(ListingPaths) /\ Len(ListingPaths) # 0
  <2>1. ListingPaths \in Seq(Range(ListingPaths)) /\ ListingPaths # <<>>
    BY SiteAssumption
  <2> QED
    BY <2>1 DEF IsList
<1>2. OnHost(c, host) /\ Len(c) # 0
  BY <1>1, ConventionalStays
<1>3. OnHost(front.listings, host)
  BY HomesStay
<1> HIDE DEF c, host
<1>4. OnHost(front.listings \o c, host)
  BY <1>2, <1>3, OnHostJoin
<1>5. front.listings \o c # <<>>
  <2>1. front.listings \in Seq(Range(front.listings)) /\ c \in Seq(Range(c))
    BY <1>2, <1>3 DEF OnHost, IsList
  <2>2. Len(front.listings \o c) = Len(front.listings) + Len(c) /\ Len(front.listings) \in Nat /\ Len(c) \in Nat
    BY <2>1
  <2> QED
    BY <1>2, <2>2
<1> QED
  BY <1>4, <1>5 DEF FirstListing, c, host

\* The pages the museum is known by.
LEMMA HomeURLsAre ==
    /\ OnHost(HomeURLs, Host) /\ HomeURLs # <<>> /\ Range(HomeURLs) \subseteq FrontPages(site)
    /\ Len(HomeURLs) \in {1, 2}
<1> DEFINE root == Url(Host, <<>>)
           own == Url(Host, site.recorded.path)
<1>1. root.host = Host /\ own.host = Host /\ {root, own} \subseteq FrontPages(site)
  BY DEF Url, FrontPages, Host
<1>2. CASE HomeURLs = <<root>>
  <2>1. <<root>> = [i \in 1 .. 1 |-> <<root>>[i]] /\ <<root>>[1] = root
    OBVIOUS
  <2> DEFINE s == <<root>>
  <2>2. s = [i \in 1 .. 1 |-> s[i]] /\ s[1] = root /\ Len(s) = 1 /\ DOMAIN s = 1 .. 1
    OBVIOUS
  <2> HIDE DEF s, root
  <2>3. IsList(s) /\ Range(s) = {root}
    BY <2>2, Lists DEF Range
  <2> QED
    BY <1>1, <1>2, <2>2, <2>3 DEF OnHost, s
<1>3. CASE HomeURLs = <<own, root>>
  <2> DEFINE s == <<own, root>>
  <2>2. s = [i \in 1 .. 2 |-> s[i]] /\ s[1] = own /\ s[2] = root /\ Len(s) = 2 /\ DOMAIN s = 1 .. 2
    OBVIOUS
  <2> HIDE DEF s, root, own
  <2>3. IsList(s)
    BY <2>2, Lists
  <2>4. Range(s) \subseteq {own, root}
    BY <2>2, 1 .. 2 = {1, 2} DEF Range
  <2> QED
    BY <1>1, <1>3, <2>2, <2>3, <2>4 DEF OnHost, s
<1> QED
  BY <1>2, <1>3 DEF HomeURLs

\* Where the reader is sent: to pages of the site, first to those it was
\* given, then to where a front page of some edition led.  What a permanent
\* page lists is read when the first listing has been.
SentInv ==
    /\ site \in Sites /\ home \in Homes(site)
    /\ pc \in {"idle", "ask", "home", "listing", "permanent", "info", "record"}
    /\ OnHost(todo, Host)
    /\ IsFiniteSet(visited) /\ \A u \in visited : u.host = Host
    /\ pc \in {"ask", "home"} =>
          /\ todo # <<>> /\ Range(todo) \subseteq FrontPages(site)
          /\ visited = {} /\ found = <<>>
    /\ pc = "listing" =>
          \/ FirstListing(site, home) \in visited
          \/ /\ visited = {} /\ found = <<>>
             /\ todo = home.listings \o Conventional(Host, ListingPaths)
    /\ pc = "permanent" =>
          FirstListing(site, home) \in visited /\ Range(todo) \subseteq Range(home.permanent)

\* Whatever a museum edits, its site is at the same place.
LEMMA SamePlace ==
    ASSUME site \in Sites, [ReadingNext]_reading
    PROVE  /\ site' \in Sites /\ site'.recorded = site.recorded
           /\ Host' = Host /\ HomeURLs' = HomeURLs
           /\ Homes(site') = Homes(site) /\ FrontPages(site') = FrontPages(site)
           /\ \A front : FirstListing(site', front) = FirstListing(site, front)
<1>1. site' = site \/ (site' \in Sites /\ site'.recorded = site.recorded)
  BY DEF ReadingNext, Read, reading, world, stored, Start, AskUnchanged, ReadHome, ReadListing,
         EndListings, ReadPermanent, EndPermanent, ReadInfo, EndInfo, GiveUp, Record, Edit, Cancel
<1>2. site' \in Sites /\ site'.recorded = site.recorded
  BY <1>1
<1>4. Host' = Host /\ HomeURLs' = HomeURLs
  BY <1>2 DEF Host, HomeURLs, Url
<1>5. FrontPages(site') = FrontPages(site) /\ Editions(site') = Editions(site)
      /\ \A front : FirstListing(site', front) = FirstListing(site, front)
  BY <1>2 DEF FrontPages, Editions, FirstListing
<1>6. Homes(site') = Homes(site)
  <2> DEFINE Leads(editions, fronts) ==
               {NoHome} \cup UNION {{HomePage(t.pages[u], u) : u \in fronts \cap DOMAIN t.pages} :
                                    t \in editions}
  <2>1. \A s : Homes(s) = Leads(Editions(s), FrontPages(s))
    BY DEF Homes
  <2> HIDE DEF Leads
  <2> QED
    BY <1>5, <2>1
<1> QED
  BY <1>2, <1>4, <1>5, <1>6

\* It is the same museum.
LEMMA SameMuseum ==
    ASSUME SitesTell, site \in Sites, [ReadingNext]_reading
    PROVE  site'.museum = site.museum
<1>1. site' \in Editions(site)
  BY SamePlace DEF Editions
<1> QED
  BY <1>1 DEF SitesTell

LEMMA SentInit == ReadingInit => SentInv
<1>1. IsList(<<>>) /\ Range(<<>>) = {} /\ IsFiniteSet({})
  BY FS_EmptySet DEF IsList, Range
<1> QED
  BY <1>1 DEF ReadingInit, SentInv, OnHost, Homes

\* The next page is one of those to be tried, and is not tried again.
LEMMA NextIs ==
    ASSUME SentInv, NEW next, next = Untried(todo, visited), next # <<>>
    PROVE  /\ Head(next) \in Range(todo) \ visited /\ Head(next).host = Host
           /\ OnHost(Tail(next), Host) /\ Range(Tail(next)) \subseteq Range(todo)
<1>1. IsList(next) /\ Range(next) = Range(todo) \ visited
  BY UntriedIs DEF SentInv, OnHost
<1>2. /\ IsList(Tail(next)) /\ Range(Tail(next)) \subseteq Range(next)
      /\ Head(next) \in Range(next)
  BY <1>1, OnHostTail
<1> QED
  BY <1>1, <1>2 DEF SentInv, OnHost

\* The loop over the listings starts with the first page.
LEMMA ListingsStart ==
    ASSUME SentInv, NEW front \in Homes(site), ListingsOf(front), UNCHANGED <<visited, found, site>>,
           visited = {}, found = <<>>
    PROVE  SentInv'
<1>1. home' = front /\ pc' = "listing" /\ todo' = front.listings \o Conventional(Host, ListingPaths)
  BY DEF ListingsOf, OfferedListings
<1>2. site \in Sites /\ site' = site /\ Host' = Host
  BY DEF SentInv, Host
<1>3. OnHost(front.listings \o Conventional(Host, ListingPaths), Host)
  BY <1>2, FirstPages DEF Host
<1>4. OnHost(todo', Host') /\ todo' = home'.listings \o Conventional(Host', ListingPaths)
  BY <1>1, <1>2, <1>3
<1>5. home' \in Homes(site')
  BY <1>1, <1>2
<1> QED
  BY <1>1, <1>2, <1>4, <1>5 DEF SentInv

LEMMA SentNext ==
    ASSUME SentInv, [ReadingNext]_reading
    PROVE  SentInv'
<1>0. /\ site' \in Sites /\ Host' = Host /\ HomeURLs' = HomeURLs
      /\ Homes(site') = Homes(site) /\ FrontPages(site') = FrontPages(site)
      /\ \A front : FirstListing(site', front) = FirstListing(site, front)
  BY SamePlace DEF SentInv
<1> USE DEF SentInv
<1>1. CASE UNCHANGED <<home, pc, todo, visited, found>>
  BY <1>0, <1>1
<1>2. CASE Start
  <2>1. /\ home' = NoHome /\ todo' = HomeURLs /\ pc' \in {"ask", "home"}
        /\ visited' = {} /\ found' = <<>>
    BY <1>2 DEF Start
  <2>2. NoHome \in Homes(site) /\ IsFiniteSet({})
    BY FS_EmptySet DEF Homes
  <2> QED
    BY <1>0, <2>1, <2>2, HomeURLsAre
<1>3. CASE AskUnchanged
  BY <1>0, <1>3 DEF AskUnchanged
<1>4. CASE ReadHome
  <2> DEFINE url == Head(todo)
  <2>1. /\ pc = "home" /\ UNCHANGED <<visited, found, site>> /\ visited = {} /\ found = <<>>
        /\ todo # <<>> /\ Range(todo) \subseteq FrontPages(site) /\ IsList(todo)
    BY <1>4 DEF ReadHome, world, OnHost
  <2>2. url \in Range(todo)
    BY <2>1, OnHostTail
  <2>3. CASE url \in DOMAIN site.pages /\ ListingsOf(HomePage(site.pages[url], url))
    <3>1. site \in Editions(site) /\ url \in FrontPages(site)
      BY <2>1, <2>2 DEF Editions
    <3>2. HomePage(site.pages[url], url) \in Homes(site)
      <4> DEFINE t == site
      <4>1. t \in Editions(site) /\ url \in FrontPages(site) \cap DOMAIN t.pages
        BY <2>3, <3>1
      <4> QED
        BY <4>1 DEF Homes
    <3> QED
      BY <2>1, <2>3, <3>2, ListingsStart
  <2>4. CASE ListingsOf(NoHome)
    <3>1. NoHome \in Homes(site)
      BY DEF Homes
    <3> QED
      BY <2>1, <2>4, <3>1, ListingsStart
  <2>5. CASE Len(todo) > 1 /\ todo' = Tail(todo) /\ UNCHANGED <<pc, home>>
    <3>1. IsList(Tail(todo)) /\ Range(Tail(todo)) \subseteq Range(todo) /\ Tail(todo) # <<>>
      <4>1. IsList(Tail(todo)) /\ Range(Tail(todo)) \subseteq Range(todo)
            /\ Len(Tail(todo)) = Len(todo) - 1 /\ Len(todo) \in Nat
        BY <2>1, OnHostTail
      <4>2. Len(Tail(todo)) # 0 /\ Len(<<>>) = 0
        BY ONLY <2>5, <4>1
      <4> QED
        BY <4>1, <4>2
    <3> QED
      BY <1>0, <2>1, <2>5, <3>1 DEF OnHost
  <2> QED
    BY <1>4, <2>3, <2>4, <2>5 DEF ReadHome, Arrives
<1>5. CASE ReadListing
  <2> DEFINE next == Untried(todo, visited)
             url == Head(next)
  <2>1. /\ pc = "listing" /\ pc' = pc /\ home' = home /\ next # <<>>
        /\ visited' = visited \cup {url} /\ todo' = Tail(next)
    BY <1>5 DEF ReadListing, ReadNext
  <2>2. /\ url.host = Host /\ OnHost(Tail(next), Host)
    BY <2>1, NextIs
  <2>3. FirstListing(site, home) \in visited \cup {url}
    <3>1. CASE visited = {} /\ todo = home.listings \o Conventional(Host, ListingPaths)
      <4>1. FirstListing(site, home) = Head(todo) /\ todo # <<>> /\ IsList(todo)
        BY <3>1, FirstPages DEF Host, OnHost
      <4> QED
        BY <3>1, <4>1, FirstUntried
    <3> QED
      BY <2>1, <3>1
  <2>4. IsFiniteSet(visited \cup {url})
    BY FS_AddElement
  <2> HIDE DEF next, url
  <2> QED
    BY <1>0, <2>1, <2>2, <2>3, <2>4
<1>6. CASE EndListings
  <2>1. /\ pc = "listing" /\ pc' = "permanent" /\ home' = home /\ todo' = home.permanent
        /\ visited' = visited
        /\ found # <<>> \/ Untried(todo, visited) = <<>> \/ Cardinality(visited) >= MaxListingPages
    BY <1>6 DEF EndListings
  <2>2. FirstListing(site, home) \in visited
    <3>1. CASE /\ visited = {} /\ found = <<>>
               /\ todo = home.listings \o Conventional(Host, ListingPaths)
      <4>1. todo # <<>> /\ IsList(todo)
        BY <3>1, FirstPages DEF Host, OnHost
      <4>2. Cardinality({}) = 0 /\ MaxListingPages \in Nat \ {0}
        BY FS_EmptySet, SiteAssumption
      <4>3. Untried(todo, visited) # <<>>
        BY <3>1, <4>1, FirstUntried
      <4>4. ~(Cardinality(visited) >= MaxListingPages)
        BY <3>1, <4>2
      <4> QED
        BY <2>1, <3>1, <4>3, <4>4
    <3> QED
      BY <2>1, <3>1
  <2>3. OnHost(home.permanent, Host)
    BY HomesStay DEF Host
  <2> QED
    BY <1>0, <2>1, <2>2, <2>3
<1>7. CASE ReadPermanent
  <2> DEFINE next == Untried(todo, visited)
             url == Head(next)
  <2>1. /\ pc = "permanent" /\ pc' = pc /\ home' = home /\ next # <<>>
        /\ visited' = visited \cup {url} /\ todo' = Tail(next)
    BY <1>7 DEF ReadPermanent, ReadNext
  <2>2. url.host = Host /\ OnHost(Tail(next), Host) /\ Range(Tail(next)) \subseteq Range(todo)
    BY <2>1, NextIs
  <2>3. IsFiniteSet(visited \cup {url})
    BY FS_AddElement
  <2> HIDE DEF next, url
  <2> QED
    BY <1>0, <2>1, <2>2, <2>3
<1>8. CASE EndPermanent
  <2>1. /\ pc' \in {"info", "record"} /\ home' = home /\ visited' = visited
        /\ todo' = home.permanent \o home.info \o Conventional(Host, InfoPaths)
    BY <1>8 DEF EndPermanent
  <2>2. OnHost(home.permanent, Host) /\ OnHost(home.info, Host)
    BY HomesStay DEF Host
  <2>3. OnHost(Conventional(Host, InfoPaths), Host)
    BY ConventionalStays, SiteAssumption DEF IsList
  <2> DEFINE c == Conventional(Host, InfoPaths)
  <2> HIDE DEF c
  <2>4. OnHost(home.permanent \o home.info, Host)
    BY <2>2, OnHostJoin
  <2>5. OnHost((home.permanent \o home.info) \o c, Host)
    BY <2>3, <2>4, OnHostJoin DEF c
  <2> QED
    BY <1>0, <2>1, <2>5 DEF c
<1>9. CASE ReadInfo
  <2>1. /\ pc' \in {"info", "record"} /\ home' = home /\ visited' = visited
        /\ todo' = Untried(todo, {Head(todo)})
    BY <1>9 DEF ReadInfo
  <2>2. OnHost(todo', Host)
    BY <2>1, UntriedIs DEF OnHost
  <2> QED
    BY <1>0, <2>1, <2>2
<1>10. CASE EndInfo \/ GiveUp \/ Record
  <2>1. pc' \in {"record", "idle"} /\ UNCHANGED <<home, todo, visited>>
    BY <1>10 DEF EndInfo, GiveUp, Record
  <2> QED
    BY <1>0, <2>1
<1>11. Edit \/ Cancel \/ UNCHANGED reading => UNCHANGED <<home, pc, todo, visited, found>>
  BY DEF Edit, Cancel, reading, reader
<1> QED
  BY <1>1, <1>2, <1>3, <1>4, <1>5, <1>6, <1>7, <1>8, <1>9, <1>10, <1>11 DEF ReadingNext, Read

IsMeant(e) == IsMeantAt(e, Host, site.museum)

\* What has been found is meant, and what is stored is the site's.
MeantInv == (\A e \in Range(found) : IsMeant(e)) /\ \A h \in held : h.url.host = Host

LEMMA MeantInit == ReadingInit => MeantInv
  BY DEF ReadingInit, MeantInv, Range

\* What is read of one more page is meant.
LEMMA MoreIsMeant ==
    ASSUME SitesTell, SentInv, FoundInv, MeantInv, NEW assumePermanent \in BOOLEAN,
           NEW next, next = Untried(todo, visited), next # <<>>, ReadNext(next, assumePermanent),
           IF assumePermanent THEN pc = "permanent" ELSE pc = "listing"
    PROVE  \A e \in Range(found') : IsMeant(e)
<1>1. CASE UNCHANGED found
  BY <1>1 DEF MeantInv
<1>2. CASE ~ UNCHANGED found
  <2> DEFINE url == Head(next)
             es == Harvest(site.pages[url], url, assumePermanent, ReadAsListings(url))
             first == FirstListing(site, home)
  <2>1. url \in DOMAIN site.pages /\ found' = found \o es
    BY <1>2 DEF ReadNext, Arrives
  <2>2. site \in Sites /\ home \in Homes(site) /\ IsPage(site.pages[url])
    BY <2>1, SiteAssumption DEF SentInv
  <2>3. url \in Range(todo) /\ url.host = Host
    BY NextIs
  <2>4. {first, url} \subseteq ReadAsListings(url)
    <3>1. CASE first \in visited
      BY <3>1 DEF ReadAsListings
    <3>2. CASE visited = {} /\ todo = home.listings \o Conventional(Host, ListingPaths)
      <4>1. first = Head(todo) /\ todo # <<>> /\ IsList(todo)
        BY <2>2, <3>2, FirstPages DEF Host, OnHost
      <4> QED
        BY <3>2, <4>1, FirstUntried DEF ReadAsListings
    <3> QED
      BY <3>1, <3>2 DEF SentInv
  <2>5. PageTells(site.pages[url], url, assumePermanent, first)
    <3>1. /\ PageTells(site.pages[url], url, FALSE, first)
          /\ url \in Range(home.permanent) => PageTells(site.pages[url], url, TRUE, first)
      BY <2>1, <2>2 DEF SitesTell
    <3>2. assumePermanent => url \in Range(home.permanent)
      BY <2>3 DEF SentInv
    <3> QED
      BY <3>1, <3>2
  <2>6. \A e \in Range(es) : IsMeant(e)
    <3> HIDE DEF first, url
    <3> QED
      BY <2>2, <2>3, <2>4, <2>5, HarvestTells DEF IsMeant
  <2>7. IsList(es)
    BY <2>2, Harvested
  <2> HIDE DEF url, es
  <2>8. IsList(found \o es) /\ Range(found \o es) = Range(found) \cup Range(es)
    BY <2>7, ListsJoin DEF FoundInv
  <2> QED
    BY <2>1, <2>6, <2>8 DEF MeantInv
<1> QED
  BY <1>1, <1>2

LEMMA MeantNext ==
    ASSUME SitesTell, SentInv, FoundInv, MeantInv, [ReadingNext]_reading
    PROVE  MeantInv'
<1>0. Host' = Host /\ site'.museum = site.museum
  BY SamePlace, SameMuseum DEF SentInv
<1>1. \A e : IsMeant(e)' <=> IsMeant(e)
  BY <1>0 DEF IsMeant
<1>2. ASSUME UNCHANGED held, \A e \in Range(found') : IsMeant(e)
      PROVE  MeantInv'
  BY <1>0, <1>1, <1>2 DEF MeantInv
<1>3. CASE UNCHANGED <<found, held>>
  BY <1>2, <1>3 DEF MeantInv
<1>4. CASE Start
  BY <1>2, <1>4 DEF Start, stored, Range
<1>5. CASE ReadListing
  BY <1>2, <1>5, MoreIsMeant DEF ReadListing, stored
<1>6. CASE ReadPermanent
  BY <1>2, <1>6, MoreIsMeant DEF ReadPermanent, stored
<1>7. CASE ReadInfo
  <2> DEFINE url == Head(todo)
  <2>1. UNCHANGED held /\ todo # <<>> /\ (UNCHANGED found \/ found' = <<Display(url)>>)
    BY <1>7 DEF ReadInfo, stored
  <2>2. url.host = Host
    BY <2>1, OnHostTail DEF SentInv, OnHost
  <2>3. IsMeant(Display(url))
    BY <2>2 DEF IsMeant, IsMeantAt, Display
  <2> DEFINE s == <<Display(url)>>
  <2>4. Range(s) = {Display(url)}
    BY DEF Range
  <2> HIDE DEF s
  <2> QED
    BY <1>2, <1>3, <2>1, <2>3, <2>4 DEF s
<1>8. CASE Record
  <2> DEFINE kept == Dedupe(found)
  <2>1. UNCHANGED found /\ (held' = held \/ held' = Kept(kept))
    BY <1>8 DEF Record, stored
  <2>2. IsList(found) /\ \A k \in Range(kept) : \E x \in Range(found) : k.url = x.url
    BY DedupeLeads DEF FoundInv
  <2>3. \A i \in DOMAIN kept : kept[i].url.host = Host
    BY <2>2 DEF MeantInv, IsMeant, IsMeantAt, Range
  <2> HIDE DEF kept
  <2>4. \A h \in held' : h.url.host = Host
    BY <2>1, <2>3 DEF Kept, MeantInv
  <2> QED
    BY <1>0, <1>1, <2>1, <2>4 DEF MeantInv
<1>9. AskUnchanged \/ ReadHome \/ EndListings \/ EndPermanent \/ EndInfo \/ GiveUp
      \/ Edit \/ Cancel \/ UNCHANGED reading => UNCHANGED <<found, held>>
  BY DEF AskUnchanged, ReadHome, EndListings, EndPermanent, EndInfo, GiveUp,
         Edit, Cancel, reading, reader, stored
<1> QED
  BY <1>3, <1>4, <1>5, <1>6, <1>7, <1>8, <1>9 DEF ReadingNext, Read

\* What has been asked for, by the loop the reader is in.
BudgetInv ==
    LET front == 1 + Len(HomeURLs) IN
    /\ fetches \in Nat /\ pages \in Nat
    /\ pc = "ask" => fetches = 0 /\ Len(todo) = Len(HomeURLs)
    /\ pc = "home" => fetches + Len(todo) <= front
    /\ pc = "listing" => /\ Cardinality(visited) <= MaxListingPages
                        /\ fetches <= front + Cardinality(visited)
    /\ pc = "permanent" => /\ pages <= MaxPermanentPages
                          /\ fetches <= front + MaxListingPages + pages
    /\ pc = "info" => /\ pages <= MaxInfoPages
                     /\ fetches <= front + MaxListingPages + MaxPermanentPages + pages
    /\ ReadsWithinBudget

LEMMA BudgetInit == ReadingInit => BudgetInv
<1>1. Len(HomeURLs) \in Nat /\ {MaxListingPages, MaxPermanentPages, MaxInfoPages} \subseteq Nat
  BY HomeURLsAre, SiteAssumption
<1> QED
  BY <1>1 DEF ReadingInit, BudgetInv, ReadsWithinBudget

LEMMA BudgetNext ==
    ASSUME SentInv, BudgetInv, [ReadingNext]_reading
    PROVE  BudgetInv'
<1>0. HomeURLs' = HomeURLs
  BY SamePlace DEF SentInv
<1> DEFINE front == 1 + Len(HomeURLs)
<1>1. /\ front \in Nat /\ front' = front /\ front = 1 + Len(HomeURLs)
      /\ MaxListingPages \in Nat /\ MaxPermanentPages \in Nat /\ MaxInfoPages \in Nat
  BY <1>0, HomeURLsAre, SiteAssumption
<1>2. Cardinality(visited) \in Nat /\ Len(todo) \in Nat
  BY FS_CardinalityType, ListPlaces DEF SentInv, OnHost
<1> USE DEF BudgetInv, ReadsWithinBudget
<1> HIDE DEF front
<1>3. CASE UNCHANGED <<pc, todo, visited, pages, fetches>>
  BY <1>0, <1>3
<1>4. CASE Start
  <2>1. fetches' = 0 /\ pages' = 0 /\ pc' \in {"ask", "home"} /\ todo' = HomeURLs
    BY <1>4 DEF Start
  <2> QED
    BY <1>0, <1>1, <2>1
<1>5. CASE AskUnchanged
  <2>1. /\ pc = "ask" /\ pc' \in {"home", "record"} /\ UNCHANGED <<todo, visited, pages>>
        /\ fetches' \in {fetches, fetches + 1}
    BY <1>5 DEF AskUnchanged, Arrives, Fails
  <2> QED
    BY <1>0, <1>1, <2>1
<1>6. CASE ReadHome
  <2>1. /\ pc = "home" /\ UNCHANGED <<visited, pages>> /\ fetches' \in {fetches, fetches + 1}
        /\ \/ pc' = "listing"
           \/ pc' = "home" /\ todo' = Tail(todo)
    BY <1>6 DEF ReadHome, ListingsOf, Arrives, Fails
  <2>2. IsList(todo) /\ todo # <<>> /\ visited = {}
    BY <2>1 DEF SentInv, OnHost
  <2>3. Len(Tail(todo)) = Len(todo) - 1 /\ Len(todo) \in Nat \ {0}
    BY <2>2, OnHostTail
  <2>4. Cardinality({}) = 0
    BY FS_EmptySet
  <2>5. fetches' + Len(todo) <= front + 1 /\ fetches' \in Nat
    BY <1>1, <2>1, <2>3
  <2>6. CASE pc' = "listing"
    BY <1>0, <1>1, <2>1, <2>2, <2>3, <2>4, <2>5, <2>6
  <2>7. CASE pc' = "home" /\ todo' = Tail(todo)
    BY <1>0, <1>1, <2>1, <2>3, <2>5, <2>7
  <2> QED
    BY <2>1, <2>6, <2>7
<1>7. CASE ReadListing
  <2> DEFINE url == Head(Untried(todo, visited))
  <2>1. /\ pc = "listing" /\ pc' = "listing" /\ Untried(todo, visited) # <<>>
        /\ Cardinality(visited) < MaxListingPages
        /\ visited' = visited \cup {url} /\ pages' = pages + 1
        /\ fetches' \in {fetches, fetches + 1}
    BY <1>7 DEF ReadListing, ReadNext, Arrives, Fails
  <2>2. url \notin visited /\ IsFiniteSet(visited)
    BY <2>1, NextIs DEF SentInv
  <2> HIDE DEF url
  <2>3. Cardinality(visited') = Cardinality(visited) + 1
    BY <2>1, <2>2, FS_AddElement
  <2> QED
    BY <1>0, <1>1, <1>2, <2>1, <2>3
<1>8. CASE EndListings
  <2>1. pc = "listing" /\ pc' = "permanent" /\ pages' = 0 /\ UNCHANGED <<visited, fetches>>
    BY <1>8 DEF EndListings
  <2> QED
    BY <1>0, <1>1, <1>2, <2>1
<1>9. CASE ReadPermanent
  <2>1. /\ pc = "permanent" /\ pc' = "permanent" /\ pages < MaxPermanentPages /\ pages' = pages + 1
        /\ fetches' \in {fetches, fetches + 1}
    BY <1>9 DEF ReadPermanent, ReadNext, Arrives, Fails
  <2> QED
    BY <1>0, <1>1, <2>1
<1>10. CASE EndPermanent
  <2>1. pc = "permanent" /\ pc' \in {"info", "record"} /\ pages' = 0 /\ UNCHANGED fetches
    BY <1>10 DEF EndPermanent
  <2> QED
    BY <1>0, <1>1, <2>1
<1>11. CASE ReadInfo
  <2>1. /\ pc = "info" /\ pc' \in {"info", "record"} /\ pages < MaxInfoPages /\ pages' = pages + 1
        /\ fetches' \in {fetches, fetches + 1}
    BY <1>11 DEF ReadInfo, Arrives, Fails
  <2> QED
    BY <1>0, <1>1, <2>1
<1>12. CASE EndInfo \/ GiveUp \/ Record
  <2>1. pc' \in {"record", "idle"} /\ UNCHANGED <<pages, fetches>>
    BY <1>12 DEF EndInfo, GiveUp, Record
  <2> QED
    BY <1>0, <1>1, <2>1
<1>13. Edit \/ Cancel \/ UNCHANGED reading => UNCHANGED <<pc, todo, visited, pages, fetches>>
  BY DEF Edit, Cancel, reading, reader
<1> QED
  BY <1>3, <1>4, <1>5, <1>6, <1>7, <1>8, <1>9, <1>10, <1>11, <1>12, <1>13 DEF ReadingNext, Read

\* A read asks for no more pages than its loops have a budget for, whatever
\* the pages link to and however they change on the way (maxListingPages,
\* maxPermanentPages, maxInfoPages).
THEOREM ReadsStayInBudget == ReadingSpec => []ReadsWithinBudget
<1> DEFINE ReadInv == SentInv /\ BudgetInv
<1>1. ReadingInit => ReadInv
  BY SentInit, BudgetInit
<1>2. ReadInv /\ [ReadingNext]_reading => ReadInv'
  BY SentNext, BudgetNext
<1>3. ReadInv => ReadsWithinBudget
  BY DEF BudgetInv
<1> QED
  BY <1>1, <1>2, <1>3, PTL DEF ReadingSpec

\* Whatever a museum edits while its site is read, whichever requests fail and
\* whenever the reader is stopped: no entry comes of a page but an exhibition,
\* with the bounds and the permanence that were meant, or the museum itself;
\* a read stays within its budget of requests; what is stored is the site's
\* own.  It is assumed of each page by itself that it tells what is on
\* (harvest, datesFor, ForSite).
THEOREM ListingsAreMeant == ASSUME SitesTell PROVE ReadingSpec => []ReadingInv
<1> DEFINE ReadInv == StaleInv /\ FoundInv /\ SentInv /\ MeantInv /\ BudgetInv
<1>1. ReadingInit => ReadInv
  BY StaleInit, FoundInit, SentInit, MeantInit, BudgetInit
<1>2. ReadInv /\ [ReadingNext]_reading => ReadInv'
  BY StaleNext, FoundNext, SentNext, MeantNext, BudgetNext
<1>3. ReadInv => ReadingInv
  <2> SUFFICES ASSUME ReadInv PROVE ReadingInv
    OBVIOUS
  <2>1. ReadingTypeOK
    BY DEF ReadingTypeOK, StaleInv, TagsAreTrue, SentInv, MeantInv
  <2>2. \A i \in DOMAIN found : IsMeant(found[i])
    BY DEF MeantInv, Range
  <2>3. site.museum \notin DOMAIN Meant
    BY DEF SitesTell, SentInv
  <2>4. ReadsWhatWasMeant
    BY <2>2, <2>3 DEF ReadsWhatWasMeant, IsMeant, IsMeantAt
  <2>5. ShowsNothingElse
    BY <2>2 DEF ShowsNothingElse, IsMeant, IsMeantAt
  <2> QED
    BY <2>1, <2>4, <2>5 DEF BudgetInv, ReadingInv
<1> QED
  BY <1>1, <1>2, <1>3, PTL DEF ReadingSpec

-----------------------------------------------------------------------------
(***************************************************************************)
(* What a read that nothing disturbs comes to.                             *)
(***************************************************************************)

\* What is left of a sequence once some of its members have been tried: the
\* rest of it, in its order.
LeftOf(rest, urls, tried) ==
    /\ IsList(rest)
    /\ \E at \in [DOMAIN rest -> DOMAIN urls] :
          /\ \A k, m \in DOMAIN rest : k < m => at[k] < at[m]
          /\ \A k \in DOMAIN rest : rest[k] = urls[at[k]]
          /\ \A i \in DOMAIN urls : (\A k \in DOMAIN rest : at[k] # i) => urls[i] \in tried

LEMMA AllIsLeft ==
    ASSUME NEW urls, IsList(urls), NEW tried
    PROVE  LeftOf(urls, urls, tried)
<1> DEFINE at == [k \in DOMAIN urls |-> k]
<1>1. /\ at \in [DOMAIN urls -> DOMAIN urls]
      /\ \A k, m \in DOMAIN urls : k < m => at[k] < at[m]
      /\ \A k \in DOMAIN urls : urls[k] = urls[at[k]]
      /\ \A i \in DOMAIN urls : (\A k \in DOMAIN urls : at[k] # i) => urls[i] \in tried
  OBVIOUS
<1> HIDE DEF at
<1> QED
  BY <1>1 DEF LeftOf

\* What is left is in the sequence; the rest of the sequence has been tried.
LEMMA LeftIs ==
    ASSUME NEW rest, NEW urls, NEW tried, LeftOf(rest, urls, tried)
    PROVE  Range(rest) \subseteq Range(urls) /\ Range(urls) \subseteq Range(rest) \cup tried
<1>1. PICK at \in [DOMAIN rest -> DOMAIN urls] :
          /\ \A k \in DOMAIN rest : rest[k] = urls[at[k]]
          /\ \A i \in DOMAIN urls : (\A k \in DOMAIN rest : at[k] # i) => urls[i] \in tried
  BY DEF LeftOf
<1> QED
  BY <1>1 DEF Range

LEMMA UntriedIsLeft ==
    ASSUME NEW rest, NEW urls, IsList(urls), NEW tried, LeftOf(rest, urls, tried), NEW more
    PROVE  LeftOf(Untried(rest, more), urls, tried \cup more)
<1> DEFINE places == {i \in DOMAIN rest : rest[i] \notin more}
           u == Untried(rest, more)
<1>1. IsList(rest)
  BY DEF LeftOf
<1>2. PICK at \in [DOMAIN rest -> DOMAIN urls] :
          /\ \A k, m \in DOMAIN rest : k < m => at[k] < at[m]
          /\ \A k \in DOMAIN rest : rest[k] = urls[at[k]]
          /\ \A i \in DOMAIN urls : (\A k \in DOMAIN rest : at[k] # i) => urls[i] \in tried
  BY DEF LeftOf
<1>3. u = At(rest, places) /\ places \in SUBSET DOMAIN rest
  BY DEF Untried
<1>p. \A i \in DOMAIN rest : i \in places <=> rest[i] \notin more
  OBVIOUS
<1> HIDE DEF places
<1>4. PICK in \in [DOMAIN u -> places] :
          /\ \A k, m \in DOMAIN u : k < m => in[k] < in[m]
          /\ \A k \in DOMAIN u : u[k] = rest[in[k]]
          /\ \A i \in places : \E k \in DOMAIN u : in[k] = i
  <2> DEFINE a == At(rest, places)
  <2>1. \E in \in [DOMAIN a -> places] :
          /\ \A k, m \in DOMAIN a : k < m => in[k] < in[m]
          /\ \A k \in DOMAIN a : a[k] = rest[in[k]]
          /\ \A i \in places : \E k \in DOMAIN a : in[k] = i
    BY <1>1, <1>3, AtOrder
  <2>2. u = a
    BY <1>3
  <2> HIDE DEF a, u
  <2> QED
    BY <2>1, <2>2
<1> HIDE DEF u
<1> DEFINE on == [k \in DOMAIN u |-> at[in[k]]]
<1>5. /\ on \in [DOMAIN u -> DOMAIN urls]
      /\ \A k, m \in DOMAIN u : k < m => on[k] < on[m]
      /\ \A k \in DOMAIN u : u[k] = urls[on[k]]
  BY <1>2, <1>3, <1>4
<1>6. ASSUME NEW i \in DOMAIN urls, \A k \in DOMAIN u : on[k] # i
      PROVE  urls[i] \in tried \cup more
  <2>1. CASE \E k \in DOMAIN rest : at[k] = i
    <3>1. PICK k \in DOMAIN rest : at[k] = i
      BY <2>1
    <3>2. k \notin places
      BY <1>4, <1>6, <3>1
    <3> QED
      BY <1>p, <1>2, <3>1, <3>2
  <2> QED
    BY <1>2, <2>1
<1>7. IsList(u)
  BY <1>1, <1>3, AtTakes
<1> HIDE DEF on
<1> QED
  BY <1>5, <1>6, <1>7 DEF LeftOf, u

LEMMA TailIsLeft ==
    ASSUME NEW rest, NEW urls, NEW tried, LeftOf(rest, urls, tried), rest # <<>>
    PROVE  LeftOf(Tail(rest), urls, tried \cup {Head(rest)})
<1>1. IsList(rest)
  BY DEF LeftOf
<1>2. PICK at \in [DOMAIN rest -> DOMAIN urls] :
          /\ \A k, m \in DOMAIN rest : k < m => at[k] < at[m]
          /\ \A k \in DOMAIN rest : rest[k] = urls[at[k]]
          /\ \A i \in DOMAIN urls : (\A k \in DOMAIN rest : at[k] # i) => urls[i] \in tried
  BY DEF LeftOf
<1> DEFINE t == Tail(rest)
           n == Len(rest)
<1>3. /\ n \in Nat \ {0} /\ DOMAIN rest = 1 .. n /\ Head(rest) = rest[1]
      /\ DOMAIN t = 1 .. n - 1 /\ \A k \in 1 .. n - 1 : t[k] = rest[k + 1]
  BY <1>1 DEF IsList
<1>4. IsList(t)
  BY <1>1, OnHostTail
<1> HIDE DEF t, n
<1> DEFINE on == [k \in 1 .. n - 1 |-> at[k + 1]]
<1>5. \A k \in 1 .. n - 1 : k + 1 \in 1 .. n /\ on[k] = at[k + 1]
  BY <1>3
<1>6. on \in [DOMAIN t -> DOMAIN urls]
  BY <1>2, <1>3, <1>5
<1>7. \A k, m \in 1 .. n - 1 : k < m => on[k] < on[m]
  <2> TAKE k, m \in 1 .. n - 1
  <2> HAVE k < m
  <2>1. k + 1 < m + 1
    BY <1>3
  <2> QED
    BY <1>2, <1>3, <1>5, <2>1
<1>8. \A k \in 1 .. n - 1 : t[k] = urls[on[k]]
  BY <1>2, <1>3, <1>5
<1>9. ASSUME NEW i \in DOMAIN urls, \A k \in 1 .. n - 1 : on[k] # i
      PROVE  urls[i] \in tried \cup {Head(rest)}
  <2>1. ASSUME NEW k \in DOMAIN rest, at[k] = i PROVE k = 1
    <3>1. k # 1 => k - 1 \in 1 .. n - 1 /\ k - 1 + 1 = k
      BY <1>3
    <3> QED
      BY <1>5, <1>9, <2>1, <3>1
  <2>2. CASE \E k \in DOMAIN rest : at[k] = i
    BY <1>2, <1>3, <2>1, <2>2
  <2> QED
    BY <1>2, <2>2
<1> HIDE DEF on
<1>10. /\ on \in [DOMAIN t -> DOMAIN urls]
       /\ \A k, m \in DOMAIN t : k < m => on[k] < on[m]
       /\ \A k \in DOMAIN t : t[k] = urls[on[k]]
       /\ \A i \in DOMAIN urls : (\A k \in DOMAIN t : on[k] # i) => urls[i] \in tried \cup {Head(rest)}
  BY <1>3, <1>6, <1>7, <1>8, <1>9
<1> QED
  BY <1>4, <1>10 DEF LeftOf, t

\* What comes before a page comes before those it comes before.
LEMMA AheadIsOrder ==
    ASSUME NEW urls, IsList(urls), NEW u \in Range(urls), NEW v \in Range(urls)
    PROVE  /\ Ahead(urls, u) \subseteq Range(urls) /\ u \notin Ahead(urls, u)
           /\ u # v => u \in Ahead(urls, v) \/ v \in Ahead(urls, u)
           /\ v \in Ahead(urls, u) => Ahead(urls, v) \subseteq Ahead(urls, u)
<1>1. Len(urls) \in Nat /\ DOMAIN urls = 1 .. Len(urls)
  BY ListPlaces
<1>2. \A k \in DOMAIN urls : k \in 1 .. k /\ k \in Nat
  BY <1>1
<1>3. Ahead(urls, u) \subseteq Range(urls) /\ u \notin Ahead(urls, u)
  BY <1>2 DEF Ahead, Range
<1>4. ASSUME u # v PROVE u \in Ahead(urls, v) \/ v \in Ahead(urls, u)
  <2> DEFINE Places == {k \in DOMAIN urls : urls[k] \in {u, v}}
  <2>1. Places \in SUBSET Nat /\ Places # {}
    BY <1>2 DEF Range
  <2> HIDE DEF Places
  <2>2. PICK k \in Places : \A j \in Places : k <= j
    BY <2>1, LeastElement
  <2>3. /\ k \in DOMAIN urls /\ urls[k] \in {u, v}
        /\ \A i \in 1 .. k - 1 : urls[i] \notin {u, v}
    <3>1. k \in DOMAIN urls /\ urls[k] \in {u, v}
      BY <2>2 DEF Places
    <3>2. ASSUME NEW i \in 1 .. k - 1 PROVE i \notin Places
      BY <1>1, <2>2, <3>1, <3>2
    <3>3. \A i \in 1 .. k - 1 : i \in DOMAIN urls
      BY <1>1, <3>1
    <3> QED
      BY <3>1, <3>2, <3>3 DEF Places
  <2>4. \A i \in 1 .. k : i = k \/ i \in 1 .. k - 1
    BY <1>1, <2>3
  <2>5. CASE urls[k] = u
    BY <1>4, <2>3, <2>4, <2>5 DEF Ahead
  <2>6. CASE urls[k] = v
    BY <1>4, <2>3, <2>4, <2>6 DEF Ahead
  <2> QED
    BY <2>3, <2>5, <2>6
<1>5. ASSUME v \in Ahead(urls, u), NEW w \in Ahead(urls, v) PROVE w \in Ahead(urls, u)
  <2>1. PICK k \in DOMAIN urls : v = urls[k] /\ \A i \in 1 .. k : urls[i] # u
    BY <1>5 DEF Ahead
  <2>2. PICK j \in DOMAIN urls : w = urls[j] /\ \A i \in 1 .. j : urls[i] # v
    BY <1>5 DEF Ahead
  <2>3. ~(k <= j)
    BY <1>1, <2>1, <2>2
  <2>4. \A i \in 1 .. j : i \in 1 .. k
    BY <1>1, <2>3
  <2> QED
    BY <2>1, <2>2, <2>4 DEF Ahead
<1> QED
  BY <1>3, <1>4, <1>5

\* What has been tried includes all that comes before any of it.
TriedInOrder(tried, urls, seen) == \A v \in tried : v \in Range(urls) /\ Ahead(urls, v) \subseteq seen

\* The first of what is left is the next: what comes before it has been tried,
\* and it comes after what has been.
LEMMA HeadIsNext ==
    ASSUME NEW urls, IsList(urls), NEW seen, NEW next, LeftOf(next, urls, seen), next # <<>>,
           Range(next) \cap seen = {}, NEW tried \in SUBSET seen, TriedInOrder(tried, urls, seen)
    PROVE  /\ Head(next) \in Range(urls) \ seen
           /\ Ahead(urls, Head(next)) \subseteq seen
           /\ tried \subseteq Ahead(urls, Head(next))
<1> DEFINE u == Head(next)
<1>1. IsList(next) /\ u \in Range(next)
  BY OnHostTail DEF LeftOf
<1>2. PICK at \in [DOMAIN next -> DOMAIN urls] :
          /\ \A k, m \in DOMAIN next : k < m => at[k] < at[m]
          /\ \A k \in DOMAIN next : next[k] = urls[at[k]]
          /\ \A i \in DOMAIN urls : (\A k \in DOMAIN next : at[k] # i) => urls[i] \in seen
  BY DEF LeftOf
<1>3. /\ DOMAIN next = 1 .. Len(next) /\ 1 \in DOMAIN next /\ u = next[1] /\ Len(next) \in Nat
      /\ DOMAIN urls = 1 .. Len(urls) /\ Len(urls) \in Nat
  BY <1>1 DEF IsList
<1> HIDE DEF u
<1>4. u \in Range(urls) \ seen
  BY <1>1, LeftIs
<1>5. \A k \in DOMAIN next : at[1] <= at[k]
  <2> TAKE k \in DOMAIN next
  <2>1. k = 1 \/ 1 < k
    BY <1>3
  <2>2. at[1] \in Int /\ at[k] \in Int
    BY <1>2, <1>3
  <2> QED
    BY <1>2, <1>3, <2>1, <2>2
<1>6. ASSUME NEW v \in Ahead(urls, u) PROVE v \in seen
  <2>1. PICK j \in DOMAIN urls : v = urls[j] /\ \A i \in 1 .. j : urls[i] # u
    BY DEF Ahead
  <2>2. urls[at[1]] = u /\ at[1] \in DOMAIN urls
    BY <1>2, <1>3
  <2>3. ~(at[1] <= j)
    BY <1>3, <2>1, <2>2
  <2>4. \A k \in DOMAIN next : at[k] # j
    BY <1>5, <2>3
  <2> QED
    BY <1>2, <2>1, <2>4
<1>7. ASSUME NEW v \in tried PROVE v \in Ahead(urls, u)
  <2>1. v \in Range(urls) /\ Ahead(urls, v) \subseteq seen /\ v # u
    BY <1>4, <1>7 DEF TriedInOrder
  <2>2. u \notin Ahead(urls, v)
    BY <1>4, <2>1
  <2> QED
    BY <1>4, <2>1, <2>2, AheadIsOrder
<1> QED
  BY <1>4, <1>6, <1>7 DEF u

LEMMA AheadIsFinite ==
    ASSUME NEW urls, IsList(urls), NEW u
    PROVE  IsFiniteSet(Ahead(urls, u)) /\ Cardinality(Ahead(urls, u)) \in Nat
<1> DEFINE n == Len(urls)
           places == {k \in DOMAIN urls : \A i \in 1 .. k : urls[i] # u}
<1>1. n \in Nat /\ DOMAIN urls = 1 .. n
  BY ListPlaces
<1>2. IsFiniteSet(1 .. n) /\ places \subseteq 1 .. n
  BY <1>1, FS_Interval, 1 \in Int, n \in Int
<1>3. IsFiniteSet(places)
  BY <1>2, FS_Subset
<1> DEFINE there == [j \in places |-> urls[j]]
<1>4. there \in Surjection(places, Ahead(urls, u))
  BY DEF Ahead, Surjection
<1> QED
  BY <1>3, <1>4, FS_Surjection, FS_CardinalityType

LEMMA FrontIsHome ==
    ASSUME NEW s \in Sites
    PROVE  /\ FrontOf(s) \in Homes(s)
           /\ IsList(ListingsOffered(s)) /\ IsList(FrontOf(s).permanent) /\ IsList(InfoOffered(s))
<1> DEFINE host == s.recorded.host
           front == FrontOf(s)
           c == Conventional(host, InfoPaths)
<1>1. front \in Homes(s)
  <2>1. s \in Editions(s)
    BY DEF Editions
  <2>2. \A u \in FrontPages(s) \cap DOMAIN s.pages : HomePage(s.pages[u], u) \in Homes(s)
    BY <2>1 DEF Homes
  <2>3. NoHome \in Homes(s)
    BY DEF Homes
  <2>4. {Url(host, s.recorded.path), Url(host, <<>>)} \subseteq FrontPages(s)
    BY DEF FrontPages
  <2> QED
    BY <2>2, <2>3, <2>4 DEF FrontOf
<1>2. OnHost(ListingsOffered(s), host)
  BY <1>1, FirstPages DEF ListingsOffered
<1>3. OnHost(front.permanent, host) /\ OnHost(front.info, host)
  BY <1>1, HomesStay
<1>4. OnHost(c, host)
  BY ConventionalStays, SiteAssumption DEF IsList
<1> HIDE DEF c, host, front
<1>5. OnHost(front.permanent \o front.info, host)
  BY <1>3, OnHostJoin
<1>6. OnHost((front.permanent \o front.info) \o c, host)
  BY <1>4, <1>5, OnHostJoin
<1>7. InfoOffered(s) = (front.permanent \o front.info) \o c
  BY DEF InfoOffered, c, host, front
<1> QED
  BY <1>1, <1>2, <1>3, <1>6, <1>7 DEF OnHost, front

\* What comes of several pages.
ListedOnAll(s, read) == UNION {ListedOn(s, v) : v \in read}
PermanentOnAll(s, read) == UNION {PermanentOn(s, v) : v \in read}

\* The reader between two of its steps: which pages it has read, and what it
\* has of them.
InHome ==
    /\ pc = "ask" => todo = HomeURLs
    /\ pc = "home" =>
          \/ todo = HomeURLs
          \/ todo = <<Url(Host, <<>>)>> /\ Url(Host, site.recorded.path) \notin DOMAIN site.pages

InListings ==
    /\ home = FrontOf(site)
    /\ LeftOf(todo, ListingsOffered(site), visited)
    /\ visited \subseteq ListingPages(site)
    /\ TriedInOrder(visited, ListingsOffered(site), visited)
    /\ Range(found) = ListedOnAll(site, visited)

InPermanent ==
    LET read == visited \ ListingPages(site) IN
    /\ home = FrontOf(site)
    /\ LeftOf(todo, FrontOf(site).permanent, visited)
    /\ ListingPages(site) \subseteq visited /\ read \subseteq PermanentPages(site)
    /\ TriedInOrder(read, FrontOf(site).permanent, visited)
    /\ Cardinality(read) = pages
    /\ Range(found) = ListedOnAll(site, ListingPages(site))
                      \cup PermanentOnAll(site, read)

InInfo ==
    /\ Programme(site) = {} /\ found = <<>>
    /\ \E tried \in SUBSET Range(InfoOffered(site)) :
          /\ IsFiniteSet(tried) /\ Cardinality(tried) = pages
          /\ LeftOf(todo, InfoOffered(site), tried) /\ Range(todo) \cap tried = {}
          /\ TriedInOrder(tried, InfoOffered(site), tried)
          /\ tried \cap Displays(site) = {}

IsShown == Titles(found) = ShownBy(site)

\* As long as nothing has disturbed the read.
CourseInv ==
    pc # "idle" /\ ~torn /\ ~ended =>
        /\ InHome
        /\ pc = "listing" => InListings
        /\ pc = "permanent" => InPermanent
        /\ pc = "info" => InInfo
        /\ pc = "record" /\ ~result.unchanged => IsShown

\* A request that does not disturb the read finds the page, or finds it gone.
LEMMA Undisturbed ==
    ASSUME NEW url, Fails(url), ~ended, ~torn'
    PROVE  url \notin DOMAIN site.pages
BY DEF Fails

LEMMA TitlesAre ==
    ASSUME NEW entries
    PROVE  Titles(entries) = {e.title : e \in Range(entries)}
BY DEF Titles, Range

\* The listings loop starts at the front page's.
LEMMA ListingsBegin ==
    ASSUME site \in Sites, ListingsOf(FrontOf(site)), visited' = {}, found' = <<>>, site' = site
    PROVE  InListings' /\ pc' = "listing"
<1> DEFINE offered == ListingsOffered(site)
<1>1. home' = FrontOf(site) /\ todo' = offered /\ pc' = "listing"
  BY DEF ListingsOf, OfferedListings, ListingsOffered, Host
<1>2. IsList(offered)
  BY FrontIsHome
<1> HIDE DEF offered
<1>3. LeftOf(todo', offered, {})
  BY <1>1, <1>2, AllIsLeft
<1>4. Range(<<>>) = {} /\ ListedOnAll(site, {}) = {}
  BY DEF Range, ListedOnAll
<1>5. TriedInOrder({}, offered, {})
  BY DEF TriedInOrder
<1> QED
  BY <1>1, <1>3, <1>4, <1>5 DEF InListings, offered

LEMMA HomeCourse ==
    ASSUME SentInv, InHome, ReadHome, ~ended, ~torn'
    PROVE  IF pc' = "listing" THEN InListings' ELSE pc' = "home" /\ InHome'
<1> DEFINE own == Url(Host, site.recorded.path)
           root == Url(Host, <<>>)
           url == Head(todo)
<1>1. /\ pc = "home" /\ visited' = {} /\ found' = <<>> /\ site' = site /\ site \in Sites
  BY DEF ReadHome, SentInv, world
<1>2. FrontOf(site) = IF own \in DOMAIN site.pages THEN HomePage(site.pages[own], own)
                      ELSE IF root \in DOMAIN site.pages THEN HomePage(site.pages[root], root)
                      ELSE NoHome
  BY DEF FrontOf, Host
<1>3. \/ todo = <<own, root>>
      \/ todo = <<root>> /\ (own = root \/ own \notin DOMAIN site.pages)
  BY <1>1 DEF InHome, HomeURLs
<1> HIDE DEF own, root
<1>4. \/ todo = <<own, root>> /\ url = own /\ Len(todo) = 2 /\ Tail(todo) = <<root>>
      \/ todo = <<root>> /\ url = root /\ Len(todo) = 1 /\ (own = root \/ own \notin DOMAIN site.pages)
  <2>1. /\ Head(<<own, root>>) = own /\ Len(<<own, root>>) = 2 /\ Tail(<<own, root>>) = <<root>>
        /\ Head(<<root>>) = root /\ Len(<<root>>) = 1
    OBVIOUS
  <2> QED
    BY <1>3, <2>1
<1> HIDE DEF url
<1>5. CASE url \in DOMAIN site.pages /\ ListingsOf(HomePage(site.pages[url], url))
  <2>1. FrontOf(site) = HomePage(site.pages[url], url)
    BY <1>2, <1>4, <1>5
  <2> QED
    BY <1>1, <1>5, <2>1, ListingsBegin
<1>6. CASE Fails(url) /\ Len(todo) > 1 /\ todo' = Tail(todo) /\ UNCHANGED <<pc, home>>
  <2>1. url \notin DOMAIN site.pages
    BY <1>6, Undisturbed
  <2>2. todo' = <<root>> /\ own \notin DOMAIN site.pages
    BY <1>4, <1>6, <2>1
  <2>3. Host' = Host
    BY <1>1 DEF Host
  <2> QED
    BY <1>1, <1>6, <2>2, <2>3 DEF InHome, own, root
<1>7. CASE Fails(url) /\ ~(Len(todo) > 1) /\ ListingsOf(NoHome)
  <2>1. url \notin DOMAIN site.pages
    BY <1>7, Undisturbed
  <2>2. FrontOf(site) = NoHome
    BY <1>2, <1>4, <1>7, <2>1
  <2> QED
    BY <1>1, <1>7, <2>2, ListingsBegin
<1> QED
  BY <1>5, <1>6, <1>7 DEF ReadHome, Arrives, url

LEMMA ListingCourse ==
    ASSUME SentInv, FoundInv, InListings, ReadListing, ~ended, ~torn'
    PROVE  pc' = "listing" /\ InListings'
<1> DEFINE offered == ListingsOffered(site)
           next == Untried(todo, visited)
           u == Head(next)
           es == Harvest(site.pages[u], u, FALSE, ReadAsListings(u))
<1>1. /\ pc' = "listing" /\ found = <<>> /\ next # <<>> /\ Cardinality(visited) < MaxListingPages
      /\ visited' = visited \cup {u} /\ todo' = Tail(next) /\ UNCHANGED <<home, site>>
      /\ \/ u \in DOMAIN site.pages /\ found' = found \o es
         \/ Fails(u) /\ found' = found
  BY DEF ReadListing, ReadNext, Arrives, world
<1>2. site \in Sites /\ IsList(offered)
  BY FrontIsHome DEF SentInv
<1>3. /\ LeftOf(next, offered, visited) /\ Range(next) \cap visited = {}
      /\ TriedInOrder(visited, offered, visited)
  <2>1. LeftOf(next, offered, visited \cup visited)
    BY <1>2, UntriedIsLeft DEF InListings
  <2>2. Range(next) = Range(todo) \ visited
    BY UntriedIs DEF SentInv, OnHost
  <2> QED
    BY <2>1, <2>2 DEF InListings
<1> HIDE DEF next, offered
<1>4. u \in Range(offered) \ visited /\ Ahead(offered, u) = visited
  <2>1. visited \in SUBSET visited
    OBVIOUS
  <2>2. u \in Range(offered) \ visited /\ Ahead(offered, u) \subseteq visited
        /\ visited \subseteq Ahead(offered, u)
    BY <1>1, <1>2, <1>3, <2>1, HeadIsNext
  <2> HIDE DEF u
  <2> QED
    BY <2>2
<1>5. LeftOf(Tail(next), offered, visited \cup {u})
  BY <1>1, <1>3, TailIsLeft
<1> HIDE DEF u
<1>6. \A v \in visited : ListedOn(site, v) = {}
  <2>1. ListedOnAll(site, visited) = {}
    BY <1>1 DEF InListings, Range
  <2> QED
    BY <2>1 DEF ListedOnAll
<1>7. u \in ListingPages(site)
  BY <1>1, <1>4, <1>6 DEF ListingPages, offered
<1>8. Range(found') = Range(found) \cup ListedOn(site, u)
  <2>1. CASE u \in DOMAIN site.pages /\ found' = found \o es
    <3>1. Range(es) = ListedOn(site, u)
      BY <1>4, <2>1 DEF ListedOn, EntriesOf, ReadAsListings, offered
    <3>2. IsList(es)
      BY <1>2, <2>1, Harvested, SiteAssumption
    <3> HIDE DEF es
    <3> QED
      BY <2>1, <3>1, <3>2, ListsJoin DEF FoundInv
  <2>2. CASE Fails(u) /\ found' = found
    <3>1. u \notin DOMAIN site.pages
      BY <2>2, Undisturbed
    <3>2. ListedOn(site, u) = {}
      BY <3>1 DEF ListedOn, EntriesOf
    <3> QED
      BY <2>2, <3>2
  <2> QED
    BY <1>1, <2>1, <2>2
<1>9. Range(found') = ListedOnAll(site, visited')
  BY <1>1, <1>8 DEF InListings, ListedOnAll
<1>10. TriedInOrder(visited', offered, visited')
  BY <1>1, <1>3, <1>4 DEF TriedInOrder
<1>11. visited' \subseteq ListingPages(site) /\ home' = FrontOf(site)
  BY <1>1, <1>7 DEF InListings
<1> QED
  BY <1>1, <1>5, <1>9, <1>10, <1>11 DEF InListings, offered

\* Those of a budget of pages that have been tried come before the others.
LEMMA TriedFirst ==
    ASSUME NEW urls, IsList(urls), NEW seen, NEW tried \in SUBSET seen, TriedInOrder(tried, urls, seen),
           NEW u \in Range(urls) \ seen
    PROVE  tried \subseteq Ahead(urls, u)
<1> SUFFICES ASSUME NEW v \in tried PROVE v \in Ahead(urls, u)
  OBVIOUS
<1>1. v \in Range(urls) /\ Ahead(urls, v) \subseteq seen /\ v # u
  BY DEF TriedInOrder
<1>2. u \notin Ahead(urls, v)
  BY <1>1
<1> QED
  BY <1>1, <1>2, AheadIsOrder

LEMMA ListingsEndCourse ==
    ASSUME SentInv, FoundInv, InListings, EndListings, ~ended
    PROVE  pc' = "permanent" /\ InPermanent'
<1> DEFINE offered == ListingsOffered(site)
           next == Untried(todo, visited)
           permanent == FrontOf(site).permanent
<1>1. /\ pc' = "permanent" /\ todo' = home.permanent /\ pages' = 0
      /\ UNCHANGED <<home, visited, found, site>>
      /\ found # <<>> \/ next = <<>> \/ Cardinality(visited) >= MaxListingPages
  BY DEF EndListings, world
<1>2. site \in Sites /\ IsList(offered) /\ IsList(permanent) /\ IsFiniteSet(visited)
  BY FrontIsHome DEF SentInv
<1>3. LeftOf(next, offered, visited) /\ TriedInOrder(visited, offered, visited)
  <2>1. LeftOf(next, offered, visited \cup visited)
    BY <1>2, UntriedIsLeft DEF InListings
  <2> QED
    BY <2>1 DEF InListings
<1>4. visited \subseteq ListingPages(site) /\ home = FrontOf(site)
      /\ Range(found) = ListedOnAll(site, visited)
  BY DEF InListings
<1> HIDE DEF next
<1>5. ASSUME NEW u \in ListingPages(site), u \notin visited PROVE FALSE
  <2>1. /\ u \in Range(offered) \ visited /\ Cardinality(Ahead(offered, u)) < MaxListingPages
        /\ \A v \in Ahead(offered, u) : ListedOn(site, v) = {}
    BY <1>5 DEF ListingPages
  <2>2. visited \in SUBSET visited
    OBVIOUS
  <2>3. visited \subseteq Ahead(offered, u)
    BY <1>2, <1>3, <2>1, <2>2, TriedFirst
  <2>4. CASE found # <<>>
    <3>1. Range(found) # {}
      <4>1. Len(found) \in Nat /\ found = [i \in 1 .. Len(found) |-> found[i]] /\ DOMAIN found = 1 .. Len(found)
        BY ListPlaces DEF FoundInv
      <4>2. Len(found) # 0
        BY <2>4 DEF FoundInv, IsList
      <4>3. 1 \in DOMAIN found
        BY <4>1, <4>2
      <4> QED
        BY <4>3 DEF Range
    <3> QED
      BY <1>4, <2>1, <2>3, <3>1 DEF ListedOnAll
  <2>5. CASE next = <<>>
    <3>1. Range(offered) \subseteq Range(<<>>) \cup visited /\ Range(<<>>) = {}
      BY <1>3, <2>5, LeftIs DEF Range
    <3> QED
      BY <2>1, <3>1
  <2>6. CASE Cardinality(visited) >= MaxListingPages
    <3>1. IsFiniteSet(Ahead(offered, u)) /\ Cardinality(Ahead(offered, u)) \in Nat
      BY <1>2, AheadIsFinite
    <3>2. Cardinality(visited) <= Cardinality(Ahead(offered, u)) /\ Cardinality(visited) \in Nat
      BY <1>2, <2>3, <3>1, FS_Subset, FS_CardinalityType
    <3>3. MaxListingPages \in Nat
      BY SiteAssumption
    <3> QED
      BY <2>1, <2>6, <3>1, <3>2, <3>3
  <2> QED
    BY <1>1, <2>4, <2>5, <2>6
<1>6. visited = ListingPages(site)
  BY <1>4, <1>5
<1>7. LeftOf(permanent, permanent, visited)
  BY <1>2, AllIsLeft
<1>8. visited \ ListingPages(site) = {} /\ Cardinality({}) = 0
  BY <1>6, FS_EmptySet
<1>9. TriedInOrder({}, permanent, visited)
  BY DEF TriedInOrder
<1>10. Range(found) = ListedOnAll(site, ListingPages(site)) \cup PermanentOnAll(site, {})
  BY <1>4, <1>6 DEF PermanentOnAll
<1>11. {} \subseteq PermanentPages(site)
  OBVIOUS
<1> QED
  BY <1>1, <1>4, <1>6, <1>7, <1>8, <1>9, <1>10, <1>11 DEF InPermanent, permanent

LEMMA PermanentCourse ==
    ASSUME SentInv, FoundInv, InPermanent, ReadPermanent, ~ended, ~torn'
    PROVE  pc' = "permanent" /\ InPermanent'
<1> DEFINE offered == FrontOf(site).permanent
           next == Untried(todo, visited)
           u == Head(next)
           listed == ListingPages(site)
           read == visited \ listed
           es == Harvest(site.pages[u], u, TRUE, ReadAsListings(u))
<1>1. /\ pc' = "permanent" /\ next # <<>> /\ pages < MaxPermanentPages /\ pages' = pages + 1
      /\ visited' = visited \cup {u} /\ todo' = Tail(next) /\ UNCHANGED <<home, site>>
      /\ \/ u \in DOMAIN site.pages /\ found' = found \o es
         \/ Fails(u) /\ found' = found
  BY DEF ReadPermanent, ReadNext, Arrives, world
<1>2. site \in Sites /\ IsList(offered) /\ IsFiniteSet(visited)
  BY FrontIsHome DEF SentInv
<1>p. /\ home = FrontOf(site) /\ LeftOf(todo, offered, visited)
      /\ listed \subseteq visited /\ read \subseteq PermanentPages(site)
      /\ TriedInOrder(read, offered, visited) /\ Cardinality(read) = pages
      /\ Range(found) = ListedOnAll(site, listed) \cup PermanentOnAll(site, read)
  BY DEF InPermanent
<1>3. LeftOf(next, offered, visited) /\ Range(next) \cap visited = {}
  <2>1. LeftOf(next, offered, visited \cup visited)
    BY <1>2, <1>p, UntriedIsLeft
  <2>2. Range(next) = Range(todo) \ visited
    BY UntriedIs DEF SentInv, OnHost
  <2> QED
    BY <2>1, <2>2
<1> HIDE DEF next, offered
<1>4. /\ u \in Range(offered) \ visited /\ Ahead(offered, u) \subseteq visited
      /\ read \subseteq Ahead(offered, u)
  <2>1. read \in SUBSET visited
    OBVIOUS
  <2> HIDE DEF read
  <2> QED
    BY <1>1, <1>2, <1>3, <1>p, <2>1, HeadIsNext
<1>5. LeftOf(Tail(next), offered, visited \cup {u})
  BY <1>1, <1>3, TailIsLeft
<1> HIDE DEF u, listed
<1>6. Ahead(offered, u) \ listed = read /\ listed \cup Ahead(offered, u) \cup {u} = visited \cup {u}
  BY <1>4, <1>p
<1>7. u \in PermanentPages(site)
  BY <1>1, <1>4, <1>6, <1>p DEF PermanentPages, offered, listed
<1>8. Range(found') = Range(found) \cup PermanentOn(site, u)
  <2>1. CASE u \in DOMAIN site.pages /\ found' = found \o es
    <3>1. Range(es) = PermanentOn(site, u)
      BY <1>6, <2>1 DEF PermanentOn, EntriesOf, ReadAsListings, offered, listed
    <3>2. IsList(es)
      BY <1>2, <2>1, Harvested, SiteAssumption
    <3> HIDE DEF es
    <3> QED
      BY <2>1, <3>1, <3>2, ListsJoin DEF FoundInv
  <2>2. CASE Fails(u) /\ found' = found
    <3>1. u \notin DOMAIN site.pages
      BY <2>2, Undisturbed
    <3>2. PermanentOn(site, u) = {}
      BY <3>1 DEF PermanentOn, EntriesOf
    <3> QED
      BY <2>2, <3>2
  <2> QED
    BY <1>1, <2>1, <2>2
<1>9. visited' \ listed = read \cup {u} /\ u \notin read /\ listed \subseteq visited'
  BY <1>1, <1>4, <1>p
<1>10. Range(found') = ListedOnAll(site, listed) \cup PermanentOnAll(site, read \cup {u})
  <2>1. PermanentOnAll(site, read \cup {u}) = PermanentOnAll(site, read) \cup PermanentOn(site, u)
    BY DEF PermanentOnAll
  <2> QED
    BY <1>8, <1>p, <2>1
<1>11. TriedInOrder(read \cup {u}, offered, visited')
  BY <1>1, <1>4, <1>p DEF TriedInOrder
<1>12. Cardinality(read \cup {u}) = pages'
  <2>1. IsFiniteSet(read)
    BY <1>2, FS_Subset
  <2> HIDE DEF read
  <2> QED
    BY <1>1, <1>9, <1>p, <2>1, FS_AddElement
<1>13. read \cup {u} \subseteq PermanentPages(site) /\ home' = FrontOf(site)
  BY <1>1, <1>7, <1>p
<1> HIDE DEF read
<1>14. LeftOf(todo', offered, visited')
  BY <1>1, <1>5
<1> QED
  BY <1>1, <1>9, <1>10, <1>11, <1>12, <1>13, <1>14 DEF InPermanent, offered, listed

LEMMA PermanentEndCourse ==
    ASSUME SentInv, FoundInv, InPermanent, EndPermanent, ~ended
    PROVE  \/ pc' = "info" /\ InInfo'
           \/ pc' = "record" /\ IsShown'
<1> DEFINE offered == FrontOf(site).permanent
           next == Untried(todo, visited)
           listed == ListingPages(site)
           read == visited \ listed
           info == InfoOffered(site)
<1>1. /\ pc' = (IF found = <<>> THEN "info" ELSE "record") /\ pages' = 0
      /\ todo' = home.permanent \o home.info \o Conventional(Host, InfoPaths)
      /\ UNCHANGED <<found, site>>
      /\ next = <<>> \/ pages >= MaxPermanentPages
  BY DEF EndPermanent, world
<1>2. site \in Sites /\ IsList(offered) /\ IsList(info) /\ IsFiniteSet(visited)
  BY FrontIsHome DEF SentInv
<1>p. /\ home = FrontOf(site) /\ LeftOf(todo, offered, visited)
      /\ listed \subseteq visited /\ read \subseteq PermanentPages(site)
      /\ TriedInOrder(read, offered, visited) /\ Cardinality(read) = pages
      /\ Range(found) = ListedOnAll(site, listed) \cup PermanentOnAll(site, read)
  BY DEF InPermanent
<1>3. LeftOf(next, offered, visited)
  <2>1. LeftOf(next, offered, visited \cup visited)
    BY <1>2, <1>p, UntriedIsLeft
  <2> QED
    BY <2>1
<1> HIDE DEF next
<1>5. ASSUME NEW u \in PermanentPages(site), u \notin read PROVE FALSE
  <2>1. /\ u \in Range(offered) \ visited /\ Cardinality(Ahead(offered, u) \ listed) < MaxPermanentPages
    BY <1>5, <1>p DEF PermanentPages
  <2>2. read \in SUBSET visited
    OBVIOUS
  <2>3. read \subseteq Ahead(offered, u)
    <3> HIDE DEF read
    <3> QED
      BY <1>2, <1>p, <2>1, <2>2, TriedFirst
  <2>5. CASE next = <<>>
    <3>1. Range(offered) \subseteq Range(<<>>) \cup visited /\ Range(<<>>) = {}
      BY <1>3, <2>5, LeftIs DEF Range
    <3> QED
      BY <2>1, <3>1
  <2>6. CASE pages >= MaxPermanentPages
    <3> DEFINE before == Ahead(offered, u) \ listed
    <3>1. IsFiniteSet(Ahead(offered, u)) /\ before \subseteq Ahead(offered, u)
      BY <1>2, AheadIsFinite
    <3>2. read \subseteq before
      BY <2>3
    <3>3. IsFiniteSet(before)
      BY <3>1, FS_Subset
    <3>4. Cardinality(before) < MaxPermanentPages
      BY <2>1
    <3> HIDE DEF before, read
    <3>5. Cardinality(read) <= Cardinality(before) /\ Cardinality(read) \in Nat /\ Cardinality(before) \in Nat
      BY <3>2, <3>3, FS_Subset, FS_CardinalityType
    <3>6. MaxPermanentPages \in Nat
      BY SiteAssumption
    <3> QED
      BY <1>p, <2>6, <3>4, <3>5, <3>6
  <2> QED
    BY <1>1, <2>5, <2>6
<1>6. read = PermanentPages(site)
  BY <1>5, <1>p
<1>7. Range(found) = Programme(site)
  BY <1>6, <1>p DEF Programme, ListedOnAll, PermanentOnAll
<1>8. CASE found = <<>>
  <2>1. Programme(site) = {}
    BY <1>7, <1>8 DEF Range
  <2>2. todo' = info
    BY <1>1, <1>p DEF InfoOffered, Host
  <2> HIDE DEF info
  <2>3. LeftOf(info, info, {})
    BY <1>2, AllIsLeft
  <2>4. TriedInOrder({}, info, {}) /\ IsFiniteSet({}) /\ Cardinality({}) = 0
    BY FS_EmptySet DEF TriedInOrder
  <2>5. \E tried \in SUBSET Range(info) :
          /\ IsFiniteSet(tried) /\ Cardinality(tried) = pages'
          /\ LeftOf(todo', info, tried) /\ Range(todo') \cap tried = {}
          /\ TriedInOrder(tried, info, tried)
          /\ tried \cap Displays(site) = {}
    BY <1>1, <2>2, <2>3, <2>4
  <2> QED
    BY <1>1, <1>8, <2>1, <2>5 DEF InInfo, info
<1>9. CASE found # <<>>
  <2>1. Range(found) # {}
    <3>1. Len(found) \in Nat /\ DOMAIN found = 1 .. Len(found)
      BY ListPlaces DEF FoundInv
    <3>2. Len(found) # 0
      BY <1>9 DEF FoundInv, IsList
    <3>3. 1 \in DOMAIN found
      BY <3>1, <3>2
    <3> QED
      BY <3>3 DEF Range
  <2>2. Titles(found) = ShownBy(site)
    BY <1>7, <2>1, TitlesAre DEF ShownBy
  <2>3. Titles(found') = Titles(found) /\ ShownBy(site') = ShownBy(site)
    BY <1>1
  <2> QED
    BY <1>1, <1>9, <2>2, <2>3 DEF IsShown
<1> QED
  BY <1>8, <1>9

LEMMA InfoCourse ==
    ASSUME SentInv, InInfo, ReadInfo, ~ended, ~torn'
    PROVE  IF pc' = "info" THEN InInfo' ELSE pc' = "record" /\ IsShown'
<1> DEFINE info == InfoOffered(site)
           u == Head(todo)
<1>1. /\ pc = "info" /\ todo # <<>> /\ pages < MaxInfoPages /\ pages' = pages + 1
      /\ todo' = Untried(todo, {u}) /\ site' = site /\ site \in Sites
      /\ \/ /\ u \in DOMAIN site.pages /\ "display" \in site.pages[u].heading
            /\ found' = <<Display(u)>> /\ pc' = "record"
         \/ /\ Fails(u) \/ "display" \notin site.pages[u].heading
            /\ found' = found /\ pc' = pc
  BY DEF ReadInfo, Arrives, world, SentInv
<1>2. IsList(info)
  BY <1>1, FrontIsHome
<1>3. Programme(site) = {} /\ found = <<>>
  BY DEF InInfo
<1>4. PICK tried \in SUBSET Range(info) :
          /\ IsFiniteSet(tried) /\ Cardinality(tried) = pages
          /\ LeftOf(todo, info, tried) /\ Range(todo) \cap tried = {}
          /\ TriedInOrder(tried, info, tried)
          /\ tried \cap Displays(site) = {}
  BY DEF InInfo
<1>5. IsList(todo)
  BY DEF SentInv, OnHost
<1> HIDE DEF info
<1>6. /\ u \in Range(info) \ tried /\ Ahead(info, u) = tried
  <2>1. tried \in SUBSET tried
    OBVIOUS
  <2>2. /\ u \in Range(info) \ tried /\ Ahead(info, u) \subseteq tried
        /\ tried \subseteq Ahead(info, u)
    BY <1>1, <1>2, <1>4, <2>1, HeadIsNext
  <2> QED
    BY <2>2
<1>7. /\ LeftOf(Untried(todo, {u}), info, tried \cup {u})
      /\ Range(Untried(todo, {u})) = Range(todo) \ {u}
  BY <1>2, <1>4, <1>5, UntriedIsLeft, UntriedIs
<1> HIDE DEF u
<1>8. u \in Displays(site) <=> u \in DOMAIN site.pages /\ "display" \in site.pages[u].heading
  BY <1>1, <1>4, <1>6 DEF Displays, info
<1>9. CASE /\ u \in DOMAIN site.pages /\ "display" \in site.pages[u].heading
           /\ found' = <<Display(u)>> /\ pc' = "record"
  <2>1. ShownBy(site) = {site.museum}
    BY <1>3, <1>8, <1>9 DEF ShownBy
  <2>2. Display(u).title = site.museum
    BY DEF Display
  <2> DEFINE d == Display(u)
  <2> HIDE DEF d
  <2>3. Titles(<<d>>) = {d.title}
    <3>1. DOMAIN <<d>> = {1} /\ <<d>>[1] = d
      OBVIOUS
    <3> QED
      BY <3>1 DEF Titles
  <2>4. Titles(found') = {site.museum}
    BY <1>9, <2>2, <2>3 DEF d
  <2>5. Titles(found)' = Titles(found') /\ ShownBy(site') = ShownBy(site)
    BY <1>1 DEF Titles
  <2> QED
    BY <1>9, <2>1, <2>4, <2>5 DEF IsShown
<1>10. CASE /\ Fails(u) \/ "display" \notin site.pages[u].heading
            /\ found' = found /\ pc' = pc
  <2>1. u \notin Displays(site)
    BY <1>8, <1>10, Undisturbed
  <2> DEFINE more == tried \cup {u}
  <2>2. more \in SUBSET Range(info) /\ more \cap Displays(site) = {}
    BY <1>4, <1>6, <2>1
  <2>3. IsFiniteSet(more) /\ Cardinality(more) = pages'
    BY <1>1, <1>4, <1>6, FS_AddElement
  <2>4. TriedInOrder(more, info, more)
    BY <1>4, <1>6 DEF TriedInOrder
  <2>5. LeftOf(todo', info, more) /\ Range(todo') \cap more = {}
    BY <1>1, <1>4, <1>7
  <2> HIDE DEF more
  <2>6. \E t \in SUBSET Range(info) :
          /\ IsFiniteSet(t) /\ Cardinality(t) = pages'
          /\ LeftOf(todo', info, t) /\ Range(todo') \cap t = {}
          /\ TriedInOrder(t, info, t)
          /\ t \cap Displays(site) = {}
    BY <2>2, <2>3, <2>4, <2>5
  <2>7. pc' = "info" /\ Programme(site) = {} /\ found' = <<>>
    BY <1>1, <1>3, <1>10
  <2> QED
    BY <1>1, <2>6, <2>7 DEF InInfo, info
<1> QED
  BY <1>1, <1>9, <1>10

LEMMA InfoEndCourse ==
    ASSUME SentInv, InInfo, EndInfo, ~ended
    PROVE  pc' = "record" /\ IsShown'
<1> DEFINE info == InfoOffered(site)
<1>1. /\ pc' = "record" /\ UNCHANGED <<found, site>> /\ site \in Sites
      /\ todo = <<>> \/ pages >= MaxInfoPages
  BY DEF EndInfo, world, SentInv
<1>2. IsList(info) /\ Programme(site) = {} /\ found = <<>>
  BY <1>1, FrontIsHome DEF InInfo
<1>3. PICK tried \in SUBSET Range(info) :
          /\ IsFiniteSet(tried) /\ Cardinality(tried) = pages
          /\ LeftOf(todo, info, tried)
          /\ TriedInOrder(tried, info, tried)
          /\ tried \cap Displays(site) = {}
  BY DEF InInfo
<1> HIDE DEF info
<1>4. ASSUME NEW u \in Displays(site) PROVE FALSE
  <2>1. u \in Range(info) \ tried /\ Cardinality(Ahead(info, u)) < MaxInfoPages
    BY <1>3 DEF Displays, info
  <2>2. CASE todo = <<>>
    <3>1. Range(info) \subseteq Range(<<>>) \cup tried /\ Range(<<>>) = {}
      BY <1>3, <2>2, LeftIs DEF Range
    <3> QED
      BY <2>1, <3>1
  <2>3. CASE pages >= MaxInfoPages
    <3>1. tried \in SUBSET tried
      OBVIOUS
    <3>2. tried \subseteq Ahead(info, u)
      BY <1>2, <1>3, <2>1, <3>1, TriedFirst
    <3>3. IsFiniteSet(Ahead(info, u)) /\ Cardinality(Ahead(info, u)) \in Nat
      BY <1>2, AheadIsFinite
    <3>4. Cardinality(tried) <= Cardinality(Ahead(info, u)) /\ Cardinality(tried) \in Nat
      BY <3>2, <3>3, FS_Subset, FS_CardinalityType
    <3>5. MaxInfoPages \in Nat
      BY SiteAssumption
    <3> QED
      BY <1>3, <2>1, <2>3, <3>3, <3>4, <3>5
  <2> QED
    BY <1>1, <2>2, <2>3
<1>5. ShownBy(site) = {}
  BY <1>2, <1>4 DEF ShownBy
<1>6. Titles(found) = {}
  BY <1>2, TitlesAre DEF Range
<1>7. Titles(found)' = Titles(found') /\ found' = found /\ ShownBy(site') = ShownBy(site)
  BY <1>1 DEF Titles
<1> QED
  BY <1>1, <1>5, <1>6, <1>7 DEF IsShown

LEMMA StillWhole ==
    ASSUME NEW next, NEW assumePermanent, ReadNext(next, assumePermanent), ~torn'
    PROVE  ~torn
<1> DEFINE url == Head(next)
<1>1. Arrives(url) \/ Fails(url)
  BY DEF ReadNext
<1> HIDE DEF url
<1> QED
  BY <1>1 DEF Arrives, Fails

LEMMA CourseInit == ReadingInit => CourseInv
  BY DEF ReadingInit, CourseInv

LEMMA CourseNext ==
    ASSUME StaleInv, FoundInv, SentInv, CourseInv, [ReadingNext]_reading
    PROVE  CourseInv'
<1> SUFFICES ASSUME pc' # "idle", ~torn', ~ended'
             PROVE  /\ InHome'
                    /\ pc' = "listing" => InListings'
                    /\ pc' = "permanent" => InPermanent'
                    /\ pc' = "info" => InInfo'
                    /\ pc' = "record" /\ ~result'.unchanged => IsShown'
  BY DEF CourseInv
<1>1. CASE UNCHANGED reading
  <2>1. pc # "idle" /\ ~torn /\ ~ended
    BY <1>1 DEF reading, reader
  <2> QED
    BY <1>1, <2>1 DEF CourseInv, reading, reader, world, InHome, InListings, InPermanent, InInfo,
       IsShown, Titles, HomeURLs, Host
<1>2. CASE Start
  <2>1. pc' \in {"ask", "home"} /\ todo' = HomeURLs /\ site' = site
    BY <1>2 DEF Start, world
  <2>2. HomeURLs' = HomeURLs
    BY <2>1 DEF HomeURLs, Host
  <2> QED
    BY <2>1, <2>2 DEF InHome
<1>3. CASE AskUnchanged
  <2>1. pc = "ask" /\ UNCHANGED <<todo, site, ended>>
    BY <1>3 DEF AskUnchanged, world
  <2>2. \/ pc' = "home"
        \/ pc' = "record" /\ result'.unchanged
    BY <1>3 DEF AskUnchanged, StaleInv, IsResult
  <2>3. todo = HomeURLs
    <3>1. ~torn
      BY <1>3 DEF AskUnchanged, Arrives, Fails
    <3> QED
      BY <2>1, <3>1 DEF CourseInv, InHome
  <2>4. HomeURLs' = HomeURLs
    BY <2>1 DEF HomeURLs, Host
  <2> QED
    BY <2>1, <2>2, <2>3, <2>4 DEF InHome
<1>4. CASE ReadHome
  <2>1. ~ended /\ ~torn /\ pc = "home"
    BY <1>4 DEF ReadHome, Arrives, Fails
  <2>2. IF pc' = "listing" THEN InListings' ELSE pc' = "home" /\ InHome'
    BY <1>4, <2>1, HomeCourse DEF CourseInv
  <2> QED
    BY <2>2 DEF InHome
<1>5. CASE ReadListing
  <2>1. ~ended /\ ~torn /\ pc = "listing"
    BY <1>5, StillWhole DEF ReadListing
  <2>2. pc' = "listing" /\ InListings'
    BY <1>5, <2>1, ListingCourse DEF CourseInv
  <2> QED
    BY <2>2 DEF InHome
<1>6. CASE EndListings
  <2>1. ~ended /\ ~torn /\ pc = "listing"
    BY <1>6 DEF EndListings
  <2>2. pc' = "permanent" /\ InPermanent'
    BY <1>6, <2>1, ListingsEndCourse DEF CourseInv
  <2> QED
    BY <2>2 DEF InHome
<1>7. CASE ReadPermanent
  <2>1. ~ended /\ ~torn /\ pc = "permanent"
    BY <1>7, StillWhole DEF ReadPermanent
  <2>2. pc' = "permanent" /\ InPermanent'
    BY <1>7, <2>1, PermanentCourse DEF CourseInv
  <2> QED
    BY <2>2 DEF InHome
<1>8. CASE EndPermanent
  <2>1. ~ended /\ ~torn /\ pc = "permanent"
    BY <1>8 DEF EndPermanent
  <2>2. \/ pc' = "info" /\ InInfo'
        \/ pc' = "record" /\ IsShown'
    BY <1>8, <2>1, PermanentEndCourse DEF CourseInv
  <2> QED
    BY <2>2 DEF InHome
<1>9. CASE ReadInfo
  <2>1. ~ended /\ ~torn /\ pc = "info"
    BY <1>9 DEF ReadInfo, Arrives, Fails
  <2>2. IF pc' = "info" THEN InInfo' ELSE pc' = "record" /\ IsShown'
    BY <1>9, <2>1, InfoCourse DEF CourseInv
  <2> QED
    BY <2>2 DEF InHome
<1>10. CASE EndInfo
  <2>1. ~ended /\ ~torn /\ pc = "info"
    BY <1>10 DEF EndInfo
  <2>2. pc' = "record" /\ IsShown'
    BY <1>10, <2>1, InfoEndCourse DEF CourseInv
  <2> QED
    BY <2>2 DEF InHome
<1>11. ~GiveUp /\ ~Record /\ ~Edit /\ ~Cancel
  <2>1. GiveUp => ended'
    BY DEF GiveUp
  <2>2. Record => pc' = "idle"
    BY DEF Record
  <2>3. Edit => torn' \/ pc' = "idle"
    BY DEF Edit
  <2>4. Cancel => ended'
    BY DEF Cancel
  <2> QED
    BY <2>1, <2>2, <2>3, <2>4
<1> QED
  BY <1>1, <1>2, <1>3, <1>4, <1>5, <1>6, <1>7, <1>8, <1>9, <1>10, <1>11 DEF ReadingNext, Read

\* A read that no edit, no lost page and no deadline disturbs finds what the
\* site shows, whatever has been read before it: the pages its front page or
\* the convention offers, in that order and within the budget of each loop,
\* the listings up to the first that lists something, then the permanent pages
\* that were not among them, then the museum's own description (ForSite).
THEOREM ReadsAreWhatIsShown ==
    ReadingSpec => [](pc = "record" /\ ~torn /\ ~ended /\ ~result.unchanged =>
                          Titles(found) = ShownBy(site))
<1> DEFINE ReadInv == StaleInv /\ FoundInv /\ SentInv /\ CourseInv
           Shown == pc = "record" /\ ~torn /\ ~ended /\ ~result.unchanged =>
                        Titles(found) = ShownBy(site)
<1>1. ReadingInit => ReadInv
  BY StaleInit, FoundInit, SentInit, CourseInit
<1>2. ReadInv /\ [ReadingNext]_reading => ReadInv'
  BY StaleNext, FoundNext, SentNext, CourseNext
<1>3. ReadInv => Shown
  BY DEF CourseInv, IsShown
<1> QED
  BY <1>1, <1>2, <1>3, PTL DEF ReadingSpec

\* It finds exactly what the museum has on or coming, where what the site shows
\* is that.
THEOREM UndisturbedReadsFindAll == ASSUME SitesShow PROVE ReadingSpec => []FindsWhatIsOn
<1> DEFINE ReadInv == StaleInv /\ FoundInv /\ SentInv /\ CourseInv
<1>1. ReadingInit => ReadInv
  BY StaleInit, FoundInit, SentInit, CourseInit
<1>2. ReadInv /\ [ReadingNext]_reading => ReadInv'
  BY StaleNext, FoundNext, SentNext, CourseNext
<1>3. ReadInv => FindsWhatIsOn
  BY DEF CourseInv, IsShown, SentInv, SitesShow, FindsWhatIsOn
<1> QED
  BY <1>1, <1>2, <1>3, PTL DEF ReadingSpec
=============================================================================
