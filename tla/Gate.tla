-------------------------------- MODULE Gate --------------------------------
(***************************************************************************)
(* Asking a remote API: the Gate of internal/ratelimit, which spaces the   *)
(* requests of a process to one endpoint, and the retry loop its clients   *)
(* run around it (pkg/wikipedia getFrom, pkg/location get).                *)
(*                                                                         *)
(* Time is relative: the gate's next free instant and every sleep are kept *)
(* as the ticks left until then, so no bound on the clock is needed.  A    *)
(* timer that is due may fire as late as it likes.                         *)
(***************************************************************************)
EXTENDS Integers, FiniteSets

CONSTANTS
    Callers,      \* goroutines with a request to make
    MinInterval,  \* minRequestInterval, in ticks
    MaxInterval,  \* maxRequestInterval
    Share,        \* a success narrows the spacing by one part in Share: 8
    FirstBackoff, \* one second
    MaxAttempts,
    RetryAfters,  \* what a refusal may ask for; 0 when it says nothing
    MaxAbandons   \* bound: requests given up by a context that ends in a sleep

ASSUME GateAssumption ==
    /\ Share \in Nat \ {0} /\ MinInterval \in Nat /\ Share <= MinInterval
    /\ MaxInterval \in Nat /\ MinInterval <= MaxInterval
    /\ FirstBackoff \in Nat \ {0} /\ MaxAttempts \in Nat \ {0}
    /\ RetryAfters \subseteq Nat /\ 0 \in RetryAfters
    /\ MaxAbandons \in Nat /\ IsFiniteSet(Callers)

VARIABLES
    interval, \* the gate's spacing
    lead,     \* how far ahead of the clock its next free instant lies
    caller,   \* each caller's place in its loop
    clock,    \* the tick, even or odd
    asked,    \* the requests made, even or odd
    since,    \* ticks since a turn last came up, to MinInterval at most
    smooth,   \* requests answered since the last refusal, to Recovery at most
    abandons  \* requests given up so far

gateVars == <<interval, lead>>
history == <<clock, asked, since, smooth, abandons>>
vars == <<gateVars, caller, history>>

Least(a, b) == IF a < b THEN a ELSE b
Greatest(a, b) == IF a > b THEN a ELSE b

(***************************************************************************)
(* Gate.                                                                   *)
(***************************************************************************)

\* SlowDown: twice the spacing, to the most there is.
Widened(i) == Least(2 * i, MaxInterval)

\* Mutant: the floor is forgotten.
NarrowedBelow(i) == i - i \div Share

\* Mutant: half as much, which comes to nothing before the floor is reached.
NarrowedTooLittle(i) == Greatest(i - i \div (2 * Share), MinInterval)

\* SpeedUp: one part in Share less, to the floor.
Narrowed(i) == Greatest(i - i \div Share, MinInterval)

\* The spacing after so many successes without a refusal, from the widest.
Recovering[n \in 0 .. MaxInterval] ==
    IF n = 0 THEN MaxInterval
             ELSE Greatest(Recovering[n - 1] - Recovering[n - 1] \div Share, MinInterval)

\* The successes it takes to get from the widest spacing back to the floor.
Recovery ==
    LET enough == {n \in 0 .. MaxInterval : Recovering[n] = MinInterval}
    IN  IF enough = {} THEN MaxInterval ELSE CHOOSE n \in enough : \A m \in enough : n <= m

\* Backoff before the given retry, counting from one.
Backoff(attempt) == FirstBackoff * 2 ^ (attempt - 1)

(***************************************************************************)
(* The loop.                                                               *)
(***************************************************************************)

Idle == [pc |-> "idle", left |-> 0, attempt |-> 0, wait |-> 0, owed |-> 0]

Put(c, next) == caller' = [caller EXCEPT ![c] = next]

\* A request begins: its first attempt goes to the gate at once.
Get(c) ==
    /\ caller[c].pc = "idle"
    /\ Put(c, [Idle EXCEPT !.pc = "queueing"])
    /\ UNCHANGED <<gateVars, history>>

\* Wait's critical section: the next free instant is this caller's turn.
Reserve(c) ==
    /\ caller[c].pc = "queueing"
    /\ Put(c, [caller[c] EXCEPT !.pc = "waiting", !.left = lead])
    /\ lead' = lead + interval
    /\ since' = IF lead = 0 THEN 0 ELSE since
    /\ UNCHANGED <<interval, clock, asked, smooth, abandons>>

\* Its turn has come, and the request goes out.
Ask(c) ==
    /\ caller[c].pc = "waiting" /\ caller[c].left = 0
    /\ Put(c, [caller[c] EXCEPT !.pc = "asking"])
    /\ asked' = 1 - asked
    /\ UNCHANGED <<gateVars, clock, since, smooth, abandons>>

\* The API answers.
Succeed(c) ==
    /\ caller[c].pc = "asking"
    /\ interval' = Narrowed(interval)
    /\ Put(c, Idle)
    /\ smooth' = Least(smooth + 1, Recovery)
    /\ UNCHANGED <<lead, clock, asked, since, abandons>>

\* Mutant: what the server asked for gives way to the backoff.
PauseByBackoff(job, retryAfter) ==
    Greatest(job.wait, Backoff(job.attempt + 1))

\* How long to sleep before the next attempt: never less than the last pause,
\* what the server asked for, or the backoff.
Pause(job, retryAfter) ==
    Greatest(Greatest(job.wait, retryAfter), Backoff(job.attempt + 1))

\* Too many requests, a server's error or a broken connection: the gate widens
\* and the loop sleeps, or gives up after its last attempt.
Refuse(c) ==
    /\ caller[c].pc = "asking"
    /\ interval' = Widened(interval)
    /\ \E retryAfter \in RetryAfters :
          IF caller[c].attempt + 1 < MaxAttempts
          THEN LET pause == Pause(caller[c], retryAfter) IN
               Put(c, [pc |-> "pausing", left |-> pause, attempt |-> caller[c].attempt + 1,
                       wait |-> pause, owed |-> retryAfter])
          ELSE Put(c, Idle)
    /\ smooth' = 0
    /\ UNCHANGED <<lead, clock, asked, since, abandons>>

Retry(c) ==
    /\ caller[c].pc = "pausing" /\ caller[c].left = 0
    /\ Put(c, [caller[c] EXCEPT !.pc = "queueing"])
    /\ UNCHANGED <<gateVars, history>>

\* The answer is no use and would be none again, or the context ended while it
\* was awaited.
Fail(c) ==
    /\ caller[c].pc = "asking"
    /\ Put(c, Idle)
    /\ UNCHANGED <<gateVars, history>>

\* The caller's context ends in a sleep.  A turn that was reserved stays so.
Abandon(c) ==
    /\ abandons < MaxAbandons
    /\ caller[c].pc \in {"pausing", "waiting"}
    /\ Put(c, Idle)
    /\ abandons' = abandons + 1
    /\ UNCHANGED <<gateVars, clock, asked, since, smooth>>

Sooner(n) == Greatest(n - 1, 0)

Tick ==
    /\ clock' = 1 - clock
    /\ lead' = Sooner(lead)
    /\ caller' = [c \in Callers |->
                     [caller[c] EXCEPT !.left = Sooner(@), !.owed = Sooner(@)]]
    /\ since' = IF \E c \in Callers : caller[c].pc = "waiting" /\ caller[c].left = 1
                THEN 0 ELSE Least(since + 1, MinInterval)
    /\ UNCHANGED <<interval, asked, smooth, abandons>>

Init ==
    /\ interval = MinInterval /\ lead = 0
    /\ caller = [c \in Callers |-> Idle]
    /\ clock = 0 /\ asked = 0
    /\ since = MinInterval /\ smooth = Recovery /\ abandons = 0

Step(c) ==
    \/ Get(c) \/ Reserve(c) \/ Ask(c) \/ Succeed(c) \/ Refuse(c) \/ Retry(c)
    \/ Fail(c) \/ Abandon(c)

Next == Tick \/ \E c \in Callers : Step(c)

Spec == Init /\ [][Next]_vars

(***************************************************************************)
(* Properties.                                                             *)
(***************************************************************************)

Jobs ==
    [pc : {"idle", "queueing", "waiting", "asking", "pausing"}, left : Nat,
     attempt : 0 .. MaxAttempts - 1, wait : Nat, owed : Nat]

TypeOK ==
    /\ interval \in MinInterval .. MaxInterval
    /\ lead \in Nat /\ clock \in {0, 1} /\ asked \in {0, 1}
    /\ since \in 0 .. MinInterval /\ smooth \in 0 .. Recovery
    /\ abandons \in 0 .. MaxAbandons
    /\ caller \in [Callers -> Jobs]

\* Callers whose turn has come up and who have not asked yet.
Late == {c \in Callers : caller[c].pc = "waiting" /\ caller[c].left = 0}

\* What the endpoint has coming: a turn for each caller that is late for its
\* own, and the time since the last turn came up.
Promised == since + MinInterval * Cardinality(Late)

\* The gate comes back to its floor after Recovery answers without a refusal,
\* however far it was widened: the integer steps never get stuck above it.
FloorIsRegained == smooth = Recovery => interval = MinInterval

\* On the way there the spacing is never wider than the successes leave it.
SpacingRecovers == interval <= Recovering[smooth]

\* A caller sleeps for as long as it was asked to, and owes nothing afterwards.
SleepsAsAsked ==
    \A c \in Callers :
       /\ caller[c].owed <= caller[c].left
       /\ caller[c].pc # "pausing" => caller[c].owed = 0

\* A caller with a turn that has not come up.
Ahead(c) == caller[c].pc = "waiting" /\ caller[c].left > 0

\* The turns to come are spaced, whoever has them: from the last that came up,
\* from each other, and from the one the next caller will get.
TurnsAreSpaced ==
    /\ since + lead >= MinInterval
    /\ \A c \in Callers : Ahead(c) => /\ since + caller[c].left >= MinInterval
                                      /\ caller[c].left + MinInterval <= lead
    /\ \A c, d \in Callers :
          c # d /\ Ahead(c) /\ Ahead(d) /\ caller[c].left <= caller[d].left
             => caller[c].left + MinInterval <= caller[d].left

\* What holds of the gate at every moment: its spacing stays in range and comes
\* back, and turns and sleeps are as long as they must be.
GateInv ==
    TypeOK /\ FloorIsRegained /\ SpacingRecovers /\ SleepsAsAsked /\ TurnsAreSpaced

\* However many callers share the gate, and whatever is refused, retried or
\* given up, the endpoint is asked once per MinInterval; only callers whose
\* timers fired late can go out together (README "Rate limiting", gate.go "the
\* limit belongs to the remote endpoint").
Promise == INSTANCE RatePromise WITH
    Keys <- {"endpoint"}, Gap <- MinInterval,
    Capacity <- MinInterval * (Cardinality(Callers) + 1),
    credit <- [k \in {"endpoint"} |-> Promised],
    asked <- [k \in {"endpoint"} |-> asked]

KeepsItsRate == Promise!Spec

\* No attempt goes out before the time its own last refusal asked for, through
\* pauses of other lengths before it and turns reserved by other callers.
RetryAfterHonoured ==
    [][\A c \in Callers : asked' # asked /\ caller'[c] # caller[c] => caller[c].owed = 0]_vars
=============================================================================
