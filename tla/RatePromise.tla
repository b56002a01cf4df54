---------------------------- MODULE RatePromise ----------------------------
(***************************************************************************)
(* What a limit on requests promises, whoever keeps it: a remote endpoint  *)
(* is asked, or a client is answered, at most once per Gap, but for a      *)
(* stock of turns that can be saved up.  Over any t ticks no key gets more *)
(* than (Capacity + t) / Gap.                                              *)
(*                                                                         *)
(* Fetcher, Gate and RateLimiter keep their limits in three different      *)
(* ways; each is shown to implement this module.                           *)
(***************************************************************************)
EXTENDS Integers

CONSTANTS
    Keys,     \* the endpoints, or the clients, that are limited one by one
    Gap,      \* ticks that earn one request
    Capacity  \* ticks that can be saved up

VARIABLES
    credit,  \* what each key has earned and not spent
    clock,   \* changes with every tick
    asked    \* asked[k] changes with every request for k

vars == <<credit, clock, asked>>

Credits == [Keys -> 0 .. Capacity]

Init == credit \in Credits

\* Time earns at most one tick of credit for each key.
Earn ==
    /\ clock' # clock /\ UNCHANGED asked
    /\ credit' \in Credits
    /\ \A k \in Keys : credit'[k] <= credit[k] + 1

\* A request costs its key at least one gap.
Spend(k) ==
    /\ credit[k] >= Gap
    /\ asked'[k] # asked[k] /\ UNCHANGED clock
    /\ \A other \in Keys \ {k} : asked'[other] = asked[other]
    /\ credit' \in Credits
    /\ credit'[k] <= credit[k] - Gap
    /\ \A other \in Keys \ {k} : credit'[other] <= credit[other]

\* Nothing obliges anyone to use what was earned.
Forfeit ==
    /\ UNCHANGED <<clock, asked>>
    /\ credit' \in Credits
    /\ \A k \in Keys : credit'[k] <= credit[k]

Next == Earn \/ (\E k \in Keys : Spend(k)) \/ Forfeit

Spec == Init /\ [][Next]_vars
=============================================================================
