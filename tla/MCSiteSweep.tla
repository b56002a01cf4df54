---------------------------- MODULE MCSiteSweep ----------------------------
(***************************************************************************)
(* Small instances of SiteSweep.  Time is counted in ticks: intervals,     *)
(* lease and closing dates keep the order they have in the program         *)
(* (read < lease, floor < first interval < ceiling), not their ratios.     *)
(***************************************************************************)
EXTENDS SiteSweep

CONSTANTS s1, u1, u2, u3

MCEntry(u, closes) == [url |-> u, closes |-> closes]

\* One site: an exhibition that runs on, one that closes early, or neither.
MCEditionsOne ==
    [s \in Sites |-> {{MCEntry(u1, None), MCEntry(u2, 2)}, {MCEntry(u2, 4)}}]

\* A site that shows one thing after another.
MCEditionsSwap == [s \in Sites |-> {{MCEntry(u1, 9)}, {MCEntry(u2, 9)}}]

MCNoAboutPage == [s \in Sites |-> {}]

\* A museum that tells about its permanent display on a page of its own.
MCAboutPage == [s \in Sites |-> {MCEntry(u3, None)}]
=============================================================================
