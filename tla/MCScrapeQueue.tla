--------------------------- MODULE MCScrapeQueue ---------------------------
(***************************************************************************)
(* Small instances of ScrapeQueue.                                         *)
(***************************************************************************)
EXTENDS ScrapeQueue, TLC

CONSTANTS c1, c2, c3

\* A capital, a town, and open country.
MCMuseums == [c \in Cells |-> CASE c = c1 -> 3 [] c = c2 -> 2 [] OTHER -> 0]

\* Two areas of equal weight and one of a single site, so that areas leave the
\* list at its head, in its middle and at its end.
MCMuseumsTurns == [c \in Cells |-> CASE c = c1 -> 1 [] c = c2 -> 2 [] OTHER -> 2]

MCSymmetry == Permutations(SiteWorkers) \cup Permutations(Admitters)
                 \cup Permutations(Callers)
=============================================================================
