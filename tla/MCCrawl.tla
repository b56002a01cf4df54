------------------------------- MODULE MCCrawl -------------------------------
(***************************************************************************)
(* A museum that Wikidata places in another country than a category does;  *)
(* one known only by its name, which is also the first one's; and one that *)
(* an edition files under its local name and Wikidata by that same name.   *)
(***************************************************************************)
EXTENDS Crawl, TLC

CONSTANTS q1, q2, city, town, stadt, here, there, wikidata, category, spanish

Rec(id, names, country, stated) ==
    [id |-> id, names |-> names, country |-> country, stated |-> stated]

MCReturns ==
    wikidata :> {Rec(q1, <<city>>, here, TRUE)}
    @@ category :> {Rec(q1, <<town>>, there, FALSE), Rec(NoId, <<town>>, here, FALSE)}
    @@ spanish :> {Rec(q2, <<stadt>>, Unknown, FALSE)}

MCDetails ==
    q1 :> [label |-> city, country |-> here] @@ q2 :> [label |-> town, country |-> here]

MCRecords ==
    UNION {MCReturns[s] : s \in DOMAIN MCReturns}
    \cup {Rec(q2, <<town, stadt>>, here, FALSE)}
=============================================================================
