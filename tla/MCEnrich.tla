------------------------------ MODULE MCEnrich ------------------------------
(***************************************************************************)
(* Small instances of Enrich.                                              *)
(***************************************************************************)
EXTENDS Enrich

CONSTANTS louvre, prado

Event(names) == [parses |-> TRUE, records |-> names]
Garbage == [parses |-> FALSE, records |-> <<>>]

\* An event of a museum and of a key that names nothing, something that is not
\* an event, a heartbeat, and a museum that comes again, with another.
MCTopic ==
    <<Event(<<louvre, BadKey>>), Garbage, Event(<<>>), Event(<<prado, louvre>>)>>
=============================================================================
