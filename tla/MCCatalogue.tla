---------------------------- MODULE MCCatalogue ----------------------------
(* A small catalogue: one museum recorded under three names, in two         *)
(* languages and with two Wikidata ids, and a town recorded in two forms.   *)
EXTENDS Catalogue, TLC

CONSTANTS Q1, Q2, Sweden

MuseumOfPort == "museum of port"
PortMuseum == "port museum"
MuseumPort == "museum port"
HamnMuseet == "hamnmuseet"

MCWords == (MuseumOfPort :> {"museum", "port"}) @@ (PortMuseum :> {"museum", "port"})
              @@ (MuseumPort :> {"museum", "port"})
              @@ (HamnMuseet :> {"hamnmuseet"})

Port == <<"port">>
PortHope == <<"port", "hope">>

Record(wd, name, aliases, town, at, links) ==
    [wd |-> wd, name |-> name, country |-> Sweden, aliases |-> aliases, town |-> town,
     at |-> at, links |-> links]

MCRecords ==
    {Record(Q1, MuseumOfPort, {HamnMuseet}, Port, 0, 2),
     Record(Q2, PortMuseum, {}, PortHope, None, 0),
     Record(Q2, HamnMuseet, {}, <<>>, None, 1),
     Record(None, MuseumPort, {}, <<>>, 1, 1),
     Record(None, HamnMuseet, {}, Port, None, 0)}

MCLongWords == {"port"}
MCSpots == {2}

============================================================================
