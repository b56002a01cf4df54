SPECIFICATION FairCrawlSpec
CONSTANTS
    q1 = q1
    q2 = q2
    city = city
    town = town
    stadt = stadt
    here = here
    there = there
    wikidata = wikidata
    category = category
    spanish = spanish
    NoId = NoId
    Unknown = Unknown
    Absent = Absent
    NoName = NoName
    Flusher = Flusher
    Main = Main
    Ids = {q1, q2}
    Names = {city, town, stadt}
    Countries = {here, there}
    Plain = {wikidata, category}
    Editions = {spanish}
    Records <- MCRecords
    Returns <- MCReturns
    Details <- MCDetails
    CheckpointBatch = 2
    NormalizeBatch = 2
    LoadBatch = 1
    StoreConcurrency = 2
    MaxFaults = 1
\* A crawl that has finished stops.
CHECK_DEADLOCK FALSE
INVARIANTS
    CrawlInv
    InterruptedCrawlIsStored
    FailuresCostTheirBatch
    IdentitiesHold
PROPERTIES
    CrawlEnds
