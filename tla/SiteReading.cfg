SPECIFICATION ReadingSpec
CONSTANTS
    NoDate = NoDate
    NoTitle = NoTitle
    NoUrl = NoUrl
    NoTag = NoTag
    YearLength = 10
    FirstYear = 1
    LastYear = 9
    FarFutureYears = 3
    MaxCardTimes = 8
    Now <- MCNow
    Meant <- MCMeant
    Sites <- MCSites
    SlugTitle <- MCSlugTitle
    StrongSegments <- MCStrong
    WeakSegments <- MCWeak
    ViewSegments <- MCView
    ContainerSegments <- MCContainer
    Numerals <- MCNumerals
    PermanentSegments <- MCPermanent
    PermanentNames = {"permanent"}
    PastSegments <- MCPast
    CurrentSegments = {"current"}
    InfoSegments <- MCInfo
    ListingPaths <- MCListingPaths
    InfoPaths <- MCInfoPaths
    MaxListingPages = 3
    MaxPermanentPages = 2
    MaxInfoPages = 2
    MaxReads = 3
    MaxEdits = 1
    MaxLost = 1
    MaxCancels = 1
\* After its last read the museum's site is left alone.
CHECK_DEADLOCK FALSE
INVARIANTS
    ReadingInv
    FindsWhatIsOn
    UnchangedIsCurrent
    EveryOccurrenceIsCovered
