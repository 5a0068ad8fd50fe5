\* Readers type, click and fold rows while searches are under way.
SPECIFICATION FairSpec
CONSTANTS
    N = 4
    Parent <- Nesting
    Name <- Names
    FullName <- FullNames
    Query <- Typed
    Scoped <- TypedScoped
    Cased <- TypedCased
    Occurs <- Substrings
    Spread <- Abbreviated
    CHUNK = 2
    MaxKeys = 3
    NoTimer = NoTimer
    NoRow = NoRow
    tApi = tApi
    tV1 = tV1
    tHotels = tHotels
    tHotel = tHotel
    tApiV1 = tApiV1
    tApiV1Hotels = tApiV1Hotels
INVARIANTS
    TypeOK
    ResultsFitQuery
    ClearedIsClean
    StripesAlternate
PROPERTIES
    SearchSettles
