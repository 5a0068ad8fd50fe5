\* The number of results told against the rows found.
SPECIFICATION Spec
CONSTANTS
    N = 4
    Parent <- Nesting
    Name <- Names
    FullName <- FullNames
    Query <- Typed
    Scoped <- TypedScoped
    Cased <- TypedCased
    Occurs <- Substrings
    Spread <- Abbreviated
    CHUNK = 2
    MaxKeys = 2
    NoTimer = NoTimer
    NoRow = NoRow
    tApi = tApi
    tV1 = tV1
    tHotels = tHotels
    tHotel = tHotel
    tApiV1 = tApiV1
    tApiV1Hotels = tApiV1Hotels
INVARIANTS
    AnnouncedIsFound
