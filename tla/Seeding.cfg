\* The seeds beside one thread of the server, run twice.
SPECIFICATION SeedsSpec
CONSTANTS
    Worker = {w1, seeds}
    Seeder = seeds
    NoOne = NoOne
    NoSnapshot = NoSnapshot
    Nobody = Nobody
    NoRow = NoRow
    NoRequest = NoRequest
    admin = admin
    test = test
    test1 = test1
    secret = secret
    grand = grand
    ocean = ocean
    inn = inn
    n101 = n101
    n102 = n102
    n201 = n201
    n202 = n202
    Name = {grand, ocean, inn}
    Number = {n101, n102, n201, n202}
    Username = {admin, test, test1}
    Password = {secret}
    SeedPassword = secret
    UserSeeds <- Accounts3
    HotelSeeds <- Hotels2
    RoomSeeds <- Rooms4
    MaxUsers = 2
    MaxRows = 2
    MaxRuns = 2
    Initial <- Used
    Offered <- Requests
    FirstDay = 2
    LastDay = 3
INVARIANTS
    SeedsTypeOK
    SeededWhole
    SoundThroughout
    HeldIdsStay
PROPERTY
    SeedingEnds
