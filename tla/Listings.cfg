\* A guest and an admin walk through listings while the API goes on.
SPECIFICATION ListSpec
CONSTANTS
    Worker = {w1}
    NoOne = NoOne
    NoSnapshot = NoSnapshot
    Nobody = Nobody
    NoRow = NoRow
    NoRequest = NoRequest
    guest = 1
    rival = 2
    boss = 3
    gone = 9
    grand = grand
    breeze = breeze
    n101 = n101
    n102 = n102
    Name = {grand, breeze}
    Number = {n101, n102}
    ann = ann
    bob = bob
    root = root
    secret = secret
    Username = {ann, bob, root}
    Password = {secret}
    MaxUsers = 4
    Initial <- Stays
    Offered <- Changes
    MaxRows = 6
    FirstDay = 4
    LastDay = 5
    Walks <- Asked
    NoWalk = NoWalk
    MaxWalks = 1
INVARIANTS
    NothingTwice
    FailsOnlyOnDestroyed
    WalkShowsAll
    ShownRoomsAreFree
