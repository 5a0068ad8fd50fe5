\* Admins name, number, create and destroy hotels and rooms against each other.
SPECIFICATION Spec
CONSTANTS
    Worker = {w1, w2}
    NoOne = NoOne
    NoSnapshot = NoSnapshot
    Nobody = Nobody
    NoRow = NoRow
    NoRequest = NoRequest
    guest = 1
    rival = 2
    boss = 3
    gone = 9
    grand = grand
    breeze = breeze
    n101 = n101
    n102 = n102
    Name = {grand, breeze}
    Number = {n101, n102}
    ann = ann
    bob = bob
    root = root
    secret = secret
    eve = eve
    guess = guess
    Username = {ann, bob, root, eve}
    Password = {secret, guess}
    MaxUsers = 4
    Initial <- TwoRooms
    Offered <- CatalogRequests
    MaxRows = 3
    FirstDay = 1
    LastDay = 1
SYMMETRY Workers
INVARIANTS
    TypeOK
    CatalogUnique
    DestroyedForGood
