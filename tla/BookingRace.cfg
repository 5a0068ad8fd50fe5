\* Three threads book, cancel rooms and cancel the hotel.
SPECIFICATION Spec
CONSTANTS
    Worker = {w1, w2, w3}
    NoOne = NoOne
    NoSnapshot = NoSnapshot
    Nobody = Nobody
    NoRow = NoRow
    NoRequest = NoRequest
    guest = 1
    rival = 2
    boss = 3
    gone = 9
    grand = grand
    breeze = breeze
    n101 = n101
    n102 = n102
    Name = {grand, breeze}
    Number = {n101, n102}
    ann = ann
    bob = bob
    root = root
    secret = secret
    eve = eve
    guess = guess
    Username = {ann, bob, root, eve}
    Password = {secret, guess}
    MaxUsers = 4
    Initial <- OneRoom
    Offered <- BookingRace
    MaxRows = 2
    FirstDay = 1
    LastDay = 2
SYMMETRY Workers
INVARIANTS
    NoDoubleBooking
    BookedMeansStored
