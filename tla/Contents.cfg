\* Headings of every level in every order, ids that meet.
SPECIFICATION TocSpec
CONSTANTS
    Documents <- Pages
    Text <- Texts
    Elsewhere <- Others
    WithNumber <- Append
    None = None
INVARIANTS
    TocTypeOK
    ListedUnlessShallower
    NestedByLevel
    PlacesDiffer
CHECK_DEADLOCK FALSE
