\* Clicks and loads in two tabs that share a preference.
SPECIFICATION SumSpec
CONSTANTS
    Tab = {t1, t2}
    jwt = jwt
    room = room
    Page = {jwt, room}
    Toggles <- TogglesOf
    NoPage = NoPage
INVARIANTS
    LabelTellsSummary
    KindsAgree
PROPERTY
    LoadFollowsLastClick
