\* Taps, Escape and resizes in the middle of slides and of loading.
SPECIFICATION PanelFairSpec
CONSTANTS
    MaxLoads = 2
    MaxSlides = 3
    Timer = Timer
    Early = Early
    Nobody = Nobody
INVARIANTS
    PanelTypeOK
    AsksOnce
    AnswerFindsList
    ActiveIsShown
PROPERTY
    ListOpensAtPage
