SPECIFICATION FairSpec

CONSTANTS
    Panels = {1, 2}
    Rows = {a, b}
    Calls = {c1, c2}
    MaxData = 1
    NULL = NULL

INVARIANTS
    TypeOK
    LoadingEnds

PROPERTIES
    SelectionWins
    ShowsLatestData
    BannerClears
