SPECIFICATION Spec
CONSTANTS
    c1 = c1
    c2 = c2
    c3 = c3
    Codes = {c1, c2, c3}
    Workers = {w1, w2}
    Nobody = Nobody
    Listed <- TwoListed
    MaxEdits = 2
    MaxUploads = 2
    UploadMayFail = TRUE
    StartMayFail = TRUE
INVARIANTS
    PanelTypeOK
    NoWareTwice
    ShownIsOwn
    CurrentIsChosen
    MissingAfterAdd
PROPERTIES
    EveryAddIsShown
    LoadingEnds
CHECK_DEADLOCK FALSE
