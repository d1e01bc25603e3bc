SPECIFICATION MCSpec
CONSTANTS
    NULL = NULL
    U <- MCU
    Rows0 <- MCRows
    Inputs <- MCInputs
    Types <- MCTypes
    Dialects = {"postgres", "sqlite"}
    MaxCalls = 2
    Now = 7
    Threads = {t1, t2}
    MaxBuilders = 6
    Fields = {"conditions"}
    PageIds = {1, 2, 3, 4, 5}
    Key <- MCKey
    Exact = 8
    PageSize = 2
    DefaultLimit = 3
    MaxChanges = 2
    MaxRows = 3
    Owners = {1, 2}
    Items = {1, 2}
    Kinds = {"users", "posts"}
    MaxMoves = 1
INVARIANTS
    ReadsWhatIsAsked
    ShortcutsAgree
    BuildersKeepTheirCalls
    WalkIsExact
    NoRowLostSilently
    PreloadsOwnRows
PROPERTIES
    MutatesWhatIsAsked
CHECK_DEADLOCK FALSE
