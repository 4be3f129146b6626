SPECIFICATION Spec
CONSTANTS
    Task = {j1, j2, j3}
    Client = {c1, c2}
    User = {u1, u2}
    Token = {t1}
    Username = TRUE
    NONE = NONE
SYMMETRY Symmetry
INVARIANTS TypeOK ClientsConserved LoginSkippedOnlyAfterFailure ShutdownMissesNoClient DevicesAreKept
PROPERTIES KeepsSendContract
