SPECIFICATION Spec
CONSTANTS
    Event = {e1}
    Student = {s1, s2, s3}
    Location = {l1}
    Request = {q1, q2}
    Capacity = {1, 2}
    Editable = {"capacity", "starts_at"}
    NONE = NONE
    MaxReg = 3
SYMMETRY Symmetry
INVARIANTS TypeOK SeatsGoToEarliest JobsTellTheStory CancellationReachesEveryone PositionOnlyImproves ListedPositionIsSafe
PROPERTIES OverbookingNeverGrows RegistrationLifecycle
