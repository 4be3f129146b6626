SPECIFICATION FairSpec
CONSTANTS
    Event = {e1}
    Student = {s1, s2}
    Location = {l1, l2}
    Request = {q1, q2}
    Capacity = {1}
    Editable = {"location"}
    NONE = NONE
    MaxReg = 2
PROPERTIES EveryRequestEnds
