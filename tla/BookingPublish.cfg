SPECIFICATION Spec
CONSTANTS
    Event = {e1}
    Student = {s1}
    Location = {l1}
    Request = {q1, q2}
    Capacity = {1}
    Editable = {}
    NONE = NONE
    MaxReg = 1
PROPERTIES OnlyDraftsArePublished
