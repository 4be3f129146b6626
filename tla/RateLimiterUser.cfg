SPECIFICATION Spec
CONSTANTS
    Kind = {"event_register"}
    Ip = {i1}
    User = {u1, u2}
    Request = {q1, q2}
    Member = {m1, m2, m3, m4, m5}
    NONE = NONE
    Limit <- Two
    Window <- Two
    Sec = 2
    MaxDelay = 1
INVARIANTS LimitedByOwnRequests
