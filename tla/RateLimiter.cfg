SPECIFICATION FairSpec
CONSTANTS
    Kind = {"event_register", "unlisted"}
    Ip = {i1}
    User = {u1}
    Request = {q1, q2}
    Member = {m1, m2, m3, m4, m5}
    NONE = NONE
    Limit <- Two
    Window <- Two
    Sec = 2
    MaxDelay = 1
INVARIANTS TypeOK WindowLimit RetryAfterHonest
PROPERTIES NoLockout
