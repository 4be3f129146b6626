SPECIFICATION Spec
CONSTANTS
    Email = {e1, e2}
    Password = {p1}
    Subject = {s1}
    Client = {web, mobile}
    Request = {q1, q2}
    NONE = NONE
    MaxToken = 3
SYMMETRY Symmetry
INVARIANTS TypeOK SessionIsAChain EveryAccountHasAWayIn OnlyVerifiedSignIn
PROPERTIES DecisionsStand OldTokensEnd
