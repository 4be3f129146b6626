SPECIFICATION Spec
CONSTANTS
    Email = {e1}
    Password = {p1}
    Subject = {s1}
    Client = {web}
    Request = {q1}
    NONE = NONE
    MaxToken = 2
PROPERTIES ReuseRevokesFamily
