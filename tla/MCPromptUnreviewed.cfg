CONSTANTS
    Users = {u1}
    Retiring = {}
    Calls = {c1, c2}
    Contents = {t1, t2}
    Incomplete = {}
    NoUser = NoUser
    NoText = NoText
    Threshold = 3
    MaxVersion = 2
    MaxCrashes = 0
SPECIFICATION Spec
SYMMETRY Interchangeable
INVARIANT PublishedIsApproved
