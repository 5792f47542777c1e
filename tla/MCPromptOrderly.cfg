CONSTANTS
    Users = {u1, u2}
    Retiring = {}
    Calls = {c1, c2}
    Contents = {t1, t2}
    Incomplete = {}
    NoUser = NoUser
    NoText = NoText
    Threshold = 2
    MaxVersion = 2
    MaxCrashes = 0
SPECIFICATION OrderlySpec
SYMMETRY Interchangeable
INVARIANTS PublishedIsApproved FlagFollowsStatus CountIsActive
