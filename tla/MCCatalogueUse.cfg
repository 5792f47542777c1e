CONSTANTS
    Prompts = {p1}
    Servers = {s1}
    Users = {u1, u2}
    Calls = {c1, c2}
    Ratings = {1, 5}
    Parts = {x1}
    NoReview = NoReview
    NoItem = NoItem
    NoUser = NoUser
    MaxItems = 1
    MaxRows = 1
    MaxUses = 2
SPECIFICATION Spec
SYMMETRY Interchangeable
INVARIANTS RatingIsCurrent ModeratedAsMeant RowsAccountedFor
PROPERTY ErasedWasInactive
\* The one server may be erased: nothing is left to use.
CHECK_DEADLOCK FALSE
