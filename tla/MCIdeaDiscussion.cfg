CONSTANTS
    Ideas = {i1}
    Comments = {k1, k2}
    Calls = {c1, c2}
    Voters = {u1}
    Commenters = {u1}
    Moderators = {u1, u2}
    Reactions = {heart}
    NoIdea = NoIdea
    NoComment = NoComment
    NoUser = NoUser
    NoReaction = NoReaction
    MaxCrashes = 1
SPECIFICATION Spec
SYMMETRY Interchangeable
INVARIANTS NothingDangles DiscussedWasShown HidingIsAnswered
\* The one idea may be erased: nothing is left to discuss.
CHECK_DEADLOCK FALSE
