CONSTANTS
    Ideas = {i1}
    Versions = {v1}
    Texts = {t1, t2}
    Calls = {c1, c2}
    NoIdea = NoIdea
    NoVersion = NoVersion
    NoText = NoText
    MaxCrashes = 1
SPECIFICATION Spec
SYMMETRY Interchangeable
INVARIANTS PublishedHasDate RoadmapIsWhole DecisionIsAudited UndisturbedIsCoherent
PROPERTIES ExcludedIsFinal ImplementsLife
\* The one idea may be erased and the one version deleted: nothing is left to do.
CHECK_DEADLOCK FALSE
