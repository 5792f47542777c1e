CONSTANTS
    Models = {m1, m2}
    Seeded = {m2}
    BenchCalls = {c1, c2, c3}
    NoModel = NoModel
    MaxRestarts = 1
    MaxFailures = 1
SPECIFICATION BenchFairSpec
INVARIANTS ClaimedOnce
PROPERTIES RunNeverReopens CreatedIsRun
