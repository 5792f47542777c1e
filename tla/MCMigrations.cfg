CONSTANTS
    Newest = 4
    Units <- OneOfTwoStatements
    Repeatable <- SomeRepeat
    Boot = Boot
    Posts = {p1, p2}
    MaxFailures = 3
    MaxCrashes = 2
SPECIFICATION Spec
SYMMETRY Interchangeable
INVARIANTS RecordedInForce CompleteOrHeld
PROPERTIES RecordedIsOver ImplementsLedger
