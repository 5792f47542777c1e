CONSTANTS
    Users = {u1, u2}
    Retiring = {u2}
    Calls = {c1, c2}
    Contents = {t1}
    Incomplete = {}
    NoUser = NoUser
    NoText = NoText
    Threshold = 2
    MaxVersion = 2
    MaxCrashes = 1
SPECIFICATION Spec
SYMMETRY Interchangeable
INVARIANTS SnapshotPerVersion ApprovalIsFree
PROPERTIES ReportStaysDecided ImplementsLedger
