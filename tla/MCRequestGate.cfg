CONSTANTS
    ana = ana
    bia = bia
    mail = mail
    People = {ana, bia}
    Privileged = {ana}
    Emails = {mail}
    EmailOf <- MCEmailOf
    Accounts = {a1, a2}
    Calls = {c1, c2}
    Kinds = {"reveal", "mutation"}
    Limit <- MCLimit
    NoEmail = NoEmail
    NoOne = NoOne
    NoAccount = NoAccount
    MaxRequests = 3
    MaxFailures = 1
SPECIFICATION Spec
INVARIANTS WithinLimit WindowsEnd OneAccountUnlessRaced
SYMMETRY Interchangeable
