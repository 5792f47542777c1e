CONSTANTS
    Requests = {r1, r2}
    PortalApp = portal
    Apps <- OneApp
    AppOf <- SameApp
    Callers = {u1, u2}
    Admins = {a1}
    Secrets = {s1}
    NoSecret = NoSecret
    NoRequest = NoRequest
    MaxCrashes = 2
    MaxReveals = 1
SPECIFICATION FairSpec
INVARIANTS UniqueOpenRequest RevokedIsCut TrailNeverAhead DisclosureIsAudited SettledAgrees
PROPERTIES HalfRevokedResolves ImplementsLifecycle
\* The portal stops when every request of the bounded pool is closed.
CHECK_DEADLOCK FALSE
