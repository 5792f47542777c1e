CONSTANTS
    Requests = {r1}
    PortalApp = portal
    Apps <- OneApp
    AppOf <- SameApp
    Callers = {u1}
    Admins = {a1, a2}
    Secrets = {s1}
    NoSecret = NoSecret
    NoRequest = NoRequest
    MaxCrashes = 0
    MaxReveals = 0
SPECIFICATION Spec
INVARIANT KeptNoticeIsTrue
\* The portal stops when every request of the bounded pool is closed.
CHECK_DEADLOCK FALSE
