CONSTANTS
    home = home
    manage = manage
    models = models
    ideas = ideas
    servidor = servidor
    Admin = admin
    NewRole = gestor_produto
    Roles = {admin, gestor_produto, servidor}
    Features = {home, manage, models, ideas}
    Old = {home, manage, models}
    Global = {home}
    OfAdmin = {manage}
    Default <- MCDefault
    Calls = {c1, c2}
    NoRole = NoRole
    MaxEdits = 2
    MaxFailures = 1
SPECIFICATION Spec
SYMMETRY Interchangeable
INVARIANTS DecidersAgree EnabledIsChosen TrailReplays
\* The edits of the bound come to an end.
CHECK_DEADLOCK FALSE
