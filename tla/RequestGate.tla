------------------------------ MODULE RequestGate ------------------------------
(***************************************************************************)
(* What a request passes before its handler runs: the rate limit           *)
(* (src/app/middleware/rate_limit_middleware.py, whose counters are in     *)
(* Redis) and the account its token names, created at the first request    *)
(* (get_current_user of src/app/core/deps.py); and the administrators who  *)
(* create and change accounts meanwhile (src/app/routers/users.py).        *)
(*                                                                         *)
(* An action is one command to Redis or one SQL statement of a call, with  *)
(* the Python that follows it.  In the table users an email is unique and  *)
(* codg_usuario is not.  A request without a token, counted by address and *)
(* then refused, and the path /health, which is not counted, are left out; *)
(* so are names and roles.                                                 *)
(***************************************************************************)
EXTENDS Naturals, FiniteSets

CONSTANTS
    People,      \* those tokens name, by codg_usuario
    Privileged,  \* people whose token names a role that curates or administers
    Emails, EmailOf,
    Accounts,    \* identifiers of rows of users
    Calls,
    Kinds,       \* what is asked for: "reveal", "mutation" or "read"
    Limit,       \* of each policy, in a window
    NoEmail, NoOne, NoAccount,
    MaxRequests, \* bound: requests that arrive
    MaxFailures  \* bound: commands to Redis that fail, and calls that die

Policies == {"reveal-secret", "admin-mutation", "user"}

ASSUME LimitAssumption == Limit \in [Policies -> Nat \ {0}]
ASSUME KindAssumption  == Kinds \subseteq {"reveal", "mutation", "read"} /\ Privileged \subseteq People
ASSUME EmailAssumption == EmailOf \in [People -> Emails \cup {NoEmail}]
ASSUME NullAssumption  == NoEmail \notin Emails /\ NoOne \notin People /\ NoAccount \notin Accounts
ASSUME BoundAssumption == MaxRequests \in Nat /\ MaxFailures \in Nat

Keys == Policies \X People

VARIABLES
    count,     \* Redis: the counter of each key, 0 when the key is absent
    lasting,   \* Redis: keys with a lifetime
    user,      \* rows of users
    req,       \* what a call remembers between its statements
    requests, failures,
    passed,    \* history: requests counted and let through since the key appeared
    lost,      \* history: keys whose lifetime was lost
    raced      \* history: people an account was inserted for while another call,
               \* having found none, was about to insert one

redis == <<count, lasting, passed, lost>>
vars  == <<redis, user, req, requests, failures, raced>>

Steps == {"idle", "expire", "code", "email", "insert", "serve", "new_code", "new_insert"}

Row     == [code : People \cup {NoOne}, email : Emails \cup {NoEmail}, active : BOOLEAN]
Request == [step : Steps, person : People \cup {NoOne}, policy : Policies,
            email : Emails \cup {NoEmail}, account : Accounts \cup {NoAccount}]

NoRow == [code |-> NoOne, email |-> NoEmail, active |-> FALSE]
Idle  == [step |-> "idle", person |-> NoOne, policy |-> "user", email |-> NoEmail,
          account |-> NoAccount]

TypeOK ==
    /\ count \in [Keys -> Nat] /\ passed \in [Keys -> Nat]
    /\ lasting \subseteq Keys /\ lost \subseteq Keys
    /\ user \in [Accounts -> Row]
    /\ req \in [Calls -> Request]
    /\ requests \in Nat /\ failures \in Nat
    /\ raced \subseteq People
    /\ \A k \in lasting : count[k] > 0
    /\ \A c \in Calls : req[c].step # "idle" => req[c].person # NoOne

Init ==
    /\ count = [k \in Keys |-> 0] /\ passed = [k \in Keys |-> 0]
    /\ lasting = {} /\ lost = {}
    /\ user = [a \in Accounts |-> NoRow]
    /\ req = [c \in Calls |-> Idle]
    /\ requests = 0 /\ failures = 0
    /\ raced = {}

-----------------------------------------------------------------------------

At(c, step)   == req[c].step = step
Enter(c, r)   == req' = [req EXCEPT ![c] = r]
Goto(c, step) == req' = [req EXCEPT ![c].step = step]
Answer(c)     == req' = [req EXCEPT ![c] = Idle]
KeyOf(c)      == <<req[c].policy, req[c].person>>

Stored(a)      == user[a].code # NoOne
CodeTaken(p)   == \E a \in Accounts : user[a].code = p
EmailTaken(e)  == \E a \in Accounts : Stored(a) /\ e # NoEmail /\ user[a].email = e

-----------------------------------------------------------------------------
(* The rate limit *)

\* _select_policy.
Policy(kind, p) ==
    CASE kind = "reveal"                         -> "reveal-secret"
      [] kind = "mutation" /\ p \in Privileged   -> "admin-mutation"
      [] OTHER                                   -> "user"

Arriving(step, kind, p) ==
    [Idle EXCEPT !.step = step, !.person = p, !.policy = Policy(kind, p), !.email = EmailOf[p]]

\* Mutation: the limit is one more.
CountOneMore(c) ==
    /\ At(c, "idle") /\ requests < MaxRequests
    /\ \E kind \in Kinds, p \in People :
        LET k       == <<Policy(kind, p), p>>
            current == count[k] + 1
            through == current <= Limit[Policy(kind, p)] + 1
        IN /\ count' = [count EXCEPT ![k] = current]
           /\ passed' = [passed EXCEPT ![k] = IF through THEN @ + 1 ELSE @]
           /\ IF through THEN Enter(c, Arriving(IF current = 1 THEN "expire" ELSE "code", kind, p))
                         ELSE UNCHANGED req
    /\ requests' = requests + 1
    /\ UNCHANGED <<lasting, lost, user, failures, raced>>

\* dispatch: INCR.  The first request of a window sets its lifetime; one past the
\* limit is answered 429.
Count(c) ==
    /\ At(c, "idle") /\ requests < MaxRequests
    /\ \E kind \in Kinds, p \in People :
        LET k       == <<Policy(kind, p), p>>
            current == count[k] + 1
            through == current <= Limit[Policy(kind, p)]
        IN /\ count' = [count EXCEPT ![k] = current]
           /\ passed' = [passed EXCEPT ![k] = IF through THEN @ + 1 ELSE @]
           /\ IF through THEN Enter(c, Arriving(IF current = 1 THEN "expire" ELSE "code", kind, p))
                         ELSE UNCHANGED req
    /\ requests' = requests + 1
    /\ UNCHANGED <<lasting, lost, user, failures, raced>>

\* dispatch: INCR fails, which the middleware swallows.
CountFails(c) ==
    /\ At(c, "idle") /\ requests < MaxRequests /\ failures < MaxFailures
    /\ \E kind \in Kinds, p \in People : Enter(c, Arriving("code", kind, p))
    /\ requests' = requests + 1 /\ failures' = failures + 1
    /\ UNCHANGED <<redis, user, raced>>

\* Mutation: only a request for a secret starts a window.
SetExpiryOfSecrets(c) ==
    /\ At(c, "expire")
    /\ lasting' = IF req[c].policy = "reveal-secret" THEN lasting \cup {KeyOf(c)} ELSE lasting
    /\ Goto(c, "code")
    /\ UNCHANGED <<count, passed, lost, user, requests, failures, raced>>

\* dispatch: EXPIRE.
SetExpiry(c) ==
    /\ At(c, "expire")
    /\ lasting' = lasting \cup {KeyOf(c)}
    /\ Goto(c, "code")
    /\ UNCHANGED <<count, passed, lost, user, requests, failures, raced>>

\* dispatch: EXPIRE fails, which the middleware swallows.
ExpiryFails(c) ==
    /\ At(c, "expire") /\ failures < MaxFailures
    /\ lost' = lost \cup {KeyOf(c)}
    /\ Goto(c, "code")
    /\ failures' = failures + 1
    /\ UNCHANGED <<count, lasting, passed, user, requests, raced>>

\* Redis drops a key whose lifetime is over.
WindowEnds(k) ==
    /\ k \in lasting
    /\ count' = [count EXCEPT ![k] = 0] /\ passed' = [passed EXCEPT ![k] = 0]
    /\ lasting' = lasting \ {k}
    /\ UNCHANGED <<lost, user, req, requests, failures, raced>>

-----------------------------------------------------------------------------
(* The account *)

\* An inactive account is answered 401.
Admit(c, a) ==
    IF user[a].active THEN req' = [req EXCEPT ![c].step = "serve", ![c].account = a] ELSE Answer(c)

Looking == UNCHANGED <<redis, user, requests, failures, raced>>

\* get_current_user: SELECT ... WHERE codg_usuario = $1; any of several rows.
FindByCode(c) ==
    /\ At(c, "code")
    /\ LET p == req[c].person IN
        \/ \E a \in Accounts : user[a].code = p /\ Admit(c, a)
        \/ ~CodeTaken(p) /\ EmailOf[p] # NoEmail /\ Goto(c, "email")
        \/ ~CodeTaken(p) /\ EmailOf[p] = NoEmail /\ Goto(c, "insert")
    /\ Looking

\* get_current_user: SELECT ... WHERE email = $1.
FindByEmail(c) ==
    /\ At(c, "email")
    /\ \/ \E a \in Accounts : Stored(a) /\ user[a].email = EmailOf[req[c].person] /\ Admit(c, a)
       \/ ~EmailTaken(EmailOf[req[c].person]) /\ Goto(c, "insert")
    /\ Looking

\* Others that have found no account of p and are about to insert one.
Rivals(c, p) ==
    \E d \in Calls \ {c} : req[d].person = p /\ req[d].step \in {"email", "insert", "new_insert"}

\* INSERT INTO users: a row of p, if the email is free; then the call goes on.
Insert(c, p, e, a) ==
    /\ ~Stored(a) /\ ~EmailTaken(e)
    /\ user' = [user EXCEPT ![a] = [code |-> p, email |-> e, active |-> TRUE]]
    /\ raced' = IF Rivals(c, p) THEN raced \cup {p} ELSE raced

\* get_current_user: INSERT; an email taken meanwhile is a server error.
Provision(c) ==
    /\ At(c, "insert")
    /\ LET p == req[c].person IN
        \/ \E a \in Accounts : /\ Insert(c, p, EmailOf[p], a)
                               /\ req' = [req EXCEPT ![c].step = "serve", ![c].account = a]
        \/ EmailTaken(EmailOf[p]) /\ Answer(c) /\ UNCHANGED <<user, raced>>
    /\ UNCHANGED <<redis, requests, failures>>

\* The handler runs.
Serve(c) == At(c, "serve") /\ Answer(c) /\ Looking

-----------------------------------------------------------------------------
(* The administrators *)

\* create_user: the email is free.
NewByEmail(c) ==
    /\ At(c, "idle")
    /\ \E p \in People, e \in Emails \cup {NoEmail} :
        /\ ~EmailTaken(e)
        /\ Enter(c, [Idle EXCEPT !.step = "new_code", !.person = p, !.email = e])
    /\ Looking

\* Mutation: the code is not looked for.
NewByCodeUnseen(c) == At(c, "new_code") /\ Goto(c, "new_insert") /\ Looking

\* create_user: the code is free, or the answer is 409.
NewByCode(c) ==
    /\ At(c, "new_code")
    /\ IF CodeTaken(req[c].person) THEN Answer(c) ELSE Goto(c, "new_insert")
    /\ Looking

\* create_user: INSERT.
New(c) ==
    /\ At(c, "new_insert")
    /\ \/ \E a \in Accounts : Insert(c, req[c].person, req[c].email, a)
       \/ EmailTaken(req[c].email) /\ UNCHANGED <<user, raced>>
    /\ Answer(c)
    /\ UNCHANGED <<redis, requests, failures>>

\* update_user and delete_user: one UPDATE of the email or of whether the account is
\* active; an email that is taken violates the unique key.
Change(a) ==
    /\ Stored(a)
    /\ \/ \E e \in Emails : ~EmailTaken(e) /\ user' = [user EXCEPT ![a].email = e]
       \/ user' = [user EXCEPT ![a].active = ~@]
    /\ UNCHANGED <<redis, req, requests, failures, raced>>

-----------------------------------------------------------------------------

\* A call dies between two statements.
Crash(c) ==
    /\ ~At(c, "idle") /\ failures < MaxFailures
    /\ Answer(c)
    /\ lost' = IF At(c, "expire") THEN lost \cup {KeyOf(c)} ELSE lost
    /\ failures' = failures + 1
    /\ UNCHANGED <<count, lasting, passed, user, requests, raced>>

RateStep(c)  == Count(c) \/ CountFails(c) \/ SetExpiry(c) \/ ExpiryFails(c)
LoginStep(c) == FindByCode(c) \/ FindByEmail(c) \/ Provision(c) \/ Serve(c)
AdminStep(c) == NewByEmail(c) \/ NewByCode(c) \/ New(c)

Next ==
    \/ \E c \in Calls : RateStep(c) \/ LoginStep(c) \/ AdminStep(c) \/ Crash(c)
    \/ \E k \in Keys : WindowEnds(k)
    \/ \E a \in Accounts : Change(a)

Spec == Init /\ [][Next]_vars

-----------------------------------------------------------------------------
(* Properties *)

\* In a window no more requests are counted and let through than the policy allows.
WithinLimit == \A k \in Keys : passed[k] <= Limit[k[1]]

\* A counter has a lifetime or a call is about to give it one, unless the one EXPIRE of
\* the window was lost: only then is a principal told "try again in a moment" for ever.
WindowsEnd ==
    \A k \in Keys : count[k] > 0 /\ k \notin lost =>
        k \in lasting \/ \E c \in Calls : At(c, "expire") /\ KeyOf(c) = k

\* Two accounts of one person appear only where calls that looked for the person's
\* account overlapped: the table does not forbid it.
OneAccountUnlessRaced ==
    \A a, b \in Accounts : Stored(a) /\ user[a].code = user[b].code /\ a # b => user[a].code \in raced
=============================================================================
