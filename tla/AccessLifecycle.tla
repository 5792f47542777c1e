--------------------------- MODULE AccessLifecycle ---------------------------
(***************************************************************************)
(* What the access workflow promises of each request: the phases it goes   *)
(* through and when its owner can read credentials.  ModelAccess shows how *)
(* the handlers get there one SQL statement at a time.                     *)
(***************************************************************************)
CONSTANTS Requests, AppOf

VARIABLES phase,    \* where the request stands
          access    \* its owner can read credentials

lifecycle == <<phase, access>>

Granted == {"aprovado", "revogacao_solicitada"}
InForce == Granted \cup {"pendente"}

\* No other request of r's application is in force.
Alone(r) == \A q \in Requests \ {r} : AppOf[q] = AppOf[r] => phase[q] \notin InForce

Init ==
    /\ phase = [r \in Requests |-> "nenhum"]
    /\ access = [r \in Requests |-> FALSE]

\* r moves to phase p, its owner's access to b.
Move(r, p, b) ==
    /\ phase' = [phase EXCEPT ![r] = p]
    /\ access' = [access EXCEPT ![r] = b]

Ask(r)           == phase[r] = "nenhum" /\ Alone(r) /\ Move(r, "pendente", FALSE)
Withdraw(r)      == phase[r] = "pendente" /\ Move(r, "cancelado", FALSE)
\* A decision under way when the user withdraws still takes effect.
Grant(r)         == /\ phase[r] \in {"pendente", "cancelado"}
                    /\ Alone(r)
                    /\ Move(r, "aprovado", TRUE)
Refuse(r)        == phase[r] \in {"pendente", "cancelado"} /\ Move(r, "negado", FALSE)
AskRevocation(r) == /\ phase[r] = "aprovado"
                    /\ Move(r, "revogacao_solicitada", access[r])
Keep(r)          == phase[r] = "revogacao_solicitada" /\ Move(r, "aprovado", access[r])
\* Access is cut before the request is declared revoked, and may come back
\* while it is not.
Cut(r)           == phase[r] \in Granted /\ Move(r, phase[r], FALSE)
Restore(r)       == phase[r] \in Granted /\ Move(r, phase[r], TRUE)
Revoke(r)        == phase[r] \in Granted /\ ~access[r] /\ Move(r, "revogado", FALSE)

Next ==
    \E r \in Requests :
        \/ Ask(r) \/ Withdraw(r) \/ Grant(r) \/ Refuse(r)
        \/ AskRevocation(r) \/ Keep(r) \/ Cut(r) \/ Restore(r) \/ Revoke(r)

Spec == Init /\ [][Next]_lifecycle
=============================================================================
