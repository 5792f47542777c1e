---------------------------- MODULE MCModelAccess ----------------------------
(* Instances of ModelAccess for TLC. *)
EXTENDS ModelAccess

CONSTANT PortalApp   \* the one application every request is for

SameApp == [r \in Requests |-> PortalApp]
OneApp  == {PortalApp}
=============================================================================
