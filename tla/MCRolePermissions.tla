--------------------------- MODULE MCRolePermissions ---------------------------
(* Instances of RolePermissions for TLC. *)
EXTENDS RolePermissions, TLC

CONSTANTS home, manage, models, ideas, servidor

MCDefault ==
    (Admin    :> Features) @@
    (NewRole  :> {home, models, ideas}) @@
    (servidor :> {home, ideas})

Interchangeable == Permutations(Calls)
=============================================================================
