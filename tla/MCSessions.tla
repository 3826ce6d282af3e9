------------------------------ MODULE MCSessions -------------------------------
(***************************************************************************)
(* Sessions for TLC: two administrators, a client portal user and a user   *)
(* to be created.                                                          *)
(***************************************************************************)
EXTENDS Sessions, TLC

CONSTANTS ann, bob, eve, old, new

People == ann :> [status |-> "ACTIVE", password |-> old] @@ bob :> [status |-> "ACTIVE", password |-> old]

AdminRole == "ADMINISTRATOR" :> {"user", "role"}

Admins == {<<ann, "ADMINISTRATOR", "ORGANIZATION">>, <<bob, "ADMINISTRATOR", "ORGANIZATION">>}

Choices == {{"user"}, {"role", "client_portal"}}

RoleCodes == {"ADMINISTRATOR", "CLIENT_PORTAL_USER", "DRIVER_PORTAL_USER"}

Symmetry == {p @@ q : p \in Permutations(Requests), q \in Permutations({ann, bob})}

===============================================================================
