------------------------------ MODULE MCFollowUp -------------------------------
(***************************************************************************)
(* FollowUp for TLC: an exception with a decision and an action, and the   *)
(* ticket of a driver that an employee is assigned to.  Another employee   *)
(* reads the tickets of one client, and is linked to a driver too.         *)
(***************************************************************************)
EXTENDS FollowUp, TLC

CONSTANTS ann, bob, dan, e1, d1, d2, a1, a2, c1, c2, t1, t2, m1, p1, k1, k2, all

Missions == dan :> {m1} @@ bob :> {}

Scopes == ann :> {all} @@ bob :> {k1} @@ dan :> {}

Pictures == m1 :> {p1}

Ticket ==
  t1 :> [driver |-> dan, client |-> k1, mission |-> m1, status |-> "IN_PROGRESS", assignee |-> ann]

Decision == d1 :> e1

Action == a1 :> [decision |-> d1, owner |-> bob, status |-> "OPEN", by |-> Nobody]

Symmetry == Permutations(Requests)

===============================================================================
