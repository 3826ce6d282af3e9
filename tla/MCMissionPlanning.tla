--------------------------- MODULE MCMissionPlanning ---------------------------
(***************************************************************************)
(* MissionPlanning for TLC.                                                *)
(***************************************************************************)
EXTENDS MissionPlanning, TLC

CONSTANTS c1, c2, c3, w1, w2, w3, b1, b2, k1, k2, v1, v2, d1, d2, t1, x, y, z

\* One row of each kind, and a second client with its warehouse.
Rows ==
  c1 :> Nobody @@ c2 :> Nobody @@ k1 :> Nobody @@ w1 :> c1 @@ w2 :> c2 @@ b1 :> c1
    @@ v1 :> k1 @@ d1 :> k1

StopLists == {<<b1>>, <<b2, b1>>}

\* Two contracts of the first client, active, of the same period.
ActiveContracts ==
  [n \in {x, y} |-> [status |-> "ACTIVE", parties |-> {c1}, from |-> 0, to |-> 1]]

Parties == {{c1}, {c2, k1, d1}}

Order == <<y, x, z>>

Planned ==
  [client |-> c1, warehouse |-> w1, contract |-> x, route |-> None, loadingAt |-> 0]

Mission(crew, status) == [plan |-> Planned, crew |-> crew, status |-> status]

Crew == <<k1, v1, d1>>

Waybill(token) == [token |-> token, crew |-> Crew]

\* No mission yet; one in DRAFT; one about to be delivered, without a waybill or
\* with one from before there were tokens; one that is delivered.
Missions ==
  {[mission |-> NoMission, waybills |-> <<>>],
   [mission |-> Mission(NoCrew, "DRAFT"), waybills |-> <<>>],
   [mission |-> Mission(Crew, "DELIVERING"), waybills |-> <<>>],
   [mission |-> Mission(Crew, "DELIVERING"), waybills |-> <<Waybill(FALSE)>>],
   [mission |-> Mission(Crew, "DELIVERED"), waybills |-> <<Waybill(TRUE)>>]}

Symmetry == Permutations(Requests)

===============================================================================
