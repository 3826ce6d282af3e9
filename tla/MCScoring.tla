------------------------------- MODULE MCScoring -------------------------------
(***************************************************************************)
(* Scoring for TLC: a rule of a contract that may end, and a KPI of the    *)
(* organization with two versions.                                         *)
(*                                                                         *)
(* One run explores two instances, chosen at the start, instead of their   *)
(* product: in the one configurations are created and the missions stay as *)
(* they are, in the other one the missions change, and results are         *)
(* calculated as of one time.                                              *)
(***************************************************************************)
EXTENDS Scoring, TLC

CONSTANTS rule, kpi, m1, s1, i1, i2

InForce == kpi :> << [from |-> 0, to |-> 1, at |-> 0, version |-> 1],
                     [from |-> 1, to |-> Open, at |-> 0, version |-> 2] >>

Scopes == kpi :> {m1}

Facts(status, departure) ==
  [own |-> [status |-> status, loading |-> departure, departure |-> departure, updated |-> 0],
   schedule |-> [loading |-> -1, departure |-> -2], temperatureRequired |-> TRUE,
   stops |-> [s \in {s1} |-> [expected |-> 0, actual |-> Missing, cancelled |-> FALSE,
                              created |-> departure, verified |-> FALSE]],
   events |-> {},
   exceptions |->
     IF departure = Missing THEN {}
     ELSE {[rule |-> "ROUTE_DEVIATION", opened |-> 0, detected |-> 0, updated |-> 0,
            resolved |-> Missing]}]

Begun == {Facts("VEHICLE_ARRIVED", Missing), Facts("DELIVERED", 0)}

Taken(f) ==
  [input |-> Input(kpi, 1, 0, {m1}), taken |-> 0, missed |-> {}, facts |-> (m1 :> Captured(f, 0))]

Draft(f) ==
  [scores |-> Scores(Taken(f)), score |-> AggregateScore(Scores(Taken(f))), at |-> 0,
   status |-> "DRAFT"]

\* Nothing yet, a snapshot, or a result.
None == [x \in {} |-> x]

Beginnings ==
  UNION {{[missions |-> (m1 :> f), snapshots |-> None, results |-> None],
          [missions |-> (m1 :> f), snapshots |-> (i1 :> Taken(f)), results |-> None],
          [missions |-> (m1 :> f), snapshots |-> (i1 :> Taken(f)), results |-> (i1 :> Draft(f))]} :
           f \in Begun}

Symmetry == Permutations(Requests)

VARIABLE instance

Fits ==
  \/ instance = "configurations" /\ changes = 0
  \/ /\ instance = "missions" /\ live = Keys
     /\ \A r \in Requests :
          /\ inflight[r].op # "configure"
          /\ inflight[r].op = "calculate" => inflight[r].row.at = EndOfTime

MCInit ==
  /\ Init
  /\ instance \in {"configurations", "missions"}
  /\ instance = "missions" => \A key \in SnapshotKeys, type \in PeriodTypes : results[key][type] = <<>>

MCNext == Next /\ UNCHANGED instance /\ Fits'

MCSpec == MCInit /\ [][MCNext]_<<vars, instance>>

===============================================================================
