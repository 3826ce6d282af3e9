------------------------------- MODULE KpiEngine -------------------------------
(***************************************************************************)
(* The score of a mission from the facts a snapshot holds of it: seven     *)
(* weighted components, each one applicable or not, and known or not.      *)
(*                                                                         *)
(* Vehicles arrive and depart by events of a type of their own, which the  *)
(* program nowhere writes: it records the changes of status as events of   *)
(* one other type.  No provider of position, accident or temperature data  *)
(* is there either.                                                        *)
(*                                                                         *)
(* Times are counted in quarters of an hour.  A component holds of how     *)
(* many parts it is made and how many are good: its score is their share.  *)
(* Scores of missions and results are in hundredths of a percent, as the   *)
(* code rounds them; the rounding errors of its floats are left out.       *)
(***************************************************************************)
EXTENDS Integers, FiniteSets, FiniteSetsExt

CONSTANT Missing  \* a time, or a score, that is not there

Weight ==
  [VEHICLE_ARRIVAL |-> 25, LOADING_DEPARTURE |-> 20, DELIVERY_ARRIVAL |-> 25,
   ROUTE_COMPLIANCE |-> 10, POD_DOCUMENT |-> 10, OPERATIONAL_SAFETY |-> 5, TEMPERATURE |-> 5]

Check(due, actual, tolerance) == [due |-> due, actual |-> actual, tolerance |-> tolerance]

Due(check) == check.due # Missing  \* mutant

Known(check) == check.due # Missing /\ check.actual # Missing

OnTime(check) == check.actual # Missing /\ check.actual <= check.due + check.tolerance

\* checks: a function from their names.
Compliance(checks) ==
  LET known == {k \in DOMAIN checks : Known(checks[k])} IN
  [applicable |-> \E k \in DOMAIN checks : checks[k].due # Missing,
   parts |-> Cardinality(known),
   good |-> Cardinality({k \in known : OnTime(checks[k])})]

\* Known from a provider, and bad when there is an incident.
Provided(applicable, available, incident) ==
  [applicable |-> applicable,
   parts |-> IF available THEN 1 ELSE 0,
   good |-> IF available /\ ~incident THEN 1 ELSE 0]

EligibleStops(f) == {s \in DOMAIN f.stops : ~f.stops[s].cancelled}

Rules(f) == {e.rule : e \in f.exceptions}

EventsOf(f, type) == {e \in f.events : e.type = type}

\* The time of the first event of the type.
FirstTime(f, type) ==
  IF EventsOf(f, type) = {} THEN Missing ELSE Min({e.at : e \in EventsOf(f, type)})

Components(f) ==
  LET stops == EligibleStops(f) IN
  [VEHICLE_ARRIVAL |->
     Compliance([arrival |-> Check(f.schedule.loading, FirstTime(f, "VEHICLE_ARRIVED"), 0)]),
   LOADING_DEPARTURE |->
     Compliance([loading |-> Check(f.schedule.loading, f.loading, 1),
                 departure |-> Check(f.schedule.departure, f.departure, 2)]),
   DELIVERY_ARRIVAL |->
     Compliance([s \in stops |-> Check(f.stops[s].expected, f.stops[s].actual, 1)]),
   ROUTE_COMPLIANCE |->
     Provided(EventsOf(f, "DEPARTED") # {}, "gps" \in f.sources,
              \E e \in f.exceptions : e.rule = "ROUTE_DEVIATION" /\ e.open),
   POD_DOCUMENT |->
     [applicable |-> stops # {},
      parts |-> Cardinality(stops),
      good |-> Cardinality({s \in stops : f.stops[s].pod})],
   OPERATIONAL_SAFETY |->
     Provided(TRUE, "accident" \in f.sources \/ "ACCIDENT" \in Rules(f),
              Rules(f) \cap {"ACCIDENT", "OPERATIONAL_SAFETY"} # {}),
   TEMPERATURE |->
     Provided(f.temperatureRequired, f.temperatureRequired /\ "temperature" \in f.sources,
              "TEMPERATURE_DEVIATION" \in Rules(f))]

\* n / d, to the nearest integer and halves up.
Rounded(n, d) == (2 * n + d) \div (2 * d)

Scored(components) ==
  {c \in DOMAIN components : components[c].applicable /\ components[c].parts > 0}

\* Of a number for each component.
SumOf(x) ==
  x.VEHICLE_ARRIVAL + x.LOADING_DEPARTURE + x.DELIVERY_ARRIVAL + x.ROUTE_COMPLIANCE
  + x.POD_DOCUMENT + x.OPERATIONAL_SAFETY + x.TEMPERATURE

ProductOf(x) ==
  x.VEHICLE_ARRIVAL * x.LOADING_DEPARTURE * x.DELIVERY_ARRIVAL * x.ROUTE_COMPLIANCE
  * x.POD_DOCUMENT * x.OPERATIONAL_SAFETY * x.TEMPERATURE

\* The weight of a component that is scored.
Counted(components) ==
  [c \in DOMAIN Weight |-> IF c \in Scored(components) THEN Weight[c] ELSE 0]

ApplicableWeight(components) == SumOf(Counted(components))

Parts(components) ==
  [c \in DOMAIN Weight |-> IF c \in Scored(components) THEN components[c].parts ELSE 1]

\* The common denominator of the scores.
Whole(components) == ProductOf(Parts(components))

Earned(components) ==
  [c \in DOMAIN Weight |->
     IF c \in Scored(components)
     THEN Weight[c] * (components[c].good * (Whole(components) \div components[c].parts))
     ELSE 0]

\* The average of the scored components by weight.
MissionScore(f) ==
  LET components == Components(f) IN
  IF Scored(components) = {} THEN Missing
  ELSE Rounded(10000 * SumOf(Earned(components)), ApplicableWeight(components) * Whole(components))

TargetMet(f, target) == MissionScore(f) # Missing /\ MissionScore(f) >= target

\* The average of the scores there are, of a function from missions.
AggregateScore(scores) ==
  LET eligible == {m \in DOMAIN scores : scores[m] # Missing} IN
  IF eligible = {} THEN Missing
  ELSE Rounded(MapThenSumSet(LAMBDA m : scores[m], eligible), Cardinality(eligible))

===============================================================================
