-------------------------------- MODULE Scoring --------------------------------
(***************************************************************************)
(* The versions of rule and KPI configurations, the snapshots of mission   *)
(* facts taken under them as of a cutoff, and the results calculated from  *)
(* the snapshots and published.                                            *)
(*                                                                         *)
(* Creating a configuration reads committed rows statement by statement.   *)
(* A snapshot and a calculation are serializable: what they read is fixed  *)
(* before they wait for their lock, so that two of them can both miss what *)
(* the other one writes; the unique keys then let one of them commit.      *)
(*                                                                         *)
(* A change of a mission's row or of its exceptions is stamped when it is  *)
(* written and seen when it is committed.  Rows are judged by their        *)
(* stamps: a snapshot between the two sees the older row.                  *)
(***************************************************************************)
EXTENDS Transactions, MissionPolicy, KpiEngine, Sequences

CONSTANTS
  RuleKeys, KpiKeys, \* what has versions: a code with a scope
  Perishable,        \* the keys whose scope may stop to be active
  Missions, Stops,
  InScope,           \* the missions in the scope of a KPI key
  SnapshotKeys,      \* idempotency keys
  PeriodTypes,
  Versions,          \* the configurations there are at the start
  Starts,            \* for each mission the facts at the start, the snapshots, the results
  EndOfTime,         \* bound on the clock
  MaxChanges         \* bound on the changes of missions that are begun

Keys == RuleKeys \cup KpiKeys

VARIABLES
  now, changes, live,
  configurations,    \* for each key, its versions in order
  missions,          \* the facts of the missions, as they are committed
  uncommitted,       \* for each mission, the changes written and not committed
  snapshots,         \* by idempotency key
  results            \* for each snapshot and period type, its versions in order

scoringVars == <<now, changes, live, configurations, missions, uncommitted, snapshots, results>>
vars == <<inflight, scoringVars>>

Times == 0..EndOfTime
Open == EndOfTime + 1

VersionLock(k) == <<"CONFIGURATION", k>>
SnapshotLock(key) == <<"KPI_FACT_SNAPSHOT", key>>
ResultLock(key, type) == <<"KPI_RESULT", key, type>>

NoSnapshot == [taken |-> Missing]

ConfigurationRow == [from : Times, to : Times \cup {Open}, at : Times, version : Nat]

\* The versions are numbered in order, and no two are effective at a time.
OneEffective(rows) ==
  \A v, w \in DOMAIN rows :
    /\ rows[v].version = v
    /\ v # w => \A t \in Times : ~ /\ rows[v].from <= t /\ rows[v].to > t
                                   /\ rows[w].from <= t /\ rows[w].to > t

ASSUME ClockAssumption == EndOfTime \in Nat
ASSUME StopsAssumption == IsFiniteSet(Stops)
ASSUME VersionsAssumption ==
  \A k \in DOMAIN Versions : Versions[k] \in Seq(ConfigurationRow) /\ OneEffective(Versions[k])

\* The types of the events the modelled changes of a mission write.
EventTypes ==
  {"MISSION_STATUS_CHANGED", "MISSION_STOP_ARRIVED", "MISSION_ROUTE_DEVIATION_DETECTED",
   "MISSION_ROUTE_DEVIATION_RECOVERED"}

EventRow == [type : EventTypes, at : Times]

MissionFacts ==
  [status : MissionStatus, schedule : [loading : Int, departure : Int],
   loading : Times \cup {Missing}, departure : Times \cup {Missing},
   stops : [Stops -> [expected : Times \cup {Missing}, actual : Times \cup {Missing},
                      cancelled : BOOLEAN, pod : BOOLEAN]],
   sources : {{}}, temperatureRequired : BOOLEAN, events : SUBSET EventRow,
   exceptions : SUBSET [rule : {"ROUTE_DEVIATION"}, opened : Times, open : BOOLEAN]]

\* The columns of a mission's row that its transitions write.
OwnRow ==
  [status : MissionStatus, loading : Times \cup {Missing}, departure : Times \cup {Missing},
   updated : Times]

ASSUME MissingAssumption == Missing \notin OwnRow

\* A stop with its proof of delivery, a document.
StopRow ==
  [expected : Times \cup {Missing}, actual : Times \cup {Missing}, cancelled : BOOLEAN,
   created : Times \cup {Missing}, verified : BOOLEAN]

ExceptionRow ==
  [rule : {"ROUTE_DEVIATION"}, opened : Times, detected : Times, updated : Times,
   resolved : Times \cup {Missing}]

MissionRow ==
  [own : OwnRow, schedule : [loading : Int, departure : Int], stops : [Stops -> StopRow],
   temperatureRequired : BOOLEAN, events : SUBSET EventRow, exceptions : SUBSET ExceptionRow]

\* What a transaction has written and not committed: the columns of the row, if it
\* is a transition, the exceptions it replaces, and its events.
Change ==
  [stamp : Times, own : OwnRow \cup {Missing}, removed : SUBSET ExceptionRow,
   added : SUBSET ExceptionRow, events : SUBSET EventRow]

IsSnapshot(row) ==
  /\ row.input \in [key : KpiKeys, version : Nat, cutoff : Times, missions : SUBSET Missions]
  /\ row.taken \in Times
  /\ row.missed \subseteq row.input.missions
  /\ row.facts \in [row.input.missions -> MissionFacts]

Score == 0..10000 \cup {Missing}

IsResult(row, set) ==
  row \in [scores : [set -> Score], score : Score, at : Times, status : {"DRAFT", "PUBLISHED"}]

TypeOK ==
  /\ now \in Times /\ changes \in 0..MaxChanges /\ live \subseteq Keys
  /\ configurations \in [Keys -> Seq(ConfigurationRow)]
  /\ missions \in [Missions -> MissionRow]
  /\ uncommitted \in [Missions -> SUBSET Change]
  /\ \A key \in SnapshotKeys :
       /\ snapshots[key] # NoSnapshot => IsSnapshot(snapshots[key])
       /\ \A type \in PeriodTypes : \A v \in DOMAIN results[key][type] :
            IsResult(results[key][type][v], snapshots[key].input.missions)

Init ==
  /\ TransactionsInit
  /\ now = 0
  /\ changes = 0
  /\ live = Keys
  /\ configurations = [k \in Keys |-> IF k \in DOMAIN Versions THEN Versions[k] ELSE <<>>]
  /\ \E start \in Starts :
       /\ missions = start.missions
       /\ uncommitted = [m \in Missions |-> {}]
       /\ snapshots = [key \in SnapshotKeys |->
                         IF key \in DOMAIN start.snapshots THEN start.snapshots[key] ELSE NoSnapshot]
       /\ results = [key \in SnapshotKeys |-> [type \in PeriodTypes |->
                         IF key \in DOMAIN start.results THEN <<start.results[key]>> ELSE <<>>]]

Tick ==
  /\ now < EndOfTime
  /\ now' = now + 1
  /\ UNCHANGED <<inflight, changes, live, configurations, missions, uncommitted, snapshots, results>>

\* A contract is suspended, a driver is archived.
Perish ==
  \E k \in live \cap Perishable :
    /\ live' = live \ {k}
    /\ UNCHANGED <<inflight, now, changes, configurations, missions, uncommitted, snapshots, results>>

-------------------------------------------------------------------------------
(* What the other components do to the facts.  Times that are given by the      *)
(* caller are not compared with the clock.                                     *)

\* The row of a mission is locked by the transition that has updated it.
RowFree(m) == \A c \in uncommitted[m] : c.own = Missing

\* MISSION_OPERATIONAL: held by deviations and by the closing.
Operational(c) == c.own = Missing \/ c.own.status = "OPERATIONALLY_CLOSED"

OperationalFree(m) == \A c \in uncommitted[m] : ~Operational(c)

Write(m, change) ==
  /\ changes < MaxChanges
  /\ changes' = changes + 1
  /\ uncommitted' = [uncommitted EXCEPT ![m] = @ \cup {change}]
  /\ UNCHANGED <<inflight, now, live, configurations, missions, snapshots, results>>

OpenOf(m) == {e \in missions[m].exceptions : e.resolved = Missing}

\* closeActiveExceptions.
Closed(e, at) == [e EXCEPT !.updated = now, !.resolved = at]

\* A change of the status, which the closing makes of the open exceptions too.
Transition(m) ==
  LET own == missions[m].own IN
  \E to \in Transitions(own.status), at \in Times :
    LET closing == IF to = "OPERATIONALLY_CLOSED" THEN OpenOf(m) ELSE {} IN
    /\ RowFree(m)
    /\ to = "OPERATIONALLY_CLOSED" => OperationalFree(m)
    /\ to = "DEPARTED" /\ own.loading # Missing => at >= own.loading
    /\ Write(m, [stamp |-> now,
                 own |-> [status |-> to, updated |-> now,
                          loading |-> IF to = "LOADING" THEN at ELSE own.loading,
                          departure |-> IF to = "DEPARTED" THEN at ELSE own.departure],
                 removed |-> closing, added |-> {Closed(e, at) : e \in closing},
                 events |-> {[type |-> "MISSION_STATUS_CHANGED", at |-> at]}])

Incident(events, removed, added) ==
  [stamp |-> now, own |-> Missing, removed |-> removed, added |-> added, events |-> events]

Detected(at) ==
  [rule |-> "ROUTE_DEVIATION", opened |-> at, detected |-> at, updated |-> now, resolved |-> Missing]

StartDeviation(m) ==
  \E at \in Times :
    /\ OperationalFree(m)
    /\ missions[m].own.status \notin {"OPERATIONALLY_CLOSED", "ACCOUNTING_READY", "CLOSED", "CANCELLED"}
    /\ OpenOf(m) = {}
    /\ Write(m, Incident({[type |-> "MISSION_ROUTE_DEVIATION_DETECTED", at |-> at]},
                         {}, {Detected(at)}))

Recovered(e, at) == [e EXCEPT !.detected = at, !.updated = now, !.resolved = at]

ResolveDeviation(m) ==
  \E e \in OpenOf(m), at \in Times :
    /\ OperationalFree(m)
    /\ at >= e.opened
    /\ Write(m, Incident({[type |-> "MISSION_ROUTE_DEVIATION_RECOVERED", at |-> at]},
                         {e}, {Recovered(e, at)}))

After(f, c) ==
  [f EXCEPT !.own = IF c.own = Missing THEN @ ELSE c.own,
            !.exceptions = (@ \ c.removed) \cup c.added,
            !.events = @ \cup c.events]

Commit(m) ==
  \E c \in uncommitted[m] :
    /\ missions' = [missions EXCEPT ![m] = After(@, c)]
    /\ uncommitted' = [uncommitted EXCEPT ![m] = @ \ {c}]
    /\ UNCHANGED <<inflight, now, changes, live, configurations, snapshots, results>>

\* A later check of the transaction fails, or the connection is lost.
Undo(m) ==
  \E c \in uncommitted[m] :
    /\ uncommitted' = [uncommitted EXCEPT ![m] = @ \ {c}]
    /\ UNCHANGED <<inflight, now, changes, live, configurations, missions, snapshots, results>>

\* What no check of a snapshot looks at is written and committed in one step.
Alter(m, row) ==
  /\ changes < MaxChanges
  /\ changes' = changes + 1
  /\ missions' = [missions EXCEPT ![m] = row]
  /\ UNCHANGED <<inflight, now, live, configurations, uncommitted, snapshots, results>>

\* A stop is reached.  Its event is stamped with the clock, whatever time is given.
Arrive(m) ==
  \E s \in Stops, at \in Times :
    /\ missions[m].stops[s].actual = Missing
    /\ Alter(m, [missions[m] EXCEPT
                   !.stops[s].actual = at,
                   !.events = @ \cup {[type |-> "MISSION_STOP_ARRIVED", at |-> now]}])

\* The proof of a delivery is uploaded.
UploadDocument(m) ==
  \E s \in Stops :
    /\ missions[m].stops[s].created = Missing
    /\ Alter(m, [missions[m] EXCEPT !.stops[s].created = now])

\* A verdict on it, or another one.
VerifyDocument(m) ==
  \E s \in Stops :
    /\ missions[m].stops[s].created # Missing
    /\ Alter(m, [missions[m] EXCEPT !.stops[s].verified = ~@])

-------------------------------------------------------------------------------
(* create of the rule configurations and of the KPI configurations.            *)

ClosedOverlapping(row, from, to) ==
  row.from < to /\ row.to # Open /\ row.to > from  \* mutant

\* Open: no end.
Overlapping(row, from, to) == row.from < to /\ row.to > from

CreateConfiguration(r) ==
  \E k \in live, from \in Times, to \in Times \cup {Open} :
    /\ from < to
    /\ Begin(r, [op |-> "configure", locks |-> {}, key |-> k, from |-> from, to |-> to, at |-> now])
    /\ UNCHANGED scoringVars

LockVersions(r) ==
  LET i == inflight[r]
      rows == configurations[i.key]
  IN
  /\ i.op = "configure"
  /\ Available(VersionLock(i.key), r)
  /\ \A v \in DOMAIN rows : ~Overlapping(rows[v], i.from, i.to)
  /\ Remember(r, [op |-> "configuring", locks |-> {VersionLock(i.key)}, key |-> i.key,
                  row |-> [from |-> i.from, to |-> i.to, at |-> i.at, version |-> Len(rows) + 1]])
  /\ UNCHANGED scoringVars

\* The version of a key is unique.
CommitConfiguration(r) ==
  LET i == inflight[r] IN
  /\ i.op = "configuring"
  /\ i.row.version = Len(configurations[i.key]) + 1
  /\ configurations' = [configurations EXCEPT ![i.key] = Append(@, i.row)]
  /\ End(r)
  /\ UNCHANGED <<now, changes, live, missions, uncommitted, snapshots, results>>

-------------------------------------------------------------------------------
(* create of the KPI fact snapshots.                                           *)

Effective(row, cutoff) == row.at <= cutoff /\ row.from <= cutoff /\ row.to > cutoff

AnyTime(f, cutoff) == TRUE  \* mutant

\* Neither the mission nor an exception opened by the cutoff was changed since.
Unchanged(f, cutoff) ==
  /\ f.own.updated <= cutoff
  /\ \A e \in f.exceptions :
       e.opened <= cutoff =>
         /\ e.updated <= cutoff /\ e.detected <= cutoff
         /\ e.resolved # Missing => e.resolved <= cutoff

AtCutoff(e, cutoff) ==
  [rule |-> e.rule, opened |-> e.opened, open |-> e.resolved = Missing \/ e.resolved > cutoff]

\* Events and documents are filtered by the cutoff, the verdicts on the documents
\* and the stops are not.  No provider of other facts is there.
Captured(f, cutoff) ==
  [status |-> f.own.status, schedule |-> f.schedule, loading |-> f.own.loading,
   departure |-> f.own.departure,
   stops |-> [s \in Stops |->
                LET stop == f.stops[s] IN
                [expected |-> stop.expected, actual |-> stop.actual, cancelled |-> stop.cancelled,
                 pod |-> stop.verified /\ stop.created # Missing /\ stop.created <= cutoff]],
   events |-> {e \in f.events : e.at <= cutoff},
   exceptions |-> {AtCutoff(e, cutoff) : e \in {x \in f.exceptions : x.opened <= cutoff}},
   sources |-> {}, temperatureRequired |-> f.temperatureRequired]

Input(k, v, cutoff, set) == [key |-> k, version |-> v, cutoff |-> cutoff, missions |-> set]

\* Whose change is stamped by the cutoff and not yet committed.  The code cannot
\* know: that a snapshot misses it is recorded for CutoffKept only.
Missed(set, cutoff) == {m \in set : \E c \in uncommitted[m] : c.stamp <= cutoff}

\* The snapshot of a key that is there already is the answer, or a conflict:
\* either way nothing is written.
CreateSnapshot(r) ==
  \E key \in SnapshotKeys, k \in KpiKeys, cutoff \in Times, set \in SUBSET Missions :
    \E v \in DOMAIN configurations[k] :
      /\ set # {}
      /\ snapshots[key] = NoSnapshot
      /\ Effective(configurations[k][v], cutoff)
      /\ \A m \in set : Unchanged(missions[m], cutoff) /\ m \in InScope[k]
      /\ Begin(r, [op |-> "snapshot", locks |-> {}, wanted |-> SnapshotLock(key), key |-> key,
                   row |-> [input |-> Input(k, v, cutoff, set), taken |-> now,
                            missed |-> Missed(set, cutoff),
                            facts |-> [m \in set |-> Captured(missions[m], cutoff)]]])
      /\ UNCHANGED scoringVars

\* The lock a serializable transaction waits for after it has read.
TakeLock(r) ==
  LET i == inflight[r] IN
  /\ i.op \in {"snapshot", "calculate"}
  /\ i.locks = {}
  /\ Available(i.wanted, r)
  /\ Remember(r, [i EXCEPT !.locks = {i.wanted}])
  /\ UNCHANGED scoringVars

\* The idempotency key is unique.
CommitSnapshot(r) ==
  LET i == inflight[r] IN
  /\ i.op = "snapshot" /\ i.locks # {}
  /\ snapshots[i.key] = NoSnapshot
  /\ snapshots' = [snapshots EXCEPT ![i.key] = i.row]
  /\ End(r)
  /\ UNCHANGED <<now, changes, live, configurations, missions, uncommitted, results>>

-------------------------------------------------------------------------------
(* calculate and publish.                                                      *)

SameInputAndTime(row, calculated) == row.scores = calculated.scores /\ row.at = calculated.at  \* mutant

\* The hash is over the snapshot, its cutoff and the scores.
SameInput(row, calculated) == row.scores = calculated.scores

Scores(snapshot) == [m \in DOMAIN snapshot.facts |-> MissionScore(snapshot.facts[m])]

\* What there is at the start was taken when the clock started, and calculated
\* from what was taken.
ASSUME StartsAssumption ==
  \A start \in Starts :
    /\ start.missions \in [Missions -> MissionRow]
    /\ DOMAIN start.results \subseteq DOMAIN start.snapshots
    /\ \A key \in DOMAIN start.snapshots :
         /\ IsSnapshot(start.snapshots[key]) /\ start.snapshots[key] # NoSnapshot
         /\ start.snapshots[key].taken = 0
    /\ \A key \in DOMAIN start.results :
         /\ IsResult(start.results[key], start.snapshots[key].input.missions)
         /\ start.results[key].scores = Scores(start.snapshots[key])

\* With a latest version that is published, or of the same input, nothing is
\* written.
Calculate(r) ==
  \E key \in SnapshotKeys, type \in PeriodTypes, at \in Times :
    LET snapshot == snapshots[key]
        rows == results[key][type]
        row == [scores |-> Scores(snapshot), score |-> AggregateScore(Scores(snapshot)),
                at |-> at, status |-> "DRAFT"]
    IN
    /\ snapshot # NoSnapshot
    /\ at >= snapshot.input.cutoff
    /\ rows # <<>> => rows[Len(rows)].status = "DRAFT" /\ ~SameInput(rows[Len(rows)], row)
    /\ Begin(r, [op |-> "calculate", locks |-> {}, wanted |-> ResultLock(key, type), key |-> key,
                 type |-> type, version |-> Len(rows) + 1, row |-> row])
    /\ UNCHANGED scoringVars

\* The version of a snapshot and a period type is unique.
CommitResult(r) ==
  LET i == inflight[r] IN
  /\ i.op = "calculate" /\ i.locks # {}
  /\ i.version = Len(results[i.key][i.type]) + 1
  /\ results' = [results EXCEPT ![i.key][i.type] = Append(@, i.row)]
  /\ End(r)
  /\ UNCHANGED <<now, changes, live, configurations, missions, uncommitted, snapshots>>

ReadResult(r) ==
  \E key \in SnapshotKeys, type \in PeriodTypes :
    \E v \in DOMAIN results[key][type] :
      /\ results[key][type][v].status = "DRAFT"
      /\ Begin(r, [op |-> "publish", locks |-> {}, key |-> key, type |-> type, version |-> v])
      /\ UNCHANGED scoringVars

\* No condition on the status: of two that overlap, the second replaces who
\* published it and when.
Publish(r) ==
  LET i == inflight[r] IN
  /\ i.op = "publish"
  /\ results' = [results EXCEPT ![i.key][i.type][i.version].status = "PUBLISHED"]
  /\ End(r)
  /\ UNCHANGED <<now, changes, live, configurations, missions, uncommitted, snapshots>>

-------------------------------------------------------------------------------
Start(r) == CreateConfiguration(r) \/ CreateSnapshot(r) \/ Calculate(r) \/ ReadResult(r)

GoOn(r) ==
  \/ LockVersions(r) \/ CommitConfiguration(r)
  \/ TakeLock(r) \/ CommitSnapshot(r) \/ CommitResult(r) \/ Publish(r)
  \/ Rollback(r) /\ UNCHANGED scoringVars

Elsewhere(m) ==
  \/ Transition(m) \/ StartDeviation(m) \/ ResolveDeviation(m) \/ Commit(m) \/ Undo(m)
  \/ Arrive(m) \/ UploadDocument(m) \/ VerifyDocument(m)

Next ==
  \/ \E r \in Requests :
       \/ inflight[r] = Waiting /\ Start(r)
       \/ GoOn(r)
  \/ \E m \in Missions : Elsewhere(m)
  \/ Tick
  \/ Perish
  \/ Quiet /\ UNCHANGED vars

Spec == Init /\ [][Next]_vars

-------------------------------------------------------------------------------
(* Properties.                                                                 *)

\* At every instant a key has one effective version at most, and its versions
\* are numbered in the order they were created in.
PeriodsDisjoint == \A k \in Keys : OneEffective(configurations[k])

StatusEvents(f) == EventsOf(f, "MISSION_STATUS_CHANGED")

\* Two snapshots of a mission that were taken after the same cutoff agree on the
\* mission's own facts, its status changes and its exceptions, whatever happened
\* between them, unless one of them was taken while a change stamped by the
\* cutoff was not yet committed.  They need not agree on its stops, on what is
\* recorded of them and on their proofs of delivery: those change without an
\* update of the mission's row.
CutoffKept ==
  \A p, q \in {key \in SnapshotKeys : snapshots[key] # NoSnapshot} :
    LET s == snapshots[p]
        t == snapshots[q]
    IN s.input.cutoff = t.input.cutoff /\ s.taken > s.input.cutoff /\ t.taken > t.input.cutoff
       => \A m \in (DOMAIN s.facts \cap DOMAIN t.facts) \ (s.missed \cup t.missed) :
            /\ s.facts[m].status = t.facts[m].status
            /\ s.facts[m].loading = t.facts[m].loading
            /\ s.facts[m].departure = t.facts[m].departure
            /\ StatusEvents(s.facts[m]) = StatusEvents(t.facts[m])
            /\ s.facts[m].exceptions = t.facts[m].exceptions

\* A known fact that was late, a stop without a verified proof.  A cancelled stop
\* has neither, and an exception has nothing to say without its provider.  Nor has
\* the arrival of the vehicle: no event tells of it.
Amiss(f) ==
  \/ f.loading # Missing /\ f.loading > f.schedule.loading
  \/ f.departure # Missing /\ f.departure > f.schedule.departure
  \/ \E s \in EligibleStops(f) :
       LET stop == f.stops[s] IN
       \/ stop.expected # Missing /\ stop.actual # Missing /\ stop.actual > stop.expected
       \/ ~stop.pod

\* A snapshot has one result of a period type, whatever recalculations of it
\* overlap each other and its publication, and what the result says follows from
\* the snapshot.
ResultFollows ==
  \A key \in SnapshotKeys : \A type \in PeriodTypes :
    LET rows == results[key][type] IN
    /\ Len(rows) <= 1
    /\ rows # <<>> => rows[1].scores = Scores(snapshots[key])

\* And what is missing counts against nobody: a mission of less than the full
\* score has something amiss.
ResultsStand ==
  /\ ResultFollows
  /\ \A key \in SnapshotKeys : \A type \in PeriodTypes :
       LET rows == results[key][type] IN
       rows # <<>> =>
         \A m \in DOMAIN rows[1].scores :
           rows[1].scores[m] \notin {10000, Missing} => Amiss(snapshots[key].facts[m])

===============================================================================
