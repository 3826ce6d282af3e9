--------------------------- MODULE MissionLifecycle ---------------------------
(***************************************************************************)
(* One mission, its stops and its assignment history, under any number of  *)
(* concurrent API requests.                                                *)
(*                                                                         *)
(* A handler is one PostgreSQL transaction at READ COMMITTED.  It is split *)
(* at the points where another transaction can commit in between: a Read   *)
(* step (advisory lock, first SELECT, the checks on what was read), the    *)
(* later SELECTs whose answer is acted upon, and a Commit step.  What a    *)
(* request remembers between its steps is its entry of inflight: it is the *)
(* code's local variables, and it may be stale by the time it is used.     *)
(* All writes of a handler are one step: the first of them locks the row   *)
(* it conditionally updates, and nobody sees any of them before the        *)
(* commit.  A request refused by a check (404, 409) has written nothing    *)
(* and is a request whose Read step is simply not taken.                   *)
(*                                                                         *)
(* A transition also applies closure policies, evaluates rules and closes  *)
(* exceptions: other tables, other modules.  What they refuse is here a    *)
(* Read step not taken or a Rollback.  Operators marked mutant are not     *)
(* part of Spec: each is a wrong form of the operator after it, for which  *)
(* a property must fail.                                                   *)
(***************************************************************************)
EXTENDS MissionPolicy, Naturals, Sequences

CONSTANTS
  Requests,        \* the requests that can be in flight at the same time
  StopIds,         \* the ids rows of mission_stops can get
  Crews,           \* carrier, vehicle, driver triples that pass the ACTIVE checks
  Positions,       \* values of MissionStop.sequence, at least 1
  Times,           \* values of occurredAt, after NoTime
  MaxAssignments,  \* bound on the rows of mission_assignments
  NoCrew           \* carrierId, vehicleId and driverId are null

NoTime == 0
NoLock == "none"

ASSUME PositionsAssumption == Positions \subseteq Nat \ {0}
ASSUME TimesAssumption == Times \subseteq Nat \ {0}
ASSUME BoundAssumption == MaxAssignments \in Nat
ASSUME NoCrewAssumption == NoCrew \notin Crews

VARIABLES
  mission,        \* the row of missions
  stops,          \* the rows of mission_stops, by id
  assignments,    \* the rows of mission_assignments, oldest first
  timeline,       \* the newest mission.status_changed event
  notifications,  \* how many TRIP_COMPLETED portal notifications were created
  inflight        \* what each request remembers; Idle when it has no transaction

vars == <<mission, stops, assignments, timeline, notifications, inflight>>

-------------------------------------------------------------------------------
(* Types.                                                                      *)

MissionRow ==
  [status          : MissionStatus,
   crew            : Crews \cup {NoCrew},
   actualLoading   : Times \cup {NoTime},
   actualDeparture : Times \cup {NoTime}]

StopRow ==
  [sequence  : Positions,
   status    : StopStatus,
   arrival   : Times \cup {NoTime},
   unloading : Times \cup {NoTime},
   completed : Times \cup {NoTime}]

AssignmentRow == [crew : Crews, ended : BOOLEAN]

Idle == [op |-> "idle", lock |-> NoLock]

TransitionIntent ==
  [op : {"transition"}, lock : {NoLock, "MISSION_OPERATIONAL"},
   from : MissionStatus, to : MissionStatus, at : Times \cup {NoTime},
   checked : BOOLEAN]

AssignIntent == [op : {"assign"}, lock : {"MISSION_ASSIGNMENT"}, crew : Crews]

AddIntent == [op : {"addStop"}, lock : {"MISSION_STOPS"}, sequence : Positions]

MoveIntent ==
  [op : {"updateStop"}, lock : {"MISSION_STOPS"}, stop : StopIds, sequence : Positions]

ArriveIntent ==
  [op : {"arrive"}, lock : {NoLock}, stop : StopIds, at : Times,
   sequence : Positions, checked : BOOLEAN, ahead : SUBSET StopIds]

WorkIntent ==
  [op : {"unload", "complete"}, lock : {NoLock}, stop : StopIds, at : Times]

Intent ==
  {Idle} \cup TransitionIntent \cup AssignIntent \cup AddIntent \cup MoveIntent
    \cup ArriveIntent \cup WorkIntent

TypeOK ==
  /\ mission \in MissionRow
  /\ DOMAIN stops \subseteq StopIds
  /\ stops \in [DOMAIN stops -> StopRow]
  /\ assignments \in Seq(AssignmentRow)
  /\ timeline \in [old : MissionStatus, new : MissionStatus]
  /\ notifications \in Nat
  /\ inflight \in [Requests -> Intent]

-------------------------------------------------------------------------------
(* A freshly created mission.  Its mission.created event carries the status    *)
(* DRAFT, which starts the timeline.                                           *)

Init ==
  /\ mission = [status |-> "DRAFT", crew |-> NoCrew,
                actualLoading |-> NoTime, actualDeparture |-> NoTime]
  /\ stops = [s \in {} |-> Idle]
  /\ assignments = <<>>
  /\ timeline = [old |-> "DRAFT", new |-> "DRAFT"]
  /\ notifications = 0
  /\ inflight = [r \in Requests |-> Idle]

Begin(r, intent) == inflight[r] = Idle /\ inflight' = [inflight EXCEPT ![r] = intent]

Remember(r, intent) == inflight' = [inflight EXCEPT ![r] = intent]

End(r) == inflight' = [inflight EXCEPT ![r] = Idle]

Unlocked(lock) == TRUE  \* mutant

\* pg_advisory_xact_lock: held from the first statement to the end of the
\* transaction, so by every request that is in flight with it.
Available(lock) == \A r \in Requests : inflight[r].lock # lock

-------------------------------------------------------------------------------
(* MissionsService.transition                                                  *)

StatusLock(to) ==
  IF to = "OPERATIONALLY_CLOSED" THEN "MISSION_OPERATIONAL" ELSE NoLock

CrewNotRequired(to) == TRUE  \* mutant

CrewRequired(to) == to = "ASSIGNED" => mission.crew # NoCrew

NotAfter(at, recorded) == at <= recorded  \* mutant

\* occurredAt is not before the time recorded for the previous stage.
NotBefore(at, recorded) == at >= recorded

ReadTransition(r, to, at) ==
  /\ StatusLock(to) # NoLock => Available(StatusLock(to))
  /\ to \in Transitions(mission.status)
  /\ CrewRequired(to)
  /\ to = "DEPARTED" => NotBefore(at, mission.actualLoading)
  /\ (at = NoTime) <=> (to \notin {"LOADING", "DEPARTED"})
  /\ Begin(r, [op |-> "transition", lock |-> StatusLock(to), from |-> mission.status,
               to |-> to, at |-> at, checked |-> to # "DELIVERED"])
  /\ UNCHANGED <<mission, stops, assignments, timeline, notifications>>

\* The second SELECT of the include: the stops.  Only the DELIVERED guard
\* looks at them, so only that request takes this step.
NoStopPending == \A s \in DOMAIN stops : stops[s].status = "COMPLETED"  \* mutant

AllStopsCompleted ==
  /\ DOMAIN stops # {}
  /\ \A s \in DOMAIN stops : stops[s].status = "COMPLETED"

CheckDelivery(r) ==
  /\ inflight[r].op = "transition"
  /\ ~inflight[r].checked
  /\ AllStopsCompleted
  /\ Remember(r, [inflight[r] EXCEPT !.checked = TRUE])
  /\ UNCHANGED <<mission, stops, assignments, timeline, notifications>>

NotCancelled(r) == mission.status # "CANCELLED"  \* mutant

\* The conditional update and the writes that go with it.
StatusUnchanged(r) == mission.status = inflight[r].from

CommitTransition(r) ==
  /\ inflight[r].op = "transition"
  /\ inflight[r].checked
  /\ StatusUnchanged(r)
  /\ mission' = [mission EXCEPT
                   !.status = inflight[r].to,
                   !.actualLoading = IF inflight[r].to = "LOADING" THEN inflight[r].at ELSE @,
                   !.actualDeparture = IF inflight[r].to = "DEPARTED" THEN inflight[r].at ELSE @]
  /\ timeline' = [old |-> inflight[r].from, new |-> inflight[r].to]
  /\ notifications' = notifications + (IF inflight[r].to = "DELIVERED" THEN 1 ELSE 0)
  /\ End(r)
  /\ UNCHANGED <<stops, assignments>>

\* updateMany counted no row: the answer is the latest mission or a 409.
LoseTransition(r) ==
  /\ inflight[r].op = "transition"
  /\ inflight[r].checked
  /\ ~StatusUnchanged(r)
  /\ End(r)
  /\ UNCHANGED <<mission, stops, assignments, timeline, notifications>>

-------------------------------------------------------------------------------
(* MissionsService.assign                                                      *)

ReadAssign(r, crew) ==
  /\ Available("MISSION_ASSIGNMENT")
  /\ crew # mission.crew
  /\ Len(assignments) < MaxAssignments
  /\ Begin(r, [op |-> "assign", lock |-> "MISSION_ASSIGNMENT", crew |-> crew])
  /\ UNCHANGED <<mission, stops, assignments, timeline, notifications>>

\* updateMany on the rows that have not ended, then the new row.
Succeed(rows, crew) ==
  Append([i \in DOMAIN rows |-> [rows[i] EXCEPT !.ended = TRUE]],
         [crew |-> crew, ended |-> FALSE])

CommitAssign(r) ==
  /\ inflight[r].op = "assign"
  /\ mission' = [mission EXCEPT !.crew = inflight[r].crew]
  /\ assignments' = Succeed(assignments, inflight[r].crew)
  /\ End(r)
  /\ UNCHANGED <<stops, timeline, notifications>>

-------------------------------------------------------------------------------
(* MissionsService.addStop and updateStop: planning the stops.  The unique     *)
(* index on (mission, sequence) is left out: PlannedSequenceFree shows that    *)
(* the lock alone keeps it from ever refusing a row.                           *)

SequenceFree(sequence, except) ==
  \A s \in DOMAIN stops \ except : stops[s].sequence # sequence

ReadAddStop(r, sequence) ==
  /\ Available("MISSION_STOPS")
  /\ SequenceFree(sequence, {})
  /\ Begin(r, [op |-> "addStop", lock |-> "MISSION_STOPS", sequence |-> sequence])
  /\ UNCHANGED <<mission, stops, assignments, timeline, notifications>>

CommitAddStop(r, s) ==
  /\ inflight[r].op = "addStop"
  /\ s \notin DOMAIN stops
  /\ stops' = [t \in DOMAIN stops \cup {s} |->
                 IF t = s
                 THEN [sequence |-> inflight[r].sequence, status |-> "PENDING",
                       arrival |-> NoTime, unloading |-> NoTime, completed |-> NoTime]
                 ELSE stops[t]]
  /\ End(r)
  /\ UNCHANGED <<mission, assignments, timeline, notifications>>

ReadUpdateStop(r, s, sequence) ==
  /\ Available("MISSION_STOPS")
  /\ SequenceFree(sequence, {s})
  /\ Begin(r, [op |-> "updateStop", lock |-> "MISSION_STOPS", stop |-> s, sequence |-> sequence])
  /\ UNCHANGED <<mission, stops, assignments, timeline, notifications>>

CommitUpdateStop(r) ==
  /\ inflight[r].op = "updateStop"
  /\ stops' = [stops EXCEPT ![inflight[r].stop] = [@ EXCEPT !.sequence = inflight[r].sequence]]
  /\ End(r)
  /\ UNCHANGED <<mission, assignments, timeline, notifications>>

-------------------------------------------------------------------------------
(* MissionStopOperationsService.  No lock: the three commands rely on the      *)
(* conditional update of the stop's status.                                    *)

StopAtAnyStage(r, status) == TRUE  \* mutant
StopNotCompleted(r, status) == stops[inflight[r].stop].status # "COMPLETED"  \* mutant

\* The where clause of the commands' conditional update.
StopStillAt(r, status) == stops[inflight[r].stop].status = status

ReadArrive(r, s, at) ==
  /\ stops[s].status = "PENDING"
  /\ Begin(r, [op |-> "arrive", lock |-> NoLock, stop |-> s, at |-> at,
               sequence |-> stops[s].sequence, checked |-> FALSE, ahead |-> {}])
  /\ UNCHANGED <<mission, stops, assignments, timeline, notifications>>

\* The count of lower sequences that are not COMPLETED, a statement of its
\* own, by the sequence the first statement read.  The code keeps only that
\* it was zero; ahead records for which stops that was seen.
Ahead(sequence) == {t \in DOMAIN stops : stops[t].sequence < sequence}

CheckArrive(r) ==
  /\ inflight[r].op = "arrive"
  /\ ~inflight[r].checked
  /\ \A t \in Ahead(inflight[r].sequence) : stops[t].status = "COMPLETED"
  /\ Remember(r, [inflight[r] EXCEPT !.checked = TRUE,
                                     !.ahead = Ahead(inflight[r].sequence)])
  /\ UNCHANGED <<mission, stops, assignments, timeline, notifications>>

CommitArrive(r) ==
  /\ inflight[r].op = "arrive"
  /\ inflight[r].checked
  /\ StopStillAt(r, "PENDING")
  /\ stops' = [stops EXCEPT ![inflight[r].stop] =
                 [@ EXCEPT !.status = "ARRIVED", !.arrival = inflight[r].at]]
  /\ End(r)
  /\ UNCHANGED <<mission, assignments, timeline, notifications>>

ReadUnload(r, s, at) ==
  /\ stops[s].status = "ARRIVED"
  /\ NotBefore(at, stops[s].arrival)
  /\ Begin(r, [op |-> "unload", lock |-> NoLock, stop |-> s, at |-> at])
  /\ UNCHANGED <<mission, stops, assignments, timeline, notifications>>

CommitUnload(r) ==
  /\ inflight[r].op = "unload"
  /\ StopStillAt(r, "ARRIVED")
  /\ stops' = [stops EXCEPT ![inflight[r].stop] =
                 [@ EXCEPT !.status = "UNLOADING", !.unloading = inflight[r].at]]
  /\ End(r)
  /\ UNCHANGED <<mission, assignments, timeline, notifications>>

ReadComplete(r, s, at) ==
  /\ stops[s].status = "UNLOADING"
  /\ NotBefore(at, stops[s].unloading)
  /\ Begin(r, [op |-> "complete", lock |-> NoLock, stop |-> s, at |-> at])
  /\ UNCHANGED <<mission, stops, assignments, timeline, notifications>>

CommitComplete(r) ==
  /\ inflight[r].op = "complete"
  /\ StopStillAt(r, "UNLOADING")
  /\ stops' = [stops EXCEPT ![inflight[r].stop] =
                 [@ EXCEPT !.status = "COMPLETED", !.completed = inflight[r].at]]
  /\ End(r)
  /\ UNCHANGED <<mission, assignments, timeline, notifications>>

\* The stop status each command's conditional update asks for.
Expected(op) ==
  CASE op = "arrive"   -> "PENDING"
    [] op = "unload"   -> "ARRIVED"
    [] op = "complete" -> "UNLOADING"

LoseStopCommand(r) ==
  /\ inflight[r].op \in {"arrive", "unload", "complete"}
  /\ inflight[r].op = "arrive" => inflight[r].checked
  /\ ~StopStillAt(r, Expected(inflight[r].op))
  /\ End(r)
  /\ UNCHANGED <<mission, stops, assignments, timeline, notifications>>

-------------------------------------------------------------------------------
\* A check that fails after the Read step, a lost connection, Prisma's
\* transaction timeout or a crash of the API: PostgreSQL rolls back.
Rollback(r) ==
  /\ inflight[r] # Idle
  /\ End(r)
  /\ UNCHANGED <<mission, stops, assignments, timeline, notifications>>

TransitionStep(r) ==
  \/ \E to \in MissionStatus, at \in Times \cup {NoTime} : ReadTransition(r, to, at)
  \/ CheckDelivery(r)
  \/ CommitTransition(r)
  \/ LoseTransition(r)

AssignStep(r) ==
  \/ \E crew \in Crews : ReadAssign(r, crew)
  \/ CommitAssign(r)

PlanStep(r) ==
  \/ \E sequence \in Positions : ReadAddStop(r, sequence)
  \/ \E s \in StopIds : CommitAddStop(r, s)
  \/ \E s \in DOMAIN stops, sequence \in Positions : ReadUpdateStop(r, s, sequence)
  \/ CommitUpdateStop(r)

StopStep(r) ==
  \/ \E s \in DOMAIN stops, at \in Times : ReadArrive(r, s, at)
  \/ \E s \in DOMAIN stops, at \in Times : ReadUnload(r, s, at)
  \/ \E s \in DOMAIN stops, at \in Times : ReadComplete(r, s, at)
  \/ CheckArrive(r)
  \/ CommitArrive(r)
  \/ CommitUnload(r)
  \/ CommitComplete(r)
  \/ LoseStopCommand(r)

Next ==
  \E r \in Requests :
    TransitionStep(r) \/ AssignStep(r) \/ PlanStep(r) \/ StopStep(r) \/ Rollback(r)

Spec == Init /\ [][Next]_vars

-------------------------------------------------------------------------------
(* Safety.                                                                     *)

\* A mission beyond DRAFT has a crew: ASSIGNED is refused without one, and no
\* later assignment, however it interleaves, takes the crew away.
CrewWhileUnderway == mission.status \in Underway => mission.crew # NoCrew

\* The recorded departure never precedes the recorded loading, although the
\* two are compared on a snapshot taken before the update.
DepartureAfterLoading ==
  mission.actualDeparture # NoTime =>
    /\ mission.actualLoading # NoTime
    /\ mission.actualDeparture >= mission.actualLoading

\* The recorded times of a stop are those of the stages it has gone through,
\* in order: arrival, start of unloading, completion.
TimesOrdered(s) ==
  /\ stops[s].status = "PENDING" <=> stops[s].arrival = NoTime
  /\ stops[s].status \in {"UNLOADING", "COMPLETED"} <=> stops[s].unloading # NoTime
  /\ stops[s].status = "COMPLETED" <=> stops[s].completed # NoTime
  /\ stops[s].unloading # NoTime => stops[s].arrival <= stops[s].unloading
  /\ stops[s].completed # NoTime => stops[s].unloading <= stops[s].completed

\* Every stop of the mission has its times in that order.
StopTimesOrdered == \A s \in DOMAIN stops : TimesOrdered(s)

\* No recorded time precedes the one it follows, on the mission or on a stop,
\* although each is compared on a snapshot and written by a later statement.
TimesInOrder == DepartureAfterLoading /\ StopTimesOrdered

\* No two stops of the mission share a sequence, by the lock alone: the two
\* handlers that write a sequence check it and write it in two statements.
SequencesUnique ==
  \A s, t \in DOMAIN stops : stops[s].sequence = stops[t].sequence => s = t

\* The assignment history ends with the mission's crew, is open only there,
\* and never repeats a crew: the same triple twice is the same assignment,
\* also when two requests ask for it at the same time.
AssignmentHistory ==
  /\ \A i \in DOMAIN assignments : assignments[i].ended <=> i # Len(assignments)
  /\ mission.crew = IF assignments = <<>> THEN NoCrew ELSE assignments[Len(assignments)].crew
  /\ \A i \in DOMAIN assignments :
       i > 1 => assignments[i].crew # assignments[i - 1].crew

\* Whatever assignments and transitions interleave, a mission underway keeps a
\* crew, and the history tells which.
CrewAccounted == CrewWhileUnderway /\ AssignmentHistory

\* The client portal is told of a completed trip exactly once, however many
\* requests deliver the mission at the same time.
NotifiedOnce ==
  notifications = IF mission.status \in Delivered THEN 1 ELSE 0

\* A delivered mission has a completed stop: the one the delivering request
\* saw, which nothing has undone.
DeliveredWithEvidence ==
  mission.status \in Delivered =>
    \E s \in DOMAIN stops : stops[s].status = "COMPLETED"

\* A step moves the status along the matrix or not at all: a request that
\* decided on an older status never gets its update through.
StatusFollowsMatrix ==
  [][mission'.status # mission.status =>
       mission'.status \in Transitions(mission.status)]_vars

\* The timeline replays to the mission: each status change has its event, and
\* the event names the status of the one before it as the old status.
TimelineReplays ==
  [][/\ mission'.status # mission.status <=> timeline' # timeline
     /\ timeline' # timeline => timeline' = [old |-> timeline.new, new |-> mission'.status]]_vars

\* A recorded time is final: no second command, however late its update,
\* overwrites it.
RecordedTimesFinal ==
  [][/\ mission.actualLoading # NoTime => mission'.actualLoading = mission.actualLoading
     /\ mission.actualDeparture # NoTime => mission'.actualDeparture = mission.actualDeparture
     /\ \A s \in DOMAIN stops :
          /\ stops[s].arrival # NoTime => stops'[s].arrival = stops[s].arrival
          /\ stops[s].unloading # NoTime => stops'[s].unloading = stops[s].unloading
          /\ stops[s].completed # NoTime => stops'[s].completed = stops[s].completed]_vars

\* Every step is a step of the protocol, or changes nothing it can see.
Protocol == INSTANCE MissionProtocol WITH
              status <- mission.status,
              crew <- mission.crew,
              progress <- [s \in DOMAIN stops |-> stops[s].status],
              notified <- notifications

RefinesProtocol == Protocol!Spec

-------------------------------------------------------------------------------
(* What the documentation says of the two checks that read other rows, and     *)
(* the code does not ensure: see the README.                                   *)

\* README.md:160: when the mission becomes DELIVERED, every stop is completed.
DeliveryCompletesStops ==
  [][mission.status # "DELIVERED" /\ mission'.status = "DELIVERED" => AllStopsCompleted]_vars

\* README.md:162: when a stop arrives, every stop of a lower sequence is
\* completed.
StopsArriveInOrder ==
  [][\A s \in DOMAIN stops :
       stops[s].status = "PENDING" /\ stops'[s].status = "ARRIVED" =>
         \A t \in Ahead(stops[s].sequence) : stops[t].status = "COMPLETED"]_vars

-------------------------------------------------------------------------------
(* The inductive invariant: what makes the properties above hold in spite of   *)
(* snapshots is what an in-flight request still knows to be true when it       *)
(* commits.                                                                    *)

\* Two transactions never hold the same advisory lock.
LocksExclusive ==
  \A p, q \in Requests :
    inflight[p].lock = inflight[q].lock /\ inflight[p].lock # NoLock => p = q

\* The times the row carries are those of the statuses it has been through.
TimesMatchStatus ==
  /\ mission.status \in Loaded => mission.actualLoading # NoTime
  /\ mission.status \in Departed => mission.actualDeparture # NoTime
  /\ mission.status \notin Loaded \cup {"CANCELLED"} => mission.actualLoading = NoTime
  /\ mission.status \notin Departed \cup {"CANCELLED"} => mission.actualDeparture = NoTime

\* A transition in flight follows the matrix; it had a crew to become
\* ASSIGNED, a completed stop to be DELIVERED, and a time not before loading
\* to be DEPARTED, when loading was already over.
TransitionKnows(r) ==
  inflight[r].op = "transition" =>
    /\ inflight[r].to \in Transitions(inflight[r].from)
    /\ inflight[r].to = "ASSIGNED" => mission.crew # NoCrew
    /\ inflight[r].at = NoTime <=> inflight[r].to \notin {"LOADING", "DEPARTED"}
    /\ inflight[r].to = "DEPARTED" =>
         /\ mission.status \in Departed \cup {"LOADED", "CANCELLED"}
         /\ inflight[r].at >= mission.actualLoading
    /\ inflight[r].to = "DELIVERED" /\ inflight[r].checked =>
         \E s \in DOMAIN stops : stops[s].status = "COMPLETED"

\* An assignment in flight changes the crew: the lock keeps other
\* assignments out since it compared.
AssignKnows(r) == inflight[r].op = "assign" => inflight[r].crew # mission.crew

\* A planned sequence is free until it is written.
PlannedSequenceFree(r) ==
  /\ inflight[r].op = "addStop" => SequenceFree(inflight[r].sequence, {})
  /\ inflight[r].op = "updateStop" =>
       inflight[r].stop \in DOMAIN stops /\ SequenceFree(inflight[r].sequence, {inflight[r].stop})

\* A stop command is about an existing stop that has passed the stage the
\* command's time was compared with.
StopCommandKnows(r) ==
  /\ inflight[r].op \in {"arrive", "unload", "complete"} => inflight[r].stop \in DOMAIN stops
  /\ inflight[r].op = "unload" =>
       /\ stops[inflight[r].stop].status # "PENDING"
       /\ inflight[r].at >= stops[inflight[r].stop].arrival
  /\ inflight[r].op = "complete" =>
       /\ stops[inflight[r].stop].status \in {"UNLOADING", "COMPLETED"}
       /\ inflight[r].at >= stops[inflight[r].stop].unloading

\* The stops an arrival has counted as completed still are: only one planned
\* or moved ahead afterwards can invalidate the count.
ArrivalKnows(r) ==
  inflight[r].op = "arrive" =>
    \A t \in inflight[r].ahead : t \in DOMAIN stops /\ stops[t].status = "COMPLETED"

IntentSound(r) ==
  /\ TransitionKnows(r)
  /\ AssignKnows(r)
  /\ PlannedSequenceFree(r)
  /\ StopCommandKnows(r)
  /\ ArrivalKnows(r)

IntentsSound == \A r \in Requests : IntentSound(r)

IndInv ==
  /\ TypeOK
  /\ LocksExclusive
  /\ TimesMatchStatus
  /\ IntentsSound
  /\ CrewWhileUnderway
  /\ DepartureAfterLoading
  /\ StopTimesOrdered
  /\ SequencesUnique
  /\ AssignmentHistory
  /\ NotifiedOnce
  /\ DeliveredWithEvidence
  /\ timeline.new = mission.status

===============================================================================
