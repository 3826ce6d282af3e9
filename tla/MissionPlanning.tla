---------------------------- MODULE MissionPlanning ----------------------------
(***************************************************************************)
(* Planning one mission: created, changed and given a crew and stops, each *)
(* checked against master data and contracts that change meanwhile, and    *)
(* its waybill, which anyone can verify with the token on it.              *)
(*                                                                         *)
(* Each operation has a lock of its own: a mission can be updated, given a *)
(* crew, given stops and its waybill issued at the same time.              *)
(***************************************************************************)
EXTENDS Contracts, MissionPolicy

CONSTANTS
  None,              \* null in a column
  Starts             \* the mission and the waybills there may be at the start

ASSUME NoneAssumption == None \notin Contracts \cup Routes \cup Carriers \cup Vehicles \cup Drivers

VARIABLES
  mission,           \* the row, or NoMission
  visits,            \* the branches of the mission's stops
  clientsHad,        \* history: the clients the mission has had
  crewsHad,          \* history: the crews the mission has had
  waybills,          \* the WAYBILL_ISSUED events, in order
  shared             \* there is a WAYBILL_SHARED event

planningVars == <<mission, visits, clientsHad, crewsHad, waybills, shared>>
vars == <<inflight, masterVars, contractVars, planningVars>>

NoCrew == <<None, None, None>>

Crews == (Carriers \X Vehicles \X Drivers) \cup {NoCrew}

\* loadingAt: scheduledLoadingAt, where EndOfTime + 1 stands for null.
Never == EndOfTime + 1

Plan ==
  [client : Clients, warehouse : Warehouses, contract : Contracts \cup {None},
   route : Routes \cup {None}, loadingAt : Times \cup {Never}]

MissionRow == [plan : Plan, crew : Crews, status : MissionStatus]

NoMission == [status |-> "ABSENT"]

\* What an update's input may leave out.
Change ==
  [client : Clients \cup {Keep}, warehouse : Warehouses \cup {Keep},
   contract : Contracts \cup {None, Keep}, route : Routes \cup {None, Keep},
   loadingAt : Times \cup {Keep}]

WaybillEvent == [token : BOOLEAN, crew : Crews]

UpdateLock == <<"MISSION_UPDATE">>
CrewLock == <<"MISSION_ASSIGNMENT">>
StopsLock == <<"MISSION_STOPS">>
WaybillLock == <<"WAYBILL">>

PlanningIntent ==
  [op : {"plan"}, locks : {{}}, plan : Plan]
  \cup [op : {"replan"}, locks : {{UpdateLock}}, change : Change]
  \cup [op : {"crew"}, locks : {{CrewLock}}, crew : Crews]
  \cup [op : {"stop"}, locks : {{StopsLock}}, branch : Branches]
  \cup [op : {"issue"}, locks : {{WaybillLock}}, event : WaybillEvent]
  \cup [op : {"share"}, locks : {{}}]

TypeOK ==
  /\ inflight \in [Requests -> {Waiting, Answered} \cup MasterIntent \cup ContractIntent
                                  \cup PlanningIntent]
  /\ masters \in [Masters -> MasterRow \cup {Absent}]
  /\ routes \in [Routes -> RouteRow \cup {NoRoute}]
  /\ now \in Times
  /\ contracts \in [Contracts -> ContractRow \cup {NoContractRow}]
  /\ contractLog \in [Contracts -> Seq(ContractChange)]
  /\ mission \in MissionRow \cup {NoMission}
  /\ visits \subseteq Branches
  /\ clientsHad \subseteq Clients
  /\ crewsHad \subseteq Crews
  /\ waybills \in Seq(WaybillEvent)
  /\ shared \in BOOLEAN

PlannedAtStart(plan) ==
  /\ plan.warehouse \in DOMAIN Existing /\ Existing[plan.warehouse] = plan.client
  /\ plan.route = None
  /\ plan.contract # None =>
       /\ plan.contract \in DOMAIN Signed
       /\ plan.client \in Signed[plan.contract].parties
       /\ plan.loadingAt # Never =>
            /\ Signed[plan.contract].from <= plan.loadingAt
            /\ plan.loadingAt < Signed[plan.contract].to

CrewAtStart(crew) ==
  crew # NoCrew =>
    \A n \in {2, 3} : crew[n] \in DOMAIN Existing /\ Existing[crew[n]] = crew[1]

\* A mission that is there already fits the master data and the contracts, and
\* names its crew on its waybills, of which the last one may have a token.
ASSUME StartsAssumption ==
  \A start \in Starts :
    /\ start.mission \in MissionRow \cup {NoMission}
    /\ start.waybills \in Seq(WaybillEvent)
    /\ start.mission = NoMission => start.waybills = <<>>
    /\ start.mission # NoMission =>
         PlannedAtStart(start.mission.plan) /\ CrewAtStart(start.mission.crew)
    /\ \A n \in DOMAIN start.waybills :
         /\ start.waybills[n].crew = start.mission.crew /\ start.mission.crew # NoCrew
         /\ n < Len(start.waybills) => ~start.waybills[n].token

\* And it has had its client and its crew only.
Init ==
  /\ TransactionsInit
  /\ MasterInit
  /\ ContractsInit
  /\ \E start \in Starts :
       /\ mission = start.mission
       /\ waybills = start.waybills
       /\ clientsHad = IF mission = NoMission THEN {} ELSE {mission.plan.client}
       /\ crewsHad = IF mission = NoMission THEN {} ELSE {mission.crew}
  /\ visits = {}
  /\ shared = FALSE

-------------------------------------------------------------------------------
(* The checks of create, update, assign and addStop.  The rows are read one    *)
(* after the other, with nothing between them that the answer depends on.      *)

RequireActiveClientWarehouse(warehouse, client) ==
  /\ Active(warehouse)
  /\ masters[warehouse].owner = client
  /\ Active(client)

EffectiveAt(loadingAt) == IF loadingAt = Never THEN now ELSE loadingAt

RequireActiveContract(contract, client, loadingAt) ==
  contract # None =>
    /\ contracts[contract].status = "ACTIVE"
    /\ contracts[contract].from <= EffectiveAt(loadingAt)
    /\ EffectiveAt(loadingAt) < contracts[contract].to
    /\ client \in contracts[contract].parties

\* A route is ACTIVE from its creation.
RequireActiveRoute(route, client) == route # None => routes[route].client = client

Plannable(plan) ==
  /\ RequireActiveClientWarehouse(plan.warehouse, plan.client)
  /\ RequireActiveContract(plan.contract, plan.client, plan.loadingAt)
  /\ RequireActiveRoute(plan.route, plan.client)

-------------------------------------------------------------------------------
(* create and update.                                                          *)

CreateMission(r) ==
  \E plan \in Plan :
    /\ mission = NoMission
    /\ Plannable(plan)
    /\ Begin(r, [op |-> "plan", locks |-> {}, plan |-> plan])
    /\ UNCHANGED <<masterVars, contractVars, planningVars>>

\* The number of the mission is unique.
CommitMission(r) ==
  LET i == inflight[r] IN
  /\ i.op = "plan"
  /\ mission = NoMission
  /\ mission' = [plan |-> i.plan, crew |-> NoCrew, status |-> "DRAFT"]
  /\ clientsHad' = {i.plan.client}
  /\ End(r)
  /\ UNCHANGED <<masterVars, contractVars, visits, crewsHad, waybills, shared>>

Given(new, old) == IF new = Keep THEN old ELSE new

Changed(plan, change) ==
  [client |-> Given(change.client, plan.client),
   warehouse |-> Given(change.warehouse, plan.warehouse),
   contract |-> Given(change.contract, plan.contract),
   route |-> Given(change.route, plan.route),
   loadingAt |-> Given(change.loadingAt, plan.loadingAt)]

\* What the input leaves out is checked as the mission has it.  The status of
\* the mission does not matter.
ReadMission(r) ==
  \E change \in Change :
    /\ mission # NoMission
    /\ Available(UpdateLock, r)
    /\ Plannable(Changed(mission.plan, change))
    /\ Begin(r, [op |-> "replan", locks |-> {UpdateLock}, change |-> change])
    /\ UNCHANGED <<masterVars, contractVars, planningVars>>

\* Only what the input has is written.
CommitReplan(r) ==
  LET i == inflight[r] IN
  /\ i.op = "replan"
  /\ mission' = [mission EXCEPT !.plan = Changed(@, i.change)]
  /\ clientsHad' = clientsHad \cup {mission'.plan.client}
  /\ End(r)
  /\ UNCHANGED <<masterVars, contractVars, visits, crewsHad, waybills, shared>>

-------------------------------------------------------------------------------
(* assign and addStop.                                                         *)

ActiveCrew(crew) ==
  /\ Active(crew[1])
  /\ Active(crew[2]) /\ masters[crew[2]].owner = crew[1]
  /\ Active(crew[3]) /\ masters[crew[3]].owner = crew[1]

ReadCrew(r) ==
  \E crew \in Crews \ {NoCrew} :
    /\ mission # NoMission
    /\ Available(CrewLock, r)
    /\ crew # mission.crew
    /\ ActiveCrew(crew)
    /\ Begin(r, [op |-> "crew", locks |-> {CrewLock}, crew |-> crew])
    /\ UNCHANGED <<masterVars, contractVars, planningVars>>

CommitCrew(r) ==
  LET i == inflight[r] IN
  /\ i.op = "crew"
  /\ mission' = [mission EXCEPT !.crew = i.crew]
  /\ crewsHad' = crewsHad \cup {i.crew}
  /\ End(r)
  /\ UNCHANGED <<masterVars, contractVars, visits, clientsHad, waybills, shared>>

\* The lock of the stops does not keep the client from changing.
ReadBranch(r) ==
  \E branch \in Branches :
    /\ mission # NoMission
    /\ Available(StopsLock, r)
    /\ ActiveBranch(branch, mission.plan.client)
    /\ Begin(r, [op |-> "stop", locks |-> {StopsLock}, branch |-> branch])
    /\ UNCHANGED <<masterVars, contractVars, planningVars>>

CommitStop(r) ==
  LET i == inflight[r] IN
  /\ i.op = "stop"
  /\ visits' = visits \cup {i.branch}
  /\ End(r)
  /\ UNCHANGED <<masterVars, contractVars, mission, clientsHad, crewsHad, waybills, shared>>

\* The status as far as planning sees it: one step, since the update is
\* conditional on the status read.
MoveOn(r) ==
  /\ mission # NoMission
  /\ inflight[r] = Waiting
  /\ \E target \in Transitions(mission.status) :
       /\ target \in Underway => mission.crew # NoCrew
       /\ mission' = [mission EXCEPT !.status = target]
  /\ End(r)
  /\ UNCHANGED <<masterVars, contractVars, visits, clientsHad, crewsHad, waybills, shared>>

-------------------------------------------------------------------------------
(* Waybills.                                                                   *)

\* A waybill with a token is answered as it is; one without is issued again,
\* as it was, with a token.
Issued ==
  IF waybills = <<>> THEN [token |-> TRUE, crew |-> mission.crew]
  ELSE [token |-> TRUE, crew |-> waybills[Len(waybills)].crew]

ReadWaybill(r) ==
  /\ mission # NoMission
  /\ Available(WaybillLock, r)
  /\ waybills = <<>> => mission.crew # NoCrew
  /\ waybills # <<>> => ~waybills[Len(waybills)].token
  /\ Begin(r, [op |-> "issue", locks |-> {WaybillLock}, event |-> Issued])
  /\ UNCHANGED <<masterVars, contractVars, planningVars>>

CommitIssue(r) ==
  LET i == inflight[r] IN
  /\ i.op = "issue"
  /\ waybills' = Append(waybills, i.event)
  /\ End(r)
  /\ UNCHANGED <<masterVars, contractVars, mission, visits, clientsHad, crewsHad, shared>>

ReadShared(r) ==
  /\ waybills # <<>>
  /\ Begin(r, [op |-> "share", locks |-> {}])
  /\ UNCHANGED <<masterVars, contractVars, planningVars>>

CommitShare(r) ==
  /\ inflight[r].op = "share"
  /\ shared' = TRUE
  /\ End(r)
  /\ UNCHANGED <<masterVars, contractVars, mission, visits, clientsHad, crewsHad, waybills>>

\* What verify answers to the token of the nth waybill event.
Verification(n) ==
  IF n < Len(waybills) THEN "SUPERSEDED"
  ELSE IF mission.status = "CANCELLED" THEN "CANCELLED"
  ELSE IF mission.status \in Delivered THEN "COMPLETED"
  ELSE "VALID"

PlanningStart(r) ==
  \/ CreateMission(r) \/ ReadMission(r) \/ ReadCrew(r) \/ ReadBranch(r) \/ MoveOn(r)
  \/ ReadWaybill(r) \/ ReadShared(r)

PlanningCommit(r) ==
  \/ CommitMission(r) \/ CommitReplan(r) \/ CommitCrew(r) \/ CommitStop(r)
  \/ CommitIssue(r) \/ CommitShare(r)

Start(r) ==
  \/ MasterStart(r) /\ UNCHANGED <<contractVars, planningVars>>
  \/ ContractStart(r) /\ UNCHANGED planningVars
  \/ PlanningStart(r)

GoOn(r) ==
  \/ MasterCommit(r) /\ UNCHANGED <<contractVars, planningVars>>
  \/ ContractGoOn(r) /\ UNCHANGED planningVars
  \/ PlanningCommit(r)
  \/ Rollback(r) /\ UNCHANGED <<masterVars, contractVars, planningVars>>

Next ==
  \/ \E r \in Requests :
       \/ inflight[r] = Waiting /\ Start(r)
       \/ GoOn(r)
  \/ Tick /\ UNCHANGED planningVars
  \/ Quiet /\ UNCHANGED vars

Spec == Init /\ [][Next]_vars

-------------------------------------------------------------------------------
(* Properties.                                                                 *)

\* Whatever partial updates are applied one after the other, warehouse, route
\* and contract belong to the mission's client, and the contract's period
\* covers the loading time.
PlanOf(client, plan) ==
  /\ masters[plan.warehouse].owner = client
  /\ plan.route # None => routes[plan.route].client = client
  /\ plan.contract # None =>
       /\ client \in contracts[plan.contract].parties
       /\ plan.loadingAt # Never =>
            /\ contracts[plan.contract].from <= plan.loadingAt
            /\ plan.loadingAt < contracts[plan.contract].to

\* The crew is of one carrier, and every stop, the route's included, is at a
\* branch of a client the mission has had - not always the present one: update
\* does not look at the stops.
PlannedConsistently ==
  /\ RoutesAtOwnBranches
  /\ mission # NoMission =>
       /\ PlanOf(mission.plan.client, mission.plan)
       /\ mission.crew # NoCrew =>
            /\ masters[mission.crew[2]].owner = mission.crew[1]
            /\ masters[mission.crew[3]].owner = mission.crew[1]
       /\ \A branch \in visits : masters[branch].owner \in clientsHad

\* However often and however concurrently a waybill is issued, there is one
\* token, of the last event, so that verify never answers SUPERSEDED; and it
\* names one crew, which the mission has had.
OneWaybill ==
  /\ \A n \in DOMAIN waybills :
       /\ waybills[n].token => Verification(n) # "SUPERSEDED"
       /\ waybills[n].crew = waybills[1].crew
       /\ waybills[n].crew \in crewsHad \ {NoCrew}
  /\ shared => waybills # <<>>

===============================================================================
