------------------------------ MODULE MasterData ------------------------------
(***************************************************************************)
(* The master data missions are planned with: clients with warehouses,     *)
(* branches and routes, carriers with vehicles and drivers.                *)
(*                                                                         *)
(* create, update and archive read and check in statements of their own    *)
(* before the transaction that writes, take no lock, and write by id.  An  *)
(* id stands for the unique code, plate, licence or tracking number, too.  *)
(***************************************************************************)
EXTENDS Transactions, Naturals, Sequences

CONSTANTS
  Clients, Carriers, Warehouses, Branches, Vehicles, Drivers,  \* ids
  Routes,            \* ids of routes
  RouteStops,        \* the sequences of branches a route may have
  Existing,          \* the rows there are at the start, with their owners
  Nobody,            \* the owner of clients and carriers
  Keep               \* left out of the input of an update

Masters == Clients \cup Carriers \cup Warehouses \cup Branches \cup Vehicles \cup Drivers

Owners == Clients \cup Carriers \cup {Nobody}

ASSUME NobodyAssumption == Nobody \notin Clients \cup Carriers
ASSUME ExistingAssumption == DOMAIN Existing \subseteq Masters /\ Existing \in [DOMAIN Existing -> Owners]
ASSUME RouteStopsAssumption == RouteStops \subseteq Seq(Branches)

VARIABLES
  masters,           \* the rows of the six tables
  routes             \* the rows of operational_routes with their stops

masterVars == <<masters, routes>>

Absent == [status |-> "ABSENT", owner |-> Nobody, archived |-> FALSE]

\* archived: archivedAt is not null.
MasterRow == [status : {"ACTIVE", "INACTIVE", "ARCHIVED"}, owner : Owners, archived : BOOLEAN]

NoRoute == [client |-> Nobody, stops |-> <<>>]

RouteRow == [client : Clients, stops : Seq(Branches)]

NewMaster(owner) == [status |-> "ACTIVE", owner |-> owner, archived |-> FALSE]

MasterInit ==
  /\ masters = [m \in Masters |-> IF m \in DOMAIN Existing THEN NewMaster(Existing[m]) ELSE Absent]
  /\ routes = [t \in Routes |-> NoRoute]

Active(m) == masters[m].status = "ACTIVE"

MasterIntent ==
  [op : {"create"}, locks : {{}}, id : Masters, owner : Owners]
  \cup [op : {"update"}, locks : {{}}, id : Masters, seen : MasterRow,
        status : {"ACTIVE", "INACTIVE", Keep}]
  \cup [op : {"archive"}, locks : {{}}, id : Masters]
  \cup [op : {"route"}, locks : {{}}, id : Routes, client : Clients, stops : Seq(Branches)]

-------------------------------------------------------------------------------
(* create.                                                                     *)

BeginCreate(r, m, owner) ==
  /\ masters[m] = Absent
  /\ Begin(r, [op |-> "create", locks |-> {}, id |-> m, owner |-> owner])
  /\ UNCHANGED masterVars

CreateClient(r) == \E c \in Clients : BeginCreate(r, c, Nobody)

CreateCarrier(r) == \E k \in Carriers : BeginCreate(r, k, Nobody)

CreateWarehouse(r) == \E w \in Warehouses, c \in Clients : Active(c) /\ BeginCreate(r, w, c)

CreateBranch(r) == \E b \in Branches, c \in Clients : Active(c) /\ BeginCreate(r, b, c)

CreateVehicle(r) == \E v \in Vehicles, k \in Carriers : Active(k) /\ BeginCreate(r, v, k)

CreateDriver(r) == \E d \in Drivers, k \in Carriers : Active(k) /\ BeginCreate(r, d, k)

\* The unique index lets only one of two creations through.
CommitCreate(r) ==
  LET i == inflight[r] IN
  /\ i.op = "create"
  /\ masters[i.id] = Absent
  /\ masters' = [masters EXCEPT ![i.id] = NewMaster(i.owner)]
  /\ End(r)
  /\ UNCHANGED routes

-------------------------------------------------------------------------------
(* update.                                                                     *)

UpdateAnyway(m) == masters[m] # Absent  \* mutant

Updatable(m) == masters[m] # Absent /\ masters[m].status # "ARCHIVED"

BeginUpdate(r, m) ==
  /\ Updatable(m)
  /\ \E status \in {"ACTIVE", "INACTIVE", Keep} :
       Begin(r, [op |-> "update", locks |-> {}, id |-> m, seen |-> masters[m],
                 status |-> status])
  /\ UNCHANGED masterVars

UpdateClient(r) == \E c \in Clients : BeginUpdate(r, c)

UpdateCarrier(r) == \E k \in Carriers : BeginUpdate(r, k)

UpdateWarehouse(r) == \E w \in Warehouses : BeginUpdate(r, w)

UpdateBranch(r) == \E b \in Branches : BeginUpdate(r, b)

UpdateVehicle(r) == \E v \in Vehicles : BeginUpdate(r, v)

UpdateDriver(r) == \E d \in Drivers : BeginUpdate(r, d)

\* By id alone: the row may have been archived since it was read.
CommitUpdate(r) ==
  LET i == inflight[r] IN
  /\ i.op = "update"
  /\ masters' = [masters EXCEPT ![i.id] =
                   [status |-> IF i.status = Keep THEN @.status ELSE i.status,
                    owner |-> @.owner, archived |-> @.archived]]
  /\ End(r)
  /\ UNCHANGED routes

-------------------------------------------------------------------------------
(* archive.  What is archived already is answered without a write.             *)

BeginArchive(r, m) ==
  /\ Updatable(m)
  /\ Begin(r, [op |-> "archive", locks |-> {}, id |-> m])
  /\ UNCHANGED masterVars

ArchiveClient(r) == \E c \in Clients : BeginArchive(r, c)

ArchiveCarrier(r) == \E k \in Carriers : BeginArchive(r, k)

ArchiveWarehouse(r) == \E w \in Warehouses : BeginArchive(r, w)

ArchiveBranch(r) == \E b \in Branches : BeginArchive(r, b)

ArchiveVehicle(r) == \E v \in Vehicles : BeginArchive(r, v)

ArchiveDriver(r) == \E d \in Drivers : BeginArchive(r, d)

CommitArchive(r) ==
  LET i == inflight[r] IN
  /\ i.op = "archive"
  /\ masters' = [masters EXCEPT ![i.id] =
                   [status |-> "ARCHIVED", owner |-> @.owner, archived |-> TRUE]]
  /\ End(r)
  /\ UNCHANGED routes

-------------------------------------------------------------------------------
(* Routes are created and never changed.                                       *)

ActiveBranch(b, client) == Active(b) /\ masters[b].owner = client

\* The stops are sorted by their sequences, which must be distinct.
CreateRoute(r) ==
  \E t \in Routes, client \in Clients, stops \in RouteStops :
    /\ routes[t] = NoRoute
    /\ Active(client)
    /\ \A n \in DOMAIN stops : ActiveBranch(stops[n], client)
    /\ Begin(r, [op |-> "route", locks |-> {}, id |-> t, client |-> client, stops |-> stops])
    /\ UNCHANGED masterVars

CommitRoute(r) ==
  LET i == inflight[r] IN
  /\ i.op = "route"
  /\ routes[i.id] = NoRoute
  /\ routes' = [routes EXCEPT ![i.id] = [client |-> i.client, stops |-> i.stops]]
  /\ End(r)
  /\ UNCHANGED masters

MasterStart(r) ==
  \/ CreateClient(r) \/ CreateCarrier(r) \/ CreateWarehouse(r)
  \/ CreateBranch(r) \/ CreateVehicle(r) \/ CreateDriver(r)
  \/ UpdateClient(r) \/ UpdateCarrier(r) \/ UpdateWarehouse(r)
  \/ UpdateBranch(r) \/ UpdateVehicle(r) \/ UpdateDriver(r)
  \/ ArchiveClient(r) \/ ArchiveCarrier(r) \/ ArchiveWarehouse(r)
  \/ ArchiveBranch(r) \/ ArchiveVehicle(r) \/ ArchiveDriver(r)
  \/ CreateRoute(r)

MasterCommit(r) == CommitCreate(r) \/ CommitUpdate(r) \/ CommitArchive(r) \/ CommitRoute(r)

-------------------------------------------------------------------------------
(* Properties.                                                                 *)

\* Every stop of a route is at a branch of the route's client, and what has
\* been archived once shows it, even if an update that overlapped the
\* archiving has brought it back.
RoutesAtOwnBranches ==
  /\ \A t \in Routes : \A n \in DOMAIN routes[t].stops :
       masters[routes[t].stops[n]].owner = routes[t].client
  /\ \A m \in Masters : masters[m].status = "ARCHIVED" => masters[m].archived

\* An archived row comes back only by an update that had read it before the
\* archiving; otherwise archiving is final.
RevivedByOverlapOnly ==
  [][\A m \in Masters : masters[m].status = "ARCHIVED" /\ masters'[m].status # "ARCHIVED" =>
       \E r \in Requests :
         /\ inflight[r].op = "update" /\ inflight[r].id = m
         /\ inflight[r].seen.status # "ARCHIVED"]_masterVars

===============================================================================
