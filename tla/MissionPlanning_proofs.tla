------------------------- MODULE MissionPlanning_proofs -------------------------
(***************************************************************************)
(* Theorems about MissionPlanning, for any number of masters, routes,      *)
(* contracts and overlapping requests.                                     *)
(***************************************************************************)
EXTENDS MissionPlanning, FiniteSetTheorems, TLAPS

MasterOps == {"create", "update", "archive", "route"}
ContractOps == {"sign", "contract", "expire"}
PlanningOps == {"plan", "replan", "crew", "stop", "issue", "share"}

-------------------------------------------------------------------------------
(* Requests and their locks.                                                   *)

RequestsInv ==
  /\ inflight = [r \in Requests |-> inflight[r]]
  /\ LocksExclusive

\* What a request remembers holds the locks it had and ones that were free.
Takes(r, i) == Remember(r, i) /\ \A lock \in i.locks : lock \in inflight[r].locks \/ Available(lock, r)

LEMMA Remembered ==
  ASSUME RequestsInv, NEW r \in Requests, NEW i, Remember(r, i)
  PROVE  /\ inflight' = [q \in Requests |-> inflight'[q]]
         /\ inflight'[r] = i
         /\ \A q \in Requests : q # r => inflight'[q] = inflight[q]
BY DEF RequestsInv, Remember

LEMMA EndFacts ==
  ASSUME NEW r \in Requests, End(r)
  PROVE  Takes(r, Answered) /\ Answered.op = "answered" /\ Answered.locks = {}
BY DEF End, Takes, Answered

LEMMA TakesKeeps ==
  ASSUME RequestsInv, NEW r \in Requests, NEW i, Takes(r, i)
  PROVE  RequestsInv'
<1>1. /\ inflight' = [q \in Requests |-> inflight'[q]]
      /\ inflight'[r] = i
      /\ \A q \in Requests : q # r => inflight'[q] = inflight[q]
  BY Remembered DEF Takes
<1>2. ASSUME NEW q \in Requests, q # r, NEW lock, lock \in i.locks, lock \in inflight[q].locks
      PROVE  FALSE
  <2>1. lock \in inflight[r].locks \/ Available(lock, r)
    BY <1>2 DEF Takes
  <2> QED BY <1>2, <2>1 DEF Available, RequestsInv, LocksExclusive
<1>3. ASSUME NEW p \in Requests, NEW q \in Requests, p # q
      PROVE  inflight'[p].locks \cap inflight'[q].locks = {}
  <2>1. CASE p = r
    BY <1>1, <1>2, <1>3, <2>1
  <2>2. CASE q = r
    BY <1>1, <1>2, <1>3, <2>2
  <2>3. CASE p # r /\ q # r
    BY <1>1, <1>3, <2>3 DEF RequestsInv, LocksExclusive
  <2> QED BY <2>1, <2>2, <2>3
<1> QED
  BY <1>1, <1>3 DEF RequestsInv, LocksExclusive

-------------------------------------------------------------------------------
(* Master data and routes.                                                     *)

\* A row that is there, with its owner.
Owned(m, owner) == m \in Masters /\ masters[m] # Absent /\ masters[m].owner = owner

StopsOwned(stops, client) == \A n \in DOMAIN stops : Owned(stops[n], client)

\* An update has read a row that is there and was not archived, a new route has its stops at
\* branches of its client.
MasterSound(i) ==
  /\ i.op = "update" =>
       /\ i.id \in Masters /\ masters[i.id] # Absent
       /\ i.seen.status # "ARCHIVED" /\ i.status \in {"ACTIVE", "INACTIVE", Keep}
  /\ i.op = "route" => i.client \in Clients /\ StopsOwned(i.stops, i.client)

MastersTyped ==
  /\ masters = [m \in Masters |-> masters[m]]
  /\ routes = [t \in Routes |-> routes[t]]
  /\ \A m \in Masters : masters[m] = Absent \/ masters[m].status # "ABSENT"

ArchivedShows == \A m \in Masters : masters[m].status = "ARCHIVED" => masters[m].archived

RoutesOwned ==
  \A t \in Routes : routes[t] = NoRoute \/ StopsOwned(routes[t].stops, routes[t].client)

MasterInv ==
  /\ MastersTyped
  /\ ArchivedShows
  /\ RoutesOwned
  /\ \A r \in Requests : MasterSound(inflight[r])

\* No row goes away or changes its owner, no route changes.
MastersStand ==
  /\ \A m \in Masters : masters[m] # Absent => masters'[m] # Absent /\ masters'[m].owner = masters[m].owner
  /\ \A t \in Routes : routes[t] # NoRoute => routes'[t] = routes[t]

LEMMA OwnedStands ==
  ASSUME MastersStand, NEW m, NEW owner, Owned(m, owner)
  PROVE  Owned(m, owner)'
BY DEF MastersStand, Owned

LEMMA StopsStand ==
  ASSUME MastersStand, NEW stops, NEW client, StopsOwned(stops, client)
  PROVE  StopsOwned(stops, client)'
<1>1. ASSUME NEW n \in DOMAIN stops PROVE Owned(stops[n], client)'
  BY OwnedStands DEF StopsOwned
<1> QED
  BY <1>1 DEF StopsOwned

LEMMA MasterStartFacts ==
  ASSUME NEW r \in Requests, MasterStart(r)
  PROVE  \E i : Takes(r, i) /\ i.op \in MasterOps /\ MasterSound(i) /\ UNCHANGED masterVars
<1>1. ASSUME NEW m, NEW owner, BeginCreate(r, m, owner)
      PROVE  \E i : Takes(r, i) /\ i.op \in MasterOps /\ MasterSound(i) /\ UNCHANGED masterVars
  <2> PICK i : i = [op |-> "create", locks |-> {}, id |-> m, owner |-> owner]
    OBVIOUS
  <2>1. Takes(r, i) /\ i.op \in MasterOps /\ MasterSound(i) /\ UNCHANGED masterVars
    BY <1>1 DEF BeginCreate, Begin, Takes, MasterOps, MasterSound
  <2> QED BY <2>1
<1>2. ASSUME NEW m \in Masters, BeginUpdate(r, m)
      PROVE  \E i : Takes(r, i) /\ i.op \in MasterOps /\ MasterSound(i) /\ UNCHANGED masterVars
  <2> PICK status \in {"ACTIVE", "INACTIVE", Keep} :
        Begin(r, [op |-> "update", locks |-> {}, id |-> m, seen |-> masters[m], status |-> status])
    BY <1>2 DEF BeginUpdate
  <2> PICK i : i = [op |-> "update", locks |-> {}, id |-> m, seen |-> masters[m], status |-> status]
    OBVIOUS
  <2>1. Takes(r, i) /\ i.op \in MasterOps /\ MasterSound(i) /\ UNCHANGED masterVars
    BY <1>2 DEF BeginUpdate, Updatable, Begin, Takes, MasterOps, MasterSound
  <2> QED BY <2>1
<1>3. ASSUME NEW m, BeginArchive(r, m)
      PROVE  \E i : Takes(r, i) /\ i.op \in MasterOps /\ MasterSound(i) /\ UNCHANGED masterVars
  <2> PICK i : i = [op |-> "archive", locks |-> {}, id |-> m]
    OBVIOUS
  <2>1. Takes(r, i) /\ i.op \in MasterOps /\ MasterSound(i) /\ UNCHANGED masterVars
    BY <1>3 DEF BeginArchive, Begin, Takes, MasterOps, MasterSound
  <2> QED BY <2>1
<1>4. CASE CreateRoute(r)
  <2>1. PICK t, client, stops, i :
          /\ client \in Clients /\ stops \in RouteStops
          /\ \A n \in DOMAIN stops : ActiveBranch(stops[n], client)
          /\ i = [op |-> "route", locks |-> {}, id |-> t, client |-> client, stops |-> stops]
          /\ Remember(r, i)
          /\ UNCHANGED masterVars
    BY <1>4 DEF CreateRoute, Begin
  <2>2. /\ i.op = "route" /\ i.locks = {} /\ i.client = client /\ i.stops = stops
    BY <2>1
  <2>3. StopsOwned(stops, client)
    <3> SUFFICES ASSUME NEW n \in DOMAIN stops PROVE Owned(stops[n], client)
      BY DEF StopsOwned
    <3>1. masters[stops[n]].status = "ACTIVE" /\ masters[stops[n]].owner = client
      BY <2>1 DEF ActiveBranch, Active
    <3>2. Absent.status = "ABSENT"
      BY DEF Absent
    <3>3. stops[n] \in Masters
      BY <2>1, RouteStopsAssumption DEF Masters
    <3> QED BY <3>1, <3>2, <3>3 DEF Owned
  <2> QED BY <2>1, <2>2, <2>3 DEF Takes, MasterOps, MasterSound
<1>5. CASE \/ CreateClient(r) \/ CreateCarrier(r) \/ CreateWarehouse(r)
           \/ CreateBranch(r) \/ CreateVehicle(r) \/ CreateDriver(r)
  <2> PICK m, owner : BeginCreate(r, m, owner)
    BY <1>5 DEF CreateClient, CreateCarrier, CreateWarehouse, CreateBranch, CreateVehicle, CreateDriver
  <2> QED BY <1>1
<1>6. CASE \/ UpdateClient(r) \/ UpdateCarrier(r) \/ UpdateWarehouse(r)
           \/ UpdateBranch(r) \/ UpdateVehicle(r) \/ UpdateDriver(r)
  <2> PICK m \in Masters : BeginUpdate(r, m)
    BY <1>6 DEF Masters, UpdateClient, UpdateCarrier, UpdateWarehouse, UpdateBranch, UpdateVehicle, UpdateDriver
  <2> QED BY <1>2
<1>7. CASE \/ ArchiveClient(r) \/ ArchiveCarrier(r) \/ ArchiveWarehouse(r)
           \/ ArchiveBranch(r) \/ ArchiveVehicle(r) \/ ArchiveDriver(r)
  <2> PICK m : BeginArchive(r, m)
    BY <1>7 DEF ArchiveClient, ArchiveCarrier, ArchiveWarehouse, ArchiveBranch, ArchiveVehicle, ArchiveDriver
  <2> QED BY <1>3
<1> QED
  BY <1>4, <1>5, <1>6, <1>7 DEF MasterStart

\* A request about something else, or one that ends.
LEMMA MasterUntouched ==
  ASSUME RequestsInv, MasterInv, NEW r \in Requests, NEW i, Remember(r, i), MasterSound(i),
         UNCHANGED masterVars
  PROVE  MasterInv' /\ MastersStand
<1>1. MastersStand
  BY DEF masterVars, MastersStand
<1>2. ASSUME NEW j, MasterSound(j) PROVE MasterSound(j)'
  BY <1>1, <1>2, StopsStand DEF MasterSound, MastersStand
<1>3. ASSUME NEW q \in Requests PROVE MasterSound(inflight[q])'
  <2> PICK j : j = inflight'[q]
    OBVIOUS
  <2>1. MasterSound(j)
    BY Remembered DEF MasterInv
  <2>2. MasterSound(j)'
    BY <1>2, <2>1
  <2> QED BY <2>2 DEF MasterSound
<1>4. MastersTyped' /\ ArchivedShows' /\ RoutesOwned'
  BY DEF MasterInv, masterVars, MastersTyped, ArchivedShows, RoutesOwned, StopsOwned, Owned
<1> QED
  BY <1>1, <1>3, <1>4 DEF MasterInv

\* One row is written, by a request that ends.
LEMMA MasterWritten ==
  ASSUME RequestsInv, MasterInv, NEW r \in Requests, End(r), NEW m, NEW row,
         masters' = [masters EXCEPT ![m] = row], routes' = routes,
         row.status # "ABSENT", row.status = "ARCHIVED" => row.archived,
         m \in Masters /\ masters[m] # Absent => row.owner = masters[m].owner
  PROVE  MasterInv' /\ MastersStand
<1>1. /\ masters' = [k \in Masters |-> masters'[k]]
      /\ m \in Masters => masters'[m] = row
      /\ \A k \in Masters : k # m => masters'[k] = masters[k]
  BY DEF MasterInv, MastersTyped
<1>2. row # Absent
  BY DEF Absent
<1>3. MastersStand
  BY <1>1, <1>2 DEF MastersStand
<1>4. MastersTyped'
  BY <1>1 DEF MasterInv, MastersTyped
<1>5. ArchivedShows'
  BY <1>1 DEF MasterInv, ArchivedShows
<1>6. RoutesOwned'
  <2> SUFFICES ASSUME NEW t \in Routes, routes[t] # NoRoute
               PROVE  StopsOwned(routes[t].stops, routes[t].client)'
    BY DEF RoutesOwned
  <2> PICK route : route = routes[t]
    OBVIOUS
  <2>1. StopsOwned(route.stops, route.client)
    BY DEF MasterInv, RoutesOwned
  <2>2. StopsOwned(route.stops, route.client)'
    BY <1>3, <2>1, StopsStand
  <2> QED BY <2>2 DEF StopsOwned
<1>7. ASSUME NEW q \in Requests PROVE MasterSound(inflight[q])'
  <2>1. CASE q = r
    <3>1. inflight'[r] = Answered /\ Answered.op = "answered"
      BY Remembered, EndFacts DEF Takes
    <3> QED BY <2>1, <3>1 DEF MasterSound
  <2>2. CASE q # r
    <3> PICK j : j = inflight[q]
      OBVIOUS
    <3>1. MasterSound(j) /\ inflight'[q] = j
      BY <2>2, Remembered DEF End, MasterInv
    <3>2. j.op = "route" => StopsOwned(j.stops, j.client)'
      BY <1>3, <3>1, StopsStand DEF MasterSound
    <3>3. j.op = "update" => masters'[j.id] # Absent
      BY <1>3, <3>1 DEF MasterSound, MastersStand
    <3> QED BY <3>1, <3>2, <3>3 DEF MasterSound, StopsOwned
  <2> QED BY <2>1, <2>2
<1> QED
  BY <1>3, <1>4, <1>5, <1>6, <1>7 DEF MasterInv

LEMMA MasterCommitFacts ==
  ASSUME RequestsInv, MasterInv, NEW r \in Requests, MasterCommit(r)
  PROVE  MasterInv' /\ MastersStand /\ End(r)
<1> PICK i : i = inflight[r]
  OBVIOUS
<1>0. MasterSound(i)
  BY DEF MasterInv
<1>1. CASE CommitCreate(r)
  <2> PICK row : row = NewMaster(i.owner)
    OBVIOUS
  <2>1. /\ masters[i.id] = Absent /\ masters' = [masters EXCEPT ![i.id] = row]
        /\ End(r) /\ routes' = routes
    BY <1>1 DEF CommitCreate
  <2>2. row.status = "ACTIVE"
    BY DEF NewMaster
  <2> QED BY <2>1, <2>2, MasterWritten
<1>2. CASE CommitUpdate(r)
  <2> PICK old : old = masters[i.id]
    OBVIOUS
  <2> PICK row : row = [status |-> IF i.status = Keep THEN old.status ELSE i.status,
                        owner |-> old.owner, archived |-> old.archived]
    OBVIOUS
  <2>1. /\ masters' = [masters EXCEPT ![i.id] = row] /\ End(r) /\ routes' = routes
        /\ i.op = "update"
    BY <1>2 DEF CommitUpdate
  <2>2. /\ row.owner = old.owner
        /\ i.status = Keep => row.status = old.status
        /\ i.status # Keep => row.status \in {"ACTIVE", "INACTIVE"}
    BY <1>0, <2>1 DEF MasterSound
  <2>3. i.id \in Masters /\ masters[i.id] # Absent
    BY <1>0, <2>1 DEF MasterSound
  <2>4. old.status # "ABSENT"
    BY <2>3 DEF MasterInv, MastersTyped
  <2>5. row.status = "ARCHIVED" => row.archived
    BY <2>2, <2>3 DEF MasterInv, ArchivedShows
  <2>6. row.status # "ABSENT" /\ row.owner = masters[i.id].owner
    BY <2>2, <2>4
  <2> QED BY <2>1, <2>5, <2>6, MasterWritten
<1>3. CASE CommitArchive(r)
  <2> PICK old : old = masters[i.id]
    OBVIOUS
  <2> PICK row : row = [status |-> "ARCHIVED", owner |-> old.owner, archived |-> TRUE]
    OBVIOUS
  <2>1. /\ masters' = [masters EXCEPT ![i.id] = row] /\ End(r) /\ routes' = routes
    BY <1>3 DEF CommitArchive
  <2>2. row.owner = old.owner /\ row.status = "ARCHIVED" /\ row.archived
    OBVIOUS
  <2> QED BY <2>1, <2>2, MasterWritten
<1>4. CASE CommitRoute(r)
  <2> PICK route : route = [client |-> i.client, stops |-> i.stops]
    OBVIOUS
  <2>1. /\ routes[i.id] = NoRoute /\ routes' = [routes EXCEPT ![i.id] = route]
        /\ End(r) /\ masters' = masters /\ i.op = "route"
    BY <1>4 DEF CommitRoute
  <2>2. /\ routes' = [t \in Routes |-> routes'[t]]
        /\ \A t \in Routes : routes'[t] = IF t = i.id THEN route ELSE routes[t]
    BY <2>1 DEF MasterInv, MastersTyped
  <2>3. MastersStand
    BY <2>1, <2>2 DEF MastersStand
  <2>4. StopsOwned(route.stops, route.client)
    BY <1>0, <2>1 DEF MasterSound
  <2>5. RoutesOwned'
    <3>1. ASSUME NEW t \in Routes, routes'[t] # NoRoute
          PROVE  StopsOwned(routes'[t].stops, routes'[t].client)
      BY <2>2, <2>4, <3>1 DEF MasterInv, RoutesOwned
    <3> QED BY <2>1, <3>1 DEF RoutesOwned, StopsOwned, Owned
  <2>6. ASSUME NEW q \in Requests PROVE MasterSound(inflight[q])'
    <3> PICK j : j = inflight'[q]
      OBVIOUS
    <3>1. MasterSound(Answered)
      BY DEF MasterSound, Answered
    <3>2. MasterSound(j)
      BY <2>1, <3>1, Remembered DEF MasterInv, End
    <3> QED BY <2>1, <3>2 DEF MasterSound, StopsOwned, Owned
  <2>7. MastersTyped' /\ ArchivedShows'
    BY <2>1, <2>2 DEF MasterInv, MastersTyped, ArchivedShows
  <2> QED BY <2>1, <2>3, <2>5, <2>6, <2>7 DEF MasterInv
<1> QED
  BY <1>1, <1>2, <1>3, <1>4 DEF MasterCommit, End

-------------------------------------------------------------------------------
(* Contracts.                                                                  *)

DueEntry == [id : Contracts, status : {"ACTIVE", "SUSPENDED"}]

Signable(c) == c \in Contracts /\ contracts[c] = NoContractRow

Standing(c) == c \in Contracts /\ contracts[c] # NoContractRow

\* An expiry holds the locks of contracts that all come before what it still has
\* to lock, and what it is going to expire has the status it was listed with.
ExpirySound(i) ==
  /\ i.due \in Seq(DueEntry)
  /\ i.expired \subseteq DueEntry
  /\ \A e \in i.expired : ContractLock(e.id) \in i.locks /\ contracts[e.id].status = e.status
  /\ \A n \in DOMAIN i.due : Standing(i.due[n].id)
  /\ \A m, n \in DOMAIN i.due : m < n => Sooner(i.due[m].id, i.due[n].id)
  /\ \A c \in Contracts : ContractLock(c) \in i.locks =>
       Standing(c) /\ \A n \in DOMAIN i.due : Sooner(c, i.due[n].id)

ContractSound(i) ==
  /\ i.op = "sign" => i.row \in ContractRow
  /\ i.op = "contract" =>
       /\ Standing(i.id) /\ ContractLock(i.id) \in i.locks
       /\ i.seen \in ContractStatus /\ i.target \in Moves[i.seen]
  /\ i.op = "expire" => ExpirySound(i)

\* The changes of a contract follow each other up to its status.
Chain(log, status) ==
  /\ \A n \in DOMAIN log : Follows(log[n]) /\ (n > 1 => log[n].old = log[n - 1].new)
  /\ log # <<>> => status = log[Len(log)].new

ContractsTyped ==
  /\ contracts \in [Contracts -> ContractRow \cup {NoContractRow}]
  /\ contractLog \in [Contracts -> Seq(ContractChange)]
  /\ \A c \in Contracts : contracts[c] = NoContractRow => contractLog[c] = <<>>

ContractInv ==
  /\ ContractsTyped
  /\ \A c \in Contracts : Chain(contractLog[c], contracts[c].status)
  /\ \A r \in Requests : ContractSound(inflight[r])

\* A contract that is there keeps its parties and its period.
ContractsStand ==
  \A c \in Contracts : contracts[c] # NoContractRow =>
    /\ contracts'[c] # NoContractRow
    /\ contracts'[c].parties = contracts[c].parties
    /\ contracts'[c].from = contracts[c].from
    /\ contracts'[c].to = contracts[c].to

LEMMA MovesFacts ==
  ASSUME NEW status \in ContractStatus, NEW target \in Moves[status]
  PROVE  target \in ContractStatus
BY DEF Moves, ContractStatus

LEMMA StandingRow ==
  ASSUME ContractsTyped, NEW c, Standing(c)
  PROVE  c \in Contracts /\ contracts[c] \in ContractRow
BY DEF ContractsTyped, Standing

LEMMA SoonerStands ==
  ASSUME ContractsStand, NEW c, NEW d, Standing(c), Standing(d), Sooner(c, d)
  PROVE  Sooner(c, d)'
<1>1. contracts'[c].to = contracts[c].to /\ contracts'[d].to = contracts[d].to
  BY DEF ContractsStand, Standing
<1> QED
  BY <1>1 DEF Sooner

LEMMA StandingStands ==
  ASSUME ContractsStand, NEW c, Standing(c)
  PROVE  Standing(c)'
BY DEF ContractsStand, Standing

\* What a request knows stays true while the contracts it holds the locks of
\* keep their status.
LEMMA ContractSoundStands ==
  ASSUME ContractsStand, NEW i, ContractSound(i),
         i.op = "expire" =>
           \A c \in Contracts : ContractLock(c) \in i.locks => contracts'[c].status = contracts[c].status
  PROVE  ContractSound(i)'
<1>1. ASSUME i.op = "contract" PROVE Standing(i.id)'
  BY <1>1, StandingStands DEF ContractSound
<1>2. ASSUME i.op = "expire" PROVE ExpirySound(i)'
  <2>0. ExpirySound(i)
    BY <1>2 DEF ContractSound
  <2>1. ASSUME NEW e \in i.expired
        PROVE  ContractLock(e.id) \in i.locks /\ contracts'[e.id].status = e.status
    <3>1. e.id \in Contracts
      BY <2>0 DEF ExpirySound, DueEntry
    <3> QED BY <1>2, <2>0, <3>1 DEF ExpirySound
  <2>2. ASSUME NEW n \in DOMAIN i.due PROVE Standing(i.due[n].id)'
    BY <2>0, StandingStands DEF ExpirySound
  <2>3. ASSUME NEW m \in DOMAIN i.due, NEW n \in DOMAIN i.due, m < n
        PROVE  Sooner(i.due[m].id, i.due[n].id)'
    BY <2>0, <2>3, SoonerStands DEF ExpirySound
  <2>4. ASSUME NEW c \in Contracts, ContractLock(c) \in i.locks
        PROVE  Standing(c)' /\ \A n \in DOMAIN i.due : Sooner(c, i.due[n].id)'
    <3>1. Standing(c) /\ \A n \in DOMAIN i.due : Standing(i.due[n].id) /\ Sooner(c, i.due[n].id)
      BY <2>0, <2>4 DEF ExpirySound
    <3> QED BY <3>1, StandingStands, SoonerStands
  <2> QED BY <2>0, <2>1, <2>2, <2>3, <2>4 DEF ExpirySound
<1> QED
  BY <1>1, <1>2 DEF ContractSound

\* A log that grows by a change from the present status.
LEMMA ChainGrows ==
  ASSUME NEW log \in Seq(ContractChange), NEW status, Chain(log, status),
         NEW change \in ContractChange, Follows(change), change.old = status
  PROVE  /\ Append(log, change) \in Seq(ContractChange)
         /\ Chain(Append(log, change), change.new)
<1> PICK longer : longer = Append(log, change)
  OBVIOUS
<1>1. /\ Len(log) \in Nat /\ DOMAIN log = 1..Len(log) /\ longer \in Seq(ContractChange)
      /\ Len(longer) = Len(log) + 1 /\ DOMAIN longer = 1..(Len(log) + 1)
      /\ \A n \in DOMAIN log : longer[n] = log[n]
      /\ longer[Len(log) + 1] = change
  OBVIOUS
<1>2. ASSUME NEW n \in DOMAIN longer
      PROVE  Follows(longer[n]) /\ (n > 1 => longer[n].old = longer[n - 1].new)
  <2>1. CASE n \in DOMAIN log
    <3>1. n > 1 => n - 1 \in DOMAIN log
      BY <1>1, <2>1
    <3> QED BY <1>1, <2>1, <3>1 DEF Chain
  <2>2. CASE n = Len(log) + 1
    <3>1. n > 1 => log # <<>> /\ n - 1 = Len(log) /\ Len(log) \in DOMAIN log
      BY <1>1, <2>2
    <3> QED BY <1>1, <2>2, <3>1 DEF Chain
  <2> QED BY <1>1, <2>1, <2>2
<1> QED
  BY <1>1, <1>2 DEF Chain

LEMMA ContractsFinite == IsFiniteSet(Contracts)
<1>1. IsFiniteSet(1..Len(ContractOrder))
  BY OrderAssumption, FS_Interval
<1>2. ContractOrder \in Surjection(1..Len(ContractOrder), Contracts)
  BY OrderAssumption DEF Surjection
<1> QED
  BY <1>1, <1>2, FS_Surjection

\* The first of what is due, each one sooner than the next ones.
LEMMA BatchFacts ==
  ASSUME ContractsTyped, NEW at, NEW list \in Batches(at)
  PROVE  \E size \in Nat :
           /\ list \in [1..size -> Contracts]
           /\ \A n \in 1..size : contracts[list[n]].status \in {"ACTIVE", "SUSPENDED"}
           /\ \A m, n \in 1..size : m < n => Sooner(list[m], list[n])
<1>1. Due(at) \in SUBSET Contracts
  BY DEF Due
<1>2. Cardinality(Due(at)) \in Nat
  BY <1>1, ContractsFinite, FS_Subset, FS_CardinalityType
<1> PICK size : size = IF Cardinality(Due(at)) < Limit THEN Cardinality(Due(at)) ELSE Limit
  OBVIOUS
<1>3. size \in Nat
  BY <1>2, LimitAssumption
<1>4. list \in [1..size -> Due(at)] /\ Ordered(list)
  BY DEF Batches
<1>5. \A m, n \in 1..size : m < n => Sooner(list[m], list[n])
  BY <1>4 DEF Ordered
<1>6. \A n \in 1..size : contracts[list[n]].status \in {"ACTIVE", "SUSPENDED"}
  BY <1>4 DEF Due
<1> QED
  BY <1>1, <1>3, <1>4, <1>5, <1>6

LEMMA ContractStartFacts ==
  ASSUME ContractInv, NEW r \in Requests, ContractStart(r)
  PROVE  \E i : /\ Takes(r, i) /\ i.op \in ContractOps /\ ContractSound(i)
                /\ UNCHANGED <<contractVars, masterVars>>
<1>1. CASE SignContract(r)
  <2>1. PICK c, parties, from, to, i :
          /\ c \in Contracts /\ parties \in PartySets /\ from \in Times /\ to \in Times
          /\ i = [op |-> "sign", locks |-> {}, id |-> c,
                  row |-> [status |-> "DRAFT", parties |-> parties, from |-> from, to |-> to]]
          /\ Remember(r, i)
          /\ UNCHANGED <<contractVars, masterVars>>
    BY <1>1 DEF SignContract, Begin
  <2>2. /\ i.op = "sign" /\ i.locks = {}
        /\ i.row = [status |-> "DRAFT", parties |-> parties, from |-> from, to |-> to]
    BY <2>1
  <2>3. i.row \in ContractRow
    BY <2>1, <2>2 DEF ContractRow, ContractStatus
  <2> QED BY <2>1, <2>2, <2>3 DEF Takes, ContractOps, ContractSound
<1>2. CASE ReadContract(r)
  <2>1. PICK c, target, i :
          /\ c \in Contracts /\ contracts[c] # NoContractRow
          /\ Available(ContractLock(c), r)
          /\ target \in Moves[contracts[c].status]
          /\ i = [op |-> "contract", locks |-> {ContractLock(c)}, id |-> c,
                  seen |-> contracts[c].status, target |-> target]
          /\ Remember(r, i)
          /\ UNCHANGED <<contractVars, masterVars>>
    BY <1>2 DEF ReadContract, Begin
  <2>2. /\ i.op = "contract" /\ i.locks = {ContractLock(c)} /\ i.id = c
        /\ i.seen = contracts[c].status /\ i.target = target
    BY <2>1
  <2>3. Standing(c) /\ contracts[c].status \in ContractStatus
    BY <2>1 DEF Standing, ContractInv, ContractsTyped, ContractRow
  <2> QED BY <2>1, <2>2, <2>3 DEF Takes, ContractOps, ContractSound
<1>3. CASE ListDueContracts(r)
  <2>1. PICK at, list, i :
          /\ list \in Batches(at)
          /\ i = [op |-> "expire", locks |-> {}, at |-> at, expired |-> {},
                  due |-> [n \in DOMAIN list |->
                             [id |-> list[n], status |-> contracts[list[n]].status]]]
          /\ Remember(r, i)
          /\ UNCHANGED <<contractVars, masterVars>>
    BY <1>3 DEF ListDueContracts, Begin
  <2>2. PICK size \in Nat :
           /\ list \in [1..size -> Contracts]
           /\ \A n \in 1..size : contracts[list[n]].status \in {"ACTIVE", "SUSPENDED"}
           /\ \A m, n \in 1..size : m < n => Sooner(list[m], list[n])
    BY <2>1, BatchFacts DEF ContractInv
  <2>3. /\ i.op = "expire" /\ i.locks = {} /\ i.expired = {}
        /\ i.due = [n \in 1..size |-> [id |-> list[n], status |-> contracts[list[n]].status]]
    BY <2>1, <2>2
  <2>4. i.due \in Seq(DueEntry) /\ DOMAIN i.due = 1..size
    BY <2>2, <2>3 DEF DueEntry
  <2>5. ASSUME NEW n \in 1..size PROVE i.due[n].id = list[n] /\ Standing(list[n])
    BY <2>2, <2>3 DEF Standing, NoContractRow
  <2>6. ExpirySound(i)
    BY <2>2, <2>3, <2>4, <2>5 DEF ExpirySound
  <2> QED BY <2>1, <2>3, <2>6 DEF Takes, ContractOps, ContractSound
<1> QED
  BY <1>1, <1>2, <1>3 DEF ContractStart

\* A request that begins, goes on or ends without a change of the contracts.
LEMMA ContractUntouched ==
  ASSUME RequestsInv, ContractInv, NEW r \in Requests, NEW i, Remember(r, i), ContractSound(i),
         UNCHANGED <<contracts, contractLog>>
  PROVE  ContractInv' /\ ContractsStand
<1>1. ContractsStand
  BY DEF ContractsStand
<1>2. ASSUME NEW q \in Requests PROVE ContractSound(inflight[q])'
  <2> PICK j : j = inflight'[q]
    OBVIOUS
  <2>1. ContractSound(j)
    BY Remembered DEF ContractInv
  <2>2. ContractSound(j)'
    BY <1>1, <2>1, ContractSoundStands
  <2> QED BY <2>2 DEF ContractSound, ExpirySound
<1>3. ContractsTyped' /\ \A c \in Contracts : Chain(contractLog[c], contracts[c].status)'
  BY DEF ContractInv, ContractsTyped, Chain
<1> QED
  BY <1>1, <1>2, <1>3 DEF ContractInv

LEMMA ExpireNextFacts ==
  ASSUME ContractInv, NEW r \in Requests, ExpireNext(r)
  PROVE  \E i : /\ Takes(r, i) /\ i.op = "expire" /\ ContractSound(i)
                /\ UNCHANGED <<contractVars, masterVars>>
<1> PICK old : old = inflight[r]
  OBVIOUS
<1> PICK next : next = Head(old.due)
  OBVIOUS
<1> PICK new : new = IF StillDue(next, old.at) THEN {next} ELSE {}
  OBVIOUS
<1> PICK i : i = [op |-> "expire", at |-> old.at, due |-> Tail(old.due),
                  locks |-> old.locks \cup {ContractLock(next.id)}, expired |-> old.expired \cup new]
  OBVIOUS
<1>1. /\ old.op = "expire" /\ old.due # <<>>
      /\ Available(ContractLock(next.id), r) /\ Remember(r, i)
      /\ UNCHANGED <<contractVars, masterVars>>
  BY DEF ExpireNext
<1>2. /\ i.op = "expire" /\ i.due = Tail(old.due)
      /\ i.locks = old.locks \cup {ContractLock(next.id)} /\ i.expired = old.expired \cup new
  OBVIOUS
<1>3. ExpirySound(old)
  BY <1>1 DEF ContractInv, ContractSound
<1>4. Takes(r, i)
  BY <1>1, <1>2 DEF Takes
<1>5. /\ Len(old.due) \in Nat \ {0} /\ DOMAIN old.due = 1..Len(old.due)
      /\ i.due \in Seq(DueEntry) /\ DOMAIN i.due = 1..(Len(old.due) - 1)
      /\ \A n \in DOMAIN i.due : i.due[n] = old.due[n + 1]
      /\ next = old.due[1] /\ next \in DueEntry
  <2>1. old.due \in Seq(DueEntry)
    BY <1>3 DEF ExpirySound
  <2> QED BY <1>1, <1>2, <2>1
<1>6. ASSUME NEW e \in i.expired
      PROVE  e \in DueEntry /\ ContractLock(e.id) \in i.locks /\ contracts[e.id].status = e.status
  <2>1. CASE e \in old.expired
    BY <1>2, <1>3, <2>1 DEF ExpirySound
  <2>2. CASE e \in new
    BY <1>2, <1>5, <2>2 DEF StillDue
  <2> QED BY <1>2, <1>6, <2>1, <2>2
<1>7. ASSUME NEW n \in DOMAIN i.due
      PROVE  /\ Standing(i.due[n].id) /\ Sooner(next.id, i.due[n].id)
             /\ n + 1 \in DOMAIN old.due
  BY <1>3, <1>5 DEF ExpirySound
<1>8. ASSUME NEW m \in DOMAIN i.due, NEW n \in DOMAIN i.due, m < n
      PROVE  Sooner(i.due[m].id, i.due[n].id)
  <2>1. m + 1 \in DOMAIN old.due /\ n + 1 \in DOMAIN old.due /\ m + 1 < n + 1
    BY <1>5, <1>7, <1>8
  <2> QED BY <1>3, <1>5, <2>1 DEF ExpirySound
<1>9. ASSUME NEW c \in Contracts, ContractLock(c) \in i.locks
      PROVE  Standing(c) /\ \A n \in DOMAIN i.due : Sooner(c, i.due[n].id)
  <2>1. CASE ContractLock(c) \in old.locks
    <3>1. Standing(c) /\ \A n \in DOMAIN old.due : Sooner(c, old.due[n].id)
      BY <1>3, <2>1 DEF ExpirySound
    <3> QED BY <1>5, <1>7, <3>1
  <2>2. CASE ContractLock(c) = ContractLock(next.id)
    <3>1. c = next.id
      BY <2>2 DEF ContractLock
    <3>2. Standing(next.id)
      BY <1>3, <1>5 DEF ExpirySound
    <3> QED BY <1>7, <3>1, <3>2
  <2> QED BY <1>2, <1>9, <2>1, <2>2
<1>10. ExpirySound(i)
  BY <1>5, <1>6, <1>7, <1>8, <1>9 DEF ExpirySound
<1> QED
  BY <1>1, <1>2, <1>4, <1>10 DEF ContractSound

\* Who changes the status of a contract that is there holds its lock.
LEMMA OthersSound ==
  ASSUME RequestsInv, ContractInv, NEW r \in Requests, End(r), ContractsStand,
         \A c \in Contracts : \/ contracts'[c].status = contracts[c].status
                              \/ ContractLock(c) \in inflight[r].locks
                              \/ contracts[c] = NoContractRow
  PROVE  \A q \in Requests : ContractSound(inflight[q])'
<1> SUFFICES ASSUME NEW q \in Requests PROVE ContractSound(inflight[q])'
  OBVIOUS
<1>1. CASE q = r
  <2>1. inflight'[r].op = "answered"
    BY Remembered, EndFacts DEF Takes
  <2> QED BY <1>1, <2>1 DEF ContractSound
<1>2. CASE q # r
  <2> PICK j : j = inflight[q]
    OBVIOUS
  <2>1. ContractSound(j) /\ inflight'[q] = j
    BY <1>2, Remembered DEF ContractInv, End
  <2>2. ASSUME j.op = "expire", NEW c \in Contracts, ContractLock(c) \in j.locks
        PROVE  contracts'[c].status = contracts[c].status
    <3>1. ContractLock(c) \notin inflight[r].locks
      BY <1>2, <2>2 DEF RequestsInv, LocksExclusive
    <3>2. contracts[c] # NoContractRow
      BY <2>1, <2>2 DEF ContractSound, ExpirySound, Standing
    <3> QED BY <3>1, <3>2
  <2>3. ContractSound(j)'
    BY <2>1, <2>2, ContractSoundStands
  <2> QED BY <2>1, <2>3 DEF ContractSound, ExpirySound
<1> QED
  BY <1>1, <1>2

LEMMA WithStatusFacts ==
  ASSUME NEW row \in ContractRow, NEW status \in ContractStatus
  PROVE  /\ WithStatus(row, status) \in ContractRow
         /\ WithStatus(row, status) # NoContractRow
         /\ WithStatus(row, status).status = status
         /\ WithStatus(row, status).parties = row.parties
         /\ WithStatus(row, status).from = row.from
         /\ WithStatus(row, status).to = row.to
BY DEF WithStatus, ContractRow, NoContractRow, ContractStatus

LEMMA CommitSigningKeeps ==
  ASSUME RequestsInv, ContractInv, NEW r \in Requests, CommitSigning(r)
  PROVE  ContractInv' /\ ContractsStand
<1> PICK i : i = inflight[r]
  OBVIOUS
<1>1. /\ contracts[i.id] = NoContractRow /\ contracts' = [contracts EXCEPT ![i.id] = i.row]
      /\ i.row \in ContractRow /\ End(r) /\ contractLog' = contractLog
  BY DEF CommitSigning, ContractInv, ContractSound
<1>2. /\ contracts' \in [Contracts -> ContractRow \cup {NoContractRow}]
      /\ \A c \in Contracts : contracts'[c] = IF c = i.id THEN i.row ELSE contracts[c]
  BY <1>1 DEF ContractInv, ContractsTyped
<1>3. i.row # NoContractRow
  BY <1>1 DEF ContractRow, NoContractRow, ContractStatus
<1>4. ContractsTyped'
  BY <1>1, <1>2, <1>3 DEF ContractInv, ContractsTyped
<1>5. ContractsStand
  BY <1>1, <1>2 DEF ContractsStand
<1>6. ASSUME NEW c \in Contracts PROVE Chain(contractLog'[c], contracts'[c].status)
  <2>1. CASE c = i.id
    <3>1. contractLog[c] = <<>> /\ DOMAIN << >> = {}
      BY <1>1, <2>1 DEF ContractInv, ContractsTyped
    <3> QED BY <1>1, <3>1 DEF Chain
  <2>2. CASE c # i.id
    BY <1>1, <1>2, <2>2 DEF ContractInv
  <2> QED BY <2>1, <2>2
<1>7. \A q \in Requests : ContractSound(inflight[q])'
  BY <1>1, <1>2, <1>5, OthersSound
<1> QED
  BY <1>4, <1>5, <1>6, <1>7 DEF ContractInv, Chain

LEMMA CommitContractKeeps ==
  ASSUME RequestsInv, ContractInv, NEW r \in Requests, CommitContract(r)
  PROVE  ContractInv' /\ ContractsStand
<1> PICK i : i = inflight[r]
  OBVIOUS
<1>1. i.op = "contract" /\ End(r)
  BY DEF CommitContract
<1>2. /\ Standing(i.id) /\ ContractLock(i.id) \in i.locks
      /\ i.seen \in ContractStatus /\ i.target \in Moves[i.seen] /\ i.target \in ContractStatus
  BY <1>1, MovesFacts DEF ContractInv, ContractSound
<1>3. CASE contracts[i.id].status # i.seen
  <2>1. UNCHANGED <<contracts, contractLog>>
    BY <1>3 DEF CommitContract
  <2>2. ContractSound(Answered)
    BY DEF ContractSound, Answered
  <2> QED BY <1>1, <2>1, <2>2, ContractUntouched DEF End
<1>4. CASE contracts[i.id].status = i.seen
  <2> PICK row : row = WithStatus(contracts[i.id], i.target)
    OBVIOUS
  <2> PICK change : change = [old |-> i.seen, new |-> i.target]
    OBVIOUS
  <2>1. /\ contracts' = [contracts EXCEPT ![i.id] = row]
        /\ contractLog' = [contractLog EXCEPT ![i.id] = Append(contractLog[i.id], change)]
    BY <1>4 DEF CommitContract
  <2>2. i.id \in Contracts /\ contracts[i.id] \in ContractRow
    BY <1>2, StandingRow DEF ContractInv
  <2>3. /\ row \in ContractRow /\ row # NoContractRow /\ row.status = i.target
        /\ row.parties = contracts[i.id].parties /\ row.from = contracts[i.id].from
        /\ row.to = contracts[i.id].to
    BY <1>2, <2>2, WithStatusFacts
  <2>4. /\ contracts' \in [Contracts -> ContractRow \cup {NoContractRow}]
        /\ \A c \in Contracts : contracts'[c] = IF c = i.id THEN row ELSE contracts[c]
    BY <2>1, <2>2, <2>3 DEF ContractInv, ContractsTyped
  <2>5. ContractsStand
    BY <2>3, <2>4 DEF ContractsStand
  <2>6. /\ change \in ContractChange /\ Follows(change)
        /\ change.old = contracts[i.id].status /\ change.new = i.target
    BY <1>2, <1>4 DEF ContractChange, Follows
  <2>7. /\ Append(contractLog[i.id], change) \in Seq(ContractChange)
        /\ Chain(Append(contractLog[i.id], change), i.target)
    <3>1. contractLog[i.id] \in Seq(ContractChange) /\ Chain(contractLog[i.id], contracts[i.id].status)
      BY <2>2 DEF ContractInv, ContractsTyped
    <3> QED BY <2>6, <3>1, ChainGrows
  <2>8. /\ contractLog' \in [Contracts -> Seq(ContractChange)]
        /\ \A c \in Contracts : contractLog'[c] = IF c = i.id THEN Append(contractLog[i.id], change)
                                                  ELSE contractLog[c]
    BY <2>1, <2>7 DEF ContractInv, ContractsTyped
  <2>9. ContractsTyped'
    BY <2>3, <2>4, <2>8 DEF ContractInv, ContractsTyped
  <2>10. ASSUME NEW c \in Contracts PROVE Chain(contractLog'[c], contracts'[c].status)
    BY <2>3, <2>4, <2>7, <2>8 DEF ContractInv
  <2>11. \A q \in Requests : ContractSound(inflight[q])'
    BY <1>1, <1>2, <2>4, <2>5, OthersSound
  <2> QED BY <2>5, <2>9, <2>10, <2>11 DEF ContractInv, Chain
<1> QED
  BY <1>3, <1>4

LEMMA CommitExpiryKeeps ==
  ASSUME RequestsInv, ContractInv, NEW r \in Requests, CommitExpiry(r)
  PROVE  ContractInv' /\ ContractsStand
<1> PICK i : i = inflight[r]
  OBVIOUS
<1>1. i.op = "expire" /\ End(r) /\ ExpirySound(i)
  BY DEF CommitExpiry, ContractInv, ContractSound
<1> PICK ended : ended = {c \in Contracts : \E entry \in i.expired : entry.id = c}
  OBVIOUS
<1> PICK entry : entry = [c \in ended |-> CHOOSE e \in i.expired : e.id = c]
  OBVIOUS
<1>2. ASSUME NEW c \in ended
      PROVE  /\ c \in Contracts /\ contracts[c] \in ContractRow
             /\ entry[c].id = c /\ entry[c].status = contracts[c].status
             /\ entry[c].status \in {"ACTIVE", "SUSPENDED"} /\ ContractLock(c) \in i.locks
  <2>1. PICK e \in i.expired : e.id = c
    OBVIOUS
  <2>2. entry[c] \in i.expired /\ entry[c].id = c
    BY <2>1
  <2>3. /\ ContractLock(c) \in i.locks /\ contracts[c].status = entry[c].status
        /\ entry[c].status \in {"ACTIVE", "SUSPENDED"}
    BY <1>1, <2>2 DEF ExpirySound, DueEntry
  <2>4. Standing(c)
    BY <1>1, <2>3 DEF ExpirySound
  <2> QED BY <2>2, <2>3, <2>4, StandingRow DEF ContractInv
<1>3. /\ contracts' = [c \in Contracts |->
           IF c \in ended THEN WithStatus(contracts[c], "EXPIRED") ELSE contracts[c]]
      /\ contractLog' = [c \in Contracts |->
           IF c \in ended THEN Append(contractLog[c], [old |-> entry[c].status, new |-> "EXPIRED"])
           ELSE contractLog[c]]
  BY DEF CommitExpiry
<1>4. ASSUME NEW c \in ended
      PROVE  /\ WithStatus(contracts[c], "EXPIRED") \in ContractRow
             /\ WithStatus(contracts[c], "EXPIRED") # NoContractRow
             /\ WithStatus(contracts[c], "EXPIRED").status = "EXPIRED"
             /\ WithStatus(contracts[c], "EXPIRED").parties = contracts[c].parties
             /\ WithStatus(contracts[c], "EXPIRED").from = contracts[c].from
             /\ WithStatus(contracts[c], "EXPIRED").to = contracts[c].to
  <2>1. "EXPIRED" \in ContractStatus
    BY DEF ContractStatus
  <2> QED BY <1>2, <2>1, WithStatusFacts
<1>5. ContractsStand
  BY <1>3, <1>4 DEF ContractsStand
<1>6. ASSUME NEW c \in ended
      PROVE  /\ contractLog'[c] \in Seq(ContractChange)
             /\ Chain(contractLog'[c], "EXPIRED")
  <2> PICK change : change = [old |-> entry[c].status, new |-> "EXPIRED"]
    OBVIOUS
  <2>1. /\ change \in ContractChange /\ Follows(change)
        /\ change.old = contracts[c].status /\ change.new = "EXPIRED"
    BY <1>2 DEF ContractChange, Follows, ContractStatus
  <2>2. contractLog[c] \in Seq(ContractChange) /\ Chain(contractLog[c], contracts[c].status)
    BY <1>2 DEF ContractInv, ContractsTyped
  <2>3. contractLog'[c] = Append(contractLog[c], change)
    BY <1>2, <1>3
  <2> QED BY <2>1, <2>2, <2>3, ChainGrows
<1>7. ASSUME NEW c \in Contracts
      PROVE  /\ contracts'[c] \in ContractRow \cup {NoContractRow}
             /\ contractLog'[c] \in Seq(ContractChange)
             /\ contracts'[c] = NoContractRow => contractLog'[c] = <<>>
             /\ Chain(contractLog'[c], contracts'[c].status)
  <2>1. CASE c \in ended
    BY <1>3, <1>4, <1>6, <2>1
  <2>2. CASE c \notin ended
    <3>1. contracts'[c] = contracts[c] /\ contractLog'[c] = contractLog[c]
      BY <1>3, <2>2
    <3> QED BY <3>1 DEF ContractInv, ContractsTyped
  <2> QED BY <2>1, <2>2
<1>8. ContractsTyped'
  BY <1>3, <1>7 DEF ContractsTyped
<1>9. \A q \in Requests : ContractSound(inflight[q])'
  <2>1. \A c \in Contracts : \/ contracts'[c].status = contracts[c].status
                             \/ ContractLock(c) \in inflight[r].locks
    BY <1>2, <1>3
  <2> QED BY <1>1, <1>5, <2>1, OthersSound
<1> QED
  BY <1>5, <1>7, <1>8, <1>9 DEF ContractInv, Chain

\* In the order of the batches no two contracts come before each other.
LEMMA SoonerAsymmetric ==
  ASSUME ContractsTyped, NEW c, NEW d, Standing(c), Standing(d), Sooner(c, d), Sooner(d, c)
  PROVE  FALSE
<1>1. contracts[c].to \in Nat /\ contracts[d].to \in Nat
  BY StandingRow, TimeAssumption DEF ContractRow, Times
<1>2. Position(c) \in Nat /\ Position(d) \in Nat
  BY OrderAssumption DEF Position, Standing
<1> QED
  BY <1>1, <1>2 DEF Sooner

LEMMA ContractConsequences ==
  ASSUME ContractInv
  PROVE  ContractHistory /\ ExpiryNeverDeadlocks
<1>1. ContractHistory
  BY DEF ContractInv, Chain, ContractHistory
<1>2. ASSUME NEW p \in Requests, NEW q \in Requests, Waits(p, q), inflight[q].op = "expire"
      PROVE  /\ 1 \in DOMAIN inflight[p].due /\ Standing(inflight[p].due[1].id)
             /\ \A m \in DOMAIN inflight[q].due :
                  Sooner(inflight[p].due[1].id, inflight[q].due[m].id)
  <2> PICK i : i = inflight[p]
    OBVIOUS
  <2> PICK j : j = inflight[q]
    OBVIOUS
  <2>1. /\ i.op = "expire" /\ i.due # <<>> /\ ContractLock(Head(i.due).id) \in j.locks
    BY <1>2 DEF Waits
  <2>2. ExpirySound(i)
    BY <2>1 DEF ContractInv, ContractSound
  <2>3. 1 \in DOMAIN i.due /\ Head(i.due) = i.due[1]
    BY <2>1, <2>2 DEF ExpirySound
  <2>4. Standing(i.due[1].id) /\ i.due[1].id \in Contracts
    BY <2>2, <2>3 DEF ExpirySound, Standing
  <2>5. ASSUME NEW m \in DOMAIN j.due PROVE Sooner(i.due[1].id, j.due[m].id)
    <3>1. ExpirySound(j)
      BY <1>2 DEF ContractInv, ContractSound
    <3> QED BY <2>1, <2>3, <2>4, <3>1 DEF ExpirySound
  <2> QED BY <2>3, <2>4, <2>5
<1>3. ASSUME NEW p \in Requests, NEW q \in Requests, Waits(p, q), Waits(q, p) PROVE FALSE
  <2>1. /\ 1 \in DOMAIN inflight[p].due /\ 1 \in DOMAIN inflight[q].due
        /\ Standing(inflight[p].due[1].id) /\ Standing(inflight[q].due[1].id)
    BY <1>2, <1>3 DEF Waits
  <2>2. /\ Sooner(inflight[p].due[1].id, inflight[q].due[1].id)
        /\ Sooner(inflight[q].due[1].id, inflight[p].due[1].id)
    BY <1>2, <1>3, <2>1 DEF Waits
  <2> QED BY <2>1, <2>2, SoonerAsymmetric DEF ContractInv
<1> QED
  BY <1>1, <1>3 DEF ExpiryNeverDeadlocks

-------------------------------------------------------------------------------
(* The mission and its waybill.                                                *)

PlanFits(plan) ==
  /\ plan \in Plan
  /\ Owned(plan.warehouse, plan.client)
  /\ plan.route # None => routes[plan.route].client = plan.client
  /\ plan.contract # None =>
       /\ plan.client \in contracts[plan.contract].parties
       /\ plan.loadingAt # Never =>
            /\ contracts[plan.contract].from <= plan.loadingAt
            /\ plan.loadingAt < contracts[plan.contract].to

CrewFits(crew) ==
  /\ crew \in Crews
  /\ crew # NoCrew => Owned(crew[2], crew[1]) /\ Owned(crew[3], crew[1])

VisitFits(branch) == branch \in Branches /\ \E client \in clientsHad : Owned(branch, client)

\* An update has checked the mission as it will be, since its lock keeps the
\* plan; a waybill to issue names the crew of those there are, of which none
\* with a token is the last.
PlanningSound(i) ==
  /\ i.op = "plan" => PlanFits(i.plan)
  /\ i.op = "replan" =>
       /\ mission # NoMission /\ UpdateLock \in i.locks
       /\ PlanFits(Changed(mission.plan, i.change))
  /\ i.op = "crew" => mission # NoMission /\ CrewFits(i.crew) /\ i.crew # NoCrew
  /\ i.op = "stop" => VisitFits(i.branch)
  /\ i.op = "issue" =>
       /\ WaybillLock \in i.locks
       /\ i.event \in WaybillEvent /\ i.event.crew \in crewsHad \ {NoCrew}
       /\ waybills # <<>> =>
            i.event.crew = waybills[1].crew /\ ~waybills[Len(waybills)].token
  /\ i.op = "share" => waybills # <<>>

MissionFits ==
  mission # NoMission =>
    /\ {"plan", "crew", "status"} \subseteq DOMAIN mission
    /\ PlanFits(mission.plan) /\ CrewFits(mission.crew)
    /\ mission.plan.client \in clientsHad
    /\ mission.crew \in crewsHad \cup {NoCrew}

WaybillsFit ==
  /\ waybills \in Seq(WaybillEvent)
  /\ \A n \in DOMAIN waybills :
       /\ waybills[n].crew = waybills[1].crew
       /\ waybills[n].crew \in crewsHad \ {NoCrew}
       /\ n < Len(waybills) => ~waybills[n].token
  /\ shared => waybills # <<>>

PlanningInv ==
  /\ clientsHad \subseteq Clients
  /\ mission = NoMission => clientsHad = {}
  /\ MissionFits
  /\ \A branch \in visits : VisitFits(branch)
  /\ WaybillsFit
  /\ \A r \in Requests : PlanningSound(inflight[r])

\* The mission's histories only grow, and it stays.
HistoriesGrow ==
  /\ clientsHad \subseteq clientsHad' /\ crewsHad \subseteq crewsHad'
  /\ mission # NoMission => mission' # NoMission
  /\ waybills # <<>> => waybills' # <<>>

LEMMA PlanFitsStands ==
  ASSUME MastersStand, ContractsStand, NEW plan, PlanFits(plan)
  PROVE  PlanFits(plan)'
<1>1. plan \in Plan /\ plan.client \in Clients
  BY DEF PlanFits, Plan
<1>2. Owned(plan.warehouse, plan.client)'
  BY OwnedStands DEF PlanFits
<1>3. plan.route # None => routes'[plan.route].client = plan.client
  <2> SUFFICES ASSUME plan.route # None PROVE routes'[plan.route].client = plan.client
    OBVIOUS
  <2>1. plan.route \in Routes /\ routes[plan.route].client = plan.client
    BY DEF PlanFits, Plan
  <2>2. routes[plan.route] # NoRoute
    BY <1>1, <2>1, NobodyAssumption DEF NoRoute
  <2> QED BY <2>1, <2>2 DEF MastersStand
<1>4. ASSUME plan.contract # None
      PROVE  /\ contracts'[plan.contract].parties = contracts[plan.contract].parties
             /\ contracts'[plan.contract].from = contracts[plan.contract].from
             /\ contracts'[plan.contract].to = contracts[plan.contract].to
  <2>1. plan.contract \in Contracts /\ plan.client \in contracts[plan.contract].parties
    BY <1>4 DEF PlanFits, Plan
  <2>2. contracts[plan.contract] # NoContractRow
    BY <2>1 DEF NoContractRow
  <2> QED BY <2>1, <2>2 DEF ContractsStand
<1> QED
  BY <1>1, <1>2, <1>3, <1>4 DEF PlanFits

LEMMA CrewFitsStands ==
  ASSUME MastersStand, NEW crew, CrewFits(crew)
  PROVE  CrewFits(crew)'
BY OwnedStands DEF CrewFits

LEMMA VisitFitsStands ==
  ASSUME MastersStand, clientsHad \subseteq clientsHad', NEW branch, VisitFits(branch)
  PROVE  VisitFits(branch)'
<1>1. PICK client \in clientsHad : Owned(branch, client)
  BY DEF VisitFits
<1>2. Owned(branch, client)' /\ client \in clientsHad'
  BY <1>1, OwnedStands
<1> QED
  BY <1>2 DEF VisitFits

LEMMA PlanningSoundStands ==
  ASSUME MastersStand, ContractsStand, HistoriesGrow, NEW i, PlanningSound(i),
         i.op = "replan" => mission'.plan = mission.plan,
         i.op = "issue" => waybills' = waybills
  PROVE  PlanningSound(i)'
<1>1. i.op = "plan" => PlanFits(i.plan)'
  BY PlanFitsStands DEF PlanningSound
<1>2. ASSUME i.op = "replan"
      PROVE  mission' # NoMission /\ PlanFits(Changed(mission.plan, i.change))'
  <2> PICK plan : plan = Changed(mission.plan, i.change)
    OBVIOUS
  <2>1. PlanFits(plan)'
    BY <1>2, PlanFitsStands DEF PlanningSound
  <2>2. Changed(mission.plan, i.change)' = plan
    BY <1>2 DEF Changed
  <2>3. mission' # NoMission
    BY <1>2 DEF PlanningSound, HistoriesGrow
  <2> QED BY <2>1, <2>2, <2>3 DEF PlanFits
<1>3. i.op = "crew" => mission' # NoMission /\ CrewFits(i.crew)' /\ i.crew # NoCrew
  BY CrewFitsStands DEF PlanningSound, HistoriesGrow
<1>4. i.op = "stop" => VisitFits(i.branch)'
  BY VisitFitsStands DEF PlanningSound, HistoriesGrow
<1>5. i.op = "issue" =>
        /\ i.event.crew \in crewsHad' \ {NoCrew}
        /\ waybills' # <<>> => i.event.crew = waybills'[1].crew /\ ~waybills'[Len(waybills')].token
  BY DEF PlanningSound, HistoriesGrow
<1>6. i.op = "share" => waybills' # <<>>
  BY DEF PlanningSound, HistoriesGrow
<1> QED
  BY <1>1, <1>2, <1>3, <1>4, <1>5, <1>6 DEF PlanningSound

LEMMA MissionFitsStands ==
  ASSUME MastersStand, ContractsStand, HistoriesGrow, MissionFits, mission' = mission
  PROVE  MissionFits'
<1> PICK row : row = mission
  OBVIOUS
<1>1. row # NoMission => PlanFits(row.plan)' /\ CrewFits(row.crew)'
  BY PlanFitsStands, CrewFitsStands DEF MissionFits
<1> QED
  BY <1>1 DEF MissionFits, HistoriesGrow

\* Who changes the plan or the waybills holds their lock.
LEMMA RequestsStand ==
  ASSUME RequestsInv, PlanningInv, NEW r \in Requests, NEW i, Remember(r, i), PlanningSound(i)',
         MastersStand, ContractsStand, HistoriesGrow,
         \A q \in Requests : q # r =>
           /\ inflight[q].op = "replan" => mission'.plan = mission.plan
           /\ inflight[q].op = "issue" => waybills' = waybills
  PROVE  \A q \in Requests : PlanningSound(inflight[q])'
<1> SUFFICES ASSUME NEW q \in Requests PROVE PlanningSound(inflight[q])'
  OBVIOUS
<1> PICK j : j = inflight'[q]
  OBVIOUS
<1>1. PlanningSound(j)'
  <2>1. CASE q = r
    <3>1. j = i
      BY <2>1, Remembered
    <3> QED BY <3>1
  <2>2. CASE q # r
    <3>1. PlanningSound(j) /\ j = inflight[q]
      BY <2>2, Remembered DEF PlanningInv
    <3>2. /\ j.op = "replan" => mission'.plan = mission.plan
          /\ j.op = "issue" => waybills' = waybills
      BY <2>2, <3>1
    <3> QED BY <3>1, <3>2, PlanningSoundStands
  <2> QED BY <2>1, <2>2
<1> QED
  BY <1>1 DEF PlanningSound

LEMMA AnsweredSound == PlanningSound(Answered) /\ PlanningSound(Answered)'
BY DEF PlanningSound, Answered

\* A request that changes nothing about the mission.
LEMMA PlanningUntouched ==
  ASSUME RequestsInv, PlanningInv, NEW r \in Requests, NEW i, Remember(r, i), PlanningSound(i),
         MastersStand, ContractsStand, UNCHANGED planningVars
  PROVE  PlanningInv'
<1>1. HistoriesGrow /\ mission' = mission /\ waybills' = waybills
  BY DEF planningVars, HistoriesGrow
<1>2. PlanningSound(i)'
  BY <1>1, PlanningSoundStands
<1>3. \A q \in Requests : PlanningSound(inflight[q])'
  BY <1>1, <1>2, RequestsStand
<1>4. MissionFits'
  BY <1>1, MissionFitsStands DEF PlanningInv
<1>5. \A branch \in visits' : VisitFits(branch)'
  BY <1>1, VisitFitsStands DEF PlanningInv, planningVars, HistoriesGrow
<1>6. WaybillsFit'
  BY DEF PlanningInv, planningVars, WaybillsFit
<1>7. clientsHad' \subseteq Clients /\ (mission' = NoMission => clientsHad' = {})
  BY DEF PlanningInv, planningVars
<1> QED
  BY <1>3, <1>4, <1>5, <1>6, <1>7 DEF PlanningInv

\* Active master data are there.
LEMMA ActiveOwned ==
  ASSUME NEW m \in Masters, Active(m), NEW owner, masters[m].owner = owner
  PROVE  Owned(m, owner)
BY DEF Active, Owned, Absent

LEMMA PlannableFits ==
  ASSUME NEW plan \in Plan, Plannable(plan)
  PROVE  PlanFits(plan)
<1>1. plan.warehouse \in Masters
  BY DEF Plan, Masters
<1>2. Owned(plan.warehouse, plan.client)
  BY <1>1, ActiveOwned DEF Plannable, RequireActiveClientWarehouse
<1>3. plan.route # None => routes[plan.route].client = plan.client
  BY DEF Plannable, RequireActiveRoute
<1>4. plan.contract # None =>
        /\ plan.client \in contracts[plan.contract].parties
        /\ plan.loadingAt # Never =>
             /\ contracts[plan.contract].from <= plan.loadingAt
             /\ plan.loadingAt < contracts[plan.contract].to
  BY DEF Plannable, RequireActiveContract, EffectiveAt
<1> QED
  BY <1>2, <1>3, <1>4 DEF PlanFits

LEMMA ChangedPlan ==
  ASSUME NEW plan \in Plan, NEW change \in Change
  PROVE  Changed(plan, change) \in Plan
BY DEF Changed, Plan, Change, Given

LEMMA ActiveCrewFits ==
  ASSUME NEW crew \in Crews \ {NoCrew}, ActiveCrew(crew)
  PROVE  CrewFits(crew)
<1>1. crew[2] \in Masters /\ crew[3] \in Masters
  BY DEF Crews, Masters
<1> QED
  BY <1>1, ActiveOwned DEF CrewFits, ActiveCrew

LEMMA PlanningStartFacts ==
  ASSUME PlanningInv, NEW r \in Requests, PlanningStart(r), ~MoveOn(r)
  PROVE  \E i : /\ Takes(r, i) /\ i.op \in PlanningOps /\ PlanningSound(i)
                /\ UNCHANGED <<masterVars, contractVars, planningVars>>
<1>1. CASE CreateMission(r)
  <2>1. PICK plan, i :
          /\ plan \in Plan /\ Plannable(plan)
          /\ i = [op |-> "plan", locks |-> {}, plan |-> plan]
          /\ Remember(r, i)
          /\ UNCHANGED <<masterVars, contractVars, planningVars>>
    BY <1>1 DEF CreateMission, Begin
  <2>2. i.op = "plan" /\ i.locks = {} /\ i.plan = plan /\ PlanFits(plan)
    BY <2>1, PlannableFits
  <2> QED BY <2>1, <2>2 DEF Takes, PlanningOps, PlanningSound
<1>2. CASE ReadMission(r)
  <2>1. PICK change, i :
          /\ change \in Change /\ mission # NoMission /\ Available(UpdateLock, r)
          /\ Plannable(Changed(mission.plan, change))
          /\ i = [op |-> "replan", locks |-> {UpdateLock}, change |-> change]
          /\ Remember(r, i)
          /\ UNCHANGED <<masterVars, contractVars, planningVars>>
    BY <1>2 DEF ReadMission, Begin
  <2>2. i.op = "replan" /\ i.locks = {UpdateLock} /\ i.change = change
    BY <2>1
  <2>3. PlanFits(Changed(mission.plan, change))
    <3>1. mission.plan \in Plan
      BY <2>1 DEF PlanningInv, MissionFits, PlanFits
    <3> QED BY <2>1, <3>1, ChangedPlan, PlannableFits
  <2> QED BY <2>1, <2>2, <2>3 DEF Takes, PlanningOps, PlanningSound
<1>3. CASE ReadCrew(r)
  <2>1. PICK crew, i :
          /\ crew \in Crews \ {NoCrew} /\ mission # NoMission /\ Available(CrewLock, r)
          /\ ActiveCrew(crew)
          /\ i = [op |-> "crew", locks |-> {CrewLock}, crew |-> crew]
          /\ Remember(r, i)
          /\ UNCHANGED <<masterVars, contractVars, planningVars>>
    BY <1>3 DEF ReadCrew, Begin
  <2>2. i.op = "crew" /\ i.locks = {CrewLock} /\ i.crew = crew /\ CrewFits(crew)
    BY <2>1, ActiveCrewFits
  <2> QED BY <2>1, <2>2 DEF Takes, PlanningOps, PlanningSound
<1>4. CASE ReadBranch(r)
  <2>1. PICK branch, i :
          /\ branch \in Branches /\ mission # NoMission /\ Available(StopsLock, r)
          /\ ActiveBranch(branch, mission.plan.client)
          /\ i = [op |-> "stop", locks |-> {StopsLock}, branch |-> branch]
          /\ Remember(r, i)
          /\ UNCHANGED <<masterVars, contractVars, planningVars>>
    BY <1>4 DEF ReadBranch, Begin
  <2>2. i.op = "stop" /\ i.locks = {StopsLock} /\ i.branch = branch
    BY <2>1
  <2>3. VisitFits(branch)
    <3>1. mission.plan.client \in clientsHad /\ branch \in Masters
      BY <2>1 DEF PlanningInv, MissionFits, Masters
    <3>2. Owned(branch, mission.plan.client)
      BY <2>1, <3>1, ActiveOwned DEF ActiveBranch
    <3> QED BY <2>1, <3>1, <3>2 DEF VisitFits
  <2> QED BY <2>1, <2>2, <2>3 DEF Takes, PlanningOps, PlanningSound
<1>5. CASE ReadWaybill(r)
  <2>1. PICK event, i :
          /\ mission # NoMission /\ Available(WaybillLock, r)
          /\ waybills = <<>> => mission.crew # NoCrew
          /\ waybills # <<>> => ~waybills[Len(waybills)].token
          /\ event = Issued
          /\ i = [op |-> "issue", locks |-> {WaybillLock}, event |-> event]
          /\ Remember(r, i)
          /\ UNCHANGED <<masterVars, contractVars, planningVars>>
    BY <1>5 DEF ReadWaybill, Begin
  <2>2. i.op = "issue" /\ i.locks = {WaybillLock} /\ i.event = event
    BY <2>1
  <2>3. /\ event \in WaybillEvent /\ event.crew \in crewsHad \ {NoCrew}
        /\ waybills # <<>> => event.crew = waybills[1].crew
    <3>1. CASE waybills = <<>>
      <4>1. event = [token |-> TRUE, crew |-> mission.crew]
        BY <2>1, <3>1 DEF Issued
      <4>2. mission.crew \in Crews /\ mission.crew \in crewsHad \ {NoCrew}
        BY <2>1, <3>1 DEF PlanningInv, MissionFits, CrewFits
      <4> QED BY <3>1, <4>1, <4>2 DEF WaybillEvent
    <3>2. CASE waybills # <<>>
      <4>1. event = [token |-> TRUE, crew |-> waybills[Len(waybills)].crew]
        BY <2>1, <3>2 DEF Issued
      <4>2. waybills \in Seq(WaybillEvent) /\ Len(waybills) \in DOMAIN waybills
        BY <3>2 DEF PlanningInv, WaybillsFit
      <4>3. /\ waybills[Len(waybills)].crew \in crewsHad \ {NoCrew}
            /\ waybills[Len(waybills)].crew = waybills[1].crew
            /\ waybills[Len(waybills)].crew \in Crews
        <5>1. waybills[Len(waybills)] \in WaybillEvent
          BY <4>2
        <5>2. waybills[Len(waybills)].crew \in Crews
          BY <5>1 DEF WaybillEvent
        <5> QED BY <4>2, <5>2 DEF PlanningInv, WaybillsFit
      <4> QED BY <4>1, <4>3 DEF WaybillEvent
    <3> QED BY <3>1, <3>2
  <2> QED BY <2>1, <2>2, <2>3 DEF Takes, PlanningOps, PlanningSound
<1>6. CASE ReadShared(r)
  <2>1. PICK i :
          /\ waybills # <<>>
          /\ i = [op |-> "share", locks |-> {}]
          /\ Remember(r, i)
          /\ UNCHANGED <<masterVars, contractVars, planningVars>>
    BY <1>6 DEF ReadShared, Begin
  <2>2. i.op = "share" /\ i.locks = {}
    BY <2>1
  <2> QED BY <2>1, <2>2 DEF Takes, PlanningOps, PlanningSound
<1> QED
  BY <1>1, <1>2, <1>3, <1>4, <1>5, <1>6 DEF PlanningStart

\* The mission's row is replaced by one that fits, with the same histories or
\* longer ones.
LEMMA MissionReplaced ==
  ASSUME RequestsInv, PlanningInv, NEW r \in Requests, End(r),
         UNCHANGED <<masterVars, contractVars, visits, waybills, shared>>,
         clientsHad \subseteq clientsHad', crewsHad \subseteq crewsHad', clientsHad' \subseteq Clients,
         mission' # NoMission, MissionFits',
         \A q \in Requests : q # r /\ inflight[q].op = "replan" => mission'.plan = mission.plan
  PROVE  PlanningInv'
<1>1. MastersStand /\ ContractsStand /\ HistoriesGrow
  BY DEF masterVars, contractVars, MastersStand, ContractsStand, HistoriesGrow
<1>2. \A q \in Requests : PlanningSound(inflight[q])'
  BY <1>1, AnsweredSound, RequestsStand DEF End
<1>3. \A branch \in visits' : VisitFits(branch)'
  BY <1>1, VisitFitsStands DEF PlanningInv
<1>4. WaybillsFit'
  BY DEF PlanningInv, WaybillsFit
<1> QED
  BY <1>2, <1>3, <1>4 DEF PlanningInv

LEMMA CommitMissionKeeps ==
  ASSUME RequestsInv, PlanningInv, NEW r \in Requests, CommitMission(r)
  PROVE  PlanningInv'
<1> PICK plan : plan = inflight[r].plan
  OBVIOUS
<1> PICK row : row = [plan |-> plan, crew |-> NoCrew, status |-> "DRAFT"]
  OBVIOUS
<1>1. /\ mission = NoMission /\ mission' = row /\ clientsHad' = {plan.client}
      /\ PlanFits(plan) /\ End(r)
      /\ UNCHANGED <<masterVars, contractVars, visits, crewsHad, waybills, shared>>
  BY DEF CommitMission, PlanningInv, PlanningSound
<1>2. clientsHad = {} /\ plan.client \in Clients
  BY <1>1 DEF PlanningInv, PlanFits, Plan
<1>3. /\ row.plan = plan /\ row.crew = NoCrew /\ {"plan", "crew", "status"} \subseteq DOMAIN row
      /\ "plan" \notin DOMAIN NoMission
  BY DEF NoMission
<1>4. PlanFits(plan)'
  BY <1>1 DEF PlanFits, Owned, masterVars, contractVars
<1>5. CrewFits(NoCrew)'
  BY DEF CrewFits, Crews
<1>6. MissionFits'
  BY <1>1, <1>3, <1>4, <1>5 DEF MissionFits
<1>7. mission' # NoMission
  BY <1>1, <1>3
<1>8. ASSUME NEW q \in Requests, inflight[q].op = "replan" PROVE FALSE
  BY <1>1, <1>8 DEF PlanningInv, PlanningSound
<1> QED
  BY <1>1, <1>2, <1>6, <1>7, <1>8, MissionReplaced

LEMMA CommitReplanKeeps ==
  ASSUME RequestsInv, PlanningInv, NEW r \in Requests, CommitReplan(r)
  PROVE  PlanningInv'
<1> PICK i : i = inflight[r]
  OBVIOUS
<1> PICK old : old = mission
  OBVIOUS
<1> PICK plan : plan = Changed(old.plan, i.change)
  OBVIOUS
<1> PICK row : row = [old EXCEPT !.plan = plan]
  OBVIOUS
<1>1. /\ i.op = "replan" /\ mission' = row /\ End(r)
      /\ clientsHad' = clientsHad \cup {mission'.plan.client}
      /\ UNCHANGED <<masterVars, contractVars, visits, crewsHad, waybills, shared>>
  BY DEF CommitReplan
<1>2. old # NoMission /\ UpdateLock \in i.locks /\ PlanFits(plan)
  BY <1>1 DEF PlanningInv, PlanningSound
<1>3. /\ {"plan", "crew", "status"} \subseteq DOMAIN old
      /\ CrewFits(old.crew) /\ old.crew \in crewsHad \cup {NoCrew}
  BY <1>2 DEF PlanningInv, MissionFits
<1>4. /\ row.plan = plan /\ row.crew = old.crew /\ DOMAIN row = DOMAIN old
      /\ "plan" \notin DOMAIN NoMission
  BY <1>3 DEF NoMission
<1>5. plan.client \in Clients /\ clientsHad' = clientsHad \cup {plan.client}
  BY <1>1, <1>2, <1>4 DEF PlanFits, Plan
<1>6. PlanFits(plan)' /\ CrewFits(old.crew)'
  BY <1>1, <1>2, <1>3 DEF PlanFits, CrewFits, Owned, masterVars, contractVars
<1>7. MissionFits'
  BY <1>1, <1>3, <1>4, <1>5, <1>6 DEF MissionFits
<1>8. mission' # NoMission
  BY <1>1, <1>3, <1>4
<1>9. ASSUME NEW q \in Requests, q # r, inflight[q].op = "replan" PROVE FALSE
  <2>1. UpdateLock \in inflight[q].locks
    BY <1>9 DEF PlanningInv, PlanningSound
  <2> QED BY <1>2, <1>9, <2>1 DEF RequestsInv, LocksExclusive
<1> QED
  BY <1>1, <1>5, <1>7, <1>8, <1>9, MissionReplaced DEF PlanningInv

LEMMA CommitCrewKeeps ==
  ASSUME RequestsInv, PlanningInv, NEW r \in Requests, CommitCrew(r)
  PROVE  PlanningInv'
<1> PICK i : i = inflight[r]
  OBVIOUS
<1> PICK old : old = mission
  OBVIOUS
<1> PICK row : row = [old EXCEPT !.crew = i.crew]
  OBVIOUS
<1>1. /\ i.op = "crew" /\ mission' = row /\ End(r) /\ crewsHad' = crewsHad \cup {i.crew}
      /\ UNCHANGED <<masterVars, contractVars, visits, clientsHad, waybills, shared>>
  BY DEF CommitCrew
<1>2. old # NoMission /\ CrewFits(i.crew)
  BY <1>1 DEF PlanningInv, PlanningSound
<1>3. /\ {"plan", "crew", "status"} \subseteq DOMAIN old
      /\ PlanFits(old.plan) /\ old.plan.client \in clientsHad
  BY <1>2 DEF PlanningInv, MissionFits
<1>4. /\ row.plan = old.plan /\ row.crew = i.crew /\ DOMAIN row = DOMAIN old
      /\ "plan" \notin DOMAIN NoMission
  BY <1>3 DEF NoMission
<1>5. PlanFits(old.plan)' /\ CrewFits(i.crew)'
  BY <1>1, <1>2, <1>3 DEF PlanFits, CrewFits, Owned, masterVars, contractVars
<1>6. MissionFits'
  BY <1>1, <1>3, <1>4, <1>5 DEF MissionFits
<1>7. mission' # NoMission
  BY <1>1, <1>3, <1>4
<1> QED
  BY <1>1, <1>4, <1>6, <1>7, MissionReplaced DEF PlanningInv

LEMMA MoveOnKeeps ==
  ASSUME RequestsInv, PlanningInv, NEW r \in Requests, MoveOn(r)
  PROVE  PlanningInv'
<1> PICK old : old = mission
  OBVIOUS
<1>1. PICK target, row :
        /\ row = [old EXCEPT !.status = target] /\ mission' = row /\ old # NoMission /\ End(r)
        /\ UNCHANGED <<masterVars, contractVars, visits, clientsHad, crewsHad, waybills, shared>>
  BY DEF MoveOn
<1>2. /\ {"plan", "crew", "status"} \subseteq DOMAIN old
      /\ PlanFits(old.plan) /\ CrewFits(old.crew) /\ old.plan.client \in clientsHad
      /\ old.crew \in crewsHad \cup {NoCrew}
  BY <1>1 DEF PlanningInv, MissionFits
<1>3. /\ row.plan = old.plan /\ row.crew = old.crew /\ DOMAIN row = DOMAIN old
      /\ "plan" \notin DOMAIN NoMission
  BY <1>1, <1>2 DEF NoMission
<1>4. PlanFits(old.plan)' /\ CrewFits(old.crew)'
  BY <1>1, <1>2 DEF PlanFits, CrewFits, Owned, masterVars, contractVars
<1>5. MissionFits'
  BY <1>1, <1>2, <1>3, <1>4 DEF MissionFits
<1>6. mission' # NoMission
  BY <1>1, <1>2, <1>3
<1> QED
  BY <1>1, <1>3, <1>5, <1>6, MissionReplaced DEF PlanningInv

\* A stop, a waybill or its sharing is recorded.
LEMMA CommitStopKeeps ==
  ASSUME RequestsInv, PlanningInv, NEW r \in Requests, CommitStop(r) \/ CommitShare(r)
  PROVE  PlanningInv'
<1>1. /\ End(r)
      /\ UNCHANGED <<masterVars, contractVars, mission, clientsHad, crewsHad, waybills>>
  BY DEF CommitStop, CommitShare
<1>2. MastersStand /\ ContractsStand /\ HistoriesGrow
  BY <1>1 DEF masterVars, contractVars, MastersStand, ContractsStand, HistoriesGrow
<1>3. \A q \in Requests : PlanningSound(inflight[q])'
  BY <1>1, <1>2, AnsweredSound, RequestsStand DEF End
<1>4. ASSUME NEW branch \in visits' PROVE VisitFits(branch)
  BY <1>4 DEF CommitStop, CommitShare, PlanningInv, PlanningSound
<1>5. \A branch \in visits' : VisitFits(branch)'
  BY <1>2, <1>4, VisitFitsStands DEF HistoriesGrow
<1>6. shared' => waybills # <<>>
  BY DEF CommitStop, CommitShare, PlanningInv, PlanningSound, WaybillsFit
<1>7. MissionFits' /\ WaybillsFit'
  BY <1>1, <1>2, <1>6, MissionFitsStands DEF PlanningInv, WaybillsFit
<1> QED
  BY <1>1, <1>3, <1>5, <1>7 DEF PlanningInv

LEMMA CommitIssueKeeps ==
  ASSUME RequestsInv, PlanningInv, NEW r \in Requests, CommitIssue(r)
  PROVE  PlanningInv'
<1> PICK i : i = inflight[r]
  OBVIOUS
<1> PICK event : event = i.event
  OBVIOUS
<1> PICK longer : longer = Append(waybills, event)
  OBVIOUS
<1>1. /\ i.op = "issue" /\ waybills' = longer /\ End(r)
      /\ UNCHANGED <<masterVars, contractVars, mission, visits, clientsHad, crewsHad, shared>>
  BY DEF CommitIssue
<1>2. /\ WaybillLock \in i.locks
      /\ event \in WaybillEvent /\ event.crew \in crewsHad \ {NoCrew}
      /\ waybills # <<>> => event.crew = waybills[1].crew /\ ~waybills[Len(waybills)].token
  BY <1>1 DEF PlanningInv, PlanningSound
<1>3. /\ waybills \in Seq(WaybillEvent)
      /\ \A n \in DOMAIN waybills :
           /\ waybills[n].crew = waybills[1].crew
           /\ waybills[n].crew \in crewsHad \ {NoCrew}
           /\ n < Len(waybills) => ~waybills[n].token
  BY DEF PlanningInv, WaybillsFit
<1>4. /\ Len(waybills) \in Nat /\ DOMAIN waybills = 1..Len(waybills)
      /\ longer \in Seq(WaybillEvent) /\ longer # <<>>
      /\ Len(longer) = Len(waybills) + 1 /\ DOMAIN longer = 1..(Len(waybills) + 1)
      /\ \A n \in DOMAIN waybills : longer[n] = waybills[n]
      /\ longer[Len(waybills) + 1] = event
      /\ waybills = <<>> <=> Len(waybills) = 0
  BY <1>2, <1>3
<1>5. ASSUME NEW n \in DOMAIN longer
      PROVE  /\ longer[n].crew = longer[1].crew
             /\ longer[n].crew \in crewsHad \ {NoCrew}
             /\ n < Len(longer) => ~longer[n].token
  <2>1. CASE n \in DOMAIN waybills
    <3>1. waybills # <<>> /\ 1 \in DOMAIN waybills
      BY <1>4, <2>1
    <3>2. longer[n] = waybills[n] /\ longer[1] = waybills[1]
      BY <1>4, <2>1, <3>1
    <3>3. n = Len(waybills) \/ n < Len(waybills)
      BY <1>4, <2>1
    <3> QED BY <1>2, <1>3, <2>1, <3>1, <3>2, <3>3
  <2>2. CASE n = Len(waybills) + 1
    <3>1. longer[n] = event /\ ~(n < Len(longer))
      BY <1>4, <2>2
    <3>2. event.crew = longer[1].crew
      <4>1. CASE waybills = <<>>
        BY <1>4, <4>1
      <4>2. CASE waybills # <<>>
        <5>1. longer[1] = waybills[1]
          BY <1>4, <4>2
        <5> QED BY <1>2, <4>2, <5>1
      <4> QED BY <4>1, <4>2
    <3> QED BY <1>2, <3>1, <3>2
  <2> QED BY <1>4, <2>1, <2>2
<1>6. WaybillsFit'
  BY <1>1, <1>4, <1>5 DEF WaybillsFit
<1>7. MastersStand /\ ContractsStand /\ HistoriesGrow
  BY <1>1, <1>4 DEF masterVars, contractVars, MastersStand, ContractsStand, HistoriesGrow
<1>8. ASSUME NEW q \in Requests, q # r, inflight[q].op = "issue" PROVE FALSE
  <2>1. WaybillLock \in inflight[q].locks
    BY <1>8 DEF PlanningInv, PlanningSound
  <2> QED BY <1>2, <1>8, <2>1 DEF RequestsInv, LocksExclusive
<1>9. \A q \in Requests : PlanningSound(inflight[q])'
  BY <1>1, <1>7, <1>8, AnsweredSound, RequestsStand DEF End
<1>10. \A branch \in visits' : VisitFits(branch)'
  BY <1>1, <1>7, VisitFitsStands DEF PlanningInv
<1>11. MissionFits'
  BY <1>1, <1>7, MissionFitsStands DEF PlanningInv
<1> QED
  BY <1>1, <1>6, <1>9, <1>10, <1>11 DEF PlanningInv

-------------------------------------------------------------------------------
(* All together.                                                               *)

IInv == RequestsInv /\ MasterInv /\ ContractInv /\ PlanningInv

\* A request that remembers something about one component is about no other one.
LEMMA OtherOps ==
  ASSUME NEW i
  PROVE  /\ i.op \notin MasterOps => MasterSound(i)
         /\ i.op \notin ContractOps => ContractSound(i)
         /\ i.op \notin PlanningOps => PlanningSound(i)
         /\ i.op \in MasterOps => i.op \notin ContractOps /\ i.op \notin PlanningOps
         /\ i.op \in ContractOps => i.op \notin MasterOps /\ i.op \notin PlanningOps
         /\ i.op \in PlanningOps => i.op \notin MasterOps /\ i.op \notin ContractOps
         /\ i.op = "answered" => i.op \notin MasterOps \cup ContractOps \cup PlanningOps
BY DEF MasterOps, ContractOps, PlanningOps, MasterSound, ContractSound, PlanningSound

LEMMA NothingWritten ==
  ASSUME IInv, NEW r \in Requests, NEW i, Takes(r, i),
         MasterSound(i), ContractSound(i), PlanningSound(i),
         UNCHANGED <<masterVars, contracts, contractLog, planningVars>>
  PROVE  IInv'
<1>1. RequestsInv'
  BY TakesKeeps DEF IInv
<1>2. MasterInv' /\ MastersStand
  BY MasterUntouched DEF IInv, Takes
<1>3. ContractInv' /\ ContractsStand
  BY ContractUntouched DEF IInv, Takes
<1>4. PlanningInv'
  BY <1>2, <1>3, PlanningUntouched DEF IInv, Takes
<1> QED
  BY <1>1, <1>2, <1>3, <1>4 DEF IInv

LEMMA IInvStep == IInv /\ [Next]_vars => IInv'
<1> SUFFICES ASSUME IInv, [Next]_vars PROVE IInv'
  OBVIOUS
<1>1. CASE UNCHANGED <<inflight, masterVars, contracts, contractLog, planningVars>>
  <2>1. RequestsInv'
    BY <1>1 DEF IInv, RequestsInv, LocksExclusive
  <2>2. MasterInv'
    BY <1>1 DEF IInv, masterVars, MasterInv, MastersTyped, ArchivedShows, RoutesOwned, MasterSound,
       StopsOwned, Owned
  <2>3. ContractInv'
    <3>1. \A r \in Requests : ContractSound(inflight[r])'
      BY <1>1 DEF IInv, ContractInv, ContractSound, ExpirySound, Standing, Sooner
    <3>2. ContractsTyped' /\ \A c \in Contracts : Chain(contractLog[c], contracts[c].status)'
      BY <1>1 DEF IInv, ContractInv, ContractsTyped, Chain
    <3> QED BY <3>1, <3>2 DEF ContractInv
  <2>4. PlanningInv'
    <3>1. \A r \in Requests : PlanningSound(inflight[r])'
      BY <1>1 DEF IInv, masterVars, planningVars, PlanningInv, PlanningSound, PlanFits, CrewFits,
         VisitFits, Owned
    <3>2. MissionFits' /\ WaybillsFit'
      BY <1>1 DEF IInv, masterVars, planningVars, PlanningInv, MissionFits, WaybillsFit, PlanFits,
         CrewFits, Owned
    <3>3. \A branch \in visits' : VisitFits(branch)'
      BY <1>1 DEF IInv, masterVars, planningVars, PlanningInv, VisitFits, Owned
    <3> QED BY <1>1, <3>1, <3>2, <3>3 DEF IInv, planningVars, PlanningInv
  <2> QED BY <2>1, <2>2, <2>3, <2>4 DEF IInv
<1>2. CASE UNCHANGED vars \/ (Tick /\ UNCHANGED planningVars)
  <2>1. UNCHANGED <<inflight, masterVars, contracts, contractLog, planningVars>>
    BY <1>2 DEF vars, contractVars, Tick
  <2> QED BY <1>1, <2>1
<1>3. ASSUME NEW r \in Requests, NEW i, Takes(r, i), i.op = "answered",
             UNCHANGED <<masterVars, contracts, contractLog, planningVars>>
      PROVE  IInv'
  BY <1>3, OtherOps, NothingWritten
<1>4. ASSUME NEW r \in Requests, Start(r) PROVE IInv'
  <2>1. CASE MasterStart(r) /\ UNCHANGED <<contractVars, planningVars>>
    <3> PICK i : Takes(r, i) /\ i.op \in MasterOps /\ MasterSound(i) /\ UNCHANGED masterVars
      BY <2>1, MasterStartFacts
    <3>1. UNCHANGED <<masterVars, contracts, contractLog, planningVars>>
      BY <2>1 DEF contractVars
    <3> QED BY <3>1, OtherOps, NothingWritten
  <2>2. CASE ContractStart(r) /\ UNCHANGED planningVars
    <3> PICK i : /\ Takes(r, i) /\ i.op \in ContractOps /\ ContractSound(i)
                 /\ UNCHANGED <<contractVars, masterVars>>
      BY <2>2, ContractStartFacts DEF IInv
    <3>1. UNCHANGED <<masterVars, contracts, contractLog, planningVars>>
      BY <2>2 DEF contractVars
    <3> QED BY <3>1, OtherOps, NothingWritten
  <2>3. CASE PlanningStart(r) /\ ~MoveOn(r)
    <3> PICK i : /\ Takes(r, i) /\ i.op \in PlanningOps /\ PlanningSound(i)
                 /\ UNCHANGED <<masterVars, contractVars, planningVars>>
      BY <2>3, PlanningStartFacts DEF IInv
    <3>1. UNCHANGED <<masterVars, contracts, contractLog, planningVars>>
      BY DEF contractVars
    <3> QED BY <3>1, OtherOps, NothingWritten
  <2>4. CASE MoveOn(r)
    <3>1. End(r) /\ UNCHANGED <<masterVars, contracts, contractLog>>
      BY <2>4 DEF MoveOn, contractVars
    <3>2. Takes(r, Answered) /\ MasterSound(Answered) /\ ContractSound(Answered)
      BY <3>1, EndFacts, OtherOps
    <3>3. RequestsInv' /\ MasterInv' /\ ContractInv'
      BY <3>1, <3>2, TakesKeeps, MasterUntouched, ContractUntouched DEF IInv, Takes
    <3> QED BY <2>4, <3>3, MoveOnKeeps DEF IInv
  <2> QED BY <1>4, <2>1, <2>2, <2>3, <2>4 DEF Start
<1>5. ASSUME NEW r \in Requests, GoOn(r) PROVE IInv'
  <2>1. CASE MasterCommit(r) /\ UNCHANGED <<contractVars, planningVars>>
    <3>1. MasterInv' /\ MastersStand /\ End(r) /\ UNCHANGED <<contracts, contractLog>>
      BY <2>1, MasterCommitFacts DEF IInv, contractVars
    <3>2. Takes(r, Answered) /\ ContractSound(Answered) /\ PlanningSound(Answered)
      BY <3>1, EndFacts, OtherOps
    <3>3. RequestsInv' /\ ContractInv' /\ ContractsStand
      BY <3>1, <3>2, TakesKeeps, ContractUntouched DEF IInv, Takes
    <3>4. PlanningInv'
      BY <2>1, <3>1, <3>2, <3>3, PlanningUntouched DEF IInv, Takes
    <3> QED BY <3>1, <3>3, <3>4 DEF IInv
  <2>2. CASE ExpireNext(r) /\ UNCHANGED planningVars
    <3> PICK i : /\ Takes(r, i) /\ i.op = "expire" /\ ContractSound(i)
                 /\ UNCHANGED <<contractVars, masterVars>>
      BY <2>2, ExpireNextFacts DEF IInv
    <3>1. UNCHANGED <<masterVars, contracts, contractLog, planningVars>> /\ i.op \in ContractOps
      BY <2>2 DEF contractVars, ContractOps
    <3> QED BY <3>1, OtherOps, NothingWritten
  <2>3. CASE /\ CommitSigning(r) \/ CommitContract(r) \/ CommitExpiry(r)
             /\ UNCHANGED planningVars
    <3>1. End(r) /\ UNCHANGED masterVars
      BY <2>3 DEF CommitSigning, CommitContract, CommitExpiry
    <3>2. ContractInv' /\ ContractsStand
      BY <2>3, CommitSigningKeeps, CommitContractKeeps, CommitExpiryKeeps DEF IInv
    <3>3. Takes(r, Answered) /\ MasterSound(Answered) /\ PlanningSound(Answered)
      BY <3>1, EndFacts, OtherOps
    <3>4. RequestsInv' /\ MasterInv' /\ MastersStand
      BY <3>1, <3>3, TakesKeeps, MasterUntouched DEF IInv, Takes
    <3>5. PlanningInv'
      BY <2>3, <3>2, <3>3, <3>4, PlanningUntouched DEF IInv, Takes
    <3> QED BY <3>2, <3>4, <3>5 DEF IInv
  <2>4. CASE PlanningCommit(r)
    <3>1. End(r) /\ UNCHANGED <<masterVars, contracts, contractLog>>
      BY <2>4 DEF PlanningCommit, CommitMission, CommitReplan, CommitCrew, CommitStop, CommitIssue,
                  CommitShare, contractVars
    <3>2. Takes(r, Answered) /\ MasterSound(Answered) /\ ContractSound(Answered)
      BY <3>1, EndFacts, OtherOps
    <3>3. RequestsInv' /\ MasterInv' /\ ContractInv'
      BY <3>1, <3>2, TakesKeeps, MasterUntouched, ContractUntouched DEF IInv, Takes
    <3>4. PlanningInv'
      BY <2>4, CommitMissionKeeps, CommitReplanKeeps, CommitCrewKeeps, CommitStopKeeps,
         CommitIssueKeeps DEF PlanningCommit, IInv
    <3> QED BY <3>3, <3>4 DEF IInv
  <2>5. CASE Rollback(r) /\ UNCHANGED <<masterVars, contractVars, planningVars>>
    <3>1. Takes(r, Answered) /\ Answered.op = "answered"
      BY <2>5, EndFacts DEF Rollback
    <3>2. UNCHANGED <<masterVars, contracts, contractLog, planningVars>>
      BY <2>5 DEF contractVars
    <3> QED BY <1>3, <3>1, <3>2
  <2> QED BY <1>5, <2>1, <2>2, <2>3, <2>4, <2>5 DEF GoOn, ContractGoOn
<1>6. UNCHANGED vars \/ (Tick /\ UNCHANGED planningVars) \/ \E r \in Requests : Start(r) \/ GoOn(r)
  BY DEF Next
<1>7. CASE \E r \in Requests : Start(r) \/ GoOn(r)
  BY <1>4, <1>5, <1>7
<1> QED
  BY <1>2, <1>6, <1>7

LEMMA MasterInvInit == Init => MasterInv
<1> SUFFICES ASSUME Init PROVE MasterInv
  OBVIOUS
<1>1. /\ masters = [m \in Masters |-> IF m \in DOMAIN Existing THEN NewMaster(Existing[m]) ELSE Absent]
      /\ routes = [t \in Routes |-> NoRoute]
  BY DEF Init, MasterInit
<1>2. ASSUME NEW m \in Masters
      PROVE  /\ masters[m] = Absent \/ masters[m].status # "ABSENT"
             /\ masters[m].status # "ARCHIVED"
  BY <1>1 DEF NewMaster, Absent
<1>3. MastersTyped
  BY <1>1, <1>2 DEF MastersTyped
<1>4. ArchivedShows /\ RoutesOwned
  BY <1>1, <1>2 DEF ArchivedShows, RoutesOwned
<1>5. \A r \in Requests : MasterSound(inflight[r])
  BY DEF Init, TransactionsInit, Waiting, MasterSound
<1> QED
  BY <1>3, <1>4, <1>5 DEF MasterInv

LEMMA ContractInvInit == Init => ContractInv
<1> SUFFICES ASSUME Init PROVE ContractInv
  OBVIOUS
<1>1. /\ contracts = [c \in Contracts |-> IF c \in DOMAIN Signed THEN Signed[c] ELSE NoContractRow]
      /\ contractLog = [c \in Contracts |-> <<>>]
  BY DEF Init, ContractsInit
<1>2. ContractsTyped
  BY <1>1, SignedAssumption DEF ContractsTyped
<1>3. \A c \in Contracts : Chain(contractLog[c], contracts[c].status)
  BY <1>1 DEF Chain
<1>4. \A r \in Requests : ContractSound(inflight[r])
  BY DEF Init, TransactionsInit, Waiting, ContractSound
<1> QED
  BY <1>2, <1>3, <1>4 DEF ContractInv

LEMMA PlanningInvInit == Init => PlanningInv
<1> SUFFICES ASSUME Init PROVE PlanningInv
  OBVIOUS
<1> PICK start \in Starts :
       /\ mission = start.mission
       /\ waybills = start.waybills
       /\ clientsHad = (IF mission = NoMission THEN {} ELSE {mission.plan.client})
       /\ crewsHad = (IF mission = NoMission THEN {} ELSE {mission.crew})
  BY DEF Init
<1>1. /\ mission \in MissionRow \cup {NoMission}
      /\ waybills \in Seq(WaybillEvent)
      /\ mission = NoMission => waybills = <<>>
      /\ mission # NoMission => PlannedAtStart(mission.plan) /\ CrewAtStart(mission.crew)
      /\ \A n \in DOMAIN waybills :
           /\ waybills[n].crew = mission.crew /\ mission.crew # NoCrew
           /\ n < Len(waybills) => ~waybills[n].token
  BY StartsAssumption
<1>2. ASSUME NEW m, m \in DOMAIN Existing PROVE Owned(m, Existing[m])
  <2>1. m \in Masters
    BY <1>2, ExistingAssumption
  <2>2. masters[m] = NewMaster(Existing[m])
    BY <1>2, <2>1 DEF Init, MasterInit
  <2> QED BY <2>1, <2>2 DEF Owned, NewMaster, Absent
<1>3. ASSUME mission # NoMission
      PROVE  /\ {"plan", "crew", "status"} \subseteq DOMAIN mission
             /\ mission.plan \in Plan /\ mission.crew \in Crews
  BY <1>1, <1>3 DEF MissionRow
<1>4. ASSUME mission # NoMission PROVE PlanFits(mission.plan)
  <2> PICK plan : plan = mission.plan
    OBVIOUS
  <2>1. plan \in Plan /\ PlannedAtStart(plan)
    BY <1>1, <1>3, <1>4
  <2>2. Owned(plan.warehouse, plan.client) /\ plan.route = None
    BY <1>2, <2>1 DEF PlannedAtStart
  <2>3. ASSUME plan.contract # None PROVE contracts[plan.contract] = Signed[plan.contract]
    <3>1. plan.contract \in Contracts /\ plan.contract \in DOMAIN Signed
      BY <2>1, <2>3 DEF Plan, PlannedAtStart
    <3> QED BY <3>1 DEF Init, ContractsInit
  <2> QED BY <2>1, <2>2, <2>3 DEF PlanFits, PlannedAtStart
<1>5. ASSUME mission # NoMission PROVE CrewFits(mission.crew)
  <2> PICK crew : crew = mission.crew
    OBVIOUS
  <2>1. crew \in Crews /\ CrewAtStart(crew)
    BY <1>1, <1>3, <1>5
  <2>2. ASSUME crew # NoCrew PROVE Owned(crew[2], crew[1]) /\ Owned(crew[3], crew[1])
    <3>1. /\ crew[2] \in DOMAIN Existing /\ Existing[crew[2]] = crew[1]
          /\ crew[3] \in DOMAIN Existing /\ Existing[crew[3]] = crew[1]
      BY <2>1, <2>2 DEF CrewAtStart
    <3>2. Owned(crew[2], Existing[crew[2]]) /\ Owned(crew[3], Existing[crew[3]])
      BY <1>2, <3>1
    <3> QED BY <3>1, <3>2
  <2> QED BY <2>1, <2>2 DEF CrewFits
<1>6. MissionFits
  BY <1>3, <1>4, <1>5 DEF MissionFits
<1>7. WaybillsFit
  <2>1. waybills # <<>> => mission # NoMission /\ crewsHad = {mission.crew} /\ 1 \in DOMAIN waybills
    BY <1>1
  <2>2. shared = FALSE
    BY DEF Init
  <2> QED BY <1>1, <2>1, <2>2 DEF WaybillsFit
<1>8. clientsHad \subseteq Clients /\ (mission = NoMission => clientsHad = {})
  BY <1>3 DEF Plan
<1>9. /\ \A branch \in visits : VisitFits(branch)
      /\ \A r \in Requests : PlanningSound(inflight[r])
  BY DEF Init, TransactionsInit, Waiting, PlanningSound
<1> QED
  BY <1>6, <1>7, <1>8, <1>9 DEF PlanningInv

LEMMA IInvInit == Init => IInv
<1>1. Init => RequestsInv
  BY DEF Init, TransactionsInit, Waiting, RequestsInv, LocksExclusive
<1> QED
  BY <1>1, MasterInvInit, ContractInvInit, PlanningInvInit DEF IInv

LEMMA IInvSafe == Spec => []IInv
  BY IInvInit, IInvStep, PTL DEF Spec

-------------------------------------------------------------------------------
(* What the invariant says of the components.                                  *)

\* However partial updates of a mission (MissionsService.update), its crews and
\* its stops overlap with each other and with changes of the master data, the
\* warehouse, the route and the contract are the client's, the contract covers
\* the loading time, the crew is of one carrier, and every stop, of the mission
\* or of a route, is at a branch of a client that had it.
THEOREM PlanningSafe == Spec => []PlannedConsistently
<1>1. IInv => PlannedConsistently
  <2> SUFFICES ASSUME IInv PROVE PlannedConsistently
    OBVIOUS
  <2>1. RoutesAtOwnBranches
    <3>1. ASSUME NEW t \in Routes, NEW n \in DOMAIN routes[t].stops
          PROVE  masters[routes[t].stops[n]].owner = routes[t].client
      <4>1. routes[t] # NoRoute
        BY <3>1 DEF NoRoute
      <4> QED BY <3>1, <4>1 DEF IInv, MasterInv, RoutesOwned, StopsOwned, Owned
    <3> QED BY <3>1 DEF RoutesAtOwnBranches, IInv, MasterInv, ArchivedShows
  <2>2. ASSUME mission # NoMission
        PROVE  /\ PlanOf(mission.plan.client, mission.plan)
               /\ mission.crew # NoCrew =>
                    /\ masters[mission.crew[2]].owner = mission.crew[1]
                    /\ masters[mission.crew[3]].owner = mission.crew[1]
    BY <2>2 DEF IInv, PlanningInv, MissionFits, PlanFits, CrewFits, PlanOf, Owned
  <2>3. \A branch \in visits : masters[branch].owner \in clientsHad
    BY DEF IInv, PlanningInv, VisitFits, Owned
  <2> QED BY <2>1, <2>2, <2>3 DEF PlannedConsistently
<1> QED
  BY IInvSafe, <1>1, PTL

\* However many requests issue a mission's waybill at once
\* (WaybillsService.issue), the token is of the last event, so that no printed
\* waybill is answered SUPERSEDED, and all of them name one crew, which the
\* mission had.
THEOREM WaybillSafe == Spec => []OneWaybill
<1>1. IInv => OneWaybill
  <2> SUFFICES ASSUME IInv PROVE OneWaybill
    OBVIOUS
  <2>1. WaybillsFit
    BY DEF IInv, PlanningInv
  <2>2. ASSUME NEW n \in DOMAIN waybills, waybills[n].token PROVE Verification(n) # "SUPERSEDED"
    <3>1. ~(n < Len(waybills))
      BY <2>1, <2>2 DEF WaybillsFit
    <3> QED BY <3>1 DEF Verification
  <2> QED BY <2>1, <2>2 DEF OneWaybill, WaybillsFit
<1> QED
  BY IInvSafe, <1>1, PTL

\* However transitions and expiries of OperationalContractsService overlap,
\* what is audited of a contract chains up to its status, and nothing follows
\* an expiry or a termination.
THEOREM ContractSafe == Spec => []ContractHistory
<1>1. IInv => ContractHistory
  BY ContractConsequences DEF IInv
<1> QED
  BY IInvSafe, <1>1, PTL

\* expireDue takes the locks of a batch in the order of the query, so that two
\* of them never wait for each other.
THEOREM ExpirySafe == Spec => []ExpiryNeverDeadlocks
<1>1. IInv => ExpiryNeverDeadlocks
  BY ContractConsequences DEF IInv
<1> QED
  BY IInvSafe, <1>1, PTL

-------------------------------------------------------------------------------
(* What brings an archived row back.                                           *)

Revived(m) == masters[m].status = "ARCHIVED" /\ masters'[m].status # "ARCHIVED"

UpdateSawIt(m) ==
  \E r \in Requests :
    /\ inflight[r].op = "update" /\ inflight[r].id = m
    /\ inflight[r].seen.status # "ARCHIVED"

LEMMA RevivedStep ==
  ASSUME IInv, [Next]_vars, NEW m \in Masters, Revived(m)
  PROVE  UpdateSawIt(m)
<1>1. ASSUME NEW r \in Requests, MasterCommit(r) PROVE UpdateSawIt(m)
  <2> PICK i : i = inflight[r]
    OBVIOUS
  <2>0. masters = [k \in Masters |-> masters[k]] /\ MasterSound(i)
    BY DEF IInv, MasterInv, MastersTyped
  <2>1. CASE CommitCreate(r)
    <3>1. masters[i.id].status # "ARCHIVED" /\ masters' = [masters EXCEPT ![i.id] = NewMaster(i.owner)]
      BY <2>1 DEF CommitCreate, Absent
    <3>2. m # i.id
      BY <3>1 DEF Revived
    <3> QED BY <2>0, <3>1, <3>2 DEF Revived
  <2>2. CASE CommitUpdate(r)
    <3>1. i.op = "update" /\ i.seen.status # "ARCHIVED"
      BY <2>0, <2>2 DEF CommitUpdate, MasterSound
    <3>2. m = i.id
      BY <2>0, <2>2 DEF CommitUpdate, Revived
    <3> QED BY <3>1, <3>2 DEF UpdateSawIt
  <2>3. CASE CommitArchive(r)
    BY <2>0, <2>3 DEF CommitArchive, Revived
  <2>4. CASE CommitRoute(r)
    BY <2>4 DEF CommitRoute, Revived
  <2> QED BY <1>1, <2>1, <2>2, <2>3, <2>4 DEF MasterCommit
<1>2. masters' # masters
  BY DEF Revived
<1>3. ASSUME NEW r \in Requests, Start(r) PROVE FALSE
  <2>1. CASE MasterStart(r)
    BY <1>2, <2>1, MasterStartFacts DEF masterVars
  <2>2. CASE ContractStart(r)
    BY <1>2, <2>2 DEF ContractStart, SignContract, ReadContract, ListDueContracts, masterVars
  <2>3. CASE PlanningStart(r)
    BY <1>2, <2>3 DEF PlanningStart, CreateMission, ReadMission, ReadCrew, ReadBranch, MoveOn,
       ReadWaybill, ReadShared, masterVars
  <2> QED BY <1>3, <2>1, <2>2, <2>3 DEF Start
<1>4. ASSUME NEW r \in Requests, GoOn(r), ~MasterCommit(r) PROVE FALSE
  <2>1. CASE ContractGoOn(r)
    BY <1>2, <2>1 DEF ContractGoOn, CommitSigning, CommitContract, ExpireNext, CommitExpiry, masterVars
  <2>2. CASE PlanningCommit(r)
    BY <1>2, <2>2 DEF PlanningCommit, CommitMission, CommitReplan, CommitCrew, CommitStop,
       CommitIssue, CommitShare, masterVars
  <2> QED BY <1>2, <1>4, <2>1, <2>2 DEF GoOn, masterVars
<1>5. ~(UNCHANGED vars \/ Tick)
  BY <1>2 DEF vars, masterVars, Tick
<1>6. UNCHANGED vars \/ Tick \/ \E r \in Requests : Start(r) \/ GoOn(r)
  BY DEF Next
<1> QED
  BY <1>1, <1>3, <1>4, <1>5, <1>6

\* The master data services write by id alone, so that an archived row can come
\* back, but only by an update that read it before it was archived.
THEOREM RevivedSafe == Spec => RevivedByOverlapOnly
<1>1. IInv /\ [Next]_vars =>
        [\A m \in Masters : masters[m].status = "ARCHIVED" /\ masters'[m].status # "ARCHIVED" =>
           \E r \in Requests :
             /\ inflight[r].op = "update" /\ inflight[r].id = m
             /\ inflight[r].seen.status # "ARCHIVED"]_masterVars
  BY RevivedStep DEF Revived, UpdateSawIt
<1> QED
  BY IInvInit, IInvStep, <1>1, PTL DEF Spec, RevivedByOverlapOnly

-------------------------------------------------------------------------------
(* The types.                                                                  *)

Intent == MasterIntent \cup ContractIntent \cup PlanningIntent

Known == {Waiting, Answered} \cup Intent

\* The contracts have theirs by the invariant above.
TypeInv ==
  /\ \A r \in Requests : inflight[r] \in Known
  /\ masters \in [Masters -> MasterRow \cup {Absent}]
  /\ routes \in [Routes -> RouteRow \cup {NoRoute}]
  /\ now \in Times
  /\ mission \in MissionRow \cup {NoMission}
  /\ visits \subseteq Branches
  /\ crewsHad \subseteq Crews
  /\ shared \in BOOLEAN

\* What the kinds of requests remember.
LEMMA KnownFields ==
  ASSUME NEW i \in Known
  PROVE  /\ i.op = "create" => i.id \in Masters /\ i.owner \in Owners
         /\ i.op \in {"update", "archive"} => i.id \in Masters
         /\ i.op = "update" => i.seen \in MasterRow /\ i.status \in {"ACTIVE", "INACTIVE", Keep}
         /\ i.op = "route" => i.id \in Routes /\ i.client \in Clients /\ i.stops \in Seq(Branches)
         /\ i.op = "plan" => i.plan \in Plan
         /\ i.op = "replan" => i.change \in Change
         /\ i.op = "crew" => i.crew \in Crews
         /\ i.op = "stop" => i.branch \in Branches
         /\ i.op = "expire" =>
              /\ i.locks \subseteq {ContractLock(c) : c \in Contracts} /\ i.at \in Times
              /\ i.due \in Seq(Listing) /\ i.expired \subseteq Listing
<1>1. CASE i \in {Waiting, Answered}
  BY <1>1 DEF Waiting, Answered
<1>2. CASE i \in MasterIntent
  BY <1>2 DEF MasterIntent
<1>3. CASE i \in ContractIntent
  BY <1>3 DEF ContractIntent
<1>4. CASE i \in PlanningIntent
  BY <1>4 DEF PlanningIntent
<1> QED
  BY <1>1, <1>2, <1>3, <1>4 DEF Known, Intent

LEMMA KnownAll ==
  ASSUME RequestsInv, TypeInv, NEW r \in Requests, NEW i \in Known, Remember(r, i)
  PROVE  \A q \in Requests : inflight'[q] \in Known
<1>1. inflight'[r] = i /\ \A q \in Requests : q # r => inflight'[q] = inflight[q]
  BY Remembered
<1> QED
  BY <1>1 DEF TypeInv

\* A request that begins or goes on, and changes nothing yet.
LEMMA OnlyRemembers ==
  ASSUME RequestsInv, TypeInv, NEW r \in Requests, NEW i \in Known, Remember(r, i),
         UNCHANGED <<masterVars, contractVars, planningVars>>
  PROVE  TypeInv'
<1>1. \A q \in Requests : inflight'[q] \in Known
  BY KnownAll
<1> QED
  BY <1>1 DEF TypeInv, masterVars, contractVars, planningVars

LEMMA EndKnown ==
  ASSUME RequestsInv, TypeInv, NEW r \in Requests, End(r)
  PROVE  \A q \in Requests : inflight'[q] \in Known
<1>1. Answered \in Known
  BY DEF Known
<1> QED
  BY <1>1, KnownAll DEF End

LEMMA MasterStartTyped ==
  ASSUME RequestsInv, TypeInv, NEW r \in Requests, MasterStart(r), UNCHANGED <<contractVars, planningVars>>
  PROVE  TypeInv'
<1>0. ASSUME NEW i \in MasterIntent, Begin(r, i), UNCHANGED masterVars PROVE TypeInv'
  <2>1. i \in Known
    BY DEF Known, Intent
  <2> QED BY <1>0, <2>1, OnlyRemembers DEF Begin
<1>1. ASSUME NEW m \in Masters, NEW owner \in Owners, BeginCreate(r, m, owner) PROVE TypeInv'
  <2>1. [op |-> "create", locks |-> {}, id |-> m, owner |-> owner] \in MasterIntent
    BY DEF MasterIntent
  <2> QED BY <1>0, <1>1, <2>1 DEF BeginCreate
<1>2. ASSUME NEW m \in Masters, BeginUpdate(r, m) PROVE TypeInv'
  <2>1. masters[m] \in MasterRow
    BY <1>2 DEF BeginUpdate, Updatable, TypeInv
  <2> PICK status \in {"ACTIVE", "INACTIVE", Keep} :
        Begin(r, [op |-> "update", locks |-> {}, id |-> m, seen |-> masters[m], status |-> status])
    BY <1>2 DEF BeginUpdate
  <2>2. [op |-> "update", locks |-> {}, id |-> m, seen |-> masters[m], status |-> status] \in MasterIntent
    BY <2>1 DEF MasterIntent
  <2> QED BY <1>0, <1>2, <2>2 DEF BeginUpdate
<1>3. ASSUME NEW m \in Masters, BeginArchive(r, m) PROVE TypeInv'
  <2>1. [op |-> "archive", locks |-> {}, id |-> m] \in MasterIntent
    BY DEF MasterIntent
  <2> QED BY <1>0, <1>3, <2>1 DEF BeginArchive
<1>4. CASE CreateRoute(r)
  <2> PICK t \in Routes, client \in Clients, stops \in RouteStops :
        /\ Begin(r, [op |-> "route", locks |-> {}, id |-> t, client |-> client, stops |-> stops])
        /\ UNCHANGED masterVars
    BY <1>4 DEF CreateRoute
  <2>1. [op |-> "route", locks |-> {}, id |-> t, client |-> client, stops |-> stops] \in MasterIntent
    BY RouteStopsAssumption DEF MasterIntent
  <2> QED BY <1>0, <2>1
<1>5. CASE \/ CreateClient(r) \/ CreateCarrier(r) \/ CreateWarehouse(r)
           \/ CreateBranch(r) \/ CreateVehicle(r) \/ CreateDriver(r)
  <2> PICK m \in Masters, owner \in Owners : BeginCreate(r, m, owner)
    BY <1>5 DEF CreateClient, CreateCarrier, CreateWarehouse, CreateBranch, CreateVehicle, CreateDriver,
                Masters, Owners
  <2> QED BY <1>1
<1>6. CASE \/ UpdateClient(r) \/ UpdateCarrier(r) \/ UpdateWarehouse(r)
           \/ UpdateBranch(r) \/ UpdateVehicle(r) \/ UpdateDriver(r)
  <2> PICK m \in Masters : BeginUpdate(r, m)
    BY <1>6 DEF Masters, UpdateClient, UpdateCarrier, UpdateWarehouse, UpdateBranch, UpdateVehicle, UpdateDriver
  <2> QED BY <1>2
<1>7. CASE \/ ArchiveClient(r) \/ ArchiveCarrier(r) \/ ArchiveWarehouse(r)
           \/ ArchiveBranch(r) \/ ArchiveVehicle(r) \/ ArchiveDriver(r)
  <2> PICK m \in Masters : BeginArchive(r, m)
    BY <1>7 DEF Masters, ArchiveClient, ArchiveCarrier, ArchiveWarehouse, ArchiveBranch, ArchiveVehicle,
                ArchiveDriver
  <2> QED BY <1>3
<1> QED
  BY <1>4, <1>5, <1>6, <1>7 DEF MasterStart

LEMMA MasterCommitTyped ==
  ASSUME IInv, TypeInv, NEW r \in Requests, MasterCommit(r), UNCHANGED <<contractVars, planningVars>>
  PROVE  TypeInv'
<1> PICK i \in Known : i = inflight[r]
  BY DEF TypeInv
<1>1. /\ \A q \in Requests : inflight'[q] \in Known
      /\ UNCHANGED <<now, mission, visits, crewsHad, shared>>
  BY EndKnown DEF IInv, MasterCommit, CommitCreate, CommitUpdate, CommitArchive, CommitRoute,
                  contractVars, planningVars
<1>2. CASE CommitCreate(r)
  <2>1. i.op = "create" /\ masters' = [masters EXCEPT ![i.id] = NewMaster(i.owner)] /\ routes' = routes
    BY <1>2 DEF CommitCreate
  <2>2. NewMaster(i.owner) \in MasterRow
    BY <2>1, KnownFields DEF NewMaster, MasterRow
  <2>3. masters' \in [Masters -> MasterRow \cup {Absent}]
    BY <2>1, <2>2 DEF TypeInv
  <2> QED BY <1>1, <2>1, <2>3 DEF TypeInv
<1>3. CASE CommitUpdate(r)
  <2> PICK old : old = masters[i.id]
    OBVIOUS
  <2> PICK row : row = [status |-> IF i.status = Keep THEN old.status ELSE i.status,
                        owner |-> old.owner, archived |-> old.archived]
    OBVIOUS
  <2>1. i.op = "update" /\ masters' = [masters EXCEPT ![i.id] = row] /\ routes' = routes
    BY <1>3 DEF CommitUpdate
  <2>2. old \in MasterRow
    <3>1. i.id \in Masters /\ masters[i.id] # Absent
      BY <2>1 DEF IInv, MasterInv, MasterSound
    <3> QED BY <3>1 DEF TypeInv
  <2>3. row \in MasterRow
    BY <2>1, <2>2, KnownFields DEF MasterRow
  <2>4. masters' \in [Masters -> MasterRow \cup {Absent}]
    BY <2>1, <2>3 DEF TypeInv
  <2> QED BY <1>1, <2>1, <2>4 DEF TypeInv
<1>4. CASE CommitArchive(r)
  <2> PICK row : row = [status |-> "ARCHIVED", owner |-> masters[i.id].owner, archived |-> TRUE]
    OBVIOUS
  <2>1. i.op = "archive" /\ masters' = [masters EXCEPT ![i.id] = row] /\ routes' = routes
    BY <1>4 DEF CommitArchive
  <2>2. i.id \in Masters
    BY <2>1, KnownFields
  <2>3. masters[i.id].owner \in Owners
    BY <2>2 DEF TypeInv, MasterRow, Absent, Owners
  <2>4. row \in MasterRow
    BY <2>3 DEF MasterRow
  <2>5. masters' \in [Masters -> MasterRow \cup {Absent}]
    BY <2>1, <2>4 DEF TypeInv
  <2> QED BY <1>1, <2>1, <2>5 DEF TypeInv
<1>5. CASE CommitRoute(r)
  <2> PICK row : row = [client |-> i.client, stops |-> i.stops]
    OBVIOUS
  <2>1. i.op = "route" /\ routes' = [routes EXCEPT ![i.id] = row] /\ masters' = masters
    BY <1>5 DEF CommitRoute
  <2>2. row \in RouteRow
    BY <2>1, KnownFields DEF RouteRow
  <2>3. routes' \in [Routes -> RouteRow \cup {NoRoute}]
    BY <2>1, <2>2 DEF TypeInv
  <2> QED BY <1>1, <2>1, <2>3 DEF TypeInv
<1> QED
  BY <1>2, <1>3, <1>4, <1>5 DEF MasterCommit

LEMMA ContractStartTyped ==
  ASSUME IInv, TypeInv, NEW r \in Requests, ContractStart(r), UNCHANGED planningVars
  PROVE  TypeInv'
<1>0. ASSUME NEW i \in ContractIntent, Begin(r, i), UNCHANGED <<contractVars, masterVars>> PROVE TypeInv'
  <2>1. i \in Known
    BY DEF Known, Intent
  <2> QED BY <1>0, <2>1, OnlyRemembers DEF Begin, IInv
<1>1. CASE SignContract(r)
  <2> PICK c \in Contracts, parties \in PartySets, from \in Times, to \in Times :
        /\ Begin(r, [op |-> "sign", locks |-> {}, id |-> c,
                     row |-> [status |-> "DRAFT", parties |-> parties, from |-> from, to |-> to]])
        /\ UNCHANGED <<contractVars, masterVars>>
    BY <1>1 DEF SignContract
  <2> PICK row : row = [status |-> "DRAFT", parties |-> parties, from |-> from, to |-> to]
    OBVIOUS
  <2>1. row \in ContractRow
    BY DEF ContractRow, ContractStatus
  <2>2. [op |-> "sign", locks |-> {}, id |-> c, row |-> row] \in ContractIntent
    BY <2>1 DEF ContractIntent
  <2> QED BY <1>0, <2>2
<1>2. CASE ReadContract(r)
  <2> PICK c \in Contracts, target \in ContractStatus :
        /\ contracts[c] # NoContractRow
        /\ Begin(r, [op |-> "contract", locks |-> {ContractLock(c)}, id |-> c,
                     seen |-> contracts[c].status, target |-> target])
        /\ UNCHANGED <<contractVars, masterVars>>
    BY <1>2 DEF ReadContract
  <2> PICK i : i = [op |-> "contract", locks |-> {ContractLock(c)}, id |-> c,
                    seen |-> contracts[c].status, target |-> target]
    OBVIOUS
  <2>1. contracts[c].status \in ContractStatus
    BY DEF IInv, ContractInv, ContractsTyped, ContractRow
  <2>2. i \in [op : {"contract"}, locks : {{ContractLock(c)}}, id : {c}, seen : ContractStatus,
               target : ContractStatus]
    BY <2>1
  <2>3. i \in ContractIntent
    BY <2>2 DEF ContractIntent
  <2> QED BY <1>0, <2>3
<1>3. CASE ListDueContracts(r)
  <2> PICK at \in Times : \E list \in Batches(at) :
        /\ Begin(r, [op |-> "expire", locks |-> {}, at |-> at, expired |-> {},
                     due |-> [n \in DOMAIN list |-> [id |-> list[n], status |-> contracts[list[n]].status]]])
        /\ UNCHANGED <<contractVars, masterVars>>
    BY <1>3 DEF ListDueContracts
  <2> PICK list \in Batches(at) :
        /\ Begin(r, [op |-> "expire", locks |-> {}, at |-> at, expired |-> {},
                     due |-> [n \in DOMAIN list |-> [id |-> list[n], status |-> contracts[list[n]].status]]])
        /\ UNCHANGED <<contractVars, masterVars>>
    OBVIOUS
  <2>1. PICK size \in Nat :
          /\ list \in [1..size -> Contracts]
          /\ \A n \in 1..size : contracts[list[n]].status \in {"ACTIVE", "SUSPENDED"}
    BY BatchFacts DEF IInv, ContractInv
  <2>2. PICK due : due = [n \in DOMAIN list |-> [id |-> list[n], status |-> contracts[list[n]].status]]
    OBVIOUS
  <2>3. due \in [1..size -> Listing]
    BY <2>1, <2>2 DEF Listing, ContractStatus
  <2>4. due \in Seq(Listing)
    BY <2>3
  <2>5. [op |-> "expire", locks |-> {}, at |-> at, expired |-> {}, due |-> due] \in ContractIntent
    BY <2>4 DEF ContractIntent
  <2> QED BY <1>0, <2>2, <2>5
<1> QED
  BY <1>1, <1>2, <1>3 DEF ContractStart

LEMMA ContractGoOnTyped ==
  ASSUME IInv, TypeInv, NEW r \in Requests, ContractGoOn(r), UNCHANGED planningVars
  PROVE  TypeInv'
<1>1. CASE CommitSigning(r) \/ CommitContract(r) \/ CommitExpiry(r)
  <2>1. End(r) /\ UNCHANGED <<now, masterVars>>
    BY <1>1 DEF CommitSigning, CommitContract, CommitExpiry
  <2> QED BY <2>1, EndKnown DEF IInv, TypeInv, masterVars, planningVars
<1>2. CASE ExpireNext(r)
  <2> PICK i \in Known : i = inflight[r]
    BY DEF TypeInv
  <2> PICK next : next = Head(i.due)
    OBVIOUS
  <2> PICK new : new = IF StillDue(next, i.at) THEN {next} ELSE {}
    OBVIOUS
  <2> PICK j : j = [op |-> "expire", at |-> i.at, due |-> Tail(i.due),
                    locks |-> i.locks \cup {ContractLock(next.id)}, expired |-> i.expired \cup new]
    OBVIOUS
  <2>1. i.op = "expire" /\ i.due # <<>> /\ Remember(r, j) /\ UNCHANGED <<contractVars, masterVars>>
    BY <1>2 DEF ExpireNext
  <2>2. /\ i.locks \subseteq {ContractLock(c) : c \in Contracts} /\ i.at \in Times
        /\ i.due \in Seq(Listing) /\ i.expired \subseteq Listing
    BY <2>1, KnownFields
  <2>3. next \in Listing /\ Tail(i.due) \in Seq(Listing)
    BY <2>1, <2>2
  <2>4. next.id \in Contracts /\ i.expired \cup new \subseteq Listing
    BY <2>2, <2>3 DEF Listing
  <2>5. i.locks \cup {ContractLock(next.id)} \in SUBSET {ContractLock(c) : c \in Contracts}
    BY <2>2, <2>4
  <2>6. j \in [op : {"expire"}, locks : SUBSET {ContractLock(c) : c \in Contracts}, at : Times,
               due : Seq(Listing), expired : SUBSET Listing]
    BY <2>2, <2>3, <2>4, <2>5
  <2>7. j \in Known
    BY <2>6 DEF Known, Intent, ContractIntent
  <2> QED BY <2>1, <2>7, OnlyRemembers DEF IInv
<1> QED
  BY <1>1, <1>2 DEF ContractGoOn

LEMMA PlanningStartTyped ==
  ASSUME IInv, TypeInv, NEW r \in Requests, PlanningStart(r)
  PROVE  TypeInv'
<1>0. ASSUME NEW i \in PlanningIntent, Begin(r, i), UNCHANGED <<masterVars, contractVars, planningVars>>
      PROVE  TypeInv'
  <2>1. i \in Known
    BY DEF Known, Intent
  <2> QED BY <1>0, <2>1, OnlyRemembers DEF Begin, IInv
<1>1. CASE CreateMission(r)
  <2> PICK plan \in Plan :
        /\ Begin(r, [op |-> "plan", locks |-> {}, plan |-> plan])
        /\ UNCHANGED <<masterVars, contractVars, planningVars>>
    BY <1>1 DEF CreateMission
  <2>1. [op |-> "plan", locks |-> {}, plan |-> plan] \in PlanningIntent
    BY DEF PlanningIntent
  <2> QED BY <1>0, <2>1
<1>2. CASE ReadMission(r)
  <2> PICK change \in Change :
        /\ Begin(r, [op |-> "replan", locks |-> {UpdateLock}, change |-> change])
        /\ UNCHANGED <<masterVars, contractVars, planningVars>>
    BY <1>2 DEF ReadMission
  <2>1. [op |-> "replan", locks |-> {UpdateLock}, change |-> change] \in PlanningIntent
    BY DEF PlanningIntent
  <2> QED BY <1>0, <2>1
<1>3. CASE ReadCrew(r)
  <2> PICK crew \in Crews \ {NoCrew} :
        /\ Begin(r, [op |-> "crew", locks |-> {CrewLock}, crew |-> crew])
        /\ UNCHANGED <<masterVars, contractVars, planningVars>>
    BY <1>3 DEF ReadCrew
  <2>1. [op |-> "crew", locks |-> {CrewLock}, crew |-> crew] \in PlanningIntent
    BY DEF PlanningIntent
  <2> QED BY <1>0, <2>1
<1>4. CASE ReadBranch(r)
  <2> PICK branch \in Branches :
        /\ Begin(r, [op |-> "stop", locks |-> {StopsLock}, branch |-> branch])
        /\ UNCHANGED <<masterVars, contractVars, planningVars>>
    BY <1>4 DEF ReadBranch
  <2>1. [op |-> "stop", locks |-> {StopsLock}, branch |-> branch] \in PlanningIntent
    BY DEF PlanningIntent
  <2> QED BY <1>0, <2>1
<1>5. CASE ReadWaybill(r)
  <2>1. PICK event : event = Issued
    OBVIOUS
  <2>2. /\ mission # NoMission
        /\ Begin(r, [op |-> "issue", locks |-> {WaybillLock}, event |-> event])
        /\ UNCHANGED <<masterVars, contractVars, planningVars>>
    BY <1>5, <2>1 DEF ReadWaybill
  <2>3. event \in WaybillEvent
    <3>1. CASE waybills = <<>>
      <4>1. mission.crew \in Crews
        BY <2>2 DEF TypeInv, MissionRow
      <4> QED BY <2>1, <3>1, <4>1 DEF Issued, WaybillEvent
    <3>2. CASE waybills # <<>>
      <4>1. waybills \in Seq(WaybillEvent)
        BY DEF IInv, PlanningInv, WaybillsFit
      <4>2. waybills[Len(waybills)] \in WaybillEvent
        BY <3>2, <4>1
      <4>3. waybills[Len(waybills)].crew \in Crews
        BY <4>2 DEF WaybillEvent
      <4> QED BY <2>1, <3>2, <4>3 DEF Issued, WaybillEvent
    <3> QED BY <3>1, <3>2
  <2>4. [op |-> "issue", locks |-> {WaybillLock}, event |-> event] \in PlanningIntent
    BY <2>3 DEF PlanningIntent
  <2> QED BY <1>0, <2>2, <2>4
<1>6. CASE ReadShared(r)
  <2>1. [op |-> "share", locks |-> {}] \in PlanningIntent
    BY DEF PlanningIntent
  <2> QED BY <1>0, <1>6, <2>1 DEF ReadShared
<1>7. CASE MoveOn(r)
  <2> PICK target \in Transitions(mission.status) :
        /\ mission # NoMission /\ mission' = [mission EXCEPT !.status = target]
        /\ End(r)
        /\ UNCHANGED <<masterVars, contractVars, visits, clientsHad, crewsHad, waybills, shared>>
    BY <1>7 DEF MoveOn
  <2>1. target \in MissionStatus
    BY DEF Transitions, Forward, Cancellable, MissionStatus
  <2>2. mission' \in MissionRow
    BY <2>1 DEF TypeInv, MissionRow
  <2> QED BY <2>2, EndKnown DEF IInv, TypeInv, masterVars, contractVars
<1> QED
  BY <1>1, <1>2, <1>3, <1>4, <1>5, <1>6, <1>7 DEF PlanningStart

LEMMA PlanningCommitTyped ==
  ASSUME IInv, TypeInv, NEW r \in Requests, PlanningCommit(r)
  PROVE  TypeInv'
<1> PICK i \in Known : i = inflight[r]
  BY DEF TypeInv
<1>1. /\ \A q \in Requests : inflight'[q] \in Known
      /\ UNCHANGED <<masters, routes, now>>
  BY EndKnown DEF IInv, PlanningCommit, CommitMission, CommitReplan, CommitCrew, CommitStop, CommitIssue,
                  CommitShare, masterVars, contractVars
<1>2. CASE CommitMission(r)
  <2>1. /\ i.op = "plan" /\ mission' = [plan |-> i.plan, crew |-> NoCrew, status |-> "DRAFT"]
        /\ UNCHANGED <<visits, crewsHad, shared>>
    BY <1>2 DEF CommitMission
  <2>2. mission' \in MissionRow
    BY <2>1, KnownFields DEF MissionRow, Crews, MissionStatus
  <2> QED BY <1>1, <2>1, <2>2 DEF TypeInv
<1>3. CASE CommitReplan(r)
  <2>1. PICK plan : plan = Changed(mission.plan, i.change)
    OBVIOUS
  <2>2. /\ i.op = "replan" /\ mission' = [mission EXCEPT !.plan = plan]
        /\ UNCHANGED <<visits, crewsHad, shared>>
    BY <1>3, <2>1 DEF CommitReplan
  <2>3. mission \in MissionRow
    BY <2>2 DEF IInv, PlanningInv, PlanningSound, TypeInv
  <2>4. plan \in Plan
    <3>1. mission.plan \in Plan /\ i.change \in Change
      BY <2>2, <2>3, KnownFields DEF MissionRow
    <3> QED BY <2>1, <3>1, ChangedPlan
  <2>5. mission' \in MissionRow
    BY <2>2, <2>3, <2>4 DEF MissionRow
  <2> QED BY <1>1, <2>2, <2>5 DEF TypeInv
<1>4. CASE CommitCrew(r)
  <2>1. /\ i.op = "crew" /\ mission' = [mission EXCEPT !.crew = i.crew] /\ crewsHad' = crewsHad \cup {i.crew}
        /\ UNCHANGED <<visits, shared>>
    BY <1>4 DEF CommitCrew
  <2>2. mission \in MissionRow /\ i.crew \in Crews
    BY <2>1, KnownFields DEF IInv, PlanningInv, PlanningSound, TypeInv
  <2>3. mission' \in MissionRow
    BY <2>1, <2>2 DEF MissionRow
  <2> QED BY <1>1, <2>1, <2>2, <2>3 DEF TypeInv
<1>5. CASE CommitStop(r)
  <2>1. i.op = "stop" /\ visits' = visits \cup {i.branch} /\ UNCHANGED <<mission, crewsHad, shared>>
    BY <1>5 DEF CommitStop
  <2> QED BY <1>1, <2>1, KnownFields DEF TypeInv
<1>6. CASE CommitIssue(r)
  BY <1>1, <1>6 DEF CommitIssue, TypeInv
<1>7. CASE CommitShare(r)
  BY <1>1, <1>7 DEF CommitShare, TypeInv
<1> QED
  BY <1>2, <1>3, <1>4, <1>5, <1>6, <1>7 DEF PlanningCommit

LEMMA TypeInvInit == Init => TypeInv
<1> SUFFICES ASSUME Init PROVE TypeInv
  OBVIOUS
<1>1. ASSUME NEW r \in Requests PROVE inflight[r] \in Known
  <2>1. inflight[r] = Waiting
    BY DEF Init, TransactionsInit
  <2> QED BY <2>1 DEF Known
<1>2. masters \in [Masters -> MasterRow \cup {Absent}]
  <2>1. masters = [m \in Masters |-> IF m \in DOMAIN Existing THEN NewMaster(Existing[m]) ELSE Absent]
    BY DEF Init, MasterInit
  <2>2. ASSUME NEW m \in DOMAIN Existing PROVE NewMaster(Existing[m]) \in MasterRow
    BY ExistingAssumption DEF NewMaster, MasterRow
  <2> QED BY <2>1, <2>2
<1>3. routes \in [Routes -> RouteRow \cup {NoRoute}]
  BY DEF Init, MasterInit
<1>4. now \in Times /\ visits \subseteq Branches /\ shared \in BOOLEAN
  <2>1. now = 0 /\ visits = {} /\ shared = FALSE
    BY DEF Init, ContractsInit
  <2>2. 0 \in Times
    BY TimeAssumption DEF Times
  <2> QED BY <2>1, <2>2
<1>5. mission \in MissionRow \cup {NoMission} /\ crewsHad \subseteq Crews
  <2> PICK start \in Starts :
        mission = start.mission /\ crewsHad = IF mission = NoMission THEN {} ELSE {mission.crew}
    BY DEF Init
  <2>1. mission \in MissionRow \cup {NoMission}
    BY StartsAssumption
  <2>2. mission # NoMission => mission.crew \in Crews
    BY <2>1 DEF MissionRow
  <2> QED BY <2>1, <2>2
<1> QED
  BY <1>1, <1>2, <1>3, <1>4, <1>5 DEF TypeInv

LEMMA TypeInvStep == IInv /\ TypeInv /\ [Next]_vars => TypeInv'
<1> SUFFICES ASSUME IInv, TypeInv, [Next]_vars PROVE TypeInv'
  OBVIOUS
<1>1. CASE UNCHANGED vars
  BY <1>1 DEF vars, masterVars, contractVars, planningVars, TypeInv
<1>2. CASE Tick /\ UNCHANGED planningVars
  <2>1. now' \in Times
    BY <1>2, TimeAssumption DEF Tick, TypeInv, Times
  <2> QED BY <1>2, <2>1 DEF Tick, masterVars, planningVars, TypeInv
<1>3. ASSUME NEW r \in Requests, Start(r) PROVE TypeInv'
  BY <1>3, MasterStartTyped, ContractStartTyped, PlanningStartTyped DEF Start, IInv
<1>4. ASSUME NEW r \in Requests, GoOn(r) PROVE TypeInv'
  <2>1. CASE Rollback(r) /\ UNCHANGED <<masterVars, contractVars, planningVars>>
    BY <2>1, EndKnown DEF Rollback, IInv, TypeInv, masterVars, contractVars, planningVars
  <2> QED BY <1>4, <2>1, MasterCommitTyped, ContractGoOnTyped, PlanningCommitTyped DEF GoOn
<1> QED
  BY <1>1, <1>2, <1>3, <1>4 DEF Next

\* Whatever requests overlap, the mission, the master data, the contracts and
\* the waybills are rows of their tables.
THEOREM TypesSafe == Spec => []TypeOK
<1>1. IInv /\ TypeInv => TypeOK
  <2> SUFFICES ASSUME IInv, TypeInv PROVE TypeOK
    OBVIOUS
  <2>1. inflight \in [Requests -> {Waiting, Answered} \cup MasterIntent \cup ContractIntent
                                    \cup PlanningIntent]
    BY DEF IInv, RequestsInv, TypeInv, Known, Intent
  <2> QED BY <2>1 DEF IInv, TypeInv, ContractInv, ContractsTyped, PlanningInv, WaybillsFit, TypeOK
<1> QED
  BY IInvSafe, TypeInvInit, TypeInvStep, <1>1, PTL DEF Spec

===============================================================================
