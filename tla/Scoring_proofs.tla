---------------------------- MODULE Scoring_proofs -----------------------------
(***************************************************************************)
(* Theorems about Scoring, for any number of keys, versions, missions,     *)
(* snapshots and overlapping requests: the periods of a configuration are  *)
(* disjoint, a cutoff is kept, and a snapshot has one result.              *)
(***************************************************************************)
EXTENDS Scoring, FiniteSetTheorems, TLAPS

-------------------------------------------------------------------------------
(* Sequences.                                                                  *)

LEMMA AppendFacts ==
  ASSUME NEW S, NEW s \in Seq(S), NEW x \in S
  PROVE  /\ Append(s, x) \in Seq(S)
         /\ Len(s) \in Nat
         /\ DOMAIN s = 1..Len(s)
         /\ Len(Append(s, x)) = Len(s) + 1
         /\ DOMAIN Append(s, x) = 1..(Len(s) + 1)
         /\ \A k \in DOMAIN s : s[k] \in S /\ Append(s, x)[k] = s[k]
         /\ Append(s, x)[Len(s) + 1] = x
  OBVIOUS

-------------------------------------------------------------------------------
(* The inductive invariant.                                                    *)

\* The period of a version lies where the overlap is asked for.
IsPeriod(from, to) == from \in Times /\ to \in Times \cup {Open}

ConfigureSound(i) ==
  i.op = "configure" => i.key \in Keys /\ IsPeriod(i.from, i.to) /\ i.at \in Times

\* Behind its lock a request has read all there is of the key: its version is
\* the next, and its period overlaps none.
ConfiguringSound(i) ==
  i.op = "configuring" =>
    /\ i.key \in Keys
    /\ i.locks = {VersionLock(i.key)}
    /\ i.row \in ConfigurationRow
    /\ i.row.version = Len(configurations[i.key]) + 1
    /\ \A v \in DOMAIN configurations[i.key] :
         ~Overlapping(configurations[i.key][v], i.row.from, i.row.to)

KeysLocked ==
  \A p, q \in Requests :
    p # q /\ inflight[p].op = "configuring" /\ inflight[q].op = "configuring"
    => inflight[p].key # inflight[q].key

RequestsSound ==
  /\ inflight = [r \in Requests |-> inflight[r]]
  /\ \A r \in Requests : /\ "op" \in DOMAIN inflight[r]
                         /\ ConfigureSound(inflight[r]) /\ ConfiguringSound(inflight[r])

Versioned ==
  /\ now \in Times
  /\ live \subseteq Keys
  /\ configurations \in [Keys -> Seq(ConfigurationRow)]

IInv == Versioned /\ RequestsSound /\ KeysLocked /\ PeriodsDisjoint

\* Two periods that do not overlap have no time in common.
LEMMA NoCommonTime ==
  ASSUME NEW old \in ConfigurationRow, NEW new \in ConfigurationRow,
         ~Overlapping(old, new.from, new.to), NEW t \in Times
  PROVE  ~(old.from <= t /\ old.to > t /\ new.from <= t /\ new.to > t)
<1>1. /\ old.from \in Int /\ old.to \in Int /\ new.from \in Int /\ new.to \in Int /\ t \in Int
  BY ClockAssumption DEF ConfigurationRow, Times, Open
<1> QED
  BY <1>1 DEF Overlapping

\* A version that is the next and overlaps none can be appended.
LEMMA NextVersion ==
  ASSUME NEW rows \in Seq(ConfigurationRow), NEW row \in ConfigurationRow,
         OneEffective(rows), row.version = Len(rows) + 1,
         \A v \in DOMAIN rows : ~Overlapping(rows[v], row.from, row.to)
  PROVE  OneEffective(Append(rows, row))
<1> DEFINE longer == Append(rows, row)
<1>1. /\ Len(rows) \in Nat /\ DOMAIN rows = 1..Len(rows)
      /\ DOMAIN longer = DOMAIN rows \cup {Len(rows) + 1}
      /\ \A v \in DOMAIN rows : rows[v] \in ConfigurationRow /\ longer[v] = rows[v]
      /\ longer[Len(rows) + 1] = row
  BY AppendFacts
<1> HIDE DEF longer
<1>2. ASSUME NEW v \in DOMAIN longer PROVE longer[v].version = v
  BY <1>1 DEF OneEffective
<1>3. ASSUME NEW v \in DOMAIN longer, NEW w \in DOMAIN longer, v # w, NEW t \in Times
      PROVE  ~(longer[v].from <= t /\ longer[v].to > t /\ longer[w].from <= t /\ longer[w].to > t)
  <2>1. CASE v \in DOMAIN rows /\ w \in DOMAIN rows
    <3>1. longer[v] = rows[v] /\ longer[w] = rows[w]
      BY <1>1, <2>1
    <3> QED BY <1>3, <2>1, <3>1 DEF OneEffective
  <2>2. CASE v \in DOMAIN rows /\ w = Len(rows) + 1
    BY <1>1, <2>2, NoCommonTime
  <2>3. CASE w \in DOMAIN rows /\ v = Len(rows) + 1
    BY <1>1, <2>3, NoCommonTime
  <2> QED BY <1>1, <1>3, <2>1, <2>2, <2>3
<1> QED
  BY <1>2, <1>3 DEF OneEffective, longer

-------------------------------------------------------------------------------
(* Steps.                                                                      *)

\* A request that neither was nor becomes one about configurations changes
\* nothing here; nor does one that ends.
LEMMA Unconcerned ==
  ASSUME IInv, NEW r \in Requests, NEW i, Remember(r, i), "op" \in DOMAIN i,
         i.op \notin {"configure", "configuring"}, UNCHANGED <<now, live, configurations>>
  PROVE  IInv'
<1>1. /\ inflight' = [q \in Requests |-> inflight'[q]]
      /\ inflight'[r] = i
      /\ \A q \in Requests : q # r => inflight'[q] = inflight[q]
  BY DEF IInv, RequestsSound, Remember
<1>2. RequestsSound'
  <2> SUFFICES ASSUME NEW q \in Requests
               PROVE  /\ "op" \in DOMAIN inflight'[q]
                      /\ ConfigureSound(inflight[q])' /\ ConfiguringSound(inflight[q])'
    BY <1>1 DEF RequestsSound
  <2>1. CASE q = r
    BY <1>1, <2>1 DEF ConfigureSound, ConfiguringSound
  <2>2. CASE q # r
    BY <1>1, <2>2 DEF IInv, RequestsSound, ConfigureSound, ConfiguringSound
  <2> QED BY <2>1, <2>2
<1>3. KeysLocked'
  BY <1>1 DEF IInv, KeysLocked
<1>4. Versioned' /\ PeriodsDisjoint'
  BY DEF IInv, Versioned, PeriodsDisjoint
<1> QED
  BY <1>2, <1>3, <1>4 DEF IInv

LEMMA EndUnconcerned ==
  ASSUME IInv, NEW r \in Requests, End(r), UNCHANGED <<now, live, configurations>>
  PROVE  IInv'
<1>1. "op" \in DOMAIN Answered /\ Answered.op = "answered"
  BY DEF Answered
<1> QED
  BY <1>1, Unconcerned DEF End

LEMMA CreateConfigurationKeeps ==
  ASSUME IInv, NEW r \in Requests, CreateConfiguration(r)
  PROVE  IInv'
<1> PICK k \in live, from \in Times, to \in Times \cup {Open} :
      /\ Begin(r, [op |-> "configure", locks |-> {}, key |-> k, from |-> from, to |-> to, at |-> now])
      /\ UNCHANGED scoringVars
  BY DEF CreateConfiguration
<1> PICK i : i = [op |-> "configure", locks |-> {}, key |-> k, from |-> from, to |-> to, at |-> now]
  OBVIOUS
<1>1. /\ inflight' = [q \in Requests |-> inflight'[q]]
      /\ inflight'[r] = i
      /\ \A q \in Requests : q # r => inflight'[q] = inflight[q]
      /\ UNCHANGED <<now, live, configurations>>
  BY DEF IInv, RequestsSound, Begin, Remember, scoringVars
<1>2. /\ "op" \in DOMAIN i /\ i.op = "configure" /\ i.key = k
      /\ i.from = from /\ i.to = to /\ i.at = now /\ k \in Keys /\ now \in Times
  BY DEF IInv, Versioned
<1>3. RequestsSound'
  <2> SUFFICES ASSUME NEW q \in Requests
               PROVE  /\ "op" \in DOMAIN inflight'[q]
                      /\ ConfigureSound(inflight[q])' /\ ConfiguringSound(inflight[q])'
    BY <1>1 DEF RequestsSound
  <2>1. CASE q = r
    BY <1>1, <1>2, <2>1 DEF ConfigureSound, ConfiguringSound, IsPeriod
  <2>2. CASE q # r
    BY <1>1, <2>2 DEF IInv, RequestsSound, ConfigureSound, ConfiguringSound
  <2> QED BY <2>1, <2>2
<1>4. KeysLocked'
  BY <1>1, <1>2 DEF IInv, KeysLocked
<1>5. Versioned' /\ PeriodsDisjoint'
  BY <1>1 DEF IInv, Versioned, PeriodsDisjoint
<1> QED
  BY <1>3, <1>4, <1>5 DEF IInv

\* The lock is free: nobody else is about to add a version of the key.
LEMMA LockVersionsKeeps ==
  ASSUME IInv, NEW r \in Requests, LockVersions(r)
  PROVE  IInv'
<1> PICK old : old = inflight[r]
  OBVIOUS
<1> PICK row : row = [from |-> old.from, to |-> old.to, at |-> old.at,
                      version |-> Len(configurations[old.key]) + 1]
  OBVIOUS
<1> PICK i : i = [op |-> "configuring", locks |-> {VersionLock(old.key)}, key |-> old.key, row |-> row]
  OBVIOUS
<1>1. /\ old.op = "configure"
      /\ Available(VersionLock(old.key), r)
      /\ \A v \in DOMAIN configurations[old.key] :
           ~Overlapping(configurations[old.key][v], old.from, old.to)
      /\ Remember(r, i)
      /\ UNCHANGED <<now, live, configurations>>
  BY DEF LockVersions, scoringVars
<1>2. /\ inflight' = [q \in Requests |-> inflight'[q]]
      /\ inflight'[r] = i
      /\ \A q \in Requests : q # r => inflight'[q] = inflight[q]
  BY <1>1 DEF IInv, RequestsSound, Remember
<1>3. old.key \in Keys /\ old.from \in Times /\ old.to \in Times \cup {Open} /\ old.at \in Times
  BY <1>1 DEF IInv, RequestsSound, ConfigureSound, IsPeriod
<1>4. Len(configurations[old.key]) \in Nat
  BY <1>3 DEF IInv, Versioned
<1>5. /\ row \in ConfigurationRow /\ row.from = old.from /\ row.to = old.to
      /\ row.version = Len(configurations[old.key]) + 1
  BY <1>3, <1>4 DEF ConfigurationRow
<1>6. /\ "op" \in DOMAIN i /\ i.op = "configuring" /\ i.locks = {VersionLock(old.key)}
      /\ i.key = old.key /\ i.row = row
  OBVIOUS
<1>7. RequestsSound'
  <2> SUFFICES ASSUME NEW q \in Requests
               PROVE  /\ "op" \in DOMAIN inflight'[q]
                      /\ ConfigureSound(inflight[q])' /\ ConfiguringSound(inflight[q])'
    BY <1>2 DEF RequestsSound
  <2>1. CASE q = r
    BY <1>1, <1>2, <1>3, <1>5, <1>6, <2>1 DEF ConfigureSound, ConfiguringSound, VersionLock
  <2>2. CASE q # r
    BY <1>1, <1>2, <2>2 DEF IInv, RequestsSound, ConfigureSound, ConfiguringSound
  <2> QED BY <2>1, <2>2
<1>8. KeysLocked'
  <2> SUFFICES ASSUME NEW q \in Requests, q # r, inflight[q].op = "configuring"
               PROVE  inflight[q].key # old.key
    BY <1>2, <1>6 DEF IInv, KeysLocked
  <2>1. VersionLock(old.key) \notin inflight[q].locks
    BY <1>1 DEF Available
  <2>2. inflight[q].locks = {VersionLock(inflight[q].key)}
    BY DEF IInv, RequestsSound, ConfiguringSound
  <2> QED BY <2>1, <2>2
<1>9. Versioned' /\ PeriodsDisjoint'
  BY <1>1 DEF IInv, Versioned, PeriodsDisjoint
<1> QED
  BY <1>7, <1>8, <1>9 DEF IInv

LEMMA CommitConfigurationKeeps ==
  ASSUME IInv, NEW r \in Requests, CommitConfiguration(r)
  PROVE  IInv'
<1> PICK i : i = inflight[r]
  OBVIOUS
<1> PICK k : k = i.key
  OBVIOUS
<1> PICK longer : longer = Append(configurations[k], i.row)
  OBVIOUS
<1>1. /\ i.op = "configuring"
      /\ configurations' = [configurations EXCEPT ![k] = longer]
      /\ End(r) /\ UNCHANGED <<now, live>>
  BY DEF CommitConfiguration
<1>2. /\ k \in Keys /\ i.row \in ConfigurationRow
      /\ i.row.version = Len(configurations[k]) + 1
      /\ \A v \in DOMAIN configurations[k] :
           ~Overlapping(configurations[k][v], i.row.from, i.row.to)
      /\ configurations[k] \in Seq(ConfigurationRow)
  BY <1>1 DEF IInv, RequestsSound, ConfiguringSound, Versioned
<1>3. longer \in Seq(ConfigurationRow) /\ OneEffective(longer)
  BY <1>2, NextVersion, AppendFacts DEF IInv, PeriodsDisjoint
<1>4. /\ configurations' \in [Keys -> Seq(ConfigurationRow)]
      /\ configurations'[k] = longer
      /\ \A key \in Keys : key # k => configurations'[key] = configurations[key]
  BY <1>1, <1>2, <1>3 DEF IInv, Versioned
<1>5. /\ inflight' = [q \in Requests |-> inflight'[q]]
      /\ inflight'[r] = Answered
      /\ \A q \in Requests : q # r => inflight'[q] = inflight[q]
  BY <1>1 DEF IInv, RequestsSound, End, Remember
<1>6. RequestsSound'
  <2> SUFFICES ASSUME NEW q \in Requests
               PROVE  /\ "op" \in DOMAIN inflight'[q]
                      /\ ConfigureSound(inflight[q])' /\ ConfiguringSound(inflight[q])'
    BY <1>5 DEF RequestsSound
  <2>1. CASE q = r
    BY <1>5, <2>1 DEF ConfigureSound, ConfiguringSound, Answered
  <2>2. CASE q # r
    <3>1. /\ inflight'[q] = inflight[q] /\ "op" \in DOMAIN inflight[q]
          /\ ConfigureSound(inflight[q]) /\ ConfiguringSound(inflight[q])
      BY <1>5, <2>2 DEF IInv, RequestsSound
    <3>2. inflight[q].op = "configuring" =>
            configurations'[inflight[q].key] = configurations[inflight[q].key]
      BY <1>1, <1>4, <2>2, <3>1 DEF IInv, KeysLocked, ConfiguringSound
    <3> QED BY <3>1, <3>2 DEF ConfigureSound, ConfiguringSound
  <2> QED BY <2>1, <2>2
<1>7. KeysLocked'
  BY <1>5 DEF IInv, KeysLocked, Answered
<1>8. PeriodsDisjoint'
  <2> SUFFICES ASSUME NEW key \in Keys PROVE OneEffective(configurations[key])'
    BY DEF PeriodsDisjoint
  <2>1. CASE key = k
    <3>1. configurations'[key] = longer /\ OneEffective(longer)
      BY <1>3, <1>4, <2>1
    <3> QED BY <3>1 DEF OneEffective
  <2>2. CASE key # k
    BY <1>4, <2>2 DEF IInv, PeriodsDisjoint, OneEffective
  <2> QED BY <2>1, <2>2
<1> QED
  BY <1>1, <1>4, <1>6, <1>7, <1>8 DEF IInv, Versioned

\* Requests about snapshots and results.
LEMMA OthersKeep ==
  ASSUME IInv, NEW r \in Requests,
         \/ CreateSnapshot(r) \/ Calculate(r) \/ ReadResult(r) \/ TakeLock(r)
         \/ CommitSnapshot(r) \/ CommitResult(r) \/ Publish(r)
         \/ Rollback(r) /\ UNCHANGED scoringVars
  PROVE  IInv'
<1>1. CASE CreateSnapshot(r)
  <2> PICK i : /\ Remember(r, i) /\ "op" \in DOMAIN i /\ i.op = "snapshot"
               /\ UNCHANGED <<now, live, configurations>>
    BY <1>1 DEF CreateSnapshot, Begin, scoringVars
  <2> QED BY Unconcerned
<1>2. CASE Calculate(r)
  <2> PICK i : /\ Remember(r, i) /\ "op" \in DOMAIN i /\ i.op = "calculate"
               /\ UNCHANGED <<now, live, configurations>>
    BY <1>2 DEF Calculate, Begin, scoringVars
  <2> QED BY Unconcerned
<1>3. CASE ReadResult(r)
  <2> PICK i : /\ Remember(r, i) /\ "op" \in DOMAIN i /\ i.op = "publish"
               /\ UNCHANGED <<now, live, configurations>>
    BY <1>3 DEF ReadResult, Begin, scoringVars
  <2> QED BY Unconcerned
<1>4. CASE TakeLock(r)
  <2> PICK old : old = inflight[r]
    OBVIOUS
  <2> PICK i : i = [old EXCEPT !.locks = {old.wanted}]
    OBVIOUS
  <2>1. /\ Remember(r, i) /\ old.op \in {"snapshot", "calculate"} /\ "op" \in DOMAIN old
        /\ UNCHANGED <<now, live, configurations>>
    BY <1>4 DEF TakeLock, scoringVars, IInv, RequestsSound
  <2>2. "op" \in DOMAIN i /\ i.op = old.op
    BY <2>1
  <2> QED BY <2>1, <2>2, Unconcerned
<1>5. CASE \/ CommitSnapshot(r) \/ CommitResult(r) \/ Publish(r)
           \/ Rollback(r) /\ UNCHANGED scoringVars
  <2>1. End(r) /\ UNCHANGED <<now, live, configurations>>
    BY <1>5 DEF CommitSnapshot, CommitResult, Publish, Rollback, scoringVars
  <2> QED BY <2>1, EndUnconcerned
<1> QED
  BY <1>1, <1>2, <1>3, <1>4, <1>5

\* What is no request: facts change, time passes, scopes end.
LEMMA EventsKeep ==
  ASSUME IInv, UNCHANGED <<inflight, configurations>>, now' \in Times, live' \subseteq Keys
  PROVE  IInv'
<1>1. RequestsSound' /\ KeysLocked'
  BY DEF IInv, RequestsSound, KeysLocked, ConfigureSound, ConfiguringSound
<1>2. Versioned' /\ PeriodsDisjoint'
  BY DEF IInv, Versioned, PeriodsDisjoint
<1> QED
  BY <1>1, <1>2 DEF IInv

LEMMA IInvInit == Init => IInv
<1> SUFFICES ASSUME Init PROVE IInv
  OBVIOUS
<1>1. configurations = [k \in Keys |-> IF k \in DOMAIN Versions THEN Versions[k] ELSE <<>>]
  BY DEF Init
<1>2. Versioned
  BY <1>1, ClockAssumption, VersionsAssumption DEF Init, Versioned, Times
<1>3. PeriodsDisjoint
  <2> SUFFICES ASSUME NEW k \in Keys PROVE OneEffective(configurations[k])
    BY DEF PeriodsDisjoint
  <2>1. CASE k \in DOMAIN Versions
    BY <1>1, <2>1, VersionsAssumption
  <2>2. CASE k \notin DOMAIN Versions
    <3>1. configurations[k] = <<>>
      BY <1>1, <2>2
    <3> QED BY <3>1 DEF OneEffective
  <2> QED BY <2>1, <2>2
<1>4. RequestsSound /\ KeysLocked
  BY DEF Init, TransactionsInit, RequestsSound, KeysLocked, ConfigureSound, ConfiguringSound, Waiting
<1> QED
  BY <1>2, <1>3, <1>4 DEF IInv

LEMMA IInvStep == IInv /\ [Next]_vars => IInv'
<1> SUFFICES ASSUME IInv, [Next]_vars PROVE IInv'
  OBVIOUS
<1>0. now \in Times /\ live \subseteq Keys
  BY DEF IInv, Versioned
<1>1. CASE UNCHANGED vars
  <2>1. UNCHANGED <<inflight, configurations, now, live>>
    BY <1>1 DEF vars, scoringVars
  <2> QED BY <1>0, <2>1, EventsKeep
<1>2. ASSUME NEW r \in Requests, Start(r) \/ GoOn(r) PROVE IInv'
  BY <1>2, CreateConfigurationKeeps, LockVersionsKeeps, CommitConfigurationKeeps, OthersKeep
     DEF Start, GoOn
<1>3. ASSUME NEW m \in Missions, Elsewhere(m) PROVE IInv'
  <2>1. UNCHANGED <<inflight, configurations, now, live>>
    BY <1>3 DEF Elsewhere, Transition, StartDeviation, ResolveDeviation, Commit, Undo, Arrive,
                UploadDocument, VerifyDocument, Write, Alter
  <2> QED BY <1>0, <2>1, EventsKeep
<1>4. CASE Tick
  <2>1. UNCHANGED <<inflight, configurations, live>> /\ now' \in Times
    BY <1>0, <1>4, ClockAssumption DEF Tick, Times
  <2> QED BY <1>0, <2>1, EventsKeep
<1>5. CASE Perish
  <2>1. UNCHANGED <<inflight, configurations, now>> /\ live' \subseteq Keys
    BY <1>0, <1>5 DEF Perish
  <2> QED BY <1>0, <2>1, EventsKeep
<1> QED
  BY <1>1, <1>2, <1>3, <1>4, <1>5 DEF Next

\* The create handlers of RuleConfigurationsService and KpiConfigurationsService
\* never leave two versions of a key effective at one time.
THEOREM PeriodsSafe == Spec => []PeriodsDisjoint
<1>1. IInv => PeriodsDisjoint
  BY DEF IInv
<1> QED
  BY IInvInit, IInvStep, <1>1, PTL DEF Spec

-------------------------------------------------------------------------------
(* Snapshots.                                                                  *)

\* What CutoffKept compares.
Same(f, g) ==
  /\ f.status = g.status
  /\ f.loading = g.loading
  /\ f.departure = g.departure
  /\ StatusEvents(f) = StatusEvents(g)
  /\ f.exceptions = g.exceptions

\* The rows that were taken, committed or not.
TakenRows ==
  {snapshots[key] : key \in {k \in SnapshotKeys : snapshots[k] # NoSnapshot}}
    \cup {inflight[r].row : r \in {q \in Requests : inflight[q].op = "snapshot"}}

Late(row) == row.taken > row.input.cutoff

\* What was captured after a cutoff, and misses no change stamped by it, is what
\* there still is of every mission that would be captured again: the changes that
\* are not committed yet are stamped later.
Kept(row) ==
  /\ IsSnapshot(row) /\ row.taken <= now
  /\ Late(row) =>
       \A m \in (DOMAIN row.facts) \ row.missed :
         /\ \A c \in uncommitted[m] : c.stamp > row.input.cutoff
         /\ Unchanged(missions[m], row.input.cutoff)
            => Same(row.facts[m], Captured(missions[m], row.input.cutoff))

Alike(s, t) ==
  s.input.cutoff = t.input.cutoff /\ Late(s) /\ Late(t)
  => \A m \in (DOMAIN s.facts \cap DOMAIN t.facts) \ (s.missed \cup t.missed) :
       Same(s.facts[m], t.facts[m])

\* The stamp of a change is on everything it writes that a snapshot judges by a
\* stamp: an exception is replaced by one that was opened at the same time, and
\* a change of the status comes with the row.
Stamped(c) ==
  /\ c.own # Missing => c.own.updated = c.stamp
  /\ \A e \in c.added : e.updated = c.stamp
  /\ \A e \in c.removed : \E x \in c.added : x.opened = e.opened
  /\ c.own = Missing => \A e \in c.events : e.type # "MISSION_STATUS_CHANGED"

MissionsTyped ==
  /\ missions \in [Missions -> MissionRow]
  /\ uncommitted \in [Missions -> SUBSET Change]
  /\ \A m \in Missions : \A c \in uncommitted[m] : Stamped(c)

LEMMA SnapshotFacts ==
  ASSUME NEW row, IsSnapshot(row)
  PROVE  /\ row.taken \in Times /\ row.input.cutoff \in Times
         /\ DOMAIN row.facts \subseteq Missions
         /\ \A m \in DOMAIN row.facts : row.facts[m] \in MissionFacts
BY DEF IsSnapshot

\* What a change of a mission writes, and the row it makes of the mission's.
LEMMA ChangeFacts ==
  ASSUME NEW c \in Change
  PROVE  /\ c.stamp \in Times /\ c.own \in OwnRow \cup {Missing}
         /\ c.removed \subseteq ExceptionRow /\ c.added \subseteq ExceptionRow
         /\ c.events \subseteq EventRow
BY DEF Change

LEMMA AfterFacts ==
  ASSUME NEW f \in MissionRow, NEW c \in Change
  PROVE  /\ After(f, c) \in MissionRow
         /\ After(f, c).own = IF c.own = Missing THEN f.own ELSE c.own
         /\ After(f, c).exceptions = (f.exceptions \ c.removed) \cup c.added
         /\ After(f, c).events = f.events \cup c.events
BY ChangeFacts DEF MissionRow, After

LEMMA CapturedFacts ==
  ASSUME NEW f \in MissionRow, NEW cutoff \in Times
  PROVE  Captured(f, cutoff) \in MissionFacts
<1> PICK exceptions, stops, events :
      /\ exceptions = {AtCutoff(e, cutoff) : e \in {x \in f.exceptions : x.opened <= cutoff}}
      /\ stops = [s \in Stops |->
                    LET stop == f.stops[s] IN
                    [expected |-> stop.expected, actual |-> stop.actual, cancelled |-> stop.cancelled,
                     pod |-> stop.verified /\ stop.created # Missing /\ stop.created <= cutoff]]
      /\ events = {e \in f.events : e.at <= cutoff}
  OBVIOUS
<1>1. exceptions \in SUBSET [rule : {"ROUTE_DEVIATION"}, opened : Times, open : BOOLEAN]
  <2>1. \A e \in f.exceptions : e.rule = "ROUTE_DEVIATION" /\ e.opened \in Times
    BY DEF MissionRow, ExceptionRow
  <2>2. ASSUME NEW e \in f.exceptions
        PROVE  AtCutoff(e, cutoff) \in [rule : {"ROUTE_DEVIATION"}, opened : Times, open : BOOLEAN]
    BY <2>1 DEF AtCutoff
  <2> QED BY <2>2
<1>2. stops \in [Stops -> [expected : Times \cup {Missing}, actual : Times \cup {Missing},
                          cancelled : BOOLEAN, pod : BOOLEAN]]
  <2>1. ASSUME NEW s \in Stops
        PROVE  /\ f.stops[s].expected \in Times \cup {Missing}
               /\ f.stops[s].actual \in Times \cup {Missing}
               /\ f.stops[s].cancelled \in BOOLEAN
    BY DEF MissionRow, StopRow
  <2> QED BY <2>1
<1>3. events \in SUBSET EventRow
  BY DEF MissionRow
<1>4. Captured(f, cutoff) =
        [status |-> f.own.status, schedule |-> f.schedule, loading |-> f.own.loading,
         departure |-> f.own.departure, stops |-> stops, events |-> events, exceptions |-> exceptions,
         sources |-> {}, temperatureRequired |-> f.temperatureRequired]
  BY DEF Captured
<1> QED
  BY <1>1, <1>2, <1>3, <1>4 DEF MissionRow, OwnRow, MissionFacts

\* What a request has taken it can commit.
SnapshotSound(i) == i.op = "snapshot" => "row" \in DOMAIN i /\ i.key \in SnapshotKeys

SnapshotsTyped ==
  /\ snapshots = [key \in SnapshotKeys |-> snapshots[key]]
  /\ \A r \in Requests : SnapshotSound(inflight[r])

CutoffInv ==
  /\ MissionsTyped
  /\ SnapshotsTyped
  /\ \A row \in TakenRows : Kept(row)
  /\ \A s, t \in TakenRows : Alike(s, t)

\* A change that is stamped after a cutoff leaves what the cutoff shows of the
\* mission, or the mission is not captured under that cutoff any more.
LEMMA CommittedLater ==
  ASSUME NEW f \in MissionRow, NEW c \in Change, Stamped(c), NEW cutoff \in Times,
         c.stamp > cutoff, NEW g, g = After(f, c), Unchanged(g, cutoff)
  PROVE  Unchanged(f, cutoff) /\ Same(Captured(g, cutoff), Captured(f, cutoff))
<1>0. c.stamp \in Int /\ cutoff \in Int
  BY ClockAssumption, ChangeFacts DEF Times
<1>1. c.own = Missing /\ g.own = f.own
  <2>1. g.own.updated <= cutoff
    BY DEF Unchanged
  <2> QED BY <1>0, <2>1, AfterFacts DEF Stamped
<1>2. ASSUME NEW e \in c.added PROVE ~(e.opened <= cutoff)
  <2>1. e \in g.exceptions /\ e.updated = c.stamp
    BY <1>2, AfterFacts DEF Stamped
  <2> QED BY <1>0, <2>1 DEF Unchanged
<1>3. ASSUME NEW e \in c.removed PROVE ~(e.opened <= cutoff)
  BY <1>2, <1>3 DEF Stamped
<1>4. {x \in g.exceptions : x.opened <= cutoff} = {x \in f.exceptions : x.opened <= cutoff}
  BY <1>2, <1>3, AfterFacts
<1>5. Unchanged(f, cutoff)
  BY <1>1, <1>4 DEF Unchanged
<1>6. {e \in {e \in g.events : e.at <= cutoff} : e.type = "MISSION_STATUS_CHANGED"}
      = {e \in {e \in f.events : e.at <= cutoff} : e.type = "MISSION_STATUS_CHANGED"}
  BY <1>1, AfterFacts DEF Stamped
<1>7. StatusEvents(Captured(g, cutoff)) = StatusEvents(Captured(f, cutoff))
  BY <1>6 DEF StatusEvents, EventsOf, Captured
<1> QED
  BY <1>1, <1>4, <1>5, <1>7 DEF Same, Captured

\* What is not judged by a stamp says nothing of the row, the exceptions or the
\* changes of the status.
Beside(f, g) ==
  /\ g \in MissionRow
  /\ g.own = f.own /\ g.exceptions = f.exceptions
  /\ {e \in g.events : e.type = "MISSION_STATUS_CHANGED"}
     = {e \in f.events : e.type = "MISSION_STATUS_CHANGED"}

LEMMA BesideSame ==
  ASSUME NEW f, NEW g, Beside(f, g), NEW cutoff
  PROVE  /\ Unchanged(g, cutoff) => Unchanged(f, cutoff)
         /\ Same(Captured(g, cutoff), Captured(f, cutoff))
<1>1. {e \in {e \in g.events : e.at <= cutoff} : e.type = "MISSION_STATUS_CHANGED"}
      = {e \in {e \in f.events : e.at <= cutoff} : e.type = "MISSION_STATUS_CHANGED"}
  BY DEF Beside
<1>2. StatusEvents(Captured(g, cutoff)) = StatusEvents(Captured(f, cutoff))
  BY <1>1 DEF StatusEvents, EventsOf, Captured
<1> QED
  BY <1>2 DEF Beside, Unchanged, Same, Captured

\* A change that is written is stamped.
LEMMA TransitionWrites ==
  ASSUME IInv, CutoffInv, NEW m \in Missions, Transition(m)
  PROVE  \E c \in Change : Write(m, c) /\ Stamped(c) /\ c.stamp = now
<1> PICK own : own = missions[m].own
  OBVIOUS
<1>0. /\ own \in OwnRow /\ now \in Times /\ missions[m].exceptions \subseteq ExceptionRow
  BY DEF CutoffInv, MissionsTyped, MissionRow, IInv, Versioned
<1>1. PICK to \in Transitions(own.status), at \in Times :
        LET closing == IF to = "OPERATIONALLY_CLOSED" THEN OpenOf(m) ELSE {} IN
        Write(m, [stamp |-> now,
                  own |-> [status |-> to, updated |-> now,
                           loading |-> IF to = "LOADING" THEN at ELSE own.loading,
                           departure |-> IF to = "DEPARTED" THEN at ELSE own.departure],
                  removed |-> closing, added |-> {Closed(e, at) : e \in closing},
                  events |-> {[type |-> "MISSION_STATUS_CHANGED", at |-> at]}])
  BY DEF Transition
<1> PICK closing : closing = IF to = "OPERATIONALLY_CLOSED" THEN OpenOf(m) ELSE {}
  OBVIOUS
<1> PICK after : after = [status |-> to, updated |-> now,
                          loading |-> IF to = "LOADING" THEN at ELSE own.loading,
                          departure |-> IF to = "DEPARTED" THEN at ELSE own.departure]
  OBVIOUS
<1> PICK c : c = [stamp |-> now, own |-> after, removed |-> closing,
                  added |-> {Closed(e, at) : e \in closing},
                  events |-> {[type |-> "MISSION_STATUS_CHANGED", at |-> at]}]
  OBVIOUS
<1>2. Write(m, c)
  BY <1>1
<1>3. to \in MissionStatus
  BY <1>0 DEF Transitions, Forward, OwnRow, MissionStatus
<1>4. after \in OwnRow /\ after.updated = now
  BY <1>0, <1>3 DEF OwnRow
<1>5. closing \subseteq ExceptionRow
  BY <1>0 DEF OpenOf
<1>6. ASSUME NEW e \in closing
      PROVE  /\ Closed(e, at) \in ExceptionRow
             /\ Closed(e, at).updated = now /\ Closed(e, at).opened = e.opened
  BY <1>0, <1>5 DEF ExceptionRow, Closed
<1>7. {Closed(e, at) : e \in closing} \subseteq ExceptionRow
  BY <1>6
<1>8. {[type |-> "MISSION_STATUS_CHANGED", at |-> at]} \subseteq EventRow
  BY DEF EventRow, EventTypes
<1>9. c \in Change
  BY <1>0, <1>4, <1>5, <1>7, <1>8 DEF Change
<1>10. Stamped(c)
  <2>1. \A e \in c.added : e.updated = c.stamp
    BY <1>6
  <2>2. \A e \in c.removed : \E x \in c.added : x.opened = e.opened
    BY <1>6
  <2>3. c.own # Missing => c.own.updated = c.stamp
    BY <1>4
  <2>4. c.own # Missing
    BY <1>4, MissingAssumption
  <2> QED BY <2>1, <2>2, <2>3, <2>4 DEF Stamped
<1> QED
  BY <1>2, <1>9, <1>10

\* An incident, of events and exceptions of the mission.
LEMMA IncidentWrites ==
  ASSUME IInv, NEW m \in Missions, NEW removed \in SUBSET ExceptionRow, NEW e \in ExceptionRow,
         e.updated = now, \A x \in removed : x.opened = e.opened,
         NEW event \in EventRow, event.type # "MISSION_STATUS_CHANGED",
         Write(m, Incident({event}, removed, {e}))
  PROVE  \E c \in Change : Write(m, c) /\ Stamped(c) /\ c.stamp = now
<1> PICK c : c = Incident({event}, removed, {e})
  OBVIOUS
<1>1. c \in Change
  BY DEF Incident, Change, IInv, Versioned
<1>2. Stamped(c) /\ c.stamp = now
  BY DEF Incident, Stamped
<1> QED
  BY <1>1, <1>2

LEMMA DeviationsWrite ==
  ASSUME IInv, CutoffInv, NEW m \in Missions, StartDeviation(m) \/ ResolveDeviation(m)
  PROVE  \E c \in Change : Write(m, c) /\ Stamped(c) /\ c.stamp = now
<1>0. now \in Times /\ missions[m].exceptions \subseteq ExceptionRow
  BY DEF CutoffInv, MissionsTyped, MissionRow, IInv, Versioned
<1>1. CASE StartDeviation(m)
  <2> PICK at \in Times :
        Write(m, Incident({[type |-> "MISSION_ROUTE_DEVIATION_DETECTED", at |-> at]}, {}, {Detected(at)}))
    BY <1>1 DEF StartDeviation
  <2>1. Detected(at) \in ExceptionRow /\ Detected(at).updated = now
    BY <1>0 DEF Detected, ExceptionRow
  <2>2. [type |-> "MISSION_ROUTE_DEVIATION_DETECTED", at |-> at] \in EventRow
    BY DEF EventRow, EventTypes
  <2> QED BY <2>1, <2>2, IncidentWrites
<1>2. CASE ResolveDeviation(m)
  <2> PICK e \in OpenOf(m), at \in Times :
        Write(m, Incident({[type |-> "MISSION_ROUTE_DEVIATION_RECOVERED", at |-> at]},
                          {e}, {Recovered(e, at)}))
    BY <1>2 DEF ResolveDeviation
  <2>1. e \in ExceptionRow
    BY <1>0 DEF OpenOf
  <2>2. /\ Recovered(e, at) \in ExceptionRow /\ Recovered(e, at).updated = now
        /\ Recovered(e, at).opened = e.opened
    BY <1>0, <2>1 DEF Recovered, ExceptionRow
  <2>3. [type |-> "MISSION_ROUTE_DEVIATION_RECOVERED", at |-> at] \in EventRow
    BY DEF EventRow, EventTypes
  <2> QED BY <2>1, <2>2, <2>3, IncidentWrites
<1> QED
  BY <1>1, <1>2

\* What is committed at once is beside what the stamps are for.
LEMMA AltersBeside ==
  ASSUME IInv, CutoffInv, NEW m \in Missions, Arrive(m) \/ UploadDocument(m) \/ VerifyDocument(m)
  PROVE  \E g : Alter(m, g) /\ Beside(missions[m], g)
<1> PICK f : f = missions[m]
  OBVIOUS
<1>0. /\ f \in MissionRow /\ f.stops \in [Stops -> StopRow] /\ f.events \subseteq EventRow
      /\ now \in Times
  BY DEF CutoffInv, MissionsTyped, MissionRow, IInv, Versioned
<1>1. ASSUME NEW stops \in [Stops -> StopRow], NEW events \in SUBSET EventRow,
             {e \in events : e.type = "MISSION_STATUS_CHANGED"}
               = {e \in f.events : e.type = "MISSION_STATUS_CHANGED"},
             NEW g, g = [f EXCEPT !.stops = stops, !.events = events]
      PROVE  Beside(f, g)
  BY <1>0, <1>1 DEF Beside, MissionRow
<1>2. CASE Arrive(m)
  <2> PICK s \in Stops, at \in Times :
        Alter(m, [f EXCEPT !.stops[s].actual = at,
                           !.events = @ \cup {[type |-> "MISSION_STOP_ARRIVED", at |-> now]}])
    BY <1>2 DEF Arrive
  <2> PICK stops, events : /\ stops = [f.stops EXCEPT ![s] = [f.stops[s] EXCEPT !.actual = at]]
                           /\ events = f.events \cup {[type |-> "MISSION_STOP_ARRIVED", at |-> now]}
    OBVIOUS
  <2> PICK g : g = [f EXCEPT !.stops = stops, !.events = events]
    OBVIOUS
  <2>1. [f.stops[s] EXCEPT !.actual = at] \in StopRow
    BY <1>0 DEF StopRow
  <2>2. stops \in [Stops -> StopRow]
    BY <1>0, <2>1
  <2>3. events \in SUBSET EventRow
    BY <1>0 DEF EventRow, EventTypes
  <2>4. {e \in events : e.type = "MISSION_STATUS_CHANGED"}
          = {e \in f.events : e.type = "MISSION_STATUS_CHANGED"}
    OBVIOUS
  <2>5. Alter(m, g)
    OBVIOUS
  <2> QED BY <1>1, <2>2, <2>3, <2>4, <2>5
<1>3. CASE UploadDocument(m) \/ VerifyDocument(m)
  <2>1. PICK s \in Stops :
          \/ Alter(m, [f EXCEPT !.stops[s].created = now])
          \/ Alter(m, [f EXCEPT !.stops[s].verified = ~@])
    BY <1>3 DEF UploadDocument, VerifyDocument
  <2>2. PICK stops : /\ \/ stops = [f.stops EXCEPT ![s] = [f.stops[s] EXCEPT !.created = now]]
                        \/ stops = [f.stops EXCEPT ![s] = [f.stops[s] EXCEPT !.verified = ~f.stops[s].verified]]
                     /\ Alter(m, [f EXCEPT !.stops = stops])
    BY <2>1
  <2> PICK g : g = [f EXCEPT !.stops = stops, !.events = f.events]
    OBVIOUS
  <2>3. [f.stops[s] EXCEPT !.created = now] \in StopRow
    BY <1>0 DEF StopRow
  <2>4. [f.stops[s] EXCEPT !.verified = ~f.stops[s].verified] \in StopRow
    BY <1>0 DEF StopRow
  <2>5. stops \in [Stops -> StopRow]
    BY <1>0, <2>2, <2>3, <2>4
  <2>6. g = [f EXCEPT !.stops = stops]
    BY <1>0 DEF MissionRow
  <2> QED BY <1>0, <1>1, <2>2, <2>5, <2>6
<1> QED
  BY <1>2, <1>3

\* A step that takes no snapshot and changes no mission.
LEMMA CutoffUntouched ==
  ASSUME IInv, CutoffInv, TakenRows' \subseteq TakenRows, UNCHANGED <<missions, uncommitted>>,
         now' \in Times, now' >= now, SnapshotsTyped'
  PROVE  CutoffInv'
<1>0. now \in Int /\ now' \in Int /\ \A t \in Times : t \in Int
  BY ClockAssumption DEF IInv, Versioned, Times
<1>1. MissionsTyped'
  BY DEF CutoffInv, MissionsTyped
<1>2. ASSUME NEW row \in TakenRows' PROVE Kept(row)'
  <2>1. Kept(row)
    BY <1>2 DEF CutoffInv
  <2>2. row.taken \in Times /\ row.taken <= now
    BY <2>1, SnapshotFacts DEF Kept
  <2>3. ASSUME NEW taken \in Times, taken <= now PROVE taken <= now'
    BY <1>0, <2>3
  <2> QED BY <2>1, <2>2, <2>3 DEF Kept, Late
<1>3. ASSUME NEW s \in TakenRows', NEW t \in TakenRows' PROVE Alike(s, t)
  BY <1>3 DEF CutoffInv
<1>4. \A s, t \in TakenRows' : Alike(s, t)'
  BY <1>3 DEF Alike, Late
<1> QED
  BY <1>1, <1>2, <1>4 DEF CutoffInv

\* A step of the missions: what is kept for each of them stays so.
KeptOf(row, m) ==
  /\ \A c \in uncommitted[m] : c.stamp > row.input.cutoff
  /\ Unchanged(missions[m], row.input.cutoff)
     => Same(row.facts[m], Captured(missions[m], row.input.cutoff))

LEMMA MissionsChanged ==
  ASSUME IInv, CutoffInv, MissionsTyped', UNCHANGED <<inflight, now, snapshots>>,
         \A row \in TakenRows : Kept(row) /\ Late(row)
           => \A m \in (DOMAIN row.facts) \ row.missed : KeptOf(row, m) => KeptOf(row, m)'
  PROVE  CutoffInv'
<1>1. TakenRows' = TakenRows
  BY DEF TakenRows
<1>2. SnapshotsTyped'
  BY DEF CutoffInv, SnapshotsTyped, SnapshotSound
<1>3. ASSUME NEW row \in TakenRows PROVE Kept(row)'
  <2>1. Kept(row)
    BY <1>3 DEF CutoffInv
  <2>2. ASSUME Late(row), NEW m \in (DOMAIN row.facts) \ row.missed PROVE KeptOf(row, m)'
    <3>1. KeptOf(row, m)
      BY <2>1, <2>2 DEF Kept, KeptOf
    <3> QED BY <1>3, <2>1, <2>2, <3>1
  <2> QED BY <2>1, <2>2 DEF Kept, KeptOf, Late
<1>4. \A s, t \in TakenRows : Alike(s, t)'
  BY DEF CutoffInv, Alike, Late
<1> QED
  BY <1>1, <1>2, <1>3, <1>4 DEF CutoffInv

\* A cutoff that a snapshot was taken after is over.
LEMMA LateFacts ==
  ASSUME IInv, NEW row, Kept(row), Late(row)
  PROVE  /\ row.input.cutoff \in Times /\ row.input.cutoff < now
         /\ DOMAIN row.facts \subseteq Missions
<1>1. /\ row.taken \in Times /\ row.input.cutoff \in Times /\ row.taken <= now
      /\ DOMAIN row.facts \subseteq Missions
  BY SnapshotFacts DEF Kept
<1>2. now \in Int /\ \A t \in Times : t \in Int
  BY ClockAssumption DEF IInv, Versioned, Times
<1> QED
  BY <1>1, <1>2 DEF Late

LEMMA WriteKeeps ==
  ASSUME IInv, CutoffInv, NEW m \in Missions, NEW c \in Change, Write(m, c), Stamped(c), c.stamp = now
  PROVE  CutoffInv'
<1>1. /\ uncommitted' = [uncommitted EXCEPT ![m] = uncommitted[m] \cup {c}]
      /\ UNCHANGED <<inflight, now, missions, snapshots>>
  BY DEF Write
<1>2. /\ uncommitted' \in [Missions -> SUBSET Change]
      /\ uncommitted'[m] = uncommitted[m] \cup {c}
      /\ \A k \in Missions : k # m => uncommitted'[k] = uncommitted[k]
  BY <1>1 DEF CutoffInv, MissionsTyped
<1>3. MissionsTyped'
  BY <1>1, <1>2 DEF CutoffInv, MissionsTyped, Stamped
<1>4. ASSUME NEW row \in TakenRows, Kept(row), Late(row), NEW k \in (DOMAIN row.facts) \ row.missed,
             KeptOf(row, k)
      PROVE  KeptOf(row, k)'
  <2>1. row.input.cutoff \in Times /\ row.input.cutoff < now /\ k \in Missions
    BY <1>4, LateFacts
  <2>2. now \in Int /\ row.input.cutoff \in Int
    BY <2>1, ClockAssumption DEF IInv, Versioned, Times
  <2>3. \A d \in uncommitted'[k] : d.stamp > row.input.cutoff
    BY <1>2, <1>4, <2>1, <2>2 DEF KeptOf
  <2> QED BY <1>1, <1>4, <2>3 DEF KeptOf
<1> QED
  BY <1>1, <1>3, <1>4, MissionsChanged

LEMMA CommitKeeps ==
  ASSUME IInv, CutoffInv, NEW m \in Missions, Commit(m) \/ Undo(m)
  PROVE  CutoffInv'
<1>1. PICK c \in uncommitted[m] :
        /\ \/ missions' = [missions EXCEPT ![m] = After(missions[m], c)]
           \/ missions' = missions
        /\ uncommitted' = [uncommitted EXCEPT ![m] = uncommitted[m] \ {c}]
        /\ UNCHANGED <<inflight, now, snapshots>>
  BY DEF Commit, Undo
<1> PICK f : f = missions[m]
  OBVIOUS
<1>2. f \in MissionRow /\ c \in Change /\ Stamped(c)
  BY <1>1 DEF CutoffInv, MissionsTyped
<1>3. /\ missions' \in [Missions -> MissionRow]
      /\ missions'[m] \in {f, After(f, c)}
      /\ \A k \in Missions : k # m => missions'[k] = missions[k]
  BY <1>1, <1>2, AfterFacts DEF CutoffInv, MissionsTyped
<1>4. /\ uncommitted' \in [Missions -> SUBSET Change]
      /\ \A k \in Missions : uncommitted'[k] \subseteq uncommitted[k]
  BY <1>1 DEF CutoffInv, MissionsTyped
<1>5. MissionsTyped'
  BY <1>3, <1>4 DEF CutoffInv, MissionsTyped, Stamped
<1>6. ASSUME NEW row \in TakenRows, Kept(row), Late(row), NEW k \in (DOMAIN row.facts) \ row.missed,
             KeptOf(row, k)
      PROVE  KeptOf(row, k)'
  <2>1. row.input.cutoff \in Times /\ k \in Missions
    BY <1>6, LateFacts
  <2>2. \A d \in uncommitted'[k] : d.stamp > row.input.cutoff
    BY <1>4, <1>6, <2>1 DEF KeptOf
  <2>3. ASSUME Unchanged(missions'[k], row.input.cutoff)
        PROVE  Same(row.facts[k], Captured(missions'[k], row.input.cutoff))
    <3>1. CASE missions'[k] = missions[k]
      BY <1>6, <2>3, <3>1 DEF KeptOf
    <3>2. CASE k = m /\ missions'[k] = After(f, c)
      <4>1. c.stamp > row.input.cutoff
        BY <1>1, <1>6, <3>2 DEF KeptOf
      <4>2. /\ Unchanged(f, row.input.cutoff)
            /\ Same(Captured(missions'[k], row.input.cutoff), Captured(f, row.input.cutoff))
        BY <1>2, <2>1, <2>3, <3>2, <4>1, CommittedLater
      <4>3. Same(row.facts[k], Captured(f, row.input.cutoff))
        BY <1>6, <3>2, <4>2 DEF KeptOf
      <4> QED BY <4>2, <4>3 DEF Same
    <3> QED BY <1>3, <2>1, <3>1, <3>2
  <2> QED BY <1>6, <2>2, <2>3 DEF KeptOf
<1> QED
  BY <1>1, <1>5, <1>6, MissionsChanged

LEMMA AlterKeeps ==
  ASSUME IInv, CutoffInv, NEW m \in Missions, NEW g, Alter(m, g), Beside(missions[m], g)
  PROVE  CutoffInv'
<1>1. /\ missions' = [missions EXCEPT ![m] = g]
      /\ UNCHANGED <<inflight, now, uncommitted, snapshots>>
  BY DEF Alter
<1>2. /\ missions' \in [Missions -> MissionRow]
      /\ missions'[m] = g
      /\ \A k \in Missions : k # m => missions'[k] = missions[k]
  BY <1>1 DEF CutoffInv, MissionsTyped, Beside
<1>3. MissionsTyped'
  BY <1>1, <1>2 DEF CutoffInv, MissionsTyped, Stamped
<1>4. ASSUME NEW row \in TakenRows, Kept(row), Late(row), NEW k \in (DOMAIN row.facts) \ row.missed,
             KeptOf(row, k)
      PROVE  KeptOf(row, k)'
  <2>1. k \in Missions
    BY <1>4, LateFacts
  <2>2. CASE k = m
    BY <1>1, <1>2, <1>4, <2>2, BesideSame DEF KeptOf, Same
  <2>3. CASE k # m
    BY <1>1, <1>2, <1>4, <2>1, <2>3 DEF KeptOf
  <2> QED BY <2>2, <2>3
<1> QED
  BY <1>1, <1>3, <1>4, MissionsChanged

LEMMA CutoffChanged ==
  ASSUME IInv, CutoffInv, NEW m \in Missions, Elsewhere(m)
  PROVE  CutoffInv'
<1>1. CASE Transition(m)
  BY <1>1, TransitionWrites, WriteKeeps
<1>2. CASE StartDeviation(m) \/ ResolveDeviation(m)
  BY <1>2, DeviationsWrite, WriteKeeps
<1>3. CASE Commit(m) \/ Undo(m)
  BY <1>3, CommitKeeps
<1>4. CASE Arrive(m) \/ UploadDocument(m) \/ VerifyDocument(m)
  BY <1>4, AltersBeside, AlterKeeps
<1> QED
  BY <1>1, <1>2, <1>3, <1>4 DEF Elsewhere

\* A request that remembers no snapshot, or none any more.
LEMMA NothingTaken ==
  ASSUME IInv, CutoffInv, NEW r \in Requests, NEW i, Remember(r, i), i.op # "snapshot",
         UNCHANGED <<missions, uncommitted, now, snapshots>>
  PROVE  CutoffInv'
<1>1. inflight'[r] = i /\ \A q \in Requests : q # r => inflight'[q] = inflight[q]
  BY DEF IInv, RequestsSound, Remember
<1>2. TakenRows' \subseteq TakenRows
  BY <1>1 DEF TakenRows
<1>3. SnapshotsTyped'
  BY <1>1 DEF CutoffInv, SnapshotsTyped, SnapshotSound
<1>4. now' \in Times /\ now' >= now
  BY ClockAssumption DEF IInv, Versioned, Times
<1> QED
  BY <1>2, <1>3, <1>4, CutoffUntouched

LEMMA CreateSnapshotTakes ==
  ASSUME IInv, CutoffInv, NEW r \in Requests, CreateSnapshot(r)
  PROVE  CutoffInv'
<1>1. PICK key, cutoff, set, k, v, row, i :
        /\ key \in SnapshotKeys /\ cutoff \in Times /\ set \in SUBSET Missions
        /\ k \in KpiKeys /\ v \in DOMAIN configurations[k]
        /\ \A m \in set : Unchanged(missions[m], cutoff)
        /\ row = [input |-> Input(k, v, cutoff, set), taken |-> now,
                  missed |-> Missed(set, cutoff),
                  facts |-> [m \in set |-> Captured(missions[m], cutoff)]]
        /\ i = [op |-> "snapshot", locks |-> {}, wanted |-> SnapshotLock(key), key |-> key,
                row |-> row]
        /\ Remember(r, i)
        /\ UNCHANGED <<missions, uncommitted, now, snapshots>>
  BY DEF CreateSnapshot, Begin, scoringVars
<1>2. /\ row.input.cutoff = cutoff /\ row.taken = now /\ DOMAIN row.facts = set
      /\ row.missed = Missed(set, cutoff)
      /\ \A m \in set : row.facts[m] = Captured(missions[m], cutoff)
      /\ i.op = "snapshot" /\ i.row = row /\ i.key = key /\ "row" \in DOMAIN i
  BY <1>1 DEF Input
<1>3. inflight'[r] = i /\ \A q \in Requests : q # r => inflight'[q] = inflight[q]
  BY <1>1 DEF IInv, RequestsSound, Remember
<1>4. TakenRows' \subseteq TakenRows \cup {row}
  BY <1>1, <1>2, <1>3 DEF TakenRows
<1>5. now \in Times /\ now <= now
  BY ClockAssumption DEF IInv, Versioned, Times
<1>6. Kept(row)
  <2>1. v \in Nat
    <3>1. k \in Keys /\ configurations[k] \in Seq(ConfigurationRow)
      BY <1>1 DEF IInv, Versioned, Keys
    <3> QED BY <1>1, <3>1
  <2>2. row.input \in [key : KpiKeys, version : Nat, cutoff : Times, missions : SUBSET Missions]
    BY <1>1, <2>1 DEF Input
  <2>3. row.input.missions = set
    BY <1>1 DEF Input
  <2>4. ASSUME NEW m \in set PROVE Captured(missions[m], cutoff) \in MissionFacts
    BY <1>1, CapturedFacts DEF CutoffInv, MissionsTyped
  <2>5. row.facts \in [set -> MissionFacts]
    BY <1>1, <2>4
  <2>6. IsSnapshot(row)
    BY <1>2, <1>5, <2>2, <2>3, <2>5 DEF IsSnapshot, Missed
  <2>7. ASSUME NEW m \in set \ row.missed, NEW c \in uncommitted[m] PROVE c.stamp > cutoff
    <3>1. c.stamp \in Int /\ cutoff \in Int
      BY <1>1, ClockAssumption, ChangeFacts DEF CutoffInv, MissionsTyped, Times
    <3>2. ~(c.stamp <= cutoff)
      BY <1>2, <2>7 DEF Missed
    <3> QED BY <3>1, <3>2
  <2> QED BY <1>1, <1>2, <1>5, <2>6, <2>7 DEF Kept, Same
<1>7. ASSUME NEW s \in TakenRows' PROVE Kept(s)'
  BY <1>1, <1>4, <1>6, <1>7 DEF CutoffInv, Kept, Late
<1>8. ASSUME NEW s \in TakenRows PROVE Alike(s, row) /\ Alike(row, s)
  <2>1. Kept(s)
    BY DEF CutoffInv
  <2>2. ASSUME s.input.cutoff = cutoff, Late(s),
               NEW m \in (DOMAIN s.facts \cap DOMAIN row.facts) \ s.missed
        PROVE  Same(s.facts[m], row.facts[m]) /\ Same(row.facts[m], s.facts[m])
    BY <1>1, <1>2, <2>1, <2>2 DEF Kept, Same
  <2> QED BY <1>2, <2>2 DEF Alike
<1>9. ASSUME NEW s \in TakenRows', NEW t \in TakenRows' PROVE Alike(s, t)
  <2>1. Alike(row, row)
    BY DEF Alike, Same
  <2> QED BY <1>4, <1>8, <1>9, <2>1 DEF CutoffInv
<1>10. \A s, t \in TakenRows' : Alike(s, t)'
  BY <1>9 DEF Alike, Late
<1>11. MissionsTyped' /\ SnapshotsTyped'
  BY <1>1, <1>2, <1>3 DEF CutoffInv, MissionsTyped, SnapshotsTyped, SnapshotSound
<1> QED
  BY <1>7, <1>10, <1>11 DEF CutoffInv

\* The lock leaves the row as it is.
LEMMA TakeLockCutoff ==
  ASSUME IInv, CutoffInv, NEW r \in Requests, TakeLock(r)
  PROVE  CutoffInv'
<1> PICK old : old = inflight[r]
  OBVIOUS
<1> PICK i : i = [old EXCEPT !.locks = {old.wanted}]
  OBVIOUS
<1>1. Remember(r, i) /\ UNCHANGED <<missions, uncommitted, now, snapshots>> /\ "op" \in DOMAIN old
  BY DEF TakeLock, scoringVars, IInv, RequestsSound
<1>2. i.op = old.op
  BY <1>1
<1>3. CASE old.op # "snapshot"
  BY <1>1, <1>2, <1>3, NothingTaken
<1>4. CASE old.op = "snapshot"
  <2>1. "row" \in DOMAIN old /\ old.key \in SnapshotKeys
    BY <1>4 DEF CutoffInv, SnapshotsTyped, SnapshotSound
  <2>2. i.row = old.row /\ "row" \in DOMAIN i
    BY <2>1
  <2>3. i.key \in SnapshotKeys
    BY <2>1
  <2>4. inflight'[r] = i /\ \A q \in Requests : q # r => inflight'[q] = inflight[q]
    BY <1>1 DEF IInv, RequestsSound, Remember
  <2>5. TakenRows' \subseteq TakenRows
    BY <1>1, <1>4, <2>2, <2>4 DEF TakenRows
  <2>6. SnapshotsTyped'
    BY <1>1, <2>2, <2>3, <2>4 DEF CutoffInv, SnapshotsTyped, SnapshotSound
  <2>7. now' \in Times /\ now' >= now
    BY <1>1, ClockAssumption DEF IInv, Versioned, Times
  <2> QED BY <1>1, <2>5, <2>6, <2>7, CutoffUntouched
<1> QED
  BY <1>3, <1>4

\* What is committed is what was taken.
LEMMA CommitSnapshotKeeps ==
  ASSUME IInv, CutoffInv, NEW r \in Requests, CommitSnapshot(r)
  PROVE  CutoffInv'
<1> PICK i : i = inflight[r]
  OBVIOUS
<1>1. /\ i.op = "snapshot" /\ snapshots' = [snapshots EXCEPT ![i.key] = i.row]
      /\ Remember(r, Answered) /\ UNCHANGED <<missions, uncommitted, now>> /\ i.key \in SnapshotKeys
  BY DEF CommitSnapshot, End, CutoffInv, SnapshotsTyped, SnapshotSound
<1>2. inflight'[r] = Answered /\ \A q \in Requests : q # r => inflight'[q] = inflight[q]
  BY <1>1 DEF IInv, RequestsSound, Remember
<1>3. /\ snapshots' = [key \in SnapshotKeys |-> snapshots'[key]]
      /\ snapshots'[i.key] = i.row
      /\ \A key \in SnapshotKeys : key # i.key => snapshots'[key] = snapshots[key]
  BY <1>1 DEF CutoffInv, SnapshotsTyped
<1>4. i.row \in TakenRows
  BY <1>1 DEF TakenRows
<1>5. Answered.op = "answered"
  BY DEF Answered
<1>6. TakenRows' \subseteq TakenRows
  <2>1. ASSUME NEW key \in SnapshotKeys, snapshots'[key] # NoSnapshot
        PROVE  snapshots'[key] \in TakenRows
    BY <1>3, <1>4, <2>1 DEF TakenRows
  <2>2. ASSUME NEW q \in Requests, inflight'[q].op = "snapshot"
        PROVE  inflight'[q].row \in TakenRows
    BY <1>2, <1>5, <2>2 DEF TakenRows
  <2> QED BY <2>1, <2>2 DEF TakenRows
<1>7. SnapshotsTyped'
  BY <1>2, <1>3, <1>5 DEF CutoffInv, SnapshotsTyped, SnapshotSound
<1>8. now' \in Times /\ now' >= now
  BY <1>1, ClockAssumption DEF IInv, Versioned, Times
<1> QED
  BY <1>1, <1>6, <1>7, <1>8, CutoffUntouched

LEMMA CutoffInit == Init => CutoffInv
<1> SUFFICES ASSUME Init PROVE CutoffInv
  OBVIOUS
<1>1. PICK start \in Starts :
        /\ missions = start.missions
        /\ uncommitted = [m \in Missions |-> {}]
        /\ snapshots = [key \in SnapshotKeys |->
                          IF key \in DOMAIN start.snapshots THEN start.snapshots[key] ELSE NoSnapshot]
  BY DEF Init
<1>2. /\ missions \in [Missions -> MissionRow]
      /\ \A key \in DOMAIN start.snapshots :
           IsSnapshot(start.snapshots[key]) /\ start.snapshots[key].taken = 0
  BY <1>1, StartsAssumption
<1>3. MissionsTyped
  BY <1>1, <1>2 DEF MissionsTyped
<1>4. /\ now = 0
      /\ \A r \in Requests : inflight[r].op = "waiting"
  BY DEF Init, TransactionsInit, Waiting
<1>5. ASSUME NEW row \in TakenRows PROVE Kept(row) /\ ~Late(row)
  <2>1. PICK key \in SnapshotKeys : row = snapshots[key] /\ snapshots[key] # NoSnapshot
    BY <1>4 DEF TakenRows
  <2>2. IsSnapshot(row) /\ row.taken = 0
    BY <1>1, <1>2, <2>1
  <2>3. /\ row.taken \in Times /\ row.input.cutoff \in Times
        /\ DOMAIN row.facts \subseteq Missions
    BY <2>2 DEF IsSnapshot
  <2>4. ASSUME NEW c \in Times PROVE ~(0 > c)
    BY ClockAssumption DEF Times
  <2>5. ~Late(row)
    BY <2>2, <2>3, <2>4 DEF Late
  <2> QED BY <1>4, <2>2, <2>3, <2>5 DEF Kept
<1>6. SnapshotsTyped
  BY <1>1, <1>4 DEF SnapshotsTyped, SnapshotSound
<1> QED
  BY <1>3, <1>5, <1>6 DEF CutoffInv, Alike

LEMMA CutoffStep == IInv /\ CutoffInv /\ [Next]_vars => CutoffInv'
<1> SUFFICES ASSUME IInv, CutoffInv, [Next]_vars PROVE CutoffInv'
  OBVIOUS
<1>0. /\ now \in Times /\ now >= now
  BY ClockAssumption DEF IInv, Versioned, Times
<1>1. ASSUME UNCHANGED <<inflight, missions, uncommitted, snapshots>>, now' \in Times, now' >= now
      PROVE  CutoffInv'
  <2>1. TakenRows' = TakenRows /\ SnapshotsTyped'
    BY <1>1 DEF TakenRows, CutoffInv, SnapshotsTyped, SnapshotSound
  <2> QED BY <1>1, <2>1, CutoffUntouched
<1>2. CASE UNCHANGED vars \/ Perish
  <2>1. UNCHANGED <<inflight, missions, uncommitted, snapshots, now>>
    BY <1>2 DEF vars, scoringVars, Perish
  <2> QED BY <1>0, <1>1, <2>1
<1>3. CASE Tick
  <2>1. UNCHANGED <<inflight, missions, uncommitted, snapshots>> /\ now' \in Times /\ now' >= now
    BY <1>0, <1>3, ClockAssumption DEF Tick, Times
  <2> QED BY <1>1, <2>1
<1>4. ASSUME NEW r \in Requests, Start(r) PROVE CutoffInv'
  <2>1. CASE CreateConfiguration(r) \/ Calculate(r) \/ ReadResult(r)
    <3> PICK i : Remember(r, i) /\ i.op # "snapshot" /\ UNCHANGED <<missions, uncommitted, now, snapshots>>
      BY <2>1 DEF CreateConfiguration, Calculate, ReadResult, Begin, scoringVars
    <3> QED BY NothingTaken
  <2> QED BY <1>4, <2>1, CreateSnapshotTakes DEF Start
<1>5. ASSUME NEW r \in Requests, GoOn(r) PROVE CutoffInv'
  <2>1. CASE LockVersions(r)
    <3> PICK i : Remember(r, i) /\ i.op # "snapshot" /\ UNCHANGED <<missions, uncommitted, now, snapshots>>
      BY <2>1 DEF LockVersions, scoringVars
    <3> QED BY NothingTaken
  <2>2. CASE \/ CommitConfiguration(r) \/ CommitResult(r) \/ Publish(r)
             \/ Rollback(r) /\ UNCHANGED scoringVars
    <3>1. Remember(r, Answered) /\ UNCHANGED <<missions, uncommitted, now, snapshots>>
      BY <2>2 DEF CommitConfiguration, CommitResult, Publish, Rollback, End, scoringVars
    <3>2. Answered.op # "snapshot"
      BY DEF Answered
    <3> QED BY <3>1, <3>2, NothingTaken
  <2> QED BY <1>5, <2>1, <2>2, TakeLockCutoff, CommitSnapshotKeeps DEF GoOn
<1> QED
  BY <1>2, <1>3, <1>4, <1>5, CutoffChanged DEF Next

\* Snapshots that were taken after a common cutoff agree on the facts that
\* KpiFactSnapshotsService.create guards, whenever each of them was taken.
THEOREM CutoffSafe == Spec => []CutoffKept
<1>1. IInv /\ [Next]_vars => IInv'
  BY IInvStep
<1>2. CutoffInv => CutoffKept
  BY DEF CutoffInv, CutoffKept, TakenRows, Alike, Late, Same
<1> QED
  BY IInvInit, CutoffInit, CutoffStep, <1>1, <1>2, PTL DEF Spec

-------------------------------------------------------------------------------
(* Results.                                                                    *)

\* No result, or one that follows from the snapshot.
Follows(rows, snapshot) ==
  \/ rows = <<>>
  \/ \E row : /\ rows = <<row>>
              /\ {"scores", "status"} \subseteq DOMAIN row
              /\ row.scores = Scores(snapshot)
              /\ snapshot # NoSnapshot

\* A calculation found no result: with one that follows from the snapshot there
\* is nothing to calculate.
ResultSound(i) ==
  /\ i.op = "calculate" =>
       /\ {"key", "type", "version", "row"} \subseteq DOMAIN i
       /\ i.key \in SnapshotKeys /\ i.type \in PeriodTypes /\ i.version = 1
       /\ {"scores", "status"} \subseteq DOMAIN i.row
       /\ i.row.scores = Scores(snapshots[i.key])
       /\ snapshots[i.key] # NoSnapshot
  /\ i.op = "publish" =>
       /\ i.key \in SnapshotKeys /\ i.type \in PeriodTypes /\ i.version = 1
       /\ results[i.key][i.type] # <<>>

ResultInv ==
  /\ results = [key \in SnapshotKeys |-> results[key]]
  /\ \A key \in SnapshotKeys :
       /\ results[key] = [type \in PeriodTypes |-> results[key][type]]
       /\ \A type \in PeriodTypes : Follows(results[key][type], snapshots[key])
  /\ \A r \in Requests : ResultSound(inflight[r])

LEMMA OneElement ==
  ASSUME NEW row
  PROVE  /\ Len(<<row>>) = 1 /\ <<row>>[1] = row /\ DOMAIN <<row>> = {1} /\ <<row>> # <<>>
         /\ Append(<<>>, row) = <<row>>
         /\ Len(<< >>) = 0 /\ DOMAIN << >> = {}
OBVIOUS

\* A snapshot that is there stays as it is.
SnapshotsStand ==
  \A key \in SnapshotKeys : snapshots[key] # NoSnapshot => snapshots'[key] = snapshots[key]

LEMMA ResultsUntouched ==
  ASSUME IInv, ResultInv, SnapshotsStand, NEW r \in Requests, NEW i, Remember(r, i),
         ResultSound(i), results' = results
  PROVE  ResultInv'
<1>1. inflight'[r] = i /\ \A q \in Requests : q # r => inflight'[q] = inflight[q]
  BY DEF IInv, RequestsSound, Remember
<1>2. ASSUME NEW j, ResultSound(j)
      PROVE  /\ j.op = "calculate" => /\ snapshots'[j.key] = snapshots[j.key]
                                      /\ snapshots'[j.key] # NoSnapshot
             /\ j.op = "publish" => results'[j.key][j.type] # <<>>
  BY <1>2 DEF ResultSound, SnapshotsStand
<1>3. ASSUME NEW q \in Requests PROVE ResultSound(inflight[q])'
  <2> PICK j : j = inflight'[q]
    OBVIOUS
  <2>1. ResultSound(j)
    BY <1>1 DEF ResultInv
  <2> QED BY <1>2, <2>1 DEF ResultSound
<1>4. ASSUME NEW key \in SnapshotKeys, NEW type \in PeriodTypes
      PROVE  Follows(results[key][type], snapshots[key])'
  BY DEF ResultInv, Follows, SnapshotsStand
<1> QED
  BY <1>3, <1>4 DEF ResultInv

\* The rows of one snapshot and period type are replaced.
Replaced(key, type, rows) ==
  results' = [results EXCEPT ![key] = [results[key] EXCEPT ![type] = rows]]

LEMMA ResultsReplaced ==
  ASSUME IInv, ResultInv, NEW r \in Requests, End(r), UNCHANGED snapshots,
         NEW key \in SnapshotKeys, NEW type \in PeriodTypes, NEW row,
         Replaced(key, type, <<row>>),
         {"scores", "status"} \subseteq DOMAIN row, row.scores = Scores(snapshots[key]),
         snapshots[key] # NoSnapshot
  PROVE  ResultInv'
<1>1. inflight'[r] = Answered /\ \A q \in Requests : q # r => inflight'[q] = inflight[q]
  BY DEF IInv, RequestsSound, Remember, End
<1> PICK of : of = [results[key] EXCEPT ![type] = <<row>>]
  OBVIOUS
<1>2. /\ of = [t \in PeriodTypes |-> of[t]]
      /\ of[type] = <<row>>
      /\ \A t \in PeriodTypes : t # type => of[t] = results[key][t]
  BY DEF ResultInv
<1>3. /\ results' = [k \in SnapshotKeys |-> results'[k]]
      /\ results'[key] = of
      /\ \A k \in SnapshotKeys : k # key => results'[k] = results[k]
  BY DEF ResultInv, Replaced
<1>4. ASSUME NEW k \in SnapshotKeys
      PROVE  results'[k] = [t \in PeriodTypes |-> results'[k][t]]
  BY <1>2, <1>3 DEF ResultInv
<1>5. ASSUME NEW k \in SnapshotKeys, NEW t \in PeriodTypes
      PROVE  Follows(results[k][t], snapshots[k])'
  <2>1. CASE k = key /\ t = type
    BY <1>2, <1>3, <2>1 DEF Follows
  <2>2. CASE ~(k = key /\ t = type)
    <3>1. results'[k][t] = results[k][t]
      BY <1>2, <1>3, <2>2
    <3>2. Follows(results[k][t], snapshots[k])
      BY DEF ResultInv
    <3> QED BY <3>1, <3>2
  <2> QED BY <2>1, <2>2
<1>6. ASSUME NEW q \in Requests PROVE ResultSound(inflight[q])'
  <2>1. CASE q = r
    BY <1>1, <2>1 DEF ResultSound, Answered
  <2>2. CASE q # r
    <3> PICK j : j = inflight[q]
      OBVIOUS
    <3>1. ResultSound(j) /\ inflight'[q] = j
      BY <1>1, <2>2 DEF ResultInv
    <3>2. j.op = "publish" => results'[j.key][j.type] # <<>>
      <4>1. ASSUME j.key = key, j.type = type PROVE results'[j.key][j.type] # <<>>
        BY <1>2, <1>3, <4>1, OneElement
      <4> QED BY <1>2, <1>3, <3>1, <4>1 DEF ResultSound
    <3> QED BY <3>1, <3>2 DEF ResultSound
  <2> QED BY <2>1, <2>2
<1> QED
  BY <1>3, <1>4, <1>5, <1>6 DEF ResultInv

LEMMA CalculateKeeps ==
  ASSUME IInv, ResultInv, NEW r \in Requests, Calculate(r)
  PROVE  ResultInv'
<1>1. PICK key, type, rows, row, i :
        /\ key \in SnapshotKeys /\ type \in PeriodTypes
        /\ rows = results[key][type]
        /\ row.scores = Scores(snapshots[key]) /\ {"scores", "status"} \subseteq DOMAIN row
        /\ snapshots[key] # NoSnapshot
        /\ rows # <<>> => ~SameInput(rows[Len(rows)], row)
        /\ i.op = "calculate" /\ i.key = key /\ i.type = type /\ i.version = Len(rows) + 1
        /\ i.row = row /\ {"key", "type", "version", "row"} \subseteq DOMAIN i
        /\ Remember(r, i)
        /\ UNCHANGED <<snapshots, results>>
  <2>1. PICK key, type, rows, row, at, i :
          /\ key \in SnapshotKeys /\ type \in PeriodTypes
          /\ rows = results[key][type]
          /\ row = [scores |-> Scores(snapshots[key]), score |-> AggregateScore(Scores(snapshots[key])),
                    at |-> at, status |-> "DRAFT"]
          /\ snapshots[key] # NoSnapshot
          /\ rows # <<>> => ~SameInput(rows[Len(rows)], row)
          /\ i = [op |-> "calculate", locks |-> {}, wanted |-> ResultLock(key, type), key |-> key,
                  type |-> type, version |-> Len(rows) + 1, row |-> row]
          /\ Remember(r, i)
          /\ UNCHANGED <<snapshots, results>>
    BY DEF Calculate, Begin, scoringVars
  <2> QED BY <2>1
<1>2. rows = <<>>
  <2>1. Follows(rows, snapshots[key])
    BY <1>1 DEF ResultInv
  <2> SUFFICES ASSUME NEW old, rows = <<old>>, old.scores = Scores(snapshots[key]) PROVE FALSE
    BY <2>1 DEF Follows
  <2> QED BY <1>1, OneElement DEF SameInput
<1>3. ResultSound(i)
  BY <1>1, <1>2, OneElement DEF ResultSound
<1> QED
  BY <1>1, <1>3, ResultsUntouched DEF SnapshotsStand

LEMMA ReadResultKeeps ==
  ASSUME IInv, ResultInv, NEW r \in Requests, ReadResult(r)
  PROVE  ResultInv'
<1>1. PICK key, type, v, i :
        /\ key \in SnapshotKeys /\ type \in PeriodTypes
        /\ v \in DOMAIN results[key][type]
        /\ i = [op |-> "publish", locks |-> {}, key |-> key, type |-> type, version |-> v]
        /\ Remember(r, i)
        /\ UNCHANGED <<snapshots, results>>
  BY DEF ReadResult, Begin, scoringVars
<1>2. results[key][type] # <<>> /\ v = 1
  <2>1. Follows(results[key][type], snapshots[key])
    BY <1>1 DEF ResultInv
  <2> QED BY <1>1, <2>1, OneElement DEF Follows
<1>3. ResultSound(i)
  BY <1>1, <1>2 DEF ResultSound
<1> QED
  BY <1>1, <1>3, ResultsUntouched DEF SnapshotsStand

LEMMA CommitResultKeeps ==
  ASSUME IInv, ResultInv, NEW r \in Requests, CommitResult(r)
  PROVE  ResultInv'
<1> PICK i : i = inflight[r]
  OBVIOUS
<1> PICK rows : rows = results[i.key][i.type]
  OBVIOUS
<1>1. /\ ResultSound(i) /\ i.op = "calculate" /\ i.version = Len(rows) + 1
      /\ results' = [results EXCEPT ![i.key][i.type] = Append(@, i.row)]
      /\ End(r) /\ UNCHANGED snapshots
  BY DEF CommitResult, ResultInv
<1>2. i.key \in SnapshotKeys /\ i.type \in PeriodTypes /\ i.version = 1
  BY <1>1 DEF ResultSound
<1>3. rows = <<>>
  <2>1. Follows(rows, snapshots[i.key])
    BY <1>2 DEF ResultInv
  <2>2. ASSUME NEW old, rows = <<old>> PROVE FALSE
    BY <1>1, <1>2, <2>2, OneElement
  <2> QED BY <2>1, <2>2 DEF Follows
<1>4. Replaced(i.key, i.type, <<i.row>>)
  BY <1>1, <1>3, OneElement DEF Replaced
<1>5. /\ {"scores", "status"} \subseteq DOMAIN i.row
      /\ i.row.scores = Scores(snapshots[i.key])
      /\ snapshots[i.key] # NoSnapshot
  BY <1>1 DEF ResultSound
<1> QED
  BY <1>1, <1>2, <1>4, <1>5, ResultsReplaced

LEMMA PublishKeeps ==
  ASSUME IInv, ResultInv, NEW r \in Requests, Publish(r)
  PROVE  ResultInv'
<1> PICK i : i = inflight[r]
  OBVIOUS
<1> PICK rows : rows = results[i.key][i.type]
  OBVIOUS
<1>1. /\ ResultSound(i) /\ i.op = "publish"
      /\ results' = [results EXCEPT ![i.key][i.type][i.version].status = "PUBLISHED"]
      /\ End(r) /\ UNCHANGED snapshots
  BY DEF Publish, ResultInv
<1>2. i.key \in SnapshotKeys /\ i.type \in PeriodTypes /\ i.version = 1 /\ rows # <<>>
  BY <1>1 DEF ResultSound
<1>3. PICK old : /\ rows = <<old>> /\ {"scores", "status"} \subseteq DOMAIN old
                 /\ old.scores = Scores(snapshots[i.key]) /\ snapshots[i.key] # NoSnapshot
  <2>1. Follows(rows, snapshots[i.key])
    BY <1>2 DEF ResultInv
  <2> QED BY <1>2, <2>1 DEF Follows
<1> PICK row : row = [old EXCEPT !.status = "PUBLISHED"]
  OBVIOUS
<1>4. DOMAIN row = DOMAIN old /\ row.scores = old.scores
  BY <1>3
<1>5. [rows EXCEPT ![1].status = "PUBLISHED"] = <<row>>
  BY <1>3, OneElement
<1>6. Replaced(i.key, i.type, <<row>>)
  BY <1>1, <1>2, <1>5 DEF Replaced
<1>7. {"scores", "status"} \subseteq DOMAIN row /\ row.scores = Scores(snapshots[i.key])
  BY <1>3, <1>4
<1> QED
  BY <1>1, <1>2, <1>3, <1>6, <1>7, ResultsReplaced

LEMMA ResultInit == Init => ResultInv
<1> SUFFICES ASSUME Init PROVE ResultInv
  OBVIOUS
<1>1. PICK start \in Starts :
        /\ snapshots = [key \in SnapshotKeys |->
                          IF key \in DOMAIN start.snapshots THEN start.snapshots[key] ELSE NoSnapshot]
        /\ results = [key \in SnapshotKeys |-> [type \in PeriodTypes |->
                          IF key \in DOMAIN start.results THEN <<start.results[key]>> ELSE <<>>]]
  BY DEF Init
<1>2. /\ DOMAIN start.results \subseteq DOMAIN start.snapshots
      /\ \A key \in DOMAIN start.snapshots : start.snapshots[key] # NoSnapshot
      /\ \A key \in DOMAIN start.results :
           /\ start.results[key].scores = Scores(start.snapshots[key])
           /\ {"scores", "status"} \subseteq DOMAIN start.results[key]
  BY <1>1, StartsAssumption DEF IsResult
<1>3. ASSUME NEW key \in SnapshotKeys, NEW type \in PeriodTypes
      PROVE  Follows(results[key][type], snapshots[key])
  <2>1. CASE key \in DOMAIN start.results
    <3>1. snapshots[key] = start.snapshots[key]
      BY <1>1, <1>2, <2>1
    <3> QED BY <1>1, <1>2, <2>1, <3>1 DEF Follows
  <2>2. CASE key \notin DOMAIN start.results
    BY <1>1, <2>2 DEF Follows
  <2> QED BY <2>1, <2>2
<1>4. ASSUME NEW r \in Requests PROVE ResultSound(inflight[r])
  BY DEF Init, TransactionsInit, Waiting, ResultSound
<1> QED
  BY <1>1, <1>3, <1>4 DEF ResultInv

LEMMA ResultStep == IInv /\ CutoffInv /\ ResultInv /\ [Next]_vars => ResultInv'
<1> SUFFICES ASSUME IInv, CutoffInv, ResultInv, [Next]_vars PROVE ResultInv'
  OBVIOUS
<1>1. ASSUME UNCHANGED <<inflight, snapshots, results>> PROVE ResultInv'
  BY <1>1 DEF ResultInv, ResultSound, Follows
<1>2. CASE UNCHANGED vars \/ Perish \/ Tick \/ \E m \in Missions : Elsewhere(m)
  <2>1. UNCHANGED <<inflight, snapshots, results>>
    BY <1>2 DEF vars, scoringVars, Perish, Tick, Elsewhere, Transition, StartDeviation,
                ResolveDeviation, Commit, Undo, Arrive, UploadDocument, VerifyDocument, Write, Alter
  <2> QED BY <1>1, <2>1
<1>3. ASSUME NEW r \in Requests, NEW i, Remember(r, i), i.op \notin {"calculate", "publish"},
             UNCHANGED <<snapshots, results>>
      PROVE  ResultInv'
  BY <1>3, ResultsUntouched DEF ResultSound, SnapshotsStand
<1>4. ASSUME NEW r \in Requests, Start(r) PROVE ResultInv'
  <2>1. CASE CreateConfiguration(r) \/ CreateSnapshot(r)
    <3>1. CASE CreateConfiguration(r)
      <4> PICK i : /\ Remember(r, i) /\ i.op \notin {"calculate", "publish"}
                   /\ UNCHANGED <<snapshots, results>>
        BY <3>1 DEF CreateConfiguration, Begin, scoringVars
      <4> QED BY <1>3
    <3>2. CASE CreateSnapshot(r)
      <4> PICK i : Remember(r, i) /\ i.op = "snapshot" /\ UNCHANGED <<snapshots, results>>
        BY <3>2 DEF CreateSnapshot, Begin, scoringVars
      <4> QED BY <1>3
    <3> QED BY <2>1, <3>1, <3>2
  <2> QED BY <1>4, <2>1, CalculateKeeps, ReadResultKeeps DEF Start
<1>5. ASSUME NEW r \in Requests, GoOn(r) PROVE ResultInv'
  <2>1. CASE LockVersions(r)
    <3> PICK i : /\ Remember(r, i) /\ i.op \notin {"calculate", "publish"}
                 /\ UNCHANGED <<snapshots, results>>
      BY <2>1 DEF LockVersions, scoringVars
    <3> QED BY <1>3
  <2>2. CASE CommitConfiguration(r) \/ (Rollback(r) /\ UNCHANGED scoringVars)
    <3>1. Remember(r, Answered) /\ UNCHANGED <<snapshots, results>>
      BY <2>2 DEF CommitConfiguration, Rollback, End, scoringVars
    <3>2. Answered.op \notin {"calculate", "publish"}
      BY DEF Answered
    <3> QED BY <1>3, <3>1, <3>2
  <2>3. CASE CommitSnapshot(r)
    <3> PICK i : i = inflight[r]
      OBVIOUS
    <3>1. /\ snapshots[i.key] = NoSnapshot /\ snapshots' = [snapshots EXCEPT ![i.key] = i.row]
          /\ Remember(r, Answered) /\ results' = results
      BY <2>3 DEF CommitSnapshot, End
    <3>2. SnapshotsStand
      BY <3>1 DEF SnapshotsStand, CutoffInv, SnapshotsTyped
    <3>3. ResultSound(Answered)
      BY DEF ResultSound, Answered
    <3> QED BY <3>1, <3>2, <3>3, ResultsUntouched
  <2>4. CASE TakeLock(r)
    <3> PICK old : old = inflight[r]
      OBVIOUS
    <3> PICK i : i = [old EXCEPT !.locks = {old.wanted}]
      OBVIOUS
    <3>1. /\ Remember(r, i) /\ old.op \in {"snapshot", "calculate"} /\ "op" \in DOMAIN old
          /\ UNCHANGED <<snapshots, results>> /\ ResultSound(old)
      BY <2>4 DEF TakeLock, scoringVars, IInv, RequestsSound, ResultInv
    <3>2. i.op = old.op /\ DOMAIN i = DOMAIN old
      BY <3>1
    <3>3. ASSUME old.op = "calculate"
          PROVE  i.key = old.key /\ i.type = old.type /\ i.version = old.version /\ i.row = old.row
      BY <3>1, <3>3 DEF ResultSound
    <3>4. ResultSound(i)
      BY <3>1, <3>2, <3>3 DEF ResultSound
    <3>5. SnapshotsStand /\ results' = results
      BY <3>1 DEF SnapshotsStand
    <3> QED BY <3>1, <3>4, <3>5, ResultsUntouched
  <2> QED BY <1>5, <2>1, <2>2, <2>3, <2>4, CommitResultKeeps, PublishKeeps DEF GoOn
<1> QED
  BY <1>2, <1>4, <1>5 DEF Next

-------------------------------------------------------------------------------
(* The score.                                                                  *)

LEMMA RoundedFull == ASSUME NEW d \in Nat, d > 0 PROVE Rounded(10000 * d, d) = 10000
BY DEF Rounded

LEMMA RoundedShare ==
  ASSUME NEW d \in Nat, d > 0, NEW m \in Nat, m <= 10000 * d
  PROVE  Rounded(m, d) \in Int /\ Rounded(m, d) >= 0 /\ Rounded(m, d) <= 10000
BY DEF Rounded

LEMMA WeightFacts ==
  /\ DOMAIN Weight = {"VEHICLE_ARRIVAL", "LOADING_DEPARTURE", "DELIVERY_ARRIVAL",
                      "ROUTE_COMPLIANCE", "POD_DOCUMENT", "OPERATIONAL_SAFETY", "TEMPERATURE"}
  /\ \A c \in DOMAIN Weight : Weight[c] \in Nat /\ Weight[c] > 0
BY DEF Weight

\* A product of positive numbers is a multiple of each.
LEMMA ProductFacts ==
  ASSUME NEW x \in [DOMAIN Weight -> Nat], \A c \in DOMAIN Weight : x[c] > 0
  PROVE  /\ ProductOf(x) \in Nat /\ ProductOf(x) > 0
         /\ \A c \in DOMAIN Weight : \E r \in Nat : ProductOf(x) = x[c] * r
<1>1. ASSUME NEW a \in Nat, NEW b \in Nat, a > 0, b > 0 PROVE a * b \in Nat /\ a * b > 0
  BY <1>1
<1> PICK p1, p2, p3, p4, p5, p6, p7 :
      /\ p1 = x.VEHICLE_ARRIVAL /\ p2 = x.LOADING_DEPARTURE /\ p3 = x.DELIVERY_ARRIVAL
      /\ p4 = x.ROUTE_COMPLIANCE /\ p5 = x.POD_DOCUMENT /\ p6 = x.OPERATIONAL_SAFETY
      /\ p7 = x.TEMPERATURE
  OBVIOUS
<1>2. /\ p1 \in Nat /\ p1 > 0 /\ p2 \in Nat /\ p2 > 0 /\ p3 \in Nat /\ p3 > 0
      /\ p4 \in Nat /\ p4 > 0 /\ p5 \in Nat /\ p5 > 0 /\ p6 \in Nat /\ p6 > 0
      /\ p7 \in Nat /\ p7 > 0
  BY WeightFacts
<1>3. ProductOf(x) = p1 * p2 * p3 * p4 * p5 * p6 * p7
  BY DEF ProductOf
<1>4. /\ p1 * p2 \in Nat /\ p1 * p2 > 0
  BY <1>1, <1>2
<1>5. /\ p1 * p2 * p3 \in Nat /\ p1 * p2 * p3 > 0
  BY <1>1, <1>2, <1>4
<1>6. /\ p1 * p2 * p3 * p4 \in Nat /\ p1 * p2 * p3 * p4 > 0
  BY <1>1, <1>2, <1>5
<1>7. /\ p1 * p2 * p3 * p4 * p5 \in Nat /\ p1 * p2 * p3 * p4 * p5 > 0
  BY <1>1, <1>2, <1>6
<1>8. /\ p1 * p2 * p3 * p4 * p5 * p6 \in Nat /\ p1 * p2 * p3 * p4 * p5 * p6 > 0
  BY <1>1, <1>2, <1>7
<1>9. /\ ProductOf(x) \in Nat /\ ProductOf(x) > 0
  BY <1>1, <1>2, <1>3, <1>8
<1>10. ASSUME NEW a \in Nat, NEW b \in Nat, NEW c \in Nat, NEW d \in Nat, NEW e \in Nat, NEW f \in Nat, NEW g \in Nat
       PROVE  /\ a * b * c * d * e * f * g = a * (b * c * d * e * f * g)
              /\ a * b * c * d * e * f * g = b * (a * c * d * e * f * g)
              /\ a * b * c * d * e * f * g = c * (a * b * d * e * f * g)
              /\ a * b * c * d * e * f * g = d * (a * b * c * e * f * g)
              /\ a * b * c * d * e * f * g = e * (a * b * c * d * f * g)
              /\ a * b * c * d * e * f * g = f * (a * b * c * d * e * g)
              /\ a * b * c * d * e * f * g = g * (a * b * c * d * e * f)
  OBVIOUS
<1>11. ASSUME NEW a \in Nat, NEW b \in Nat, NEW c \in Nat, NEW d \in Nat, NEW e \in Nat, NEW f \in Nat
       PROVE  a * b * c * d * e * f \in Nat
  <2>1. a * b \in Nat /\ a * b * c \in Nat /\ a * b * c * d \in Nat
    OBVIOUS
  <2>2. a * b * c * d * e \in Nat
    BY <2>1
  <2> QED BY <2>2
<1>12. ASSUME NEW c \in DOMAIN Weight PROVE \E r \in Nat : ProductOf(x) = x[c] * r
  <2>1. CASE c = "VEHICLE_ARRIVAL"
    <3>1. ProductOf(x) = x[c] * (p2 * p3 * p4 * p5 * p6 * p7)
      BY <1>2, <1>3, <1>10, <2>1
    <3>2. p2 * p3 * p4 * p5 * p6 * p7 \in Nat
      BY <1>2, <1>11
    <3> QED BY <3>1, <3>2
  <2>2. CASE c = "LOADING_DEPARTURE"
    <3>1. ProductOf(x) = x[c] * (p1 * p3 * p4 * p5 * p6 * p7)
      BY <1>2, <1>3, <1>10, <2>2
    <3>2. p1 * p3 * p4 * p5 * p6 * p7 \in Nat
      BY <1>2, <1>11
    <3> QED BY <3>1, <3>2
  <2>3. CASE c = "DELIVERY_ARRIVAL"
    <3>1. ProductOf(x) = x[c] * (p1 * p2 * p4 * p5 * p6 * p7)
      BY <1>2, <1>3, <1>10, <2>3
    <3>2. p1 * p2 * p4 * p5 * p6 * p7 \in Nat
      BY <1>2, <1>11
    <3> QED BY <3>1, <3>2
  <2>4. CASE c = "ROUTE_COMPLIANCE"
    <3>1. ProductOf(x) = x[c] * (p1 * p2 * p3 * p5 * p6 * p7)
      BY <1>2, <1>3, <1>10, <2>4
    <3>2. p1 * p2 * p3 * p5 * p6 * p7 \in Nat
      BY <1>2, <1>11
    <3> QED BY <3>1, <3>2
  <2>5. CASE c = "POD_DOCUMENT"
    <3>1. ProductOf(x) = x[c] * (p1 * p2 * p3 * p4 * p6 * p7)
      BY <1>2, <1>3, <1>10, <2>5
    <3>2. p1 * p2 * p3 * p4 * p6 * p7 \in Nat
      BY <1>2, <1>11
    <3> QED BY <3>1, <3>2
  <2>6. CASE c = "OPERATIONAL_SAFETY"
    <3>1. ProductOf(x) = x[c] * (p1 * p2 * p3 * p4 * p5 * p7)
      BY <1>2, <1>3, <1>10, <2>6
    <3>2. p1 * p2 * p3 * p4 * p5 * p7 \in Nat
      BY <1>2, <1>11
    <3> QED BY <3>1, <3>2
  <2>7. CASE c = "TEMPERATURE"
    <3>1. ProductOf(x) = x[c] * (p1 * p2 * p3 * p4 * p5 * p6)
      BY <1>2, <1>3, <1>10, <2>7
    <3>2. p1 * p2 * p3 * p4 * p5 * p6 \in Nat
      BY <1>2, <1>11
    <3> QED BY <3>1, <3>2
  <2> QED BY <2>1, <2>2, <2>3, <2>4, <2>5, <2>6, <2>7, WeightFacts
<1> QED
  BY <1>9, <1>12

\* Each component is scored at most with its whole weight.
LEMMA Average ==
  ASSUME NEW k, DOMAIN k = DOMAIN Weight, Scored(k) # {},
         \A c \in DOMAIN Weight : k[c].parts \in Nat /\ k[c].good \in 0..k[c].parts
  PROVE  /\ ApplicableWeight(k) * Whole(k) \in Nat /\ ApplicableWeight(k) * Whole(k) > 0
         /\ SumOf(Earned(k)) \in Nat /\ SumOf(Earned(k)) <= ApplicableWeight(k) * Whole(k)
         /\ (\A c \in Scored(k) : k[c].good = k[c].parts)
            => SumOf(Earned(k)) = ApplicableWeight(k) * Whole(k)
<1> PICK whole : whole = Whole(k)
  OBVIOUS
<1> PICK weights : weights = Counted(k)
  OBVIOUS
<1> PICK earned : earned = Earned(k)
  OBVIOUS
<1>1. /\ whole \in Nat /\ whole > 0
      /\ \A c \in Scored(k) : \E r \in Nat : whole = k[c].parts * r
  <2> PICK x : x = Parts(k)
    OBVIOUS
  <2>1. x \in [DOMAIN Weight -> Nat] /\ \A c \in DOMAIN Weight : x[c] > 0
    BY DEF Parts, Scored
  <2>2. \A c \in Scored(k) : c \in DOMAIN Weight /\ x[c] = k[c].parts
    BY DEF Parts, Scored
  <2>3. /\ ProductOf(x) \in Nat /\ ProductOf(x) > 0
        /\ \A c \in DOMAIN Weight : \E r \in Nat : ProductOf(x) = x[c] * r
    BY <2>1, ProductFacts
  <2> QED BY <2>2, <2>3 DEF Whole
<1>2. ASSUME NEW c \in DOMAIN Weight
      PROVE  /\ weights[c] \in Nat /\ earned[c] \in Nat
             /\ earned[c] <= weights[c] * whole
             /\ (c \in Scored(k) => k[c].good = k[c].parts) => earned[c] = weights[c] * whole
             /\ c \in Scored(k) => weights[c] > 0
  <2>1. CASE c \notin Scored(k)
    <3>1. weights[c] = 0 /\ earned[c] = 0
      BY <2>1 DEF Counted, Earned
    <3> QED BY <1>1, <2>1, <3>1
  <2>2. CASE c \in Scored(k)
    <3>1. PICK w, p, g : w = Weight[c] /\ p = k[c].parts /\ g = k[c].good
      OBVIOUS
    <3>2. w \in Nat /\ w > 0 /\ p \in Nat /\ p > 0 /\ g \in Nat /\ g <= p
      BY <2>2, <3>1, WeightFacts DEF Scored
    <3>3. PICK r \in Nat : whole = p * r
      BY <1>1, <2>2, <3>1
    <3>4. whole \div p = r
      BY <3>2, <3>3
    <3>5. weights[c] = w /\ earned[c] = w * (g * r)
      BY <2>2, <3>1, <3>4 DEF Counted, Earned
    <3>6. g * r \in Nat /\ g * r <= p * r
      BY <3>2
    <3>7. ASSUME NEW a \in Nat, NEW b \in Nat, a <= b PROVE w * a \in Nat /\ w * a <= w * b
      BY <3>2, <3>7
    <3> QED BY <2>2, <3>1, <3>2, <3>3, <3>5, <3>6, <3>7
  <2> QED BY <2>1, <2>2
<1>3. PICK e1, e2, e3, e4, e5, e6, e7 :
        /\ e1 = earned.VEHICLE_ARRIVAL /\ e2 = earned.LOADING_DEPARTURE
        /\ e3 = earned.DELIVERY_ARRIVAL /\ e4 = earned.ROUTE_COMPLIANCE
        /\ e5 = earned.POD_DOCUMENT /\ e6 = earned.OPERATIONAL_SAFETY /\ e7 = earned.TEMPERATURE
  OBVIOUS
<1>4. PICK w1, w2, w3, w4, w5, w6, w7 :
        /\ w1 = weights.VEHICLE_ARRIVAL /\ w2 = weights.LOADING_DEPARTURE
        /\ w3 = weights.DELIVERY_ARRIVAL /\ w4 = weights.ROUTE_COMPLIANCE
        /\ w5 = weights.POD_DOCUMENT /\ w6 = weights.OPERATIONAL_SAFETY /\ w7 = weights.TEMPERATURE
  OBVIOUS
<1>5. /\ w1 \in Nat /\ w2 \in Nat /\ w3 \in Nat /\ w4 \in Nat /\ w5 \in Nat /\ w6 \in Nat /\ w7 \in Nat
      /\ e1 \in Nat /\ e2 \in Nat /\ e3 \in Nat /\ e4 \in Nat /\ e5 \in Nat /\ e6 \in Nat /\ e7 \in Nat
  BY <1>2, <1>3, <1>4, WeightFacts
<1>6. /\ e1 <= w1 * whole /\ e2 <= w2 * whole /\ e3 <= w3 * whole /\ e4 <= w4 * whole
      /\ e5 <= w5 * whole /\ e6 <= w6 * whole /\ e7 <= w7 * whole
  BY <1>2, <1>3, <1>4, WeightFacts
<1>7. ASSUME \A c \in Scored(k) : k[c].good = k[c].parts
      PROVE  /\ e1 = w1 * whole /\ e2 = w2 * whole /\ e3 = w3 * whole /\ e4 = w4 * whole
             /\ e5 = w5 * whole /\ e6 = w6 * whole /\ e7 = w7 * whole
  BY <1>2, <1>3, <1>4, <1>7, WeightFacts
<1>8. /\ ApplicableWeight(k) = w1 + w2 + w3 + w4 + w5 + w6 + w7
      /\ SumOf(Earned(k)) = e1 + e2 + e3 + e4 + e5 + e6 + e7
  BY <1>3, <1>4 DEF ApplicableWeight, SumOf
<1>9. (w1 + w2 + w3 + w4 + w5 + w6 + w7) * whole
      = w1 * whole + w2 * whole + w3 * whole + w4 * whole + w5 * whole + w6 * whole + w7 * whole
  BY <1>1, <1>5
<1>10. w1 + w2 + w3 + w4 + w5 + w6 + w7 \in Nat /\ w1 + w2 + w3 + w4 + w5 + w6 + w7 > 0
  <2>1. PICK c \in DOMAIN Weight : c \in Scored(k)
    BY DEF Scored
  <2>2. weights[c] > 0
    BY <1>2, <2>1
  <2>3. w1 > 0 \/ w2 > 0 \/ w3 > 0 \/ w4 > 0 \/ w5 > 0 \/ w6 > 0 \/ w7 > 0
    BY <1>4, <2>2, WeightFacts
  <2> QED BY <1>5, <2>3
<1>11. /\ ApplicableWeight(k) * whole \in Nat /\ ApplicableWeight(k) * whole > 0
  <2>1. ASSUME NEW a \in Nat, NEW b \in Nat, a > 0, b > 0 PROVE a * b \in Nat /\ a * b > 0
    BY <2>1
  <2> QED BY <1>1, <1>8, <1>10, <2>1
<1>12. /\ w1 * whole \in Nat /\ w2 * whole \in Nat /\ w3 * whole \in Nat /\ w4 * whole \in Nat
       /\ w5 * whole \in Nat /\ w6 * whole \in Nat /\ w7 * whole \in Nat
  BY <1>1, <1>5
<1>13. SumOf(Earned(k)) \in Nat /\ SumOf(Earned(k)) <= ApplicableWeight(k) * whole
  BY <1>5, <1>6, <1>8, <1>9, <1>12
<1>14. ASSUME \A c \in Scored(k) : k[c].good = k[c].parts
       PROVE  SumOf(Earned(k)) = ApplicableWeight(k) * whole
  BY <1>7, <1>8, <1>9, <1>14
<1> QED
  BY <1>11, <1>13, <1>14

\* The parts of a compliance are the checks that are known.
LEMMA ComplianceFacts ==
  ASSUME NEW checks, IsFiniteSet(DOMAIN checks)
  PROVE  /\ Compliance(checks).parts \in Nat
         /\ Compliance(checks).good \in 0..Compliance(checks).parts
         /\ (\A k \in DOMAIN checks : Known(checks[k]) => OnTime(checks[k]))
            => Compliance(checks).good = Compliance(checks).parts
<1> PICK known, good :
      /\ known = {k \in DOMAIN checks : Known(checks[k])}
      /\ good = {k \in known : OnTime(checks[k])}
  OBVIOUS
<1>1. Compliance(checks).parts = Cardinality(known) /\ Compliance(checks).good = Cardinality(good)
  BY DEF Compliance
<1>2. IsFiniteSet(known) /\ Cardinality(known) \in Nat
  BY FS_Subset, FS_CardinalityType
<1>3. Cardinality(good) \in Nat /\ Cardinality(good) <= Cardinality(known)
  BY <1>2, FS_Subset, FS_CardinalityType
<1>4. ASSUME \A k \in DOMAIN checks : Known(checks[k]) => OnTime(checks[k])
      PROVE  good = known
  BY <1>4
<1> QED
  BY <1>1, <1>2, <1>3, <1>4

LEMMA FactsOf ==
  ASSUME NEW f \in MissionFacts
  PROVE  /\ f.schedule.loading \in Int /\ f.schedule.departure \in Int
         /\ f.loading \in Times \cup {Missing}
         /\ f.departure \in Times \cup {Missing}
         /\ DOMAIN f.stops = Stops
         /\ \A s \in Stops : /\ f.stops[s].expected \in Times \cup {Missing}
                             /\ f.stops[s].actual \in Times \cup {Missing}
         /\ f.sources = {}
         /\ \A e \in f.exceptions : e.rule = "ROUTE_DEVIATION"
         /\ EventsOf(f, "VEHICLE_ARRIVED") = {}
BY DEF MissionFacts, EventRow, EventTypes, EventsOf

LEMMA TimesInt == Times \subseteq Int
BY ClockAssumption DEF Times

\* What was not later than it was due is on time.
LEMMA NotLate ==
  ASSUME NEW due, NEW actual, NEW tolerance \in Nat,
         due # Missing => due \in Int, actual # Missing => actual \in Int,
         Known(Check(due, actual, tolerance)), ~(actual > due)
  PROVE  OnTime(Check(due, actual, tolerance))
BY DEF Known, OnTime, Check

\* The components of the facts of a mission, and those of one with nothing amiss.
LEMMA ComponentsOf ==
  ASSUME NEW f \in MissionFacts, NEW k, k = Components(f)
  PROVE  /\ DOMAIN k = DOMAIN Weight
         /\ \A c \in DOMAIN Weight : k[c].parts \in Nat /\ k[c].good \in 0..k[c].parts
         /\ ~Amiss(f) => \A c \in Scored(k) : k[c].good = k[c].parts
<1> PICK stops : stops = EligibleStops(f)
  OBVIOUS
<1>1. IsFiniteSet(stops) /\ stops \subseteq Stops
  BY FactsOf, StopsAssumption, FS_Subset DEF EligibleStops
<1>2. DOMAIN k = DOMAIN Weight
  BY WeightFacts DEF Components
<1>3. /\ k["VEHICLE_ARRIVAL"].parts \in Nat
      /\ k["VEHICLE_ARRIVAL"].good \in 0..k["VEHICLE_ARRIVAL"].parts
      /\ ~Amiss(f) => k["VEHICLE_ARRIVAL"].good = k["VEHICLE_ARRIVAL"].parts
  <2> PICK checks : checks = [arrival |-> Check(f.schedule.loading, FirstTime(f, "VEHICLE_ARRIVED"), 0)]
    OBVIOUS
  <2>1. DOMAIN checks = {"arrival"} /\ IsFiniteSet(DOMAIN checks)
    BY FS_Singleton
  <2>2. k["VEHICLE_ARRIVAL"] = Compliance(checks)
    BY DEF Components
  <2>3. ~Known(checks["arrival"])
    BY FactsOf DEF FirstTime, Known, Check
  <2> QED BY <2>1, <2>2, <2>3, ComplianceFacts
<1>4. /\ k["LOADING_DEPARTURE"].parts \in Nat
      /\ k["LOADING_DEPARTURE"].good \in 0..k["LOADING_DEPARTURE"].parts
      /\ ~Amiss(f) => k["LOADING_DEPARTURE"].good = k["LOADING_DEPARTURE"].parts
  <2> PICK checks : checks = [loading |-> Check(f.schedule.loading, f.loading, 1),
                              departure |-> Check(f.schedule.departure, f.departure, 2)]
    OBVIOUS
  <2>1. DOMAIN checks = {"loading", "departure"} /\ IsFiniteSet(DOMAIN checks)
    <3>1. DOMAIN checks = {"loading", "departure"}
      OBVIOUS
    <3>2. IsFiniteSet({"loading"} \cup {"departure"})
      BY FS_Singleton, FS_Union
    <3> QED BY <3>1, <3>2
  <2>2. k["LOADING_DEPARTURE"] = Compliance(checks)
    BY DEF Components
  <2>3. ASSUME ~Amiss(f), Known(checks["loading"]) PROVE OnTime(checks["loading"])
    <3>1. ~(f.loading > f.schedule.loading)
      BY <2>3 DEF Amiss, Known, Check
    <3> QED BY <2>3, <3>1, FactsOf, TimesInt, NotLate
  <2>4. ASSUME ~Amiss(f), Known(checks["departure"]) PROVE OnTime(checks["departure"])
    <3>1. ~(f.departure > f.schedule.departure)
      BY <2>4 DEF Amiss, Known, Check
    <3> QED BY <2>4, <3>1, FactsOf, TimesInt, NotLate
  <2> QED BY <2>1, <2>2, <2>3, <2>4, ComplianceFacts
<1>5. /\ k["DELIVERY_ARRIVAL"].parts \in Nat
      /\ k["DELIVERY_ARRIVAL"].good \in 0..k["DELIVERY_ARRIVAL"].parts
      /\ ~Amiss(f) => k["DELIVERY_ARRIVAL"].good = k["DELIVERY_ARRIVAL"].parts
  <2> PICK checks : checks = [s \in stops |-> Check(f.stops[s].expected, f.stops[s].actual, 1)]
    OBVIOUS
  <2>1. k["DELIVERY_ARRIVAL"] = Compliance(checks)
    BY DEF Components
  <2>2. ASSUME ~Amiss(f), NEW s \in stops, Known(checks[s]) PROVE OnTime(checks[s])
    <3>1. ~(f.stops[s].actual > f.stops[s].expected)
      BY <2>2 DEF Amiss, Known, Check
    <3> QED BY <1>1, <2>2, <3>1, FactsOf, TimesInt, NotLate
  <2> QED BY <1>1, <2>1, <2>2, ComplianceFacts
<1>6. /\ k["POD_DOCUMENT"].parts \in Nat
      /\ k["POD_DOCUMENT"].good \in 0..k["POD_DOCUMENT"].parts
      /\ ~Amiss(f) => k["POD_DOCUMENT"].good = k["POD_DOCUMENT"].parts
  <2> PICK good : good = {s \in stops : f.stops[s].pod}
    OBVIOUS
  <2>1. /\ k["POD_DOCUMENT"].parts = Cardinality(stops)
        /\ k["POD_DOCUMENT"].good = Cardinality(good)
    BY DEF Components
  <2>2. /\ Cardinality(stops) \in Nat /\ Cardinality(good) \in Nat
        /\ Cardinality(good) <= Cardinality(stops)
    BY <1>1, FS_Subset, FS_CardinalityType
  <2>3. ASSUME ~Amiss(f) PROVE good = stops
    BY <2>3 DEF Amiss
  <2> QED BY <2>1, <2>2, <2>3
<1>7. ASSUME NEW c \in {"ROUTE_COMPLIANCE", "OPERATIONAL_SAFETY", "TEMPERATURE"}
      PROVE  k[c].parts \in Nat /\ k[c].good \in 0..k[c].parts /\ k[c].parts = 0
  <2>1. f.sources = {} /\ "ACCIDENT" \notin Rules(f)
    BY FactsOf DEF Rules
  <2>2. /\ k["ROUTE_COMPLIANCE"] =
             Provided(EventsOf(f, "DEPARTED") # {}, "gps" \in f.sources,
                      \E e \in f.exceptions : e.rule = "ROUTE_DEVIATION" /\ e.open)
        /\ k["OPERATIONAL_SAFETY"] =
             Provided(TRUE, "accident" \in f.sources \/ "ACCIDENT" \in Rules(f),
                      Rules(f) \cap {"ACCIDENT", "OPERATIONAL_SAFETY"} # {})
        /\ k["TEMPERATURE"] =
             Provided(f.temperatureRequired, f.temperatureRequired /\ "temperature" \in f.sources,
                      "TEMPERATURE_DEVIATION" \in Rules(f))
    BY DEF Components
  <2>3. CASE c = "ROUTE_COMPLIANCE"
    BY <2>1, <2>2, <2>3 DEF Provided
  <2>4. CASE c = "OPERATIONAL_SAFETY"
    BY <2>1, <2>2, <2>4 DEF Provided
  <2>5. CASE c = "TEMPERATURE"
    BY <2>1, <2>2, <2>5 DEF Provided
  <2> QED BY <2>3, <2>4, <2>5
<1>8. ASSUME NEW c \in DOMAIN Weight PROVE k[c].parts \in Nat /\ k[c].good \in 0..k[c].parts
  BY <1>3, <1>4, <1>5, <1>6, <1>7, WeightFacts
<1>9. ASSUME ~Amiss(f), NEW c \in Scored(k) PROVE k[c].good = k[c].parts
  BY <1>2, <1>3, <1>4, <1>5, <1>6, <1>7, <1>9, WeightFacts DEF Scored
<1> QED
  BY <1>2, <1>8, <1>9

\* A score is a share, and what is missing counts against nobody.
LEMMA ScoreFacts ==
  ASSUME NEW f \in MissionFacts
  PROVE  /\ MissionScore(f) \in Score
         /\ MissionScore(f) \notin {10000, Missing} => Amiss(f)
<1> PICK k : k = Components(f)
  OBVIOUS
<1>1. CASE Scored(k) = {}
  BY <1>1 DEF MissionScore, Score
<1>2. CASE Scored(k) # {}
  <2>0. PICK d, n : d = ApplicableWeight(k) * Whole(k) /\ n = SumOf(Earned(k))
    OBVIOUS
  <2>1. MissionScore(f) = Rounded(10000 * n, d)
    BY <1>2, <2>0 DEF MissionScore
  <2>2. /\ d \in Nat /\ d > 0 /\ n \in Nat /\ n <= d
        /\ (\A c \in Scored(k) : k[c].good = k[c].parts) => n = d
    BY <1>2, <2>0, ComponentsOf, Average
  <2>3. ~Amiss(f) => \A c \in Scored(k) : k[c].good = k[c].parts
    BY ComponentsOf
  <2>4. MissionScore(f) \in 0..10000
    <3>1. d \in Nat /\ d > 0 /\ n \in Nat /\ n <= d
      BY <2>2
    <3>2. PICK m : m = 10000 * n
      OBVIOUS
    <3>3. m \in Nat /\ m <= 10000 * d
      BY <3>1, <3>2
    <3>4. Rounded(m, d) \in Int /\ Rounded(m, d) >= 0 /\ Rounded(m, d) <= 10000
      BY <3>1, <3>3, RoundedShare
    <3>5. PICK score : score = Rounded(m, d)
      OBVIOUS
    <3>6. score \in Int /\ score >= 0 /\ score <= 10000
      BY <3>4, <3>5
    <3>7. score \in 0..10000
      BY <3>6
    <3>8. MissionScore(f) = score
      BY <2>1, <3>2, <3>5
    <3> QED BY <3>7, <3>8
  <2>5. ~Amiss(f) => MissionScore(f) = 10000
    BY <2>1, <2>2, <2>3, RoundedFull
  <2> QED BY <2>4, <2>5 DEF Score
<1> QED
  BY <1>1, <1>2

\* No score is more than the whole.
ScoresInRange ==
  \A key \in SnapshotKeys : \A type \in PeriodTypes : \A v \in DOMAIN results[key][type] :
    LET scores == results[key][type][v].scores IN
    \A m \in DOMAIN scores : scores[m] \in Score

LEMMA ResultsFollow ==
  ASSUME CutoffInv, ResultInv
  PROVE  ResultsStand /\ ScoresInRange
<1>1. ASSUME NEW key \in SnapshotKeys, NEW type \in PeriodTypes
      PROVE  LET rows == results[key][type] IN
             /\ Len(rows) <= 1
             /\ rows # <<>> => rows[1].scores = Scores(snapshots[key])
             /\ rows # <<>> => snapshots[key] # NoSnapshot
             /\ rows = <<>> \/ DOMAIN rows = {1}
  <2> PICK rows : rows = results[key][type]
    OBVIOUS
  <2>1. Follows(rows, snapshots[key])
    BY DEF ResultInv
  <2>2. CASE rows = <<>>
    BY <2>2, OneElement
  <2>3. ASSUME NEW row, rows = <<row>>, row.scores = Scores(snapshots[key]), snapshots[key] # NoSnapshot
        PROVE  Len(rows) <= 1 /\ rows[1].scores = Scores(snapshots[key]) /\ DOMAIN rows = {1}
    BY <2>3, OneElement
  <2> QED BY <2>1, <2>2, <2>3 DEF Follows
<1>2. ASSUME NEW key \in SnapshotKeys, snapshots[key] # NoSnapshot, NEW m \in DOMAIN Scores(snapshots[key])
      PROVE  /\ Scores(snapshots[key])[m] \in Score
             /\ Scores(snapshots[key])[m] \notin {10000, Missing} => Amiss(snapshots[key].facts[m])
  <2>1. IsSnapshot(snapshots[key])
    BY <1>2 DEF CutoffInv, TakenRows, Kept
  <2>2. snapshots[key].facts[m] \in MissionFacts
    BY <1>2, <2>1, SnapshotFacts DEF Scores
  <2>3. Scores(snapshots[key])[m] = MissionScore(snapshots[key].facts[m])
    BY <1>2 DEF Scores
  <2> QED BY <2>2, <2>3, ScoreFacts
<1>3. ResultFollows
  BY <1>1 DEF ResultFollows
<1>4. ResultsStand
  BY <1>1, <1>2, <1>3 DEF ResultsStand
<1>5. ScoresInRange
  <2> SUFFICES ASSUME NEW key \in SnapshotKeys, NEW type \in PeriodTypes,
                      NEW v \in DOMAIN results[key][type],
                      NEW m \in DOMAIN results[key][type][v].scores
               PROVE  results[key][type][v].scores[m] \in Score
    BY DEF ScoresInRange
  <2>1. results[key][type] # <<>> /\ v = 1
    BY <1>1, OneElement
  <2> QED BY <1>1, <1>2, <2>1
<1> QED
  BY <1>4, <1>5

\* However calculations of KpiResultsService overlap each other and a
\* publication, a snapshot has one result of a period type, it is the one the
\* snapshot gives, and calculateMissionKpi takes nothing off the score of a
\* mission in which nothing known is amiss.
THEOREM ResultsSafe == Spec => []ResultsStand
<1>1. IInv /\ [Next]_vars => IInv'
  BY IInvStep
<1>2. IInv /\ CutoffInv /\ [Next]_vars => CutoffInv'
  BY CutoffStep
<1>3. CutoffInv /\ ResultInv => ResultsStand
  BY ResultsFollow
<1> QED
  BY IInvInit, CutoffInit, ResultInit, ResultStep, <1>1, <1>2, <1>3, PTL DEF Spec

\* calculateMissionKpi divides by the weight of the components it has a score of:
\* there is some, and no score is more than 100 percent.
THEOREM ScoresSafe == Spec => []ScoresInRange
<1>1. IInv /\ [Next]_vars => IInv'
  BY IInvStep
<1>2. IInv /\ CutoffInv /\ [Next]_vars => CutoffInv'
  BY CutoffStep
<1>3. CutoffInv /\ ResultInv => ScoresInRange
  BY ResultsFollow
<1> QED
  BY IInvInit, CutoffInit, ResultInit, ResultStep, <1>1, <1>2, <1>3, PTL DEF Spec

===============================================================================
