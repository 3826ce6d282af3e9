------------------------- MODULE OperationalExceptions -------------------------
(***************************************************************************)
(* The operational exceptions of one mission: opened by the rule evaluator *)
(* (from the handler that records an event, or from a re-evaluation by an  *)
(* operator or by the periodic job) and by route deviations; resolved by   *)
(* users, by the return to the route, and by the closing of the mission.   *)
(*                                                                         *)
(* A request is one PostgreSQL transaction at READ COMMITTED.  What it has *)
(* read, the advisory locks and row locks it holds, and the rows it has    *)
(* created but not committed are its entry of inflight.  A candidate is a  *)
(* rule with its target, the mission or one stop; its fact is what the     *)
(* rows say about it, relative to the rule's configuration:                *)
(*   pending      the operation is not due and has not happened            *)
(*   due          its scheduled time has passed, no actual time recorded   *)
(*   met          recorded, within the threshold (or the rule is disabled) *)
(*   breach       recorded, beyond the threshold or the tolerance          *)
(*   unscheduled  recorded, with no scheduled time to compare with         *)
(* Operators marked mutant are not part of Spec: each is a wrong form of   *)
(* the operator after it, for which a property must fail.                  *)
(***************************************************************************)
EXTENDS Naturals, Sequences

CONSTANTS
  Requests,       \* the transactions that can be in flight at the same time
  Candidates,     \* the rules with their targets
  MissionLevel,   \* the candidates whose target is the mission itself
  Quantities,     \* the candidates of the two quantity rules
  Events,         \* for each recorded event, the candidates it evaluates, in order
  Before,         \* for each candidate, those whose operations come before its own
  Sweep,          \* the candidates a re-evaluation evaluates, in order
  DeviationTimes, \* values of a route deviation's occurredAt
  MaxExceptions   \* bound on the rows of operational_exceptions

Elements(s) == {s[i] : i \in DOMAIN s}

ASSUME MissionLevelAssumption == MissionLevel \subseteq Candidates
ASSUME EventsAssumption == Events \subseteq Seq(Candidates)
ASSUME SweepAssumption == Sweep \in Seq(Candidates)
ASSUME BoundAssumption == MaxExceptions \in Nat

VARIABLES
  phase,       \* the mission's status, as far as exceptions depend on it
  facts,       \* for each candidate, what the mission's and stops' rows say
  exceptions,  \* the rows of operational_exceptions, in the order of commit
  closure,     \* closedExceptionIds of the closing status event
  inflight     \* what each request remembers and holds

vars == <<phase, facts, exceptions, closure, inflight>>

-------------------------------------------------------------------------------
(* Keys, occurrences and rows.                                                 *)

Phases == {"UNDERWAY", "DELIVERED", "CLOSED", "CANCELLED"}
Missing == {"due", "unscheduled"}
Recorded == {"met", "breach", "unscheduled"}
Facts == {"pending", "due"} \cup Recorded
Detected == Missing \cup {"breach"}

\* The activeKey without the organization and the mission: rule and target.
\* The rules about missing data share one key per target.
Target(c) == IF c \in MissionLevel THEN "MISSION" ELSE c
MissingKey(c) == <<"MISSING_OPERATIONAL_DATA", Target(c)>>
RuleKey(c) == <<"RULE", c>>
DeviationKey == <<"ROUTE_DEVIATION", "MISSION">>

EvaluationKeys == {MissingKey(c) : c \in Candidates} \cup {RuleKey(c) : c \in Candidates}
Keys == EvaluationKeys \cup {DeviationKey}

\* What the occurrenceKey adds to the activeKey: the id of the event, or the
\* re-evaluated rule, target and source timestamp, or the deviation's time.
Occurrences ==
  {<<"event", c>> : c \in Candidates} \cup {<<f, c>> : f \in Detected, c \in Candidates}
    \cup {<<"at", t>> : t \in DeviationTimes}

\* detected stands for the columns a repeated detection overwrites, facts,
\* context and lastDetectedAt: the occurrence they were written for last.
Detection == [key : Keys, occurrence : Occurrences, detected : Occurrences]

ExceptionRow ==
  [key : Keys, occurrence : Occurrences, detected : Occurrences,
   status : {"OPEN", "RESOLVED"}, resolvedBy : {"nobody", "user", "recovery", "closure"}]

MissionLock == <<"MISSION_OPERATIONAL", "MISSION">>
ExceptionLock(e) == <<"OPERATIONAL_EXCEPTION", e>>
Locks == EvaluationKeys \cup {MissionLock} \cup {ExceptionLock(e) : e \in DOMAIN exceptions}

NoFacts == [c \in {} |-> "pending"]
NoUpdates == [e \in {} |-> <<"pending", e>>]

Idle ==
  [op |-> "idle", locks |-> {}, todo |-> <<>>, seen |-> NoFacts, opened |-> <<>>,
   found |-> {}, updates |-> NoUpdates, rows |-> {}]

Ops == {"idle", "event", "sweep", "deviate", "recover", "resolve", "close", "closing"}

Views == UNION {[S -> Facts] : S \in SUBSET Candidates}
Updates == UNION {[S -> Occurrences] : S \in SUBSET DOMAIN exceptions}

Intent ==
  [op : Ops, locks : SUBSET Locks, todo : Seq(Candidates), seen : Views,
   opened : Seq(Detection), found : SUBSET DOMAIN exceptions,
   updates : Updates, rows : SUBSET DOMAIN exceptions]

\* The facts of what is still to do are there, and an exception was found only
\* for something to report.
IntentOK(i) ==
  /\ i \in Intent
  /\ Elements(i.todo) \subseteq DOMAIN i.seen
  /\ i.found # {} => i.todo # <<>> /\ i.seen[Head(i.todo)] \in Detected

TypeOK ==
  /\ phase \in Phases
  /\ facts \in [Candidates -> Facts]
  /\ exceptions \in Seq(ExceptionRow)
  /\ closure \subseteq DOMAIN exceptions
  /\ DOMAIN inflight = Requests
  /\ \A r \in Requests : IntentOK(inflight[r])

Init ==
  /\ phase = "UNDERWAY"
  /\ facts = [c \in Candidates |-> "pending"]
  /\ exceptions = <<>>
  /\ closure = {}
  /\ inflight = [r \in Requests |-> Idle]

Begin(r, intent) == inflight[r] = Idle /\ inflight' = [inflight EXCEPT ![r] = intent]

Remember(r, intent) == inflight' = [inflight EXCEPT ![r] = intent]

End(r) == inflight' = [inflight EXCEPT ![r] = Idle]

Unlocked(lock, r) == TRUE  \* mutant

\* pg_advisory_xact_lock: free, or already held by this transaction.
Available(lock, r) == \A q \in Requests \ {r} : lock \notin inflight[q].locks

\* No other transaction has updated the row and not yet committed.
RowFree(e, r) == \A q \in Requests \ {r} : e \notin DOMAIN inflight[q].updates

OpenRows(key) == {e \in DOMAIN exceptions : exceptions[e].status = "OPEN" /\ exceptions[e].key = key}

AllOpen == {e \in DOMAIN exceptions : exceptions[e].status = "OPEN"}

NewRow(d) ==
  [key |-> d.key, occurrence |-> d.occurrence, detected |-> d.detected,
   status |-> "OPEN", resolvedBy |-> "nobody"]

\* The updates by id reach the rows whatever has become of them.
Redetect(r) ==
  [e \in DOMAIN exceptions |->
     IF e \in DOMAIN inflight[r].updates
     THEN [exceptions[e] EXCEPT !.detected = inflight[r].updates[e]]
     ELSE exceptions[e]]

Insert(r) == Redetect(r) \o [i \in DOMAIN inflight[r].opened |-> NewRow(inflight[r].opened[i])]

ResolveRows(S, by) ==
  [e \in DOMAIN exceptions |->
     IF e \in S THEN [exceptions[e] EXCEPT !.status = "RESOLVED", !.resolvedBy = by]
     ELSE exceptions[e]]

-------------------------------------------------------------------------------
(* The mission and the clock, as far as exceptions depend on them.             *)

\* A handler that records an operation of the mission holds the mission's row
\* until it commits; whoever changes the status waits for it, and loses.
MissionRowFree ==
  \A q \in Requests :
    inflight[q].op = "event" => DOMAIN inflight[q].seen \cap MissionLevel = {}

Elapse(c) ==
  /\ c \in Elements(Sweep)
  /\ facts[c] = "pending"
  /\ facts' = [facts EXCEPT ![c] = "due"]
  /\ UNCHANGED <<phase, exceptions, closure, inflight>>

Deliver ==
  /\ phase = "UNDERWAY"
  /\ \A c \in MissionLevel : facts[c] \in Recorded
  /\ MissionRowFree
  /\ phase' = "DELIVERED"
  /\ UNCHANGED <<facts, exceptions, closure, inflight>>

Cancel ==
  /\ phase = "UNDERWAY"
  /\ MissionRowFree
  /\ phase' = "CANCELLED"
  /\ UNCHANGED <<facts, exceptions, closure, inflight>>

-------------------------------------------------------------------------------
(* Rule evaluation.                                                            *)

\* A handler records an operation and evaluates its rules in the same
\* transaction.  The row it has updated keeps a second one from recording the
\* same operation.
BeginEvent(r, cs) ==
  /\ \A c \in Elements(cs) :
       /\ facts[c] \notin Recorded
       /\ \A b \in Before[c] : facts[b] \in Recorded
       /\ \A q \in Requests : inflight[q].op = "event" => c \notin DOMAIN inflight[q].seen
       /\ c \in MissionLevel => phase = "UNDERWAY"
  /\ \E outcome \in [Elements(cs) -> Recorded] :
       /\ \A c \in Elements(cs) :
            outcome[c] = "unscheduled" => facts[c] = "pending" /\ c \notin Quantities
       /\ Begin(r, [Idle EXCEPT !.op = "event", !.todo = cs, !.seen = outcome])
  /\ UNCHANGED <<phase, facts, exceptions, closure>>

\* reevaluate reads the mission and its stops before it opens the
\* transaction that evaluates what it has read.
BeginSweep(r) ==
  /\ Begin(r, [Idle EXCEPT !.op = "sweep", !.todo = Sweep,
                           !.seen = [c \in Elements(Sweep) |-> facts[c]]])
  /\ UNCHANGED <<phase, facts, exceptions, closure>>

SeenFact(r) == inflight[r].seen[Head(inflight[r].todo)]

Occurrence(r, c) == IF inflight[r].op = "event" THEN <<"event", c>> ELSE <<inflight[r].seen[c], c>>

\* What the evaluator makes of the next candidate.
Current(r) ==
  LET c == Head(inflight[r].todo)
  IN [key |-> IF SeenFact(r) \in Missing THEN MissingKey(c) ELSE RuleKey(c),
      occurrence |-> Occurrence(r, c), detected |-> Occurrence(r, c)]

Evaluating(r) ==
  /\ inflight[r].op \in {"event", "sweep"}
  /\ inflight[r].todo # <<>>
  /\ inflight[r].found = {}

\* Not due, or due and compliant: nothing to report.
Pass(r) ==
  /\ Evaluating(r)
  /\ SeenFact(r) \notin Detected
  /\ Remember(r, [inflight[r] EXCEPT !.todo = Tail(@)])
  /\ UNCHANGED <<phase, facts, exceptions, closure>>

Detecting(r) ==
  /\ Evaluating(r)
  /\ SeenFact(r) \in Detected
  /\ Available(Current(r).key, r)

OpenedHere(r, key) == \E i \in DOMAIN inflight[r].opened : inflight[r].opened[i].key = key

\* The transaction sees its own uncommitted exception and updates it.
DetectOwn(r) ==
  /\ Detecting(r)
  /\ OpenedHere(r, Current(r).key)
  /\ Remember(r, [inflight[r] EXCEPT
                    !.todo = Tail(@),
                    !.opened = [i \in DOMAIN @ |->
                                  IF @[i].key = Current(r).key
                                  THEN [@[i] EXCEPT !.detected = Current(r).occurrence]
                                  ELSE @[i]]])
  /\ UNCHANGED <<phase, facts, exceptions, closure>>

\* findUnique on the activeKey finds an exception.
DetectFound(r) ==
  /\ Detecting(r)
  /\ ~OpenedHere(r, Current(r).key)
  /\ OpenRows(Current(r).key) # {}
  /\ Remember(r, [inflight[r] EXCEPT !.locks = @ \cup {Current(r).key},
                                     !.found = OpenRows(Current(r).key)])
  /\ UNCHANGED <<phase, facts, exceptions, closure>>

\* It is updated by its id, whatever has become of it since it was found; the
\* row is this transaction's until the commit, which makes the update visible.
Redetected(r) ==
  [e \in inflight[r].found \cup DOMAIN inflight[r].updates |->
     IF e \in inflight[r].found THEN Current(r).occurrence ELSE inflight[r].updates[e]]

UpdateFound(r) ==
  /\ inflight[r].found # {}
  /\ \A e \in inflight[r].found : RowFree(e, r)
  /\ Remember(r, [inflight[r] EXCEPT !.todo = Tail(@), !.found = {},
                                     !.updates = Redetected(r)])
  /\ UNCHANGED <<phase, facts, exceptions, closure>>

NeverReplayed(d) == FALSE  \* mutant

\* The occurrence already has a resolved exception.
Replayed(d) ==
  \E e \in DOMAIN exceptions :
    /\ exceptions[e].status = "RESOLVED"
    /\ exceptions[e].key = d.key
    /\ exceptions[e].occurrence = d.occurrence

DetectReplay(r) ==
  /\ Detecting(r)
  /\ ~OpenedHere(r, Current(r).key)
  /\ OpenRows(Current(r).key) = {}
  /\ Replayed(Current(r))
  /\ Remember(r, [inflight[r] EXCEPT !.locks = @ \cup {Current(r).key}, !.todo = Tail(@)])
  /\ UNCHANGED <<phase, facts, exceptions, closure>>

DetectNew(r) ==
  /\ Detecting(r)
  /\ ~OpenedHere(r, Current(r).key)
  /\ OpenRows(Current(r).key) = {}
  /\ ~Replayed(Current(r))
  /\ Remember(r, [inflight[r] EXCEPT !.locks = @ \cup {Current(r).key}, !.todo = Tail(@),
                                     !.opened = Append(@, Current(r))])
  /\ UNCHANGED <<phase, facts, exceptions, closure>>

CommitEvaluation(r) ==
  /\ inflight[r].op \in {"event", "sweep"}
  /\ inflight[r].todo = <<>>
  /\ Len(exceptions) + Len(inflight[r].opened) <= MaxExceptions
  /\ exceptions' = Insert(r)
  /\ facts' = IF inflight[r].op = "sweep" THEN facts
              ELSE [c \in Candidates |-> IF c \in DOMAIN inflight[r].seen
                                         THEN inflight[r].seen[c] ELSE facts[c]]
  /\ End(r)
  /\ UNCHANGED <<phase, closure>>

-------------------------------------------------------------------------------
(* Route deviations, under the mission's operational lock.                     *)

AnyPhase == TRUE  \* mutant

DeviationAllowed == phase \notin {"CLOSED", "CANCELLED"}

Deviation(at) ==
  [key |-> DeviationKey, occurrence |-> <<"at", at>>, detected |-> <<"at", at>>]

ReadDeviation(r, at) ==
  /\ Available(MissionLock, r)
  /\ DeviationAllowed
  /\ OpenRows(DeviationKey) = {}
  /\ Begin(r, [Idle EXCEPT !.op = "deviate", !.locks = {MissionLock},
                           !.opened = <<Deviation(at)>>])
  /\ UNCHANGED <<phase, facts, exceptions, closure>>

CommitDeviation(r) ==
  /\ inflight[r].op = "deviate"
  /\ Len(exceptions) < MaxExceptions
  /\ exceptions' = Insert(r)
  /\ End(r)
  /\ UNCHANGED <<phase, facts, closure>>

ReadRecovery(r, e) ==
  /\ Available(MissionLock, r)
  /\ exceptions[e].key = DeviationKey
  /\ exceptions[e].status = "OPEN"
  /\ Begin(r, [Idle EXCEPT !.op = "recover", !.locks = {MissionLock}, !.rows = {e}])
  /\ UNCHANGED <<phase, facts, exceptions, closure>>

-------------------------------------------------------------------------------
(* Resolution by a user, and the conditional update it shares with recovery.   *)

ReadResolution(r, e) ==
  /\ Available(ExceptionLock(e), r)
  /\ exceptions[e].status = "OPEN"
  /\ Begin(r, [Idle EXCEPT !.op = "resolve", !.locks = {ExceptionLock(e)}, !.rows = {e}])
  /\ UNCHANGED <<phase, facts, exceptions, closure>>

EveryRow(S) == S  \* mutant

\* The where clause of the conditional updates: only what is still open.
StillOpen(S) == {e \in S : exceptions[e].status = "OPEN"}

Resolver(op) == IF op = "recover" THEN "recovery" ELSE "user"

\* updateMany; when it counts no row, the answer is the row as it is.
CommitResolution(r) ==
  /\ inflight[r].op \in {"recover", "resolve"}
  /\ \A e \in inflight[r].rows : RowFree(e, r)
  /\ exceptions' = ResolveRows(StillOpen(inflight[r].rows), Resolver(inflight[r].op))
  /\ End(r)
  /\ UNCHANGED <<phase, facts, closure>>

-------------------------------------------------------------------------------
(* The closing of the mission resolves what is open.                           *)

ReadClose(r) ==
  /\ Available(MissionLock, r)
  /\ phase = "DELIVERED"
  /\ Begin(r, [Idle EXCEPT !.op = "close", !.locks = {MissionLock}])
  /\ UNCHANGED <<phase, facts, exceptions, closure>>

\* The SELECT of the open exceptions, after the update of the mission.
ListOpen(r) ==
  /\ inflight[r].op = "close"
  /\ phase = "DELIVERED"
  /\ Remember(r, [inflight[r] EXCEPT !.op = "closing", !.rows = AllOpen])
  /\ UNCHANGED <<phase, facts, exceptions, closure>>

AllListed(r) == inflight[r].rows  \* mutant

\* closedExceptionIds: those of the listed rows the update still found open.
Closed(r) == StillOpen(inflight[r].rows)

\* One conditional update after the other; together they are one step, since
\* each holds its row to the commit.
CommitClose(r) ==
  /\ inflight[r].op = "closing"
  /\ \A e \in inflight[r].rows : RowFree(e, r)
  /\ exceptions' = ResolveRows(StillOpen(inflight[r].rows), "closure")
  /\ closure' = Closed(r)
  /\ phase' = "CLOSED"
  /\ End(r)
  /\ UNCHANGED facts

-------------------------------------------------------------------------------
\* A refusal after the first statement, a crash, a timeout, or PostgreSQL
\* breaking a cycle of waiting transactions: nothing of it remains.
Rollback(r) ==
  /\ inflight[r] # Idle
  /\ End(r)
  /\ UNCHANGED <<phase, facts, exceptions, closure>>

MissionStep == Deliver \/ Cancel \/ (\E c \in Candidates : Elapse(c))

EvaluationStep(r) ==
  \/ \E cs \in Events : BeginEvent(r, cs)
  \/ BeginSweep(r)
  \/ Pass(r)
  \/ DetectOwn(r)
  \/ DetectFound(r)
  \/ UpdateFound(r)
  \/ DetectReplay(r)
  \/ DetectNew(r)
  \/ CommitEvaluation(r)

DeviationStep(r) ==
  \/ \E at \in DeviationTimes : ReadDeviation(r, at)
  \/ CommitDeviation(r)
  \/ \E e \in DOMAIN exceptions : ReadRecovery(r, e)

ResolutionStep(r) ==
  \/ \E e \in DOMAIN exceptions : ReadResolution(r, e)
  \/ CommitResolution(r)
  \/ ReadClose(r)
  \/ ListOpen(r)
  \/ CommitClose(r)

Next ==
  \/ MissionStep
  \/ \E r \in Requests :
       EvaluationStep(r) \/ DeviationStep(r) \/ ResolutionStep(r) \/ Rollback(r)

Spec == Init /\ [][Next]_vars

-------------------------------------------------------------------------------
(* Safety.                                                                     *)

\* One rule never has two open exceptions on the same target, however many
\* handlers and re-evaluations detect it at the same time: by the locks alone,
\* so that no handler ever fails on the unique index of activeKey.
OneOpenPerKey ==
  \A d, e \in AllOpen : exceptions[d].key = exceptions[e].key => d = e

\* The rule evaluator never opens a second exception for one occurrence.
OccurrenceOnce ==
  \A d, e \in DOMAIN exceptions :
    /\ exceptions[d].key \in EvaluationKeys
    /\ exceptions[d].key = exceptions[e].key
    /\ exceptions[d].occurrence = exceptions[e].occurrence
    => d = e

\* A closed mission has no open route deviation: none survives the closing,
\* and none that was being started when the mission closed appears later.
ClosedWithoutDeviation == phase = "CLOSED" => OpenRows(DeviationKey) = {}

\* The closing event lists exactly the exceptions that the closing resolved,
\* also when users resolve some of them while it runs.
ClosureAccounted == closure = {e \in DOMAIN exceptions : exceptions[e].resolvedBy = "closure"}

\* What r has found open and writes by id, now or at its commit.
Reached(r) == inflight[r].found \cup DOMAIN inflight[r].updates

Committing(r, e) ==
  /\ e \in DOMAIN inflight[r].updates
  /\ exceptions'[e].detected = inflight[r].updates[e]
  /\ inflight'[r] = Idle

\* A resolution is final, and its author is the first to have resolved:
\* users, recovery and closing do not overwrite each other.  The columns of a
\* detection are not: an evaluation that had found the exception open still
\* writes them by id, at its commit.  But no evaluation reaches an exception
\* that it finds after it was resolved.
ResolutionFinal ==
  [][\A e \in DOMAIN exceptions :
       exceptions[e].status = "RESOLVED" =>
         /\ e \in DOMAIN exceptions'
         /\ exceptions'[e] = [exceptions[e] EXCEPT !.detected = exceptions'[e].detected]
         /\ exceptions'[e].detected # exceptions[e].detected =>
              \E r \in Requests : Committing(r, e)
         /\ \A r \in Requests : e \in Reached(r)' => e \in Reached(r)]_vars

\* The rows behave as a register of exceptions whose operations are atomic.
Register == INSTANCE ExceptionRegister WITH rows <- exceptions

RefinesRegister == Register!Spec

-------------------------------------------------------------------------------
(* The inductive invariant: what a request in flight knows of the rows.        *)

\* Two transactions never hold the same advisory lock.
LocksExclusive ==
  \A p, q \in Requests : p # q => inflight[p].locks \cap inflight[q].locks = {}

Opening(r) == {inflight[r].opened[i] : i \in DOMAIN inflight[r].opened}

\* The uncommitted exceptions of an evaluation: their keys are locked,
\* pairwise distinct and without an open row, their occurrences are new.
EvaluationKnows(r) ==
  inflight[r].op \in {"event", "sweep"} =>
    /\ \A d \in Opening(r) :
         /\ d.key \in inflight[r].locks \cap EvaluationKeys
         /\ OpenRows(d.key) = {}
         /\ ~Replayed(d)
    /\ \A i, j \in DOMAIN inflight[r].opened :
         inflight[r].opened[i].key = inflight[r].opened[j].key => i = j

\* The exceptions an evaluation has found, and may have updated, are of keys it
\* has locked.
UpdatesKnow(r) ==
  \A e \in Reached(r) : exceptions[e].key \in inflight[r].locks \cap EvaluationKeys

\* A deviation being started: the mission is not closed and has none open.
DeviationKnows(r) ==
  inflight[r].op = "deviate" =>
    /\ MissionLock \in inflight[r].locks
    /\ Len(inflight[r].opened) = 1
    /\ inflight[r].opened[1].key = DeviationKey
    /\ OpenRows(DeviationKey) = {}
    /\ phase # "CLOSED"

\* A closing in flight has the mission to itself, and has listed every
\* deviation that is still open.
CloseKnows(r) ==
  /\ inflight[r].op \in {"close", "closing"} => MissionLock \in inflight[r].locks
  /\ inflight[r].op = "closing" =>
       /\ OpenRows(DeviationKey) \subseteq inflight[r].rows
       /\ phase = "DELIVERED"

IntentSound(r) ==
  EvaluationKnows(r) /\ UpdatesKnow(r) /\ DeviationKnows(r) /\ CloseKnows(r)

IntentsSound == \A r \in Requests : IntentSound(r)

IndInv ==
  /\ TypeOK
  /\ LocksExclusive
  /\ IntentsSound
  /\ OneOpenPerKey
  /\ OccurrenceOnce
  /\ ClosedWithoutDeviation
  /\ ClosureAccounted
  /\ phase # "CLOSED" => closure = {}
  /\ \A e \in DOMAIN exceptions :
       exceptions[e].status = "OPEN" <=> exceptions[e].resolvedBy = "nobody"

===============================================================================
