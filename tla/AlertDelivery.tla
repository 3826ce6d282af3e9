----------------------------- MODULE AlertDelivery -----------------------------
(***************************************************************************)
(* The alerts of operational exceptions: recording the attempts to deliver *)
(* an alert by mail, and escalating alerts that are still due to the fleet *)
(* managers, by a user or by the job that runs every minute.               *)
(*                                                                         *)
(* A delivery is one transaction under the advisory lock of its alert.  An *)
(* execution of escalateDue, here a sweep, reads the due alerts and the    *)
(* managers outside any transaction, and then escalates each alert in a    *)
(* transaction of its own under the same lock.  What a request remembers   *)
(* is its entry of delivery or of sweep.  Times are positive: 0 stands for *)
(* null.  Operators marked mutant are not part of Spec: each is a wrong    *)
(* form of the operator after it, for which a property must fail.          *)
(***************************************************************************)
EXTENDS Naturals, Sequences, FiniteSets

CONSTANTS
  Alerts,         \* the alerts, each with its own exception
  Users,          \* who can be a fleet manager
  Deliveries,     \* the requests to record a delivery attempt
  Sweeps,         \* the executions of escalateDue
  Jobs,           \* those of the job, which runs at the current time
  MaxTime,        \* bound on the clock, and on the times clients send
  Grace,          \* 14 minutes from the event to the escalation
  RetryInterval,  \* 5 minutes between two attempts
  Limit,          \* most alerts one sweep takes
  MaxFailures     \* bound on the sweeps that fail half way

Times == 1 .. MaxTime
MAX_DELIVERY_ATTEMPTS == 2

ASSUME ConstantsAssumption ==
  /\ {MaxTime, Grace, RetryInterval, MaxFailures} \subseteq Nat
  /\ Limit \in Nat \ {0}
  /\ Jobs \subseteq Sweeps

VARIABLES
  now,       \* the clock
  alerts,    \* the rows of alerts
  attempts,  \* for each alert its delivery attempts, in the order of attemptNo
  notified,  \* for each alert the recipients of its escalation
  open,      \* the alerts whose exception is OPEN
  managers,  \* the active users with the role FLEET_MANAGER
  delivery,  \* what each delivery request remembers while it holds its lock
  sweep,     \* what each sweep remembers
  failures   \* how many sweeps have failed half way

vars == <<now, alerts, attempts, notified, open, managers, delivery, sweep, failures>>

-------------------------------------------------------------------------------
(* Rows and locks.                                                             *)

Outcomes == {"SENT", "FAILED"}

AlertRow ==
  [createdAt : Nat, escalationDueAt : Nat, escalatedAt : Nat,
   status : {"PENDING", "SENT", "FAILED"}, sentAt : Nat]

Attempt == [outcome : Outcomes, attemptedAt : Nat, nextAttemptAt : Nat]

\* The row before the alert is created with its exception.
NoAlert ==
  [createdAt |-> 0, escalationDueAt |-> 0, escalatedAt |-> 0,
   status |-> "PENDING", sentAt |-> 0]

Created == {a \in Alerts : alerts[a].createdAt # 0}
Escalated == {a \in Alerts : alerts[a].escalatedAt # 0}

NoDelivery ==
  [alert |-> {}, attemptNo |-> 0, outcome |-> "FAILED", attemptedAt |-> 0, found |-> <<>>]
NoSweep ==
  [step |-> "idle", evaluatedAt |-> 0, rest |-> {}, recipients |-> {}, writing |-> {}]

\* mutant: the lock is not taken
Unlocked(a) == a \in Alerts

\* The alerts locked by requests in flight: pg_advisory_xact_lock.
Locked ==
  (UNION {delivery[d].alert : d \in Deliveries})
    \cup (UNION {sweep[s].writing : s \in Sweeps})
Available(a) == a \notin Locked

-------------------------------------------------------------------------------
(* The world around: time, exceptions and managers.                            *)

Tick ==
  /\ now < MaxTime
  /\ now' = now + 1
  /\ UNCHANGED <<alerts, attempts, notified, open, managers, delivery, sweep, failures>>

\* An exception is opened with its alert; occurredAt is the time of the event,
\* which a client may have chosen.
Raise(a, occurredAt) ==
  /\ a \notin Created
  /\ alerts' = [alerts EXCEPT ![a] =
       [createdAt |-> now, escalationDueAt |-> occurredAt + Grace, escalatedAt |-> 0,
        status |-> "PENDING", sentAt |-> 0]]
  /\ open' = open \cup {a}
  /\ UNCHANGED <<now, attempts, notified, managers, delivery, sweep, failures>>

\* Its resolution does not touch the alert, nor take its lock.
Resolve(a) ==
  /\ a \in open
  /\ open' = open \ {a}
  /\ UNCHANGED <<now, alerts, attempts, notified, managers, delivery, sweep, failures>>

\* A user is activated or deactivated, given or deprived of the role.
ChangeManager(u) ==
  /\ managers' \in {managers \cup {u}, managers \ {u}}
  /\ managers' # managers
  /\ UNCHANGED <<now, alerts, attempts, notified, open, delivery, sweep, failures>>

-------------------------------------------------------------------------------
(* recordDeliveryAttempt.                                                      *)

Delivered(found) == \E i \in DOMAIN found : found[i].outcome = "SENT"

\* The checks of a new attempt.  An attempt that is already recorded is
\* answered with its row and changes nothing.
Recordable(a, no, t, found) ==
  /\ no \in 1 .. MAX_DELIVERY_ATTEMPTS
  /\ t >= alerts[a].createdAt
  /\ ~Delivered(found)
  /\ no = Len(found) + 1
  /\ Len(found) > 0 => t >= found[Len(found)].nextAttemptAt

ReadAttempts(d, a, no, outcome, t) ==
  /\ delivery[d] = NoDelivery
  /\ a \in Created
  /\ Available(a)
  /\ Recordable(a, no, t, attempts[a])
  /\ delivery' = [delivery EXCEPT ![d] =
       [alert |-> {a}, attemptNo |-> no, outcome |-> outcome, attemptedAt |-> t,
        found |-> attempts[a]]]
  /\ UNCHANGED <<now, alerts, attempts, notified, open, managers, sweep, failures>>

NextAttempt(no, outcome, t) ==
  IF outcome = "FAILED" /\ no < MAX_DELIVERY_ATTEMPTS THEN t + RetryInterval ELSE 0

\* mutant: the first failure is final
FailedAtOnce(no, outcome) == IF outcome = "SENT" THEN "SENT" ELSE "FAILED"

StatusAfter(no, outcome) ==
  IF outcome = "SENT" THEN "SENT"
  ELSE IF no = MAX_DELIVERY_ATTEMPTS THEN "FAILED" ELSE "PENDING"

\* The insert, with the unique index on alert and attemptNo, and the update of
\* the alert.
CommitAttempt(d, a) ==
  LET i == delivery[d] IN
  /\ i.alert = {a}
  /\ i.attemptNo \notin DOMAIN attempts[a]
  /\ attempts' = [attempts EXCEPT ![a] = Append(@,
       [outcome |-> i.outcome, attemptedAt |-> i.attemptedAt,
        nextAttemptAt |-> NextAttempt(i.attemptNo, i.outcome, i.attemptedAt)])]
  /\ alerts' = [alerts EXCEPT
       ![a].status = StatusAfter(i.attemptNo, i.outcome),
       ![a].sentAt = IF i.outcome = "SENT" THEN i.attemptedAt ELSE @]
  /\ delivery' = [delivery EXCEPT ![d] = NoDelivery]
  /\ UNCHANGED <<now, notified, open, managers, sweep, failures>>

\* A transaction that times out, or whose client is gone, leaves nothing behind.
AbortDelivery(d) ==
  /\ delivery[d] # NoDelivery
  /\ delivery' = [delivery EXCEPT ![d] = NoDelivery]
  /\ UNCHANGED <<now, alerts, attempts, notified, open, managers, sweep, failures>>

-------------------------------------------------------------------------------
(* escalateDue.                                                                *)

\* mutant: the update looks at the alert's own row only
StillDue(a, t) ==
  /\ a \in Created
  /\ alerts[a].escalationDueAt <= t
  /\ a \notin Escalated

\* mutant: the update does not ask whether the alert is escalated already
OpenAndDue(a, t) ==
  /\ a \in Created
  /\ alerts[a].escalationDueAt <= t
  /\ a \in open

Escalatable(a, t) ==
  /\ a \in Created
  /\ alerts[a].escalationDueAt <= t
  /\ a \notin Escalated
  /\ a \in open

\* mutant: the list contains the alerts escalated before
EverDue(t) == {a \in Created \cap open : alerts[a].escalationDueAt <= t}

DueAlerts(t) == {a \in Alerts : Escalatable(a, t)}

\* The alerts of S that are due first; alerts due at the same time come in the
\* order of their ids, which is arbitrary.
Earliest(S) ==
  {a \in S : \A b \in S : alerts[a].escalationDueAt <= alerts[b].escalationDueAt}

\* orderBy escalationDueAt, take limit.
IsTaken(C, S) ==
  /\ C \subseteq S
  /\ Cardinality(C) = IF Cardinality(S) < Limit THEN Cardinality(S) ELSE Limit
  /\ \A a \in C, b \in S \ C : alerts[a].escalationDueAt <= alerts[b].escalationDueAt

ListDue(s, t) ==
  /\ sweep[s] = NoSweep
  /\ s \in Jobs => t = now
  /\ \E C \in SUBSET DueAlerts(t) :
       /\ IsTaken(C, DueAlerts(t))
       /\ sweep' = [sweep EXCEPT ![s] =
            [step |-> "listed", evaluatedAt |-> t, rest |-> C, recipients |-> {},
             writing |-> {}]]
  /\ UNCHANGED <<now, alerts, attempts, notified, open, managers, delivery, failures>>

\* The sweep goes on with the alerts in rest, or ends.
Proceed(s, rest) ==
  sweep' = [sweep EXCEPT ![s] =
    IF rest = {} THEN NoSweep
    ELSE [@ EXCEPT !.step = "escalating", !.rest = rest, !.writing = {}]]

\* Nobody to escalate to: the sweep ends and the alerts stay due.
NoManagers(s) ==
  /\ sweep[s].step = "listed"
  /\ managers = {}
  /\ sweep' = [sweep EXCEPT ![s] = NoSweep]
  /\ UNCHANGED <<now, alerts, attempts, notified, open, managers, delivery, failures>>

\* mutant: an empty list of managers does not end the sweep
AnyManagers(s) ==
  /\ sweep[s].step = "listed"
  /\ sweep' = [sweep EXCEPT ![s] =
       IF @.rest = {} THEN NoSweep
       ELSE [@ EXCEPT !.step = "escalating", !.recipients = managers]]
  /\ UNCHANGED <<now, alerts, attempts, notified, open, managers, delivery, failures>>

ListManagers(s) ==
  /\ sweep[s].step = "listed"
  /\ managers # {}
  /\ sweep' = [sweep EXCEPT ![s] =
       IF @.rest = {} THEN NoSweep
       ELSE [@ EXCEPT !.step = "escalating", !.recipients = managers]]
  /\ UNCHANGED <<now, alerts, attempts, notified, open, managers, delivery, failures>>

\* The lock, and the conditional update of the alert's row.
Claim(s, a) ==
  /\ sweep[s].step = "escalating"
  /\ sweep[s].writing = {}
  /\ a \in Earliest(sweep[s].rest)
  /\ Available(a)
  /\ IF Escalatable(a, sweep[s].evaluatedAt)
     THEN sweep' = [sweep EXCEPT ![s].writing = {a}]
     ELSE Proceed(s, sweep[s].rest \ {a})
  /\ UNCHANGED <<now, alerts, attempts, notified, open, managers, delivery, failures>>

\* The rows of alert_escalations, for the managers listed before, and the commit.
CommitEscalation(s, a) ==
  /\ sweep[s].writing = {a}
  /\ alerts' = [alerts EXCEPT ![a].escalatedAt = sweep[s].evaluatedAt]
  /\ notified' = [notified EXCEPT ![a] = @ \cup sweep[s].recipients]
  /\ Proceed(s, sweep[s].rest \ {a})
  /\ UNCHANGED <<now, attempts, open, managers, delivery, failures>>

\* A statement fails or the process dies: the transaction is rolled back and the
\* alerts not yet escalated are left to a later sweep.
FailSweep(s) ==
  /\ sweep[s] # NoSweep
  /\ failures < MaxFailures
  /\ failures' = failures + 1
  /\ sweep' = [sweep EXCEPT ![s] = NoSweep]
  /\ UNCHANGED <<now, alerts, attempts, notified, open, managers, delivery>>

-------------------------------------------------------------------------------

Init ==
  /\ now = 1
  /\ alerts = [a \in Alerts |-> NoAlert]
  /\ attempts = [a \in Alerts |-> <<>>]
  /\ notified = [a \in Alerts |-> {}]
  /\ open = {}
  /\ managers \in SUBSET Users
  /\ delivery = [d \in Deliveries |-> NoDelivery]
  /\ sweep = [s \in Sweeps |-> NoSweep]
  /\ failures = 0

World ==
  \/ Tick
  \/ \E a \in Alerts : Resolve(a) \/ \E t \in Times : Raise(a, t)
  \/ \E u \in Users : ChangeManager(u)

Deliver(d) ==
  \/ \E a \in Alerts, no \in 1 .. MAX_DELIVERY_ATTEMPTS, o \in Outcomes, t \in Times :
       ReadAttempts(d, a, no, o, t)
  \/ \E a \in Alerts : CommitAttempt(d, a)
  \/ AbortDelivery(d)

Escalate(s) ==
  \/ \E t \in Times : ListDue(s, t)
  \/ NoManagers(s)
  \/ ListManagers(s)
  \/ \E a \in Alerts : Claim(s, a) \/ CommitEscalation(s, a)
  \/ FailSweep(s)

Next ==
  \/ World
  \/ \E d \in Deliveries : Deliver(d)
  \/ \E s \in Sweeps : Escalate(s)

Spec == Init /\ [][Next]_vars

\* The job lists at the current time, every minute; a transaction ends, at the
\* latest by its timeout; a waiter for an advisory lock gets it, in the order of
\* arrival, although others take it again and again.
Fairness ==
  /\ WF_vars(Tick)
  /\ \A d \in Deliveries : WF_vars(AbortDelivery(d) \/ \E a \in Alerts : CommitAttempt(d, a))
  /\ \A s \in Jobs : WF_vars(ListDue(s, now))
  /\ \A s \in Sweeps :
       /\ WF_vars(NoManagers(s) \/ ListManagers(s))
       /\ SF_vars(\E a \in Alerts : Claim(s, a))
       /\ WF_vars(\E a \in Alerts : CommitEscalation(s, a))

FairSpec == Spec /\ Fairness

-------------------------------------------------------------------------------
(* Properties.                                                                 *)

DeliveryIntent ==
  [alert : SUBSET Alerts, attemptNo : 0 .. MAX_DELIVERY_ATTEMPTS, outcome : Outcomes,
   attemptedAt : Nat, found : Seq(Attempt)]
SweepIntent ==
  [step : {"idle", "listed", "escalating"}, evaluatedAt : Nat, rest : SUBSET Alerts,
   recipients : SUBSET Users, writing : SUBSET Alerts]

\* Rows, and what requests remember of them, have their types.
TypeOK ==
  /\ now \in Nat \ {0}
  /\ alerts \in [Alerts -> AlertRow]
  /\ attempts \in [Alerts -> Seq(Attempt)]
  /\ notified \in [Alerts -> SUBSET Users]
  /\ open \subseteq Created
  /\ managers \subseteq Users
  /\ delivery \in [Deliveries -> DeliveryIntent]
  /\ sweep \in [Sweeps -> SweepIntent]
  /\ failures \in Nat

\* What the attempts of an alert tell: there are at most two, the second only
\* after a failure and RetryInterval later, none before the alert; and the
\* alert's status and sentAt say what the attempts say.
Account(a) ==
  LET done == attempts[a] IN
  /\ Len(done) <= MAX_DELIVERY_ATTEMPTS
  /\ \A i \in DOMAIN done :
       /\ done[i].attemptedAt >= alerts[a].createdAt
       /\ i < Len(done) =>
            /\ done[i].outcome = "FAILED"
            /\ done[i + 1].attemptedAt >= done[i].attemptedAt + RetryInterval
  /\ alerts[a].status =
       IF Delivered(done) THEN "SENT"
       ELSE IF Len(done) = MAX_DELIVERY_ATTEMPTS THEN "FAILED" ELSE "PENDING"
  /\ \A i \in DOMAIN done : done[i].outcome = "SENT" => alerts[a].sentAt = done[i].attemptedAt

\* The delivery attempts of every alert are accounted for, whatever requests to
\* record them are repeated, reordered or sent at the same time.
AttemptsAccounted == \A a \in Alerts : Account(a)

\* recordDeliveryAttempt answers a repeated attempt with the recorded one: it
\* looks before it inserts.  Under the alert's lock the answer of the lookup is
\* still right at the insert, which never fails on the unique index.
RepeatsAnswered ==
  \A d \in Deliveries : \A a \in delivery[d].alert :
    delivery[d].attemptNo \notin DOMAIN attempts[a]

\* An alert is marked escalated together with its recipients, never without
\* any, and not before it was due.
EscalationAccounted ==
  \A a \in Alerts :
    /\ a \in Escalated <=> notified[a] # {}
    /\ a \in Escalated => alerts[a].escalatedAt >= alerts[a].escalationDueAt

\* Once an exception is resolved its alert is not escalated any more, although
\* sweeps may have listed it as open, except by a transaction that had already
\* updated the row.
Quiet(a) ==
  a \in Created \ (open \cup Escalated) /\ \A s \in Sweeps : a \notin sweep[s].writing
ResolvedStaysQuiet == [][\A a \in Alerts : Quiet(a) => Quiet(a)']_vars

\* An open exception whose alert is due is escalated in the end, if from some
\* time on there is always a fleet manager: although sweeps fail, take only
\* Limit alerts each, and wait for deliveries.
EveryDueEscalated ==
  (<>[](managers # {})) =>
     \A a \in Alerts :
       Escalatable(a, now) ~> (a \in Escalated \/ a \notin open)

-------------------------------------------------------------------------------
(* The inductive invariant.                                                    *)

\* An alert is locked by one request only.
LocksExclusive ==
  /\ \A d, e \in Deliveries : d # e => delivery[d].alert \cap delivery[e].alert = {}
  /\ \A s, t \in Sweeps : s # t => sweep[s].writing \cap sweep[t].writing = {}
  /\ \A d \in Deliveries, s \in Sweeps : delivery[d].alert \cap sweep[s].writing = {}

\* Behind its lock a delivery knows the attempts, and that its own may follow.
DeliverySound(i) ==
  \A a \in i.alert :
    /\ i.alert = {a}
    /\ a \in Created
    /\ i.found = attempts[a]
    /\ Recordable(a, i.attemptNo, i.attemptedAt, attempts[a])

\* A sweep that has updated an alert has somebody to notify, and found it due
\* and not escalated; a sweep on its way has recipients.
SweepSound(i) ==
  /\ i.step # "escalating" => i.writing = {}
  /\ i.step = "escalating" => i.recipients # {}
  /\ i.step # "idle" => i.evaluatedAt \in Times
  /\ i.rest \subseteq Created
  /\ \A a \in i.writing :
       /\ i.writing = {a}
       /\ a \in Created \ Escalated
       /\ alerts[a].escalationDueAt <= i.evaluatedAt

RequestsSound ==
  /\ \A d \in Deliveries : DeliverySound(delivery[d])
  /\ \A s \in Sweeps : SweepSound(sweep[s])

\* The second attempt is due RetryInterval after the first one failed.
RetryRecorded ==
  \A a \in Alerts : \A i \in DOMAIN attempts[a] :
    attempts[a][i].nextAttemptAt = NextAttempt(i, attempts[a][i].outcome, attempts[a][i].attemptedAt)

\* Nothing happens to an alert before it exists.
NothingBefore == \A a \in Alerts \ Created : attempts[a] = <<>> /\ alerts[a] = NoAlert

IndInv ==
  /\ TypeOK
  /\ NothingBefore
  /\ LocksExclusive
  /\ RequestsSound
  /\ RetryRecorded
  /\ AttemptsAccounted
  /\ EscalationAccounted

-------------------------------------------------------------------------------
(* Refinement.                                                                 *)

OutcomesOf(done) == [i \in DOMAIN done |-> done[i].outcome]

Promise == INSTANCE AlertPromise WITH
  outcomes <- [a \in Alerts |-> OutcomesOf(attempts[a])],
  escalation <- [a \in Alerts |-> [at |-> alerts[a].escalatedAt, to |-> notified[a]]]

\* Every step of a request is an atomic operation of the promise, or changes
\* nothing in it: repeated and concurrent requests try an alert at most twice,
\* never after it was sent, and overlapping sweeps escalate it once.
RefinesPromise == Promise!PSpec
===============================================================================
