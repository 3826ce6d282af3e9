-------------------------- MODULE AlertDelivery_proofs --------------------------
(***************************************************************************)
(* Theorems about AlertDelivery, for every value of its constants.         *)
(***************************************************************************)
EXTENDS AlertDelivery, TLAPS

(***************************************************************************)
(* What the initial values know.                                           *)
(***************************************************************************)
LEMMA InitialTypes ==
  /\ NoAlert \in AlertRow
  /\ NoDelivery \in DeliveryIntent
  /\ NoSweep \in SweepIntent
  BY DEF NoAlert, AlertRow, NoDelivery, DeliveryIntent, NoSweep, SweepIntent, Outcomes,
         MAX_DELIVERY_ATTEMPTS

LEMMA IdleSound == DeliverySound(NoDelivery) /\ SweepSound(NoSweep)
  BY DEF DeliverySound, SweepSound, NoDelivery, NoSweep

LEMMA InitInductive == Init => IndInv
  <1> SUFFICES ASSUME Init PROVE IndInv
    OBVIOUS
  <1>1. TypeOK
    BY InitialTypes DEF Init, TypeOK, Created
  <1>2. LocksExclusive
    BY DEF Init, LocksExclusive, NoDelivery, NoSweep
  <1>3. RequestsSound
    BY IdleSound DEF Init, RequestsSound
  <1>4. RetryRecorded
    BY DEF Init, RetryRecorded
  <1>5. AttemptsAccounted
    BY DEF Init, AttemptsAccounted, Account, Delivered, NoAlert, MAX_DELIVERY_ATTEMPTS
  <1>6. EscalationAccounted
    BY DEF Init, EscalationAccounted, Escalated, NoAlert
  <1>7. NothingBefore
    BY DEF Init, NothingBefore
  <1> QED BY <1>1, <1>2, <1>3, <1>4, <1>5, <1>6, <1>7 DEF IndInv

\* Nobody holds the lock of an available alert.
LEMMA AvailableFree ==
  ASSUME NEW a, Available(a)
  PROVE  /\ \A d \in Deliveries : a \notin delivery[d].alert
         /\ \A s \in Sweeps : a \notin sweep[s].writing
  BY DEF Available, Locked

(***************************************************************************)
(* A step that changes only what one sweep remembers keeps the invariant,  *)
(* if what it remembers now is sound and what it locks was available.      *)
(***************************************************************************)
LEMMA SweepStep ==
  ASSUME IndInv, NEW s \in Sweeps, NEW v \in SweepIntent,
         sweep' = [sweep EXCEPT ![s] = v],
         SweepSound(v),
         \A a \in v.writing : a \in sweep[s].writing \/ Available(a),
         failures' \in Nat,
         UNCHANGED <<now, alerts, attempts, notified, open, managers, delivery>>
  PROVE  IndInv'
  <1> USE DEF IndInv
  <1>1. TypeOK'
    BY DEF TypeOK, Created
  <1>2. LocksExclusive'
    <2>1. /\ \A t \in Sweeps : t # s => v.writing \cap sweep[t].writing = {}
          /\ \A d \in Deliveries : delivery[d].alert \cap v.writing = {}
      BY AvailableFree DEF LocksExclusive
    <2>2. \A t \in Sweeps : sweep'[t] = IF t = s THEN v ELSE sweep[t]
      BY DEF TypeOK
    <2> QED BY <2>1, <2>2 DEF LocksExclusive
  <1>3. RequestsSound'
    <2>1. \A t \in Sweeps : sweep'[t] = IF t = s THEN v ELSE sweep[t]
      BY DEF TypeOK
    <2>2. Created' = Created /\ Escalated' = Escalated
      BY DEF Created, Escalated
    <2>3. \A t \in Sweeps : SweepSound(sweep[t])'
      BY <2>1, <2>2 DEF RequestsSound, SweepSound
    <2>4. \A d \in Deliveries : DeliverySound(delivery[d])'
      BY <2>2 DEF RequestsSound, DeliverySound, Recordable
    <2> QED BY <2>3, <2>4 DEF RequestsSound
  <1>4. /\ RetryRecorded'
        /\ AttemptsAccounted'
        /\ EscalationAccounted'
        /\ NothingBefore'
    BY DEF RetryRecorded, AttemptsAccounted, Account, EscalationAccounted, Escalated,
           NothingBefore, Created
  <1> QED BY <1>1, <1>2, <1>3, <1>4

\* The same for a delivery request.
LEMMA DeliveryStep ==
  ASSUME IndInv, NEW d \in Deliveries, NEW v \in DeliveryIntent,
         delivery' = [delivery EXCEPT ![d] = v],
         DeliverySound(v),
         \A a \in v.alert : Available(a),
         UNCHANGED <<now, alerts, attempts, notified, open, managers, sweep, failures>>
  PROVE  IndInv'
  <1> USE DEF IndInv
  <1>1. TypeOK'
    BY DEF TypeOK, Created
  <1>2. \A e \in Deliveries : delivery'[e] = IF e = d THEN v ELSE delivery[e]
    BY DEF TypeOK
  <1>3. LocksExclusive'
    BY <1>2, AvailableFree DEF LocksExclusive
  <1>4. RequestsSound'
    <2>1. Created' = Created /\ Escalated' = Escalated
      BY DEF Created, Escalated
    <2>2. \A e \in Deliveries : DeliverySound(delivery[e])'
      BY <1>2, <2>1 DEF RequestsSound, DeliverySound, Recordable
    <2>3. \A s \in Sweeps : SweepSound(sweep[s])'
      BY <2>1 DEF RequestsSound, SweepSound
    <2> QED BY <2>2, <2>3 DEF RequestsSound
  <1>5. /\ RetryRecorded'
        /\ AttemptsAccounted'
        /\ EscalationAccounted'
        /\ NothingBefore'
    BY DEF RetryRecorded, AttemptsAccounted, Account, EscalationAccounted, Escalated,
           NothingBefore, Created
  <1> QED BY <1>1, <1>3, <1>4, <1>5

(***************************************************************************)
(* The steps of the world.                                                 *)
(***************************************************************************)
LEMMA WorldInductive ==
  ASSUME IndInv, World
  PROVE  IndInv'
  <1> USE DEF IndInv
  <1>1. CASE Tick \/ (\E a \in Alerts : Resolve(a)) \/ (\E u \in Users : ChangeManager(u))
    <2>0. /\ UNCHANGED <<alerts, attempts, notified, delivery, sweep, failures>>
          /\ now' \in Nat \ {0}
          /\ open' \subseteq open
          /\ managers' \subseteq Users
      BY <1>1 DEF Tick, Resolve, ChangeManager, TypeOK
    <2>1. Created' = Created /\ Escalated' = Escalated
      BY <2>0 DEF Created, Escalated
    <2>2. TypeOK'
      BY <2>0, <2>1 DEF TypeOK
    <2>3. LocksExclusive'
      BY <2>0 DEF LocksExclusive
    <2>4. RequestsSound'
      BY <2>0, <2>1 DEF RequestsSound, DeliverySound, Recordable, SweepSound
    <2>5. RetryRecorded' /\ AttemptsAccounted' /\ EscalationAccounted' /\ NothingBefore'
      BY <2>0, <2>1 DEF RetryRecorded, AttemptsAccounted, Account, EscalationAccounted,
                        NothingBefore
    <2> QED BY <2>2, <2>3, <2>4, <2>5
  <1>2. ASSUME NEW a \in Alerts, NEW t \in Times, Raise(a, t)
        PROVE  IndInv'
    <2>0. /\ a \notin Created
          /\ UNCHANGED <<now, attempts, notified, managers, delivery, sweep, failures>>
          /\ open' = open \cup {a}
      BY <1>2 DEF Raise
    <2>1. /\ alerts' \in [Alerts -> AlertRow]
          /\ alerts'[a] = [createdAt |-> now, escalationDueAt |-> t + Grace, escalatedAt |-> 0,
                           status |-> "PENDING", sentAt |-> 0]
          /\ \A b \in Alerts : b # a => alerts'[b] = alerts[b]
      BY <1>2, ConstantsAssumption DEF Raise, NoAlert, TypeOK, AlertRow, Times
    <2>2. Created' = Created \cup {a}
      BY <2>1 DEF Created, TypeOK
    <2>3. a \notin Escalated /\ attempts[a] = <<>>
      BY <2>0 DEF NothingBefore, Escalated, NoAlert
    <2>4. Escalated' = Escalated
      BY <2>1, <2>3 DEF Escalated
    <2>5. TypeOK'
      BY <2>0, <2>1, <2>2 DEF TypeOK
    <2>6. LocksExclusive'
      BY <2>0 DEF LocksExclusive
    <2>7. RequestsSound'
      <3>1. ASSUME NEW d \in Deliveries
            PROVE  DeliverySound(delivery[d])'
        BY <2>0, <2>1, <2>2 DEF RequestsSound, DeliverySound, Recordable, Created
      <3>2. ASSUME NEW s \in Sweeps
            PROVE  SweepSound(sweep[s])'
        BY <2>0, <2>1, <2>2, <2>4 DEF RequestsSound, SweepSound, Created
      <3> QED BY <3>1, <3>2 DEF RequestsSound
    <2>8. RetryRecorded'
      BY <2>0 DEF RetryRecorded
    <2>9. AttemptsAccounted'
      <3>1. Account(a)'
        BY <2>0, <2>1, <2>3 DEF Account, Delivered, MAX_DELIVERY_ATTEMPTS
      <3>2. \A b \in Alerts : b # a => Account(b)'
        BY <2>0, <2>1 DEF AttemptsAccounted, Account
      <3> QED BY <3>1, <3>2 DEF AttemptsAccounted
    <2>10. EscalationAccounted' /\ NothingBefore'
      BY <2>0, <2>1, <2>2, <2>3, <2>4 DEF EscalationAccounted, NothingBefore
    <2> QED BY <2>5, <2>6, <2>7, <2>8, <2>9, <2>10
  <1> QED BY <1>1, <1>2 DEF World

(***************************************************************************)
(* The steps of a delivery request.                                        *)
(***************************************************************************)
LEMMA ReadAttemptsInductive ==
  ASSUME IndInv, NEW d \in Deliveries, NEW a \in Alerts,
         NEW no \in 1 .. MAX_DELIVERY_ATTEMPTS, NEW o \in Outcomes, NEW t \in Times,
         ReadAttempts(d, a, no, o, t)
  PROVE  IndInv'
  <1> DEFINE v == [alert |-> {a}, attemptNo |-> no, outcome |-> o, attemptedAt |-> t,
                   found |-> attempts[a]]
  <1>1. attempts[a] \in Seq(Attempt)
    BY DEF IndInv, TypeOK
  <1>2. v \in DeliveryIntent
    BY <1>1, ConstantsAssumption DEF DeliveryIntent, MAX_DELIVERY_ATTEMPTS, Times
  <1>3. DeliverySound(v)
    BY DEF ReadAttempts, DeliverySound
  <1> QED BY <1>2, <1>3, DeliveryStep DEF ReadAttempts

LEMMA AbortDeliveryInductive ==
  ASSUME IndInv, NEW d \in Deliveries, AbortDelivery(d)
  PROVE  IndInv'
  <1>1. \A a \in NoDelivery.alert : Available(a)
    BY DEF NoDelivery
  <1> QED BY <1>1, InitialTypes, IdleSound, DeliveryStep DEF AbortDelivery

\* The update of the alert leaves its other columns alone.
LEMMA CommitAttemptRow ==
  ASSUME IndInv, NEW d \in Deliveries, NEW a \in Alerts, CommitAttempt(d, a), NEW b \in Alerts
  PROVE  /\ alerts'[b].createdAt = alerts[b].createdAt
         /\ alerts'[b].escalatedAt = alerts[b].escalatedAt
         /\ alerts'[b].escalationDueAt = alerts[b].escalationDueAt
  <1>1. alerts[b] \in AlertRow /\ alerts \in [Alerts -> AlertRow]
    BY DEF IndInv, TypeOK
  <1> QED BY <1>1 DEF CommitAttempt, AlertRow

\* The attempt is appended behind the lock, so it follows the one the request saw.
LEMMA CommitAttemptInductive ==
  ASSUME IndInv, NEW d \in Deliveries, NEW a \in Alerts, CommitAttempt(d, a)
  PROVE  IndInv'
  <1> USE DEF IndInv
  <1> DEFINE i == delivery[d]
             done == attempts[a]
             new == [outcome |-> i.outcome, attemptedAt |-> i.attemptedAt,
                     nextAttemptAt |-> NextAttempt(i.attemptNo, i.outcome, i.attemptedAt)]
  <1>1. /\ i \in DeliveryIntent
        /\ i.alert = {a}
        /\ a \in Created
        /\ done \in Seq(Attempt)
        /\ alerts[a] \in AlertRow
    BY DEF TypeOK, CommitAttempt, RequestsSound, DeliverySound
  <1>2. Recordable(a, i.attemptNo, i.attemptedAt, done)
    BY <1>1 DEF RequestsSound, DeliverySound
  <1>3. /\ i.attemptNo = Len(done) + 1
        /\ Len(done) \in Nat /\ Len(done) < 2
        /\ i.attemptedAt \in Nat /\ i.outcome \in Outcomes
        /\ i.attemptedAt >= alerts[a].createdAt
        /\ \A k \in DOMAIN done : done[k].outcome = "FAILED"
        /\ Len(done) > 0 => i.attemptedAt >= done[Len(done)].nextAttemptAt
    <2>1. /\ i.attemptNo \in 0 .. 2 /\ i.outcome \in Outcomes /\ i.attemptedAt \in Nat
          /\ Len(done) \in Nat
      BY <1>1 DEF DeliveryIntent, MAX_DELIVERY_ATTEMPTS
    <2> HIDE DEF i, done
    <2>2. \A k \in DOMAIN done : done[k] \in Attempt
      BY <1>1
    <2>3. \A k \in DOMAIN done : done[k].outcome \in Outcomes
      BY <2>2 DEF Attempt
    <2> QED BY <1>2, <2>1, <2>3 DEF Recordable, Delivered, Outcomes, MAX_DELIVERY_ATTEMPTS
  <1>4. new \in Attempt
    <2>1. NextAttempt(i.attemptNo, i.outcome, i.attemptedAt) \in Nat
      BY <1>3, ConstantsAssumption DEF NextAttempt, MAX_DELIVERY_ATTEMPTS
    <2> QED BY <1>3, <2>1 DEF Attempt
  <1>5. /\ attempts' = [attempts EXCEPT ![a] = Append(done, new)]
        /\ alerts' = [alerts EXCEPT
             ![a].status = StatusAfter(i.attemptNo, i.outcome),
             ![a].sentAt = IF i.outcome = "SENT" THEN i.attemptedAt ELSE @]
        /\ delivery' = [delivery EXCEPT ![d] = NoDelivery]
        /\ UNCHANGED <<now, notified, open, managers, sweep, failures>>
    BY DEF CommitAttempt
  <1>6. /\ alerts' \in [Alerts -> AlertRow]
        /\ \A b \in Alerts : /\ alerts'[b].createdAt = alerts[b].createdAt
                             /\ alerts'[b].escalatedAt = alerts[b].escalatedAt
                             /\ alerts'[b].escalationDueAt = alerts[b].escalationDueAt
                             /\ b # a => alerts'[b] = alerts[b]
        /\ alerts'[a].status = StatusAfter(i.attemptNo, i.outcome)
        /\ i.outcome = "SENT" => alerts'[a].sentAt = i.attemptedAt
    BY <1>1, <1>3, <1>5 DEF TypeOK, AlertRow, StatusAfter
  <1>7. Created' = Created /\ Escalated' = Escalated
    BY <1>6 DEF Created, Escalated
  <1>8. attempts'[a] = Append(done, new) /\ \A b \in Alerts : b # a => attempts'[b] = attempts[b]
    BY <1>5 DEF TypeOK
  <1> HIDE DEF i, done, new
  <1>9. /\ attempts'[a] \in Seq(Attempt)
        /\ Len(attempts'[a]) = Len(done) + 1
        /\ DOMAIN attempts'[a] = 1 .. Len(done) + 1
        /\ \A k \in 1 .. Len(done) : attempts'[a][k] = done[k]
        /\ attempts'[a][Len(done) + 1] = new
        /\ DOMAIN done = 1 .. Len(done)
    BY <1>1, <1>4, <1>8
  <1>10. TypeOK'
    <2>1. attempts' \in [Alerts -> Seq(Attempt)]
      BY <1>5, <1>8, <1>9 DEF TypeOK
    <2> QED BY <2>1, <1>5, <1>6, <1>7, InitialTypes DEF TypeOK
  <1>11. \A e \in Deliveries : delivery'[e] = IF e = d THEN NoDelivery ELSE delivery[e]
    BY <1>5 DEF TypeOK
  <1>12. LocksExclusive'
    BY <1>5, <1>11 DEF LocksExclusive, NoDelivery
  <1>13. RequestsSound'
    <2>1. ASSUME NEW e \in Deliveries, e # d
          PROVE  DeliverySound(delivery[e])'
      <3>1. a \notin delivery[e].alert
        BY <1>1, <2>1 DEF LocksExclusive, i
      <3>2. \A b \in delivery[e].alert : b \in Alerts /\ b # a
        BY <3>1 DEF TypeOK, DeliveryIntent
      <3> QED
        BY <1>6, <1>7, <1>8, <1>11, <2>1, <3>2 DEF RequestsSound, DeliverySound, Recordable
    <2>2. DeliverySound(delivery[d])'
      BY <1>11 DEF DeliverySound, NoDelivery
    <2>3. ASSUME NEW s \in Sweeps
          PROVE  SweepSound(sweep[s])'
      BY <1>5, <1>6, <1>7 DEF RequestsSound, SweepSound, Created
    <2> QED BY <2>1, <2>2, <2>3 DEF RequestsSound
  <1>14. RetryRecorded'
    <2>1. \A k \in DOMAIN attempts'[a] :
            attempts'[a][k].nextAttemptAt
              = NextAttempt(k, attempts'[a][k].outcome, attempts'[a][k].attemptedAt)
      BY <1>3, <1>9 DEF RetryRecorded, new, done
    <2> QED BY <1>8, <2>1 DEF RetryRecorded
  <1>15. Account(a)'
    <2>1. Account(a)
      BY DEF AttemptsAccounted
    <2>2. \A k \in 1 .. Len(done) : done[k].nextAttemptAt = NextAttempt(k, "FAILED", done[k].attemptedAt)
      BY <1>3, <1>9 DEF RetryRecorded, done
    <2>3. Len(attempts'[a]) <= MAX_DELIVERY_ATTEMPTS
      BY <1>3, <1>9 DEF MAX_DELIVERY_ATTEMPTS
    <2>4. \A k \in DOMAIN attempts'[a] : attempts'[a][k].attemptedAt >= alerts'[a].createdAt
      BY <1>3, <1>6, <1>9, <2>1 DEF Account, new, done
    <2>5. \A k \in DOMAIN attempts'[a] : k < Len(attempts'[a]) =>
            /\ attempts'[a][k].outcome = "FAILED"
            /\ attempts'[a][k + 1].attemptedAt >= attempts'[a][k].attemptedAt + RetryInterval
      BY <1>3, <1>9, <2>2 DEF NextAttempt, new, MAX_DELIVERY_ATTEMPTS
    <2>6. alerts'[a].status =
            IF Delivered(attempts'[a]) THEN "SENT"
            ELSE IF Len(attempts'[a]) = MAX_DELIVERY_ATTEMPTS THEN "FAILED" ELSE "PENDING"
      BY <1>3, <1>6, <1>9 DEF StatusAfter, Delivered, new, MAX_DELIVERY_ATTEMPTS, Outcomes
    <2>7. \A k \in DOMAIN attempts'[a] :
            attempts'[a][k].outcome = "SENT" => alerts'[a].sentAt = attempts'[a][k].attemptedAt
      BY <1>3, <1>6, <1>9 DEF new
    <2> QED BY <2>3, <2>4, <2>5, <2>6, <2>7 DEF Account
  <1>16. AttemptsAccounted'
    <2>1. \A b \in Alerts : b # a => Account(b)'
      BY <1>6, <1>8 DEF AttemptsAccounted, Account
    <2> QED BY <1>15, <2>1 DEF AttemptsAccounted
  <1>17. EscalationAccounted'
    BY <1>5, <1>6, <1>7 DEF EscalationAccounted
  <1>18. NothingBefore'
    BY <1>1, <1>6, <1>7, <1>8 DEF NothingBefore
  <1> QED BY <1>10, <1>12, <1>13, <1>14, <1>16, <1>17, <1>18

(***************************************************************************)
(* The steps of a sweep.                                                   *)
(***************************************************************************)

\* A sweep may end at any time.
LEMMA EndSweep ==
  ASSUME IndInv, NEW s \in Sweeps, sweep' = [sweep EXCEPT ![s] = NoSweep], failures' \in Nat,
         UNCHANGED <<now, alerts, attempts, notified, open, managers, delivery>>
  PROVE  IndInv'
  <1>1. \A a \in NoSweep.writing : a \in sweep[s].writing \/ Available(a)
    BY DEF NoSweep
  <1> QED BY <1>1, InitialTypes, IdleSound, SweepStep

LEMMA ListDueInductive ==
  ASSUME IndInv, NEW s \in Sweeps, NEW t \in Times, ListDue(s, t)
  PROVE  IndInv'
  <1>1. PICK C \in SUBSET DueAlerts(t) :
          sweep' = [sweep EXCEPT ![s] =
            [step |-> "listed", evaluatedAt |-> t, rest |-> C, recipients |-> {},
             writing |-> {}]]
    BY DEF ListDue
  <1> DEFINE v == [step |-> "listed", evaluatedAt |-> t, rest |-> C, recipients |-> {},
                   writing |-> {}]
  <1>2. C \subseteq Created /\ C \subseteq Alerts
    BY DEF DueAlerts, Escalatable
  <1>3. v \in SweepIntent
    BY <1>2, ConstantsAssumption DEF SweepIntent, Times
  <1>4. SweepSound(v)
    BY <1>2 DEF SweepSound
  <1>5. failures' \in Nat
    BY DEF ListDue, IndInv, TypeOK
  <1>6. \A a \in v.writing : a \in sweep[s].writing \/ Available(a)
    OBVIOUS
  <1> QED BY <1>1, <1>3, <1>4, <1>5, <1>6, SweepStep DEF ListDue

LEMMA ListManagersInductive ==
  ASSUME IndInv, NEW s \in Sweeps, ListManagers(s)
  PROVE  IndInv'
  <1> DEFINE v == IF sweep[s].rest = {} THEN NoSweep
                  ELSE [sweep[s] EXCEPT !.step = "escalating", !.recipients = managers]
  <1>1. sweep[s] \in SweepIntent /\ managers \subseteq Users /\ failures \in Nat
    BY DEF IndInv, TypeOK
  <1>2. SweepSound(sweep[s])
    BY DEF IndInv, RequestsSound
  <1>3. v \in SweepIntent
    BY <1>1, InitialTypes DEF SweepIntent
  <1>4. v.writing = {} /\ SweepSound(v)
    BY <1>1, <1>2, IdleSound DEF SweepSound, ListManagers, SweepIntent, NoSweep
  <1>5. sweep' = [sweep EXCEPT ![s] = v]
    BY DEF ListManagers
  <1> HIDE DEF v
  <1> QED BY <1>1, <1>3, <1>4, <1>5, SweepStep DEF ListManagers

\* What remains of a sweep that goes on with the alerts in rest is sound.
LEMMA ProceedSound ==
  ASSUME IndInv, NEW s \in Sweeps, NEW rest, rest \subseteq sweep[s].rest,
         sweep[s].step = "escalating", Proceed(s, rest)
  PROVE  \E v \in SweepIntent :
           /\ sweep' = [sweep EXCEPT ![s] = v]
           /\ v.writing = {}
           /\ SweepSound(v)
  <1> DEFINE v == IF rest = {} THEN NoSweep
                  ELSE [sweep[s] EXCEPT !.step = "escalating", !.rest = rest, !.writing = {}]
  <1>1. sweep[s] \in SweepIntent /\ SweepSound(sweep[s])
    BY DEF IndInv, TypeOK, RequestsSound
  <1>2. v \in SweepIntent
    BY <1>1, InitialTypes DEF SweepIntent
  <1>3. v.writing = {} /\ SweepSound(v)
    BY <1>1, IdleSound DEF SweepSound, SweepIntent, NoSweep
  <1>4. sweep' = [sweep EXCEPT ![s] = v]
    BY DEF Proceed
  <1> QED BY <1>2, <1>3, <1>4

LEMMA ClaimInductive ==
  ASSUME IndInv, NEW s \in Sweeps, NEW a \in Alerts, Claim(s, a)
  PROVE  IndInv'
  <1>1. /\ sweep[s] \in SweepIntent
        /\ SweepSound(sweep[s])
        /\ failures \in Nat
    BY DEF IndInv, TypeOK, RequestsSound
  <1>2. CASE Escalatable(a, sweep[s].evaluatedAt)
    <2> DEFINE v == [sweep[s] EXCEPT !.writing = {a}]
    <2>1. v \in SweepIntent
      BY <1>1 DEF SweepIntent
    <2>2. SweepSound(v)
      BY <1>1, <1>2 DEF SweepSound, SweepIntent, Claim, Escalatable
    <2>3. sweep' = [sweep EXCEPT ![s] = v]
      BY <1>2 DEF Claim
    <2>4. \A b \in v.writing : Available(b)
      BY <1>1 DEF Claim, SweepIntent
    <2> HIDE DEF v
    <2> QED BY <1>1, <2>1, <2>2, <2>3, <2>4, SweepStep DEF Claim
  <1>3. CASE ~Escalatable(a, sweep[s].evaluatedAt)
    <2>1. Proceed(s, sweep[s].rest \ {a}) /\ sweep[s].step = "escalating"
      BY <1>3 DEF Claim
    <2>2. PICK v \in SweepIntent :
            /\ sweep' = [sweep EXCEPT ![s] = v]
            /\ v.writing = {}
            /\ SweepSound(v)
      BY <2>1, ProceedSound
    <2> QED BY <1>1, <2>2, SweepStep DEF Claim
  <1> QED BY <1>2, <1>3

LEMMA CommitEscalationInductive ==
  ASSUME IndInv, NEW s \in Sweeps, NEW a \in Alerts, CommitEscalation(s, a)
  PROVE  IndInv'
  <1> USE DEF IndInv
  <1>1. /\ sweep[s] \in SweepIntent
        /\ sweep[s].writing = {a}
        /\ sweep[s].step = "escalating"
        /\ sweep[s].recipients # {} /\ sweep[s].recipients \subseteq Users
        /\ sweep[s].evaluatedAt \in Nat \ {0}
        /\ alerts[a].escalationDueAt <= sweep[s].evaluatedAt
        /\ a \in Created \ Escalated
    <2>1. sweep[s] \in SweepIntent /\ SweepSound(sweep[s]) /\ sweep[s].writing = {a}
      BY DEF TypeOK, RequestsSound, CommitEscalation
    <2> QED BY <2>1 DEF SweepSound, SweepIntent, Times
  <1>2. /\ alerts' = [alerts EXCEPT ![a].escalatedAt = sweep[s].evaluatedAt]
        /\ notified' = [notified EXCEPT ![a] = notified[a] \cup sweep[s].recipients]
        /\ Proceed(s, sweep[s].rest \ {a})
        /\ UNCHANGED <<now, attempts, open, managers, delivery, failures>>
    BY DEF CommitEscalation
  <1>3. /\ alerts' \in [Alerts -> AlertRow]
        /\ \A b \in Alerts : /\ alerts'[b].createdAt = alerts[b].createdAt
                             /\ alerts'[b].escalationDueAt = alerts[b].escalationDueAt
                             /\ alerts'[b].status = alerts[b].status
                             /\ alerts'[b].sentAt = alerts[b].sentAt
                             /\ b # a => alerts'[b] = alerts[b]
        /\ alerts'[a].escalatedAt = sweep[s].evaluatedAt
    BY <1>1, <1>2 DEF TypeOK, AlertRow
  <1>4. Created' = Created /\ Escalated' = Escalated \cup {a}
    BY <1>1, <1>3 DEF Created, Escalated
  <1>5. PICK v \in SweepIntent :
          /\ sweep' = [sweep EXCEPT ![s] = v]
          /\ v.writing = {}
          /\ SweepSound(v)
    BY <1>1, <1>2, ProceedSound
  <1>6. \A t \in Sweeps : sweep'[t] = IF t = s THEN v ELSE sweep[t]
    BY <1>5 DEF TypeOK
  <1>7. /\ notified' \in [Alerts -> SUBSET Users]
        /\ notified'[a] # {}
        /\ \A b \in Alerts : b # a => notified'[b] = notified[b]
    BY <1>1, <1>2 DEF TypeOK
  <1>8. TypeOK'
    BY <1>2, <1>3, <1>4, <1>5, <1>7 DEF TypeOK
  <1>9. LocksExclusive'
    BY <1>2, <1>5, <1>6 DEF LocksExclusive
  <1>10. RequestsSound'
    <2>1. \A d \in Deliveries : DeliverySound(delivery[d])'
      BY <1>2, <1>3, <1>4 DEF RequestsSound, DeliverySound, Recordable, Created
    <2>2. SweepSound(sweep[s])'
      BY <1>4, <1>5, <1>6 DEF SweepSound
    <2>3. ASSUME NEW t \in Sweeps, t # s
          PROVE  SweepSound(sweep[t])'
      <3>1. a \notin sweep[t].writing
        BY <1>1, <2>3 DEF LocksExclusive
      <3> QED BY <1>3, <1>4, <1>6, <2>3, <3>1 DEF RequestsSound, SweepSound, Created
    <2> QED BY <2>1, <2>2, <2>3 DEF RequestsSound
  <1>11. RetryRecorded' /\ AttemptsAccounted'
    BY <1>2, <1>3 DEF RetryRecorded, AttemptsAccounted, Account
  <1>12. EscalationAccounted'
    BY <1>1, <1>3, <1>4, <1>7 DEF EscalationAccounted
  <1>13. NothingBefore'
    BY <1>1, <1>2, <1>3, <1>4 DEF NothingBefore
  <1> QED BY <1>8, <1>9, <1>10, <1>11, <1>12, <1>13

(***************************************************************************)
(* The invariant, and what follows from it.                                *)
(***************************************************************************)
LEMMA NextInductive == IndInv /\ [Next]_vars => IndInv'
  <1> SUFFICES ASSUME IndInv, [Next]_vars PROVE IndInv'
    OBVIOUS
  <1>1. CASE World
    BY <1>1, WorldInductive
  <1>2. ASSUME NEW d \in Deliveries, Deliver(d) PROVE IndInv'
    BY <1>2, ReadAttemptsInductive, CommitAttemptInductive, AbortDeliveryInductive DEF Deliver
  <1>3. ASSUME NEW s \in Sweeps, Escalate(s) PROVE IndInv'
    <2>1. CASE NoManagers(s) \/ FailSweep(s)
      <3>1. failures \in Nat
        BY DEF IndInv, TypeOK
      <3> QED BY <2>1, <3>1, EndSweep DEF NoManagers, FailSweep
    <2> QED BY <1>3, <2>1, ListDueInductive, ListManagersInductive, ClaimInductive,
               CommitEscalationInductive DEF Escalate
  <1>4. CASE UNCHANGED vars
    <2>1. /\ TypeOK' /\ NothingBefore' /\ LocksExclusive'
      BY <1>4 DEF IndInv, vars, TypeOK, NothingBefore, LocksExclusive, Created
    <2>2. RequestsSound'
      BY <1>4 DEF IndInv, vars, RequestsSound, DeliverySound, SweepSound, Recordable, Created,
                  Escalated
    <2>3. RetryRecorded' /\ AttemptsAccounted' /\ EscalationAccounted'
      BY <1>4 DEF IndInv, vars, RetryRecorded, AttemptsAccounted, Account, EscalationAccounted,
                  Escalated
    <2> QED BY <2>1, <2>2, <2>3 DEF IndInv
  <1> QED BY <1>1, <1>2, <1>3, <1>4 DEF Next

\* The inductive invariant: what each request in flight still knows of the rows
\* it has read, which is right because of the alert's lock.
THEOREM Inductive == Spec => []IndInv
  BY InitInductive, NextInductive, PTL DEF Spec

\* The attempts of every alert are accounted for by its row: at most two, the
\* second after a failure and an interval, nothing after the mail was sent.
THEOREM AttemptsSafe == Spec => []AttemptsAccounted
  <1>1. IndInv => AttemptsAccounted
    BY DEF IndInv
  <1> QED BY <1>1, Inductive, PTL

\* What recordDeliveryAttempt looked up is right when it inserts.
THEOREM RepeatsSafe == Spec => []RepeatsAnswered
  <1>1. IndInv => RepeatsAnswered
    <2> SUFFICES ASSUME IndInv, NEW d \in Deliveries, NEW a \in delivery[d].alert
                 PROVE  delivery[d].attemptNo \notin DOMAIN attempts[a]
      BY DEF RepeatsAnswered
    <2>1. attempts[a] \in Seq(Attempt)
      BY DEF IndInv, TypeOK, DeliveryIntent
    <2>2. delivery[d].attemptNo = Len(attempts[a]) + 1
      BY DEF IndInv, RequestsSound, DeliverySound, Recordable
    <2> QED BY <2>1, <2>2
  <1> QED BY <1>1, Inductive, PTL

\* An alert is escalated together with its recipients, and not before it is due.
THEOREM EscalationSafe == Spec => []EscalationAccounted
  <1>1. IndInv => EscalationAccounted
    BY DEF IndInv
  <1> QED BY <1>1, Inductive, PTL

(***************************************************************************)
(* A resolved exception is not escalated.                                  *)
(***************************************************************************)

\* A sweep marks an alert only if its exception is open.
LEMMA MarksOpen ==
  ASSUME IndInv, NEW s \in Sweeps, Escalate(s), NEW a \in Alerts, a \notin open,
         a \notin Escalated, \A t \in Sweeps : a \notin sweep[t].writing
  PROVE  a \notin Escalated' /\ \A t \in Sweeps : a \notin sweep'[t].writing
  <1>1. \A t \in Sweeps : sweep[t] \in SweepIntent
    BY DEF IndInv, TypeOK
  <1>2. CASE (\E t \in Times : ListDue(s, t)) \/ NoManagers(s) \/ ListManagers(s) \/ FailSweep(s)
    <2>1. Escalated' = Escalated
      BY <1>2 DEF ListDue, NoManagers, ListManagers, FailSweep, Escalated
    <2>2. \E v : sweep' = [sweep EXCEPT ![s] = v] /\ v.writing \subseteq sweep[s].writing
      <3>1. CASE \E t \in Times : ListDue(s, t)
        BY <3>1 DEF ListDue
      <3>2. CASE NoManagers(s) \/ FailSweep(s)
        BY <3>2 DEF NoManagers, FailSweep, NoSweep
      <3>3. CASE ListManagers(s)
        <4> DEFINE v == IF sweep[s].rest = {} THEN NoSweep
                        ELSE [sweep[s] EXCEPT !.step = "escalating", !.recipients = managers]
        <4>1. v.writing \subseteq sweep[s].writing
          BY <1>1 DEF NoSweep, SweepIntent
        <4>2. sweep' = [sweep EXCEPT ![s] = v]
          BY <3>3 DEF ListManagers
        <4> QED BY <4>1, <4>2
      <3> QED BY <1>2, <3>1, <3>2, <3>3
    <2> QED BY <2>1, <2>2 DEF IndInv, TypeOK
  <1>3. ASSUME NEW b \in Alerts, Claim(s, b)
        PROVE  a \notin Escalated' /\ \A t \in Sweeps : a \notin sweep'[t].writing
    <2>1. Escalated' = Escalated
      BY <1>3 DEF Claim, Escalated
    <2>2. CASE Escalatable(b, sweep[s].evaluatedAt)
      <3>1. a # b
        BY <2>2 DEF Escalatable
      <3>2. sweep' = [sweep EXCEPT ![s].writing = {b}]
        BY <1>3, <2>2 DEF Claim
      <3> QED BY <1>1, <2>1, <3>1, <3>2 DEF IndInv, TypeOK, SweepIntent
    <2>3. CASE ~Escalatable(b, sweep[s].evaluatedAt)
      <3>1. Proceed(s, sweep[s].rest \ {b}) /\ sweep[s].step = "escalating"
        BY <1>3, <2>3 DEF Claim
      <3>2. PICK v \in SweepIntent : sweep' = [sweep EXCEPT ![s] = v] /\ v.writing = {}
        BY <3>1, ProceedSound
      <3> QED BY <1>1, <2>1, <3>2 DEF IndInv, TypeOK
    <2> QED BY <2>2, <2>3
  <1>4. ASSUME NEW b \in Alerts, CommitEscalation(s, b)
        PROVE  a \notin Escalated' /\ \A t \in Sweeps : a \notin sweep'[t].writing
    <2>1. a # b /\ sweep[s].step = "escalating" /\ SweepSound(sweep[s])
      BY <1>4 DEF CommitEscalation, IndInv, RequestsSound, SweepSound
    <2>2. Proceed(s, sweep[s].rest \ {b})
      BY <1>4 DEF CommitEscalation
    <2>3. PICK v \in SweepIntent : sweep' = [sweep EXCEPT ![s] = v] /\ v.writing = {}
      BY <2>1, <2>2, ProceedSound
    <2>4. a \notin Escalated'
      BY <1>4, <2>1 DEF CommitEscalation, Escalated, IndInv, TypeOK
    <2> QED BY <1>1, <2>3, <2>4 DEF IndInv, TypeOK
  <1> QED BY <1>2, <1>3, <1>4 DEF Escalate

\* Once an exception is resolved, no sweep escalates its alert, however old the
\* list it works on, unless it had already updated the alert.
THEOREM ResolvedQuiet == Spec => ResolvedStaysQuiet
  <1>1. ASSUME IndInv, [Next]_vars, NEW a \in Alerts, Quiet(a)
        PROVE  Quiet(a)'
    <2> USE <1>1
    <2>0. /\ a \in Created /\ a \notin open /\ a \notin Escalated
          /\ \A s \in Sweeps : a \notin sweep[s].writing
      BY DEF Quiet
    <2>1. CASE World
      <3>1. UNCHANGED sweep /\ a \in Created' /\ a \notin Escalated'
        BY <2>0, <2>1 DEF World, Tick, Raise, Resolve, ChangeManager, Created, Escalated,
                          IndInv, TypeOK
      <3>2. a \notin open'
        BY <2>0, <2>1 DEF World, Tick, Raise, Resolve, ChangeManager
      <3> QED BY <2>0, <3>1, <3>2 DEF Quiet
    <2>2. ASSUME NEW d \in Deliveries, Deliver(d) PROVE Quiet(a)'
      <3>1. UNCHANGED <<sweep, open>>
        BY <2>2 DEF Deliver, ReadAttempts, CommitAttempt, AbortDelivery
      <3>2. /\ alerts'[a].createdAt = alerts[a].createdAt
            /\ alerts'[a].escalatedAt = alerts[a].escalatedAt
        BY <2>2, CommitAttemptRow DEF Deliver, ReadAttempts, AbortDelivery
      <3>3. a \in Created' /\ a \notin Escalated'
        BY <2>0, <3>2 DEF Created, Escalated
      <3> QED BY <2>0, <3>1, <3>3 DEF Quiet
    <2>3. ASSUME NEW s \in Sweeps, Escalate(s) PROVE Quiet(a)'
      <3>1. a \notin Escalated' /\ \A t \in Sweeps : a \notin sweep'[t].writing
        BY <2>0, <2>3, MarksOpen
      <3>2. a \in Created' /\ UNCHANGED open
        BY <2>0, <2>3 DEF Escalate, ListDue, NoManagers, ListManagers, Claim, CommitEscalation,
                          FailSweep, Created, IndInv, TypeOK, AlertRow
      <3> QED BY <2>0, <3>1, <3>2 DEF Quiet
    <2>4. CASE UNCHANGED vars
      BY <2>0, <2>4 DEF vars, Quiet, Created, Escalated
    <2> QED BY <2>1, <2>2, <2>3, <2>4 DEF Next
  <1>2. ASSUME IndInv, [Next]_vars
        PROVE  [\A a \in Alerts : Quiet(a) => Quiet(a)']_vars
    BY <1>1, <1>2
  <1> QED BY <1>2, Inductive, PTL DEF Spec, ResolvedStaysQuiet

(***************************************************************************)
(* The refinement.                                                         *)
(***************************************************************************)
LEMMA OutcomesAppend ==
  ASSUME NEW done \in Seq(Attempt), NEW x \in Attempt
  PROVE  /\ OutcomesOf(Append(done, x)) = Append(OutcomesOf(done), x.outcome)
         /\ OutcomesOf(done) \in Seq(Outcomes)
         /\ Len(OutcomesOf(done)) = Len(done)
  <1>0. \A k \in DOMAIN done : done[k] \in Attempt
    OBVIOUS
  <1>1. \A k \in DOMAIN done : done[k].outcome \in Outcomes
    BY <1>0 DEF Attempt
  <1>2. OutcomesOf(done) \in Seq(Outcomes) /\ Len(OutcomesOf(done)) = Len(done)
    BY <1>1 DEF OutcomesOf
  <1>3. x.outcome \in Outcomes
    BY DEF Attempt
  <1>4. \A k \in 1 .. Len(done) + 1 :
          OutcomesOf(Append(done, x))[k] = Append(OutcomesOf(done), x.outcome)[k]
    BY <1>2, <1>3 DEF OutcomesOf
  <1>5. /\ DOMAIN OutcomesOf(Append(done, x)) = 1 .. Len(done) + 1
        /\ DOMAIN Append(OutcomesOf(done), x.outcome) = 1 .. Len(done) + 1
    BY <1>2, <1>3 DEF OutcomesOf
  <1> QED BY <1>2, <1>4, <1>5 DEF OutcomesOf

\* A committed attempt is a Try of the promise.
LEMMA CommitAttemptTries ==
  ASSUME IndInv, NEW d \in Deliveries, NEW a \in Alerts, CommitAttempt(d, a)
  PROVE  Promise!Try(a, delivery[d].outcome)
  <1> DEFINE i == delivery[d]
             done == attempts[a]
             new == [outcome |-> i.outcome, attemptedAt |-> i.attemptedAt,
                     nextAttemptAt |-> NextAttempt(i.attemptNo, i.outcome, i.attemptedAt)]
             out == [b \in Alerts |-> OutcomesOf(attempts[b])]
  <1>1. attempts \in [Alerts -> Seq(Attempt)] /\ notified' = notified
    BY DEF IndInv, TypeOK, CommitAttempt
  <1>2. /\ Recordable(a, i.attemptNo, i.attemptedAt, done)
        /\ i \in DeliveryIntent
    BY DEF IndInv, TypeOK, CommitAttempt, RequestsSound, DeliverySound
  <1>3. i.attemptNo \in 1 .. 2 /\ i.attemptedAt \in Nat /\ i.outcome \in Outcomes
    BY <1>2 DEF Recordable, DeliveryIntent, MAX_DELIVERY_ATTEMPTS
  <1>4. new \in Attempt
    <2>1. NextAttempt(i.attemptNo, i.outcome, i.attemptedAt) \in Nat
      BY <1>3, ConstantsAssumption DEF NextAttempt, MAX_DELIVERY_ATTEMPTS
    <2> QED BY <1>3, <2>1 DEF Attempt
  <1>5. attempts' = [attempts EXCEPT ![a] = Append(done, new)]
    BY DEF CommitAttempt
  <1>6. done \in Seq(Attempt)
    BY <1>1
  <1>7. /\ Len(out[a]) < 2
        /\ \A k \in DOMAIN out[a] : out[a][k] = "FAILED"
    <2>1. Len(done) < 2 /\ Len(done) \in Nat
      BY <1>2, <1>3, <1>6 DEF Recordable
    <2>2. \A k \in DOMAIN done : done[k] \in Attempt
      BY <1>6
    <2>3. \A k \in DOMAIN done : done[k].outcome = "FAILED"
      BY <1>2, <2>2 DEF Recordable, Delivered, Attempt, Outcomes
    <2>4. Len(out[a]) = Len(done)
      BY <1>4, <1>6, OutcomesAppend
    <2> QED BY <2>1, <2>3, <2>4 DEF OutcomesOf
  <1>8. [b \in Alerts |-> OutcomesOf(attempts'[b])]
          = [out EXCEPT ![a] = Append(out[a], i.outcome)]
    <2>1. OutcomesOf(attempts'[a]) = Append(out[a], i.outcome)
      BY <1>1, <1>4, <1>5, <1>6, OutcomesAppend
    <2>2. \A b \in Alerts : b # a => attempts'[b] = attempts[b]
      BY <1>1, <1>5
    <2> HIDE DEF new, done, i
    <2> QED BY <2>1, <2>2
  <1>9. [b \in Alerts |-> [at |-> alerts'[b].escalatedAt, to |-> notified'[b]]]
          = [b \in Alerts |-> [at |-> alerts[b].escalatedAt, to |-> notified[b]]]
    BY <1>1, CommitAttemptRow
  <1> QED BY <1>7, <1>8, <1>9 DEF Promise!Try

\* A committed escalation is an EscalateTo of the promise.
LEMMA CommitEscalationEscalates ==
  ASSUME IndInv, NEW s \in Sweeps, NEW a \in Alerts, CommitEscalation(s, a)
  PROVE  Promise!EscalateTo(a, sweep[s].evaluatedAt, sweep[s].recipients)
  <1>1. /\ sweep[s].recipients # {}
        /\ a \notin Escalated
        /\ sweep[s].evaluatedAt \in Times
    BY DEF IndInv, RequestsSound, SweepSound, CommitEscalation
  <1>2. alerts[a].escalatedAt = 0 /\ notified[a] = {}
    BY <1>1 DEF IndInv, EscalationAccounted, Escalated
  <1>3. /\ alerts'[a].escalatedAt = sweep[s].evaluatedAt
        /\ notified'[a] = sweep[s].recipients
        /\ \A b \in Alerts : b # a => alerts'[b] = alerts[b] /\ notified'[b] = notified[b]
        /\ UNCHANGED attempts
    BY <1>2 DEF CommitEscalation, IndInv, TypeOK, AlertRow
  <1> DEFINE esc == [b \in Alerts |-> [at |-> alerts[b].escalatedAt, to |-> notified[b]]]
  <1>4. [b \in Alerts |-> [at |-> alerts'[b].escalatedAt, to |-> notified'[b]]]
          = [esc EXCEPT ![a] = [at |-> sweep[s].evaluatedAt, to |-> sweep[s].recipients]]
    BY <1>3
  <1>5. esc[a] = [at |-> 0, to |-> {}]
    BY <1>2
  <1> QED BY <1>1, <1>3, <1>4, <1>5 DEF Promise!EscalateTo, Promise!None

\* The requests implement the promise: two attempts at most, none after the
\* mail was sent, and one escalation, for any number of concurrent deliveries
\* and sweeps.
THEOREM Implements == Spec => RefinesPromise
  <1>1. Init => Promise!PInit
    BY DEF Init, Promise!PInit, Promise!None, OutcomesOf, NoAlert
  <1>2. ASSUME IndInv, [Next]_vars
        PROVE  [Promise!PNext]_(Promise!promise)
    <2> USE <1>2
    <2>1. ASSUME NEW d \in Deliveries, NEW a \in Alerts, CommitAttempt(d, a)
          PROVE  Promise!PNext
      <3>1. delivery[d].outcome \in {"SENT", "FAILED"}
        BY DEF IndInv, TypeOK, DeliveryIntent, Outcomes
      <3> QED BY <2>1, <3>1, CommitAttemptTries DEF Promise!PNext
    <2>2. ASSUME NEW s \in Sweeps, NEW a \in Alerts, CommitEscalation(s, a)
          PROVE  Promise!PNext
      <3>1. sweep[s] \in SweepIntent /\ SweepSound(sweep[s]) /\ sweep[s].writing = {a}
        BY <2>2 DEF IndInv, TypeOK, RequestsSound, CommitEscalation
      <3>2. sweep[s].recipients \in SUBSET Users /\ sweep[s].evaluatedAt \in Times
        BY <3>1 DEF SweepIntent, SweepSound
      <3>3. Promise!EscalateTo(a, sweep[s].evaluatedAt, sweep[s].recipients)
        BY <2>2, CommitEscalationEscalates
      <3>4. \E at \in Times, users \in SUBSET Users : Promise!EscalateTo(a, at, users)
        BY <3>2, <3>3 DEF Promise!EscalateTo
      <3> QED BY <3>4 DEF Promise!PNext
    <2>3. ASSUME NEW a \in Alerts, NEW t \in Times, Raise(a, t)
          PROVE  UNCHANGED Promise!promise
      <3>1. /\ UNCHANGED <<attempts, notified>>
            /\ \A b \in Alerts : alerts'[b].escalatedAt = alerts[b].escalatedAt
        BY <2>3 DEF Raise, IndInv, TypeOK, NothingBefore, NoAlert
      <3> QED BY <3>1 DEF Promise!promise
    <2>4. CASE UNCHANGED <<alerts, attempts, notified>>
      BY <2>4 DEF Promise!promise
    <2>5. ASSUME NEW d \in Deliveries, Deliver(d), \A a \in Alerts : ~CommitAttempt(d, a)
          PROVE  UNCHANGED <<alerts, attempts, notified>>
      BY <2>5 DEF Deliver, ReadAttempts, AbortDelivery
    <2>6. ASSUME NEW s \in Sweeps, Escalate(s), \A a \in Alerts : ~CommitEscalation(s, a)
          PROVE  UNCHANGED <<alerts, attempts, notified>>
      BY <2>6 DEF Escalate, ListDue, NoManagers, ListManagers, Claim, FailSweep
    <2>7. CASE World
      BY <2>3, <2>4, <2>7 DEF World, Tick, Resolve, ChangeManager
    <2>8. CASE UNCHANGED vars
      BY <2>4, <2>8 DEF vars
    <2> QED BY <2>1, <2>2, <2>4, <2>5, <2>6, <2>7, <2>8 DEF Next
  <1> QED BY <1>1, <1>2, Inductive, PTL DEF Spec, RefinesPromise, Promise!PSpec

-------------------------------------------------------------------------------
(* What the promise comes to, and the requests by the refinement.              *)

PromiseTyped == [a \in Alerts |-> OutcomesOf(attempts[a])] \in [Alerts -> Seq({"SENT", "FAILED"})]

PromiseInv == PromiseTyped /\ Promise!Moderate

LEMMA PromiseStarts ==
  ASSUME Promise!PInit
  PROVE  PromiseInv
<1>p. PICK tried, escalated :
      /\ tried = [a \in Alerts |-> OutcomesOf(attempts[a])]
      /\ escalated = [a \in Alerts |-> [at |-> alerts[a].escalatedAt, to |-> notified[a]]]
  OBVIOUS
<1>1. /\ tried = [a \in Alerts |-> <<>>]
      /\ escalated = [a \in Alerts |-> Promise!None]
  BY <1>p DEF Promise!PInit
<1>2. tried \in [Alerts -> Seq({"SENT", "FAILED"})]
  BY <1>1
<1>3. PromiseTyped
  BY <1>p, <1>2 DEF PromiseTyped
<1>4. \A a \in Alerts :
        /\ Len(tried[a]) <= 2
        /\ \A i, j \in DOMAIN tried[a] : i < j => tried[a][i] = "FAILED"
        /\ escalated[a] # Promise!None => escalated[a].to # {}
  BY <1>1
<1>5. Promise!Moderate
  BY <1>p, <1>4 DEF Promise!Moderate
<1> QED BY <1>3, <1>5 DEF PromiseInv

LEMMA TryKeeps ==
  ASSUME PromiseInv, NEW b \in Alerts, NEW o \in {"SENT", "FAILED"}, Promise!Try(b, o)
  PROVE  PromiseInv' /\ Promise!KeepsRecord
<1>p. PICK old, new, was, is :
      /\ old = [a \in Alerts |-> OutcomesOf(attempts[a])]
      /\ new = [a \in Alerts |-> OutcomesOf(attempts[a])]'
      /\ was = [a \in Alerts |-> [at |-> alerts[a].escalatedAt, to |-> notified[a]]]
      /\ is = [a \in Alerts |-> [at |-> alerts[a].escalatedAt, to |-> notified[a]]]'
  OBVIOUS
<1>1. /\ Len(old[b]) < 2
      /\ \A i \in DOMAIN old[b] : old[b][i] = "FAILED"
      /\ new = [old EXCEPT ![b] = Append(@, o)]
      /\ is = was
  BY <1>p DEF Promise!Try
<1>2. /\ old \in [Alerts -> Seq({"SENT", "FAILED"})]
      /\ \A a \in Alerts :
           /\ Len(old[a]) <= 2
           /\ \A i, j \in DOMAIN old[a] : i < j => old[a][i] = "FAILED"
           /\ was[a] # Promise!None => was[a].to # {}
  BY <1>p DEF PromiseInv, PromiseTyped, Promise!Moderate
<1>3. /\ new[b] = Append(old[b], o)
      /\ \A a \in Alerts \ {b} : new[a] = old[a]
      /\ new \in [Alerts -> Seq({"SENT", "FAILED"})]
  <2>1. old[b] \in Seq({"SENT", "FAILED"})
    BY <1>2
  <2>2. Append(old[b], o) \in Seq({"SENT", "FAILED"})
    BY <2>1
  <2>3. new = [a \in Alerts |-> IF a = b THEN Append(old[b], o) ELSE old[a]]
    BY <1>1, <1>2
  <2> QED BY <1>2, <2>2, <2>3
<1>4. /\ Len(new[b]) = Len(old[b]) + 1
      /\ DOMAIN old[b] = 1..Len(old[b]) /\ DOMAIN new[b] = 1..Len(new[b])
      /\ \A i \in DOMAIN old[b] : new[b][i] = old[b][i]
      /\ Len(old[b]) \in Nat
  <2>1. old[b] \in Seq({"SENT", "FAILED"})
    BY <1>2
  <2> QED BY <1>3, <2>1
<1>5. ASSUME NEW a \in Alerts
      PROVE  /\ Len(new[a]) <= 2
             /\ \A i, j \in DOMAIN new[a] : i < j => new[a][i] = "FAILED"
             /\ \A i \in DOMAIN old[a] : i \in DOMAIN new[a] /\ new[a][i] = old[a][i]
  <2>1. CASE a = b
    BY <1>1, <1>4, <2>1
  <2>2. CASE a # b
    BY <1>2, <1>3, <2>2
  <2> QED BY <2>1, <2>2
<1>6. PromiseInv'
  <2>1. PromiseTyped'
    BY <1>p, <1>3 DEF PromiseTyped
  <2>2. Promise!Moderate'
    <3>1. \A a \in Alerts :
            /\ Len(new[a]) <= 2
            /\ \A i, j \in DOMAIN new[a] : i < j => new[a][i] = "FAILED"
            /\ is[a] # Promise!None => is[a].to # {}
      BY <1>1, <1>2, <1>5
    <3> QED BY <1>p, <3>1 DEF Promise!Moderate
  <2> QED BY <2>1, <2>2 DEF PromiseInv
<1>7. Promise!KeepsRecord
  <2>1. \A a \in Alerts :
          /\ \A i \in DOMAIN old[a] : i \in DOMAIN new[a] /\ new[a][i] = old[a][i]
          /\ was[a] # Promise!None => is[a] = was[a]
    BY <1>1, <1>5
  <2> QED BY <1>p, <2>1 DEF Promise!KeepsRecord
<1> QED BY <1>6, <1>7

LEMMA EscalateKeeps ==
  ASSUME PromiseInv, NEW b \in Alerts, NEW at, NEW users, Promise!EscalateTo(b, at, users)
  PROVE  PromiseInv' /\ Promise!KeepsRecord
<1>p. PICK old, new, was, is :
      /\ old = [a \in Alerts |-> OutcomesOf(attempts[a])]
      /\ new = [a \in Alerts |-> OutcomesOf(attempts[a])]'
      /\ was = [a \in Alerts |-> [at |-> alerts[a].escalatedAt, to |-> notified[a]]]
      /\ is = [a \in Alerts |-> [at |-> alerts[a].escalatedAt, to |-> notified[a]]]'
  OBVIOUS
<1>1. /\ was[b] = Promise!None
      /\ users # {}
      /\ is = [was EXCEPT ![b] = [at |-> at, to |-> users]]
      /\ new = old
  BY <1>p DEF Promise!EscalateTo
<1>2. /\ old \in [Alerts -> Seq({"SENT", "FAILED"})]
      /\ \A a \in Alerts :
           /\ Len(old[a]) <= 2
           /\ \A i, j \in DOMAIN old[a] : i < j => old[a][i] = "FAILED"
           /\ was[a] # Promise!None => was[a].to # {}
  BY <1>p DEF PromiseInv, PromiseTyped, Promise!Moderate
<1>3. \A a \in Alerts :
        /\ is[a] # Promise!None => is[a].to # {}
        /\ was[a] # Promise!None => is[a] = was[a]
  BY <1>1, <1>2
<1>4. PromiseInv'
  <2>1. new \in [Alerts -> Seq({"SENT", "FAILED"})]
    BY <1>1, <1>2
  <2>2. PromiseTyped'
    BY <1>p, <2>1 DEF PromiseTyped
  <2>3. Promise!Moderate'
    <3>1. \A a \in Alerts :
            /\ Len(new[a]) <= 2
            /\ \A i, j \in DOMAIN new[a] : i < j => new[a][i] = "FAILED"
            /\ is[a] # Promise!None => is[a].to # {}
      BY <1>1, <1>2, <1>3
    <3> QED BY <1>p, <3>1 DEF Promise!Moderate
  <2> QED BY <2>2, <2>3 DEF PromiseInv
<1>5. Promise!KeepsRecord
  BY <1>p, <1>1, <1>3 DEF Promise!KeepsRecord
<1> QED BY <1>4, <1>5

LEMMA PromiseStutters ==
  ASSUME PromiseInv, UNCHANGED Promise!promise
  PROVE  PromiseInv' /\ Promise!KeepsRecord
<1>1. UNCHANGED <<[a \in Alerts |-> OutcomesOf(attempts[a])],
                  [a \in Alerts |-> [at |-> alerts[a].escalatedAt, to |-> notified[a]]]>>
  BY DEF Promise!promise
<1>p. PICK tried, escalated :
      /\ tried = [a \in Alerts |-> OutcomesOf(attempts[a])]
      /\ escalated = [a \in Alerts |-> [at |-> alerts[a].escalatedAt, to |-> notified[a]]]
  OBVIOUS
<1>2. /\ tried = [a \in Alerts |-> OutcomesOf(attempts[a])]'
      /\ escalated = [a \in Alerts |-> [at |-> alerts[a].escalatedAt, to |-> notified[a]]]'
  BY <1>1, <1>p
<1> QED
  BY <1>p, <1>2 DEF PromiseInv, PromiseTyped, Promise!Moderate, Promise!KeepsRecord

\* The promise with its atomic operations keeps within two attempts and one
\* escalation, and keeps what it recorded.
THEOREM PromiseModerate == Promise!PSpec => []Promise!Moderate /\ Promise!RecordKept
<1>1. Promise!PInit => PromiseInv
  BY PromiseStarts
<1>2. PromiseInv /\ [Promise!PNext]_(Promise!promise) => PromiseInv' /\ Promise!KeepsRecord
  BY TryKeeps, EscalateKeeps, PromiseStutters DEF Promise!PNext
<1>3. PromiseInv => Promise!Moderate
  BY DEF PromiseInv
<1> QED
  BY <1>1, <1>2, <1>3, PTL DEF Promise!PSpec, Promise!RecordKept

\* The requests and the sweeps, by the refinement.
THEOREM RequestsModerate == Spec => []Promise!Moderate /\ Promise!RecordKept
BY Implements, PromiseModerate, PTL DEF RefinesPromise

=================================================================================
