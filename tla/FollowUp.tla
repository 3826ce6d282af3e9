------------------------------- MODULE FollowUp --------------------------------
(***************************************************************************)
(* What people do about an exception: its owner, its severity and its      *)
(* resolution, its root causes, decisions with corrective actions, and     *)
(* evidence; and the alerts they mark as read.                             *)
(*                                                                         *)
(* The exception's lock protects its owner, severity and resolution.  The  *)
(* rest goes by conditions on the rows, or by what was read before the     *)
(* transaction.                                                            *)
(***************************************************************************)
EXTENDS Support

CONSTANTS
  Exceptions,
  Severities,
  Documents,         \* of the mission of every exception
  RootCauses, Decisions, Actions, Alerts,  \* ids of rows
  Categories,
  DecidedOn,         \* for each decision at the start, its exception
  Undertaken,        \* for each action at the start, its row
  Classified         \* the categories that are active at the start

VARIABLES
  exceptions,
  exceptionLog,      \* the audited changes of each exception
  categories,        \* for each category "ABSENT", "ACTIVE" or "RETIRED", and its parent
  rootCauses,
  decisions,         \* for each decision, its exception
  actions,
  actionLog,         \* for each action, who is audited as having completed it
  evidence,          \* pairs of an exception and a document
  alerts             \* for each alert, how many times it is audited as read

followUpVars ==
  <<exceptions, exceptionLog, categories, rootCauses, decisions, actions, actionLog, evidence,
    alerts>>
recordVars == <<inflight, supportVars, followUpVars>>

ExceptionLock(e) == <<"OPERATIONAL_EXCEPTION", e>>

\* Nobody: no owner, no severity, no parent, no row.
ExceptionRow ==
  [status : {"OPEN", "RESOLVED"}, owner : Users \cup {Nobody}, severity : Severities \cup {Nobody}]

CategoryRow == [status : {"ABSENT", "ACTIVE", "RETIRED"}, parent : Categories \cup {Nobody}]

ActionRow ==
  [decision : Decisions, owner : Users, status : {"OPEN", "COMPLETED"}, by : Users \cup {Nobody}]

RootCauseRow == [exception : Exceptions, category : Categories, confirmed : Users \cup {Nobody}]

NoRow == [exception |-> Nobody]
NoAction == [decision |-> Nobody]

ASSUME DecidedAssumption ==
  /\ Nobody \notin Exceptions \cup Categories
  /\ \A d \in DOMAIN DecidedOn : DecidedOn[d] \in Exceptions

\* What there is to do at the start was decided, and is yet to be done.
ASSUME UndertakenAssumption ==
  \A a \in DOMAIN Undertaken :
    /\ Undertaken[a] \in ActionRow /\ Undertaken[a].status = "OPEN"
    /\ Undertaken[a].decision \in DOMAIN DecidedOn

FollowUpTypeOK ==
  /\ exceptions \in [Exceptions -> ExceptionRow]
  /\ categories \in [Categories -> CategoryRow]
  /\ rootCauses \in [RootCauses -> RootCauseRow \cup {NoRow}]
  /\ decisions \in [Decisions -> Exceptions \cup {Nobody}]
  /\ actions \in [Actions -> ActionRow \cup {NoAction}]
  /\ SupportTypeOK
  /\ evidence \subseteq Exceptions \X Documents
  /\ alerts \in [Alerts -> Nat]

FollowUpInit ==
  /\ TransactionsInit
  /\ SupportInit
  /\ exceptions = [e \in Exceptions |-> [status |-> "OPEN", owner |-> Nobody, severity |-> Nobody]]
  /\ exceptionLog = [e \in Exceptions |-> <<>>]
  /\ categories = [c \in Categories |->
                     [status |-> IF c \in Classified THEN "ACTIVE" ELSE "ABSENT", parent |-> Nobody]]
  /\ rootCauses = [c \in RootCauses |-> NoRow]
  /\ decisions = [d \in Decisions |-> IF d \in DOMAIN DecidedOn THEN DecidedOn[d] ELSE Nobody]
  /\ actions = [a \in Actions |-> IF a \in DOMAIN Undertaken THEN Undertaken[a] ELSE NoAction]
  /\ actionLog = [a \in Actions |-> <<>>]
  /\ evidence = {}
  /\ alerts = [a \in Alerts |-> 0]

-------------------------------------------------------------------------------
(* assign, changeSeverity and resolve.                                         *)

\* The new owner is looked up before the transaction.
Ask(r) ==
  \E e \in Exceptions :
    /\ \/ \E u \in active \cup {Nobody} :
            Begin(r, [op |-> "ask", locks |-> {}, exception |-> e, column |-> "owner", new |-> u])
       \/ \E s \in Severities :
            Begin(r, [op |-> "ask", locks |-> {}, exception |-> e, column |-> "severity", new |-> s])
       \/ Begin(r, [op |-> "ask", locks |-> {}, exception |-> e, column |-> "status",
                    new |-> "RESOLVED"])
    /\ UNCHANGED <<supportVars, followUpVars>>

\* With nothing to change the row is the answer.
LockException(r) ==
  LET i == inflight[r] IN
  /\ i.op = "ask"
  /\ Available(ExceptionLock(i.exception), r)
  /\ exceptions[i.exception][i.column] # i.new
  /\ Remember(r, [op |-> "change", locks |-> {ExceptionLock(i.exception)},
                  exception |-> i.exception, column |-> i.column, new |-> i.new,
                  old |-> exceptions[i.exception][i.column]])
  /\ UNCHANGED <<supportVars, followUpVars>>

Anyway(column, row) == TRUE  \* mutant

\* Only resolve updates where the status is still OPEN.
Applies(column, row) == column = "status" => row.status = "OPEN"

CommitChange(r) ==
  LET i == inflight[r] IN
  /\ i.op = "change"
  /\ IF Applies(i.column, exceptions[i.exception])
     THEN /\ exceptions' = [exceptions EXCEPT ![i.exception][i.column] = i.new]
          /\ exceptionLog' =
               [exceptionLog EXCEPT ![i.exception] =
                  Append(@, [column |-> i.column, old |-> i.old, new |-> i.new])]
     ELSE UNCHANGED <<exceptions, exceptionLog>>
  /\ End(r)
  /\ UNCHANGED <<supportVars, categories, rootCauses, decisions, actions, actionLog, evidence,
                 alerts>>

\* The recovery of a deviation and the closing of a mission resolve it under
\* other locks, and audit that too.
ResolveElsewhere ==
  \E e \in Exceptions :
    /\ exceptions[e].status = "OPEN"
    /\ exceptions' = [exceptions EXCEPT ![e].status = "RESOLVED"]
    /\ exceptionLog' = [exceptionLog EXCEPT ![e] =
                          Append(@, [column |-> "status", old |-> "OPEN", new |-> "RESOLVED"])]
    /\ UNCHANGED <<inflight, supportVars, categories, rootCauses, decisions, actions, actionLog,
                   evidence, alerts>>

-------------------------------------------------------------------------------
(* Root causes and their categories.                                           *)

\* The parent is looked up before the one statement that creates the row.
CreateCategory(r) ==
  \E c \in Categories, parent \in Categories \cup {Nobody} :
    /\ c # parent
    /\ parent # Nobody => categories[parent].status = "ACTIVE"
    /\ Begin(r, [op |-> "category", locks |-> {}, category |-> c, parent |-> parent])
    /\ UNCHANGED <<supportVars, followUpVars>>

\* The code of a category is unique.
CommitCategory(r) ==
  LET i == inflight[r] IN
  /\ i.op = "category"
  /\ categories[i.category].status = "ABSENT"
  /\ categories' = [categories EXCEPT ![i.category] = [status |-> "ACTIVE", parent |-> i.parent]]
  /\ End(r)
  /\ UNCHANGED <<supportVars, exceptions, exceptionLog, rootCauses, decisions, actions, actionLog,
                 evidence, alerts>>

RetireCategory(r) ==
  \E c \in Categories :
    /\ categories[c].status = "ACTIVE"
    /\ inflight[r] = Waiting /\ End(r)
    /\ categories' = [categories EXCEPT ![c].status = "RETIRED"]
    /\ UNCHANGED <<supportVars, exceptions, exceptionLog, rootCauses, decisions, actions,
                   actionLog, evidence, alerts>>

AddRootCause(r) ==
  \E id \in RootCauses, e \in Exceptions, c \in Categories, u \in active \cup {Nobody} :
    /\ rootCauses[id] = NoRow
    /\ categories[c].status = "ACTIVE"
    /\ Begin(r, [op |-> "cause", locks |-> {}, id |-> id,
                 row |-> [exception |-> e, category |-> c, confirmed |-> u]])
    /\ UNCHANGED <<supportVars, followUpVars>>

CommitRootCause(r) ==
  LET i == inflight[r] IN
  /\ i.op = "cause"
  /\ rootCauses[i.id] = NoRow
  /\ rootCauses' = [rootCauses EXCEPT ![i.id] = i.row]
  /\ End(r)
  /\ UNCHANGED <<supportVars, exceptions, exceptionLog, categories, decisions, actions, actionLog,
                 evidence, alerts>>

-------------------------------------------------------------------------------
(* Decisions, corrective actions and evidence.                                 *)

AddDecision(r) ==
  \E d \in Decisions, e \in Exceptions :
    /\ decisions[d] = Nobody
    /\ inflight[r] = Waiting /\ End(r)
    /\ decisions' = [decisions EXCEPT ![d] = e]
    /\ UNCHANGED <<supportVars, exceptions, exceptionLog, categories, rootCauses, actions,
                   actionLog, evidence, alerts>>

AddAction(r) ==
  \E a \in Actions, d \in Decisions, u \in active :
    /\ actions[a] = NoAction
    /\ decisions[d] # Nobody
    /\ Begin(r, [op |-> "action", locks |-> {}, id |-> a,
                 row |-> [decision |-> d, owner |-> u, status |-> "OPEN", by |-> Nobody]])
    /\ UNCHANGED <<supportVars, followUpVars>>

CommitAction(r) ==
  LET i == inflight[r] IN
  /\ i.op = "action"
  /\ actions[i.id] = NoAction
  /\ actions' = [actions EXCEPT ![i.id] = i.row]
  /\ End(r)
  /\ UNCHANGED <<supportVars, exceptions, exceptionLog, categories, rootCauses, decisions,
                 actionLog, evidence, alerts>>

ReadAction(r) ==
  \E a \in Actions, u \in active :
    /\ actions[a] # NoAction
    /\ actions[a].status = "OPEN"
    /\ Begin(r, [op |-> "complete", locks |-> {}, id |-> a, user |-> u])
    /\ UNCHANGED <<supportVars, followUpVars>>

\* Whoever comes second updates and audits nothing.
CompleteAction(r) ==
  LET i == inflight[r] IN
  /\ i.op = "complete"
  /\ IF actions[i.id].status = "OPEN"
     THEN /\ actions' = [actions EXCEPT ![i.id].status = "COMPLETED", ![i.id].by = i.user]
          /\ actionLog' = [actionLog EXCEPT ![i.id] = Append(@, i.user)]
     ELSE UNCHANGED <<actions, actionLog>>
  /\ End(r)
  /\ UNCHANGED <<supportVars, exceptions, exceptionLog, categories, rootCauses, decisions,
                 evidence, alerts>>

\* An upsert.
AttachEvidence(r) ==
  \E e \in Exceptions, d \in Documents :
    /\ inflight[r] = Waiting /\ End(r)
    /\ evidence' = evidence \cup {<<e, d>>}
    /\ UNCHANGED <<supportVars, exceptions, exceptionLog, categories, rootCauses, decisions,
                   actions, actionLog, alerts>>

ReadAlert(r) ==
  \E a \in Alerts :
    /\ alerts[a] = 0
    /\ Begin(r, [op |-> "read", locks |-> {}, id |-> a])
    /\ UNCHANGED <<supportVars, followUpVars>>

MarkAlertRead(r) ==
  LET i == inflight[r] IN
  /\ i.op = "read"
  /\ alerts' = [alerts EXCEPT ![i.id] = IF @ = 0 THEN 1 ELSE @]
  /\ End(r)
  /\ UNCHANGED <<supportVars, exceptions, exceptionLog, categories, rootCauses, decisions,
                 actions, actionLog, evidence>>

-------------------------------------------------------------------------------
FollowUpStart(r) ==
  \/ SupportStart(r) /\ UNCHANGED followUpVars
  \/ Ask(r) \/ CreateCategory(r) \/ RetireCategory(r) \/ AddRootCause(r) \/ AddDecision(r)
  \/ AddAction(r) \/ ReadAction(r) \/ AttachEvidence(r) \/ ReadAlert(r)

FollowUpGoOn(r) ==
  \/ SupportGoOn(r) /\ UNCHANGED followUpVars
  \/ LockException(r) \/ CommitChange(r) \/ CommitCategory(r) \/ CommitRootCause(r)
  \/ CommitAction(r) \/ CompleteAction(r) \/ MarkAlertRead(r)
  \/ Rollback(r) /\ UNCHANGED <<supportVars, followUpVars>>

FollowUpNext ==
  \/ \E r \in Requests :
       \/ inflight[r] = Waiting /\ FollowUpStart(r)
       \/ FollowUpGoOn(r)
  \/ Deactivate /\ UNCHANGED followUpVars
  \/ ResolveElsewhere
  \/ Quiet /\ UNCHANGED recordVars

FollowUpSpec == FollowUpInit /\ [][FollowUpNext]_recordVars

-------------------------------------------------------------------------------
(* Properties.                                                                 *)

ChangesOf(e, column) == {n \in DOMAIN exceptionLog[e] : exceptionLog[e][n].column = column}

First(e, column) == IF column = "status" THEN "OPEN" ELSE Nobody

\* The audit of an exception tells its story without a gap: every change starts
\* from the value that the one before it left behind, the last one left behind
\* what the row holds, and it was resolved once; of an action, the one who is
\* audited as having completed it is the one on record.
FollowUpReplays ==
  /\ \A e \in Exceptions, column \in {"owner", "severity", "status"} :
       LET log == exceptionLog[e]
           changes == ChangesOf(e, column)
           before(n) == {m \in changes : m < n}
           last(set) == CHOOSE m \in set : \A k \in set : k <= m
           value(set) == IF set = {} THEN First(e, column) ELSE log[last(set)].new
       IN /\ \A n \in changes : log[n].old = value(before(n))
          /\ exceptions[e][column] = value(changes)
  /\ \A a \in Actions :
       actions[a] # NoAction =>
         actionLog[a] = IF actions[a].status = "OPEN" THEN <<>> ELSE <<actions[a].by>>

\* A category was there before those below it, so that none is below itself;
\* root causes name categories that were there, and actions decisions.
RecordsLinked ==
  /\ \A c \in Categories :
       LET parent == categories[c].parent IN
       parent # Nobody => \A k \in {c, parent} : categories[k].status # "ABSENT"
  /\ \A set \in SUBSET Categories :
       set # {} => \E c \in set : categories[c].parent \notin set
  /\ \A id \in RootCauses :
       rootCauses[id] # NoRow => categories[rootCauses[id].category].status # "ABSENT"
  /\ \A a \in Actions : actions[a] # NoAction => decisions[actions[a].decision] # Nobody

===============================================================================
