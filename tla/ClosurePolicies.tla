--------------------------- MODULE ClosurePolicies ----------------------------
(***************************************************************************)
(* The closure policies: for each stage, that is a client and a kind of    *)
(* closing, numbered versions that users draft, approve, activate and      *)
(* deactivate.                                                             *)
(*                                                                         *)
(* A request is a transaction at READ COMMITTED.  Saving a version and     *)
(* moving a version on take different advisory locks, and the lock of a    *)
(* move is that of the one version: two versions of a stage may be         *)
(* activated at the same time.                                             *)
(*                                                                         *)
(* isActive, activatedBy and activatedAt are not kept here: the update of  *)
(* a move sets all three exactly when the status becomes ACTIVE.  Only the *)
(* update that retires the other active versions leaves two of them as     *)
(* they are, which the table's closure_policies_activation_check refuses.  *)
(***************************************************************************)
EXTENDS Naturals, Sequences

CONSTANTS
  Editors,          \* the users who manage policies
  NoUser,           \* null in a column of users
  Stages,           \* those that may have a policy
  RequirementSets,  \* the sets of document requirements a version can have
  PolicyRequests,   \* transactions on policies that can be in flight
  MaxVersions       \* bound on the versions of a stage

ASSUME NoUserAssumption == NoUser \notin Editors

VARIABLES
  policies,         \* for each stage, its versions in order
  policyInFlight    \* what each request remembers

policyVars == <<policies, policyInFlight>>

PolicyStatus == {"DRAFT", "APPROVED", "ACTIVE", "RETIRED"}

PolicyRow ==
  [status : PolicyStatus, author : Editors, approver : Editors \cup {NoUser},
   requirements : RequirementSets]

Allowed == {<<"DRAFT", "APPROVED">>, <<"APPROVED", "ACTIVE">>, <<"ACTIVE", "RETIRED">>}

NoPolicyRequest == [op |-> "idle"]

SaveIntent ==
  [op : {"save"}, stage : Stages, version : Nat \ {0}, user : Editors,
   requirements : RequirementSets]

\* cleared: no other version of the stage was active when others were to be
\* retired; an activation may only then go on.
MoveIntent ==
  [op : {"move"}, stage : Stages, version : Nat \ {0}, user : Editors,
   target : PolicyStatus, seen : PolicyRow, cleared : BOOLEAN]

PolicyTypeOK ==
  /\ policies \in [Stages -> Seq(PolicyRow)]
  /\ policyInFlight \in [PolicyRequests -> {NoPolicyRequest} \cup SaveIntent \cup MoveIntent]

PolicyInit ==
  /\ policies = [stage \in Stages |-> <<>>]
  /\ policyInFlight = [r \in PolicyRequests |-> NoPolicyRequest]

BeginPolicy(r, intent) ==
  /\ policyInFlight[r] = NoPolicyRequest
  /\ policyInFlight' = [policyInFlight EXCEPT ![r] = intent]

EndPolicy(r) == policyInFlight' = [policyInFlight EXCEPT ![r] = NoPolicyRequest]

-------------------------------------------------------------------------------
(* Saving a version.                                                           *)

SaveLockFree(r, stage) ==
  \A q \in PolicyRequests \ {r} :
    ~(policyInFlight[q].op = "save" /\ policyInFlight[q].stage = stage)

AnyVersion(stage) == TRUE  \* mutant

\* No version yet, or the latest is no longer a draft.
Draftable(stage) ==
  policies[stage] # <<>> => policies[stage][Len(policies[stage])].status # "DRAFT"

ReadLatest(r) ==
  \E stage \in Stages, user \in Editors, requirements \in RequirementSets :
    /\ SaveLockFree(r, stage)
    /\ Draftable(stage)
    /\ Len(policies[stage]) < MaxVersions
    /\ BeginPolicy(r, [op |-> "save", stage |-> stage, version |-> Len(policies[stage]) + 1,
                       user |-> user, requirements |-> requirements])
    /\ UNCHANGED policies

\* The unique index on client, stage and version refuses a version twice.
CommitVersion(r) ==
  LET i == policyInFlight[r] IN
  /\ i.op = "save"
  /\ i.version = Len(policies[i.stage]) + 1
  /\ policies' =
       [policies EXCEPT ![i.stage] =
          Append(@, [status |-> "DRAFT", author |-> i.user, approver |-> NoUser,
                     requirements |-> i.requirements])]
  /\ EndPolicy(r)

-------------------------------------------------------------------------------
(* approve, activate and deactivate.                                           *)

MoveUnlocked(r, stage, version) == TRUE  \* mutant

MoveLockFree(r, stage, version) ==
  \A q \in PolicyRequests \ {r} :
    ~( /\ policyInFlight[q].op = "move"
       /\ policyInFlight[q].stage = stage
       /\ policyInFlight[q].version = version )

MayMove(current, target, user) ==
  /\ <<current.status, target>> \in Allowed
  /\ target = "APPROVED" => current.author # user

\* The status already asked for is answered without a write: not a step.
ReadPolicy(r) ==
  \E stage \in Stages, user \in Editors, target \in PolicyStatus :
    \E version \in DOMAIN policies[stage] :
      LET current == policies[stage][version] IN
      /\ MoveLockFree(r, stage, version)
      /\ MayMove(current, target, user)
      /\ BeginPolicy(r, [op |-> "move", stage |-> stage, version |-> version, user |-> user,
                         target |-> target, seen |-> current, cleared |-> FALSE])
      /\ UNCHANGED policies

ApprovedOrActive(stage) ==  \* mutant
  {v \in DOMAIN policies[stage] : policies[stage][v].status \in {"APPROVED", "ACTIVE"}}

Active(stage) == {v \in DOMAIN policies[stage] : policies[stage][v].status = "ACTIVE"}

\* updateMany retires the other active versions.  It leaves their activatedBy
\* and activatedAt, which the check on the table refuses: with any such
\* version the activation fails, and only without one does it go on.
RetireOthers(r) ==
  LET i == policyInFlight[r] IN
  /\ i.op = "move" /\ i.target = "ACTIVE" /\ ~i.cleared
  /\ Active(i.stage) \ {i.version} = {}
  /\ policyInFlight' = [policyInFlight EXCEPT ![r] = [i EXCEPT !.cleared = TRUE]]
  /\ UNCHANGED policies

\* The update is by id alone; the approver is the one read before.
Moved(i, current) ==
  [status |-> i.target, author |-> current.author, requirements |-> current.requirements,
   approver |-> IF i.target = "APPROVED" THEN i.user ELSE i.seen.approver]

CommitMove(r) ==
  LET i == policyInFlight[r]
      versions == policies[i.stage] IN
  /\ i.op = "move"
  /\ i.target = "ACTIVE" => i.cleared
  /\ policies' = [policies EXCEPT ![i.stage] =
                    [versions EXCEPT ![i.version] = Moved(i, versions[i.version])]]
  /\ EndPolicy(r)

AbortPolicy(r) ==
  /\ policyInFlight[r] # NoPolicyRequest
  /\ EndPolicy(r)
  /\ UNCHANGED policies

PolicyNext ==
  \E r \in PolicyRequests :
    \/ ReadLatest(r)
    \/ CommitVersion(r)
    \/ ReadPolicy(r)
    \/ RetireOthers(r)
    \/ CommitMove(r)
    \/ AbortPolicy(r)

-------------------------------------------------------------------------------
(* Properties.                                                                 *)

\* Only the newest version of a stage can be a draft, however the savings of
\* new versions and the approvals of old ones interleave.
DraftIsLatest ==
  \A stage \in Stages : \A v \in DOMAIN policies[stage] :
    policies[stage][v].status = "DRAFT" => v = Len(policies[stage])

\* Whatever has left the draft was approved by another user than its author.
ApprovedByAnother ==
  \A stage \in Stages : \A v \in DOMAIN policies[stage] :
    policies[stage][v].status # "DRAFT" =>
      policies[stage][v].approver \in Editors \ {policies[stage][v].author}

\* A version moves on one status at a time, never back, and keeps its number,
\* its author and its requirements; once approved, its approver.
VersionKept(old, new) ==
  /\ new.author = old.author
  /\ new.requirements = old.requirements
  /\ new.status = old.status \/ <<old.status, new.status>> \in Allowed
  /\ old.status # "DRAFT" => new.approver = old.approver

PolicyHistory ==
  [][\A stage \in Stages : \A v \in DOMAIN policies[stage] :
       /\ v \in DOMAIN policies'[stage]
       /\ VersionKept(policies[stage][v], policies'[stage][v])]_policyVars

===============================================================================
