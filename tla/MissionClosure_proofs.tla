------------------------- MODULE MissionClosure_proofs -------------------------
(***************************************************************************)
(* Theorems about ClosurePolicies, Documents and MissionClosure, for any   *)
(* number of users, versions, documents, stops and overlapping requests.   *)
(*                                                                         *)
(* Each part has its inductive invariant, which says what the memory of a  *)
(* request in flight is worth, and a lemma that says what one of its steps *)
(* may do to the rows: versions and documents only ever gain.  The closing *)
(* of a mission needs no more of the other two parts than that.            *)
(***************************************************************************)
EXTENDS MissionClosure, TLAPS

-------------------------------------------------------------------------------
(* Sequences.                                                                  *)

\* What Append does to a sequence.
LEMMA AppendFacts ==
  ASSUME NEW S, NEW s \in Seq(S), NEW x \in S
  PROVE  /\ Append(s, x) \in Seq(S)
         /\ Len(Append(s, x)) = Len(s) + 1
         /\ DOMAIN Append(s, x) = 1..(Len(s) + 1)
         /\ \A k \in DOMAIN s : Append(s, x)[k] = s[k]
         /\ Append(s, x)[Len(s) + 1] = x
  OBVIOUS

\* What writing one element does to a sequence.
LEMMA ReplaceFacts ==
  ASSUME NEW S, NEW s \in Seq(S), NEW k \in DOMAIN s, NEW x \in S
  PROVE  /\ [s EXCEPT ![k] = x] \in Seq(S)
         /\ Len([s EXCEPT ![k] = x]) = Len(s)
         /\ DOMAIN [s EXCEPT ![k] = x] = DOMAIN s
         /\ \A j \in DOMAIN s : j # k => [s EXCEPT ![k] = x][j] = s[j]
         /\ [s EXCEPT ![k] = x][k] = x
  OBVIOUS

\* The positions of a sequence and its elements.
LEMMA SeqFacts ==
  ASSUME NEW S, NEW s \in Seq(S)
  PROVE  /\ Len(s) \in Nat
         /\ DOMAIN s = 1..Len(s)
         /\ \A k \in DOMAIN s : s[k] \in S
  OBVIOUS

-------------------------------------------------------------------------------
(* Closure policies.                                                           *)

\* One saving per stage at a time, and one move per version.
PoliciesLocked ==
  \A q, r \in PolicyRequests :
    /\ q # r
    /\ policyInFlight[q].op = policyInFlight[r].op
    /\ policyInFlight[q].op # "idle"
    /\ policyInFlight[q].stage = policyInFlight[r].stage
    => /\ policyInFlight[q].op # "save"
       /\ policyInFlight[q].version # policyInFlight[r].version

SaveSound(i) == i.op = "save" => Draftable(i.stage)

MoveSound(i) ==
  i.op = "move" =>
    /\ i.version \in DOMAIN policies[i.stage]
    /\ policies[i.stage][i.version] = i.seen
    /\ <<i.seen.status, i.target>> \in Allowed
    /\ i.target = "APPROVED" => i.seen.author # i.user

PolicyMemory == \A r \in PolicyRequests : SaveSound(policyInFlight[r]) /\ MoveSound(policyInFlight[r])

PolicyInv ==
  /\ PolicyTypeOK /\ PoliciesLocked /\ PolicyMemory
  /\ DraftIsLatest /\ ApprovedByAnother

PolicyKept ==
  \A stage \in Stages : \A v \in DOMAIN policies[stage] :
    /\ v \in DOMAIN policies'[stage]
    /\ VersionKept(policies[stage][v], policies'[stage][v])

\* A request that stops remembering leaves the invariant.
LEMMA PolicyForget ==
  ASSUME PolicyTypeOK, PoliciesLocked, NEW r \in PolicyRequests, EndPolicy(r)
  PROVE  /\ policyInFlight' \in [PolicyRequests -> {NoPolicyRequest} \cup SaveIntent \cup MoveIntent]
         /\ PoliciesLocked'
         /\ policyInFlight'[r].op = "idle"
         /\ \A q \in PolicyRequests : q # r => policyInFlight'[q] = policyInFlight[q]
  BY DEF EndPolicy, PolicyTypeOK, PoliciesLocked, NoPolicyRequest

LEMMA PolicyInitInv == PolicyInit => PolicyInv
<1> SUFFICES ASSUME PolicyInit PROVE PolicyInv
  OBVIOUS
<1>1. \A stage \in Stages : policies[stage] = <<>> /\ DOMAIN policies[stage] = {}
  BY DEF PolicyInit
<1>2. PolicyTypeOK
  BY DEF PolicyInit, PolicyTypeOK
<1>3. PoliciesLocked /\ PolicyMemory
  BY DEF PolicyInit, PoliciesLocked, PolicyMemory, SaveSound, MoveSound, NoPolicyRequest
<1>4. DraftIsLatest /\ ApprovedByAnother
  BY <1>1 DEF DraftIsLatest, ApprovedByAnother
<1> QED
  BY <1>2, <1>3, <1>4 DEF PolicyInv

LEMMA ReadLatestKeeps ==
  ASSUME PolicyInv, NEW r \in PolicyRequests, ReadLatest(r)
  PROVE  PolicyInv' /\ PolicyKept
<1> PICK stage \in Stages, user \in Editors, requirements \in RequirementSets :
      /\ SaveLockFree(r, stage)
      /\ Draftable(stage)
      /\ BeginPolicy(r, [op |-> "save", stage |-> stage, version |-> Len(policies[stage]) + 1,
                         user |-> user, requirements |-> requirements])
      /\ policies' = policies
  BY DEF ReadLatest
<1> DEFINE i == [op |-> "save", stage |-> stage, version |-> Len(policies[stage]) + 1,
                 user |-> user, requirements |-> requirements]
<1>1. Len(policies[stage]) \in Nat
  BY SeqFacts DEF PolicyInv, PolicyTypeOK
<1>2. i \in SaveIntent
  BY <1>1 DEF SaveIntent
<1>3. /\ policyInFlight'[r] = i
      /\ \A q \in PolicyRequests : q # r => policyInFlight'[q] = policyInFlight[q]
  BY DEF BeginPolicy, PolicyInv, PolicyTypeOK
<1>4. PolicyTypeOK'
  BY <1>2 DEF BeginPolicy, PolicyInv, PolicyTypeOK
<1>5. PoliciesLocked'
  BY <1>3 DEF PoliciesLocked, PolicyInv, SaveLockFree
<1>6. PolicyMemory'
  <2> SUFFICES ASSUME NEW q \in PolicyRequests
               PROVE  SaveSound(policyInFlight[q])' /\ MoveSound(policyInFlight[q])'
    BY DEF PolicyMemory
  <2>1. CASE q = r
    BY <2>1, <1>3 DEF SaveSound, MoveSound, Draftable
  <2>2. CASE q # r
    BY <2>2, <1>3 DEF SaveSound, MoveSound, Draftable, PolicyInv, PolicyMemory
  <2> QED BY <2>1, <2>2
<1>7. (DraftIsLatest /\ ApprovedByAnother)' /\ PolicyKept
  BY DEF PolicyInv, DraftIsLatest, ApprovedByAnother, PolicyKept, VersionKept
<1> QED
  BY <1>4, <1>5, <1>6, <1>7 DEF PolicyInv

LEMMA CommitVersionKeeps ==
  ASSUME PolicyInv, NEW r \in PolicyRequests, CommitVersion(r)
  PROVE  PolicyInv' /\ PolicyKept
<1> DEFINE i == policyInFlight[r]
           row == [status |-> "DRAFT", author |-> i.user, approver |-> NoUser,
                   requirements |-> i.requirements]
           old == policies[i.stage]
<1>1. i \in SaveIntent /\ i.stage \in Stages /\ i.user \in Editors /\ i.requirements \in RequirementSets
  BY DEF PolicyInv, PolicyTypeOK, CommitVersion, NoPolicyRequest, SaveIntent, MoveIntent
<1>2. row \in PolicyRow
  BY <1>1 DEF PolicyRow, PolicyStatus
<1>3. /\ policies' = [policies EXCEPT ![i.stage] = Append(old, row)]
      /\ i.op = "save" /\ EndPolicy(r)
  BY DEF CommitVersion
<1>4. \A stage \in Stages :
        /\ policies[stage] \in Seq(PolicyRow)
        /\ Len(policies[stage]) \in Nat
        /\ DOMAIN policies[stage] = 1..Len(policies[stage])
  BY SeqFacts DEF PolicyInv, PolicyTypeOK
<1>5. /\ policies'[i.stage] = Append(old, row)
      /\ \A stage \in Stages : stage # i.stage => policies'[stage] = policies[stage]
  BY <1>1, <1>3 DEF PolicyInv, PolicyTypeOK
<1>6. /\ Append(old, row) \in Seq(PolicyRow)
      /\ Len(Append(old, row)) = Len(old) + 1
      /\ DOMAIN Append(old, row) = 1..(Len(old) + 1)
      /\ \A k \in DOMAIN old : Append(old, row)[k] = old[k]
      /\ Append(old, row)[Len(old) + 1] = row
  BY <1>1, <1>2, <1>4, AppendFacts
<1> HIDE DEF row
<1>7. PolicyTypeOK'
  BY <1>1, <1>3, <1>6, PolicyForget DEF PolicyInv, PolicyTypeOK
<1>8. \A stage \in Stages : \A v \in DOMAIN policies[stage] :
        v \in DOMAIN policies'[stage] /\ policies'[stage][v] = policies[stage][v]
  <2> SUFFICES ASSUME NEW stage \in Stages, NEW v \in DOMAIN policies[stage]
               PROVE  v \in DOMAIN policies'[stage] /\ policies'[stage][v] = policies[stage][v]
    OBVIOUS
  <2>1. CASE stage # i.stage
    BY <2>1, <1>5
  <2>2. CASE stage = i.stage
    <3>1. v \in DOMAIN old /\ v \in 1..(Len(old) + 1)
      BY <2>2, <1>4
    <3> QED BY <3>1, <2>2, <1>5, <1>6
  <2> QED BY <2>1, <2>2
<1>9. PolicyKept
  BY <1>8 DEF PolicyKept, VersionKept
<1>10. PoliciesLocked'
  BY <1>3, PolicyForget DEF PolicyInv
<1>11. PolicyMemory'
  <2> SUFFICES ASSUME NEW q \in PolicyRequests, q # r
               PROVE  SaveSound(policyInFlight[q])' /\ MoveSound(policyInFlight[q])'
    BY <1>3, PolicyForget DEF PolicyMemory, PolicyInv, SaveSound, MoveSound
  <2>1. policyInFlight'[q] = policyInFlight[q]
    BY <1>3, PolicyForget DEF PolicyInv
  <2>2. ASSUME policyInFlight[q].op = "save" PROVE Draftable(policyInFlight[q].stage)'
    <3>1. policyInFlight[q].stage # i.stage /\ policyInFlight[q].stage \in Stages
      BY <2>2, <1>3 DEF PolicyInv, PoliciesLocked, PolicyTypeOK, NoPolicyRequest, SaveIntent, MoveIntent
    <3>2. Draftable(policyInFlight[q].stage)
      BY <2>2 DEF PolicyInv, PolicyMemory, SaveSound
    <3> QED BY <3>1, <3>2, <2>1, <1>5 DEF Draftable
  <2>3. ASSUME policyInFlight[q].op = "move" PROVE MoveSound(policyInFlight[q])'
    <3>1. policyInFlight[q].stage \in Stages
      BY <2>3 DEF PolicyInv, PolicyTypeOK, NoPolicyRequest, SaveIntent, MoveIntent
    <3> QED BY <3>1, <2>3, <2>1, <1>8 DEF PolicyInv, PolicyMemory, MoveSound
  <2> QED BY <2>1, <2>2, <2>3 DEF SaveSound, MoveSound
<1>12. DraftIsLatest'
  <2>1. Draftable(i.stage)
    BY <1>3 DEF PolicyInv, PolicyMemory, SaveSound
  <2>2. \A v \in DOMAIN old : old[v].status # "DRAFT"
    <3>1. old # <<>> => old[Len(old)].status # "DRAFT"
      BY <2>1 DEF Draftable
    <3>2. \A v \in DOMAIN old : old[v].status = "DRAFT" => v = Len(old)
      BY <1>1 DEF PolicyInv, DraftIsLatest
    <3>3. DOMAIN old # {} => old # <<>>
      OBVIOUS
    <3> QED BY <3>1, <3>2, <3>3
  <2> SUFFICES ASSUME NEW stage \in Stages, NEW v \in DOMAIN policies'[stage],
                      policies'[stage][v].status = "DRAFT"
               PROVE  v = Len(policies'[stage])
    BY DEF DraftIsLatest
  <2>3. CASE stage # i.stage
    BY <2>3, <1>5 DEF PolicyInv, DraftIsLatest
  <2>4. CASE stage = i.stage
    BY <2>4, <2>2, <1>1, <1>4, <1>5, <1>6
  <2> QED BY <2>3, <2>4
<1>13. ApprovedByAnother'
  <2> SUFFICES ASSUME NEW stage \in Stages, NEW v \in DOMAIN policies'[stage],
                      policies'[stage][v].status # "DRAFT"
               PROVE  policies'[stage][v].approver \in Editors \ {policies'[stage][v].author}
    BY DEF ApprovedByAnother
  <2>1. CASE v \in DOMAIN policies[stage]
    BY <2>1, <1>8 DEF PolicyInv, ApprovedByAnother
  <2>2. CASE v \notin DOMAIN policies[stage]
    <3>1. stage = i.stage
      BY <2>2, <1>5
    <3>2. v \in 1..(Len(old) + 1) /\ v \notin 1..Len(old) /\ Len(old) \in Nat
      BY <2>2, <3>1, <1>1, <1>4, <1>5, <1>6
    <3>3. v = Len(old) + 1
      BY <3>2
    <3>4. policies'[stage][v] = row
      BY <3>1, <3>3, <1>5, <1>6
    <3>5. row.status = "DRAFT"
      BY DEF row
    <3> QED BY <3>4, <3>5
  <2> QED BY <2>1, <2>2
<1> QED
  BY <1>7, <1>9, <1>10, <1>11, <1>12, <1>13 DEF PolicyInv

LEMMA ReadPolicyKeeps ==
  ASSUME PolicyInv, NEW r \in PolicyRequests, ReadPolicy(r)
  PROVE  PolicyInv' /\ PolicyKept
<1> PICK stage \in Stages, user \in Editors, target \in PolicyStatus :
      \E version \in DOMAIN policies[stage] :
        /\ MoveLockFree(r, stage, version)
        /\ MayMove(policies[stage][version], target, user)
        /\ BeginPolicy(r, [op |-> "move", stage |-> stage, version |-> version, user |-> user,
                           target |-> target, seen |-> policies[stage][version], cleared |-> FALSE])
        /\ policies' = policies
  BY DEF ReadPolicy
<1> PICK version \in DOMAIN policies[stage] :
      /\ MoveLockFree(r, stage, version)
      /\ MayMove(policies[stage][version], target, user)
      /\ BeginPolicy(r, [op |-> "move", stage |-> stage, version |-> version, user |-> user,
                         target |-> target, seen |-> policies[stage][version], cleared |-> FALSE])
      /\ policies' = policies
  OBVIOUS
<1> DEFINE i == [op |-> "move", stage |-> stage, version |-> version, user |-> user,
                 target |-> target, seen |-> policies[stage][version], cleared |-> FALSE]
<1>1. version \in Nat \ {0} /\ policies[stage][version] \in PolicyRow
  BY SeqFacts DEF PolicyInv, PolicyTypeOK
<1>2. i \in MoveIntent
  BY <1>1 DEF MoveIntent
<1>3. /\ policyInFlight'[r] = i
      /\ \A q \in PolicyRequests : q # r => policyInFlight'[q] = policyInFlight[q]
  BY DEF BeginPolicy, PolicyInv, PolicyTypeOK
<1>4. PolicyTypeOK'
  BY <1>2 DEF BeginPolicy, PolicyInv, PolicyTypeOK
<1>5. PoliciesLocked'
  BY <1>3 DEF PoliciesLocked, PolicyInv, MoveLockFree
<1>6. PolicyMemory'
  <2> SUFFICES ASSUME NEW q \in PolicyRequests
               PROVE  SaveSound(policyInFlight[q])' /\ MoveSound(policyInFlight[q])'
    BY DEF PolicyMemory
  <2>1. CASE q = r
    BY <2>1, <1>3 DEF SaveSound, MoveSound, MayMove
  <2>2. CASE q # r
    BY <2>2, <1>3 DEF SaveSound, MoveSound, Draftable, PolicyInv, PolicyMemory
  <2> QED BY <2>1, <2>2
<1>7. (DraftIsLatest /\ ApprovedByAnother)' /\ PolicyKept
  BY DEF PolicyInv, DraftIsLatest, ApprovedByAnother, PolicyKept, VersionKept
<1> QED
  BY <1>4, <1>5, <1>6, <1>7 DEF PolicyInv

LEMMA RetireOthersKeeps ==
  ASSUME PolicyInv, NEW r \in PolicyRequests, RetireOthers(r)
  PROVE  PolicyInv' /\ PolicyKept
<1> DEFINE i == policyInFlight[r]
<1>1. i \in MoveIntent /\ i.op = "move" /\ policies' = policies
  BY DEF RetireOthers, PolicyInv, PolicyTypeOK, NoPolicyRequest, SaveIntent
<1>2. /\ [i EXCEPT !.cleared = TRUE] \in MoveIntent
      /\ \A c \in {"op", "stage", "version", "user", "target", "seen"} :
           [i EXCEPT !.cleared = TRUE][c] = i[c]
  BY <1>1 DEF MoveIntent
<1>3. /\ policyInFlight'[r] = [i EXCEPT !.cleared = TRUE]
      /\ \A q \in PolicyRequests : q # r => policyInFlight'[q] = policyInFlight[q]
  BY DEF RetireOthers, PolicyInv, PolicyTypeOK
<1>4. /\ policyInFlight'[r].op = i.op
      /\ policyInFlight'[r].stage = i.stage
      /\ policyInFlight'[r].version = i.version
      /\ policyInFlight'[r].user = i.user
      /\ policyInFlight'[r].target = i.target
      /\ policyInFlight'[r].seen = i.seen
  BY <1>2, <1>3
<1>5. PolicyTypeOK'
  BY <1>1, <1>2 DEF RetireOthers, PolicyInv, PolicyTypeOK
<1>6. PoliciesLocked'
  <2>1. \A q \in PolicyRequests :
          /\ policyInFlight'[q].op = policyInFlight[q].op
          /\ policyInFlight'[q].stage = policyInFlight[q].stage
          /\ policyInFlight'[q].version = policyInFlight[q].version
    BY <1>3, <1>4
  <2> QED BY <2>1 DEF PoliciesLocked, PolicyInv
<1>7. PolicyMemory'
  <2> SUFFICES ASSUME NEW q \in PolicyRequests
               PROVE  SaveSound(policyInFlight[q])' /\ MoveSound(policyInFlight[q])'
    BY DEF PolicyMemory
  <2>1. CASE q = r
    BY <2>1, <1>1, <1>4 DEF SaveSound, MoveSound, PolicyInv, PolicyMemory
  <2>2. CASE q # r
    BY <2>2, <1>1, <1>3 DEF SaveSound, MoveSound, Draftable, PolicyInv, PolicyMemory
  <2> QED BY <2>1, <2>2
<1>8. (DraftIsLatest /\ ApprovedByAnother)' /\ PolicyKept
  BY <1>1 DEF PolicyInv, DraftIsLatest, ApprovedByAnother, PolicyKept, VersionKept
<1> QED
  BY <1>5, <1>6, <1>7, <1>8 DEF PolicyInv

LEMMA CommitMoveKeeps ==
  ASSUME PolicyInv, NEW r \in PolicyRequests, CommitMove(r)
  PROVE  PolicyInv' /\ PolicyKept
<1> DEFINE i == policyInFlight[r]
           old == policies[i.stage]
           row == Moved(i, old[i.version])
<1>1. /\ i.op = "move" /\ i.stage \in Stages /\ i.user \in Editors /\ i.target \in PolicyStatus
      /\ i.seen \in PolicyRow
  BY DEF CommitMove, PolicyInv, PolicyTypeOK, NoPolicyRequest, SaveIntent, MoveIntent
<1>2. /\ i.version \in DOMAIN old
      /\ old[i.version] = i.seen
      /\ <<i.seen.status, i.target>> \in Allowed
      /\ i.target = "APPROVED" => i.seen.author # i.user
  BY <1>1 DEF PolicyInv, PolicyMemory, MoveSound
<1>3. row \in PolicyRow
  <2>1. old[i.version].author \in Editors /\ old[i.version].requirements \in RequirementSets
    BY <1>1, <1>2 DEF PolicyRow
  <2>2. (IF i.target = "APPROVED" THEN i.user ELSE i.seen.approver) \in Editors \cup {NoUser}
    BY <1>1 DEF PolicyRow
  <2> QED BY <2>1, <2>2, <1>1 DEF PolicyRow, Moved
<1>4. /\ policies' = [policies EXCEPT ![i.stage] = [old EXCEPT ![i.version] = row]]
      /\ EndPolicy(r)
  BY DEF CommitMove
<1>5. /\ row.status = i.target
      /\ row.author = old[i.version].author
      /\ row.requirements = old[i.version].requirements
      /\ row.approver = IF i.target = "APPROVED" THEN i.user ELSE i.seen.approver
  BY DEF Moved
<1> HIDE DEF row
<1>6. \A stage \in Stages : policies[stage] \in Seq(PolicyRow)
  BY DEF PolicyInv, PolicyTypeOK
<1>7. /\ policies'[i.stage] = [old EXCEPT ![i.version] = row]
      /\ \A stage \in Stages : stage # i.stage => policies'[stage] = policies[stage]
  BY <1>1, <1>4 DEF PolicyInv, PolicyTypeOK
<1>8. /\ [old EXCEPT ![i.version] = row] \in Seq(PolicyRow)
      /\ Len([old EXCEPT ![i.version] = row]) = Len(old)
      /\ DOMAIN [old EXCEPT ![i.version] = row] = DOMAIN old
      /\ \A j \in DOMAIN old : j # i.version => [old EXCEPT ![i.version] = row][j] = old[j]
      /\ [old EXCEPT ![i.version] = row][i.version] = row
  BY <1>1, <1>2, <1>3, <1>6, ReplaceFacts
<1>9. PolicyTypeOK'
  BY <1>1, <1>4, <1>8, PolicyForget DEF PolicyInv, PolicyTypeOK
<1>10. \A stage \in Stages :
         DOMAIN policies'[stage] = DOMAIN policies[stage] /\ Len(policies'[stage]) = Len(policies[stage])
  BY <1>1, <1>7, <1>8
<1>11. /\ policies'[i.stage][i.version] = row
       /\ \A stage \in Stages : \A v \in DOMAIN policies[stage] :
            (stage # i.stage \/ v # i.version) => policies'[stage][v] = policies[stage][v]
  <2>1. policies'[i.stage][i.version] = row
    BY <1>7, <1>8
  <2>2. ASSUME NEW stage \in Stages, NEW v \in DOMAIN policies[stage],
               stage # i.stage \/ v # i.version
        PROVE  policies'[stage][v] = policies[stage][v]
    <3>1. CASE stage # i.stage
      BY <3>1, <1>7
    <3>2. CASE stage = i.stage /\ v # i.version
      <4>1. v \in DOMAIN old
        BY <3>2
      <4> QED BY <4>1, <3>2, <1>7, <1>8
    <3> QED BY <2>2, <3>1, <3>2
  <2> QED BY <2>1, <2>2
<1>12. old[i.version].status # "DRAFT" =>
         i.target # "APPROVED" /\ row.approver = old[i.version].approver
  BY <1>2, <1>5 DEF Allowed
<1>13. PolicyKept
  <2> SUFFICES ASSUME NEW stage \in Stages, NEW v \in DOMAIN policies[stage]
               PROVE  /\ v \in DOMAIN policies'[stage]
                      /\ VersionKept(policies[stage][v], policies'[stage][v])
    BY DEF PolicyKept
  <2>1. CASE stage = i.stage /\ v = i.version
    BY <2>1, <1>2, <1>5, <1>10, <1>11, <1>12 DEF VersionKept
  <2>2. CASE stage # i.stage \/ v # i.version
    BY <2>2, <1>10, <1>11 DEF VersionKept
  <2> QED BY <2>1, <2>2
<1>14. PoliciesLocked'
  BY <1>4, PolicyForget DEF PolicyInv
<1>15. PolicyMemory'
  <2> SUFFICES ASSUME NEW q \in PolicyRequests, q # r
               PROVE  SaveSound(policyInFlight[q])' /\ MoveSound(policyInFlight[q])'
    BY <1>4, PolicyForget DEF PolicyMemory, PolicyInv, SaveSound, MoveSound
  <2>1. policyInFlight'[q] = policyInFlight[q]
    BY <1>4, PolicyForget DEF PolicyInv
  <2>2. ASSUME policyInFlight[q].op = "save" PROVE Draftable(policyInFlight[q].stage)'
    <3> DEFINE s == policyInFlight[q].stage
    <3>1. s \in Stages /\ policies[s] \in Seq(PolicyRow)
      BY <2>2, <1>6 DEF PolicyInv, PolicyTypeOK, NoPolicyRequest, SaveIntent, MoveIntent
    <3>2. Draftable(s)
      BY <2>2 DEF PolicyInv, PolicyMemory, SaveSound
    <3>3. policies'[s] # <<>> => policies[s] # <<>> /\ Len(policies[s]) \in DOMAIN policies[s]
      <4>1. Len(policies'[s]) = Len(policies[s]) /\ policies'[s] \in Seq(PolicyRow)
        BY <3>1, <1>9, <1>10 DEF PolicyTypeOK
      <4> QED BY <4>1, <3>1, SeqFacts
    <3>4. \A v \in DOMAIN policies[s] :
            policies[s][v].status # "DRAFT" => policies'[s][v].status # "DRAFT"
      BY <3>1, <1>2, <1>5, <1>11 DEF Allowed
    <3> QED BY <3>1, <3>2, <3>3, <3>4, <2>1, <1>10 DEF Draftable
  <2>3. ASSUME policyInFlight[q].op = "move" PROVE MoveSound(policyInFlight[q])'
    <3>1. policyInFlight[q].stage \in Stages
      BY <2>3 DEF PolicyInv, PolicyTypeOK, NoPolicyRequest, SaveIntent, MoveIntent
    <3>2. policyInFlight[q].stage # i.stage \/ policyInFlight[q].version # i.version
      BY <2>3, <1>1 DEF PolicyInv, PoliciesLocked
    <3> QED BY <3>1, <3>2, <2>3, <2>1, <1>10, <1>11 DEF PolicyInv, PolicyMemory, MoveSound
  <2> QED BY <2>1, <2>2, <2>3 DEF SaveSound, MoveSound
<1>16. DraftIsLatest'
  <2> SUFFICES ASSUME NEW stage \in Stages, NEW v \in DOMAIN policies'[stage],
                      policies'[stage][v].status = "DRAFT"
               PROVE  v = Len(policies'[stage])
    BY DEF DraftIsLatest
  <2>1. stage # i.stage \/ v # i.version
    BY <1>2, <1>5, <1>11 DEF Allowed
  <2> QED BY <2>1, <1>10, <1>11 DEF PolicyInv, DraftIsLatest
<1>17. ApprovedByAnother'
  <2> SUFFICES ASSUME NEW stage \in Stages, NEW v \in DOMAIN policies'[stage],
                      policies'[stage][v].status # "DRAFT"
               PROVE  policies'[stage][v].approver \in Editors \ {policies'[stage][v].author}
    BY DEF ApprovedByAnother
  <2>1. CASE stage # i.stage \/ v # i.version
    BY <2>1, <1>10, <1>11 DEF PolicyInv, ApprovedByAnother
  <2>2. CASE stage = i.stage /\ v = i.version /\ i.target = "APPROVED"
    BY <2>2, <1>1, <1>2, <1>5, <1>11
  <2>3. CASE stage = i.stage /\ v = i.version /\ i.target # "APPROVED"
    <3>1. old[i.version].status # "DRAFT"
      BY <2>3, <1>2 DEF Allowed
    <3>2. old[i.version].approver \in Editors \ {old[i.version].author}
      BY <3>1, <1>1, <1>2 DEF PolicyInv, ApprovedByAnother
    <3> QED BY <3>2, <2>3, <1>2, <1>5, <1>11
  <2> QED BY <2>1, <2>2, <2>3
<1> QED
  BY <1>9, <1>13, <1>14, <1>15, <1>16, <1>17 DEF PolicyInv

LEMMA AbortPolicyKeeps ==
  ASSUME PolicyInv, NEW r \in PolicyRequests, AbortPolicy(r)
  PROVE  PolicyInv' /\ PolicyKept
<1>1. policies' = policies /\ EndPolicy(r)
  BY DEF AbortPolicy
<1>2. PolicyTypeOK' /\ PoliciesLocked'
  BY <1>1, PolicyForget DEF PolicyInv, PolicyTypeOK
<1>3. PolicyMemory'
  BY <1>1, PolicyForget DEF PolicyInv, PolicyMemory, SaveSound, MoveSound, Draftable
<1>4. (DraftIsLatest /\ ApprovedByAnother)' /\ PolicyKept
  BY <1>1 DEF PolicyInv, DraftIsLatest, ApprovedByAnother, PolicyKept, VersionKept
<1> QED
  BY <1>2, <1>3, <1>4 DEF PolicyInv

\* Every step of ClosurePolicies keeps its invariant, and every version.
LEMMA PolicyStep == PolicyInv /\ [PolicyNext]_policyVars => PolicyInv' /\ PolicyKept
<1> SUFFICES ASSUME PolicyInv, [PolicyNext]_policyVars PROVE PolicyInv' /\ PolicyKept
  OBVIOUS
<1>1. CASE UNCHANGED policyVars
  BY <1>1 DEF policyVars, PolicyInv, PolicyTypeOK, PoliciesLocked, PolicyMemory, SaveSound, MoveSound,
              Draftable, DraftIsLatest, ApprovedByAnother, PolicyKept, VersionKept
<1>2. ASSUME NEW r \in PolicyRequests, ReadLatest(r) PROVE PolicyInv' /\ PolicyKept
  BY <1>2, ReadLatestKeeps
<1>3. ASSUME NEW r \in PolicyRequests, CommitVersion(r) PROVE PolicyInv' /\ PolicyKept
  BY <1>3, CommitVersionKeeps
<1>4. ASSUME NEW r \in PolicyRequests, ReadPolicy(r) PROVE PolicyInv' /\ PolicyKept
  BY <1>4, ReadPolicyKeeps
<1>5. ASSUME NEW r \in PolicyRequests, RetireOthers(r) PROVE PolicyInv' /\ PolicyKept
  BY <1>5, RetireOthersKeeps
<1>6. ASSUME NEW r \in PolicyRequests, CommitMove(r) PROVE PolicyInv' /\ PolicyKept
  BY <1>6, CommitMoveKeeps
<1>7. ASSUME NEW r \in PolicyRequests, AbortPolicy(r) PROVE PolicyInv' /\ PolicyKept
  BY <1>7, AbortPolicyKeeps
<1> QED
  BY <1>1, <1>2, <1>3, <1>4, <1>5, <1>6, <1>7 DEF PolicyNext

-------------------------------------------------------------------------------
(* Documents.                                                                  *)

\* No two uploads are of one document.
UploadsDistinct ==
  \A q, r \in DocumentRequests :
    /\ q # r
    /\ documentInFlight[q].op \in Uploading
    /\ documentInFlight[r].op \in Uploading
    => documentInFlight[q].document # documentInFlight[r].document

UploadSound(i) ==
  /\ i.op = "started" => i.document \notin Uploaded \cup files
  /\ i.op = "stored" => i.document \in files \ Uploaded
  /\ i.op = "failed" => i.document \notin Uploaded \/ i.document \in unanswered

VerifySound(i) ==
  i.op = "verify" =>
    /\ i.document \in Uploaded
    /\ documents[i.document].uploader # i.user
    /\ documents[i.document].scan # "PENDING"

DocumentMemory ==
  \A r \in DocumentRequests : UploadSound(documentInFlight[r]) /\ VerifySound(documentInFlight[r])

DocumentInv ==
  /\ DocumentTypeOK /\ UploadsDistinct /\ DocumentMemory
  /\ FilesAccounted /\ VerdictsIndependent

\* A document keeps its type and place, and a judged one stays judged.
DocumentKept ==
  \A d \in Uploaded :
    /\ d \in Uploaded'
    /\ documents'[d].type = documents[d].type
    /\ documents'[d].stop = documents[d].stop
    /\ documents'[d].uploader = documents[d].uploader
    /\ documents[d].scan # "PENDING" => documents'[d].scan # "PENDING"
    /\ Judged(d) => Judged(d)'

\* What a request in flight remembers.
LEMMA DocumentMemoryTypes ==
  ASSUME DocumentTypeOK, NEW r \in DocumentRequests
  PROVE  /\ documentInFlight[r].op \in Uploading => documentInFlight[r] \in UploadIntent
         /\ documentInFlight[r].op = "verify" => documentInFlight[r] \in VerifyIntent
  BY DEF DocumentTypeOK, NoDocumentRequest, UploadIntent, VerifyIntent, Uploading

LEMMA DocumentInitInv == DocumentInit => DocumentInv
<1> SUFFICES ASSUME DocumentInit PROVE DocumentInv
  OBVIOUS
<1>1. Uploaded = {}
  BY DEF DocumentInit, Uploaded
<1>2. DocumentTypeOK
  BY DEF DocumentInit, DocumentTypeOK
<1>3. UploadsDistinct /\ DocumentMemory
  BY DEF DocumentInit, UploadsDistinct, DocumentMemory, UploadSound, VerifySound, NoDocumentRequest,
         Uploading
<1>4. FilesAccounted /\ VerdictsIndependent
  BY <1>1 DEF FilesAccounted, VerdictsIndependent, DocumentInit
<1> QED
  BY <1>2, <1>3, <1>4 DEF DocumentInv

\* A step that writes no row and at most one request's memory: it is enough
\* that this memory is sound.
LEMMA DocumentSame ==
  ASSUME DocumentInv, documents' = documents
  PROVE  Uploaded' = Uploaded /\ VerdictsIndependent' /\ DocumentKept
  BY DEF DocumentInv, Uploaded, VerdictsIndependent, Judged, DocumentKept

LEMMA ReadReplacedKeeps ==
  ASSUME DocumentInv, NEW r \in DocumentRequests, ReadReplaced(r)
  PROVE  DocumentInv' /\ DocumentKept
<1> PICK d \in DocumentIds, user \in Staff, type \in DocumentTypes, stop \in Places,
         replaces \in Uploaded \cup {NoDocument} :
      /\ Fresh(d)
      /\ BeginDocument(r,
           [op |-> "started", document |-> d, type |-> type, stop |-> stop, user |-> user,
            version |-> IF replaces = NoDocument THEN 1 ELSE documents[replaces].version + 1,
            replaces |-> replaces])
      /\ UNCHANGED <<documents, files, crashed, unanswered>>
  BY DEF ReadReplaced
<1> DEFINE number == IF replaces = NoDocument THEN 1 ELSE documents[replaces].version + 1
           i == [op |-> "started", document |-> d, type |-> type, stop |-> stop, user |-> user,
                 version |-> number, replaces |-> replaces]
<1>1. number \in Nat \ {0}
  BY DEF DocumentInv, DocumentTypeOK, Uploaded, DocumentRow, Absent
<1>2. i \in UploadIntent
  <2>1. replaces \in DocumentIds \cup {NoDocument}
    BY DEF Uploaded
  <2> HIDE DEF number
  <2> QED BY <1>1, <2>1 DEF UploadIntent
<1>3. /\ documentInFlight' = [documentInFlight EXCEPT ![r] = i]
      /\ documentInFlight[r].op = "idle"
      /\ i.op = "started" /\ i.document = d
  BY DEF BeginDocument, NoDocumentRequest
<1> HIDE DEF i
<1>4. /\ documentInFlight'[r] = i
      /\ \A q \in DocumentRequests : q # r => documentInFlight'[q] = documentInFlight[q]
  BY <1>3 DEF DocumentInv, DocumentTypeOK
<1>5. DocumentTypeOK'
  BY <1>2, <1>3 DEF DocumentInv, DocumentTypeOK
<1>6. UploadsDistinct'
  BY <1>3, <1>4 DEF DocumentInv, UploadsDistinct, Fresh
<1>7. DocumentMemory'
  <2> SUFFICES ASSUME NEW q \in DocumentRequests
               PROVE  UploadSound(documentInFlight[q])' /\ VerifySound(documentInFlight[q])'
    BY DEF DocumentMemory
  <2>1. CASE q = r
    BY <2>1, <1>3, <1>4, DocumentSame DEF UploadSound, VerifySound, Fresh
  <2>2. CASE q # r
    BY <2>2, <1>4, DocumentSame DEF UploadSound, VerifySound, DocumentInv, DocumentMemory
  <2> QED BY <2>1, <2>2
<1>8. FilesAccounted'
  BY <1>3, <1>4, DocumentSame DEF DocumentInv, FilesAccounted, Readable, Uploading
<1> QED
  BY <1>5, <1>6, <1>7, <1>8, DocumentSame DEF DocumentInv

LEMMA PutKeeps ==
  ASSUME DocumentInv, NEW r \in DocumentRequests, Put(r)
  PROVE  DocumentInv' /\ DocumentKept
<1> DEFINE i == documentInFlight[r]
           j == [i EXCEPT !.op = "stored"]
<1>1. /\ i.op = "started" /\ i \in UploadIntent
      /\ files' = files \cup {i.document}
      /\ documentInFlight' = [documentInFlight EXCEPT ![r] = j]
      /\ UNCHANGED <<documents, crashed, unanswered>>
  BY DocumentMemoryTypes DEF Put, DocumentInv, Uploading
<1>2. j \in UploadIntent /\ j.op = "stored" /\ j.document = i.document
  BY <1>1 DEF UploadIntent
<1> HIDE DEF j
<1>3. /\ documentInFlight'[r] = j
      /\ \A q \in DocumentRequests : q # r => documentInFlight'[q] = documentInFlight[q]
  BY <1>1 DEF DocumentInv, DocumentTypeOK
<1>4. i.document \in DocumentIds /\ i.document \notin Uploaded
  BY <1>1 DEF UploadIntent, DocumentInv, DocumentMemory, UploadSound
<1>5. DocumentTypeOK'
  BY <1>1, <1>2, <1>4 DEF DocumentInv, DocumentTypeOK
<1>6. UploadsDistinct'
  BY <1>1, <1>2, <1>3 DEF DocumentInv, UploadsDistinct, Uploading
<1>7. DocumentMemory'
  <2> SUFFICES ASSUME NEW q \in DocumentRequests
               PROVE  UploadSound(documentInFlight[q])' /\ VerifySound(documentInFlight[q])'
    BY DEF DocumentMemory
  <2>1. CASE q = r
    BY <2>1, <1>1, <1>2, <1>3, <1>4, DocumentSame DEF UploadSound, VerifySound
  <2>2. CASE q # r
    <3>1. documentInFlight[q].op = "started" => documentInFlight[q].document # i.document
      BY <2>2, <1>1 DEF DocumentInv, UploadsDistinct, Uploading
    <3> QED
      BY <3>1, <2>2, <1>1, <1>3, DocumentSame DEF UploadSound, VerifySound, DocumentInv, DocumentMemory
  <2> QED BY <2>1, <2>2
<1>8. FilesAccounted'
  <2>1. \A d \in Uploaded' \ unanswered' : Readable(d)'
    BY <1>1, DocumentSame DEF DocumentInv, FilesAccounted, Readable
  <2>2. ASSUME NEW d \in files', d \notin Uploaded' \cup crashed'
        PROVE  \E q \in DocumentRequests :
                 documentInFlight'[q].op \in Uploading /\ documentInFlight'[q].document = d
    <3>1. CASE d = i.document
      BY <3>1, <1>2, <1>3 DEF Uploading
    <3>2. CASE d # i.document
      BY <3>2, <2>2, <1>1, <1>2, <1>3, DocumentSame DEF DocumentInv, FilesAccounted, Uploading
    <3> QED BY <3>1, <3>2
  <2> QED BY <2>1, <2>2 DEF FilesAccounted
<1> QED
  BY <1>1, <1>5, <1>6, <1>7, <1>8, DocumentSame DEF DocumentInv

\* The row of an upload is a new one.
LEMMA RowAdded ==
  ASSUME DocumentInv, NEW i \in UploadIntent, i.document \notin Uploaded,
         documents' = [documents EXCEPT ![i.document] = NewRow(i)]
  PROVE  /\ documents' \in [DocumentIds -> DocumentRow \cup {Absent}]
         /\ Uploaded' = Uploaded \cup {i.document}
         /\ \A d \in Uploaded : documents'[d] = documents[d]
         /\ VerdictsIndependent' /\ DocumentKept
<1>1. NewRow(i) \in DocumentRow /\ i.document \in DocumentIds /\ NewRow(i).verification = "PENDING"
  BY DEF NewRow, UploadIntent, DocumentRow, Scan, Verification
<1>2. NewRow(i) # Absent
  BY <1>1 DEF DocumentRow, Absent
<1>3. /\ documents'[i.document] = NewRow(i)
      /\ \A d \in DocumentIds : d # i.document => documents'[d] = documents[d]
  BY <1>1 DEF DocumentInv, DocumentTypeOK
<1>4. documents' \in [DocumentIds -> DocumentRow \cup {Absent}]
  BY <1>1 DEF DocumentInv, DocumentTypeOK
<1>5. Uploaded' = Uploaded \cup {i.document}
  BY <1>1, <1>2, <1>3 DEF Uploaded
<1>6. \A d \in Uploaded : d \in DocumentIds /\ documents'[d] = documents[d]
  BY <1>3 DEF Uploaded
<1>7. VerdictsIndependent'
  BY <1>1, <1>3, <1>5, <1>6 DEF DocumentInv, VerdictsIndependent, Judged
<1>8. DocumentKept
  BY <1>5, <1>6 DEF DocumentKept, Judged
<1> QED
  BY <1>4, <1>5, <1>6, <1>7, <1>8

\* A request that stops remembering.
LEMMA DocumentForget ==
  ASSUME DocumentInv, NEW r \in DocumentRequests, EndDocument(r)
  PROVE  /\ documentInFlight' \in
              [DocumentRequests -> {NoDocumentRequest} \cup UploadIntent \cup VerifyIntent]
         /\ UploadsDistinct'
         /\ documentInFlight'[r].op = "idle"
         /\ \A q \in DocumentRequests : q # r => documentInFlight'[q] = documentInFlight[q]
<1>1. /\ documentInFlight'[r] = NoDocumentRequest
      /\ \A q \in DocumentRequests : q # r => documentInFlight'[q] = documentInFlight[q]
      /\ documentInFlight' \in
              [DocumentRequests -> {NoDocumentRequest} \cup UploadIntent \cup VerifyIntent]
  BY DEF EndDocument, DocumentInv, DocumentTypeOK
<1> QED
  BY <1>1 DEF NoDocumentRequest, DocumentInv, UploadsDistinct, Uploading

LEMMA CommitUploadKeeps ==
  ASSUME DocumentInv, NEW r \in DocumentRequests, CommitUpload(r)
  PROVE  DocumentInv' /\ DocumentKept
<1> DEFINE i == documentInFlight[r]
<1>1. /\ i.op = "stored" /\ i \in UploadIntent /\ EndDocument(r)
      /\ documents' = [documents EXCEPT ![i.document] = NewRow(i)]
      /\ UNCHANGED <<files, crashed, unanswered>>
  BY DocumentMemoryTypes DEF CommitUpload, DocumentInv, Uploading
<1>2. i.document \in files \ Uploaded
  BY <1>1 DEF DocumentInv, DocumentMemory, UploadSound
<1>3. /\ documents' \in [DocumentIds -> DocumentRow \cup {Absent}]
      /\ Uploaded' = Uploaded \cup {i.document}
      /\ \A d \in Uploaded : documents'[d] = documents[d]
      /\ VerdictsIndependent' /\ DocumentKept
  BY <1>1, <1>2, RowAdded
<1>4. DocumentTypeOK' /\ UploadsDistinct'
  BY <1>1, <1>3, DocumentForget DEF DocumentInv, DocumentTypeOK
<1>5. DocumentMemory'
  <2> SUFFICES ASSUME NEW q \in DocumentRequests, q # r
               PROVE  UploadSound(documentInFlight[q])' /\ VerifySound(documentInFlight[q])'
    BY <1>1, DocumentForget DEF DocumentMemory, UploadSound, VerifySound
  <2>1. documentInFlight'[q] = documentInFlight[q]
    BY <1>1, DocumentForget
  <2>2. documentInFlight[q].op \in Uploading => documentInFlight[q].document # i.document
    BY <1>1 DEF DocumentInv, UploadsDistinct, Uploading
  <2>3. UploadSound(documentInFlight[q])'
    BY <2>1, <2>2, <1>1, <1>3 DEF DocumentInv, DocumentMemory, UploadSound, Uploading
  <2>4. VerifySound(documentInFlight[q])'
    BY <2>1, <1>3 DEF DocumentInv, DocumentMemory, VerifySound
  <2> QED BY <2>3, <2>4
<1>6. FilesAccounted'
  <2>1. \A d \in Uploaded' \ unanswered' : Readable(d)'
    BY <1>1, <1>2, <1>3 DEF DocumentInv, FilesAccounted, Readable
  <2>2. ASSUME NEW d \in files', d \notin Uploaded' \cup crashed'
        PROVE  \E q \in DocumentRequests :
                 documentInFlight'[q].op \in Uploading /\ documentInFlight'[q].document = d
    <3>1. PICK q \in DocumentRequests :
            documentInFlight[q].op \in Uploading /\ documentInFlight[q].document = d
      BY <2>2, <1>1, <1>3 DEF DocumentInv, FilesAccounted
    <3>2. q # r
      BY <3>1, <2>2, <1>3
    <3> QED BY <3>1, <3>2, <1>1, DocumentForget
  <2> QED BY <2>1, <2>2 DEF FilesAccounted
<1> QED
  BY <1>3, <1>4, <1>5, <1>6 DEF DocumentInv

LEMMA FailUploadKeeps ==
  ASSUME DocumentInv, NEW r \in DocumentRequests, FailUpload(r)
  PROVE  DocumentInv' /\ DocumentKept
<1> DEFINE i == documentInFlight[r]
           j == [i EXCEPT !.op = "failed"]
<1>1. /\ i.op = "stored" /\ i \in UploadIntent
      /\ documentInFlight' = [documentInFlight EXCEPT ![r] = j]
      /\ UNCHANGED <<documents, files, crashed, unanswered>>
  BY DocumentMemoryTypes DEF FailUpload, DocumentInv, Uploading
<1>2. j \in UploadIntent /\ j.op = "failed" /\ j.document = i.document
  BY <1>1 DEF UploadIntent
<1> HIDE DEF j
<1>3. /\ documentInFlight'[r] = j
      /\ \A q \in DocumentRequests : q # r => documentInFlight'[q] = documentInFlight[q]
  BY <1>1 DEF DocumentInv, DocumentTypeOK
<1>4. i.document \notin Uploaded
  BY <1>1 DEF DocumentInv, DocumentMemory, UploadSound
<1>5. DocumentTypeOK'
  BY <1>1, <1>2 DEF DocumentInv, DocumentTypeOK
<1>6. UploadsDistinct'
  BY <1>1, <1>2, <1>3 DEF DocumentInv, UploadsDistinct, Uploading
<1>7. DocumentMemory'
  BY <1>1, <1>2, <1>3, <1>4, DocumentSame
     DEF DocumentInv, DocumentMemory, UploadSound, VerifySound
<1>8. FilesAccounted'
  <2>1. \A q \in DocumentRequests : documentInFlight[q].op \in Uploading =>
          documentInFlight'[q].op \in Uploading /\ documentInFlight'[q].document = documentInFlight[q].document
    BY <1>2, <1>3 DEF Uploading
  <2> QED
    BY <2>1, <1>1, DocumentSame DEF DocumentInv, FilesAccounted, Readable
<1> QED
  BY <1>1, <1>5, <1>6, <1>7, <1>8, DocumentSame DEF DocumentInv

LEMMA LoseAnswerKeeps ==
  ASSUME DocumentInv, NEW r \in DocumentRequests, LoseAnswer(r)
  PROVE  DocumentInv' /\ DocumentKept
<1> DEFINE i == documentInFlight[r]
           j == [i EXCEPT !.op = "failed"]
<1>1. /\ i.op = "stored" /\ i \in UploadIntent
      /\ documents' = [documents EXCEPT ![i.document] = NewRow(i)]
      /\ unanswered' = unanswered \cup {i.document}
      /\ documentInFlight' = [documentInFlight EXCEPT ![r] = j]
      /\ UNCHANGED <<files, crashed>>
  BY DocumentMemoryTypes DEF LoseAnswer, DocumentInv, Uploading
<1>2. /\ j \in UploadIntent /\ j.op = "failed" /\ j.document = i.document
      /\ i.document \in DocumentIds
  BY <1>1 DEF UploadIntent
<1> HIDE DEF j
<1>3. /\ documentInFlight'[r] = j
      /\ \A q \in DocumentRequests : q # r => documentInFlight'[q] = documentInFlight[q]
  BY <1>1 DEF DocumentInv, DocumentTypeOK
<1>4. i.document \in files \ Uploaded
  BY <1>1 DEF DocumentInv, DocumentMemory, UploadSound
<1>5. /\ documents' \in [DocumentIds -> DocumentRow \cup {Absent}]
      /\ Uploaded' = Uploaded \cup {i.document}
      /\ \A d \in Uploaded : documents'[d] = documents[d]
      /\ VerdictsIndependent' /\ DocumentKept
  BY <1>1, <1>4, RowAdded
<1>6. DocumentTypeOK'
  BY <1>1, <1>2, <1>5 DEF DocumentInv, DocumentTypeOK
<1>7. UploadsDistinct'
  BY <1>1, <1>2, <1>3 DEF DocumentInv, UploadsDistinct, Uploading
<1>8. DocumentMemory'
  <2> SUFFICES ASSUME NEW q \in DocumentRequests
               PROVE  UploadSound(documentInFlight[q])' /\ VerifySound(documentInFlight[q])'
    BY DEF DocumentMemory
  <2>1. CASE q = r
    BY <2>1, <1>1, <1>2, <1>3 DEF UploadSound, VerifySound
  <2>2. CASE q # r
    <3>1. documentInFlight[q].op \in Uploading => documentInFlight[q].document # i.document
      BY <2>2, <1>1 DEF DocumentInv, UploadsDistinct, Uploading
    <3>2. UploadSound(documentInFlight[q])'
      BY <3>1, <2>2, <1>1, <1>3, <1>5 DEF DocumentInv, DocumentMemory, UploadSound, Uploading
    <3>3. VerifySound(documentInFlight[q])'
      BY <2>2, <1>3, <1>5 DEF DocumentInv, DocumentMemory, VerifySound
    <3> QED BY <3>2, <3>3
  <2> QED BY <2>1, <2>2
<1>9. FilesAccounted'
  <2>1. \A q \in DocumentRequests : documentInFlight[q].op \in Uploading =>
          documentInFlight'[q].op \in Uploading /\ documentInFlight'[q].document = documentInFlight[q].document
    BY <1>2, <1>3 DEF Uploading
  <2> QED
    BY <2>1, <1>1, <1>5 DEF DocumentInv, FilesAccounted, Readable
<1> QED
  BY <1>5, <1>6, <1>7, <1>8, <1>9 DEF DocumentInv

LEMMA DeleteFileKeeps ==
  ASSUME DocumentInv, NEW r \in DocumentRequests, DeleteFile(r)
  PROVE  DocumentInv' /\ DocumentKept
<1> DEFINE i == documentInFlight[r]
<1>1. /\ i.op = "failed" /\ i \in UploadIntent /\ EndDocument(r)
      /\ files' = files \ {i.document}
      /\ UNCHANGED <<documents, crashed, unanswered>>
  BY DocumentMemoryTypes DEF DeleteFile, DocumentInv, Uploading
<1>2. i.document \notin Uploaded \/ i.document \in unanswered
  BY <1>1 DEF DocumentInv, DocumentMemory, UploadSound
<1>3. DocumentTypeOK' /\ UploadsDistinct'
  BY <1>1, DocumentForget DEF DocumentInv, DocumentTypeOK
<1>4. DocumentMemory'
  <2> SUFFICES ASSUME NEW q \in DocumentRequests, q # r
               PROVE  UploadSound(documentInFlight[q])' /\ VerifySound(documentInFlight[q])'
    BY <1>1, DocumentForget DEF DocumentMemory, UploadSound, VerifySound
  <2>1. documentInFlight'[q] = documentInFlight[q]
    BY <1>1, DocumentForget
  <2>2. documentInFlight[q].op \in Uploading => documentInFlight[q].document # i.document
    BY <1>1 DEF DocumentInv, UploadsDistinct, Uploading
  <2> QED
    BY <2>1, <2>2, <1>1, DocumentSame
       DEF DocumentInv, DocumentMemory, UploadSound, VerifySound, Uploading
<1>5. FilesAccounted'
  <2>1. \A d \in Uploaded' \ unanswered' : Readable(d)'
    BY <1>1, <1>2, DocumentSame DEF DocumentInv, FilesAccounted, Readable
  <2>2. ASSUME NEW d \in files', d \notin Uploaded' \cup crashed'
        PROVE  \E q \in DocumentRequests :
                 documentInFlight'[q].op \in Uploading /\ documentInFlight'[q].document = d
    <3>1. PICK q \in DocumentRequests :
            documentInFlight[q].op \in Uploading /\ documentInFlight[q].document = d
      BY <2>2, <1>1, DocumentSame DEF DocumentInv, FilesAccounted
    <3>2. q # r
      BY <3>1, <2>2, <1>1
    <3> QED BY <3>1, <3>2, <1>1, DocumentForget
  <2> QED BY <2>1, <2>2 DEF FilesAccounted
<1> QED
  BY <1>1, <1>3, <1>4, <1>5, DocumentSame DEF DocumentInv

LEMMA CrashUploadKeeps ==
  ASSUME DocumentInv, NEW r \in DocumentRequests, CrashUpload(r)
  PROVE  DocumentInv' /\ DocumentKept
<1> DEFINE i == documentInFlight[r]
<1>1. /\ i.op \in Uploading /\ i \in UploadIntent /\ EndDocument(r)
      /\ crashed' = crashed \cup {i.document}
      /\ files' \in {files, files \cup {i.document}}
      /\ i.op # "started" => files' = files
      /\ UNCHANGED <<documents, unanswered>>
  BY DocumentMemoryTypes DEF CrashUpload, DocumentInv
<1>2. i.document \in DocumentIds
  BY <1>1 DEF UploadIntent
<1>3. DocumentTypeOK' /\ UploadsDistinct'
  BY <1>1, <1>2, DocumentForget DEF DocumentInv, DocumentTypeOK
<1>4. DocumentMemory'
  <2> SUFFICES ASSUME NEW q \in DocumentRequests, q # r
               PROVE  UploadSound(documentInFlight[q])' /\ VerifySound(documentInFlight[q])'
    BY <1>1, DocumentForget DEF DocumentMemory, UploadSound, VerifySound
  <2>1. documentInFlight'[q] = documentInFlight[q]
    BY <1>1, DocumentForget
  <2>2. documentInFlight[q].op \in Uploading => documentInFlight[q].document # i.document
    BY <1>1 DEF DocumentInv, UploadsDistinct
  <2> QED
    BY <2>1, <2>2, <1>1, DocumentSame
       DEF DocumentInv, DocumentMemory, UploadSound, VerifySound, Uploading
<1>5. FilesAccounted'
  <2>1. \A d \in Uploaded' \ unanswered' : Readable(d)'
    BY <1>1, DocumentSame DEF DocumentInv, FilesAccounted, Readable
  <2>2. ASSUME NEW d \in files', d \notin Uploaded' \cup crashed'
        PROVE  \E q \in DocumentRequests :
                 documentInFlight'[q].op \in Uploading /\ documentInFlight'[q].document = d
    <3>1. PICK q \in DocumentRequests :
            documentInFlight[q].op \in Uploading /\ documentInFlight[q].document = d
      BY <2>2, <1>1, DocumentSame DEF DocumentInv, FilesAccounted
    <3>2. q # r
      BY <3>1, <2>2, <1>1
    <3> QED BY <3>1, <3>2, <1>1, DocumentForget
  <2> QED BY <2>1, <2>2 DEF FilesAccounted
<1> QED
  BY <1>1, <1>3, <1>4, <1>5, DocumentSame DEF DocumentInv

LEMMA ReadVerificationKeeps ==
  ASSUME DocumentInv, NEW r \in DocumentRequests, ReadVerification(r)
  PROVE  DocumentInv' /\ DocumentKept
<1> PICK d \in Uploaded, user \in Staff, verdict \in {"VERIFIED", "REJECTED"} :
      /\ Verifiable(d, user)
      /\ BeginDocument(r, [op |-> "verify", document |-> d, verdict |-> verdict, user |-> user])
      /\ UNCHANGED <<documents, files, crashed, unanswered>>
  BY DEF ReadVerification
<1> DEFINE i == [op |-> "verify", document |-> d, verdict |-> verdict, user |-> user]
<1>1. /\ i \in VerifyIntent /\ i.op = "verify" /\ i.document = d /\ i.user = user
      /\ documentInFlight' = [documentInFlight EXCEPT ![r] = i]
      /\ documentInFlight[r].op = "idle"
  BY DEF VerifyIntent, Uploaded, BeginDocument, NoDocumentRequest
<1> HIDE DEF i
<1>2. /\ documentInFlight'[r] = i
      /\ \A q \in DocumentRequests : q # r => documentInFlight'[q] = documentInFlight[q]
  BY <1>1 DEF DocumentInv, DocumentTypeOK
<1>3. DocumentTypeOK'
  BY <1>1 DEF DocumentInv, DocumentTypeOK
<1>4. UploadsDistinct'
  BY <1>1, <1>2 DEF DocumentInv, UploadsDistinct, Uploading
<1>5. DocumentMemory'
  <2> SUFFICES ASSUME NEW q \in DocumentRequests
               PROVE  UploadSound(documentInFlight[q])' /\ VerifySound(documentInFlight[q])'
    BY DEF DocumentMemory
  <2>1. CASE q = r
    BY <2>1, <1>1, <1>2, DocumentSame DEF UploadSound, VerifySound, Verifiable
  <2>2. CASE q # r
    BY <2>2, <1>2, DocumentSame DEF DocumentInv, DocumentMemory, UploadSound, VerifySound
  <2> QED BY <2>1, <2>2
<1>6. FilesAccounted'
  BY <1>1, <1>2, DocumentSame DEF DocumentInv, FilesAccounted, Readable, Uploading
<1> QED
  BY <1>3, <1>4, <1>5, <1>6, DocumentSame DEF DocumentInv

\* A row that keeps all but its verdict or its scan.
LEMMA RowWritten ==
  ASSUME DocumentInv, NEW d \in Uploaded, NEW row \in DocumentRow,
         documents' = [documents EXCEPT ![d] = row],
         row.type = documents[d].type, row.stop = documents[d].stop,
         row.uploader = documents[d].uploader, row.scan # "PENDING",
         \/ row.verifier \in Staff \ {row.uploader}
         \/ /\ row.verifier = documents[d].verifier
            /\ row.verification = documents[d].verification
  PROVE  /\ documents' \in [DocumentIds -> DocumentRow \cup {Absent}]
         /\ Uploaded' = Uploaded /\ VerdictsIndependent' /\ DocumentKept
<1>1. d \in DocumentIds /\ row # Absent
  BY DEF Uploaded, DocumentRow, Absent
<1>2. /\ documents'[d] = row
      /\ \A e \in DocumentIds : e # d => documents'[e] = documents[e]
  BY <1>1 DEF DocumentInv, DocumentTypeOK
<1>3. documents' \in [DocumentIds -> DocumentRow \cup {Absent}]
  BY <1>1 DEF DocumentInv, DocumentTypeOK
<1>4. Uploaded' = Uploaded
  BY <1>1, <1>2 DEF Uploaded
<1>5. \A e \in Uploaded : e # d => documents'[e] = documents[e]
  BY <1>2 DEF Uploaded
<1>6. Judged(d) => Judged(d)'
  BY <1>2 DEF Judged
<1>7. row.verification # "PENDING" => Judged(d)'
  BY <1>2 DEF Judged, DocumentInv, VerdictsIndependent
<1>8. VerdictsIndependent'
  BY <1>2, <1>4, <1>5, <1>7 DEF DocumentInv, VerdictsIndependent, Judged
<1>9. DocumentKept
  BY <1>2, <1>4, <1>5, <1>6 DEF DocumentKept, Judged
<1> QED
  BY <1>3, <1>4, <1>8, <1>9

\* Writing such rows leaves the rest of the invariant.
LEMMA RowWrittenRest ==
  ASSUME DocumentInv, Uploaded' = Uploaded, DocumentKept,
         UNCHANGED <<files, crashed, unanswered>>,
         \A q \in DocumentRequests :
           \/ documentInFlight'[q] = documentInFlight[q]
           \/ /\ documentInFlight[q].op = "verify"
              /\ documentInFlight'[q].op = "idle"
  PROVE  DocumentMemory' /\ FilesAccounted'
<1>1. DocumentMemory'
  <2> SUFFICES ASSUME NEW q \in DocumentRequests
               PROVE  UploadSound(documentInFlight[q])' /\ VerifySound(documentInFlight[q])'
    BY DEF DocumentMemory
  <2>1. CASE documentInFlight'[q] = documentInFlight[q]
    <3>1. UploadSound(documentInFlight[q])'
      BY <2>1 DEF DocumentInv, DocumentMemory, UploadSound
    <3>2. VerifySound(documentInFlight[q])'
      BY <2>1 DEF DocumentInv, DocumentMemory, VerifySound, DocumentKept
    <3> QED BY <3>1, <3>2
  <2>2. CASE documentInFlight'[q].op = "idle"
    BY <2>2 DEF UploadSound, VerifySound
  <2> QED BY <2>1, <2>2
<1>2. FilesAccounted'
  BY DEF DocumentInv, FilesAccounted, Readable, Uploading
<1> QED
  BY <1>1, <1>2

LEMMA CommitVerificationKeeps ==
  ASSUME DocumentInv, NEW r \in DocumentRequests, CommitVerification(r)
  PROVE  DocumentInv' /\ DocumentKept
<1> DEFINE i == documentInFlight[r]
           d == i.document
           row == [documents[d] EXCEPT !.verification = i.verdict, !.verifier = i.user]
<1>1. /\ i.op = "verify" /\ i \in VerifyIntent /\ EndDocument(r)
      /\ documents' = [documents EXCEPT ![d] = row]
      /\ UNCHANGED <<files, crashed, unanswered>>
  BY DocumentMemoryTypes DEF CommitVerification, DocumentInv
<1>2. /\ d \in Uploaded /\ documents[d] \in DocumentRow
      /\ documents[d].uploader # i.user /\ documents[d].scan # "PENDING"
  BY <1>1 DEF DocumentInv, DocumentMemory, VerifySound, DocumentTypeOK, Uploaded
<1>3. /\ row \in DocumentRow
      /\ row.type = documents[d].type /\ row.stop = documents[d].stop
      /\ row.uploader = documents[d].uploader /\ row.scan = documents[d].scan
      /\ row.verifier = i.user /\ i.user \in Staff
  BY <1>1, <1>2 DEF DocumentRow, VerifyIntent, Verification
<1> HIDE DEF row
<1>4. /\ documents' \in [DocumentIds -> DocumentRow \cup {Absent}]
      /\ Uploaded' = Uploaded /\ VerdictsIndependent' /\ DocumentKept
  BY <1>1, <1>2, <1>3, RowWritten
<1>5. DocumentTypeOK' /\ UploadsDistinct'
  BY <1>1, <1>4, DocumentForget DEF DocumentInv, DocumentTypeOK
<1>6. DocumentMemory' /\ FilesAccounted'
  BY <1>1, <1>4, DocumentForget, RowWrittenRest
<1> QED
  BY <1>4, <1>5, <1>6 DEF DocumentInv

LEMMA AbortVerificationKeeps ==
  ASSUME DocumentInv, NEW r \in DocumentRequests, AbortVerification(r)
  PROVE  DocumentInv' /\ DocumentKept
<1>1. /\ documentInFlight[r].op = "verify" /\ EndDocument(r)
      /\ UNCHANGED <<documents, files, crashed, unanswered>>
  BY DEF AbortVerification
<1>2. DocumentTypeOK' /\ UploadsDistinct'
  BY <1>1, DocumentForget DEF DocumentInv, DocumentTypeOK
<1>3. DocumentMemory' /\ FilesAccounted'
  BY <1>1, DocumentSame, DocumentForget, RowWrittenRest
<1> QED
  BY <1>1, <1>2, <1>3, DocumentSame DEF DocumentInv

LEMMA RecordScanKeeps ==
  ASSUME DocumentInv, RecordScan
  PROVE  DocumentInv' /\ DocumentKept
<1> PICK d \in Uploaded, result \in Scan \ {"PENDING"} :
      /\ documents' = [documents EXCEPT ![d] = [documents[d] EXCEPT !.scan = result]]
      /\ UNCHANGED <<files, crashed, unanswered, documentInFlight>>
  BY DEF RecordScan
<1> DEFINE row == [documents[d] EXCEPT !.scan = result]
<1>1. documents[d] \in DocumentRow
  BY DEF DocumentInv, DocumentTypeOK, Uploaded
<1>2. /\ row \in DocumentRow
      /\ row.type = documents[d].type /\ row.stop = documents[d].stop
      /\ row.uploader = documents[d].uploader /\ row.scan = result
      /\ row.verifier = documents[d].verifier /\ row.verification = documents[d].verification
  BY <1>1 DEF DocumentRow
<1> HIDE DEF row
<1>3. documents' = [documents EXCEPT ![d] = row]
  BY DEF row
<1>4. /\ documents' \in [DocumentIds -> DocumentRow \cup {Absent}]
      /\ Uploaded' = Uploaded /\ VerdictsIndependent' /\ DocumentKept
  BY <1>2, <1>3, RowWritten
<1>5. DocumentTypeOK' /\ UploadsDistinct'
  BY <1>4 DEF DocumentInv, DocumentTypeOK, UploadsDistinct
<1>6. DocumentMemory' /\ FilesAccounted'
  BY <1>4, RowWrittenRest
<1> QED
  BY <1>4, <1>5, <1>6 DEF DocumentInv

\* Every step of Documents keeps its invariant, and what is known of a document.
LEMMA DocumentStep == DocumentInv /\ [DocumentNext]_documentVars => DocumentInv' /\ DocumentKept
<1> SUFFICES ASSUME DocumentInv, [DocumentNext]_documentVars PROVE DocumentInv' /\ DocumentKept
  OBVIOUS
<1>1. CASE UNCHANGED documentVars
  <2>1. UNCHANGED <<documents, files, crashed, unanswered, documentInFlight>>
    BY <1>1 DEF documentVars
  <2>2. DocumentTypeOK' /\ UploadsDistinct'
    BY <2>1 DEF DocumentInv, DocumentTypeOK, UploadsDistinct
  <2>3. DocumentMemory' /\ FilesAccounted'
    BY <2>1, DocumentSame, RowWrittenRest
  <2> QED BY <2>1, <2>2, <2>3, DocumentSame DEF DocumentInv
<1>2. ASSUME NEW r \in DocumentRequests,
             \/ ReadReplaced(r) \/ Put(r) \/ CommitUpload(r) \/ FailUpload(r) \/ LoseAnswer(r)
             \/ DeleteFile(r) \/ CrashUpload(r)
      PROVE  DocumentInv' /\ DocumentKept
  BY <1>2, ReadReplacedKeeps, PutKeeps, CommitUploadKeeps, FailUploadKeeps, LoseAnswerKeeps,
     DeleteFileKeeps, CrashUploadKeeps
<1>3. ASSUME NEW r \in DocumentRequests,
             ReadVerification(r) \/ CommitVerification(r) \/ AbortVerification(r)
      PROVE  DocumentInv' /\ DocumentKept
  BY <1>3, ReadVerificationKeeps, CommitVerificationKeeps, AbortVerificationKeeps
<1>4. CASE RecordScan
  BY <1>4, RecordScanKeeps
<1> QED
  BY <1>1, <1>2, <1>3, <1>4 DEF DocumentNext

-------------------------------------------------------------------------------
(* Closing a mission.                                                          *)

Evidence == {d \in Uploaded : Judged(d)}

\* What a closing transition may rely on: the version it read stays a version
\* that was activated, and the evidence it found stays evidence.
ClosingSound(i) ==
  i.op \in {"policy", "documents"} =>
    /\ i.stage \in Stages
    /\ i.version \in DOMAIN policies[i.stage]
    /\ policies[i.stage][i.version].status \in {"ACTIVE", "RETIRED"}
    /\ i.op = "documents" => Covered(policies[i.stage][i.version].requirements, i.seen, Evidence)

\* The same holds of the closing a kind of closing was passed by.
KindSound(kind) ==
  IF Passed(kind)
    THEN applied[kind].op = "documents" /\ applied[kind].stage[2] = kind /\ ClosingSound(applied[kind])
    ELSE applied[kind] = NoClosing

ClosingTypeOK ==
  /\ status \in {"DELIVERED", "OPERATIONALLY_CLOSED", "ACCOUNTING_READY"}
  /\ client \in Clients
  /\ stops \subseteq Stops
  /\ applied \in [Kinds -> {NoClosing} \cup ClosingIntent]
  /\ closing \in [ClosingRequests -> {NoClosing} \cup ClosingIntent]

ClosingInv ==
  /\ ClosingTypeOK
  /\ \A r \in ClosingRequests : ClosingSound(closing[r])
  /\ \A kind \in Kinds : KindSound(kind)

IInv == PolicyInv /\ DocumentInv /\ ClosingInv

\* A verified document was judged: what the closing finds is evidence.
LEMMA VerifiedIsEvidence == VerdictsIndependent => Verified \subseteq Evidence
  BY DEF VerdictsIndependent, Verified, Evidence

\* More evidence covers as much.
LEMMA CoveredBySuperset ==
  ASSUME NEW requirements, NEW seen, NEW less, NEW more, less \subseteq more,
         Covered(requirements, seen, less)
  PROVE  Covered(requirements, seen, more)
  BY DEF Covered

\* Steps that only let versions and documents gain keep what was covered.
LEMMA CoveredKept ==
  ASSUME DocumentKept, NEW requirements, NEW seen, Covered(requirements, seen, Evidence)
  PROVE  Covered(requirements, seen, Evidence)'
<1>1. \A d \in Evidence : /\ d \in Evidence'
                          /\ documents'[d].type = documents[d].type
                          /\ documents'[d].stop = documents[d].stop
  BY DEF DocumentKept, Evidence
<1> QED
  BY <1>1 DEF Covered

\* And an activated version stays one, with the requirements it had.
LEMMA VersionStays ==
  ASSUME PolicyKept, NEW stage \in Stages, NEW v \in DOMAIN policies[stage],
         policies[stage][v].status \in {"ACTIVE", "RETIRED"}
  PROVE  /\ v \in DOMAIN policies'[stage]
         /\ policies'[stage][v].status \in {"ACTIVE", "RETIRED"}
         /\ policies'[stage][v].requirements = policies[stage][v].requirements
  BY DEF PolicyKept, VersionKept, Allowed

\* What a closing remembers outlives the steps of the other two parts.
LEMMA ClosingSoundKept ==
  ASSUME PolicyKept, DocumentKept, NEW i \in {NoClosing} \cup ClosingIntent, ClosingSound(i)
  PROVE  ClosingSound(i)'
<1> SUFFICES ASSUME i.op \in {"policy", "documents"} PROVE ClosingSound(i)'
  BY DEF ClosingSound
<1>1. i.stage \in Stages
  BY DEF ClosingSound
<1>2. /\ i.version \in DOMAIN policies[i.stage]
      /\ policies[i.stage][i.version].status \in {"ACTIVE", "RETIRED"}
  BY DEF ClosingSound
<1>3. /\ i.version \in DOMAIN policies'[i.stage]
      /\ policies'[i.stage][i.version].status \in {"ACTIVE", "RETIRED"}
      /\ policies'[i.stage][i.version].requirements = policies[i.stage][i.version].requirements
  BY <1>1, <1>2, VersionStays
<1>4. ASSUME i.op = "documents"
      PROVE  Covered(policies[i.stage][i.version].requirements, i.seen, Evidence)'
  <2> DEFINE requirements == policies[i.stage][i.version].requirements
  <2>1. Covered(requirements, i.seen, Evidence)
    BY <1>4 DEF ClosingSound
  <2>2. requirements' = requirements
    BY <1>3
  <2> PICK q : q = requirements
    OBVIOUS
  <2>3. Covered(q, i.seen, Evidence)
    BY <2>1
  <2>4. Covered(q, i.seen, Evidence)'
    BY <2>3, CoveredKept
  <2>5. policies'[i.stage][i.version].requirements = q
    BY <2>2
  <2> QED
    BY <2>4, <2>5 DEF Covered
<1> QED
  BY <1>1, <1>3, <1>4 DEF ClosingSound

\* So does what is known of a kind of closing that no step passes.
LEMMA KindSoundKept ==
  ASSUME PolicyKept, DocumentKept, ClosingTypeOK, NEW kind \in Kinds, KindSound(kind),
         Passed(kind)' <=> Passed(kind), applied'[kind] = applied[kind]
  PROVE  KindSound(kind)'
<1>1. CASE ~Passed(kind)
  BY <1>1 DEF KindSound
<1>2. CASE Passed(kind)
  <2> PICK i : i = applied[kind]
    OBVIOUS
  <2>1. i \in {NoClosing} \cup ClosingIntent
    BY DEF ClosingTypeOK
  <2>2. i.op = "documents" /\ i.stage[2] = kind /\ ClosingSound(i)
    BY <1>2 DEF KindSound
  <2>3. ClosingSound(i)'
    BY <2>1, <2>2, ClosingSoundKept
  <2>4. ClosingSound(applied[kind])'
    BY <2>3 DEF ClosingSound
  <2> QED
    BY <1>2, <2>2, <2>4 DEF KindSound
<1> QED
  BY <1>1, <1>2

LEMMA ClosingInitInv == Init => ClosingInv
<1> SUFFICES ASSUME Init PROVE ClosingInv
  OBVIOUS
<1>1. ClosingTypeOK
  BY DEF Init, ClosingTypeOK
<1>2. \A r \in ClosingRequests : ClosingSound(closing[r])
  BY DEF Init, ClosingSound, NoClosing
<1>3. \A kind \in Kinds : KindSound(kind)
  BY DEF Init, KindSound, Passed, Kinds
<1> QED
  BY <1>1, <1>2, <1>3 DEF ClosingInv

\* A step that leaves the mission as it is keeps the invariant if it leaves
\* every request a memory that is sound.
LEMMA ClosingRemembers ==
  ASSUME ClosingInv, PolicyKept, DocumentKept,
         UNCHANGED <<status, applied>>, (client \in Clients /\ stops \subseteq Stops)',
         NEW r \in ClosingRequests, NEW i \in {NoClosing} \cup ClosingIntent,
         closing' = [closing EXCEPT ![r] = i], ClosingSound(i)'
  PROVE  ClosingInv'
<1>1. ClosingTypeOK'
  BY DEF ClosingInv, ClosingTypeOK
<1>2. ASSUME NEW q \in ClosingRequests PROVE ClosingSound(closing[q])'
  <2>1. CASE q = r
    <3>1. closing'[q] = i
      BY <2>1 DEF ClosingInv, ClosingTypeOK
    <3> QED BY <3>1 DEF ClosingSound
  <2>2. CASE q # r
    <3>1. closing'[q] = closing[q] /\ closing[q] \in {NoClosing} \cup ClosingIntent
      BY <2>2 DEF ClosingInv, ClosingTypeOK
    <3> DEFINE c == closing[q]
    <3>2. \A j \in {NoClosing} \cup ClosingIntent : ClosingSound(j) => ClosingSound(j)'
      BY ClosingSoundKept
    <3>3. ClosingSound(c)
      BY DEF ClosingInv
    <3> QED BY <3>1, <3>2, <3>3 DEF ClosingSound
  <2> QED BY <2>1, <2>2
<1>3. ASSUME NEW kind \in Kinds PROVE KindSound(kind)'
  <2>1. Passed(kind)' <=> Passed(kind)
    BY DEF Passed
  <2> QED BY <2>1, KindSoundKept DEF ClosingInv
<1> QED
  BY <1>1, <1>2, <1>3 DEF ClosingInv

\* Steps that touch no closing at all.
LEMMA ClosingUntouched ==
  ASSUME ClosingInv, PolicyKept, DocumentKept,
         UNCHANGED <<status, applied, closing>>, (client \in Clients /\ stops \subseteq Stops)'
  PROVE  ClosingInv'
<1>1. ClosingTypeOK'
  BY DEF ClosingInv, ClosingTypeOK
<1>2. ASSUME NEW q \in ClosingRequests PROVE ClosingSound(closing[q])'
  <2>1. closing'[q] = closing[q] /\ closing[q] \in {NoClosing} \cup ClosingIntent
    BY DEF ClosingInv, ClosingTypeOK
  <2>2. \A j \in {NoClosing} \cup ClosingIntent : ClosingSound(j) => ClosingSound(j)'
    BY ClosingSoundKept
  <2>3. ClosingSound(closing[q])
    BY DEF ClosingInv
  <2> QED BY <2>1, <2>2, <2>3 DEF ClosingSound
<1>3. ASSUME NEW kind \in Kinds PROVE KindSound(kind)'
  <2>1. Passed(kind)' <=> Passed(kind)
    BY DEF Passed
  <2> QED BY <2>1, KindSoundKept DEF ClosingInv
<1> QED
  BY <1>1, <1>2, <1>3 DEF ClosingInv

LEMMA ReadMissionKeeps ==
  ASSUME ClosingInv, PolicyKept, DocumentKept, NEW r \in ClosingRequests, ReadMission(r)
  PROVE  ClosingInv'
<1> PICK kind \in Kinds :
      /\ closing' = [closing EXCEPT ![r] =
           [op |-> "mission", stage |-> <<client, kind>>, seen |-> stops, version |-> Untested]]
      /\ UNCHANGED <<status, client, stops, applied>>
  BY DEF ReadMission
<1> DEFINE i == [op |-> "mission", stage |-> <<client, kind>>, seen |-> stops, version |-> Untested]
<1>1. i \in ClosingIntent /\ (client \in Clients /\ stops \subseteq Stops)'
  BY DEF ClosingIntent, Untested, ClosingInv, ClosingTypeOK
<1> PICK j : j = i
  OBVIOUS
<1>2. j \in {NoClosing} \cup ClosingIntent /\ j.op = "mission"
  BY <1>1
<1>3. ClosingSound(j)'
  BY <1>2 DEF ClosingSound
<1>4. closing' = [closing EXCEPT ![r] = j]
  OBVIOUS
<1> HIDE DEF i
<1> QED
  BY <1>1, <1>2, <1>3, <1>4, ClosingRemembers

LEMMA ReadActivePolicyKeeps ==
  ASSUME PolicyInv, ClosingInv, PolicyKept, DocumentKept, NEW r \in ClosingRequests,
         ReadActivePolicy(r)
  PROVE  ClosingInv'
<1> PICK i : i = closing[r]
  OBVIOUS
<1>1. /\ i \in ClosingIntent /\ i.op = "mission"
      /\ i.stage \in Stages /\ i.seen \subseteq Stops
      /\ UNCHANGED <<policies, status, applied>> /\ (client \in Clients /\ stops \subseteq Stops)'
  BY DEF ReadActivePolicy, ClosingInv, ClosingTypeOK, NoClosing, ClosingIntent, policyVars
<1> PICK version \in Active(i.stage) :
      closing' = [closing EXCEPT ![r] = [i EXCEPT !.op = "policy", !.version = version]]
  BY DEF ReadActivePolicy
<1>2. version \in DOMAIN policies[i.stage] /\ policies[i.stage][version].status = "ACTIVE"
  BY DEF Active
<1>3. version \in Nat
  BY <1>1, <1>2, SeqFacts DEF PolicyInv, PolicyTypeOK
<1> PICK j : j = [i EXCEPT !.op = "policy", !.version = version]
  OBVIOUS
<1>4. /\ j \in ClosingIntent /\ j.op = "policy" /\ j.stage = i.stage /\ j.version = version
  BY <1>1, <1>3 DEF ClosingIntent
<1>5. ClosingSound(j)'
  BY <1>1, <1>2, <1>4 DEF ClosingSound
<1> QED
  BY <1>1, <1>4, <1>5, ClosingRemembers

LEMMA ReadDocumentsKeeps ==
  ASSUME DocumentInv, ClosingInv, PolicyKept, DocumentKept, NEW r \in ClosingRequests,
         ReadDocuments(r)
  PROVE  ClosingInv'
<1> PICK i : i = closing[r]
  OBVIOUS
<1>1. /\ i \in ClosingIntent /\ i.op = "policy"
      /\ i.stage \in Stages /\ i.seen \subseteq Stops /\ i.version \in Nat
      /\ UNCHANGED <<policies, documents, status, applied>>
      /\ (client \in Clients /\ stops \subseteq Stops)'
  BY DEF ReadDocuments, ClosingSound, ClosingInv, ClosingTypeOK, NoClosing, ClosingIntent, policyVars, documentVars
<1>2. /\ Covered(policies[i.stage][i.version].requirements, i.seen, Verified)
      /\ closing' = [closing EXCEPT ![r] = [i EXCEPT !.op = "documents"]]
  BY DEF ReadDocuments
<1>3. /\ i.version \in DOMAIN policies[i.stage]
      /\ policies[i.stage][i.version].status \in {"ACTIVE", "RETIRED"}
  BY <1>1 DEF ClosingInv, ClosingSound
<1> PICK q : q = policies[i.stage][i.version].requirements
  OBVIOUS
<1>4. Covered(q, i.seen, Evidence)
  <2>1. Covered(q, i.seen, Verified) /\ Verified \subseteq Evidence
    BY <1>2, VerifiedIsEvidence DEF DocumentInv
  <2> QED BY <2>1 DEF Covered
<1>5. Covered(q, i.seen, Evidence)'
  BY <1>4, CoveredKept
<1> PICK j : j = [i EXCEPT !.op = "documents"]
  OBVIOUS
<1>6. /\ j \in ClosingIntent /\ j.op = "documents"
      /\ j.stage = i.stage /\ j.version = i.version /\ j.seen = i.seen
  BY <1>1 DEF ClosingIntent
<1>7. ClosingSound(j)'
  <2>1. /\ j.stage \in Stages
        /\ j.version \in DOMAIN policies'[j.stage]
        /\ policies'[j.stage][j.version].status \in {"ACTIVE", "RETIRED"}
        /\ policies'[j.stage][j.version].requirements = q
    BY <1>1, <1>3, <1>6
  <2>2. Covered(policies[j.stage][j.version].requirements, j.seen, Evidence)'
    BY <1>5, <1>6, <2>1 DEF Covered
  <2> QED BY <2>1, <2>2 DEF ClosingSound
<1> QED
  BY <1>1, <1>2, <1>6, <1>7, ClosingRemembers

LEMMA AbortClosingKeeps ==
  ASSUME ClosingInv, PolicyKept, DocumentKept, NEW r \in ClosingRequests, AbortClosing(r)
  PROVE  ClosingInv'
<1>1. ClosingSound(NoClosing)'
  BY DEF ClosingSound, NoClosing
<1>2. UNCHANGED <<status, applied>> /\ (client \in Clients /\ stops \subseteq Stops)'
  BY DEF AbortClosing, ClosingInv, ClosingTypeOK
<1>3. closing' = [closing EXCEPT ![r] = NoClosing]
  BY DEF AbortClosing, EndClosing
<1> QED
  BY <1>1, <1>2, <1>3, ClosingRemembers

\* Passing a stage applies the version the closing read, and nothing undoes
\* what the other stage was passed under.
LEMMA CommitClosingKeeps ==
  ASSUME ClosingInv, PolicyKept, DocumentKept, NEW r \in ClosingRequests, CommitClosing(r)
  PROVE  ClosingInv'
<1> PICK i : i = closing[r]
  OBVIOUS
<1>1. /\ i \in ClosingIntent /\ i.op = "documents"
      /\ ClosingSound(i)
  BY DEF CommitClosing, ClosingInv, ClosingTypeOK, NoClosing, ClosingIntent
<1> PICK k : k = i.stage[2]
  OBVIOUS
<1>k. k \in Kinds
  BY <1>1 DEF ClosingIntent
<1>2. /\ UNCHANGED <<policies, documents, client, stops>>
      /\ status = Before(k) /\ status' = Closed(k)
      /\ applied' = [applied EXCEPT ![k] = i]
      /\ closing' = [closing EXCEPT ![r] = NoClosing]
  BY DEF CommitClosing, EndClosing, policyVars, documentVars
<1>3. ClosingTypeOK'
  BY <1>1, <1>2, <1>k DEF ClosingInv, ClosingTypeOK, Closed
<1>4. ASSUME NEW q \in ClosingRequests PROVE ClosingSound(closing[q])'
  <2>1. CASE q = r
    <3>1. closing'[q] = NoClosing
      BY <1>2, <2>1 DEF ClosingInv, ClosingTypeOK
    <3> QED BY <3>1 DEF ClosingSound, NoClosing
  <2>2. CASE q # r
    <3>1. closing'[q] = closing[q] /\ closing[q] \in {NoClosing} \cup ClosingIntent
      BY <1>2, <2>2 DEF ClosingInv, ClosingTypeOK
    <3>2. \A j \in {NoClosing} \cup ClosingIntent : ClosingSound(j) => ClosingSound(j)'
      BY ClosingSoundKept
    <3>3. ClosingSound(closing[q])
      BY DEF ClosingInv
    <3> QED BY <3>1, <3>2, <3>3 DEF ClosingSound
  <2> QED BY <2>1, <2>2
<1>5. ASSUME NEW kind \in Kinds PROVE KindSound(kind)'
  <2>1. CASE kind = k
    <3>1. applied'[kind] = i
      BY <1>2, <2>1 DEF ClosingInv, ClosingTypeOK
    <3>2. Passed(kind)'
      BY <1>2, <2>1 DEF Passed, Closed, Kinds
    <3>3. ClosingSound(i)'
      BY <1>1, ClosingSoundKept
    <3>4. ClosingSound(applied[kind])'
      BY <3>1, <3>3 DEF ClosingSound
    <3> QED BY <1>1, <2>1, <3>1, <3>2, <3>4 DEF KindSound
  <2>2. CASE kind # k
    <3>1. applied'[kind] = applied[kind]
      BY <1>2, <2>2 DEF ClosingInv, ClosingTypeOK
    <3>2. Passed(kind)' <=> Passed(kind)
      <4>1. CASE k = "OPERATIONAL_CLOSURE"
        BY <1>2, <2>2, <4>1 DEF Passed, Closed, Before, Kinds
      <4>2. CASE k = "ACCOUNTING_READINESS"
        BY <1>2, <2>2, <4>2 DEF Passed, Closed, Before, Kinds
      <4> QED BY <1>k, <4>1, <4>2 DEF Kinds
    <3> QED BY <3>1, <3>2, KindSoundKept DEF ClosingInv
  <2> QED BY <2>1, <2>2
<1> QED
  BY <1>3, <1>4, <1>5 DEF ClosingInv

-------------------------------------------------------------------------------
(* The whole.                                                                  *)

LEMMA IInvInit == Init => IInv
<1> SUFFICES ASSUME Init PROVE IInv
  OBVIOUS
<1>1. PolicyInit /\ DocumentInit
  BY DEF Init
<1> QED
  BY <1>1, PolicyInitInv, DocumentInitInv, ClosingInitInv DEF IInv

LEMMA IInvStep == IInv /\ [Next]_vars => IInv' /\ PolicyKept
<1> SUFFICES ASSUME IInv, [Next]_vars PROVE IInv' /\ PolicyKept
  OBVIOUS
<1>1. [PolicyNext]_policyVars /\ [DocumentNext]_documentVars
  BY DEF Next, vars, ReadMission, ReadActivePolicy, ReadDocuments, CommitClosing, AbortClosing, AddStop,
     UpdateMission
<1>2. PolicyInv' /\ PolicyKept
  BY <1>1, PolicyStep DEF IInv
<1>3. DocumentInv' /\ DocumentKept
  BY <1>1, DocumentStep DEF IInv
<1>4. ClosingInv'
  <2>1. CASE UNCHANGED closureVars
    <3>1. UNCHANGED <<status, applied, closing>> /\ (client \in Clients /\ stops \subseteq Stops)'
      BY <2>1 DEF closureVars, IInv, ClosingInv, ClosingTypeOK
    <3> QED BY <3>1, <1>2, <1>3, ClosingUntouched DEF IInv
  <2>2. CASE AddStop \/ UpdateMission
    <3>1. UNCHANGED <<status, applied, closing>> /\ (client \in Clients /\ stops \subseteq Stops)'
      BY <2>2 DEF AddStop, UpdateMission, IInv, ClosingInv, ClosingTypeOK
    <3> QED BY <3>1, <1>2, <1>3, ClosingUntouched DEF IInv
  <2>3. ASSUME NEW r \in ClosingRequests,
               \/ ReadMission(r) \/ ReadActivePolicy(r) \/ ReadDocuments(r)
               \/ CommitClosing(r) \/ AbortClosing(r)
        PROVE  ClosingInv'
    BY <2>3, <1>2, <1>3, ReadMissionKeeps, ReadActivePolicyKeeps, ReadDocumentsKeeps,
       CommitClosingKeeps, AbortClosingKeeps DEF IInv
  <2> QED BY <2>1, <2>2, <2>3 DEF Next, vars
<1> QED
  BY <1>2, <1>3, <1>4 DEF IInv

\* The inductive invariant of the closing of a mission.
THEOREM InductiveInvariant == Spec => []IInv
<1>1. IInv /\ [Next]_vars => IInv'
  BY IInvStep
<1> QED
  BY IInvInit, <1>1, PTL DEF Spec

\* Every value the three modules keep has its type, whatever overlaps.
THEOREM TypesSafe == Spec => []TypeOK
<1>1. IInv => TypeOK
  BY DEF IInv, PolicyInv, DocumentInv, ClosingInv, ClosingTypeOK, TypeOK
<1> QED
  BY <1>1, InductiveInvariant, PTL

\* Only the newest version of a stage is ever a draft: ClosurePoliciesService
\* saves versions under one lock and moves them under another.
THEOREM DraftsSafe == Spec => []DraftIsLatest
<1>1. IInv => DraftIsLatest
  BY DEF IInv, PolicyInv
<1> QED
  BY <1>1, InductiveInvariant, PTL

\* Rows and files of DocumentsService.upload agree, but for the uploads that
\* crashed and those whose commit was never answered.
THEOREM FilesSafe == Spec => []FilesAccounted
<1>1. IInv => FilesAccounted
  BY DEF IInv, DocumentInv
<1> QED
  BY <1>1, InductiveInvariant, PTL

\* MissionsService.transition closes a mission only under a version of its
\* client's policy that another user than its author approved and somebody
\* activated, although the mission's client changes meanwhile.
THEOREM ClosingLawful == Spec => []ClosedUnderPolicy
<1>1. IInv => ClosedUnderPolicy
  BY DEF IInv, PolicyInv, ClosingInv, KindSound, ClosingSound, NoClosing, ClosedUnderPolicy
<1> QED
  BY <1>1, InductiveInvariant, PTL

\* And only on evidence: each requirement of that version is backed by a
\* document that another user than the uploader judged after a scan.
THEOREM ClosingProven == Spec => []ClosureEvidenced
<1>1. IInv => ClosureEvidenced
  BY DEF IInv, DocumentInv, ClosingInv, KindSound, ClosingSound, ClosureEvidenced, Evidence
<1> QED
  BY <1>1, InductiveInvariant, PTL

\* Versions are never lost, rewritten or moved back.
THEOREM VersionsKept == Spec => PolicyHistory
<1>1. IInv /\ [Next]_vars =>
        [\A stage \in Stages : \A v \in DOMAIN policies[stage] :
           /\ v \in DOMAIN policies'[stage]
           /\ VersionKept(policies[stage][v], policies'[stage][v])]_policyVars
  BY IInvStep DEF PolicyKept
<1> QED
  BY <1>1, InductiveInvariant, PTL DEF Spec, PolicyHistory

===============================================================================
