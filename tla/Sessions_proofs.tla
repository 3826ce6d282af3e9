---------------------------- MODULE Sessions_proofs ----------------------------
(***************************************************************************)
(* Theorems about Sessions, for any number of users, roles, sessions and   *)
(* overlapping requests: a refresh token is exchanged once, the sessions a *)
(* user's end ended stay ended, a link is taken over by overlap only, and  *)
(* the record of a role's permissions shows every change of them.          *)
(***************************************************************************)
EXTENDS Sessions, FiniteSetTheorems, SequenceTheorems, TLAPS

USE DEF Sessions

-------------------------------------------------------------------------------
(* Sequences of whatever rows.                                                 *)

\* A function on an initial segment of the numbers is a sequence.
IsSequence(s) == \E n \in Nat : s = [k \in 1..n |-> s[k]]

LEMMA SequenceFacts ==
  ASSUME NEW s, IsSequence(s), NEW x
  PROVE  /\ Len(s) \in Nat /\ DOMAIN s = 1..Len(s)
         /\ s \in Seq({s[k] : k \in DOMAIN s} \cup {x})
<1> PICK n \in Nat : s = [k \in 1..n |-> s[k]]
  BY DEF IsSequence
<1>1. DOMAIN s = 1..n
  OBVIOUS
<1>2. s \in [1..n -> {s[k] : k \in DOMAIN s} \cup {x}]
  BY <1>1
<1> QED
  BY <1>1, <1>2

LEMMA AppendFacts ==
  ASSUME NEW s, IsSequence(s), NEW x
  PROVE  /\ Len(s) \in Nat /\ DOMAIN s = 1..Len(s)
         /\ IsSequence(Append(s, x))
         /\ DOMAIN Append(s, x) = 1..(Len(s) + 1)
         /\ \A k \in DOMAIN s : Append(s, x)[k] = s[k]
         /\ Append(s, x)[Len(s) + 1] = x
<1> PICK S : S = {s[k] : k \in DOMAIN s} \cup {x}
  OBVIOUS
<1>1. Len(s) \in Nat /\ DOMAIN s = 1..Len(s) /\ s \in Seq(S) /\ x \in S
  BY SequenceFacts
<1> PICK l : l = Append(s, x)
  OBVIOUS
<1>2. l \in Seq(S) /\ Len(l) = Len(s) + 1 /\ DOMAIN l = 1..(Len(s) + 1)
  BY <1>1
<1>3. /\ \A k \in DOMAIN s : l[k] = s[k]
      /\ l[Len(s) + 1] = x
  BY <1>1
<1>4. IsSequence(l)
  <2>1. l \in [1..Len(l) -> S]
    BY <1>2, LenProperties
  <2>2. Len(s) + 1 \in Nat
    BY <1>1
  <2>3. l = [k \in 1..(Len(s) + 1) |-> l[k]]
    BY <1>2, <2>1
  <2> QED BY <2>2, <2>3 DEF IsSequence
<1> QED
  BY <1>1, <1>2, <1>3, <1>4

-------------------------------------------------------------------------------
(* The inductive invariant.                                                    *)

\* A row keeps what it says of its user and its end in fields of its own.
IsRow(row) ==
  row = [user |-> row.user, revoked |-> row.revoked, expired |-> row.expired,
         password |-> row.password, from |-> row.from, by |-> row.by]

Rows == IsSequence(sessions) /\ \A t \in Sessions : IsRow(sessions[t])

\* What a refresh has consumed it holds the lock of: nobody revokes it before
\* the next session is there.
RefreshSound(i) ==
  /\ i.op = "refresh" => i.token \in Sessions
  /\ i.op = "consumed" =>
       i.token \in Sessions /\ ~sessions[i.token].revoked /\ i.locks = {SessionLock(i.token)}

RequestsSound ==
  /\ inflight = [r \in Requests |-> inflight[r]]
  /\ \A r \in Requests : RefreshSound(inflight[r])

\* Two requests never exchange one session.
TokensDistinct ==
  \A p, q \in Requests :
    p # q /\ inflight[p].op = "consumed" /\ inflight[q].op = "consumed"
    => inflight[p].token # inflight[q].token

IInv == Rows /\ RequestsSound /\ TokensDistinct

\* What a step may do to the sessions.
Exchanged ==
  /\ \A t \in Sessions : sessions[t].revoked => sessions'[t].revoked
  /\ \A n \in DOMAIN sessions' \ Sessions :
       LET t == sessions'[n].from IN
       t # 0 => /\ ~sessions[t].revoked /\ sessions'[t].revoked
                /\ sessions'[n].user = sessions[t].user

-------------------------------------------------------------------------------
(* Steps.                                                                      *)

LEMMA Remembered ==
  ASSUME RequestsSound, NEW r \in Requests, NEW i, Remember(r, i)
  PROVE  /\ inflight' = [q \in Requests |-> inflight'[q]]
         /\ inflight'[r] = i
         /\ \A q \in Requests : q # r => inflight'[q] = inflight[q]
  BY DEF RequestsSound, Remember

\* A request that neither exchanges a session nor begins to, and revokes only
\* what nobody has consumed.
LEMMA Unconcerned ==
  ASSUME IInv, NEW r \in Requests, NEW i, Remember(r, i), i.op \notin {"refresh", "consumed"},
         Rows', Sessions \subseteq Sessions',
         \A q \in Requests \ {r} : inflight[q].op = "consumed" =>
           ~sessions'[inflight[q].token].revoked
  PROVE  IInv'
<1>1. /\ inflight' = [q \in Requests |-> inflight'[q]]
      /\ inflight'[r] = i
      /\ \A q \in Requests : q # r => inflight'[q] = inflight[q]
  BY Remembered DEF IInv
<1>2. ASSUME NEW q \in Requests PROVE RefreshSound(inflight[q])'
  <2>1. CASE q = r
    BY <1>1, <2>1 DEF RefreshSound
  <2>2. CASE q # r
    BY <1>1, <2>2 DEF IInv, RequestsSound, RefreshSound
  <2> QED BY <2>1, <2>2
<1>3. TokensDistinct'
  BY <1>1 DEF IInv, TokensDistinct
<1> QED
  BY <1>1, <1>2, <1>3 DEF IInv, RequestsSound

LEMMA SessionsUntouched ==
  ASSUME IInv, NEW r \in Requests, NEW i, Remember(r, i), i.op \notin {"refresh", "consumed"},
         sessions' = sessions
  PROVE  IInv' /\ Exchanged
<1>1. Rows'
  BY DEF IInv, Rows
<1>2. \A q \in Requests : inflight[q].op = "consumed" => ~sessions'[inflight[q].token].revoked
  BY DEF IInv, RequestsSound, RefreshSound
<1>3. IInv'
  BY <1>1, <1>2, Unconcerned
<1> QED
  BY <1>3 DEF Exchanged

LEMMA EndUntouched ==
  ASSUME IInv, NEW r \in Requests, End(r), sessions' = sessions
  PROVE  IInv' /\ Exchanged
<1>1. Answered.op \notin {"refresh", "consumed"}
  BY DEF Answered
<1> QED
  BY <1>1, SessionsUntouched DEF End

\* Revoking some sessions, for none of which another request holds the lock.
LEMMA Revoking ==
  ASSUME IInv, NEW r \in Requests, End(r), NEW set,
         \A t \in set : Available(SessionLock(t), r),
         sessions' = [t \in Sessions |->
           IF t \in set THEN [sessions[t] EXCEPT !.revoked = TRUE] ELSE sessions[t]]
  PROVE  IInv' /\ Exchanged
<1>0. /\ DOMAIN sessions' = Sessions
      /\ \A t \in Sessions : sessions'[t] =
           IF t \in set THEN [sessions[t] EXCEPT !.revoked = TRUE] ELSE sessions[t]
  OBVIOUS
<1>1. ASSUME NEW t \in Sessions
      PROVE  /\ IsRow(sessions'[t])
             /\ t \notin set => sessions'[t].revoked = sessions[t].revoked
             /\ sessions[t].revoked => sessions'[t].revoked
  <2>1. IsRow(sessions[t])
    BY DEF IInv, Rows
  <2>2. CASE t \in set
    <3>1. sessions'[t] = [sessions[t] EXCEPT !.revoked = TRUE]
      BY <1>0, <2>2
    <3> QED BY <2>1, <2>2, <3>1 DEF IsRow
  <2>3. CASE t \notin set
    BY <1>0, <2>1, <2>3
  <2> QED BY <2>2, <2>3
<1>2. Rows'
  <2>1. IsSequence(sessions')
    BY <1>0, SequenceFacts DEF IInv, Rows, IsSequence
  <2> QED BY <1>0, <1>1, <2>1 DEF Rows, IsSequence
<1>3. ASSUME NEW q \in Requests \ {r}, inflight[q].op = "consumed"
      PROVE  ~sessions'[inflight[q].token].revoked
  <2>1. /\ inflight[q].token \in Sessions /\ ~sessions[inflight[q].token].revoked
        /\ inflight[q].locks = {SessionLock(inflight[q].token)}
    BY <1>3 DEF IInv, RequestsSound, RefreshSound
  <2>2. inflight[q].token \notin set
    BY <2>1 DEF Available
  <2> QED BY <1>1, <2>1, <2>2
<1>4. Answered.op \notin {"refresh", "consumed"}
  BY DEF Answered
<1>5. IInv'
  BY <1>0, <1>2, <1>3, <1>4, Unconcerned DEF End
<1> QED
  BY <1>0, <1>1, <1>5 DEF Exchanged

LEMMA UsersStartKeeps ==
  ASSUME IInv, NEW r \in Requests, UsersStart(r)
  PROVE  IInv' /\ Exchanged
<1>1. CASE CreateUser(r) \/ CreateClientPortalUser(r)
  <2> PICK i : Remember(r, i) /\ i.op \in {"create", "client_portal"} /\ sessions' = sessions
    BY <1>1 DEF CreateUser, CreateClientPortalUser, Begin, identityVars
  <2> QED BY SessionsUntouched
<1>2. CASE CreateDriverPortalUser(r) \/ ReadLink(r)
  <2> PICK i : Remember(r, i) /\ i.op \in {"driver_portal", "link"} /\ sessions' = sessions
    BY <1>2 DEF CreateDriverPortalUser, ReadLink, Begin, identityVars
  <2> QED BY SessionsUntouched
<1>3. CASE CreateRole(r) \/ ReadPermissions(r)
  <2> PICK i : Remember(r, i) /\ i.op \in {"new_role", "permissions"} /\ sessions' = sessions
    BY <1>3 DEF CreateRole, ReadPermissions, Begin, identityVars
  <2> QED BY SessionsUntouched
<1>4. CASE ReadStatus(r) \/ ReadPassword(r)
  <2> PICK i : Remember(r, i) /\ i.op \in {"status", "password"} /\ sessions' = sessions
    BY <1>4 DEF ReadStatus, ReadPassword, Begin, identityVars
  <2> QED BY SessionsUntouched
<1>5. CASE AssignOrganizationRole(r)
  BY <1>5, EndUntouched DEF AssignOrganizationRole
<1> QED
  BY <1>1, <1>2, <1>3, <1>4, <1>5 DEF UsersStart

LEMMA UsersGoOnKeeps ==
  ASSUME IInv, NEW r \in Requests, UsersGoOn(r)
  PROVE  IInv' /\ Exchanged
<1>1. CASE \/ CommitCreate(r) \/ CommitClientPortalUser(r) \/ CommitDriverPortalUser(r)
           \/ CommitLink(r) \/ CommitRole(r) \/ SetPermissions(r) \/ Activate(r)
  <2>1. End(r) /\ sessions' = sessions
    BY <1>1 DEF CommitCreate, CommitClientPortalUser, CommitDriverPortalUser, CommitLink, CommitRole,
                SetPermissions, Activate
  <2> QED BY <2>1, EndUntouched
<1>2. CASE ListSessions(r)
  <2> PICK i : Remember(r, i) /\ i.op = "revoke" /\ sessions' = sessions
    BY <1>2 DEF ListSessions, identityVars
  <2> QED BY SessionsUntouched
<1>3. CASE CommitRevocation(r)
  <2>1. /\ End(r)
        /\ \A t \in inflight[r].listed : Available(SessionLock(t), r)
        /\ sessions' = [t \in Sessions |->
             IF t \in inflight[r].listed THEN [sessions[t] EXCEPT !.revoked = TRUE] ELSE sessions[t]]
    BY <1>3 DEF CommitRevocation
  <2> QED BY <2>1, Revoking
<1> QED
  BY <1>1, <1>2, <1>3 DEF UsersGoOn

\* A login adds a session that comes from none.
LEMMA IssueTokensKeeps ==
  ASSUME IInv, NEW r \in Requests, IssueTokens(r)
  PROVE  IInv' /\ Exchanged
<1> PICK row : row = Opened(inflight[r].user, 0, inflight[r].password, {r})
  OBVIOUS
<1>1. End(r) /\ sessions' = Append(sessions, row) /\ IsRow(row) /\ row.from = 0
  BY DEF IssueTokens, Opened, IsRow
<1>2. /\ Len(sessions) \in Nat /\ Sessions = 1..Len(sessions)
      /\ IsSequence(sessions') /\ DOMAIN sessions' = 1..(Len(sessions) + 1)
      /\ \A k \in Sessions : sessions'[k] = sessions[k]
      /\ sessions'[Len(sessions) + 1] = row
  BY <1>1, AppendFacts DEF IInv, Rows
<1>3. Rows' /\ Sessions \subseteq Sessions'
  <2>1. DOMAIN sessions' = Sessions \cup {Len(sessions) + 1}
    BY <1>2
  <2>2. \A k \in DOMAIN sessions' : IsRow(sessions'[k])
    BY <1>1, <1>2, <2>1 DEF IInv, Rows
  <2> QED BY <1>2, <2>1, <2>2 DEF Rows, IsSequence, IsRow
<1>4. \A q \in Requests : inflight[q].op = "consumed" => ~sessions'[inflight[q].token].revoked
  BY <1>2 DEF IInv, RequestsSound, RefreshSound
<1>5. Answered.op \notin {"refresh", "consumed"}
  BY DEF Answered
<1>6. IInv'
  BY <1>1, <1>3, <1>4, <1>5, Unconcerned DEF End
<1> QED
  BY <1>1, <1>2, <1>6 DEF Exchanged

LEMMA ReadSessionKeeps ==
  ASSUME IInv, NEW r \in Requests, ReadSession(r)
  PROVE  IInv' /\ Exchanged
<1> PICK t \in Sessions :
      Begin(r, [op |-> "refresh", locks |-> {}, token |-> t]) /\ UNCHANGED identityVars
  BY DEF ReadSession
<1>1. /\ inflight' = [q \in Requests |-> inflight'[q]]
      /\ inflight'[r] = [op |-> "refresh", locks |-> {}, token |-> t]
      /\ \A q \in Requests : q # r => inflight'[q] = inflight[q]
      /\ sessions' = sessions
  BY Remembered DEF IInv, Begin, identityVars
<1>2. ASSUME NEW q \in Requests PROVE RefreshSound(inflight[q])'
  <2>1. CASE q = r
    BY <1>1, <2>1 DEF RefreshSound
  <2>2. CASE q # r
    BY <1>1, <2>2 DEF IInv, RequestsSound, RefreshSound
  <2> QED BY <2>1, <2>2
<1>3. TokensDistinct' /\ Rows'
  BY <1>1 DEF IInv, TokensDistinct, Rows
<1> QED
  BY <1>1, <1>2, <1>3 DEF IInv, RequestsSound, Exchanged

LEMMA ConsumeKeeps ==
  ASSUME IInv, NEW r \in Requests, Consume(r)
  PROVE  IInv' /\ Exchanged
<1> PICK t : t = inflight[r].token
  OBVIOUS
<1>1. /\ inflight[r].op = "refresh" /\ Available(SessionLock(t), r) /\ sessions' = sessions
      /\ IF Consumable(t)
         THEN Remember(r, [op |-> "consumed", locks |-> {SessionLock(t)}, token |-> t])
         ELSE End(r)
  BY DEF Consume, identityVars
<1>2. t \in Sessions
  BY <1>1 DEF IInv, RequestsSound, RefreshSound
<1>3. CASE ~Consumable(t)
  BY <1>1, <1>3, EndUntouched
<1>4. CASE Consumable(t)
  <2>1. ~sessions[t].revoked
    BY <1>4 DEF Consumable, Usable
  <2>2. /\ inflight' = [q \in Requests |-> inflight'[q]]
        /\ inflight'[r] = [op |-> "consumed", locks |-> {SessionLock(t)}, token |-> t]
        /\ \A q \in Requests : q # r => inflight'[q] = inflight[q]
    BY <1>1, <1>4, Remembered DEF IInv
  <2>3. ASSUME NEW q \in Requests PROVE RefreshSound(inflight[q])'
    <3>1. CASE q = r
      BY <1>1, <1>2, <2>1, <2>2, <3>1 DEF RefreshSound, SessionLock
    <3>2. CASE q # r
      BY <1>1, <2>2, <3>2 DEF IInv, RequestsSound, RefreshSound
    <3> QED BY <3>1, <3>2
  <2>4. TokensDistinct'
    <3> SUFFICES ASSUME NEW q \in Requests, q # r, inflight[q].op = "consumed"
                 PROVE  inflight[q].token # t
      BY <2>2 DEF IInv, TokensDistinct
    <3>1. inflight[q].locks = {SessionLock(inflight[q].token)}
      BY DEF IInv, RequestsSound, RefreshSound
    <3> QED BY <1>1, <3>1 DEF Available
  <2>5. Rows'
    BY <1>1 DEF IInv, Rows
  <2> QED BY <1>1, <2>2, <2>3, <2>4, <2>5 DEF IInv, RequestsSound, Exchanged
<1> QED
  BY <1>3, <1>4

\* The exchange: what was consumed is revoked, and the next one is its user's.
LEMMA CommitRefreshKeeps ==
  ASSUME IInv, NEW r \in Requests, CommitRefresh(r)
  PROVE  IInv' /\ Exchanged
<1> PICK t : t = inflight[r].token
  OBVIOUS
<1> PICK row : row = Opened(sessions[t].user, t, sessions[t].password, sessions[t].by \cup {r})
  OBVIOUS
<1> PICK s : s = [sessions EXCEPT ![t].revoked = TRUE]
  OBVIOUS
<1>1. /\ inflight[r].op = "consumed" /\ End(r) /\ sessions' = Append(s, row)
      /\ IsRow(row) /\ row.from = t /\ row.user = sessions[t].user
  BY DEF CommitRefresh, Opened, IsRow
<1>2. t \in Sessions /\ ~sessions[t].revoked
  BY <1>1 DEF IInv, RequestsSound, RefreshSound
<1>3. /\ IsSequence(s) /\ DOMAIN s = Sessions
      /\ \A k \in Sessions : k # t => s[k] = sessions[k]
      /\ s[t] = [sessions[t] EXCEPT !.revoked = TRUE]
  BY <1>2, SequenceFacts DEF IInv, Rows, IsSequence
<1>4. IsRow(s[t]) /\ s[t].revoked
  <2>1. IsRow(sessions[t])
    BY <1>2 DEF IInv, Rows
  <2> QED BY <1>3, <2>1 DEF IsRow
<1>5. /\ Len(s) \in Nat /\ Sessions = 1..Len(s)
      /\ IsSequence(sessions') /\ DOMAIN sessions' = 1..(Len(s) + 1)
      /\ \A k \in Sessions : sessions'[k] = s[k]
      /\ sessions'[Len(s) + 1] = row
  <2>1. /\ Len(s) \in Nat /\ DOMAIN s = 1..Len(s)
        /\ IsSequence(Append(s, row))
        /\ DOMAIN Append(s, row) = 1..(Len(s) + 1)
        /\ \A k \in DOMAIN s : Append(s, row)[k] = s[k]
        /\ Append(s, row)[Len(s) + 1] = row
    BY <1>3, AppendFacts
  <2> QED BY <1>1, <1>3, <2>1
<1>5a. DOMAIN sessions' = Sessions \cup {Len(s) + 1}
  BY <1>5
<1>6. Rows' /\ Sessions \subseteq Sessions'
  <2>1. ASSUME NEW k \in DOMAIN sessions' PROVE IsRow(sessions'[k])
    <3>1. CASE k \in Sessions /\ k # t
      <4>1. sessions'[k] = sessions[k] /\ IsRow(sessions[k])
        BY <1>3, <1>5, <3>1 DEF IInv, Rows
      <4> QED BY <4>1
    <3>2. CASE k = t
      BY <1>2, <1>4, <1>5, <3>2
    <3>3. CASE k = Len(s) + 1
      BY <1>1, <1>5, <3>3
    <3> QED BY <1>5a, <3>1, <3>2, <3>3
  <2> QED BY <1>5, <1>5a, <2>1 DEF Rows, IsSequence, IsRow
<1>7. ASSUME NEW q \in Requests \ {r}, inflight[q].op = "consumed"
      PROVE  ~sessions'[inflight[q].token].revoked
  <2>1. inflight[q].token \in Sessions /\ ~sessions[inflight[q].token].revoked
    BY <1>7 DEF IInv, RequestsSound, RefreshSound
  <2>2. inflight[q].token # t
    BY <1>1, <1>7 DEF IInv, TokensDistinct
  <2> QED BY <1>3, <1>5, <2>1, <2>2
<1>8. Answered.op \notin {"refresh", "consumed"}
  BY DEF Answered
<1>9. IInv'
  BY <1>1, <1>6, <1>7, <1>8, Unconcerned DEF End
<1>10. Exchanged
  <2>1. ASSUME NEW k \in Sessions, sessions[k].revoked PROVE sessions'[k].revoked
    BY <1>2, <1>3, <1>5, <2>1
  <2>2. ASSUME NEW n \in DOMAIN sessions' \ Sessions
        PROVE  /\ sessions'[n].from = t /\ sessions'[n].user = sessions[t].user
    BY <1>1, <1>5, <1>5a
  <2> QED BY <1>2, <1>4, <1>5, <2>1, <2>2 DEF Exchanged
<1> QED
  BY <1>9, <1>10

LEMMA LogoutKeeps ==
  ASSUME IInv, NEW r \in Requests, Logout(r)
  PROVE  IInv' /\ Exchanged
<1> PICK t \in Sessions :
      /\ Available(SessionLock(t), r) /\ End(r)
      /\ sessions' = [sessions EXCEPT ![t].revoked = TRUE]
  BY DEF Logout
<1>1. sessions = [k \in Sessions |-> sessions[k]]
  BY DEF IInv, Rows, IsSequence
<1>2. sessions' = [k \in Sessions |->
        IF k \in {t} THEN [sessions[k] EXCEPT !.revoked = TRUE] ELSE sessions[k]]
  BY <1>1
<1>3. \A k \in {t} : Available(SessionLock(k), r)
  OBVIOUS
<1> QED
  BY <1>2, <1>3, Revoking

LEMMA ExpireKeeps == ASSUME IInv, Expire PROVE IInv' /\ Exchanged
<1> PICK t \in Sessions :
      sessions' = [sessions EXCEPT ![t].expired = TRUE] /\ UNCHANGED inflight
  BY DEF Expire
<1>1. /\ IsSequence(sessions') /\ DOMAIN sessions' = Sessions
      /\ \A k \in Sessions : k # t => sessions'[k] = sessions[k]
      /\ sessions'[t] = [sessions[t] EXCEPT !.expired = TRUE]
  BY SequenceFacts DEF IInv, Rows, IsSequence
<1>2. IsRow(sessions'[t]) /\ sessions'[t].revoked = sessions[t].revoked
  <2>1. IsRow(sessions[t])
    BY DEF IInv, Rows
  <2> QED BY <1>1, <2>1 DEF IsRow
<1>3. Rows' /\ TokensDistinct'
  BY <1>1, <1>2 DEF IInv, Rows, TokensDistinct
<1>4. RequestsSound'
  BY <1>1, <1>2 DEF IInv, RequestsSound, RefreshSound
<1> QED
  BY <1>1, <1>2, <1>3, <1>4 DEF IInv, Exchanged

LEMMA IInvInit == Init => IInv
<1> SUFFICES ASSUME Init PROVE IInv
  OBVIOUS
<1>1. Cardinality(DOMAIN Accounts) \in Nat
  BY AccountsAssumption, FS_CardinalityType
<1> PICK order \in [1..Cardinality(DOMAIN Accounts) -> DOMAIN Accounts] :
      sessions = [n \in DOMAIN order |-> Opened(order[n], 0, Accounts[order[n]].password, {})]
  BY DEF Init
<1>2. DOMAIN order = 1..Cardinality(DOMAIN Accounts)
  OBVIOUS
<1>3. IsSequence(sessions)
  BY <1>1, <1>2 DEF IsSequence
<1>4. \A t \in Sessions : IsRow(sessions[t])
  BY <1>2 DEF Opened, IsRow
<1>5. RequestsSound /\ TokensDistinct
  BY DEF Init, TransactionsInit, RequestsSound, RefreshSound, TokensDistinct, Waiting
<1> QED
  BY <1>3, <1>4, <1>5 DEF IInv, Rows

LEMMA IInvStep == IInv /\ [Next]_vars => IInv' /\ Exchanged
<1> SUFFICES ASSUME IInv, [Next]_vars PROVE IInv' /\ Exchanged
  OBVIOUS
<1>1. CASE UNCHANGED vars
  <2>1. UNCHANGED <<inflight, sessions>>
    BY <1>1 DEF vars, identityVars
  <2> QED BY <2>1 DEF IInv, Rows, RequestsSound, RefreshSound, TokensDistinct, Exchanged
<1>2. ASSUME NEW r \in Requests, Start(r) PROVE IInv' /\ Exchanged
  <2>1. CASE ReadUser(r)
    <3> PICK i : Remember(r, i) /\ i.op = "login" /\ sessions' = sessions
      BY <2>1 DEF ReadUser, Begin, identityVars
    <3> QED BY SessionsUntouched
  <2> QED BY <1>2, <2>1, UsersStartKeeps, ReadSessionKeeps, LogoutKeeps DEF Start
<1>3. ASSUME NEW r \in Requests, GoOn(r) PROVE IInv' /\ Exchanged
  <2>1. CASE RecordLogin(r)
    <3> PICK i : Remember(r, i) /\ i.op = "recorded" /\ sessions' = sessions
      BY <2>1 DEF RecordLogin, identityVars
    <3> QED BY SessionsUntouched
  <2>2. CASE Rollback(r) /\ UNCHANGED identityVars
    BY <2>2, EndUntouched DEF Rollback, identityVars
  <2> QED BY <1>3, <2>1, <2>2, UsersGoOnKeeps, IssueTokensKeeps, ConsumeKeeps, CommitRefreshKeeps DEF GoOn
<1>4. CASE Expire
  BY <1>4, ExpireKeeps
<1> QED
  BY <1>1, <1>2, <1>3, <1>4 DEF Next

\* AuthService.refresh exchanges a session at most once: no two sessions come
\* from one, none comes from one that was revoked, and revocation is final.
THEOREM RefreshOnce == Spec => ExchangedOnce
<1>1. IInv /\ [Next]_vars =>
        [/\ \A t \in Sessions : sessions[t].revoked => sessions'[t].revoked
         /\ \A n \in DOMAIN sessions' \ Sessions :
              LET t == sessions'[n].from IN
              t # 0 => /\ ~sessions[t].revoked /\ sessions'[t].revoked
                       /\ sessions'[n].user = sessions[t].user]_sessions
  BY IInvStep DEF Exchanged
<1>2. IInv /\ [Next]_vars => IInv'
  BY IInvStep
<1> QED
  BY IInvInit, <1>1, <1>2, PTL DEF Spec, ExchangedOnce

-------------------------------------------------------------------------------
(* The end of the sessions: an inductive invariant of its own.                 *)

\* What a request that makes, changes or lets in a user knows: a login that no
\* revocation overlaps has read the password of an active user; a revocation has
\* listed all sessions that are open but for those made by requests that were
\* under way when it listed them.
AccountSound(r, i) ==
  /\ i.op \in {"create", "client_portal", "driver_portal"} =>
       i.id \in Users /\ i.password \in Passwords
  /\ i.op \in {"status", "password", "revoke"} => i.id \in Users /\ users[i.id] \in UserRow
  /\ i.op = "status" => i.target \in UserStatus
  /\ i.op = "password" => i.target \in Passwords
  /\ i.op = "revoke" =>
       /\ i.change \in {"status", "password"}
       /\ i.target \in IF i.change = "status" THEN UserStatus ELSE Passwords
       /\ i.over \subseteq Over
       /\ \A t \in OpenSessions(i.id) \ i.listed : ~(sessions[t].by \subseteq i.over)
  /\ i.op \in {"login", "recorded"} =>
       /\ i.user \in Users /\ users[i.user] \in UserRow
       /\ \/ r \in overlapping[i.user]
          \/ users[i.user].status = "ACTIVE" /\ users[i.user].password = i.password

AccountsTyped ==
  /\ users \in [Users -> UserRow \cup {NoUser}]
  /\ overlapping \in [Users -> SUBSET Requests]

\* Who made a session has been answered.
SessionsOwned ==
  \A t \in Sessions :
    /\ sessions[t].user \in Users /\ users[sessions[t].user] \in UserRow
    /\ sessions[t].by \subseteq Over

EndInv ==
  /\ AccountsTyped
  /\ SessionsOwned
  /\ \A r \in Requests : AccountSound(r, inflight[r])
  /\ SessionsEnded

\* A request that is not answered goes on or ends.
LEMMA OverGrows ==
  ASSUME RequestsSound, NEW r \in Requests, NEW i, Remember(r, i), inflight[r] # Answered
  PROVE  Over \subseteq Over' /\ r \notin Over
  BY Remembered DEF Over

\* A request that goes on, or that ends: the rows stay as they are.
LEMMA GoesOn ==
  ASSUME IInv, EndInv, NEW r \in Requests, NEW i, Remember(r, i), inflight[r] # Answered,
         AccountSound(r, i), UNCHANGED <<users, sessions, overlapping>>
  PROVE  EndInv'
<1>1. Over \subseteq Over' /\ r \notin Over
  BY OverGrows DEF IInv
<1>2. inflight'[r] = i /\ \A q \in Requests : q # r => inflight'[q] = inflight[q]
  BY Remembered DEF IInv
<1>3. ASSUME NEW q \in Requests PROVE AccountSound(q, inflight[q])'
  <2> PICK j : j = inflight'[q]
    OBVIOUS
  <2>1. AccountSound(q, j)
    BY <1>2 DEF EndInv
  <2>2. \A u : OpenSessions(u)' = OpenSessions(u)
    BY DEF OpenSessions
  <2> QED BY <1>1, <2>1, <2>2 DEF AccountSound
<1>4. SessionsOwned'
  BY <1>1 DEF EndInv, SessionsOwned
<1>5. AccountsTyped' /\ SessionsEnded'
  BY DEF EndInv, AccountsTyped, SessionsEnded
<1> QED
  BY <1>3, <1>4, <1>5 DEF EndInv

\* A request that knows nothing of this kind.
LEMMA NothingKnown ==
  ASSUME NEW r, NEW i,
         i.op \notin {"create", "client_portal", "driver_portal", "status", "password", "revoke",
                      "login", "recorded"}
  PROVE  AccountSound(r, i)
  BY DEF AccountSound

LEMMA Ends ==
  ASSUME IInv, EndInv, NEW r \in Requests, End(r), inflight[r] # Answered,
         UNCHANGED <<users, sessions, overlapping>>
  PROVE  EndInv'
<1>1. AccountSound(r, Answered)
  BY NothingKnown DEF Answered
<1> QED
  BY <1>1, GoesOn DEF End

\* A user is created or activated: what was right of a session stays right.
LEMMA UserAppears ==
  ASSUME IInv, EndInv, NEW r \in Requests, End(r), inflight[r] # Answered,
         NEW u \in Users, NEW row \in UserRow, users' = [users EXCEPT ![u] = row],
         \/ users[u] = NoUser
         \/ row.status = "ACTIVE" /\ row.password = users[u].password,
         UNCHANGED <<sessions, overlapping>>
  PROVE  EndInv'
<1>1. Over \subseteq Over' /\ r \notin Over
  BY OverGrows DEF IInv, End
<1>2. inflight'[r] = Answered /\ \A q \in Requests : q # r => inflight'[q] = inflight[q]
  BY Remembered DEF IInv, End
<1>3. /\ AccountsTyped'
      /\ users'[u] = row
      /\ \A v \in Users : v # u => users'[v] = users[v]
  BY DEF EndInv, AccountsTyped
<1>4. NoUser \notin UserRow
  BY DEF NoUser, UserRow, UserStatus
<1>5. ASSUME NEW q \in Requests PROVE AccountSound(q, inflight[q])'
  <2>1. CASE q = r
    BY <1>2, <2>1 DEF AccountSound, Answered
  <2>2. CASE q # r
    <3>1. AccountSound(q, inflight[q]) /\ inflight'[q] = inflight[q]
      BY <1>2, <2>2 DEF EndInv
    <3>2. \A v : OpenSessions(v)' = OpenSessions(v)
      BY DEF OpenSessions
    <3> QED BY <1>1, <1>3, <1>4, <3>1, <3>2 DEF AccountSound
  <2> QED BY <2>1, <2>2
<1>6. SessionsOwned'
  BY <1>1, <1>3, <1>4 DEF EndInv, SessionsOwned
<1>7. SessionsEnded'
  BY <1>3, <1>4 DEF EndInv, SessionsOwned, SessionsEnded
<1> QED
  BY <1>3, <1>5, <1>6, <1>7 DEF EndInv

\* Sessions are revoked, or expire: what was right of a session stays right.
LEMMA SessionsShrink ==
  ASSUME IInv, EndInv, NEW r \in Requests, End(r), inflight[r] # Answered,
         DOMAIN sessions' = Sessions,
         \A t \in Sessions : /\ sessions'[t].user = sessions[t].user
                             /\ sessions'[t].by = sessions[t].by
                             /\ sessions'[t].password = sessions[t].password
                             /\ sessions[t].revoked => sessions'[t].revoked,
         UNCHANGED <<users, overlapping>>
  PROVE  EndInv'
<1>1. Over \subseteq Over' /\ r \notin Over
  BY OverGrows DEF IInv, End
<1>2. inflight'[r] = Answered /\ \A q \in Requests : q # r => inflight'[q] = inflight[q]
  BY Remembered DEF IInv, End
<1>3. \A u : OpenSessions(u)' \subseteq OpenSessions(u)
  BY DEF OpenSessions
<1>4. ASSUME NEW q \in Requests PROVE AccountSound(q, inflight[q])'
  <2>1. CASE q = r
    BY <1>2, <2>1 DEF AccountSound, Answered
  <2>2. CASE q # r
    <3>1. AccountSound(q, inflight[q]) /\ inflight'[q] = inflight[q]
      BY <1>2, <2>2 DEF EndInv
    <3>2. \A t \in OpenSessions(inflight[q].id)' : sessions'[t].by = sessions[t].by
      BY DEF OpenSessions
    <3> QED BY <1>1, <1>3, <3>1, <3>2 DEF AccountSound
  <2> QED BY <2>1, <2>2
<1>5. SessionsOwned'
  BY <1>1 DEF EndInv, SessionsOwned
<1>6. SessionsEnded' /\ AccountsTyped'
  BY DEF EndInv, SessionsEnded, AccountsTyped
<1> QED
  BY <1>4, <1>5, <1>6 DEF EndInv

\* Revoking, in the terms of the lemma above.
LEMMA RevokedRows ==
  ASSUME IInv, NEW set,
         sessions' = [t \in Sessions |->
           IF t \in set THEN [sessions[t] EXCEPT !.revoked = TRUE] ELSE sessions[t]]
  PROVE  /\ DOMAIN sessions' = Sessions
         /\ \A t \in Sessions : /\ sessions'[t].user = sessions[t].user
                                /\ sessions'[t].by = sessions[t].by
                                /\ sessions'[t].password = sessions[t].password
                                /\ sessions[t].revoked => sessions'[t].revoked
                                /\ t \in set => sessions'[t].revoked
                                /\ t \notin set => sessions'[t].revoked = sessions[t].revoked
<1>1. /\ DOMAIN sessions' = Sessions
      /\ \A t \in Sessions : sessions'[t] =
           IF t \in set THEN [sessions[t] EXCEPT !.revoked = TRUE] ELSE sessions[t]
  OBVIOUS
<1>2. ASSUME NEW t \in Sessions
      PROVE  /\ sessions'[t].user = sessions[t].user
             /\ sessions'[t].by = sessions[t].by
             /\ sessions'[t].password = sessions[t].password
             /\ sessions[t].revoked => sessions'[t].revoked
             /\ t \in set => sessions'[t].revoked
             /\ t \notin set => sessions'[t].revoked = sessions[t].revoked
  <2>1. IsRow(sessions[t])
    BY DEF IInv, Rows
  <2>2. CASE t \in set
    <3>1. sessions'[t] = [sessions[t] EXCEPT !.revoked = TRUE]
      BY <1>1, <2>2
    <3> QED BY <2>1, <2>2, <3>1 DEF IsRow
  <2>3. CASE t \notin set
    BY <1>1, <2>3
  <2> QED BY <2>2, <2>3
<1> QED
  BY <1>1, <1>2

\* A session is opened by a request that was under way until now: no revocation
\* that is still under way has listed before that request began.
LEMMA SessionAppears ==
  ASSUME IInv, EndInv, NEW r \in Requests, End(r), inflight[r] \notin {Waiting, Answered},
         NEW n, DOMAIN sessions' = Sessions \cup {n}, n \notin Sessions,
         \A t \in Sessions : /\ sessions'[t].user = sessions[t].user
                             /\ sessions'[t].by = sessions[t].by
                             /\ sessions'[t].password = sessions[t].password
                             /\ sessions[t].revoked => sessions'[t].revoked,
         sessions'[n].user \in Users, users[sessions'[n].user] \in UserRow,
         r \in sessions'[n].by, sessions'[n].by \subseteq Over \cup {r},
         \/ sessions'[n].by \cap overlapping[sessions'[n].user] # {}
         \/ /\ users[sessions'[n].user].status = "ACTIVE"
            /\ users[sessions'[n].user].password = sessions'[n].password,
         UNCHANGED <<users, overlapping>>
  PROVE  EndInv'
<1>1. Over \subseteq Over' /\ r \notin Over
  BY OverGrows DEF IInv, End
<1>2. inflight'[r] = Answered /\ \A q \in Requests : q # r => inflight'[q] = inflight[q]
  BY Remembered DEF IInv, End
<1>3. r \in Over'
  BY <1>2 DEF Over
<1>4. ASSUME NEW q \in Requests PROVE AccountSound(q, inflight[q])'
  <2>1. CASE q = r
    BY <1>2, <2>1 DEF AccountSound, Answered
  <2>2. CASE q # r
    <3>1. AccountSound(q, inflight[q]) /\ inflight'[q] = inflight[q]
      BY <1>2, <2>2 DEF EndInv
    <3>2. ASSUME inflight[q].op = "revoke", NEW t \in OpenSessions(inflight[q].id)' \ inflight[q].listed
          PROVE  ~(sessions'[t].by \subseteq inflight[q].over)
      <4>1. CASE t = n
        <5>1. inflight[q].over \subseteq Over
          BY <3>1, <3>2 DEF AccountSound
        <5> QED BY <1>1, <4>1, <5>1
      <4>2. CASE t \in Sessions
        <5>1. t \in OpenSessions(inflight[q].id)
          BY <3>1, <3>2, <4>2 DEF OpenSessions
        <5>2. sessions'[t].by = sessions[t].by
          BY <4>2
        <5>3. ~(sessions[t].by \subseteq inflight[q].over)
          BY <3>1, <3>2, <5>1 DEF AccountSound
        <5> QED BY <5>2, <5>3
      <4> QED BY <3>2, <4>1, <4>2 DEF OpenSessions
    <3> QED BY <1>1, <3>1, <3>2 DEF AccountSound
  <2> QED BY <2>1, <2>2
<1>5. SessionsOwned'
  BY <1>1, <1>3 DEF EndInv, SessionsOwned
<1>6. SessionsEnded'
  <2> SUFFICES ASSUME NEW t \in Sessions', ~sessions'[t].revoked,
                      \/ users'[sessions'[t].user].status = "INACTIVE"
                      \/ sessions'[t].password # users'[sessions'[t].user].password
               PROVE  sessions'[t].by \cap overlapping'[sessions'[t].user] # {}
    BY DEF SessionsEnded
  <2>1. CASE t = n
    BY <2>1
  <2>2. CASE t \in Sessions
    BY <2>2 DEF EndInv, SessionsEnded
  <2> QED BY <2>1, <2>2
<1> QED
  BY <1>4, <1>5, <1>6 DEF EndInv, AccountsTyped

\* What the statement has listed is revoked; what it has not, and every login that
\* is under way, goes into overlapping.
LEMMA RevocationEnds ==
  ASSUME IInv, EndInv, NEW r \in Requests, CommitRevocation(r)
  PROVE  EndInv'
<1> PICK i : i = inflight[r]
  OBVIOUS
<1> PICK u : u = i.id
  OBVIOUS
<1> PICK row : row = IF i.change = "status" THEN [status |-> i.target, password |-> users[u].password]
                     ELSE [status |-> users[u].status, password |-> i.target]
  OBVIOUS
<1> PICK late : late = {q \in Requests \ (i.over \cup {r}) : inflight[q] # Waiting}
  OBVIOUS
<1>1. /\ i.op = "revoke" /\ End(r)
      /\ users' = [users EXCEPT ![u] = row]
      /\ sessions' = [t \in Sessions |->
           IF t \in i.listed THEN [sessions[t] EXCEPT !.revoked = TRUE] ELSE sessions[t]]
      /\ overlapping' = [overlapping EXCEPT ![u] = late]
  BY DEF CommitRevocation
<1>2. inflight[r] # Answered
  BY <1>1 DEF Answered
<1>3. Over \subseteq Over' /\ r \notin Over
  BY <1>1, <1>2, OverGrows DEF IInv, End
<1>4. inflight'[r] = Answered /\ \A q \in Requests : q # r => inflight'[q] = inflight[q]
  BY <1>1, Remembered DEF IInv, End
<1>5. AccountSound(r, i)
  BY DEF EndInv
<1>6. u \in Users /\ row \in UserRow
  BY <1>1, <1>5 DEF AccountSound, UserRow
<1>7. /\ AccountsTyped' /\ users'[u] = row /\ overlapping'[u] = late
      /\ \A v \in Users : v # u => users'[v] = users[v] /\ overlapping'[v] = overlapping[v]
  BY <1>1, <1>6 DEF EndInv, AccountsTyped
<1>8. /\ DOMAIN sessions' = Sessions
      /\ \A t \in Sessions : /\ sessions'[t].user = sessions[t].user
                             /\ sessions'[t].by = sessions[t].by
                             /\ sessions'[t].password = sessions[t].password
                             /\ sessions[t].revoked => sessions'[t].revoked
                             /\ t \in i.listed => sessions'[t].revoked
  BY <1>1, RevokedRows
<1>9. ASSUME NEW q \in Requests PROVE AccountSound(q, inflight[q])'
  <2>1. CASE q = r
    BY <1>4, <2>1 DEF AccountSound, Answered
  <2>2. CASE q # r
    <3> PICK j : j = inflight[q]
      OBVIOUS
    <3>1. AccountSound(q, j) /\ inflight'[q] = j
      BY <1>4, <2>2 DEF EndInv
    <3>2. \A v : /\ OpenSessions(v)' \subseteq OpenSessions(v)
                 /\ \A t \in OpenSessions(v)' : sessions'[t].by = sessions[t].by
      BY <1>8 DEF OpenSessions
    <3>3. \A v \in Users : users[v] \in UserRow => users'[v] \in UserRow
      BY <1>6, <1>7
    <3>4. ASSUME j.op \in {"login", "recorded"}, j.user = u PROVE q \in overlapping'[u]
      <4>1. j # Waiting /\ j # Answered
        BY <3>4 DEF Waiting, Answered
      <4>2. q \notin i.over
        BY <1>1, <1>5, <4>1 DEF AccountSound, Over
      <4> QED BY <1>7, <2>2, <4>1, <4>2
    <3> QED BY <1>3, <1>7, <3>1, <3>2, <3>3, <3>4 DEF AccountSound
  <2> QED BY <2>1, <2>2
<1>10. SessionsOwned'
  BY <1>3, <1>6, <1>7, <1>8 DEF EndInv, SessionsOwned
<1>11. SessionsEnded'
  <2> SUFFICES ASSUME NEW t \in Sessions, ~sessions'[t].revoked,
                      \/ users'[sessions[t].user].status = "INACTIVE"
                      \/ sessions[t].password # users'[sessions[t].user].password
               PROVE  sessions[t].by \cap overlapping'[sessions[t].user] # {}
    BY <1>8 DEF SessionsEnded
  <2>1. ~sessions[t].revoked /\ t \notin i.listed
    BY <1>8
  <2>2. CASE sessions[t].user = u
    <3> PICK q \in sessions[t].by : q \notin i.over
      BY <1>1, <1>5, <2>1, <2>2 DEF AccountSound, OpenSessions
    <3>1. q \in Requests /\ inflight[q] = Answered
      BY DEF EndInv, SessionsOwned, Over
    <3>2. q # r /\ inflight[q] # Waiting
      BY <1>2, <3>1 DEF Waiting, Answered
    <3> QED BY <1>7, <2>2, <3>1, <3>2
  <2>3. CASE sessions[t].user # u
    BY <1>7, <2>1, <2>3 DEF EndInv, SessionsOwned, SessionsEnded
  <2> QED BY <2>2, <2>3
<1> QED
  BY <1>7, <1>9, <1>10, <1>11 DEF EndInv

LEMMA UsersStartEnds ==
  ASSUME IInv, EndInv, NEW r \in Requests, UsersStart(r)
  PROVE  EndInv'
<1>0. Waiting # Answered
  BY DEF Waiting, Answered
<1>1. CASE CreateUser(r) \/ CreateClientPortalUser(r) \/ CreateDriverPortalUser(r)
  <2> PICK i : /\ Remember(r, i) /\ inflight[r] # Answered
               /\ i.op \in {"create", "client_portal", "driver_portal"}
               /\ i.id \in Users /\ i.password \in Passwords
               /\ UNCHANGED <<users, sessions, overlapping>>
    BY <1>0, <1>1 DEF CreateUser, CreateClientPortalUser, CreateDriverPortalUser, Begin, identityVars
  <2>1. AccountSound(r, i)
    BY DEF AccountSound
  <2> QED BY <2>1, GoesOn
<1>2. CASE ReadLink(r) \/ CreateRole(r) \/ ReadPermissions(r)
  <2> PICK i : /\ Remember(r, i) /\ inflight[r] # Answered
               /\ i.op \in {"link", "new_role", "permissions"}
               /\ UNCHANGED <<users, sessions, overlapping>>
    BY <1>0, <1>2 DEF ReadLink, CreateRole, ReadPermissions, Begin, identityVars
  <2>1. AccountSound(r, i)
    BY NothingKnown
  <2> QED BY <2>1, GoesOn
<1>3. CASE AssignOrganizationRole(r)
  BY <1>0, <1>3, Ends DEF AssignOrganizationRole
<1>4. CASE ReadStatus(r)
  <2> PICK i : /\ Remember(r, i) /\ inflight[r] # Answered
               /\ i.op = "status" /\ i.id \in Users /\ ~Free(i.id) /\ i.target \in UserStatus
               /\ UNCHANGED <<users, sessions, overlapping>>
    BY <1>0, <1>4 DEF ReadStatus, Begin, identityVars
  <2>1. users[i.id] \in UserRow
    BY DEF EndInv, AccountsTyped, Free
  <2>2. AccountSound(r, i)
    BY <2>1 DEF AccountSound
  <2> QED BY <2>2, GoesOn
<1>5. CASE ReadPassword(r)
  <2> PICK i : /\ Remember(r, i) /\ inflight[r] # Answered
               /\ i.op = "password" /\ i.id \in Users /\ SignedIn(i.id) /\ i.target \in Passwords
               /\ UNCHANGED <<users, sessions, overlapping>>
    BY <1>0, <1>5 DEF ReadPassword, Begin, identityVars
  <2>1. users[i.id] \in UserRow
    BY DEF EndInv, SessionsOwned, SignedIn
  <2>2. AccountSound(r, i)
    BY <2>1 DEF AccountSound
  <2> QED BY <2>2, GoesOn
<1> QED
  BY <1>1, <1>2, <1>3, <1>4, <1>5 DEF UsersStart

LEMMA UsersGoOnEnds ==
  ASSUME IInv, EndInv, NEW r \in Requests, UsersGoOn(r)
  PROVE  EndInv'
<1>0. AccountSound(r, inflight[r])
  BY DEF EndInv
<1>1. CASE CommitCreate(r) \/ CommitClientPortalUser(r) \/ CommitDriverPortalUser(r)
  <2> PICK u : u = inflight[r].id
    OBVIOUS
  <2> PICK row : row = [status |-> "ACTIVE", password |-> inflight[r].password]
    OBVIOUS
  <2>1. /\ inflight[r].op \in {"create", "client_portal", "driver_portal"}
        /\ Free(u) /\ End(r) /\ users' = [users EXCEPT ![u] = row]
        /\ UNCHANGED <<sessions, overlapping>>
    BY <1>1 DEF CommitCreate, CommitClientPortalUser, CommitDriverPortalUser
  <2>2. u \in Users /\ row \in UserRow
    BY <1>0, <2>1 DEF AccountSound, UserRow, UserStatus
  <2>3. inflight[r] # Answered
    BY <2>1 DEF Answered
  <2> QED BY <2>1, <2>2, <2>3, UserAppears DEF Free
<1>2. CASE CommitLink(r) \/ CommitRole(r) \/ SetPermissions(r)
  <2>1. /\ inflight[r].op \in {"link", "new_role", "permissions"} /\ End(r)
        /\ UNCHANGED <<users, sessions, overlapping>>
    BY <1>2 DEF CommitLink, CommitRole, SetPermissions
  <2>2. inflight[r] # Answered
    BY <2>1 DEF Answered
  <2> QED BY <2>1, <2>2, Ends
<1>3. CASE Activate(r)
  <2> PICK u : u = inflight[r].id
    OBVIOUS
  <2> PICK row : row = [users[u] EXCEPT !.status = "ACTIVE"]
    OBVIOUS
  <2>1. /\ inflight[r].op = "status" /\ End(r)
        /\ users' = [users EXCEPT ![u].status = "ACTIVE"]
        /\ UNCHANGED <<sessions, overlapping>>
    BY <1>3 DEF Activate
  <2>2. u \in Users /\ users[u] \in UserRow
    BY <1>0, <2>1 DEF AccountSound
  <2>3. row \in UserRow /\ row.status = "ACTIVE" /\ row.password = users[u].password
    BY <2>2 DEF UserRow, UserStatus
  <2>4. users' = [users EXCEPT ![u] = row]
    BY <2>1
  <2>5. inflight[r] # Answered
    BY <2>1 DEF Answered
  <2> QED BY <2>1, <2>2, <2>3, <2>4, <2>5, UserAppears
<1>4. CASE ListSessions(r)
  <2> PICK old : old = inflight[r]
    OBVIOUS
  <2> PICK listed : listed = OpenSessions(old.id)
    OBVIOUS
  <2> PICK over : over = Over
    OBVIOUS
  <2> PICK i : i = [op |-> "revoke", locks |-> old.locks \cup {UserLock(old.id)}, id |-> old.id,
                    change |-> old.op, target |-> old.target, listed |-> listed, over |-> over]
    OBVIOUS
  <2>1. /\ old.op \in {"status", "password"} /\ Remember(r, i)
        /\ UNCHANGED <<users, sessions, overlapping>>
    BY <1>4 DEF ListSessions, identityVars
  <2>2. /\ old.id \in Users /\ users[old.id] \in UserRow
        /\ old.target \in IF old.op = "status" THEN UserStatus ELSE Passwords
    BY <1>0, <2>1 DEF AccountSound
  <2>3. /\ i.op = "revoke" /\ i.id = old.id /\ i.change = old.op /\ i.target = old.target
        /\ i.listed = OpenSessions(old.id) /\ i.over = Over
    OBVIOUS
  <2>4. AccountSound(r, i)
    BY <2>1, <2>2, <2>3 DEF AccountSound
  <2>5. old # Answered
    BY <2>1 DEF Answered
  <2> QED BY <2>1, <2>4, <2>5, GoesOn
<1> QED
  BY <1>1, <1>2, <1>3, <1>4, RevocationEnds DEF UsersGoOn

\* What the login knows is what the session needs.
LEMMA IssueTokensEnds ==
  ASSUME IInv, EndInv, NEW r \in Requests, IssueTokens(r)
  PROVE  EndInv'
<1> PICK i : i = inflight[r]
  OBVIOUS
<1> PICK row : row = Opened(i.user, 0, i.password, {r})
  OBVIOUS
<1> PICK n : n = Len(sessions) + 1
  OBVIOUS
<1>1. /\ i.op = "recorded" /\ End(r) /\ sessions' = Append(sessions, row)
      /\ UNCHANGED <<users, overlapping>>
  BY DEF IssueTokens
<1>2. row.user = i.user /\ row.password = i.password /\ row.by = {r}
  BY DEF Opened
<1>3. /\ DOMAIN sessions' = Sessions \cup {n} /\ n \notin Sessions
      /\ \A k \in Sessions : sessions'[k] = sessions[k]
      /\ sessions'[n] = row
  <2>1. /\ Len(sessions) \in Nat /\ Sessions = 1..Len(sessions)
        /\ DOMAIN sessions' = 1..(Len(sessions) + 1)
        /\ \A k \in Sessions : sessions'[k] = sessions[k]
        /\ sessions'[Len(sessions) + 1] = row
    BY <1>1, AppendFacts DEF IInv, Rows
  <2> QED BY <2>1
<1>4. /\ i.user \in Users /\ users[i.user] \in UserRow
      /\ \/ r \in overlapping[i.user]
         \/ users[i.user].status = "ACTIVE" /\ users[i.user].password = i.password
  BY <1>1 DEF EndInv, AccountSound
<1>5. inflight[r] \notin {Waiting, Answered}
  BY <1>1 DEF Waiting, Answered
<1>6. \A k \in Sessions : /\ sessions'[k].user = sessions[k].user
                          /\ sessions'[k].by = sessions[k].by
                          /\ sessions'[k].password = sessions[k].password
                          /\ sessions[k].revoked => sessions'[k].revoked
  BY <1>3
<1>7. /\ sessions'[n].user \in Users /\ users[sessions'[n].user] \in UserRow
      /\ r \in sessions'[n].by /\ sessions'[n].by \subseteq Over \cup {r}
      /\ \/ sessions'[n].by \cap overlapping[sessions'[n].user] # {}
         \/ /\ users[sessions'[n].user].status = "ACTIVE"
            /\ users[sessions'[n].user].password = sessions'[n].password
  BY <1>2, <1>3, <1>4
<1> QED
  BY <1>1, <1>3, <1>5, <1>6, <1>7, SessionAppears

\* The next session has the makers of the one it is exchanged for, and one more.
LEMMA CommitRefreshEnds ==
  ASSUME IInv, EndInv, NEW r \in Requests, CommitRefresh(r)
  PROVE  EndInv'
<1> PICK t : t = inflight[r].token
  OBVIOUS
<1> PICK old : old = sessions[t]
  OBVIOUS
<1> PICK row : row = Opened(old.user, t, old.password, old.by \cup {r})
  OBVIOUS
<1> PICK s : s = [sessions EXCEPT ![t].revoked = TRUE]
  OBVIOUS
<1> PICK n : n = Len(s) + 1
  OBVIOUS
<1>1. /\ inflight[r].op = "consumed" /\ End(r) /\ sessions' = Append(s, row)
      /\ UNCHANGED <<users, overlapping>>
  BY DEF CommitRefresh
<1>2. row.user = old.user /\ row.password = old.password /\ row.by = old.by \cup {r}
  BY DEF Opened
<1>3. t \in Sessions /\ ~old.revoked
  BY <1>1 DEF IInv, RequestsSound, RefreshSound
<1>4. /\ IsSequence(s) /\ DOMAIN s = Sessions
      /\ \A k \in Sessions : k # t => s[k] = sessions[k]
      /\ s[t] = [old EXCEPT !.revoked = TRUE]
  BY <1>3, SequenceFacts DEF IInv, Rows, IsSequence
<1>5. /\ s[t].user = old.user /\ s[t].by = old.by /\ s[t].password = old.password /\ s[t].revoked
  <2>1. IsRow(old)
    BY <1>3 DEF IInv, Rows
  <2> QED BY <1>4, <2>1 DEF IsRow
<1>6. /\ DOMAIN sessions' = Sessions \cup {n} /\ n \notin Sessions
      /\ \A k \in Sessions : sessions'[k] = s[k]
      /\ sessions'[n] = row
  <2>1. /\ Len(s) \in Nat /\ DOMAIN s = 1..Len(s)
        /\ DOMAIN Append(s, row) = 1..(Len(s) + 1)
        /\ \A k \in DOMAIN s : Append(s, row)[k] = s[k]
        /\ Append(s, row)[Len(s) + 1] = row
    BY <1>4, AppendFacts
  <2> QED BY <1>1, <1>4, <2>1
<1>7. \A k \in Sessions : /\ sessions'[k].user = sessions[k].user
                          /\ sessions'[k].by = sessions[k].by
                          /\ sessions'[k].password = sessions[k].password
                          /\ sessions[k].revoked => sessions'[k].revoked
  BY <1>4, <1>5, <1>6
<1>8. /\ old.user \in Users /\ users[old.user] \in UserRow /\ old.by \subseteq Over
      /\ \/ old.by \cap overlapping[old.user] # {}
         \/ users[old.user].status = "ACTIVE" /\ users[old.user].password = old.password
  <2>1. old.user \in Users /\ users[old.user] \in UserRow /\ old.by \subseteq Over
    BY <1>3 DEF EndInv, SessionsOwned
  <2>2. users[old.user].status \in UserStatus
    BY <2>1 DEF UserRow
  <2>3. CASE old.by \cap overlapping[old.user] # {}
    BY <2>1, <2>3
  <2>4. CASE old.by \cap overlapping[old.user] = {}
    <3>1. users[old.user].status # "INACTIVE" /\ old.password = users[old.user].password
      BY <1>3, <2>4 DEF EndInv, SessionsEnded
    <3> QED BY <2>1, <2>2, <3>1 DEF UserStatus
  <2> QED BY <2>3, <2>4
<1>9. inflight[r] \notin {Waiting, Answered}
  BY <1>1 DEF Waiting, Answered
<1>10. row.by \cap overlapping[row.user] # {} \/
        (users[row.user].status = "ACTIVE" /\ users[row.user].password = row.password)
  BY <1>2, <1>8
<1>11. /\ sessions'[n].user \in Users /\ users[sessions'[n].user] \in UserRow
       /\ r \in sessions'[n].by /\ sessions'[n].by \subseteq Over \cup {r}
       /\ \/ sessions'[n].by \cap overlapping[sessions'[n].user] # {}
          \/ /\ users[sessions'[n].user].status = "ACTIVE"
             /\ users[sessions'[n].user].password = sessions'[n].password
  BY <1>2, <1>6, <1>8, <1>10
<1> QED
  BY <1>1, <1>6, <1>7, <1>9, <1>11, SessionAppears

LEMMA OthersEnd ==
  ASSUME IInv, EndInv, NEW r \in Requests,
         \/ ReadUser(r) \/ RecordLogin(r) \/ ReadSession(r) \/ Consume(r) \/ Logout(r)
         \/ Rollback(r) /\ UNCHANGED identityVars
  PROVE  EndInv'
<1>0. Waiting # Answered
  BY DEF Waiting, Answered
<1>1. CASE ReadUser(r)
  <2> PICK u \in Users : /\ users[u].status = "ACTIVE"
                         /\ Begin(r, [op |-> "login", locks |-> {}, user |-> u, password |-> users[u].password])
                         /\ UNCHANGED identityVars
    BY <1>1 DEF ReadUser
  <2> PICK i : i = [op |-> "login", locks |-> {}, user |-> u, password |-> users[u].password]
    OBVIOUS
  <2>1. i.op = "login" /\ i.user = u /\ i.password = users[u].password
    OBVIOUS
  <2>2. users[u] \in UserRow
    BY DEF EndInv, AccountsTyped, NoUser
  <2>3. AccountSound(r, i)
    BY <2>1, <2>2 DEF AccountSound
  <2> QED BY <1>0, <2>3, GoesOn DEF Begin, identityVars
<1>2. CASE RecordLogin(r)
  <2> PICK old : old = inflight[r]
    OBVIOUS
  <2> PICK i : i = [op |-> "recorded", locks |-> {}, user |-> old.user, password |-> old.password]
    OBVIOUS
  <2>1. old.op = "login" /\ Remember(r, i) /\ UNCHANGED <<users, sessions, overlapping>>
    BY <1>2 DEF RecordLogin, identityVars
  <2>2. i.op = "recorded" /\ i.user = old.user /\ i.password = old.password
    OBVIOUS
  <2>3. AccountSound(r, old)
    BY DEF EndInv
  <2>4. AccountSound(r, i)
    BY <2>1, <2>2, <2>3 DEF AccountSound
  <2> QED BY <2>1, <2>4, GoesOn DEF Answered
<1>3. CASE ReadSession(r)
  <2> PICK i : /\ Remember(r, i) /\ inflight[r] # Answered /\ i.op = "refresh"
               /\ UNCHANGED <<users, sessions, overlapping>>
    BY <1>0, <1>3 DEF ReadSession, Begin, identityVars
  <2>1. AccountSound(r, i)
    BY NothingKnown
  <2> QED BY <2>1, GoesOn
<1>4. CASE Consume(r)
  <2>1. inflight[r] # Answered /\ UNCHANGED <<users, sessions, overlapping>>
    BY <1>4 DEF Consume, Answered, identityVars
  <2>2. CASE End(r)
    BY <2>1, <2>2, Ends
  <2>3. CASE ~End(r)
    <3> PICK i : Remember(r, i) /\ i.op = "consumed"
      BY <1>4, <2>3 DEF Consume
    <3>1. AccountSound(r, i)
      BY NothingKnown
    <3> QED BY <2>1, <3>1, GoesOn
  <2> QED BY <2>2, <2>3
<1>5. CASE Logout(r)
  <2> PICK t \in Sessions : /\ inflight[r] = Waiting /\ End(r)
                            /\ sessions' = [sessions EXCEPT ![t].revoked = TRUE]
                            /\ UNCHANGED <<users, overlapping>>
    BY <1>5 DEF Logout
  <2>1. sessions = [k \in Sessions |-> sessions[k]]
    BY DEF IInv, Rows, IsSequence
  <2>2. sessions' = [k \in Sessions |->
          IF k \in {t} THEN [sessions[k] EXCEPT !.revoked = TRUE] ELSE sessions[k]]
    BY <2>1
  <2> QED BY <1>0, <2>2, RevokedRows, SessionsShrink
<1>6. CASE Rollback(r) /\ UNCHANGED identityVars
  BY <1>6, Ends DEF Rollback, identityVars
<1> QED
  BY <1>1, <1>2, <1>3, <1>4, <1>5, <1>6

\* A session that expires is as open as it was: nothing here reads its time.
LEMMA ExpireEnds == ASSUME IInv, EndInv, Expire PROVE EndInv'
<1> PICK t \in Sessions : /\ sessions' = [sessions EXCEPT ![t].expired = TRUE]
                          /\ UNCHANGED <<inflight, users, overlapping>>
  BY DEF Expire
<1>1. /\ DOMAIN sessions' = Sessions
      /\ \A k \in Sessions : k # t => sessions'[k] = sessions[k]
      /\ sessions'[t] = [sessions[t] EXCEPT !.expired = TRUE]
  BY DEF IInv, Rows, IsSequence
<1>2. IsRow(sessions[t])
  BY DEF IInv, Rows
<1>3. \A k \in Sessions : /\ sessions'[k].user = sessions[k].user
                          /\ sessions'[k].by = sessions[k].by
                          /\ sessions'[k].password = sessions[k].password
                          /\ sessions'[k].revoked = sessions[k].revoked
  BY <1>1, <1>2 DEF IsRow
<1>4. \A u : /\ OpenSessions(u)' = OpenSessions(u)
             /\ \A k \in OpenSessions(u) : sessions'[k].by = sessions[k].by
  BY <1>1, <1>3 DEF OpenSessions
<1>5. Over' = Over
  BY DEF Over
<1>6. ASSUME NEW q \in Requests PROVE AccountSound(q, inflight[q])'
  <2>1. AccountSound(q, inflight[q])
    BY DEF EndInv
  <2> QED BY <1>4, <1>5, <2>1 DEF AccountSound
<1>7. SessionsOwned' /\ SessionsEnded' /\ AccountsTyped'
  BY <1>1, <1>3, <1>5 DEF EndInv, SessionsOwned, SessionsEnded, AccountsTyped
<1> QED
  BY <1>6, <1>7 DEF EndInv

LEMMA EndInvInit == Init => EndInv
<1> SUFFICES ASSUME Init PROVE EndInv
  OBVIOUS
<1>1. /\ users = [u \in Users |-> IF u \in DOMAIN Accounts THEN Accounts[u] ELSE NoUser]
      /\ overlapping = [u \in Users |-> {}]
      /\ \A r \in Requests : inflight[r] = Waiting
  BY DEF Init, UsersInit, TransactionsInit
<1>2. \A u \in DOMAIN Accounts : Accounts[u] \in UserRow /\ Accounts[u].status = "ACTIVE"
  BY AccountsAssumption DEF UserRow, UserStatus
<1>3. AccountsTyped
  BY <1>1, <1>2 DEF AccountsTyped
<1>4. ASSUME NEW r \in Requests PROVE AccountSound(r, inflight[r])
  <2>1. inflight[r].op = "waiting"
    BY <1>1 DEF Waiting
  <2> QED BY <2>1 DEF AccountSound
<1> PICK order \in [1..Cardinality(DOMAIN Accounts) -> DOMAIN Accounts] :
      sessions = [n \in DOMAIN order |-> Opened(order[n], 0, Accounts[order[n]].password, {})]
  BY DEF Init
<1>5. ASSUME NEW t \in Sessions
      PROVE  /\ sessions[t].user \in DOMAIN Accounts
             /\ sessions[t].by = {}
             /\ sessions[t].password = Accounts[sessions[t].user].password
  BY DEF Opened
<1>6. SessionsOwned /\ SessionsEnded
  BY <1>1, <1>2, <1>5, AccountsAssumption DEF SessionsOwned, SessionsEnded
<1> QED
  BY <1>3, <1>4, <1>6 DEF EndInv

LEMMA EndInvStep == IInv /\ EndInv /\ [Next]_vars => EndInv'
<1> SUFFICES ASSUME IInv, EndInv, [Next]_vars PROVE EndInv'
  OBVIOUS
<1>1. CASE UNCHANGED vars
  <2>1. UNCHANGED <<inflight, users, sessions, overlapping>>
    BY <1>1 DEF vars, identityVars
  <2> QED BY <2>1 DEF EndInv, AccountsTyped, SessionsOwned, SessionsEnded, AccountSound, OpenSessions, Over
<1>2. ASSUME NEW r \in Requests, Start(r) \/ GoOn(r) PROVE EndInv'
  BY <1>2, UsersStartEnds, UsersGoOnEnds, IssueTokensEnds, CommitRefreshEnds, OthersEnd DEF Start, GoOn
<1> QED
  BY <1>1, <1>2, ExpireEnds DEF Next

\* A deactivation and a new password end every session but those that requests
\* already under way create, and those these are exchanged for.
THEOREM EndingSafe == Spec => []SessionsEnded
<1>1. IInv /\ [Next]_vars => IInv'
  BY IInvStep
<1>2. EndInv => SessionsEnded
  BY DEF EndInv
<1> QED
  BY IInvInit, EndInvInit, EndInvStep, <1>1, <1>2, PTL DEF Spec

-------------------------------------------------------------------------------
(* The drivers' links.                                                         *)

\* A request that links a driver has read it as linked to nobody or to its user.
LinkInv ==
  \A r \in Requests :
    inflight[r].op \in {"link", "driver_portal"} => inflight[r].seen \in {None, inflight[r].id}

LinkTaken ==
  \A d \in Drivers : None \notin {links[d], links'[d]} /\ links'[d] # links[d] =>
    \E r \in Requests :
      /\ inflight[r].op \in {"link", "driver_portal"}
      /\ inflight[r].driver = d
      /\ inflight[r].seen \in {None, inflight[r].id}

LEMMA LinksUntouched ==
  ASSUME IInv, LinkInv, NEW r \in Requests, NEW i, Remember(r, i),
         i.op \in {"link", "driver_portal"} => i.seen \in {None, i.id}, links' = links
  PROVE  LinkInv' /\ LinkTaken
<1>1. inflight'[r] = i /\ \A q \in Requests : q # r => inflight'[q] = inflight[q]
  BY Remembered DEF IInv
<1> QED
  BY <1>1 DEF LinkInv, LinkTaken

LEMMA LinkStep == IInv /\ LinkInv /\ [Next]_vars => LinkInv' /\ LinkTaken
<1> SUFFICES ASSUME IInv, LinkInv, [Next]_vars PROVE LinkInv' /\ LinkTaken
  OBVIOUS
<1>1. CASE UNCHANGED vars \/ Expire
  <2>1. UNCHANGED <<inflight, links>>
    BY <1>1 DEF vars, identityVars, Expire
  <2> QED BY <2>1 DEF LinkInv, LinkTaken
<1>2. ASSUME NEW r \in Requests, CreateDriverPortalUser(r) \/ ReadLink(r) PROVE LinkInv' /\ LinkTaken
  <2>1. CASE CreateDriverPortalUser(r)
    <3> PICK u \in Users, password \in Passwords, d \in Drivers :
          /\ LinkFree(d, u)
          /\ Begin(r, [op |-> "driver_portal", locks |-> {}, id |-> u, password |-> password,
                       driver |-> d, seen |-> links[d]])
          /\ links' = links
      BY <2>1 DEF CreateDriverPortalUser, identityVars
    <3> PICK i : i = [op |-> "driver_portal", locks |-> {}, id |-> u, password |-> password,
                      driver |-> d, seen |-> links[d]]
      OBVIOUS
    <3>1. i.seen \in {None, i.id}
      BY DEF LinkFree
    <3> QED BY <3>1, LinksUntouched DEF Begin
  <2>2. CASE ReadLink(r)
    <3> PICK u \in Users, d \in Drivers \cup {None} :
          /\ d # None => LinkFree(d, u)
          /\ Begin(r, [op |-> "link", locks |-> {}, id |-> u, driver |-> d,
                       seen |-> IF d = None THEN None ELSE links[d]])
          /\ links' = links
      BY <2>2 DEF ReadLink, identityVars
    <3> PICK i : i = [op |-> "link", locks |-> {}, id |-> u, driver |-> d,
                      seen |-> IF d = None THEN None ELSE links[d]]
      OBVIOUS
    <3>1. i.seen \in {None, i.id}
      BY DEF LinkFree
    <3> QED BY <3>1, LinksUntouched DEF Begin
  <2> QED BY <1>2, <2>1, <2>2
<1>3. ASSUME NEW r \in Requests, CommitDriverPortalUser(r) \/ CommitLink(r) PROVE LinkInv' /\ LinkTaken
  <2> PICK i : i = inflight[r]
    OBVIOUS
  <2>1. End(r) /\ i.op \in {"link", "driver_portal"} /\ i.seen \in {None, i.id}
    BY <1>3 DEF CommitDriverPortalUser, CommitLink, LinkInv
  <2>2. inflight'[r] = Answered /\ \A q \in Requests : q # r => inflight'[q] = inflight[q]
    BY <2>1, Remembered DEF IInv, End
  <2>3. LinkInv'
    BY <2>2 DEF LinkInv, Answered
  <2>4. ASSUME NEW d \in Drivers, links'[d] # None, links'[d] # links[d] PROVE i.driver = d
    <3>1. CASE CommitDriverPortalUser(r)
      BY <2>4, <3>1 DEF CommitDriverPortalUser
    <3>2. CASE CommitLink(r)
      BY <2>4, <3>2 DEF CommitLink
    <3> QED BY <1>3, <3>1, <3>2
  <2> QED BY <2>1, <2>3, <2>4 DEF LinkTaken
<1>4. ASSUME NEW r \in Requests, NEW i, Remember(r, i), i.op \notin {"link", "driver_portal"}, links' = links
      PROVE  LinkInv' /\ LinkTaken
  BY <1>4, LinksUntouched
<1>5. ASSUME NEW r \in Requests, End(r), links' = links PROVE LinkInv' /\ LinkTaken
  <2>1. Answered.op \notin {"link", "driver_portal"}
    BY DEF Answered
  <2> QED BY <1>4, <1>5, <2>1 DEF End
<1>6. ASSUME NEW r \in Requests, Start(r) PROVE LinkInv' /\ LinkTaken
  <2>1. CASE \/ CreateUser(r) \/ CreateClientPortalUser(r) \/ CreateRole(r) \/ ReadPermissions(r)
             \/ ReadStatus(r) \/ ReadPassword(r) \/ ReadUser(r) \/ ReadSession(r)
    <3> PICK i : Remember(r, i) /\ i.op \notin {"link", "driver_portal"} /\ links' = links
      <4>1. CASE CreateUser(r) \/ CreateClientPortalUser(r) \/ CreateRole(r) \/ ReadPermissions(r)
        BY <4>1 DEF CreateUser, CreateClientPortalUser, CreateRole, ReadPermissions, Begin, identityVars
      <4>2. CASE ReadStatus(r) \/ ReadPassword(r) \/ ReadUser(r) \/ ReadSession(r)
        BY <4>2 DEF ReadStatus, ReadPassword, ReadUser, ReadSession, Begin, identityVars
      <4> QED BY <2>1, <4>1, <4>2
    <3> QED BY <1>4
  <2>2. CASE AssignOrganizationRole(r) \/ Logout(r)
    BY <1>5, <2>2 DEF AssignOrganizationRole, Logout
  <2> QED BY <1>2, <1>6, <2>1, <2>2 DEF Start, UsersStart
<1>7. ASSUME NEW r \in Requests, GoOn(r) PROVE LinkInv' /\ LinkTaken
  <2>1. CASE ListSessions(r) \/ RecordLogin(r)
    <3> PICK i : Remember(r, i) /\ i.op \notin {"link", "driver_portal"} /\ links' = links
      BY <2>1 DEF ListSessions, RecordLogin, identityVars
    <3> QED BY <1>4
  <2>2. CASE Consume(r)
    <3>1. links' = links
      BY <2>2 DEF Consume, identityVars
    <3>2. CASE End(r)
      BY <1>5, <3>1, <3>2
    <3>3. CASE ~End(r)
      <4> PICK i : Remember(r, i) /\ i.op = "consumed"
        BY <2>2, <3>3 DEF Consume
      <4> QED BY <1>4, <3>1
    <3> QED BY <3>2, <3>3
  <2>3. CASE \/ CommitCreate(r) \/ CommitClientPortalUser(r) \/ CommitRole(r) \/ SetPermissions(r)
             \/ Activate(r) \/ CommitRevocation(r) \/ IssueTokens(r) \/ CommitRefresh(r)
             \/ Rollback(r) /\ UNCHANGED identityVars
    <3>1. End(r) /\ links' = links
      BY <2>3 DEF CommitCreate, CommitClientPortalUser, CommitRole, SetPermissions, Activate,
                  CommitRevocation, IssueTokens, CommitRefresh, Rollback, identityVars
    <3> QED BY <1>5, <3>1
  <2> QED BY <1>3, <1>7, <2>1, <2>2, <2>3 DEF GoOn, UsersGoOn
<1> QED
  BY <1>1, <1>6, <1>7 DEF Next

\* UsersService takes a driver's account from one user for another only when it
\* read the driver as free, or as the other's.
THEOREM LinksSafe == Spec => LinkTakenByOverlapOnly
<1>1. Init => LinkInv
  BY DEF Init, TransactionsInit, LinkInv, Waiting
<1>2. IInv /\ [Next]_vars => IInv'
  BY IInvStep
<1>3. IInv /\ LinkInv /\ [Next]_vars =>
        [\A d \in Drivers : None \notin {links[d], links'[d]} /\ links'[d] # links[d] =>
           \E r \in Requests :
             /\ inflight[r].op \in {"link", "driver_portal"}
             /\ inflight[r].driver = d
             /\ inflight[r].seen \in {None, inflight[r].id}]_identityVars
  BY LinkStep DEF LinkTaken
<1>4. IInv /\ LinkInv /\ [Next]_vars => LinkInv'
  BY LinkStep
<1> QED
  BY IInvInit, <1>1, <1>2, <1>3, <1>4, PTL DEF Spec, LinkTakenByOverlapOnly

-------------------------------------------------------------------------------
(* The audited permissions of the roles.                                       *)

\* The changes chain, and end in the permissions there are, but for the portal's.
Chained(log, permissions, portal) ==
  /\ \A n \in DOMAIN log : n > 1 => log[n].old \ portal = log[n - 1].new \ portal
  /\ log # <<>> => permissions \ portal = log[Len(log)].new \ portal

Agree(role, old, new) == old \ Portal(role) = new \ Portal(role)

\* Behind the role's lock a request has read the permissions as they are, but for
\* what the provisioning of a portal adds without that lock.
RoleSound(i) ==
  /\ i.op = "new_role" => i.id \in Roles /\ i.new \subseteq Permissions
  /\ i.op = "permissions" =>
       /\ i.id \in Roles /\ i.seen \subseteq Permissions /\ i.new \subseteq Permissions
       /\ i.locks = {RoleLock(i.id)}
       /\ roles[i.id] # NoRole
       /\ i.seen \ Portal(i.id) = roles[i.id] \ Portal(i.id)

RolesLocked ==
  \A p, q \in Requests :
    p # q /\ inflight[p].op = "permissions" /\ inflight[q].op = "permissions"
    => inflight[p].id # inflight[q].id

\* Only a role that is there has audited changes.
RolesTyped ==
  /\ roles \in [Roles -> (SUBSET Permissions) \cup {NoRole}]
  /\ roleLog \in [Roles -> Seq(RoleChange)]
  /\ \A role \in Roles : roles[role] = NoRole => roleLog[role] = <<>>

AuditInv ==
  /\ RolesTyped
  /\ RolesLocked
  /\ \A r \in Requests : RoleSound(inflight[r])
  /\ \A role \in Roles : Chained(roleLog[role], roles[role], Portal(role))

LEMMA NoRoleIsNone == ASSUME NEW set, set \subseteq Permissions PROVE set # NoRole
  BY DEF NoRole, Permissions

LEMMA ChainGrows ==
  ASSUME NEW log \in Seq(RoleChange), NEW change \in RoleChange, NEW permissions, NEW portal,
         Chained(log, permissions, portal),
         log # <<>> => change.old \ portal = permissions \ portal
  PROVE  Chained(Append(log, change), change.new, portal)
<1> PICK l : l = Append(log, change)
  OBVIOUS
<1>1. /\ Len(log) \in Nat /\ DOMAIN log = 1..Len(log)
      /\ Len(l) = Len(log) + 1 /\ DOMAIN l = 1..(Len(log) + 1)
      /\ \A n \in DOMAIN log : l[n] = log[n]
      /\ l[Len(log) + 1] = change
  OBVIOUS
<1>2. ASSUME NEW n \in DOMAIN l, n > 1 PROVE l[n].old \ portal = l[n - 1].new \ portal
  <2>1. CASE n \in DOMAIN log
    <3>1. n - 1 \in DOMAIN log /\ l[n] = log[n] /\ l[n - 1] = log[n - 1]
      BY <1>1, <1>2, <2>1
    <3> QED BY <1>2, <2>1, <3>1 DEF Chained
  <2>2. CASE n = Len(log) + 1
    <3>1. log # <<>> /\ n - 1 = Len(log) /\ Len(log) \in DOMAIN log
      BY <1>1, <1>2, <2>2
    <3>2. l[n] = change /\ l[n - 1] = log[Len(log)]
      BY <1>1, <2>2, <3>1
    <3>3. permissions \ portal = log[Len(log)].new \ portal
      BY <3>1 DEF Chained
    <3>4. change.old \ portal = permissions \ portal
      BY <3>1
    <3> QED BY <3>2, <3>3, <3>4
  <2>3. n \in DOMAIN log \/ n = Len(log) + 1
    BY <1>1
  <2> QED BY <2>1, <2>2, <2>3
<1>3. change.new \ portal = l[Len(l)].new \ portal
  BY <1>1
<1> QED
  BY <1>2, <1>3 DEF Chained

\* A request that changes no role; in particular one that ends.
LEMMA RolesUntouched ==
  ASSUME IInv, AuditInv, NEW r \in Requests, NEW i, Remember(r, i),
         i.op # "permissions", RoleSound(i), UNCHANGED <<roles, roleLog>>
  PROVE  AuditInv'
<1>1. inflight'[r] = i /\ \A q \in Requests : q # r => inflight'[q] = inflight[q]
  BY Remembered DEF IInv
<1>2. RolesLocked'
  BY <1>1 DEF AuditInv, RolesLocked
<1>3. \A q \in Requests : RoleSound(inflight[q])'
  BY <1>1 DEF AuditInv, RoleSound
<1>4. RolesTyped'
  BY DEF AuditInv, RolesTyped
<1>5. \A role \in Roles : Chained(roleLog[role], roles[role], Portal(role))'
  BY DEF AuditInv, Chained, Portal
<1> QED
  BY <1>2, <1>3, <1>4, <1>5 DEF AuditInv

LEMMA RolesEnd ==
  ASSUME IInv, AuditInv, NEW r \in Requests, End(r), UNCHANGED <<roles, roleLog>>
  PROVE  AuditInv'
<1>1. Answered.op = "answered"
  BY DEF Answered
<1>2. RoleSound(Answered)
  BY <1>1 DEF RoleSound
<1> QED
  BY <1>1, <1>2, RolesUntouched DEF End

\* The lock is free: nobody else is about to change the role.
LEMMA ReadPermissionsAudited ==
  ASSUME IInv, AuditInv, NEW r \in Requests, ReadPermissions(r)
  PROVE  AuditInv'
<1> PICK role \in Roles, permissions \in PermissionSets :
      /\ roles[role] # NoRole
      /\ Available(RoleLock(role), r)
      /\ Begin(r, [op |-> "permissions", locks |-> {RoleLock(role)}, id |-> role,
                   seen |-> roles[role], new |-> permissions])
      /\ UNCHANGED <<roles, roleLog>>
  BY DEF ReadPermissions, identityVars
<1> PICK i : i = [op |-> "permissions", locks |-> {RoleLock(role)}, id |-> role,
                  seen |-> roles[role], new |-> permissions]
  OBVIOUS
<1>1. inflight'[r] = i /\ \A q \in Requests : q # r => inflight'[q] = inflight[q]
  BY Remembered DEF IInv, Begin
<1>2. /\ i.op = "permissions" /\ i.locks = {RoleLock(role)} /\ i.id = role
      /\ i.seen = roles[role] /\ i.new = permissions
  OBVIOUS
<1>3. permissions \subseteq Permissions /\ roles[role] \subseteq Permissions
  <2>1. permissions \in SUBSET Permissions
    BY PermissionSetsAssumption
  <2>2. roles[role] \in (SUBSET Permissions) \cup {NoRole}
    BY DEF AuditInv, RolesTyped
  <2> QED BY <2>1, <2>2
<1>4. ASSUME NEW q \in Requests PROVE RoleSound(inflight[q])'
  <2>1. CASE q = r
    BY <1>1, <1>2, <1>3, <2>1 DEF RoleSound, RoleLock
  <2>2. CASE q # r
    BY <1>1, <2>2 DEF AuditInv, RoleSound
  <2> QED BY <2>1, <2>2
<1>5. RolesLocked'
  <2> SUFFICES ASSUME NEW q \in Requests, q # r, inflight[q].op = "permissions"
               PROVE  inflight[q].id # role
    BY <1>1, <1>2 DEF AuditInv, RolesLocked
  <2>1. inflight[q].locks = {RoleLock(inflight[q].id)}
    BY DEF AuditInv, RoleSound
  <2> QED BY <2>1 DEF Available
<1>6. RolesTyped'
  BY DEF AuditInv, RolesTyped
<1>7. \A k \in Roles : Chained(roleLog[k], roles[k], Portal(k))'
  BY DEF AuditInv, Chained, Portal
<1> QED
  BY <1>4, <1>5, <1>6, <1>7 DEF AuditInv

\* A change that is recorded: nobody else has read the role's permissions, and
\* what the record calls old are the permissions there were.
LEMMA RecordedChange ==
  ASSUME IInv, AuditInv, NEW r \in Requests, End(r), NEW role \in Roles, NEW change \in RoleChange,
         roles' = [roles EXCEPT ![role] = change.new],
         roleLog' = [roleLog EXCEPT ![role] = Append(@, change)],
         roleLog[role] # <<>> => Agree(role, change.old, roles[role]),
         \A q \in Requests \ {r} : inflight[q].op = "permissions" => inflight[q].id # role
  PROVE  AuditInv'
<1>1. inflight'[r] = Answered /\ \A q \in Requests : q # r => inflight'[q] = inflight[q]
  BY Remembered DEF IInv, End
<1>2. change.new \subseteq Permissions
  BY DEF RoleChange
<1> PICK longer : longer = Append(roleLog[role], change)
  OBVIOUS
<1>3. roleLog[role] \in Seq(RoleChange) /\ longer \in Seq(RoleChange)
  BY DEF AuditInv, RolesTyped
<1>4. /\ roles'[role] = change.new /\ roleLog'[role] = longer
      /\ \A k \in Roles : k # role => roles'[k] = roles[k] /\ roleLog'[k] = roleLog[k]
  BY DEF AuditInv, RolesTyped
<1>5. RolesTyped'
  <2>1. change.new # NoRole
    BY <1>2, NoRoleIsNone
  <2>2. \A k \in Roles : roles'[k] = NoRole => roleLog'[k] = <<>>
    BY <1>4, <2>1 DEF AuditInv, RolesTyped
  <2>3. roles' \in [Roles -> (SUBSET Permissions) \cup {NoRole}]
    BY <1>2 DEF AuditInv, RolesTyped
  <2>4. roleLog' \in [Roles -> Seq(RoleChange)]
    BY <1>3 DEF AuditInv, RolesTyped
  <2> QED BY <2>2, <2>3, <2>4 DEF RolesTyped
<1>6. ASSUME NEW q \in Requests PROVE RoleSound(inflight[q])'
  <2>1. CASE q = r
    BY <1>1, <2>1 DEF RoleSound, Answered
  <2>2. CASE q # r
    <3>1. RoleSound(inflight[q]) /\ inflight'[q] = inflight[q]
      BY <1>1, <2>2 DEF AuditInv
    <3>2. inflight[q].op = "permissions" => roles'[inflight[q].id] = roles[inflight[q].id]
      BY <1>4, <2>2, <3>1 DEF RoleSound
    <3> QED BY <3>1, <3>2 DEF RoleSound
  <2> QED BY <2>1, <2>2
<1>7. RolesLocked'
  BY <1>1 DEF AuditInv, RolesLocked, Answered
<1>8. ASSUME NEW k \in Roles PROVE Chained(roleLog[k], roles[k], Portal(k))'
  <2>1. CASE k = role
    <3>1. Chained(longer, change.new, Portal(role))
      BY <1>3, ChainGrows DEF AuditInv, Agree
    <3> QED BY <1>4, <2>1, <3>1 DEF Chained, Portal
  <2>2. CASE k # role
    BY <1>4, <2>2 DEF AuditInv, Chained, Portal
  <2> QED BY <2>1, <2>2
<1> QED
  BY <1>5, <1>6, <1>7, <1>8 DEF AuditInv

\* The permissions that provisioning adds are left out of what chains.
LEMMA ProvisioningAudited ==
  ASSUME IInv, AuditInv, NEW r \in Requests, End(r), NEW role \in Roles, NEW permission \in Permissions,
         Portal(role) = {permission}, roles' = Provisioned(role, permission), roleLog' = roleLog
  PROVE  AuditInv'
<1>1. inflight'[r] = Answered /\ \A q \in Requests : q # r => inflight'[q] = inflight[q]
  BY Remembered DEF IInv, End
<1> PICK before : before = IF roles[role] = NoRole THEN {} ELSE roles[role]
  OBVIOUS
<1>2. /\ roles' = [roles EXCEPT ![role] = before \cup {permission}]
      /\ before \cup {permission} \subseteq Permissions
  <2>1. roles' = [roles EXCEPT ![role] = before \cup {permission}]
    BY DEF Provisioned
  <2>2. roles[role] \in (SUBSET Permissions) \cup {NoRole}
    BY DEF AuditInv, RolesTyped
  <2>3. before \subseteq Permissions
    BY <2>2
  <2> QED BY <2>1, <2>3
<1>3. /\ roles'[role] = before \cup {permission}
      /\ roles'[role] # NoRole
      /\ \A k \in Roles : k # role => roles'[k] = roles[k]
      /\ roles' \in [Roles -> (SUBSET Permissions) \cup {NoRole}]
  BY <1>2, NoRoleIsNone DEF AuditInv, RolesTyped
<1>4. RolesTyped'
  BY <1>3 DEF AuditInv, RolesTyped
<1>5. roles[role] # NoRole => roles'[role] \ Portal(role) = roles[role] \ Portal(role)
  BY <1>3
<1>6. ASSUME NEW q \in Requests PROVE RoleSound(inflight[q])'
  <2>1. CASE q = r
    BY <1>1, <2>1 DEF RoleSound, Answered
  <2>2. CASE q # r
    <3>1. RoleSound(inflight[q]) /\ inflight'[q] = inflight[q]
      BY <1>1, <2>2 DEF AuditInv
    <3>2. inflight[q].op = "permissions" =>
            /\ roles'[inflight[q].id] # NoRole
            /\ roles'[inflight[q].id] \ Portal(inflight[q].id)
                 = roles[inflight[q].id] \ Portal(inflight[q].id)
      BY <1>3, <1>5, <3>1 DEF RoleSound
    <3> QED BY <3>1, <3>2 DEF RoleSound, Portal
  <2> QED BY <2>1, <2>2
<1>7. RolesLocked'
  BY <1>1 DEF AuditInv, RolesLocked, Answered
<1>8. ASSUME NEW k \in Roles PROVE Chained(roleLog[k], roles[k], Portal(k))'
  <2>1. CASE k = role /\ roles[role] = NoRole
    <3>1. roleLog'[k] = <<>>
      BY <2>1 DEF AuditInv, RolesTyped
    <3> QED BY <3>1 DEF Chained
  <2>2. CASE k = role /\ roles[role] # NoRole
    BY <1>5, <2>2 DEF AuditInv, Chained, Portal
  <2>3. CASE k # role
    BY <1>3, <2>3 DEF AuditInv, Chained, Portal
  <2> QED BY <2>1, <2>2, <2>3
<1> QED
  BY <1>4, <1>6, <1>7, <1>8 DEF AuditInv

LEMMA AuditInit == Init => AuditInv
<1> SUFFICES ASSUME Init PROVE AuditInv
  OBVIOUS
<1>1. /\ roles = [role \in Roles |->
           IF role \in DOMAIN RolesAtStart THEN RolesAtStart[role] ELSE NoRole]
      /\ roleLog = [role \in Roles |-> <<>>]
      /\ \A r \in Requests : inflight[r] = Waiting
  BY DEF Init, UsersInit, TransactionsInit
<1>2. RolesTyped
  <2>1. \A role \in DOMAIN RolesAtStart : RolesAtStart[role] \in SUBSET Permissions
    BY RolesAssumption
  <2>2. roles \in [Roles -> (SUBSET Permissions) \cup {NoRole}]
    BY <1>1, <2>1
  <2>3. roleLog \in [Roles -> Seq(RoleChange)] /\ \A role \in Roles : roleLog[role] = <<>>
    BY <1>1
  <2> QED BY <2>2, <2>3 DEF RolesTyped
<1>3. ASSUME NEW role \in Roles PROVE Chained(roleLog[role], roles[role], Portal(role))
  <2>1. roleLog[role] = <<>> /\ DOMAIN << >> = {}
    BY <1>1
  <2> QED BY <2>1 DEF Chained
<1>4. RolesLocked /\ \A r \in Requests : RoleSound(inflight[r])
  <2>1. ASSUME NEW r \in Requests PROVE inflight[r].op = "waiting"
    BY <1>1 DEF Waiting
  <2>2. RolesLocked
    BY <2>1 DEF RolesLocked
  <2>3. ASSUME NEW r \in Requests PROVE RoleSound(inflight[r])
    BY <2>1 DEF RoleSound
  <2> QED BY <2>2, <2>3
<1> QED
  BY <1>2, <1>3, <1>4 DEF AuditInv

LEMMA AuditStep == IInv /\ AuditInv /\ [Next]_vars => AuditInv'
<1> SUFFICES ASSUME IInv, AuditInv, [Next]_vars PROVE AuditInv'
  OBVIOUS
<1>1. CASE UNCHANGED vars \/ Expire
  <2>1. UNCHANGED <<inflight, roles, roleLog>>
    BY <1>1 DEF vars, identityVars, Expire
  <2> QED BY <2>1 DEF AuditInv, RolesTyped, RolesLocked, RoleSound, Chained, Portal
<1>2. ASSUME NEW r \in Requests, NEW i, Remember(r, i), i.op \notin {"new_role", "permissions"},
             UNCHANGED <<roles, roleLog>>
      PROVE  AuditInv'
  <2>1. RoleSound(i)
    BY <1>2 DEF RoleSound
  <2> QED BY <1>2, <2>1, RolesUntouched
<1>3. ASSUME NEW r \in Requests, Start(r) PROVE AuditInv'
  <2>1. CASE \/ CreateUser(r) \/ CreateClientPortalUser(r) \/ CreateDriverPortalUser(r) \/ ReadLink(r)
             \/ ReadStatus(r) \/ ReadPassword(r) \/ ReadUser(r) \/ ReadSession(r)
    <3> PICK i : Remember(r, i) /\ i.op \notin {"new_role", "permissions"} /\ UNCHANGED <<roles, roleLog>>
      <4>1. CASE CreateUser(r) \/ CreateClientPortalUser(r) \/ CreateDriverPortalUser(r) \/ ReadLink(r)
        BY <4>1 DEF CreateUser, CreateClientPortalUser, CreateDriverPortalUser, ReadLink, Begin, identityVars
      <4>2. CASE ReadStatus(r) \/ ReadPassword(r) \/ ReadUser(r) \/ ReadSession(r)
        BY <4>2 DEF ReadStatus, ReadPassword, ReadUser, ReadSession, Begin, identityVars
      <4> QED BY <2>1, <4>1, <4>2
    <3> QED BY <1>2
  <2>2. CASE CreateRole(r)
    <3> PICK i : /\ Remember(r, i) /\ i.op = "new_role" /\ i.id \in Roles /\ i.new \in PermissionSets
                 /\ UNCHANGED <<roles, roleLog>>
      BY <2>2 DEF CreateRole, Begin, identityVars
    <3>1. RoleSound(i)
      BY PermissionSetsAssumption DEF RoleSound
    <3> QED BY <3>1, RolesUntouched
  <2>3. CASE AssignOrganizationRole(r) \/ Logout(r)
    BY <2>3, RolesEnd DEF AssignOrganizationRole, Logout
  <2> QED BY <1>3, <2>1, <2>2, <2>3, ReadPermissionsAudited DEF Start, UsersStart
<1>4. ASSUME NEW r \in Requests, GoOn(r) PROVE AuditInv'
  <2> PICK i : i = inflight[r]
    OBVIOUS
  <2>0. RoleSound(i)
    BY DEF AuditInv
  <2>1. CASE ListSessions(r) \/ RecordLogin(r)
    <3> PICK j : Remember(r, j) /\ j.op \notin {"new_role", "permissions"} /\ UNCHANGED <<roles, roleLog>>
      BY <2>1 DEF ListSessions, RecordLogin, identityVars
    <3> QED BY <1>2
  <2>2. CASE Consume(r)
    <3>1. UNCHANGED <<roles, roleLog>>
      BY <2>2 DEF Consume, identityVars
    <3>2. CASE End(r)
      BY <3>1, <3>2, RolesEnd
    <3>3. CASE ~End(r)
      <4> PICK j : Remember(r, j) /\ j.op = "consumed"
        BY <2>2, <3>3 DEF Consume
      <4> QED BY <1>2, <3>1
    <3> QED BY <3>2, <3>3
  <2>3. CASE \/ CommitCreate(r) \/ CommitLink(r) \/ Activate(r) \/ CommitRevocation(r)
             \/ IssueTokens(r) \/ CommitRefresh(r)
             \/ Rollback(r) /\ UNCHANGED identityVars
    <3>1. End(r) /\ UNCHANGED <<roles, roleLog>>
      BY <2>3 DEF CommitCreate, CommitLink, Activate, CommitRevocation, IssueTokens, CommitRefresh,
                  Rollback, identityVars
    <3> QED BY <3>1, RolesEnd
  <2>4. CASE CommitClientPortalUser(r)
    <3>1. Portal(ClientPortal) = {"client_portal"} /\ "client_portal" \in Permissions
      BY DEF Portal, Permissions, ClientPortal, DriverPortal
    <3> QED BY <2>4, <3>1, ProvisioningAudited, RolesAssumption DEF CommitClientPortalUser
  <2>5. CASE CommitDriverPortalUser(r)
    <3>1. Portal(DriverPortal) = {"driver_portal"} /\ "driver_portal" \in Permissions
      BY DEF Portal, Permissions, ClientPortal, DriverPortal
    <3> QED BY <2>5, <3>1, ProvisioningAudited, RolesAssumption DEF CommitDriverPortalUser
  <2>6. CASE CommitRole(r)
    <3> PICK role : role = i.id
      OBVIOUS
    <3> PICK change : change = [old |-> {}, new |-> i.new]
      OBVIOUS
    <3>1. /\ i.op = "new_role" /\ roles[role] = NoRole /\ End(r)
          /\ roles' = [roles EXCEPT ![role] = change.new]
          /\ roleLog' = [roleLog EXCEPT ![role] = Append(@, change)]
      BY <2>6 DEF CommitRole
    <3>2. role \in Roles /\ change \in RoleChange
      BY <2>0, <3>1 DEF RoleSound, RoleChange
    <3>3. roleLog[role] = <<>>
      BY <3>1, <3>2 DEF AuditInv, RolesTyped
    <3>4. \A q \in Requests \ {r} : inflight[q].op = "permissions" => inflight[q].id # role
      BY <3>1 DEF AuditInv, RoleSound
    <3> QED BY <3>1, <3>2, <3>3, <3>4, RecordedChange
  <2>7. CASE SetPermissions(r)
    <3> PICK role : role = i.id
      OBVIOUS
    <3> PICK change : change = [old |-> i.seen, new |-> i.new]
      OBVIOUS
    <3>1. /\ i.op = "permissions" /\ End(r)
          /\ roles' = [roles EXCEPT ![role] = change.new]
          /\ roleLog' = [roleLog EXCEPT ![role] = Append(@, change)]
      BY <2>7 DEF SetPermissions
    <3>2. role \in Roles /\ change \in RoleChange
      BY <2>0, <3>1 DEF RoleSound, RoleChange
    <3>3. \A q \in Requests \ {r} : inflight[q].op = "permissions" => inflight[q].id # role
      BY <3>1 DEF AuditInv, RolesLocked
    <3>4. Agree(role, change.old, roles[role])
      BY <2>0, <3>1 DEF RoleSound, Agree
    <3> QED BY <3>1, <3>2, <3>3, <3>4, RecordedChange
  <2> QED BY <1>4, <2>1, <2>2, <2>3, <2>4, <2>5, <2>6, <2>7 DEF GoOn, UsersGoOn
<1> QED
  BY <1>1, <1>3, <1>4 DEF Next

\* No administrator overwrites a change of a role's permissions that the record
\* does not show, however creations, changes and provisionings overlap.
THEOREM AuditSafe == Spec => []AccessAudited
<1>1. IInv /\ [Next]_vars => IInv'
  BY IInvStep
<1>2. AuditInv => AccessAudited
  BY DEF AuditInv, Chained, AccessAudited
<1> QED
  BY IInvInit, AuditInit, AuditStep, <1>1, <1>2, PTL DEF Spec

-------------------------------------------------------------------------------
(* The types.                                                                  *)

Intent == CreateRequest \cup AccessRequest \cup AccountRequest \cup SessionRequest

Known == {Waiting, Answered} \cup Intent

\* The users, the roles and the record have theirs by the invariants above.
TypeInv ==
  /\ \A r \in Requests : inflight[r] \in Known
  /\ grants \subseteq Users \X Roles \X ({"ORGANIZATION"} \cup Clients)
  /\ links \in [Drivers -> Users \cup {None}]
  /\ \A t \in Sessions : sessions[t] \in SessionRow

\* What the kinds of requests remember.
LEMMA KnownFields ==
  ASSUME NEW i \in Known
  PROVE  /\ i.op \in {"create", "client_portal", "driver_portal"} =>
              i.id \in Users /\ i.password \in Passwords
         /\ i.op = "client_portal" => i.client \in Clients
         /\ i.op = "driver_portal" => i.driver \in Drivers
         /\ i.op = "link" => i.id \in Users
         /\ i.op = "status" => i.id \in Users /\ i.locks = {StatusLock(i.id)} /\ i.target \in UserStatus
         /\ i.op = "password" => i.id \in Users /\ i.locks = {PasswordLock(i.id)} /\ i.target \in Passwords
         /\ i.op \in {"login", "recorded"} => i.user \in Users /\ i.password \in Passwords
         /\ i.op \in {"refresh", "consumed"} => i.token \in Sessions
<1>1. CASE i \in {Waiting, Answered}
  BY <1>1 DEF Waiting, Answered
<1>2. CASE i \in CreateRequest
  BY <1>2 DEF CreateRequest
<1>3. CASE i \in AccessRequest
  BY <1>3 DEF AccessRequest
<1>4. CASE i \in AccountRequest
  BY <1>4 DEF AccountRequest
<1>5. CASE i \in SessionRequest
  BY <1>5 DEF SessionRequest
<1> QED
  BY <1>1, <1>2, <1>3, <1>4, <1>5 DEF Known, Intent

\* No session goes away, so what a request has listed or read is still there.
LEMMA KnownStays ==
  ASSUME Sessions \subseteq Sessions', NEW i \in Known
  PROVE  i \in Known'
<1>1. CASE i \in AccountRequest
  <2>1. i \in AccountRequest'
    BY <1>1 DEF AccountRequest
  <2> QED BY <2>1 DEF Known, Intent
<1>2. CASE i \in SessionRequest
  <2>1. i \in SessionRequest'
    BY <1>2 DEF SessionRequest
  <2> QED BY <2>1 DEF Known, Intent
<1>3. CASE i \in {Waiting, Answered} \cup CreateRequest \cup AccessRequest
  BY <1>3 DEF Known, Intent, Waiting, Answered, CreateRequest, AccessRequest
<1> QED
  BY <1>1, <1>2, <1>3 DEF Known, Intent

LEMMA KnownAll ==
  ASSUME IInv, TypeInv, Sessions \subseteq Sessions', NEW r \in Requests, NEW i \in Known', Remember(r, i)
  PROVE  \A q \in Requests : inflight'[q] \in Known'
<1>1. inflight'[r] = i /\ \A q \in Requests : q # r => inflight'[q] = inflight[q]
  BY Remembered DEF IInv
<1>2. ASSUME NEW q \in Requests, q # r PROVE inflight'[q] \in Known'
  BY <1>1, <1>2, KnownStays DEF TypeInv
<1> QED
  BY <1>1, <1>2

\* A request that begins or goes on, and changes nothing yet.
LEMMA OnlyRemembers ==
  ASSUME IInv, TypeInv, NEW r \in Requests, NEW i \in Known, Remember(r, i), UNCHANGED identityVars
  PROVE  TypeInv'
<1>1. UNCHANGED <<grants, links, sessions>>
  BY DEF identityVars
<1>2. i \in Known'
  BY <1>1, KnownStays
<1>3. \A q \in Requests : inflight'[q] \in Known'
  BY <1>1, <1>2, KnownAll
<1> QED
  BY <1>1, <1>3 DEF TypeInv, SessionRow

\* A request that ends, and leaves sessions, assignments and links of their type.
LEMMA EndsTyped ==
  ASSUME IInv, TypeInv, NEW r \in Requests, End(r), Sessions \subseteq Sessions',
         grants' \subseteq Users \X Roles \X ({"ORGANIZATION"} \cup Clients),
         links' \in [Drivers -> Users \cup {None}],
         \A t \in Sessions' : sessions'[t] \in SessionRow
  PROVE  TypeInv'
<1>1. Answered \in Known'
  BY DEF Known, Answered
<1>2. \A q \in Requests : inflight'[q] \in Known'
  BY <1>1, KnownAll DEF End
<1> QED
  BY <1>2 DEF TypeInv, SessionRow

LEMMA StartTyped ==
  ASSUME IInv, EndInv, AuditInv, TypeInv, NEW r \in Requests, Start(r)
  PROVE  TypeInv'
<1>0. ASSUME NEW i \in Known, Begin(r, i), UNCHANGED identityVars PROVE TypeInv'
  BY <1>0, OnlyRemembers DEF Begin
<1>1. CASE CreateUser(r)
  <2> PICK u \in Users, password \in Passwords :
        /\ Begin(r, [op |-> "create", locks |-> {}, id |-> u, password |-> password])
        /\ UNCHANGED identityVars
    BY <1>1 DEF CreateUser
  <2>1. [op |-> "create", locks |-> {}, id |-> u, password |-> password] \in Known
    BY DEF Known, Intent, CreateRequest
  <2> QED BY <1>0, <2>1
<1>2. CASE CreateClientPortalUser(r)
  <2> PICK u \in Users, password \in Passwords, client \in Clients :
        /\ Begin(r, [op |-> "client_portal", locks |-> {}, id |-> u, password |-> password,
                     client |-> client])
        /\ UNCHANGED identityVars
    BY <1>2 DEF CreateClientPortalUser
  <2>1. [op |-> "client_portal", locks |-> {}, id |-> u, password |-> password, client |-> client] \in Known
    BY DEF Known, Intent, CreateRequest
  <2> QED BY <1>0, <2>1
<1>3. CASE CreateDriverPortalUser(r)
  <2> PICK u \in Users, password \in Passwords, d \in Drivers :
        /\ Begin(r, [op |-> "driver_portal", locks |-> {}, id |-> u, password |-> password,
                     driver |-> d, seen |-> links[d]])
        /\ UNCHANGED identityVars
    BY <1>3 DEF CreateDriverPortalUser
  <2>1. links[d] \in Users \cup {None}
    BY DEF TypeInv
  <2>2. [op |-> "driver_portal", locks |-> {}, id |-> u, password |-> password,
         driver |-> d, seen |-> links[d]] \in Known
    BY <2>1 DEF Known, Intent, CreateRequest
  <2> QED BY <1>0, <2>2
<1>4. CASE ReadLink(r)
  <2> PICK u \in Users, d \in Drivers \cup {None} :
        /\ Begin(r, [op |-> "link", locks |-> {}, id |-> u, driver |-> d,
                     seen |-> IF d = None THEN None ELSE links[d]])
        /\ UNCHANGED identityVars
    BY <1>4 DEF ReadLink
  <2> PICK seen : seen = IF d = None THEN None ELSE links[d]
    OBVIOUS
  <2>1. seen \in Users \cup {None}
    BY DEF TypeInv
  <2>2. [op |-> "link", locks |-> {}, id |-> u, driver |-> d, seen |-> seen] \in Known
    BY <2>1 DEF Known, Intent, AccessRequest
  <2> QED BY <1>0, <2>2
<1>5. CASE AssignOrganizationRole(r)
  <2> PICK u \in Users, role \in Roles :
        /\ End(r) /\ grants' = grants \cup {<<u, role, "ORGANIZATION">>}
        /\ UNCHANGED <<links, sessions>>
    BY <1>5 DEF AssignOrganizationRole
  <2>1. grants' \subseteq Users \X Roles \X ({"ORGANIZATION"} \cup Clients)
    BY DEF TypeInv
  <2> QED BY <2>1, EndsTyped DEF TypeInv
<1>6. CASE CreateRole(r)
  <2> PICK role \in Roles, permissions \in PermissionSets :
        /\ Begin(r, [op |-> "new_role", locks |-> {}, id |-> role, new |-> permissions])
        /\ UNCHANGED identityVars
    BY <1>6 DEF CreateRole
  <2>1. [op |-> "new_role", locks |-> {}, id |-> role, new |-> permissions] \in Known
    BY PermissionSetsAssumption DEF Known, Intent, AccessRequest
  <2> QED BY <1>0, <2>1
<1>7. CASE ReadPermissions(r)
  <2> PICK role \in Roles, permissions \in PermissionSets :
        /\ roles[role] # NoRole
        /\ Begin(r, [op |-> "permissions", locks |-> {RoleLock(role)}, id |-> role,
                     seen |-> roles[role], new |-> permissions])
        /\ UNCHANGED identityVars
    BY <1>7 DEF ReadPermissions
  <2> PICK i : i = [op |-> "permissions", locks |-> {RoleLock(role)}, id |-> role,
                    seen |-> roles[role], new |-> permissions]
    OBVIOUS
  <2>1. roles[role] \in SUBSET Permissions /\ permissions \in SUBSET Permissions
    BY PermissionSetsAssumption DEF AuditInv, RolesTyped
  <2>2. i \in [op : {"permissions"}, locks : {{RoleLock(role)}}, id : {role},
               seen : SUBSET Permissions, new : SUBSET Permissions]
    BY <2>1
  <2>3. i \in AccessRequest
    BY <2>2 DEF AccessRequest
  <2>4. i \in Known
    BY <2>3 DEF Known, Intent
  <2> QED BY <1>0, <2>4
<1>8. CASE ReadStatus(r)
  <2> PICK u \in Users, status \in UserStatus :
        /\ ~Free(u)
        /\ Begin(r, [op |-> "status", locks |-> {StatusLock(u)}, id |-> u,
                     seen |-> users[u].status, target |-> status])
        /\ UNCHANGED identityVars
    BY <1>8 DEF ReadStatus
  <2> PICK i : i = [op |-> "status", locks |-> {StatusLock(u)}, id |-> u,
                    seen |-> users[u].status, target |-> status]
    OBVIOUS
  <2>1. users[u].status \in UserStatus
    BY DEF Free, EndInv, AccountsTyped, UserRow
  <2>2. i \in [op : {"status"}, locks : {{StatusLock(u)}}, id : {u}, seen : UserStatus, target : UserStatus]
    BY <2>1
  <2>3. i \in AccountRequest
    BY <2>2 DEF AccountRequest
  <2>4. i \in Known
    BY <2>3 DEF Known, Intent
  <2> QED BY <1>0, <2>4
<1>9. CASE ReadPassword(r)
  <2> PICK u \in Users, password \in Passwords :
        /\ Begin(r, [op |-> "password", locks |-> {PasswordLock(u)}, id |-> u, target |-> password])
        /\ UNCHANGED identityVars
    BY <1>9 DEF ReadPassword
  <2> PICK i : i = [op |-> "password", locks |-> {PasswordLock(u)}, id |-> u, target |-> password]
    OBVIOUS
  <2>1. i \in AccountRequest
    BY DEF AccountRequest
  <2>2. i \in Known
    BY <2>1 DEF Known, Intent
  <2> QED BY <1>0, <2>2
<1>10. CASE ReadUser(r)
  <2> PICK u \in Users :
        /\ users[u].status = "ACTIVE"
        /\ Begin(r, [op |-> "login", locks |-> {}, user |-> u, password |-> users[u].password])
        /\ UNCHANGED identityVars
    BY <1>10 DEF ReadUser
  <2>1. users[u].password \in Passwords
    BY DEF EndInv, AccountsTyped, UserRow, NoUser
  <2>2. [op |-> "login", locks |-> {}, user |-> u, password |-> users[u].password] \in Known
    BY <2>1 DEF Known, Intent, SessionRequest
  <2> QED BY <1>0, <2>2
<1>11. CASE ReadSession(r)
  <2> PICK t \in Sessions :
        /\ Begin(r, [op |-> "refresh", locks |-> {}, token |-> t])
        /\ UNCHANGED identityVars
    BY <1>11 DEF ReadSession
  <2>1. [op |-> "refresh", locks |-> {}, token |-> t] \in Known
    BY DEF Known, Intent, SessionRequest
  <2> QED BY <1>0, <2>1
<1>12. CASE Logout(r)
  <2> PICK t \in Sessions :
        /\ End(r) /\ sessions' = [sessions EXCEPT ![t].revoked = TRUE]
        /\ UNCHANGED <<grants, links>>
    BY <1>12 DEF Logout
  <2>1. DOMAIN sessions' = Sessions /\ \A n \in Sessions : sessions'[n] \in SessionRow
    BY DEF TypeInv, SessionRow
  <2> QED BY <2>1, EndsTyped DEF TypeInv
<1> QED
  BY <1>1, <1>2, <1>3, <1>4, <1>5, <1>6, <1>7, <1>8, <1>9, <1>10, <1>11, <1>12 DEF Start, UsersStart

\* A row more at the end.
LEMMA OpenedTyped ==
  ASSUME IInv, TypeInv, NEW row \in SessionRow, NEW rows, DOMAIN rows = Sessions,
         IsSequence(rows), \A t \in Sessions : rows[t] \in SessionRow, sessions' = Append(rows, row)
  PROVE  Sessions \subseteq Sessions' /\ \A t \in Sessions' : sessions'[t] \in SessionRow
<1>1. /\ Len(rows) \in Nat /\ DOMAIN rows = 1..Len(rows)
      /\ DOMAIN sessions' = 1..(Len(rows) + 1)
      /\ \A k \in DOMAIN rows : sessions'[k] = rows[k]
      /\ sessions'[Len(rows) + 1] = row
  BY AppendFacts
<1> QED
  BY <1>1

LEMMA GoOnTyped ==
  ASSUME IInv, EndInv, AuditInv, TypeInv, NEW r \in Requests, GoOn(r)
  PROVE  TypeInv'
<1> PICK i \in Known : i = inflight[r]
  BY DEF TypeInv
<1>0. ASSUME UNCHANGED <<grants, links, sessions>>, End(r) PROVE TypeInv'
  BY <1>0, EndsTyped DEF TypeInv
<1>1. CASE \/ CommitCreate(r) \/ CommitRole(r) \/ SetPermissions(r) \/ Activate(r)
           \/ Rollback(r) /\ UNCHANGED identityVars
  <2>1. UNCHANGED <<grants, links, sessions>> /\ End(r)
    BY <1>1 DEF CommitCreate, CommitRole, SetPermissions, Activate, Rollback, identityVars
  <2> QED BY <1>0, <2>1
<1>2. CASE CommitClientPortalUser(r)
  <2>1. /\ i.op = "client_portal" /\ End(r) /\ grants' = grants \cup {<<i.id, ClientPortal, i.client>>}
        /\ UNCHANGED <<links, sessions>>
    BY <1>2 DEF CommitClientPortalUser
  <2>2. i.id \in Users /\ i.client \in Clients /\ ClientPortal \in Roles
    BY <2>1, KnownFields, RolesAssumption
  <2>3. grants' \subseteq Users \X Roles \X ({"ORGANIZATION"} \cup Clients)
    BY <2>1, <2>2 DEF TypeInv
  <2> QED BY <2>1, <2>3, EndsTyped DEF TypeInv
<1>3. CASE CommitDriverPortalUser(r)
  <2>1. /\ i.op = "driver_portal" /\ End(r)
        /\ grants' = grants \cup {<<i.id, DriverPortal, "ORGANIZATION">>}
        /\ links' = [links EXCEPT ![i.driver] = i.id]
        /\ UNCHANGED sessions
    BY <1>3 DEF CommitDriverPortalUser
  <2>2. i.id \in Users /\ i.driver \in Drivers /\ DriverPortal \in Roles
    BY <2>1, KnownFields, RolesAssumption
  <2>3. grants' \subseteq Users \X Roles \X ({"ORGANIZATION"} \cup Clients)
    BY <2>1, <2>2 DEF TypeInv
  <2>4. links' \in [Drivers -> Users \cup {None}]
    BY <2>1, <2>2 DEF TypeInv
  <2> QED BY <2>1, <2>3, <2>4, EndsTyped DEF TypeInv
<1>4. CASE CommitLink(r)
  <2>1. /\ i.op = "link" /\ End(r)
        /\ links' = [d \in Drivers |-> CASE d = i.driver -> i.id
                                          [] d # i.driver /\ links[d] = i.id -> None
                                          [] OTHER -> links[d]]
        /\ UNCHANGED <<grants, sessions>>
    BY <1>4 DEF CommitLink
  <2>2. i.id \in Users
    BY <2>1, KnownFields
  <2>3. links' \in [Drivers -> Users \cup {None}]
    BY <2>1, <2>2 DEF TypeInv
  <2> QED BY <2>1, <2>3, EndsTyped DEF TypeInv
<1>5. CASE ListSessions(r)
  <2> PICK j :
        /\ j = [op |-> "revoke", locks |-> i.locks \cup {UserLock(i.id)}, id |-> i.id, change |-> i.op,
                target |-> i.target, listed |-> OpenSessions(i.id), over |-> Over]
        /\ Remember(r, j) /\ UNCHANGED identityVars
    BY <1>5 DEF ListSessions
  <2>1. i.op \in {"status", "password"}
    BY <1>5 DEF ListSessions
  <2>2. /\ i.id \in Users /\ i.target \in UserStatus \cup Passwords
        /\ i.locks \cup {UserLock(i.id)} \in
             {{StatusLock(i.id), UserLock(i.id)}, {PasswordLock(i.id), UserLock(i.id)}}
    BY <2>1, KnownFields
  <2>3. OpenSessions(i.id) \in SUBSET Sessions /\ Over \in SUBSET Requests
    BY DEF OpenSessions, Over
  <2> PICK u \in Users : u = i.id
    BY <2>2
  <2>4. j \in [op : {"revoke"}, locks : {{StatusLock(u), UserLock(u)}, {PasswordLock(u), UserLock(u)}},
               id : {u}, change : {"status", "password"}, target : UserStatus \cup Passwords,
               listed : SUBSET Sessions, over : SUBSET Requests]
    BY <2>1, <2>2, <2>3
  <2>5. j \in AccountRequest
    BY <2>4 DEF AccountRequest
  <2>6. j \in Known
    BY <2>5 DEF Known, Intent
  <2> QED BY <2>6, OnlyRemembers
<1>6. CASE CommitRevocation(r)
  <2>1. /\ End(r) /\ UNCHANGED <<grants, links>>
        /\ sessions' = [t \in Sessions |->
             IF t \in i.listed THEN [sessions[t] EXCEPT !.revoked = TRUE] ELSE sessions[t]]
    BY <1>6 DEF CommitRevocation
  <2>2. DOMAIN sessions' = Sessions
    BY <2>1
  <2>3. ASSUME NEW t \in Sessions PROVE sessions'[t] \in SessionRow
    <3>1. sessions[t] \in SessionRow
      BY DEF TypeInv
    <3>2. [sessions[t] EXCEPT !.revoked = TRUE] \in SessionRow
      BY <3>1 DEF SessionRow
    <3> QED BY <2>1, <3>1, <3>2
  <2> QED BY <2>1, <2>2, <2>3, EndsTyped DEF TypeInv
<1>7. CASE RecordLogin(r)
  <2> PICK j :
        /\ i.op = "login"
        /\ j = [op |-> "recorded", locks |-> {}, user |-> i.user, password |-> i.password]
        /\ Remember(r, j) /\ UNCHANGED identityVars
    BY <1>7 DEF RecordLogin
  <2>1. i.user \in Users /\ i.password \in Passwords
    BY KnownFields
  <2>2. j \in Known
    BY <2>1 DEF Known, Intent, SessionRequest
  <2> QED BY <2>2, OnlyRemembers
<1>8. CASE IssueTokens(r)
  <2> PICK row : row = Opened(i.user, 0, i.password, {r})
    OBVIOUS
  <2>1. i.op = "recorded" /\ End(r) /\ sessions' = Append(sessions, row) /\ UNCHANGED <<grants, links>>
    BY <1>8 DEF IssueTokens
  <2>2. i.user \in Users /\ i.password \in Passwords
    BY <2>1, KnownFields
  <2>3. row \in SessionRow
    BY <2>2 DEF Opened, SessionRow
  <2>4. Sessions \subseteq Sessions' /\ \A t \in Sessions' : sessions'[t] \in SessionRow
    BY <2>1, <2>3, OpenedTyped DEF IInv, Rows, TypeInv
  <2> QED BY <2>1, <2>4, EndsTyped DEF TypeInv
<1>9. CASE Consume(r)
  <2>1. i.op = "refresh" /\ UNCHANGED identityVars
    BY <1>9 DEF Consume
  <2>2. CASE End(r)
    BY <1>0, <2>1, <2>2 DEF identityVars
  <2>3. CASE ~End(r)
    <3> PICK t : t = i.token
      OBVIOUS
    <3> PICK j : j = [op |-> "consumed", locks |-> {SessionLock(t)}, token |-> t] /\ Remember(r, j)
      BY <1>9, <2>3 DEF Consume
    <3>1. t \in Sessions
      BY <2>1, KnownFields
    <3>2. j \in SessionRequest
      BY <3>1 DEF SessionRequest
    <3>3. j \in Known
      BY <3>2 DEF Known, Intent
    <3> QED BY <2>1, <3>3, OnlyRemembers
  <2> QED BY <2>2, <2>3
<1>10. CASE CommitRefresh(r)
  <2> PICK t : t = i.token
    OBVIOUS
  <2>a. PICK row : row = Opened(sessions[t].user, t, sessions[t].password, sessions[t].by \cup {r})
    OBVIOUS
  <2>b. PICK rows : rows = [sessions EXCEPT ![t].revoked = TRUE]
    OBVIOUS
  <2>1. i.op = "consumed" /\ End(r) /\ sessions' = Append(rows, row) /\ UNCHANGED <<grants, links>>
    BY <1>10, <2>a, <2>b DEF CommitRefresh
  <2>2. t \in Sessions
    BY <2>1, KnownFields
  <2>3. Len(sessions) \in Nat /\ Sessions = 1..Len(sessions)
    BY SequenceFacts DEF IInv, Rows
  <2>4. sessions[t] \in SessionRow /\ t \in Nat
    BY <2>2, <2>3 DEF TypeInv
  <2>5. row \in SessionRow
    BY <2>a, <2>4 DEF Opened, SessionRow
  <2>6. DOMAIN rows = Sessions /\ \A n \in Sessions : rows[n] \in SessionRow
    BY <2>b, <2>2 DEF TypeInv, SessionRow
  <2>7. IsSequence(rows)
    BY <2>b, <2>3, <2>6 DEF IsSequence
  <2>8. Sessions \subseteq Sessions' /\ \A n \in Sessions' : sessions'[n] \in SessionRow
    BY <2>1, <2>5, <2>6, <2>7, OpenedTyped
  <2> QED BY <2>1, <2>8, EndsTyped DEF TypeInv
<1> QED
  BY <1>1, <1>2, <1>3, <1>4, <1>5, <1>6, <1>7, <1>8, <1>9, <1>10 DEF GoOn, UsersGoOn

LEMMA TypeInvInit == Init => TypeInv
<1> SUFFICES ASSUME Init PROVE TypeInv
  OBVIOUS
<1>1. ASSUME NEW r \in Requests PROVE inflight[r] \in Known
  <2>1. inflight[r] = Waiting
    BY DEF Init, TransactionsInit
  <2> QED BY <2>1 DEF Known
<1>2. grants \subseteq Users \X Roles \X ({"ORGANIZATION"} \cup Clients)
  BY RolesAssumption DEF Init, UsersInit
<1>3. links \in [Drivers -> Users \cup {None}]
  BY DEF Init, UsersInit
<1>4. ASSUME NEW t \in Sessions PROVE sessions[t] \in SessionRow
  <2> PICK order \in [1..Cardinality(DOMAIN Accounts) -> DOMAIN Accounts] :
        sessions = [n \in DOMAIN order |-> Opened(order[n], 0, Accounts[order[n]].password, {})]
    BY DEF Init
  <2> PICK u \in DOMAIN Accounts : sessions[t] = Opened(u, 0, Accounts[u].password, {})
    OBVIOUS
  <2>1. u \in Users /\ Accounts[u].password \in Passwords
    BY AccountsAssumption
  <2> QED BY <2>1 DEF Opened, SessionRow
<1> QED
  BY <1>1, <1>2, <1>3, <1>4 DEF TypeInv

LEMMA TypeInvStep == IInv /\ EndInv /\ AuditInv /\ TypeInv /\ [Next]_vars => TypeInv'
<1> SUFFICES ASSUME IInv, EndInv, AuditInv, TypeInv, [Next]_vars PROVE TypeInv'
  OBVIOUS
<1>1. CASE UNCHANGED vars
  <2>1. UNCHANGED <<inflight, grants, links, sessions>>
    BY <1>1 DEF vars, identityVars
  <2> PICK known : known = Known
    OBVIOUS
  <2>2. \A i \in Known : i \in Known'
    BY <2>1, KnownStays
  <2> QED BY <2>1, <2>2 DEF TypeInv, SessionRow
<1>2. CASE Expire
  <2> PICK t \in Sessions :
        /\ sessions' = [sessions EXCEPT ![t].expired = TRUE]
        /\ UNCHANGED <<inflight, grants, links>>
    BY <1>2 DEF Expire
  <2>1. DOMAIN sessions' = Sessions /\ \A n \in Sessions : sessions'[n] \in SessionRow
    BY DEF TypeInv, SessionRow
  <2>2. \A i \in Known : i \in Known'
    BY <2>1, KnownStays
  <2> QED BY <2>1, <2>2 DEF TypeInv, SessionRow
<1>3. ASSUME NEW r \in Requests, Start(r) PROVE TypeInv'
  BY <1>3, StartTyped
<1>4. ASSUME NEW r \in Requests, GoOn(r) PROVE TypeInv'
  BY <1>4, GoOnTyped
<1> QED
  BY <1>1, <1>2, <1>3, <1>4 DEF Next

\* Whatever requests overlap, accounts, roles, assignments, links and sessions
\* are rows of their tables, and what a request remembers of a session is one
\* there is.
THEOREM TypesSafe == Spec => []TypeOK
<1>1. IInv /\ [Next]_vars => IInv'
  BY IInvStep
<1>2. IInv /\ EndInv /\ AuditInv /\ TypeInv => TypeOK
  <2> SUFFICES ASSUME IInv, EndInv, AuditInv, TypeInv PROVE TypeOK
    OBVIOUS
  <2>1. inflight \in [Requests -> {Waiting, Answered} \cup CreateRequest \cup AccessRequest
                                    \cup AccountRequest \cup SessionRequest]
    BY DEF IInv, RequestsSound, TypeInv, Known, Intent
  <2>2. sessions \in Seq(SessionRow)
    <3> PICK n \in Nat : sessions = [k \in 1..n |-> sessions[k]]
      BY DEF IInv, Rows, IsSequence
    <3>1. sessions \in [1..n -> SessionRow]
      BY DEF TypeInv
    <3> QED BY <3>1
  <2>3. grants \subseteq Users \X Roles \X ({"ORGANIZATION"} \cup Clients) /\ links \in [Drivers -> Users \cup {None}]
    BY DEF TypeInv
  <2> QED BY <2>1, <2>2, <2>3 DEF EndInv, AccountsTyped, AuditInv, RolesTyped, TypeOK
<1> QED
  BY IInvInit, EndInvInit, AuditInit, TypeInvInit, <1>1, EndInvStep, AuditStep, TypeInvStep, <1>2, PTL DEF Spec

===============================================================================
