-------------------------------- MODULE Support --------------------------------
(***************************************************************************)
(* Support tickets of drivers: opened on a mission, answered, and assigned *)
(* to employees one after the other, with every assignment on record.      *)
(*                                                                         *)
(* No lock is taken.  An assignment ends the open ones in a statement that *)
(* sees the rows there are when it starts, waits for those another one has *)
(* updated and then leaves out what is no longer open; it creates its row, *)
(* and then waits to update the ticket.  The history of a ticket is in the *)
(* order in which the rows were created, the assignee goes by the updates: *)
(* assignments that overlap may leave the two apart.                       *)
(***************************************************************************)
EXTENDS Transactions, Naturals, Sequences

CONSTANTS
  Users, Tickets,
  Clients,
  Everywhere,        \* the scope of the whole organization
  ReadScopes,        \* for each user, the scopes of the user's grants of support.read
  Drivers,           \* the users that have a driver linked to them, employees or not
  DriverMissions,    \* the missions of each of them
  Images,            \* for each mission, its documents that are images
  Assigned,          \* for each ticket at the start, its row
  Nobody             \* no user, no ticket

ASSUME UsersAssumption == Drivers \subseteq Users /\ Nobody \notin Users
ASSUME ScopesAssumption ==
  Everywhere \notin Clients /\ ReadScopes \in [Users -> SUBSET (Clients \cup {Everywhere})]
ASSUME MissionsAssumption == DriverMissions \in [Drivers -> SUBSET DOMAIN Images]

VARIABLES
  active,            \* the users that are ACTIVE
  tickets,
  assignments,       \* for each ticket, its assignments in the order they were committed in
  created,           \* how many were created for it, those that were rolled back included
  messages           \* for each ticket, who wrote what

supportVars == <<active, tickets, assignments, created, messages>>

NoTicket == [driver |-> Nobody]

TicketRow ==
  [driver : Drivers, client : Clients, mission : DOMAIN Images,
   status : {"OPEN", "IN_PROGRESS"}, assignee : Users \cup {Nobody}]

ASSUME AssignedAssumption ==
  \A t \in DOMAIN Assigned :
    /\ Assigned[t] \in TicketRow /\ Assigned[t].assignee # Nobody
    /\ Assigned[t].mission \in DriverMissions[Assigned[t].driver]

\* at: assignedAt, the place in the history.  seen: how many there were when it
\* looked for open ones, which is recorded for AssigneeOnRecord only.
AssignmentRow == [to : Users, open : BOOLEAN, at : Nat, seen : Nat]

MessageRow ==
  [author : Users, internal : BOOLEAN, attachment : (UNION {Images[m] : m \in DOMAIN Images}) \cup {Nobody}]

SupportTypeOK ==
  /\ active \subseteq Users
  /\ tickets \in [Tickets -> TicketRow \cup {NoTicket}]
  /\ assignments \in [Tickets -> Seq(AssignmentRow)]
  /\ created \in [Tickets -> Nat]
  /\ messages \in [Tickets -> SUBSET MessageRow]

SupportInit ==
  /\ active = Users
  /\ tickets = [t \in Tickets |-> IF t \in DOMAIN Assigned THEN Assigned[t] ELSE NoTicket]
  /\ assignments = [t \in Tickets |->
                      IF t \in DOMAIN Assigned
                      THEN <<[to |-> Assigned[t].assignee, open |-> TRUE, at |-> 1, seen |-> 0]>>
                      ELSE <<>>]
  /\ created = [t \in Tickets |-> IF t \in DOMAIN Assigned THEN 1 ELSE 0]
  /\ messages = [t \in Tickets |-> {}]

AssignmentLock(t, n) == <<"SUPPORT_ASSIGNMENT", t, n>>

Covered(u, client) == Everywhere \in ReadScopes[u] \/ client \in ReadScopes[u]

\* ticketWhere: whoever has no support.read, of the organization or of a client,
\* has the tickets of the user's driver.
MayRead(u, t) ==
  /\ tickets[t] # NoTicket
  /\ \/ Covered(u, tickets[t].client)
     \/ ReadScopes[u] = {} /\ tickets[t].driver = u

\* An image of the mission, or none.
Attachments(mission) == Images[mission] \cup {Nobody}

\* client: the one its mission has then.
OpenTicket(r) ==
  \E t \in Tickets, u \in Drivers, client \in Clients :
    \E m \in DriverMissions[u] : \E attachment \in Attachments(m) :
      /\ tickets[t] = NoTicket
      /\ Begin(r, [op |-> "ticket", locks |-> {}, ticket |-> t, driver |-> u, client |-> client,
                   mission |-> m, attachment |-> attachment])
      /\ UNCHANGED supportVars

CommitTicket(r) ==
  LET i == inflight[r] IN
  /\ i.op = "ticket"
  /\ tickets[i.ticket] = NoTicket
  /\ tickets' = [tickets EXCEPT ![i.ticket] =
                   [driver |-> i.driver, client |-> i.client, mission |-> i.mission,
                    status |-> "OPEN", assignee |-> Nobody]]
  /\ messages' = [messages EXCEPT ![i.ticket] =
                    {[author |-> i.driver, internal |-> FALSE, attachment |-> i.attachment]}]
  /\ End(r)
  /\ UNCHANGED <<active, assignments, created>>

\* The ticket's driver writes nothing that only others read.
Message(r) ==
  \E t \in Tickets, u \in active, internal \in BOOLEAN :
    /\ MayRead(u, t)
    /\ inflight[r] = Waiting /\ End(r)
    /\ \E attachment \in Attachments(tickets[t].mission) :
         messages' = [messages EXCEPT ![t] = @ \cup
                        {[author |-> u, internal |-> internal /\ tickets[t].driver # u,
                          attachment |-> attachment]}]
    /\ UNCHANGED <<active, tickets, assignments, created>>

\* Any user that is ACTIVE may be the new assignee.
FindTicket(r) ==
  \E t \in Tickets, to \in active :
    /\ tickets[t] # NoTicket
    /\ Begin(r, [op |-> "assign", locks |-> {}, ticket |-> t, to |-> to])
    /\ UNCHANGED supportVars

OwnAssignments(t, to) ==
  {n \in DOMAIN assignments[t] : assignments[t][n].open /\ assignments[t][n].to = to}  \* mutant

OpenAssignments(t, to) == {n \in DOMAIN assignments[t] : assignments[t][n].open}

\* endedAt: null, as the statement sees it.
ListOpenAssignments(r) ==
  LET i == inflight[r] IN
  /\ i.op = "assign"
  /\ Remember(r, [op |-> "ending", locks |-> {}, ticket |-> i.ticket, to |-> i.to,
                  rows |-> OpenAssignments(i.ticket, i.to),
                  seen |-> Len(assignments[i.ticket])])
  /\ UNCHANGED supportVars

EndAssignments(r) ==
  LET i == inflight[r]
      locks == {AssignmentLock(i.ticket, n) : n \in {k \in i.rows : assignments[i.ticket][k].open}}
  IN
  /\ i.op = "ending"
  /\ \A lock \in locks : Available(lock, r)
  /\ Remember(r, [op |-> "ended", locks |-> locks, ticket |-> i.ticket, to |-> i.to,
                  rows |-> i.rows, seen |-> i.seen])
  /\ UNCHANGED supportVars

\* The row has its place in the history from now on.
CreateAssignment(r) ==
  LET i == inflight[r]
      at == created[i.ticket] + 1
  IN
  /\ i.op = "ended"
  /\ created' = [created EXCEPT ![i.ticket] = at]
  /\ Remember(r, [op |-> "assigning", locks |-> i.locks, ticket |-> i.ticket, to |-> i.to,
                  rows |-> i.rows, at |-> at, seen |-> i.seen])
  /\ UNCHANGED <<active, tickets, assignments, messages>>

Ended(rows, set) == [n \in DOMAIN rows |-> [rows[n] EXCEPT !.open = @ /\ n \notin set]]

\* The update of the ticket waits for another one's commit, so that tickets are
\* updated in the order of the commits.
CommitAssignment(r) ==
  LET i == inflight[r] IN
  /\ i.op = "assigning"
  /\ assignments' =
       [assignments EXCEPT ![i.ticket] =
          Append(Ended(@, i.rows), [to |-> i.to, open |-> TRUE, at |-> i.at, seen |-> i.seen])]
  /\ tickets' = [tickets EXCEPT ![i.ticket].assignee = i.to, ![i.ticket].status = "IN_PROGRESS"]
  /\ End(r)
  /\ UNCHANGED <<active, created, messages>>

\* UsersService.updateStatus.
Deactivate ==
  \E u \in active :
    /\ active' = active \ {u}
    /\ UNCHANGED <<inflight, tickets, assignments, created, messages>>

SupportStart(r) == OpenTicket(r) \/ Message(r) \/ FindTicket(r)

SupportGoOn(r) ==
  \/ CommitTicket(r)
  \/ ListOpenAssignments(r) \/ EndAssignments(r) \/ CreateAssignment(r) \/ CommitAssignment(r)

-------------------------------------------------------------------------------
(* Properties.                                                                 *)

\* The assignee of a ticket is that of the assignment committed last, which is
\* open.  One that is open besides was not there yet when the later one looked for
\* those to end; nor was one that the history shows after the later one: without
\* an overlap the assignee has the last place of the history, and alone is open.
AssigneeOnRecord ==
  \A t \in Tickets :
    LET rows == assignments[t] IN
    /\ rows # <<>> => rows[Len(rows)].open /\ tickets[t].assignee = rows[Len(rows)].to
    /\ \A m, n \in DOMAIN rows :
         m < n /\ (rows[m].open \/ rows[m].at > rows[n].at) => rows[n].seen < m

\* What is said on a ticket is about a mission of its driver: every image is one
\* of that mission's, nothing the driver says is hidden from the driver, and
\* nobody else takes part but who may read every ticket of its client.
ConversationsFit ==
  \A t \in Tickets :
    /\ tickets[t] = NoTicket => messages[t] = {}
    /\ tickets[t] # NoTicket => tickets[t].mission \in DriverMissions[tickets[t].driver]
    /\ \A m \in messages[t] :
         /\ m.attachment \in Attachments(tickets[t].mission)
         /\ m.internal => m.author # tickets[t].driver
         /\ m.author # tickets[t].driver => Covered(m.author, tickets[t].client)

===============================================================================
