------------------------------- MODULE Contracts -------------------------------
(***************************************************************************)
(* Operational contracts: created for some parties and a period, moved on  *)
(* by users, and expired in batches once the period has ended.             *)
(*                                                                         *)
(* A transition and an expiry hold the lock of each contract they change   *)
(* until they commit.  An expiry first lists what is due and then takes    *)
(* the locks one by one, in the order of the list.                         *)
(***************************************************************************)
EXTENDS MasterData, FiniteSets

CONSTANTS
  Contracts,         \* ids, which stand for the unique codes
  ContractOrder,     \* the order of the ids, a sequence of them all
  Signed,            \* the rows there are at the start
  PartySets,         \* the sets of parties a contract may have
  EndOfTime,         \* bound on the clock
  Limit              \* how many contracts one expiry takes

ASSUME TimeAssumption == EndOfTime \in Nat
ASSUME LimitAssumption == Limit \in Nat
ASSUME PartiesAssumption == PartySets \subseteq SUBSET (Clients \cup Carriers \cup Drivers)
ASSUME OrderAssumption ==
  /\ ContractOrder \in Seq(Contracts)
  /\ \A c \in Contracts : \E n \in DOMAIN ContractOrder : ContractOrder[n] = c

VARIABLES
  now,
  contracts,         \* the rows
  contractLog        \* for each contract, the audited changes of its status

contractVars == <<now, contracts, contractLog>>

Times == 0..EndOfTime

ContractStatus == {"DRAFT", "ACTIVE", "SUSPENDED", "EXPIRED", "TERMINATED"}

NoContractRow == [status |-> "ABSENT", parties |-> {}, from |-> 0, to |-> 0]

ContractRow ==
  [status : ContractStatus, parties : PartySets,
   from : Times, to : Times]

ASSUME SignedAssumption == Signed \in [DOMAIN Signed -> ContractRow]

ContractChange == [old : ContractStatus, new : ContractStatus]

Moves ==
  [DRAFT |-> {"ACTIVE", "TERMINATED"}, ACTIVE |-> {"SUSPENDED", "TERMINATED"},
   SUSPENDED |-> {"ACTIVE", "TERMINATED"}, EXPIRED |-> {}, TERMINATED |-> {}]

ContractLock(c) == <<"OPERATIONAL_CONTRACT", c>>

Listing == [id : Contracts, status : ContractStatus]

\* A contract in due with the status it was listed with; expired: the ones
\* already updated.
ContractIntent ==
  [op : {"sign"}, locks : {{}}, id : Contracts, row : ContractRow]
  \cup (UNION {[op : {"contract"}, locks : {{ContractLock(c)}}, id : {c}, seen : ContractStatus,
                target : ContractStatus] : c \in Contracts})
  \cup [op : {"expire"}, locks : SUBSET {ContractLock(c) : c \in Contracts}, at : Times,
        due : Seq(Listing), expired : SUBSET Listing]

ContractsInit ==
  /\ now = 0
  /\ contracts = [c \in Contracts |-> IF c \in DOMAIN Signed THEN Signed[c] ELSE NoContractRow]
  /\ contractLog = [c \in Contracts |-> <<>>]

Tick ==
  /\ now < EndOfTime
  /\ now' = now + 1
  /\ UNCHANGED <<contracts, contractLog, inflight, masterVars>>

-------------------------------------------------------------------------------
(* create.                                                                     *)

\* At least one client, every party active, an end after the start.
SignContract(r) ==
  \E c \in Contracts, parties \in PartySets, from, to \in Times :
    /\ from < to
    /\ contracts[c] = NoContractRow
    /\ parties \cap Clients # {}
    /\ \A p \in parties : Active(p)
    /\ Begin(r, [op |-> "sign", locks |-> {}, id |-> c,
                 row |-> [status |-> "DRAFT", parties |-> parties, from |-> from, to |-> to]])
    /\ UNCHANGED <<contractVars, masterVars>>

CommitSigning(r) ==
  LET i == inflight[r] IN
  /\ i.op = "sign"
  /\ contracts[i.id] = NoContractRow
  /\ contracts' = [contracts EXCEPT ![i.id] = i.row]
  /\ End(r)
  /\ UNCHANGED <<now, contractLog, masterVars>>

-------------------------------------------------------------------------------
(* transition.                                                                 *)

ReadContract(r) ==
  \E c \in Contracts : \E target \in ContractStatus :
    /\ contracts[c] # NoContractRow
    /\ Available(ContractLock(c), r)
    /\ target \in Moves[contracts[c].status]
    /\ target = "ACTIVE" => contracts[c].to > now
    /\ Begin(r, [op |-> "contract", locks |-> {ContractLock(c)}, id |-> c,
                 seen |-> contracts[c].status, target |-> target])
    /\ UNCHANGED <<contractVars, masterVars>>

WithStatus(row, status) ==
  [status |-> status, parties |-> row.parties, from |-> row.from, to |-> row.to]

\* With another status than the one read, nothing is updated or audited.
CommitContract(r) ==
  LET i == inflight[r] IN
  /\ i.op = "contract"
  /\ IF contracts[i.id].status = i.seen
     THEN /\ contracts' = [contracts EXCEPT ![i.id] = WithStatus(@, i.target)]
          /\ contractLog' =
               [contractLog EXCEPT ![i.id] = Append(@, [old |-> i.seen, new |-> i.target])]
     ELSE UNCHANGED <<contracts, contractLog>>
  /\ End(r)
  /\ UNCHANGED <<now, masterVars>>

-------------------------------------------------------------------------------
(* expireDue.                                                                  *)

Due(at) ==
  {c \in Contracts : contracts[c].status \in {"ACTIVE", "SUSPENDED"} /\ contracts[c].to <= at}

AnyOrder(list) == TRUE  \* mutant

Position(c) == CHOOSE n \in DOMAIN ContractOrder : ContractOrder[n] = c

\* orderBy effectiveTo, id.
Sooner(c, d) ==
  \/ contracts[c].to < contracts[d].to
  \/ contracts[c].to = contracts[d].to /\ Position(c) < Position(d)

Ordered(list) == \A m, n \in DOMAIN list : m < n => Sooner(list[m], list[n])

\* The first ones of what is due.
Batches(at) ==
  LET size == IF Cardinality(Due(at)) < Limit THEN Cardinality(Due(at)) ELSE Limit
      Taken(list) == {list[n] : n \in DOMAIN list}
  IN {list \in [1..size -> Due(at)] :
        /\ Cardinality(Taken(list)) = size
        /\ Ordered(list)
        /\ \A c \in Taken(list), d \in Due(at) \ Taken(list) : Sooner(c, d)}

\* evaluationAt is the client's, or the job's current time.
ListDueContracts(r) ==
  \E at \in Times : \E list \in Batches(at) :
    /\ list # <<>>
    /\ Begin(r, [op |-> "expire", locks |-> {}, at |-> at, expired |-> {},
                 due |-> [n \in DOMAIN list |-> [id |-> list[n], status |-> contracts[list[n]].status]]])
    /\ UNCHANGED <<contractVars, masterVars>>

AlwaysDue(entry, at) == TRUE  \* mutant

\* The update's condition: still the status that was listed.
StillDue(entry, at) ==
  contracts[entry.id].status = entry.status /\ contracts[entry.id].to <= at

ExpireNext(r) ==
  LET i == inflight[r] IN
  /\ i.op = "expire"
  /\ i.due # <<>>
  /\ LET next == Head(i.due) IN
       /\ Available(ContractLock(next.id), r)
       /\ Remember(r, [op |-> "expire", at |-> i.at, due |-> Tail(i.due),
                       locks |-> i.locks \cup {ContractLock(next.id)},
                       expired |-> i.expired \cup (IF StillDue(next, i.at) THEN {next} ELSE {})])
  /\ UNCHANGED <<contractVars, masterVars>>

CommitExpiry(r) ==
  LET i == inflight[r] IN
  /\ i.op = "expire"
  /\ i.due = <<>>
  /\ contracts' = [c \in Contracts |->
       IF \E entry \in i.expired : entry.id = c
       THEN WithStatus(contracts[c], "EXPIRED") ELSE contracts[c]]
  /\ contractLog' = [c \in Contracts |->
       IF \E entry \in i.expired : entry.id = c
       THEN LET entry == CHOOSE e \in i.expired : e.id = c
            IN Append(contractLog[c], [old |-> entry.status, new |-> "EXPIRED"])
       ELSE contractLog[c]]
  /\ End(r)
  /\ UNCHANGED <<now, masterVars>>

ContractStart(r) == SignContract(r) \/ ReadContract(r) \/ ListDueContracts(r)

ContractGoOn(r) ==
  CommitSigning(r) \/ CommitContract(r) \/ ExpireNext(r) \/ CommitExpiry(r)

-------------------------------------------------------------------------------
(* Properties.                                                                 *)

\* However transitions and overlapping expiries interleave, the audited changes
\* of a contract chain from DRAFT, or from what it was at the start, to its
\* status; each is a move of the matrix or an expiry, and after an expiry or a
\* termination there is none.
Follows(change) ==
  \/ change.new \in Moves[change.old]
  \/ change.new = "EXPIRED" /\ change.old \in {"ACTIVE", "SUSPENDED"}

ContractHistory ==
  \A c \in Contracts :
    LET log == contractLog[c] IN
    /\ \A n \in DOMAIN log : Follows(log[n]) /\ (n > 1 => log[n].old = log[n - 1].new)
    /\ log # <<>> => contracts[c].status = log[Len(log)].new

\* Two expiries never wait for each other's locks.
Waits(p, q) ==
  /\ inflight[p].op = "expire" /\ inflight[p].due # <<>>
  /\ ContractLock(Head(inflight[p].due).id) \in inflight[q].locks

ExpiryNeverDeadlocks == \A p, q \in Requests : p # q => ~(Waits(p, q) /\ Waits(q, p))

===============================================================================
