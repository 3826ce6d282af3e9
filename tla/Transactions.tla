----------------------------- MODULE Transactions -----------------------------
(***************************************************************************)
(* Requests that each run one handler of the API: what they remember       *)
(* between two statements, and the advisory locks they hold until their    *)
(* transaction ends.  Components that share the requests extend this       *)
(* module.  A request takes place once; a client that sends it again is    *)
(* another request.                                                        *)
(***************************************************************************)

CONSTANT Requests

VARIABLE inflight  \* what each request remembers

Waiting == [op |-> "waiting", locks |-> {}]
Answered == [op |-> "answered", locks |-> {}]

TransactionsInit == inflight = [r \in Requests |-> Waiting]

Unlocked(lock, r) == TRUE  \* mutant

\* pg_advisory_xact_lock does not block r.
Available(lock, r) == \A q \in Requests \ {r} : lock \notin inflight[q].locks

Remember(r, intent) == inflight' = [inflight EXCEPT ![r] = intent]

Begin(r, intent) == inflight[r] = Waiting /\ Remember(r, intent)

End(r) == Remember(r, Answered)

\* A later check refuses, a write fails, the client is gone or the process
\* dies: the transaction leaves nothing behind.
Rollback(r) == inflight[r] \notin {Waiting, Answered} /\ End(r)

\* Every request has been answered.
Quiet == \A r \in Requests : inflight[r] = Answered

LocksExclusive ==
  \A p, q \in Requests : p # q => inflight[p].locks \cap inflight[q].locks = {}

===============================================================================
