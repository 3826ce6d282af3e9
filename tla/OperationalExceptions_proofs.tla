--------------------- MODULE OperationalExceptions_proofs ---------------------
(***************************************************************************)
(* Proofs about OperationalExceptions, for every number of requests,       *)
(* candidates, deviations and exceptions.                                  *)
(***************************************************************************)
EXTENDS OperationalExceptions, SequenceTheorems, TLAPS

-------------------------------------------------------------------------------
(* The rows after an insertion and after a resolution.                         *)

\* A row as it was but for the columns of its last detection.
Noted(old, new) ==
  /\ new = [old EXCEPT !.detected = new.detected]
  /\ new.key = old.key /\ new.occurrence = old.occurrence
  /\ new.status = old.status /\ new.resolvedBy = old.resolvedBy

\* The updates by id change nothing but those columns, of the rows they are of.
LEMMA RedetectedRows ==
  ASSUME NEW r, exceptions \in Seq(ExceptionRow), inflight[r].updates \in Updates
  PROVE  /\ Redetect(r) \in Seq(ExceptionRow)
         /\ Len(Redetect(r)) = Len(exceptions)
         /\ DOMAIN Redetect(r) = DOMAIN exceptions
         /\ \A e \in DOMAIN exceptions :
              /\ Noted(exceptions[e], Redetect(r)[e])
              /\ Redetect(r)[e] # exceptions[e] =>
                   /\ e \in DOMAIN inflight[r].updates
                   /\ Redetect(r)[e].detected = inflight[r].updates[e]
<1> DEFINE after == Redetect(r)
           updates == inflight[r].updates
<1>1. /\ Len(exceptions) \in Nat /\ DOMAIN exceptions = 1..Len(exceptions)
      /\ \A e \in DOMAIN exceptions : exceptions[e] \in ExceptionRow
  OBVIOUS
<1>2. \A e \in DOMAIN updates : updates[e] \in Occurrences
  BY DEF Updates
<1>3. /\ DOMAIN after = DOMAIN exceptions
      /\ \A e \in DOMAIN exceptions :
           after[e] = IF e \in DOMAIN updates
                      THEN [exceptions[e] EXCEPT !.detected = updates[e]]
                      ELSE exceptions[e]
      /\ after = [e \in 1..Len(exceptions) |-> after[e]]
  BY <1>1 DEF Redetect
<1>4. ASSUME NEW e \in DOMAIN exceptions
      PROVE  /\ after[e] \in ExceptionRow
             /\ Noted(exceptions[e], after[e])
             /\ after[e] # exceptions[e] =>
                  /\ e \in DOMAIN updates
                  /\ after[e].detected = updates[e]
  <2>1. CASE e \in DOMAIN updates
    <3>1. after[e] = [exceptions[e] EXCEPT !.detected = updates[e]]
      BY <1>3, <2>1
    <3>2. updates[e] \in Occurrences /\ exceptions[e] \in ExceptionRow
      BY <1>1, <1>2, <2>1
    <3> HIDE DEF after, updates
    <3> QED
      BY <2>1, <3>1, <3>2 DEF ExceptionRow, Noted
  <2>2. CASE e \notin DOMAIN updates
    <3>1. after[e] = exceptions[e] /\ exceptions[e] \in ExceptionRow
      BY <1>1, <1>3, <2>2
    <3> HIDE DEF after
    <3> QED
      BY <3>1 DEF ExceptionRow, Noted
  <2> QED
    BY <2>1, <2>2
<1>5. after \in Seq(ExceptionRow) /\ Len(after) = Len(exceptions)
  <2> HIDE DEF after
  <2>1. after \in [1..Len(exceptions) -> ExceptionRow]
    BY <1>1, <1>3, <1>4
  <2> QED
    BY <1>1, <2>1
<1> QED
  BY <1>3, <1>4, <1>5

\* Committed detections follow the rows there were, in their order, as open
\* exceptions.
LEMMA InsertedRows ==
  ASSUME NEW r, exceptions \in Seq(ExceptionRow), inflight[r].opened \in Seq(Detection),
         inflight[r].updates \in Updates
  PROVE  /\ Insert(r) \in Seq(ExceptionRow)
         /\ DOMAIN exceptions \subseteq DOMAIN Insert(r)
         /\ \A e \in DOMAIN exceptions :
              /\ Noted(exceptions[e], Insert(r)[e])
              /\ Insert(r)[e] # exceptions[e] =>
                   /\ e \in DOMAIN inflight[r].updates
                   /\ Insert(r)[e].detected = inflight[r].updates[e]
         /\ \A e \in DOMAIN Insert(r) \ DOMAIN exceptions :
              \E i \in DOMAIN inflight[r].opened :
                /\ e = Len(exceptions) + i
                /\ Insert(r)[e] = NewRow(inflight[r].opened[i])
<1> PICK old : old = Redetect(r)
  OBVIOUS
<1> DEFINE opened == inflight[r].opened
           added == [i \in DOMAIN opened |-> NewRow(opened[i])]
<1>1. /\ Len(opened) \in Nat /\ DOMAIN opened = 1..Len(opened)
      /\ \A i \in 1..Len(opened) : opened[i] \in Detection
      /\ Len(exceptions) \in Nat /\ DOMAIN exceptions = 1..Len(exceptions)
  OBVIOUS
<1>2. \A i \in 1..Len(opened) : NewRow(opened[i]) \in ExceptionRow
  BY <1>1 DEF NewRow, Detection, ExceptionRow
<1>3. added \in [1..Len(opened) -> ExceptionRow]
  BY <1>1, <1>2
<1>4. added \in Seq(ExceptionRow) /\ Len(added) = Len(opened)
  BY <1>1, <1>3
<1>5. \A i \in 1..Len(opened) : added[i] = NewRow(opened[i])
  BY <1>1
<1> HIDE DEF added
<1>0. /\ old \in Seq(ExceptionRow) /\ Len(old) = Len(exceptions)
      /\ \A e \in DOMAIN exceptions :
           /\ Noted(exceptions[e], old[e])
           /\ old[e] # exceptions[e] =>
                /\ e \in DOMAIN inflight[r].updates
                /\ old[e].detected = inflight[r].updates[e]
  BY RedetectedRows
<1>6. /\ old \o added \in Seq(ExceptionRow)
      /\ Len(old \o added) = Len(exceptions) + Len(added)
      /\ \A i \in 1..Len(exceptions) + Len(added) :
           (old \o added)[i] = IF i <= Len(exceptions) THEN old[i]
                                                       ELSE added[i - Len(exceptions)]
  <2>1. old \in Seq(ExceptionRow) /\ added \in Seq(ExceptionRow) /\ Len(old) = Len(exceptions)
    BY <1>0, <1>4
  <2> QED
    BY <2>1, ConcatProperties
<1>7. Insert(r) = old \o added
  BY DEF Insert, added
<1>8. DOMAIN Insert(r) = 1..Len(exceptions) + Len(opened)
  BY <1>4, <1>6, <1>7
<1>9. \A e \in DOMAIN exceptions : e \in DOMAIN Insert(r) /\ Insert(r)[e] = old[e]
  BY <1>1, <1>4, <1>6, <1>7, <1>8
<1>10. ASSUME NEW e \in DOMAIN Insert(r) \ DOMAIN exceptions
       PROVE  \E i \in DOMAIN opened : e = Len(exceptions) + i /\ Insert(r)[e] = NewRow(opened[i])
  <2>1. /\ e \in 1..Len(exceptions) + Len(added)
        /\ ~(e <= Len(exceptions))
        /\ e - Len(exceptions) \in DOMAIN opened
        /\ e = Len(exceptions) + (e - Len(exceptions))
    BY <1>1, <1>4, <1>8
  <2>2. Insert(r)[e] = added[e - Len(exceptions)]
    BY <1>6, <1>7, <2>1
  <2>3. added[e - Len(exceptions)] = NewRow(opened[e - Len(exceptions)])
    BY <1>1, <1>5, <2>1
  <2> QED
    BY <2>1, <2>2, <2>3
<1> QED
  BY <1>0, <1>6, <1>7, <1>9, <1>10

\* The updates a request may remember, when rows are added.
LEMMA UpdatesGrow ==
  ASSUME DOMAIN exceptions \subseteq DOMAIN exceptions'
  PROVE  Updates \subseteq Updates'
BY DEF Updates

\* A resolution changes the status and the author of the rows it is about.
LEMMA ResolvedRows ==
  ASSUME exceptions \in Seq(ExceptionRow), NEW S, NEW by \in {"user", "recovery", "closure"}
  PROVE  /\ ResolveRows(S, by) \in Seq(ExceptionRow)
         /\ DOMAIN ResolveRows(S, by) = DOMAIN exceptions
         /\ \A e \in DOMAIN exceptions \ S : ResolveRows(S, by)[e] = exceptions[e]
         /\ \A e \in DOMAIN exceptions \cap S :
              /\ ResolveRows(S, by)[e].key = exceptions[e].key
              /\ ResolveRows(S, by)[e].occurrence = exceptions[e].occurrence
              /\ ResolveRows(S, by)[e].status = "RESOLVED"
              /\ ResolveRows(S, by)[e].resolvedBy = by
<1> DEFINE after == ResolveRows(S, by)
<1>1. /\ Len(exceptions) \in Nat /\ DOMAIN exceptions = 1..Len(exceptions)
      /\ \A e \in DOMAIN exceptions : exceptions[e] \in ExceptionRow
  OBVIOUS
<1>2. /\ DOMAIN after = DOMAIN exceptions
      /\ \A e \in DOMAIN exceptions \cap S :
           after[e] = [exceptions[e] EXCEPT !.status = "RESOLVED", !.resolvedBy = by]
      /\ \A e \in DOMAIN exceptions \ S : after[e] = exceptions[e]
  BY <1>1 DEF ResolveRows
<1>6. after = [e \in 1..Len(exceptions) |-> after[e]]
  BY <1>1 DEF ResolveRows
<1> HIDE DEF after
<1>3. ASSUME NEW e \in DOMAIN exceptions \cap S
      PROVE  /\ after[e] \in ExceptionRow
             /\ after[e].key = exceptions[e].key
             /\ after[e].occurrence = exceptions[e].occurrence
             /\ after[e].status = "RESOLVED"
             /\ after[e].resolvedBy = by
  <2>1. /\ exceptions[e] \in ExceptionRow
        /\ after[e] = [exceptions[e] EXCEPT !.status = "RESOLVED", !.resolvedBy = by]
    BY <1>1, <1>2
  <2> QED
    BY <2>1 DEF ExceptionRow
<1>4. \A e \in DOMAIN exceptions : after[e] \in ExceptionRow
  BY <1>1, <1>2, <1>3
<1>5. after \in Seq(ExceptionRow)
  <2>1. after \in [1..Len(exceptions) -> ExceptionRow]
    BY <1>1, <1>4, <1>6
  <2> QED
    BY <1>1, <2>1
<1> QED
  BY <1>2, <1>3, <1>5 DEF after

-------------------------------------------------------------------------------
(* The inductive invariant holds initially.                                    *)

\* What a request without a transaction remembers is of its type, and sound.
LEMMA IdleOK ==
  /\ IntentOK(Idle) /\ Idle.locks = {} /\ Idle.op = "idle"
  /\ Idle.found = {} /\ DOMAIN Idle.updates = {}
<1>1. NoFacts \in Views
  <2>1. NoFacts \in [{} -> Facts]
    BY DEF NoFacts
  <2> QED
    BY <2>1 DEF Views
<1>2. <<>> \in Seq(Candidates) /\ <<>> \in Seq(Detection) /\ Elements(<<>>) = {}
  BY DEF Elements
<1>3. NoUpdates \in Updates /\ DOMAIN NoUpdates = {}
  <2>1. NoUpdates \in [{} -> Occurrences]
    BY DEF NoUpdates
  <2> QED
    BY <2>1 DEF Updates
<1> QED
  BY <1>1, <1>2, <1>3 DEF IntentOK, Idle, Intent, Ops

LEMMA InitIndInv == Init => IndInv
<1> SUFFICES ASSUME Init PROVE IndInv
  OBVIOUS
<1>1. TypeOK
  <2>1. exceptions \in Seq(ExceptionRow) /\ DOMAIN exceptions = {}
    BY DEF Init
  <2>2. facts \in [Candidates -> Facts]
    BY DEF Init, Facts
  <2> QED
    BY <2>1, <2>2, IdleOK DEF Init, TypeOK, Phases
<1>2. LocksExclusive
  BY IdleOK DEF Init, LocksExclusive
<1>3. IntentsSound
  <2>2. ASSUME NEW r \in Requests PROVE IntentSound(r)
    <3>1. inflight[r] = Idle
      BY DEF Init
    <3> QED
      BY <3>1, IdleOK DEF IntentSound, EvaluationKnows, UpdatesKnow, Reached, DeviationKnows, CloseKnows
  <2> QED
    BY <2>2, Zenon DEF IntentsSound
<1>4. DOMAIN exceptions = {}
  BY DEF Init
<1>5. OneOpenPerKey /\ OccurrenceOnce /\ ClosedWithoutDeviation /\ ClosureAccounted
  BY <1>4 DEF Init, OneOpenPerKey, AllOpen, OccurrenceOnce, ClosedWithoutDeviation, ClosureAccounted
<1> QED
  BY <1>1, <1>2, <1>3, <1>4, <1>5 DEF IndInv, Init

-------------------------------------------------------------------------------
(* Steps that change no row: a request reads, locks, remembers or gives up.    *)

\* A step that changes only what request r remembers keeps the invariant, if
\* the new memory is sound and the locks it adds are free.
LEMMA MemoryStep ==
  ASSUME IndInv, NEW r \in Requests, NEW i, IntentOK(i), Remember(r, i),
         UNCHANGED <<phase, facts, exceptions, closure>>,
         \A lock \in i.locks \ inflight[r].locks : Available(lock, r),
         IntentSound(r)'
  PROVE  IndInv'
<1>1. /\ inflight'[r] = i
      /\ \A p \in Requests \ {r} : inflight'[p] = inflight[p]
      /\ DOMAIN inflight' = Requests
  BY DEF Remember, IndInv, TypeOK
<1>2. TypeOK'
  <2>1. \A p \in Requests : IntentOK(inflight[p])' 
    BY <1>1 DEF IndInv, TypeOK, IntentOK, Intent, Locks, ExceptionLock, Updates
  <2> QED
    BY <1>1, <2>1 DEF IndInv, TypeOK
<1>3. LocksExclusive'
  BY <1>1 DEF IndInv, LocksExclusive, Available
<1>4. ASSUME NEW p \in Requests \ {r} PROVE IntentSound(p)'
  BY <1>1 DEF IndInv, IntentsSound, IntentSound, EvaluationKnows, UpdatesKnow, Reached, DeviationKnows, CloseKnows,
              Opening, OpenRows, Replayed
<1>5. IntentsSound'
  BY <1>4 DEF IntentsSound
<1>6. (OneOpenPerKey /\ OccurrenceOnce /\ ClosedWithoutDeviation /\ ClosureAccounted)'
  BY DEF IndInv, OneOpenPerKey, AllOpen, OccurrenceOnce, ClosedWithoutDeviation, OpenRows,
         ClosureAccounted
<1> QED
  BY <1>2, <1>3, <1>5, <1>6 DEF IndInv

\* The elements of a sequence of candidates, of its head and of its tail.
LEMMA ElementsOf ==
  ASSUME NEW cs \in Seq(Candidates)
  PROVE  /\ Elements(cs) \subseteq Candidates
         /\ cs # <<>> => /\ Head(cs) \in Elements(cs)
                         /\ Tail(cs) \in Seq(Candidates)
                         /\ Elements(Tail(cs)) \subseteq Elements(cs)
<1>1. /\ Len(cs) \in Nat /\ DOMAIN cs = 1..Len(cs)
      /\ \A i \in 1..Len(cs) : cs[i] \in Candidates
  OBVIOUS
<1>2. Elements(cs) \subseteq Candidates
  BY <1>1 DEF Elements
<1>3. ASSUME cs # <<>>
      PROVE  /\ Head(cs) = cs[1] /\ 1 \in DOMAIN cs
             /\ Tail(cs) \in Seq(Candidates)
             /\ Len(Tail(cs)) = Len(cs) - 1
             /\ \A i \in 1..Len(cs) - 1 : Tail(cs)[i] = cs[i + 1]
  BY <1>1, <1>3
<1>4. ASSUME cs # <<>>, NEW c \in Elements(Tail(cs)) PROVE c \in Elements(cs)
  <2>1. PICK i \in 1..Len(cs) - 1 : c = Tail(cs)[i]
    BY <1>1, <1>3, <1>4 DEF Elements
  <2>2. c = cs[i + 1] /\ i + 1 \in DOMAIN cs
    BY <1>1, <1>3, <1>4, <2>1
  <2> QED
    BY <2>2 DEF Elements
<1>5. cs # <<>> => Head(cs) \in Elements(cs)
  BY <1>3 DEF Elements
<1> QED
  BY <1>2, <1>3, <1>4, <1>5

\* A request that gives up, or is rolled back.
LEMMA EndStep ==
  ASSUME IndInv, NEW r \in Requests, End(r),
         UNCHANGED <<phase, facts, exceptions, closure>>
  PROVE  IndInv'
<1>1. inflight'[r] = Idle /\ Remember(r, Idle)
  BY DEF End, Remember, IndInv, TypeOK
<1>2. IntentSound(r)'
  BY <1>1, IdleOK DEF IntentSound, EvaluationKnows, UpdatesKnow, Reached, DeviationKnows, CloseKnows
<1> QED
  BY <1>1, <1>2, IdleOK, MemoryStep

\* The beginning of an evaluation: nothing is opened and nothing locked yet.
LEMMA BeginStep ==
  ASSUME IndInv, NEW r \in Requests,
         (\E cs \in Events : BeginEvent(r, cs)) \/ BeginSweep(r)
  PROVE  IndInv'
<1>1. PICK i : /\ Begin(r, i)
               /\ i.op \in {"event", "sweep"} /\ i.opened = <<>> /\ i.locks = {}
               /\ i.found = {} /\ DOMAIN i.updates = {}
               /\ IntentOK(i)
  <2>1. ASSUME NEW cs \in Seq(Candidates), NEW op \in {"event", "sweep"},
               NEW view \in [Elements(cs) -> Facts]
        PROVE  LET i == [Idle EXCEPT !.op = op, !.todo = cs, !.seen = view]
               IN  /\ i.op = op /\ i.opened = <<>> /\ i.locks = {}
                   /\ i.found = {} /\ DOMAIN i.updates = {}
                   /\ IntentOK(i)
    <3>1. view \in Views
      BY ElementsOf DEF Views
    <3> QED
      BY <3>1, IdleOK DEF IntentOK, Idle, Intent, Ops
  <2>2. CASE \E cs \in Events : BeginEvent(r, cs)
    <3>1. PICK cs \in Events : BeginEvent(r, cs)
      BY <2>2
    <3>2. cs \in Seq(Candidates)
      BY EventsAssumption
    <3>3. PICK outcome \in [Elements(cs) -> Recorded] :
            Begin(r, [Idle EXCEPT !.op = "event", !.todo = cs, !.seen = outcome])
      BY <3>1 DEF BeginEvent
    <3>4. outcome \in [Elements(cs) -> Facts]
      BY DEF Facts
    <3> QED
      BY <2>1, <3>2, <3>3, <3>4
  <2>3. CASE BeginSweep(r)
    <3>1. [c \in Elements(Sweep) |-> facts[c]] \in [Elements(Sweep) -> Facts]
      BY SweepAssumption, ElementsOf DEF IndInv, TypeOK
    <3> QED
      BY <2>1, <2>3, <3>1, SweepAssumption DEF BeginSweep
  <2> QED
    BY <2>2, <2>3
<1>2. UNCHANGED <<phase, facts, exceptions, closure>>
  BY DEF BeginEvent, BeginSweep
<1>3. inflight'[r] = i /\ Remember(r, i)
  BY <1>1 DEF Begin, Remember, IndInv, TypeOK
<1>4. IntentSound(r)'
  BY <1>1, <1>3 DEF IntentSound, EvaluationKnows, UpdatesKnow, Reached, DeviationKnows, CloseKnows, Opening
<1> QED
  BY <1>1, <1>2, <1>3, <1>4, MemoryStep

\* What the evaluator is about to report: a detection under one of the keys
\* of rule evaluation.
LEMMA CurrentTypes ==
  ASSUME IndInv, NEW r \in Requests, Evaluating(r)
  PROVE  /\ Head(inflight[r].todo) \in DOMAIN inflight[r].seen \cap Candidates
         /\ Tail(inflight[r].todo) \in Seq(Candidates)
         /\ Elements(Tail(inflight[r].todo)) \subseteq DOMAIN inflight[r].seen
         /\ SeenFact(r) \in Detected =>
              /\ Current(r) \in Detection
              /\ Current(r).key \in EvaluationKeys
<1> DEFINE todo == inflight[r].todo
           c == Head(todo)
<1>1. /\ todo \in Seq(Candidates) /\ todo # <<>>
      /\ Elements(todo) \subseteq DOMAIN inflight[r].seen
  BY DEF IndInv, TypeOK, IntentOK, Intent, Evaluating
<1>2. /\ c \in Candidates /\ c \in DOMAIN inflight[r].seen
      /\ Tail(todo) \in Seq(Candidates)
      /\ Elements(Tail(todo)) \subseteq DOMAIN inflight[r].seen
  BY <1>1, ElementsOf
<1>3. ASSUME SeenFact(r) \in Detected
      PROVE  Current(r) \in Detection /\ Current(r).key \in EvaluationKeys
  <2>1. Current(r).key \in EvaluationKeys
    BY <1>2 DEF Current, EvaluationKeys
  <2>2. Current(r).occurrence \in Occurrences /\ Current(r).detected = Current(r).occurrence
    BY <1>2, <1>3 DEF Current, Occurrence, Occurrences, SeenFact
  <2>3. Current(r) = [key |-> Current(r).key, occurrence |-> Current(r).occurrence,
                      detected |-> Current(r).detected]
    BY DEF Current
  <2> QED
    BY <2>1, <2>2, <2>3 DEF Detection, Keys
<1> QED
  BY <1>2, <1>3

\* A request that keeps its operation, what it opens and its rows, adds only
\* free locks, and has locked the keys of the exceptions it reaches, knows what
\* it knew.
LEMMA KeepStep ==
  ASSUME IndInv, NEW r \in Requests, NEW i, IntentOK(i), Remember(r, i),
         UNCHANGED <<phase, facts, exceptions, closure>>,
         i.op = inflight[r].op, i.opened = inflight[r].opened, i.rows = inflight[r].rows,
         inflight[r].locks \subseteq i.locks,
         \A lock \in i.locks \ inflight[r].locks : Available(lock, r),
         \A e \in i.found \cup DOMAIN i.updates : exceptions[e].key \in i.locks \cap EvaluationKeys
  PROVE  IndInv'
<1>1. inflight'[r] = i
  BY DEF Remember, IndInv, TypeOK
<1>2. IntentSound(r)'
  BY <1>1 DEF IndInv, IntentsSound, IntentSound, EvaluationKnows, UpdatesKnow, Reached, DeviationKnows, CloseKnows,
              Opening, OpenRows, Replayed
<1> QED
  BY <1>2, MemoryStep

\* What a request reaches, it has locked.
LEMMA ReachedLocked ==
  ASSUME IndInv, NEW r \in Requests, NEW e \in Reached(r)
  PROVE  exceptions[e].key \in inflight[r].locks \cap EvaluationKeys
BY DEF IndInv, IntentsSound, IntentSound, UpdatesKnow

\* The exceptions a request reaches are rows.
LEMMA ReachedInRows ==
  ASSUME IndInv, NEW r \in Requests
  PROVE  Reached(r) \subseteq DOMAIN exceptions
BY DEF IndInv, TypeOK, IntentOK, Intent, Updates, Reached

\* A candidate with nothing to report, or one that repeats a resolved
\* occurrence: the evaluation goes on.
LEMMA SkipStep ==
  ASSUME IndInv, NEW r \in Requests, Pass(r) \/ DetectReplay(r)
  PROVE  IndInv'
<1>1. Evaluating(r) /\ UNCHANGED <<phase, facts, exceptions, closure>>
  BY DEF Pass, DetectReplay, Detecting
<1>2. PICK locks :
        /\ Remember(r, [inflight[r] EXCEPT !.todo = Tail(inflight[r].todo), !.locks = locks])
        /\ inflight[r].locks \subseteq locks
        /\ locks \subseteq Locks
        /\ \A lock \in locks \ inflight[r].locks : Available(lock, r)
  <2>1. CASE Pass(r)
    <3>1. [inflight[r] EXCEPT !.todo = Tail(inflight[r].todo)]
            = [inflight[r] EXCEPT !.todo = Tail(inflight[r].todo), !.locks = inflight[r].locks]
      BY DEF IndInv, TypeOK, IntentOK, Intent
    <3> QED
      BY <2>1, <3>1 DEF Pass, IndInv, TypeOK, IntentOK, Intent
  <2>2. CASE DetectReplay(r)
    <3>1. [inflight[r] EXCEPT !.locks = inflight[r].locks \cup {Current(r).key},
                              !.todo = Tail(inflight[r].todo)]
            = [inflight[r] EXCEPT !.todo = Tail(inflight[r].todo),
                                  !.locks = inflight[r].locks \cup {Current(r).key}]
      BY DEF IndInv, TypeOK, IntentOK, Intent
    <3>2. Current(r).key \in Locks /\ Available(Current(r).key, r)
      BY <1>1, <2>2, CurrentTypes DEF DetectReplay, Detecting, Locks
    <3> DEFINE more == inflight[r].locks \cup {Current(r).key}
    <3>3. inflight[r].locks \subseteq Locks
      BY DEF IndInv, TypeOK, IntentOK, Intent
    <3>4. Remember(r, [inflight[r] EXCEPT !.todo = Tail(inflight[r].todo), !.locks = more])
      BY <2>2, <3>1 DEF DetectReplay
    <3>5. /\ inflight[r].locks \subseteq more /\ more \subseteq Locks
          /\ \A lock \in more \ inflight[r].locks : Available(lock, r)
      BY <3>2, <3>3
    <3> QED
      BY <3>4, <3>5
  <2> QED
    BY <2>1, <2>2
<1> DEFINE i == [inflight[r] EXCEPT !.todo = Tail(inflight[r].todo), !.locks = locks]
<1>3. IntentOK(i)
  BY <1>1, <1>2, CurrentTypes DEF IndInv, TypeOK, IntentOK, Intent, Evaluating
<1>4. /\ i.locks = locks /\ i.op = inflight[r].op /\ i.opened = inflight[r].opened
      /\ i.rows = inflight[r].rows
      /\ i.found = inflight[r].found /\ i.updates = inflight[r].updates
  BY <1>2 DEF IndInv, TypeOK, IntentOK, Intent
<1>5. Remember(r, i)
  BY <1>2
<1> HIDE DEF i
<1>6. \A e \in i.found \cup DOMAIN i.updates : exceptions[e].key \in i.locks \cap EvaluationKeys
  BY <1>2, <1>4, ReachedLocked DEF Reached
<1> QED
  BY <1>1, <1>2, <1>3, <1>4, <1>5, <1>6, KeepStep

\* A candidate that this transaction has reported already: its own exception,
\* not committed yet, is detected again and keeps its key and its occurrence.
LEMMA OwnStep ==
  ASSUME IndInv, NEW r \in Requests, DetectOwn(r)
  PROVE  IndInv'
<1> PICK old, key, at : /\ old = inflight[r].opened
                        /\ key = Current(r).key /\ at = Current(r).occurrence
  OBVIOUS
<1> DEFINE more == [k \in DOMAIN old |-> IF old[k].key = key THEN [old[k] EXCEPT !.detected = at]
                                                              ELSE old[k]]
           i == [inflight[r] EXCEPT !.todo = Tail(inflight[r].todo), !.opened = more]
<1>1. /\ Evaluating(r) /\ SeenFact(r) \in Detected
      /\ Remember(r, i)
      /\ UNCHANGED <<phase, facts, exceptions, closure>>
  BY DEF DetectOwn, Detecting
<1>2. at \in Occurrences
  BY <1>1, CurrentTypes DEF Detection
<1>3. /\ Len(old) \in Nat /\ DOMAIN old = 1..Len(old)
      /\ \A k \in 1..Len(old) : old[k] \in Detection
  BY DEF IndInv, TypeOK, IntentOK, Intent
<1>4. ASSUME NEW k \in 1..Len(old)
      PROVE  /\ more[k] \in Detection
             /\ more[k].key = old[k].key /\ more[k].occurrence = old[k].occurrence
  <2>1. CASE old[k].key = key
    <3>1. more[k] = [old[k] EXCEPT !.detected = at] /\ old[k] \in Detection
      BY <1>3, <2>1
    <3> HIDE DEF more
    <3> QED
      BY <1>2, <3>1 DEF Detection
  <2>2. CASE old[k].key # key
    BY <1>3, <2>2
  <2> QED
    BY <2>1, <2>2
<1>5. more = [k \in 1..Len(old) |-> more[k]] /\ DOMAIN more = 1..Len(old)
  BY <1>3
<1>6. more \in Seq(Detection)
  <2> HIDE DEF more
  <2>1. more \in [1..Len(old) -> Detection]
    BY <1>4, <1>5
  <2> QED
    BY <1>3, <2>1
<1> HIDE DEF more
<1>7. IntentOK(i)
  BY <1>1, <1>6, CurrentTypes DEF IndInv, TypeOK, IntentOK, Intent, Evaluating
<1>8. /\ i.op = inflight[r].op /\ i.opened = more /\ i.locks = inflight[r].locks
      /\ i.found = inflight[r].found /\ i.updates = inflight[r].updates
      /\ i.op \in {"event", "sweep"}
      /\ inflight'[r] = i
  BY <1>1 DEF IndInv, TypeOK, IntentOK, Intent, Remember, Evaluating
<1> HIDE DEF i
<1>9. EvaluationKnows(r)'
  <2>1. /\ \A k \in 1..Len(old) :
             /\ old[k].key \in inflight[r].locks \cap EvaluationKeys
             /\ OpenRows(old[k].key) = {}
             /\ ~Replayed(old[k])
        /\ \A k, m \in 1..Len(old) : old[k].key = old[m].key => k = m
    BY <1>3, <1>8 DEF IndInv, IntentsSound, IntentSound, EvaluationKnows, Opening
  <2>2. ASSUME NEW k \in 1..Len(old)
        PROVE  /\ more[k].key \in i.locks \cap EvaluationKeys
               /\ OpenRows(more[k].key) = {}
               /\ ~Replayed(more[k])
    <3>1. ~Replayed(old[k])
      BY <2>1
    <3>2. ~Replayed(more[k])
      BY <1>4, <3>1 DEF Replayed
    <3> QED
      BY <1>4, <1>8, <2>1, <3>2
  <2>3. \A k, m \in 1..Len(old) : more[k].key = more[m].key => k = m
    BY <1>4, <2>1
  <2>4. /\ \A x : OpenRows(x)' = OpenRows(x)
        /\ \A e : Replayed(e)' <=> Replayed(e)
    BY <1>1 DEF OpenRows, Replayed
  <2>5. Opening(r)' = {more[k] : k \in 1..Len(old)}
    BY <1>5, <1>8 DEF Opening
  <2>6. \A e \in Opening(r)' :
          /\ e.key \in i.locks \cap EvaluationKeys
          /\ OpenRows(e.key)' = {}
          /\ ~Replayed(e)'
    BY <2>2, <2>4, <2>5
  <2> QED
    BY <1>5, <1>8, <2>3, <2>6 DEF EvaluationKnows
<1>10. IntentSound(r)'
  BY <1>1, <1>8, <1>9, ReachedLocked
     DEF IntentSound, UpdatesKnow, Reached, DeviationKnows, CloseKnows
<1> QED
  BY <1>1, <1>7, <1>8, <1>10, MemoryStep

\* An exception was found for a detection.
LEMMA FoundDetected ==
  ASSUME IndInv, NEW r \in Requests, inflight[r].found # {}
  PROVE  Current(r).occurrence \in Occurrences
<1> DEFINE c == Head(inflight[r].todo)
<1>1. /\ inflight[r].todo \in Seq(Candidates) /\ inflight[r].todo # <<>>
      /\ inflight[r].seen[c] \in Detected
  BY DEF IndInv, TypeOK, IntentOK, Intent
<1>2. c \in Candidates
  BY <1>1, ElementsOf
<1> QED
  BY <1>1, <1>2 DEF Current, Occurrence, Occurrences

\* An open exception is found, or updated: what is to be opened is the same.
LEMMA FoundStep ==
  ASSUME IndInv, NEW r \in Requests, DetectFound(r) \/ UpdateFound(r)
  PROVE  IndInv'
<1>1. UNCHANGED <<phase, facts, exceptions, closure>>
  BY DEF DetectFound, UpdateFound
<1>2. CASE DetectFound(r)
  <2> DEFINE i == [inflight[r] EXCEPT !.locks = inflight[r].locks \cup {Current(r).key},
                                      !.found = OpenRows(Current(r).key)]
  <2>1. Current(r).key \in Locks /\ Available(Current(r).key, r)
    BY <1>2, CurrentTypes DEF DetectFound, Detecting, Locks
  <2>2. OpenRows(Current(r).key) \subseteq DOMAIN exceptions
    BY DEF OpenRows
  <2>3. IntentOK(i)
    BY <1>2, <2>1, <2>2
       DEF IndInv, TypeOK, IntentOK, Intent, DetectFound, Detecting, Evaluating, SeenFact
  <2>4. /\ i.op = inflight[r].op /\ i.opened = inflight[r].opened /\ i.rows = inflight[r].rows
        /\ i.locks = inflight[r].locks \cup {Current(r).key}
        /\ i.found = OpenRows(Current(r).key) /\ i.updates = inflight[r].updates
    BY DEF IndInv, TypeOK, IntentOK, Intent
  <2>5. Remember(r, i)
    BY <1>2 DEF DetectFound
  <2> HIDE DEF i
  <2>6. Current(r).key \in EvaluationKeys
    BY <1>2, CurrentTypes DEF DetectFound, Detecting
  <2>7. \A e \in i.found \cup DOMAIN i.updates : exceptions[e].key \in i.locks \cap EvaluationKeys
    BY <2>4, <2>6, ReachedLocked DEF Reached, OpenRows
  <2> QED
    BY <1>1, <2>1, <2>3, <2>4, <2>5, <2>7, KeepStep
<1>3. CASE UpdateFound(r)
  <2> DEFINE i == [inflight[r] EXCEPT !.todo = Tail(inflight[r].todo), !.found = {},
                                      !.updates = Redetected(r)]
  <2>1. IntentOK(i)
    <3>1. /\ Tail(inflight[r].todo) \in Seq(Candidates)
          /\ Elements(Tail(inflight[r].todo)) \subseteq DOMAIN inflight[r].seen
      BY <1>3, ElementsOf DEF UpdateFound, IndInv, TypeOK, IntentOK, Intent
    <3>2. Current(r).occurrence \in Occurrences
      BY <1>3, FoundDetected DEF UpdateFound
    <3>3. /\ inflight[r].found \subseteq DOMAIN exceptions
          /\ DOMAIN inflight[r].updates \subseteq DOMAIN exceptions
          /\ \A e \in DOMAIN inflight[r].updates : inflight[r].updates[e] \in Occurrences
      BY DEF IndInv, TypeOK, IntentOK, Intent, Updates
    <3>4. Redetected(r) \in Updates
      <4> DEFINE S == inflight[r].found \cup DOMAIN inflight[r].updates
      <4>1. S \in SUBSET DOMAIN exceptions
        BY <3>3
      <4>2. Redetected(r) \in [S -> Occurrences]
        BY <3>2, <3>3 DEF Redetected
      <4> QED
        BY <4>1, <4>2 DEF Updates
    <3> QED
      BY <3>1, <3>4 DEF IndInv, TypeOK, IntentOK, Intent
  <2>2. /\ i.op = inflight[r].op /\ i.opened = inflight[r].opened /\ i.rows = inflight[r].rows
        /\ i.locks = inflight[r].locks /\ i.found = {} /\ i.updates = Redetected(r)
    BY DEF IndInv, TypeOK, IntentOK, Intent
  <2>3. Remember(r, i)
    BY <1>3 DEF UpdateFound
  <2> HIDE DEF i
  <2>4. \A e \in i.found \cup DOMAIN i.updates : exceptions[e].key \in i.locks \cap EvaluationKeys
    <3>1. DOMAIN Redetected(r) = Reached(r)
      BY DEF Redetected, Reached
    <3> QED
      BY <2>2, <3>1, ReachedLocked
  <2> QED
    BY <1>1, <2>1, <2>2, <2>3, <2>4, KeepStep
<1> QED
  BY <1>2, <1>3

\* Nothing is open under the key and the occurrence is new: the transaction
\* opens an exception of its own.
LEMMA NewStep ==
  ASSUME IndInv, NEW r \in Requests, DetectNew(r)
  PROVE  IndInv'
<1> DEFINE d == Current(r)
           old == inflight[r].opened
           i == [inflight[r] EXCEPT !.locks = inflight[r].locks \cup {d.key},
                                    !.todo = Tail(inflight[r].todo), !.opened = Append(old, d)]
<1>1. /\ Evaluating(r) /\ Available(d.key, r) /\ ~OpenedHere(r, d.key)
      /\ OpenRows(d.key) = {} /\ ~Replayed(d)
      /\ Remember(r, i)
      /\ UNCHANGED <<phase, facts, exceptions, closure>>
  BY DEF DetectNew, Detecting
<1>2. d \in Detection /\ d.key \in EvaluationKeys
  BY <1>1, CurrentTypes DEF DetectNew, Detecting
<1>3. /\ old \in Seq(Detection) /\ Append(old, d) \in Seq(Detection)
      /\ Len(old) \in Nat /\ DOMAIN old = 1..Len(old)
      /\ DOMAIN Append(old, d) = 1..Len(old) + 1
      /\ \A k \in 1..Len(old) : Append(old, d)[k] = old[k]
      /\ Append(old, d)[Len(old) + 1] = d
  <2> HIDE DEF d
  <2>1. old \in Seq(Detection)
    BY DEF IndInv, TypeOK, IntentOK, Intent
  <2> HIDE DEF old
  <2> QED
    BY <1>2, <2>1
<1>4. IntentOK(i)
  <2> HIDE DEF d
  <2>1. d.key \in Locks
    BY <1>2 DEF Locks
  <2> QED
    BY <1>1, <1>3, <2>1, CurrentTypes DEF IndInv, TypeOK, IntentOK, Intent, Evaluating
<1>5. /\ i.locks = inflight[r].locks \cup {d.key}
      /\ i.op = inflight[r].op /\ i.op \in {"event", "sweep"}
      /\ i.opened = Append(old, d)
      /\ i.found = inflight[r].found /\ i.updates = inflight[r].updates
      /\ inflight'[r] = i
  BY <1>1 DEF IndInv, TypeOK, IntentOK, Intent, Remember, Evaluating
<1> HIDE DEF i, d
<1>6. EvaluationKnows(r)'
  <2>1. /\ \A k \in 1..Len(old) :
             /\ old[k].key \in inflight[r].locks \cap EvaluationKeys
             /\ OpenRows(old[k].key) = {}
             /\ ~Replayed(old[k])
             /\ old[k].key # d.key
        /\ \A k, m \in 1..Len(old) : old[k].key = old[m].key => k = m
    BY <1>1, <1>3, <1>5 DEF IndInv, IntentsSound, IntentSound, EvaluationKnows, Opening, OpenedHere
  <2>2. \A k \in 1..Len(old) + 1 :
          /\ i.opened[k].key \in i.locks \cap EvaluationKeys
          /\ OpenRows(i.opened[k].key) = {}
          /\ ~Replayed(i.opened[k])
    <3> SUFFICES ASSUME NEW k \in 1..Len(old) + 1
                 PROVE  /\ i.opened[k].key \in i.locks \cap EvaluationKeys
                        /\ OpenRows(i.opened[k].key) = {}
                        /\ ~Replayed(i.opened[k])
      OBVIOUS
    <3>1. CASE k = Len(old) + 1
      <4>1. i.opened[k] = d
        BY <1>3, <1>5, <3>1
      <4> QED
        BY <1>1, <1>2, <1>5, <4>1
    <3>2. CASE k # Len(old) + 1
      <4>1. k \in 1..Len(old)
        BY <1>3, <3>2
      <4>2. i.opened[k] = old[k]
        BY <1>3, <1>5, <4>1
      <4> QED
        BY <1>5, <2>1, <4>1, <4>2
    <3> QED
      BY <3>1, <3>2
  <2>3. \A k, m \in 1..Len(old) + 1 : i.opened[k].key = i.opened[m].key => k = m
    BY <1>3, <1>5, <2>1
  <2>4. DOMAIN i.opened = 1..Len(old) + 1
    BY <1>3, <1>5
  <2>5. /\ \A key : OpenRows(key)' = OpenRows(key)
        /\ \A e : Replayed(e)' <=> Replayed(e)
    BY <1>1 DEF OpenRows, Replayed
  <2>6. /\ Opening(r)' = {i.opened[k] : k \in DOMAIN i.opened}
        /\ \A e \in Opening(r)' : \E k \in 1..Len(old) + 1 : e = i.opened[k]
    <3>1. Opening(r)' = {i.opened[k] : k \in DOMAIN i.opened}
      BY <1>5 DEF Opening
    <3> QED
      BY <2>4, <3>1
  <2>7. \A e \in Opening(r)' :
          /\ e.key \in i.locks \cap EvaluationKeys
          /\ OpenRows(e.key) = {}
          /\ ~Replayed(e)
    BY <2>2, <2>6
  <2> QED
    BY <1>5, <2>3, <2>4, <2>5, <2>7 DEF EvaluationKnows
<1>7. IntentSound(r)'
  BY <1>1, <1>5, <1>6, ReachedLocked
     DEF IntentSound, UpdatesKnow, Reached, DeviationKnows, CloseKnows
<1> QED
  BY <1>1, <1>4, <1>5, <1>7, MemoryStep

\* A deviation is started: the mission is locked, not closed, and has none.
LEMMA ReadDeviationStep ==
  ASSUME IndInv, NEW r \in Requests, NEW at \in DeviationTimes, ReadDeviation(r, at)
  PROVE  IndInv'
<1> DEFINE d == Deviation(at)
           i == [Idle EXCEPT !.op = "deviate", !.locks = {MissionLock}, !.opened = <<d>>]
<1>1. d \in Detection
  BY DEF Deviation, Detection, Keys, Occurrences
<1>2. /\ <<d>> \in Seq(Detection) /\ Len(<<d>>) = 1 /\ <<d>>[1] = d
  <2> HIDE DEF d
  <2> QED
    BY <1>1
<1>3. IntentOK(i)
  <2> HIDE DEF d
  <2> QED
    BY <1>2, IdleOK DEF IntentOK, Idle, Intent, Ops, Locks
<1>4. /\ i.op = "deviate" /\ i.locks = {MissionLock} /\ i.opened = <<d>>
      /\ i.found = {} /\ DOMAIN i.updates = {}
      /\ inflight'[r] = i /\ Remember(r, i)
      /\ UNCHANGED <<phase, facts, exceptions, closure>>
      /\ Available(MissionLock, r) /\ DeviationAllowed /\ OpenRows(DeviationKey) = {}
  <2>1. /\ Begin(r, i)
        /\ UNCHANGED <<phase, facts, exceptions, closure>>
        /\ Available(MissionLock, r) /\ DeviationAllowed /\ OpenRows(DeviationKey) = {}
    BY DEF ReadDeviation
  <2> HIDE DEF d
  <2> QED
    BY <2>1, IdleOK DEF Begin, Remember, Idle, IndInv, TypeOK
<1>5. d.key = DeviationKey
  BY DEF Deviation
<1> HIDE DEF i, d
<1>6. IntentSound(r)'
  BY <1>2, <1>4, <1>5
     DEF IntentSound, EvaluationKnows, UpdatesKnow, Reached, DeviationKnows, CloseKnows, OpenRows, DeviationAllowed
<1> QED
  BY <1>3, <1>4, <1>6, MemoryStep

\* A resolution, a recovery or a closing begins: one lock, at most one row.
LEMMA ReadStep ==
  ASSUME IndInv, NEW r \in Requests,
         \/ \E e \in DOMAIN exceptions : ReadRecovery(r, e)
         \/ \E e \in DOMAIN exceptions : ReadResolution(r, e)
         \/ ReadClose(r)
  PROVE  IndInv'
<1>1. PICK i, lock :
        /\ Begin(r, i) /\ IntentOK(i)
        /\ i.op \in {"recover", "resolve", "close"} /\ i.locks = {lock}
        /\ i.found = {} /\ DOMAIN i.updates = {}
        /\ i.op = "close" => lock = MissionLock
        /\ Available(lock, r)
  <2>1. CASE \E e \in DOMAIN exceptions : ReadRecovery(r, e)
    <3>1. PICK e \in DOMAIN exceptions : ReadRecovery(r, e)
      BY <2>1
    <3> DEFINE i == [Idle EXCEPT !.op = "recover", !.locks = {MissionLock}, !.rows = {e}]
    <3>2. IntentOK(i) /\ i.op = "recover" /\ i.locks = {MissionLock} /\ i.found = {} /\ DOMAIN i.updates = {}
      BY IdleOK DEF IntentOK, Idle, Intent, Ops, Locks
    <3>3. Begin(r, i) /\ Available(MissionLock, r)
      BY <3>1 DEF ReadRecovery
    <3> HIDE DEF i
    <3> QED
      BY <3>2, <3>3
  <2>2. CASE \E e \in DOMAIN exceptions : ReadResolution(r, e)
    <3>1. PICK e \in DOMAIN exceptions : ReadResolution(r, e)
      BY <2>2
    <3> DEFINE i == [Idle EXCEPT !.op = "resolve", !.locks = {ExceptionLock(e)}, !.rows = {e}]
    <3>2. IntentOK(i) /\ i.op = "resolve" /\ i.locks = {ExceptionLock(e)} /\ i.found = {} /\ DOMAIN i.updates = {}
      BY IdleOK DEF IntentOK, Idle, Intent, Ops, Locks
    <3>3. Begin(r, i) /\ Available(ExceptionLock(e), r)
      BY <3>1 DEF ReadResolution
    <3> HIDE DEF i
    <3> QED
      BY <3>2, <3>3
  <2>3. CASE ReadClose(r)
    <3> DEFINE i == [Idle EXCEPT !.op = "close", !.locks = {MissionLock}]
    <3>1. IntentOK(i) /\ i.op = "close" /\ i.locks = {MissionLock} /\ i.found = {} /\ DOMAIN i.updates = {}
      BY IdleOK DEF IntentOK, Idle, Intent, Ops, Locks
    <3>2. Begin(r, i) /\ Available(MissionLock, r)
      BY <2>3 DEF ReadClose
    <3> HIDE DEF i
    <3> QED
      BY <3>1, <3>2
  <2> QED
    BY <2>1, <2>2, <2>3
<1>3. /\ inflight'[r] = i /\ Remember(r, i)
      /\ UNCHANGED <<phase, facts, exceptions, closure>>
  BY <1>1 DEF ReadRecovery, ReadResolution, ReadClose, Begin, Remember, IndInv, TypeOK
<1>4. IntentSound(r)'
  BY <1>1, <1>3 DEF IntentSound, EvaluationKnows, UpdatesKnow, Reached, DeviationKnows, CloseKnows
<1> QED
  BY <1>1, <1>3, <1>4, MemoryStep

\* The closing lists what is open.
LEMMA ListStep ==
  ASSUME IndInv, NEW r \in Requests, ListOpen(r)
  PROVE  IndInv'
<1> DEFINE i == [inflight[r] EXCEPT !.op = "closing", !.rows = AllOpen]
<1>1. /\ Remember(r, i) /\ inflight[r].op = "close" /\ phase = "DELIVERED"
      /\ UNCHANGED <<phase, facts, exceptions, closure>>
  BY DEF ListOpen
<1>2. IntentOK(i)
  BY DEF IndInv, TypeOK, IntentOK, Intent, AllOpen, Ops
<1>3. /\ i.op = "closing" /\ i.locks = inflight[r].locks /\ i.rows = AllOpen
      /\ i.found = inflight[r].found /\ i.updates = inflight[r].updates
      /\ inflight'[r] = i
  BY <1>1 DEF IndInv, TypeOK, IntentOK, Intent, Remember
<1> HIDE DEF i
<1>4. IntentSound(r)'
  BY <1>1, <1>3 DEF IndInv, IntentsSound, IntentSound, EvaluationKnows, UpdatesKnow, Reached, DeviationKnows, CloseKnows,
                    OpenRows, AllOpen
<1> QED
  BY <1>1, <1>2, <1>3, <1>4, MemoryStep

\* The mission is delivered or cancelled, or an operation becomes due.
LEMMA MissionStepIndInv ==
  ASSUME IndInv, MissionStep
  PROVE  IndInv'
<1>1. /\ UNCHANGED <<exceptions, closure, inflight>>
      /\ phase' = phase \/ (phase = "UNDERWAY" /\ phase' \in {"DELIVERED", "CANCELLED"})
      /\ facts' \in [Candidates -> Facts]
  <2>1. CASE Deliver \/ Cancel
    BY <2>1 DEF Deliver, Cancel, IndInv, TypeOK
  <2>2. CASE \E c \in Candidates : Elapse(c)
    BY <2>2 DEF Elapse, IndInv, TypeOK, Facts
  <2> QED
    BY <2>1, <2>2 DEF MissionStep
<1>2. TypeOK'
  BY <1>1 DEF IndInv, TypeOK, IntentOK, Intent, Locks, ExceptionLock, Updates, Phases
<1>3. IntentsSound'
  BY <1>1 DEF IndInv, IntentsSound, IntentSound, EvaluationKnows, UpdatesKnow, Reached, DeviationKnows, CloseKnows,
              Opening, OpenRows, Replayed
<1>4. (LocksExclusive /\ OneOpenPerKey /\ OccurrenceOnce /\ ClosureAccounted)'
  BY <1>1 DEF IndInv, LocksExclusive, OneOpenPerKey, AllOpen, OccurrenceOnce, ClosureAccounted
<1>5. ClosedWithoutDeviation'
  BY <1>1 DEF IndInv, ClosedWithoutDeviation, OpenRows
<1> QED
  BY <1>1, <1>2, <1>3, <1>4, <1>5 DEF IndInv

-------------------------------------------------------------------------------
(* Insertions.                                                                 *)

\* The key of a deviation is not a key of rule evaluation.
LEMMA KeysApart == DeviationKey \notin EvaluationKeys
BY DEF DeviationKey, EvaluationKeys, MissingKey, RuleKey

\* What a request may insert: nothing is open under the key, which it has
\* locked, and the occurrence is new or the mission not closed.
MayOpen(r, d) ==
  /\ OpenRows(d.key) = {}
  /\ \/ d.key \in inflight[r].locks \cap EvaluationKeys /\ ~Replayed(d)
     \/ d.key = DeviationKey /\ MissionLock \in inflight[r].locks /\ phase # "CLOSED"

\* The rows after an insertion, as far as the invariant speaks of them.
LEMMA InsertionRows ==
  ASSUME IndInv, NEW r \in Requests, exceptions' = Insert(r)
  PROVE  /\ exceptions' \in Seq(ExceptionRow)
         /\ DOMAIN exceptions \subseteq DOMAIN exceptions'
         /\ \A e \in DOMAIN exceptions :
              /\ Noted(exceptions[e], exceptions'[e])
              /\ exceptions'[e] # exceptions[e] =>
                   /\ e \in DOMAIN inflight[r].updates
                   /\ exceptions'[e].detected = inflight[r].updates[e]
         /\ \A e \in DOMAIN exceptions' \ DOMAIN exceptions :
              \E i \in DOMAIN inflight[r].opened :
                /\ e = Len(exceptions) + i
                /\ exceptions'[e].key = inflight[r].opened[i].key
                /\ exceptions'[e].occurrence = inflight[r].opened[i].occurrence
                /\ exceptions'[e].status = "OPEN"
                /\ exceptions'[e].resolvedBy = "nobody"
         /\ \A key : (\A d \in Opening(r) : d.key # key) => OpenRows(key)' = OpenRows(key)
         /\ \A d : Replayed(d)' <=> Replayed(d)
<1>1. /\ exceptions \in Seq(ExceptionRow) /\ inflight[r].opened \in Seq(Detection)
      /\ inflight[r].updates \in Updates
  BY DEF IndInv, TypeOK, IntentOK, Intent
<1>2. /\ exceptions' \in Seq(ExceptionRow)
      /\ DOMAIN exceptions \subseteq DOMAIN exceptions'
      /\ \A e \in DOMAIN exceptions :
           /\ Noted(exceptions[e], exceptions'[e])
           /\ exceptions'[e] # exceptions[e] =>
                /\ e \in DOMAIN inflight[r].updates
                /\ exceptions'[e].detected = inflight[r].updates[e]
  BY <1>1, InsertedRows
<1>3. ASSUME NEW e \in DOMAIN exceptions' \ DOMAIN exceptions
      PROVE  \E i \in DOMAIN inflight[r].opened :
               /\ e = Len(exceptions) + i
               /\ exceptions'[e].key = inflight[r].opened[i].key
               /\ exceptions'[e].occurrence = inflight[r].opened[i].occurrence
               /\ exceptions'[e].status = "OPEN"
               /\ exceptions'[e].resolvedBy = "nobody"
  <2>1. PICK i \in DOMAIN inflight[r].opened :
          e = Len(exceptions) + i /\ exceptions'[e] = NewRow(inflight[r].opened[i])
    BY <1>1, InsertedRows
  <2> QED
    BY <2>1 DEF NewRow
<1>4. \A e \in DOMAIN exceptions :
        /\ exceptions'[e].key = exceptions[e].key
        /\ exceptions'[e].occurrence = exceptions[e].occurrence
        /\ exceptions'[e].status = exceptions[e].status
  BY <1>2 DEF Noted
<1>5. ASSUME NEW key, \A d \in Opening(r) : d.key # key
      PROVE  OpenRows(key)' = OpenRows(key)
  <2>1. \A e \in DOMAIN exceptions' \ DOMAIN exceptions : exceptions'[e].key # key
    BY <1>3, <1>5 DEF Opening
  <2>2. DOMAIN exceptions \subseteq DOMAIN exceptions'
    BY <1>2
  <2> QED
    BY <1>4, <2>1, <2>2 DEF OpenRows
<1>6. ASSUME NEW d PROVE Replayed(d)' <=> Replayed(d)
  <2>1. \A e \in DOMAIN exceptions' \ DOMAIN exceptions : exceptions'[e].status # "RESOLVED"
    BY <1>3
  <2>2. DOMAIN exceptions \subseteq DOMAIN exceptions'
    BY <1>2
  <2> QED
    BY <1>4, <2>1, <2>2 DEF Replayed
<1> QED
  BY <1>2, <1>3, <1>5, <1>6

\* A request that inserts only what it may keeps the invariant.
LEMMA InsertionStep ==
  ASSUME IndInv, NEW r \in Requests, exceptions' = Insert(r), End(r),
         closure' = closure, phase' = phase,
         facts' \in [Candidates -> Facts],
         \A d \in Opening(r) : MayOpen(r, d),
         \A i, j \in DOMAIN inflight[r].opened :
           inflight[r].opened[i].key = inflight[r].opened[j].key => i = j
  PROVE  IndInv'
<1> DEFINE old == DOMAIN exceptions
           opened == inflight[r].opened
<1>1. /\ inflight'[r] = Idle
      /\ \A p \in Requests \ {r} : inflight'[p] = inflight[p]
      /\ DOMAIN inflight' = Requests
  BY DEF End, IndInv, TypeOK
<1>2. /\ exceptions' \in Seq(ExceptionRow)
      /\ old \subseteq DOMAIN exceptions'
      /\ \A e \in old :
           /\ exceptions'[e].key = exceptions[e].key
           /\ exceptions'[e].occurrence = exceptions[e].occurrence
           /\ exceptions'[e].status = exceptions[e].status
           /\ exceptions'[e].resolvedBy = exceptions[e].resolvedBy
      /\ \A key : (\A d \in Opening(r) : d.key # key) => OpenRows(key)' = OpenRows(key)
      /\ \A d : Replayed(d)' <=> Replayed(d)
  BY InsertionRows DEF Noted
<1>3. ASSUME NEW e \in DOMAIN exceptions' \ old
      PROVE  \E i \in DOMAIN opened :
               /\ e = Len(exceptions) + i
               /\ exceptions'[e].key = opened[i].key
               /\ exceptions'[e].occurrence = opened[i].occurrence
               /\ exceptions'[e].status = "OPEN" /\ exceptions'[e].resolvedBy = "nobody"
               /\ MayOpen(r, opened[i])
  BY InsertionRows DEF Opening
<1>4. TypeOK'
  <2>1. IntentOK(Idle)'
    BY <1>1, <1>2, IdleOK, UpdatesGrow DEF IntentOK, Idle, Intent, Locks, ExceptionLock
  <2>2. ASSUME NEW p \in Requests \ {r} PROVE IntentOK(inflight[p])'
    <3>1. Updates \subseteq Updates' /\ DOMAIN exceptions \subseteq DOMAIN exceptions'
      BY <1>2, UpdatesGrow
    <3>2. Locks \subseteq Locks'
      BY <3>1 DEF Locks, ExceptionLock
    <3>3. Intent \subseteq Intent'
      BY <3>1, <3>2 DEF Intent
    <3>4. IntentOK(inflight[p]) /\ inflight'[p] = inflight[p]
      BY <1>1 DEF IndInv, TypeOK
    <3> QED
      BY <3>3, <3>4 DEF IntentOK
  <2> QED
    BY <1>1, <1>2, <2>1, <2>2 DEF IndInv, TypeOK
<1>5. LocksExclusive'
  BY <1>1, IdleOK DEF IndInv, LocksExclusive
<1>6. IntentsSound'
  <2>1. IntentSound(r)'
    BY <1>1, IdleOK DEF IntentSound, EvaluationKnows, UpdatesKnow, Reached, DeviationKnows, CloseKnows
  <2>2. ASSUME NEW p \in Requests \ {r} PROVE IntentSound(p)'
    <3>1. ASSUME NEW key \in inflight[p].locks \cap EvaluationKeys
          PROVE  OpenRows(key)' = OpenRows(key)
      <4>1. \A d \in Opening(r) : d.key # key
        BY KeysApart DEF MayOpen, IndInv, LocksExclusive
      <4> QED
        BY <1>2, <4>1
    <3>2. MissionLock \in inflight[p].locks => OpenRows(DeviationKey)' = OpenRows(DeviationKey)
      <4>1. MissionLock \in inflight[p].locks => \A d \in Opening(r) : d.key # DeviationKey
        BY KeysApart DEF MayOpen, IndInv, LocksExclusive
      <4> QED
        BY <1>2, <4>1
    <3>3. EvaluationKnows(p)'
      <4>1. Opening(p)' = Opening(p)
        BY <1>1 DEF Opening
      <4>2. EvaluationKnows(p)
        BY DEF IndInv, IntentsSound, IntentSound
      <4>3. ASSUME inflight[p].op \in {"event", "sweep"}, NEW d \in Opening(p)
            PROVE  /\ d.key \in inflight[p].locks \cap EvaluationKeys
                   /\ OpenRows(d.key)' = {}
                   /\ ~Replayed(d)'
        BY <1>2, <3>1, <4>2, <4>3 DEF EvaluationKnows
      <4> QED
        BY <1>1, <4>1, <4>2, <4>3 DEF EvaluationKnows
    <3>4. DeviationKnows(p)'
      BY <1>1, <1>2, <3>2 DEF IndInv, IntentsSound, IntentSound, DeviationKnows
    <3>5. CloseKnows(p)'
      BY <1>1, <1>2, <3>2 DEF IndInv, IntentsSound, IntentSound, CloseKnows
    <3>6. UpdatesKnow(p)'
      BY <1>1, <1>2, ReachedInRows DEF IndInv, IntentsSound, IntentSound, UpdatesKnow, Reached
    <3> QED
      BY <3>3, <3>4, <3>5, <3>6 DEF IntentSound
  <2> QED
    BY <2>1, <2>2 DEF IntentsSound
<1>7. OneOpenPerKey'
  <2> SUFFICES ASSUME NEW d \in AllOpen', NEW e \in AllOpen', exceptions'[d].key = exceptions'[e].key
               PROVE  d = e
    BY DEF OneOpenPerKey
  <2>1. CASE d \in old /\ e \in old
    BY <1>2, <2>1 DEF IndInv, OneOpenPerKey, AllOpen
  <2>2. ASSUME NEW x \in AllOpen' \cap old, NEW y \in DOMAIN exceptions' \ old
        PROVE  exceptions'[x].key # exceptions'[y].key
    BY <1>2, <1>3 DEF MayOpen, OpenRows, AllOpen
  <2>3. CASE d \notin old /\ e \notin old
    BY <1>3, <2>3 DEF AllOpen
  <2> QED
    BY <2>1, <2>2, <2>3 DEF AllOpen
<1>8. OccurrenceOnce'
  <2> SUFFICES ASSUME NEW d \in DOMAIN exceptions', NEW e \in DOMAIN exceptions',
                      exceptions'[d].key \in EvaluationKeys,
                      exceptions'[d].key = exceptions'[e].key,
                      exceptions'[d].occurrence = exceptions'[e].occurrence
               PROVE  d = e
    BY DEF OccurrenceOnce
  <2>1. CASE d \in old /\ e \in old
    BY <1>2, <2>1 DEF IndInv, OccurrenceOnce
  <2>2. ASSUME NEW x \in old, NEW y \in DOMAIN exceptions' \ old,
               exceptions'[y].key \in EvaluationKeys,
               exceptions'[x].key = exceptions'[y].key
        PROVE  exceptions'[x].occurrence # exceptions'[y].occurrence
    <3>1. /\ exceptions[x] \in ExceptionRow
          /\ exceptions'[x].key = exceptions[x].key
          /\ exceptions'[x].occurrence = exceptions[x].occurrence
      BY <1>2 DEF IndInv, TypeOK
    <3>2. PICK i \in DOMAIN opened :
            /\ exceptions'[y].key = opened[i].key
            /\ exceptions'[y].occurrence = opened[i].occurrence
            /\ OpenRows(opened[i].key) = {}
            /\ ~Replayed(opened[i])
      BY <1>3, <2>2, KeysApart DEF MayOpen
    <3>3. exceptions[x].status # "OPEN"
      BY <2>2, <3>1, <3>2 DEF OpenRows
    <3>4. exceptions[x].status = "RESOLVED"
      BY <3>1, <3>3 DEF ExceptionRow
    <3> QED
      BY <2>2, <3>1, <3>2, <3>4 DEF Replayed
  <2>3. CASE d \notin old /\ e \notin old
    BY <1>3, <2>3
  <2> QED
    BY <2>1, <2>2, <2>3
<1>9. ClosedWithoutDeviation'
  <2>1. phase = "CLOSED" => \A d \in Opening(r) : d.key # DeviationKey
    BY KeysApart DEF MayOpen
  <2> QED
    BY <1>2, <2>1 DEF IndInv, ClosedWithoutDeviation
<1>10. ClosureAccounted'
  BY <1>2, <1>3 DEF IndInv, ClosureAccounted
<1>11. \A e \in DOMAIN exceptions' :
         exceptions'[e].status = "OPEN" <=> exceptions'[e].resolvedBy = "nobody"
  BY <1>2, <1>3 DEF IndInv
<1> QED
  BY <1>4, <1>5, <1>6, <1>7, <1>8, <1>9, <1>10, <1>11 DEF IndInv

-------------------------------------------------------------------------------
(* Resolutions.                                                                *)

\* Resolving open rows, by anyone, keeps the invariant; the closing does it
\* under the mission's lock and leaves no deviation open.
LEMMA ResolveStep ==
  ASSUME IndInv, NEW r \in Requests, NEW S \in SUBSET DOMAIN exceptions,
         NEW by \in {"user", "recovery", "closure"},
         \A e \in S : exceptions[e].status = "OPEN",
         exceptions' = ResolveRows(S, by), End(r),
         UNCHANGED facts,
         \/ by # "closure" /\ closure' = closure /\ phase' = phase
         \/ /\ by = "closure" /\ closure' = S
            /\ phase' = "CLOSED" /\ phase # "CLOSED"
            /\ OpenRows(DeviationKey) \subseteq S
            /\ MissionLock \in inflight[r].locks
  PROVE  IndInv'
<1>1. /\ inflight'[r] = Idle
      /\ \A p \in Requests \ {r} : inflight'[p] = inflight[p]
      /\ DOMAIN inflight' = Requests
  BY DEF End, IndInv, TypeOK
<1>2. /\ exceptions' \in Seq(ExceptionRow)
      /\ DOMAIN exceptions' = DOMAIN exceptions
      /\ \A e \in DOMAIN exceptions \ S : exceptions'[e] = exceptions[e]
      /\ \A e \in S :
           /\ exceptions'[e].key = exceptions[e].key
           /\ exceptions'[e].occurrence = exceptions[e].occurrence
           /\ exceptions'[e].status = "RESOLVED"
           /\ exceptions'[e].resolvedBy = by
  BY ResolvedRows DEF IndInv, TypeOK
<1>3. /\ AllOpen' = AllOpen \ S
      /\ \A key : OpenRows(key)' = OpenRows(key) \ S
  BY <1>2 DEF AllOpen, OpenRows
<1>4. ASSUME NEW d, OpenRows(d.key) = {}, ~Replayed(d) PROVE ~Replayed(d)'
  <2> SUFFICES ASSUME NEW e \in DOMAIN exceptions,
                      exceptions'[e].status = "RESOLVED", exceptions'[e].key = d.key,
                      exceptions'[e].occurrence = d.occurrence
               PROVE  FALSE
    BY <1>2 DEF Replayed
  <2>1. CASE e \in S
    BY <1>2, <1>4, <2>1 DEF OpenRows
  <2>2. CASE e \notin S
    BY <1>2, <1>4, <2>2 DEF Replayed
  <2> QED
    BY <2>1, <2>2
<1>5. TypeOK'
  <2>1. IntentOK(Idle)'
    BY <1>1, <1>2, IdleOK, UpdatesGrow DEF IntentOK, Idle, Intent, Locks, ExceptionLock
  <2>2. ASSUME NEW p \in Requests \ {r} PROVE IntentOK(inflight[p])'
    <3>1. Updates \subseteq Updates' /\ DOMAIN exceptions \subseteq DOMAIN exceptions'
      BY <1>2, UpdatesGrow
    <3>2. Locks \subseteq Locks'
      BY <3>1 DEF Locks, ExceptionLock
    <3>3. Intent \subseteq Intent'
      BY <3>1, <3>2 DEF Intent
    <3>4. IntentOK(inflight[p]) /\ inflight'[p] = inflight[p]
      BY <1>1 DEF IndInv, TypeOK
    <3> QED
      BY <3>3, <3>4 DEF IntentOK
  <2>3. phase' \in Phases /\ closure' \subseteq DOMAIN exceptions'
    BY <1>2 DEF IndInv, TypeOK, Phases
  <2> QED
    BY <1>1, <1>2, <2>1, <2>2, <2>3 DEF IndInv, TypeOK
<1>6. LocksExclusive'
  BY <1>1, IdleOK DEF IndInv, LocksExclusive
<1>7. IntentsSound'
  <2>1. IntentSound(r)'
    BY <1>1, IdleOK DEF IntentSound, EvaluationKnows, UpdatesKnow, Reached, DeviationKnows, CloseKnows
  <2>2. ASSUME NEW p \in Requests \ {r} PROVE IntentSound(p)'
    <3>1. MissionLock \in inflight[p].locks => phase' = phase
      BY DEF IndInv, LocksExclusive
    <3>2. EvaluationKnows(p)'
      <4>1. Opening(p)' = Opening(p)
        BY <1>1 DEF Opening
      <4>2. EvaluationKnows(p)
        BY DEF IndInv, IntentsSound, IntentSound
      <4>3. ASSUME inflight[p].op \in {"event", "sweep"}, NEW d \in Opening(p)
            PROVE  /\ d.key \in inflight[p].locks \cap EvaluationKeys
                   /\ OpenRows(d.key)' = {}
                   /\ ~Replayed(d)'
        BY <1>3, <1>4, <4>2, <4>3 DEF EvaluationKnows
      <4> QED
        BY <1>1, <4>1, <4>2, <4>3 DEF EvaluationKnows
    <3>3. DeviationKnows(p)'
      BY <1>1, <1>3, <3>1 DEF IndInv, IntentsSound, IntentSound, DeviationKnows
    <3>4. CloseKnows(p)'
      BY <1>1, <1>3, <3>1 DEF IndInv, IntentsSound, IntentSound, CloseKnows
    <3>5. UpdatesKnow(p)'
      BY <1>1, <1>2, ReachedInRows DEF IndInv, IntentsSound, IntentSound, UpdatesKnow, Reached
    <3> QED
      BY <3>2, <3>3, <3>4, <3>5 DEF IntentSound
  <2> QED
    BY <2>1, <2>2 DEF IntentsSound
<1>8. \A e \in DOMAIN exceptions :
        /\ exceptions'[e].key = exceptions[e].key
        /\ exceptions'[e].occurrence = exceptions[e].occurrence
  BY <1>2
<1>9. OneOpenPerKey' /\ OccurrenceOnce'
  BY <1>2, <1>3, <1>8 DEF IndInv, OneOpenPerKey, OccurrenceOnce, AllOpen
<1>10. ClosedWithoutDeviation'
  BY <1>3 DEF IndInv, ClosedWithoutDeviation
<1>11. \A e \in DOMAIN exceptions' :
         exceptions'[e].status = "OPEN" <=> exceptions'[e].resolvedBy = "nobody"
  BY <1>2 DEF IndInv
<1>12. ClosureAccounted'
  <2>1. \A e \in S : exceptions[e].resolvedBy = "nobody"
    BY DEF IndInv
  <2> QED
    BY <1>2, <2>1 DEF IndInv, ClosureAccounted
<1>13. phase' # "CLOSED" => closure' = {}
  BY DEF IndInv
<1> QED
  BY <1>5, <1>6, <1>7, <1>9, <1>10, <1>11, <1>12, <1>13 DEF IndInv

-------------------------------------------------------------------------------
(* The commits.                                                                *)

\* What an evaluation or a deviation commits, it may open.
LEMMA CommitInsertions ==
  ASSUME IndInv, NEW r \in Requests, inflight[r].op \in {"event", "sweep", "deviate"}
  PROVE  /\ \A d \in Opening(r) : MayOpen(r, d)
         /\ \A i, j \in DOMAIN inflight[r].opened :
              inflight[r].opened[i].key = inflight[r].opened[j].key => i = j
<1>1. IntentSound(r)
  BY DEF IndInv, IntentsSound
<1>2. CASE inflight[r].op \in {"event", "sweep"}
  BY <1>1, <1>2 DEF IntentSound, EvaluationKnows, MayOpen
<1>3. CASE inflight[r].op = "deviate"
  <2>1. /\ Len(inflight[r].opened) = 1 /\ inflight[r].opened \in Seq(Detection)
        /\ inflight[r].opened[1].key = DeviationKey
        /\ MissionLock \in inflight[r].locks /\ OpenRows(DeviationKey) = {} /\ phase # "CLOSED"
    BY <1>1, <1>3 DEF IntentSound, DeviationKnows, IndInv, TypeOK, IntentOK, Intent
  <2>2. DOMAIN inflight[r].opened = {1}
    BY <2>1
  <2> QED
    BY <2>1, <2>2 DEF Opening, MayOpen
<1> QED
  BY <1>2, <1>3

LEMMA CommitStep ==
  ASSUME IndInv, NEW r \in Requests,
         CommitEvaluation(r) \/ CommitDeviation(r) \/ CommitResolution(r) \/ CommitClose(r)
  PROVE  IndInv'
<1>1. CASE CommitEvaluation(r)
  <2>1. /\ exceptions' = Insert(r) /\ End(r) /\ closure' = closure /\ phase' = phase
        /\ inflight[r].op \in {"event", "sweep"}
    BY <1>1 DEF CommitEvaluation
  <2>2. inflight[r].seen \in Views /\ facts \in [Candidates -> Facts]
    BY DEF IndInv, TypeOK, IntentOK, Intent
  <2>3. facts' \in [Candidates -> Facts]
    <3>1. \A c \in DOMAIN inflight[r].seen : inflight[r].seen[c] \in Facts
      BY <2>2 DEF Views
    <3> QED
      BY <1>1, <2>2, <3>1 DEF CommitEvaluation
  <2> QED
    BY <2>1, <2>3, CommitInsertions, InsertionStep
<1>2. CASE CommitDeviation(r)
  <2>1. /\ exceptions' = Insert(r) /\ End(r) /\ closure' = closure /\ phase' = phase
        /\ inflight[r].op = "deviate"
        /\ facts' \in [Candidates -> Facts]
    BY <1>2 DEF CommitDeviation, IndInv, TypeOK
  <2> QED
    BY <2>1, CommitInsertions, InsertionStep
<1>3. CASE CommitResolution(r)
  <2> DEFINE S == StillOpen(inflight[r].rows)
             by == Resolver(inflight[r].op)
  <2>1. S \in SUBSET DOMAIN exceptions /\ \A e \in S : exceptions[e].status = "OPEN"
    BY DEF StillOpen, IndInv, TypeOK, IntentOK, Intent
  <2>2. by \in {"user", "recovery"}
    BY DEF Resolver
  <2>3. /\ exceptions' = ResolveRows(S, by) /\ End(r)
        /\ UNCHANGED <<phase, facts, closure>>
    BY <1>3 DEF CommitResolution
  <2> HIDE DEF S, by
  <2> QED
    BY <2>1, <2>2, <2>3, ResolveStep
<1>4. CASE CommitClose(r)
  <2> DEFINE S == StillOpen(inflight[r].rows)
  <2>1. S \in SUBSET DOMAIN exceptions /\ \A e \in S : exceptions[e].status = "OPEN"
    BY DEF StillOpen, IndInv, TypeOK, IntentOK, Intent
  <2>2. /\ exceptions' = ResolveRows(S, "closure") /\ End(r)
        /\ closure' = S /\ phase' = "CLOSED" /\ UNCHANGED facts
        /\ inflight[r].op = "closing"
    BY <1>4 DEF CommitClose, Closed
  <2>3. /\ OpenRows(DeviationKey) \subseteq inflight[r].rows /\ phase = "DELIVERED"
        /\ MissionLock \in inflight[r].locks
    BY <2>2 DEF IndInv, IntentsSound, IntentSound, CloseKnows
  <2>4. OpenRows(DeviationKey) \subseteq S
    BY <2>3 DEF StillOpen, OpenRows
  <2> HIDE DEF S
  <2> QED
    BY <2>1, <2>2, <2>3, <2>4, ResolveStep
<1> QED
  BY <1>1, <1>2, <1>3, <1>4

-------------------------------------------------------------------------------
(* The invariant and the safety properties.                                    *)

LEMMA StepIndInv == IndInv /\ [Next]_vars => IndInv'
<1> SUFFICES ASSUME IndInv, [Next]_vars PROVE IndInv'
  OBVIOUS
<1>1. CASE UNCHANGED vars
  <2>1. UNCHANGED <<phase, facts, exceptions, closure, inflight>>
    BY <1>1 DEF vars
  <2>2. TypeOK'
    BY <2>1 DEF IndInv, TypeOK, IntentOK, Intent, Locks, ExceptionLock, Updates
  <2>3. IntentsSound'
    BY <2>1 DEF IndInv, IntentsSound, IntentSound, EvaluationKnows, UpdatesKnow, Reached, DeviationKnows, CloseKnows,
                Opening, OpenRows, Replayed
  <2>4. (LocksExclusive /\ OneOpenPerKey /\ OccurrenceOnce)'
    BY <2>1 DEF IndInv, LocksExclusive, OneOpenPerKey, AllOpen, OccurrenceOnce
  <2>5. (ClosedWithoutDeviation /\ ClosureAccounted)'
    BY <2>1 DEF IndInv, ClosedWithoutDeviation, OpenRows, ClosureAccounted
  <2> QED
    BY <2>1, <2>2, <2>3, <2>4, <2>5 DEF IndInv
<1>2. CASE MissionStep
  BY <1>2, MissionStepIndInv
<1>3. ASSUME NEW r \in Requests, EvaluationStep(r) PROVE IndInv'
  BY <1>3, BeginStep, SkipStep, OwnStep, FoundStep, NewStep, CommitStep DEF EvaluationStep
<1>4. ASSUME NEW r \in Requests, DeviationStep(r) PROVE IndInv'
  BY <1>4, ReadDeviationStep, CommitStep, ReadStep DEF DeviationStep
<1>5. ASSUME NEW r \in Requests, ResolutionStep(r) PROVE IndInv'
  BY <1>5, ReadStep, ListStep, CommitStep DEF ResolutionStep
<1>6. ASSUME NEW r \in Requests, Rollback(r) PROVE IndInv'
  BY <1>6, EndStep DEF Rollback
<1> QED
  BY <1>1, <1>2, <1>3, <1>4, <1>5, <1>6 DEF Next

\* What the requests in flight know of the rows is an invariant, and with it
\* the safety properties.
THEOREM Inductive == Spec => []IndInv
BY InitIndInv, StepIndInv, PTL DEF Spec

\* One rule has one open exception per target, by the advisory locks alone.
THEOREM OneOpenSafe == Spec => []OneOpenPerKey
BY Inductive, PTL DEF IndInv

\* Rule evaluation opens one exception per occurrence.
THEOREM OccurrenceSafe == Spec => []OccurrenceOnce
BY Inductive, PTL DEF IndInv

\* A closed mission has no open deviation.
THEOREM ClosedSafe == Spec => []ClosedWithoutDeviation
BY Inductive, PTL DEF IndInv

\* The closing event accounts for what the closing resolved.
THEOREM ClosureSafe == Spec => []ClosureAccounted
BY Inductive, PTL DEF IndInv

-------------------------------------------------------------------------------
(* What a step may do to the rows.                                             *)

\* The rows change by an insertion of what may be opened, or by a resolution
\* of what is open.
LEMMA RowSteps ==
  ASSUME IndInv, [Next]_vars
  PROVE  \/ UNCHANGED exceptions
         \/ \E r \in Requests :
              /\ exceptions' = Insert(r) /\ End(r)
              /\ inflight[r].op \in {"event", "sweep", "deviate"}
         \/ \E S \in SUBSET DOMAIN exceptions, by \in {"user", "recovery", "closure"} :
              /\ \A e \in S : exceptions[e].status = "OPEN"
              /\ exceptions' = ResolveRows(S, by)
<1>1. CASE UNCHANGED vars \/ MissionStep
  BY <1>1 DEF vars, MissionStep, Deliver, Cancel, Elapse
<1>2. ASSUME NEW r \in Requests, EvaluationStep(r)
      PROVE  UNCHANGED exceptions \/ CommitEvaluation(r)
  BY <1>2 DEF EvaluationStep, BeginEvent, BeginSweep, Pass, DetectOwn, DetectFound, UpdateFound,
              DetectReplay, DetectNew
<1>3. ASSUME NEW r \in Requests, DeviationStep(r)
      PROVE  UNCHANGED exceptions \/ CommitDeviation(r)
  BY <1>3 DEF DeviationStep, ReadDeviation, ReadRecovery
<1>4. ASSUME NEW r \in Requests, ResolutionStep(r)
      PROVE  UNCHANGED exceptions \/ CommitResolution(r) \/ CommitClose(r)
  BY <1>4 DEF ResolutionStep, ReadResolution, ReadClose, ListOpen
<1>5. ASSUME NEW r \in Requests, Rollback(r) PROVE UNCHANGED exceptions
  BY <1>5 DEF Rollback
<1>6. ASSUME NEW r \in Requests, CommitEvaluation(r) \/ CommitDeviation(r)
      PROVE  exceptions' = Insert(r) /\ End(r) /\ inflight[r].op \in {"event", "sweep", "deviate"}
  BY <1>6 DEF CommitEvaluation, CommitDeviation
<1>7. ASSUME NEW r \in Requests, CommitResolution(r) \/ CommitClose(r)
      PROVE  \E S \in SUBSET DOMAIN exceptions, by \in {"user", "recovery", "closure"} :
               /\ \A e \in S : exceptions[e].status = "OPEN"
               /\ exceptions' = ResolveRows(S, by)
  <2> DEFINE S == StillOpen(inflight[r].rows)
  <2>1. S \in SUBSET DOMAIN exceptions /\ \A e \in S : exceptions[e].status = "OPEN"
    BY DEF StillOpen, IndInv, TypeOK, IntentOK, Intent
  <2>2. PICK by \in {"user", "recovery", "closure"} : exceptions' = ResolveRows(S, by)
    BY <1>7 DEF CommitResolution, CommitClose, Resolver
  <2> HIDE DEF S
  <2> QED
    BY <2>1, <2>2
<1> QED
  BY <1>1, <1>2, <1>3, <1>4, <1>5, <1>6, <1>7 DEF Next

\* What a request comes to reach is open.
LEMMA ReachesOpen ==
  ASSUME IndInv, NEW q \in Requests, NEW i, Remember(q, i),
         i.found \cup DOMAIN i.updates \subseteq Reached(q) \cup AllOpen,
         NEW r \in Requests
  PROVE  Reached(r)' \subseteq Reached(r) \cup AllOpen
<1>1. inflight'[r] = IF r = q THEN i ELSE inflight[r]
  BY DEF IndInv, TypeOK, Remember
<1> QED
  BY <1>1 DEF Reached

\* A request that begins or ends reaches nothing.
LEMMA EmptyReaches ==
  ASSUME IndInv, NEW q \in Requests, NEW i, Remember(q, i), i.found = {}, DOMAIN i.updates = {},
         NEW r \in Requests
  PROVE  Reached(r)' \subseteq Reached(r) \cup AllOpen
BY ReachesOpen

LEMMA ReachedOpen ==
  ASSUME IndInv, [Next]_vars, NEW r \in Requests
  PROVE  Reached(r)' \subseteq Reached(r) \cup AllOpen
<1>1. CASE UNCHANGED vars \/ MissionStep
  BY <1>1 DEF vars, MissionStep, Deliver, Cancel, Elapse, Reached
<1>2. ASSUME NEW q \in Requests, End(q)
      PROVE  Reached(r)' \subseteq Reached(r) \cup AllOpen
  <2>1. Remember(q, Idle)
    BY <1>2 DEF End, Remember
  <2> QED
    BY <2>1, IdleOK, EmptyReaches
<1>3. ASSUME NEW q \in Requests, EvaluationStep(q)
      PROVE  Reached(r)' \subseteq Reached(r) \cup AllOpen
  <2>1. CASE CommitEvaluation(q)
    BY <1>2, <2>1 DEF CommitEvaluation
  <2>2. CASE (\E cs \in Events : BeginEvent(q, cs)) \/ BeginSweep(q)
    <3>1. ASSUME NEW op, NEW todo, NEW seen,
                 Begin(q, [Idle EXCEPT !.op = op, !.todo = todo, !.seen = seen])
          PROVE  Reached(r)' \subseteq Reached(r) \cup AllOpen
      <4> DEFINE i == [Idle EXCEPT !.op = op, !.todo = todo, !.seen = seen]
      <4>1. i.found = {} /\ DOMAIN i.updates = {}
        BY IdleOK DEF Idle
      <4>2. Remember(q, i)
        BY <3>1 DEF Begin, Remember
      <4> HIDE DEF i
      <4> QED
        BY <4>1, <4>2, EmptyReaches
    <3>2. CASE BeginSweep(q)
      BY <3>1, <3>2 DEF BeginSweep
    <3>3. ASSUME NEW cs \in Events, BeginEvent(q, cs)
          PROVE  Reached(r)' \subseteq Reached(r) \cup AllOpen
      <4>1. PICK outcome \in [Elements(cs) -> Recorded] :
              Begin(q, [Idle EXCEPT !.op = "event", !.todo = cs, !.seen = outcome])
        BY <3>3 DEF BeginEvent
      <4> QED
        BY <3>1, <4>1
    <3> QED
      BY <2>2, <3>2, <3>3
  <2>3. ASSUME NEW i, Remember(q, i), i.found = inflight[q].found, i.updates = inflight[q].updates
        PROVE  Reached(r)' \subseteq Reached(r) \cup AllOpen
    BY <2>3, ReachesOpen DEF Reached
  <2>4. CASE Pass(q)
    <3> DEFINE i == [inflight[q] EXCEPT !.todo = Tail(inflight[q].todo)]
    <3>1. i.found = inflight[q].found /\ i.updates = inflight[q].updates
      BY DEF IndInv, TypeOK, IntentOK, Intent
    <3>2. Remember(q, i)
      BY <2>4 DEF Pass
    <3> HIDE DEF i
    <3> QED
      BY <2>3, <3>1, <3>2
  <2>5. CASE DetectOwn(q)
    <3>1. PICK more :
            Remember(q, [inflight[q] EXCEPT !.todo = Tail(inflight[q].todo), !.opened = more])
      BY <2>5 DEF DetectOwn
    <3> DEFINE i == [inflight[q] EXCEPT !.todo = Tail(inflight[q].todo), !.opened = more]
    <3>2. i.found = inflight[q].found /\ i.updates = inflight[q].updates
      BY DEF IndInv, TypeOK, IntentOK, Intent
    <3> HIDE DEF i
    <3> QED
      BY <2>3, <3>1, <3>2 DEF i
  <2>6. CASE DetectReplay(q)
    <3> DEFINE i == [inflight[q] EXCEPT !.locks = inflight[q].locks \cup {Current(q).key},
                                        !.todo = Tail(inflight[q].todo)]
    <3>1. i.found = inflight[q].found /\ i.updates = inflight[q].updates
      BY DEF IndInv, TypeOK, IntentOK, Intent
    <3>2. Remember(q, i)
      BY <2>6 DEF DetectReplay
    <3> HIDE DEF i
    <3> QED
      BY <2>3, <3>1, <3>2
  <2>7. CASE DetectNew(q)
    <3> DEFINE i == [inflight[q] EXCEPT !.locks = inflight[q].locks \cup {Current(q).key},
                                        !.todo = Tail(inflight[q].todo),
                                        !.opened = Append(inflight[q].opened, Current(q))]
    <3>1. i.found = inflight[q].found /\ i.updates = inflight[q].updates
      BY DEF IndInv, TypeOK, IntentOK, Intent
    <3>2. Remember(q, i)
      BY <2>7 DEF DetectNew
    <3> HIDE DEF i
    <3> QED
      BY <2>3, <3>1, <3>2
  <2>8. CASE DetectFound(q)
    <3> DEFINE i == [inflight[q] EXCEPT !.locks = inflight[q].locks \cup {Current(q).key},
                                        !.found = OpenRows(Current(q).key)]
    <3>1. i.found = OpenRows(Current(q).key) /\ i.updates = inflight[q].updates
      BY DEF IndInv, TypeOK, IntentOK, Intent
    <3>2. Remember(q, i)
      BY <2>8 DEF DetectFound
    <3> HIDE DEF i
    <3> QED
      BY <3>1, <3>2, ReachesOpen DEF Reached, OpenRows, AllOpen
  <2>9. CASE UpdateFound(q)
    <3> DEFINE i == [inflight[q] EXCEPT !.todo = Tail(inflight[q].todo), !.found = {},
                                        !.updates = Redetected(q)]
    <3>1. i.found = {} /\ i.updates = Redetected(q)
      BY DEF IndInv, TypeOK, IntentOK, Intent
    <3>2. Remember(q, i)
      BY <2>9 DEF UpdateFound
    <3>3. DOMAIN Redetected(q) = Reached(q)
      BY DEF Redetected, Reached
    <3> HIDE DEF i
    <3> QED
      BY <3>1, <3>2, <3>3, ReachesOpen
  <2> QED
    BY <1>3, <2>1, <2>2, <2>4, <2>5, <2>6, <2>7, <2>8, <2>9 DEF EvaluationStep
<1>4. ASSUME NEW q \in Requests, DeviationStep(q)
      PROVE  Reached(r)' \subseteq Reached(r) \cup AllOpen
  <2>1. CASE CommitDeviation(q)
    BY <1>2, <2>1 DEF CommitDeviation
  <2>2. ASSUME NEW at \in DeviationTimes, ReadDeviation(q, at)
        PROVE  Reached(r)' \subseteq Reached(r) \cup AllOpen
    <3> DEFINE i == [Idle EXCEPT !.op = "deviate", !.locks = {MissionLock}, !.opened = <<Deviation(at)>>]
    <3>1. i.found = {} /\ DOMAIN i.updates = {}
      BY IdleOK DEF Idle
    <3>2. Remember(q, i)
      BY <2>2 DEF ReadDeviation, Begin, Remember
    <3> HIDE DEF i
    <3> QED
      BY <3>1, <3>2, EmptyReaches
  <2>3. ASSUME NEW e \in DOMAIN exceptions, ReadRecovery(q, e)
        PROVE  Reached(r)' \subseteq Reached(r) \cup AllOpen
    <3> DEFINE i == [Idle EXCEPT !.op = "recover", !.locks = {MissionLock}, !.rows = {e}]
    <3>1. i.found = {} /\ DOMAIN i.updates = {}
      BY IdleOK DEF Idle
    <3>2. Remember(q, i)
      BY <2>3 DEF ReadRecovery, Begin, Remember
    <3> HIDE DEF i
    <3> QED
      BY <3>1, <3>2, EmptyReaches
  <2> QED
    BY <1>4, <2>1, <2>2, <2>3 DEF DeviationStep
<1>5. ASSUME NEW q \in Requests, ResolutionStep(q)
      PROVE  Reached(r)' \subseteq Reached(r) \cup AllOpen
  <2>1. CASE CommitResolution(q) \/ CommitClose(q)
    BY <1>2, <2>1 DEF CommitResolution, CommitClose
  <2>2. ASSUME NEW e \in DOMAIN exceptions, ReadResolution(q, e)
        PROVE  Reached(r)' \subseteq Reached(r) \cup AllOpen
    <3> DEFINE i == [Idle EXCEPT !.op = "resolve", !.locks = {ExceptionLock(e)}, !.rows = {e}]
    <3>1. i.found = {} /\ DOMAIN i.updates = {}
      BY IdleOK DEF Idle
    <3>2. Remember(q, i)
      BY <2>2 DEF ReadResolution, Begin, Remember
    <3> HIDE DEF i
    <3> QED
      BY <3>1, <3>2, EmptyReaches
  <2>3. CASE ReadClose(q)
    <3> DEFINE i == [Idle EXCEPT !.op = "close", !.locks = {MissionLock}]
    <3>1. i.found = {} /\ DOMAIN i.updates = {}
      BY IdleOK DEF Idle
    <3>2. Remember(q, i)
      BY <2>3 DEF ReadClose, Begin, Remember
    <3> HIDE DEF i
    <3> QED
      BY <3>1, <3>2, EmptyReaches
  <2>4. CASE ListOpen(q)
    <3> DEFINE i == [inflight[q] EXCEPT !.op = "closing", !.rows = AllOpen]
    <3>1. i.found = inflight[q].found /\ i.updates = inflight[q].updates
      BY DEF IndInv, TypeOK, IntentOK, Intent
    <3>2. Remember(q, i)
      BY <2>4 DEF ListOpen
    <3> HIDE DEF i
    <3> QED
      BY <3>1, <3>2, ReachesOpen DEF Reached
  <2> QED
    BY <1>5, <2>1, <2>2, <2>3, <2>4 DEF ResolutionStep
<1>6. ASSUME NEW q \in Requests, Rollback(q)
      PROVE  Reached(r)' \subseteq Reached(r) \cup AllOpen
  BY <1>2, <1>6 DEF Rollback
<1> QED
  BY <1>1, <1>3, <1>4, <1>5, <1>6 DEF Next

\* A resolution is final: whoever resolves it later, and whatever evaluation
\* writes its detection, status, author, key and occurrence stay.  Only a
\* transaction that had found the exception open writes to it, at its commit.
THEOREM Final == Spec => ResolutionFinal
<1>1. ASSUME IndInv, [Next]_vars, NEW e \in DOMAIN exceptions, exceptions[e].status = "RESOLVED"
      PROVE  /\ e \in DOMAIN exceptions'
             /\ exceptions'[e] = [exceptions[e] EXCEPT !.detected = exceptions'[e].detected]
             /\ exceptions'[e].detected # exceptions[e].detected =>
                  \E r \in Requests : Committing(r, e)
             /\ \A r \in Requests : e \in Reached(r)' => e \in Reached(r)
  <2>1. exceptions[e] = [exceptions[e] EXCEPT !.detected = exceptions[e].detected]
    <3>1. exceptions[e] \in ExceptionRow
      BY <1>1 DEF IndInv, TypeOK
    <3> QED
      BY <3>1 DEF ExceptionRow
  <2>2. \A r \in Requests : e \in Reached(r)' => e \in Reached(r)
    BY <1>1, ReachedOpen DEF AllOpen
  <2>3. CASE exceptions' = exceptions
    BY <2>1, <2>2, <2>3
  <2>4. ASSUME NEW r \in Requests, exceptions' = Insert(r), End(r)
        PROVE  /\ e \in DOMAIN exceptions'
               /\ exceptions'[e] = [exceptions[e] EXCEPT !.detected = exceptions'[e].detected]
               /\ exceptions'[e].detected # exceptions[e].detected => Committing(r, e)
    <3>1. /\ e \in DOMAIN exceptions'
          /\ Noted(exceptions[e], exceptions'[e])
          /\ exceptions'[e] # exceptions[e] =>
               /\ e \in DOMAIN inflight[r].updates
               /\ exceptions'[e].detected = inflight[r].updates[e]
      BY <1>1, <2>4, InsertionRows
    <3>2. inflight'[r] = Idle
      BY <1>1, <2>4 DEF End, IndInv, TypeOK
    <3> QED
      BY <3>1, <3>2 DEF Noted, Committing
  <2>5. ASSUME NEW S \in SUBSET DOMAIN exceptions, NEW by \in {"user", "recovery", "closure"},
               \A d \in S : exceptions[d].status = "OPEN", exceptions' = ResolveRows(S, by)
        PROVE  e \in DOMAIN exceptions' /\ exceptions'[e] = exceptions[e]
    BY <1>1, <2>5, ResolvedRows DEF IndInv, TypeOK
  <2> QED
    BY <1>1, <2>1, <2>2, <2>3, <2>4, <2>5, RowSteps
<1>2. IndInv /\ [Next]_vars =>
        [\A e \in DOMAIN exceptions :
           exceptions[e].status = "RESOLVED" =>
             /\ e \in DOMAIN exceptions'
             /\ exceptions'[e] = [exceptions[e] EXCEPT !.detected = exceptions'[e].detected]
             /\ exceptions'[e].detected # exceptions[e].detected =>
                  \E r \in Requests : Committing(r, e)
             /\ \A r \in Requests : e \in Reached(r)' => e \in Reached(r)]_vars
  BY <1>1
<1> QED
  BY <1>2, Inductive, PTL DEF Spec, ResolutionFinal

-------------------------------------------------------------------------------
(* Refinement.                                                                 *)

\* The handlers, with their locks, lookups and conditional updates, implement
\* the register of exceptions with atomic operations.
THEOREM Implements == Spec => RefinesRegister
<1>1. Init => Register!Init
  BY DEF Init, Register!Init
<1>2. IndInv /\ [Next]_vars => [Register!Next]_exceptions
  <2> SUFFICES ASSUME IndInv, [Next]_vars PROVE [Register!Next]_exceptions
    OBVIOUS
  <2>1. IndInv'
    BY StepIndInv
  <2>2. ASSUME NEW r \in Requests, exceptions' = Insert(r),
               inflight[r].op \in {"event", "sweep", "deviate"}
        PROVE  Register!Report
    <3> DEFINE old == DOMAIN exceptions
    <3>2. ASSUME NEW e \in old
          PROVE  /\ e \in DOMAIN exceptions'
                 /\ exceptions'[e] = [exceptions[e] EXCEPT !.detected = exceptions'[e].detected]
                 /\ exceptions'[e] # exceptions[e] => exceptions[e].key \in EvaluationKeys
      <4>1. /\ e \in DOMAIN exceptions'
            /\ Noted(exceptions[e], exceptions'[e])
            /\ exceptions'[e] # exceptions[e] => e \in DOMAIN inflight[r].updates
        BY <2>2, InsertionRows
      <4>2. e \in DOMAIN inflight[r].updates => exceptions[e].key \in EvaluationKeys
        BY ReachedLocked DEF Reached
      <4> QED
        BY <4>1, <4>2 DEF Noted
    <3>3. ASSUME NEW e \in DOMAIN exceptions' \ old
          PROVE  /\ Register!Columns \subseteq DOMAIN exceptions'[e]
                 /\ exceptions'[e].status = "OPEN"
                 /\ exceptions'[e].resolvedBy = "nobody"
                 /\ OpenRows(exceptions'[e].key) = {}
                 /\ e \in AllOpen'
      <4>1. PICK i \in DOMAIN inflight[r].opened :
              /\ exceptions'[e].key = inflight[r].opened[i].key
              /\ exceptions'[e].status = "OPEN"
              /\ exceptions'[e].resolvedBy = "nobody"
        BY <2>2, InsertionRows
      <4>2. OpenRows(inflight[r].opened[i].key) = {}
        BY <2>2, CommitInsertions DEF MayOpen, Opening
      <4>3. exceptions'[e] \in ExceptionRow
        BY <2>1 DEF IndInv, TypeOK
      <4>4. Register!Columns \subseteq DOMAIN exceptions'[e]
        BY <4>3 DEF ExceptionRow, Register!Columns
      <4> QED
        BY <4>1, <4>2, <4>4 DEF AllOpen
    <3>4. ASSUME NEW e \in DOMAIN exceptions' \ old PROVE exceptions'[e].key \notin Register!OpenKeys
      BY <3>3 DEF Register!OpenKeys, OpenRows
    <3>5. ASSUME NEW e \in DOMAIN exceptions' \ old, NEW d \in DOMAIN exceptions' \ {e}
          PROVE  /\ d \notin old => exceptions'[d].key # exceptions'[e].key
                 /\ exceptions'[e].key \in EvaluationKeys /\ exceptions'[d].key = exceptions'[e].key =>
                      exceptions'[d].occurrence # exceptions'[e].occurrence
      BY <2>1, <3>3 DEF IndInv, OneOpenPerKey, OccurrenceOnce
    <3> QED
      BY <3>2, <3>3, <3>4, <3>5 DEF Register!Report
  <2>3. ASSUME NEW S \in SUBSET DOMAIN exceptions, NEW by \in {"user", "recovery", "closure"},
               \A e \in S : exceptions[e].status = "OPEN", exceptions' = ResolveRows(S, by)
        PROVE  Register!Resolve(S, by)
    BY <2>3 DEF Register!Resolve, ResolveRows
  <2> QED
    BY <2>2, <2>3, RowSteps DEF Register!Next
<1> QED
  BY <1>1, <1>2, Inductive, PTL DEF Spec, RefinesRegister, Register!Spec

-------------------------------------------------------------------------------
(* What the register alone comes to.                                           *)

RegisterInv ==
  /\ Register!Accountable
  /\ \A e \in DOMAIN exceptions : Register!Columns \subseteq DOMAIN exceptions[e]

\* Rows are added: they are open, and of keys of which nothing is open.
LEMMA ReportKeeps ==
  ASSUME RegisterInv, Register!Report
  PROVE  RegisterInv'
<1> PICK old, new : old = exceptions /\ new = exceptions'
  OBVIOUS
<1>1. /\ \A e \in DOMAIN old :
           /\ e \in DOMAIN new
           /\ new[e] = [old[e] EXCEPT !.detected = new[e].detected]
      /\ \A e \in DOMAIN new \ DOMAIN old :
           /\ Register!Columns \subseteq DOMAIN new[e]
           /\ new[e].status = "OPEN" /\ new[e].resolvedBy = "nobody"
           /\ new[e].key \notin Register!OpenKeys
           /\ \A d \in DOMAIN new \ {e} :
                /\ d \notin DOMAIN old => new[d].key # new[e].key
                /\ new[e].key \in EvaluationKeys /\ new[d].key = new[e].key =>
                     new[d].occurrence # new[e].occurrence
  BY DEF Register!Report
<1>2. /\ \A d, e \in DOMAIN old :
           d # e /\ old[d].key = old[e].key =>
             /\ ~(old[d].status = "OPEN" /\ old[e].status = "OPEN")
             /\ old[d].key \in EvaluationKeys => old[d].occurrence # old[e].occurrence
      /\ \A e \in DOMAIN old : old[e].status = "RESOLVED" <=> old[e].resolvedBy # "nobody"
      /\ \A e \in DOMAIN old : Register!Columns \subseteq DOMAIN old[e]
      /\ \A e \in DOMAIN old : old[e].status = "OPEN" => old[e].key \in Register!OpenKeys
  BY DEF RegisterInv, Register!Accountable, Register!OpenKeys
<1>5. ASSUME NEW e \in DOMAIN old
      PROVE  /\ e \in DOMAIN new
             /\ DOMAIN new[e] = DOMAIN old[e]
             /\ new[e].key = old[e].key /\ new[e].occurrence = old[e].occurrence
             /\ new[e].status = old[e].status /\ new[e].resolvedBy = old[e].resolvedBy
  <2>1. PICK x, y : x = old[e] /\ y = new[e].detected
    OBVIOUS
  <2>2. new[e] = [x EXCEPT !.detected = y] /\ e \in DOMAIN new
    BY <1>1, <2>1
  <2>3. {"key", "occurrence", "status", "resolvedBy"} \subseteq DOMAIN x
    BY <1>2, <2>1 DEF Register!Columns
  <2> QED BY <2>1, <2>2, <2>3
<1>6. /\ \A e \in DOMAIN new \ DOMAIN old :
           /\ Register!Columns \subseteq DOMAIN new[e]
           /\ new[e].status = "OPEN" /\ new[e].resolvedBy = "nobody"
           /\ new[e].key \notin Register!OpenKeys
           /\ \A d \in DOMAIN new \ {e} :
                /\ d \notin DOMAIN old => new[d].key # new[e].key
                /\ new[e].key \in EvaluationKeys /\ new[d].key = new[e].key =>
                     new[d].occurrence # new[e].occurrence
  BY <1>1
<1>3. ASSUME NEW d \in DOMAIN new, NEW e \in DOMAIN new, d # e, new[d].key = new[e].key
      PROVE  /\ ~(new[d].status = "OPEN" /\ new[e].status = "OPEN")
             /\ new[d].key \in EvaluationKeys => new[d].occurrence # new[e].occurrence
  <2>1. CASE d \in DOMAIN old /\ e \in DOMAIN old
    BY <1>2, <1>3, <1>5, <1>6, <2>1
  <2>2. CASE d \in DOMAIN old /\ e \notin DOMAIN old
    BY <1>2, <1>3, <1>5, <1>6, <2>2
  <2>3. CASE d \notin DOMAIN old /\ e \in DOMAIN old
    BY <1>2, <1>3, <1>5, <1>6, <2>3
  <2>4. CASE d \notin DOMAIN old /\ e \notin DOMAIN old
    BY <1>3, <1>6, <2>4
  <2> QED BY <2>1, <2>2, <2>3, <2>4
<1>4. ASSUME NEW e \in DOMAIN new
      PROVE  /\ new[e].status = "RESOLVED" <=> new[e].resolvedBy # "nobody"
             /\ Register!Columns \subseteq DOMAIN new[e]
  BY <1>2, <1>5, <1>6
<1> QED
  BY <1>3, <1>4 DEF RegisterInv, Register!Accountable

LEMMA RegisterResolves ==
  ASSUME RegisterInv, NEW S, NEW by \in {"user", "recovery", "closure"}, Register!Resolve(S, by)
  PROVE  RegisterInv'
<1> PICK old, new : old = exceptions /\ new = exceptions'
  OBVIOUS
<1>1. /\ \A e \in S : old[e].status = "OPEN"
      /\ new = [e \in DOMAIN old |->
                  IF e \in S THEN [old[e] EXCEPT !.status = "RESOLVED", !.resolvedBy = by]
                  ELSE old[e]]
  BY DEF Register!Resolve
<1>2. /\ \A d, e \in DOMAIN old :
           d # e /\ old[d].key = old[e].key =>
             /\ ~(old[d].status = "OPEN" /\ old[e].status = "OPEN")
             /\ old[d].key \in EvaluationKeys => old[d].occurrence # old[e].occurrence
      /\ \A e \in DOMAIN old : old[e].status = "RESOLVED" <=> old[e].resolvedBy # "nobody"
      /\ \A e \in DOMAIN old : Register!Columns \subseteq DOMAIN old[e]
  BY DEF RegisterInv, Register!Accountable
<1>3. ASSUME NEW e \in DOMAIN old
      PROVE  /\ DOMAIN new[e] = DOMAIN old[e]
             /\ new[e].key = old[e].key /\ new[e].occurrence = old[e].occurrence
             /\ new[e].status = "OPEN" => old[e].status = "OPEN"
             /\ new[e].status = "RESOLVED" <=> new[e].resolvedBy # "nobody"
  <2>1. {"key", "occurrence", "status", "resolvedBy"} \subseteq DOMAIN old[e]
    BY <1>2 DEF Register!Columns
  <2>2. CASE e \in S
    BY <1>1, <2>1, <2>2
  <2>3. CASE e \notin S
    BY <1>1, <1>2, <2>3
  <2> QED BY <2>2, <2>3
<1>4. DOMAIN new = DOMAIN old
  BY <1>1
<1> QED
  BY <1>2, <1>3, <1>4 DEF RegisterInv, Register!Accountable

\* The register with its atomic operations keeps what users are promised of it.
THEOREM RegisterAccountable == Register!Spec => []Register!Accountable
<1>1. Register!Init => RegisterInv
  BY DEF Register!Init, RegisterInv, Register!Accountable
<1>2. RegisterInv /\ [Register!Next]_exceptions => RegisterInv'
  <2>1. ASSUME RegisterInv, UNCHANGED exceptions PROVE RegisterInv'
    BY <2>1 DEF RegisterInv, Register!Accountable
  <2> QED BY <2>1, ReportKeeps, RegisterResolves DEF Register!Next
<1>3. RegisterInv => Register!Accountable
  BY DEF RegisterInv
<1> QED
  BY <1>1, <1>2, <1>3, PTL DEF Register!Spec

\* The handlers, by the refinement.
THEOREM HandlersAccountable == Spec => []Register!Accountable
BY Implements, RegisterAccountable, PTL DEF RefinesRegister

===============================================================================
