--------------------------- MODULE ExceptionRegister ---------------------------
(***************************************************************************)
(* What the exceptions of a mission promise, with every operation atomic:  *)
(* a register to which detections are added, in which what is detected     *)
(* again is noted, and in which exceptions are resolved once and for good. *)
(***************************************************************************)
EXTENDS Naturals, Sequences

CONSTANT EvaluationKeys  \* the keys of exceptions opened by rule evaluation

VARIABLE rows

Init == rows = <<>>

Columns == {"key", "occurrence", "detected", "status", "resolvedBy"}

OpenKeys == {rows[e].key : e \in {d \in DOMAIN rows : rows[d].status = "OPEN"}}

\* Detections become open exceptions, or are noted on exceptions that rule
\* evaluation has opened.  No new one had an open one, no two are of the same
\* key, and an evaluated occurrence is never repeated.
Report ==
  /\ \A e \in DOMAIN rows :
       /\ e \in DOMAIN rows'
       /\ rows'[e] = [rows[e] EXCEPT !.detected = rows'[e].detected]
       /\ rows'[e] # rows[e] => rows[e].key \in EvaluationKeys
  /\ \A e \in DOMAIN rows' \ DOMAIN rows :
       /\ Columns \subseteq DOMAIN rows'[e]
       /\ rows'[e].status = "OPEN"
       /\ rows'[e].resolvedBy = "nobody"
       /\ rows'[e].key \notin OpenKeys
       /\ \A d \in DOMAIN rows' \ {e} :
            /\ d \notin DOMAIN rows => rows'[d].key # rows'[e].key
            /\ rows'[e].key \in EvaluationKeys /\ rows'[d].key = rows'[e].key =>
                 rows'[d].occurrence # rows'[e].occurrence

\* Some open exceptions are resolved, by one author.
Resolve(S, by) ==
  /\ \A e \in S : rows[e].status = "OPEN"
  /\ rows' = [e \in DOMAIN rows |->
                IF e \in S THEN [rows[e] EXCEPT !.status = "RESOLVED", !.resolvedBy = by]
                ELSE rows[e]]

Next ==
  \/ Report
  \/ \E S \in SUBSET DOMAIN rows, by \in {"user", "recovery", "closure"} : Resolve(S, by)

Spec == Init /\ [][Next]_rows

-------------------------------------------------------------------------------
(* What the register comes to.                                                 *)

\* Nothing is open twice, nothing evaluated is reported twice, and what is
\* resolved has an author.
Accountable ==
  /\ \A d, e \in DOMAIN rows :
       d # e /\ rows[d].key = rows[e].key =>
         /\ ~(rows[d].status = "OPEN" /\ rows[e].status = "OPEN")
         /\ rows[d].key \in EvaluationKeys => rows[d].occurrence # rows[e].occurrence
  /\ \A e \in DOMAIN rows : rows[e].status = "RESOLVED" <=> rows[e].resolvedBy # "nobody"

===============================================================================
