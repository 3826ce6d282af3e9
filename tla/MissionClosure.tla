---------------------------- MODULE MissionClosure -----------------------------
(***************************************************************************)
(* Closing a delivered mission, first operationally, then for accounting:  *)
(* the transition reads the active policy of the mission's client and the  *)
(* verified documents, while users edit policies, documents and the        *)
(* mission.  It is the composition of ClosurePolicies, whose stages are    *)
(* here those of all clients, and Documents with the part of               *)
(* MissionsService.transition that calls ClosureRequirementsService.       *)
(***************************************************************************)
EXTENDS ClosurePolicies, Documents

CONSTANTS
  Clients,
  Stops,            \* the stops that may be planned
  ClosingRequests   \* closing transitions that can be in flight

ASSUME StopsAssumption == NoStop \notin Stops /\ Places = Stops \cup {NoStop}
Kinds == {"OPERATIONAL_CLOSURE", "ACCOUNTING_READINESS"}

ASSUME RequirementsAssumption ==
  /\ Stages \subseteq Clients \X Kinds
  /\ RequirementSets \subseteq SUBSET (DocumentTypes \X {"MISSION", "EACH_STOP"})

VARIABLES
  status,           \* of the mission, from DELIVERED on
  client,           \* the mission's
  stops,            \* the mission's stops
  applied,          \* operationalClosurePolicyId and accountingClosurePolicyId,
                    \* each with what the closing that wrote it had read
  closing           \* what each closing transition remembers

closureVars == <<status, client, stops, applied, closing>>
vars == <<policyVars, documentVars, closureVars>>

\* target and source of the two transitions
Closed(kind) == IF kind = "OPERATIONAL_CLOSURE" THEN "OPERATIONALLY_CLOSED" ELSE "ACCOUNTING_READY"
Before(kind) == IF kind = "OPERATIONAL_CLOSURE" THEN "DELIVERED" ELSE "OPERATIONALLY_CLOSED"

NoClosing == [op |-> "idle"]

Untested == 0

\* mission: the mission and its stops are read.  policy: so is the policy.
\* documents: they satisfied it.
ClosingIntent ==
  [op : {"mission", "policy", "documents"}, stage : Clients \X Kinds, seen : SUBSET Stops,
   version : Nat]

TypeOK ==
  /\ PolicyTypeOK
  /\ DocumentTypeOK
  /\ status \in {"DELIVERED", "OPERATIONALLY_CLOSED", "ACCOUNTING_READY"}
  /\ client \in Clients
  /\ stops \subseteq Stops
  /\ applied \in [Kinds -> {NoClosing} \cup ClosingIntent]
  /\ closing \in [ClosingRequests -> {NoClosing} \cup ClosingIntent]

\* A mission is delivered with at least one stop.
Init ==
  /\ PolicyInit
  /\ DocumentInit
  /\ status = "DELIVERED"
  /\ client \in Clients
  /\ stops \in (SUBSET Stops) \ {{}}
  /\ applied = [kind \in Kinds |-> NoClosing]
  /\ closing = [r \in ClosingRequests |-> NoClosing]

\* Of the two transitions, only the operational one takes the mission's lock.
MissionLockFree(r, kind) ==
  \A q \in ClosingRequests \ {r} :
    ~( /\ kind = "OPERATIONAL_CLOSURE"
       /\ closing[q].op # "idle"
       /\ closing[q].stage[2] = "OPERATIONAL_CLOSURE" )

ReadMission(r) ==
  \E kind \in Kinds :
    /\ MissionLockFree(r, kind)
    /\ status = Before(kind)
    /\ closing[r] = NoClosing
    /\ closing' = [closing EXCEPT ![r] =
         [op |-> "mission", stage |-> <<client, kind>>, seen |-> stops, version |-> Untested]]
    /\ UNCHANGED <<policyVars, documentVars, status, client, stops, applied>>

\* findFirst, for the client read with the mission: any of its active versions,
\* should there be two.  A client without policies gets no further.
ReadActivePolicy(r) ==
  LET i == closing[r] IN
  /\ i.op = "mission"
  /\ i.stage \in Stages
  /\ \E version \in Active(i.stage) :
       closing' = [closing EXCEPT ![r] = [i EXCEPT !.op = "policy", !.version = version]]
  /\ UNCHANGED <<policyVars, documentVars, status, client, stops, applied>>

AnyVerdict == Uploaded  \* mutant

Verified == {d \in Uploaded : documents[d].verification = "VERIFIED"}

\* evaluateDocumentRequirements has nothing to report.
Covered(requirements, seen, evidence) ==
  \A requirement \in requirements :
    LET Has(place) == \E d \in evidence :
          documents[d].type = requirement[1] /\ documents[d].stop = place
    IN IF requirement[2] = "MISSION" THEN Has(NoStop) ELSE \A stop \in seen : Has(stop)

ReadDocuments(r) ==
  LET i == closing[r]
      requirements == policies[i.stage][i.version].requirements
  IN
  /\ i.op = "policy"
  /\ Covered(requirements, i.seen, Verified)
  /\ closing' = [closing EXCEPT ![r] = [i EXCEPT !.op = "documents"]]
  /\ UNCHANGED <<policyVars, documentVars, status, client, stops, applied>>

EndClosing(r) == closing' = [closing EXCEPT ![r] = NoClosing]

CommitClosing(r) ==
  LET i == closing[r] IN
  /\ i.op = "documents"
  /\ status = Before(i.stage[2])
  /\ status' = Closed(i.stage[2])
  /\ applied' = [applied EXCEPT ![i.stage[2]] = i]
  /\ EndClosing(r)
  /\ UNCHANGED <<policyVars, documentVars, client, stops>>

\* The conditional update found another status, a check refused, or a failure.
AbortClosing(r) ==
  /\ closing[r] # NoClosing
  /\ EndClosing(r)
  /\ UNCHANGED <<policyVars, documentVars, status, client, stops, applied>>

\* addStop does not look at the mission's status.
AddStop ==
  \E stop \in Stops \ stops :
    /\ stops' = stops \cup {stop}
    /\ UNCHANGED <<policyVars, documentVars, status, client, applied, closing>>

\* Neither does update, which waits for no lock of a transition either.
UpdateMission ==
  /\ client' \in Clients \ {client}
  /\ UNCHANGED <<policyVars, documentVars, status, stops, applied, closing>>

Next ==
  \/ PolicyNext /\ UNCHANGED <<documentVars, closureVars>>
  \/ DocumentNext /\ UNCHANGED <<policyVars, closureVars>>
  \/ \E r \in ClosingRequests :
       \/ ReadMission(r)
       \/ ReadActivePolicy(r)
       \/ ReadDocuments(r)
       \/ CommitClosing(r)
       \/ AbortClosing(r)
  \/ AddStop
  \/ UpdateMission

Spec == Init /\ [][Next]_vars

-------------------------------------------------------------------------------
(* Properties.                                                                 *)

Passed(kind) ==
  status \in (IF kind = "OPERATIONAL_CLOSURE" THEN {"OPERATIONALLY_CLOSED", "ACCOUNTING_READY"}
              ELSE {"ACCOUNTING_READY"})

\* Every version that has left the draft was approved by another user than its
\* author, and a closing is passed under one version of the policy of the client
\* it read, which was activated; it stays the one the mission names, whatever
\* client the mission is given meanwhile.
ClosedUnderPolicy ==
  ApprovedByAnother /\ \A kind \in Kinds :
    LET i == applied[kind] IN
    IF Passed(kind)
      THEN /\ i # NoClosing /\ i.stage \in Stages /\ i.stage[2] = kind
           /\ i.version \in DOMAIN policies[i.stage]
           /\ policies[i.stage][i.version].status \in {"ACTIVE", "RETIRED"}
      ELSE i = NoClosing

\* Every verdict on a document is another user's than the uploader's, after a
\* scan; and each requirement of the version a closing was passed under is backed
\* by a judged document of the type and place - whatever was drafted, retired,
\* rejected or scanned again meanwhile.
ClosureEvidenced ==
  VerdictsIndependent /\ \A kind \in Kinds : Passed(kind) =>
    LET i == applied[kind] IN
    Covered(policies[i.stage][i.version].requirements, i.seen,
            {d \in Uploaded : Judged(d)})

===============================================================================
