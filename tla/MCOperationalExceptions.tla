------------------------ MODULE MCOperationalExceptions ------------------------
(***************************************************************************)
(* OperationalExceptions for TLC.                                          *)
(***************************************************************************)
EXTENDS OperationalExceptions, TLC

CONSTANTS loading, departure, shortage

\* The mission's loading and departure, which a re-evaluation looks at in one
\* transaction, and a quantity of one stop, whose commands ask nothing of the
\* mission.
MissionEvents == {<<loading>>, <<departure>>, <<shortage>>}
MissionBefore ==
  [c \in {loading, departure, shortage} |-> IF c = loading THEN {} ELSE
                                            IF c = departure THEN {loading} ELSE {}]
MissionSweep == <<loading, departure>>

\* A bound: the quantity is recorded only beyond its tolerance, since within it
\* nothing is reported and no other operation asks for it.
Reporting(intent) == \A c \in DOMAIN intent.seen \cap Quantities : intent.seen[c] = "breach"

MCNext == Next /\ \A r \in Requests : Reporting(inflight'[r])
MCSpec == Init /\ [][MCNext]_vars

Symmetry == Permutations(Requests)

===============================================================================
