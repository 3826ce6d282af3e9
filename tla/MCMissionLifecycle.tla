-------------------------- MODULE MCMissionLifecycle --------------------------
(***************************************************************************)
(* MissionLifecycle for TLC: requests, stops and crews are                 *)
(* interchangeable.                                                        *)
(*                                                                         *)
(* One run explores two small instances, chosen at the start, instead of   *)
(* their product: the one has two crews and two times on one stop, the     *)
(* other two stops and three sequences with one crew and one time.         *)
(***************************************************************************)
EXTENDS MissionLifecycle, FiniteSets, TLC

VARIABLE instance

Symmetry == Permutations(Requests) \cup Permutations(StopIds) \cup Permutations(Crews)

Asked(field) == {inflight[r][field] : r \in {q \in Requests : field \in DOMAIN inflight[q]}}

CrewsSeen == {assignments[i].crew : i \in DOMAIN assignments} \cup Asked("crew")

SequencesSeen == {stops[s].sequence : s \in DOMAIN stops} \cup Asked("sequence")

Fits ==
  \/ instance = "times" /\ Cardinality(DOMAIN stops) <= 1 /\ SequencesSeen \subseteq {1}
  \/ instance = "stops" /\ Cardinality(CrewsSeen) <= 1 /\ Asked("at") \subseteq {NoTime, 1}

MCInit == Init /\ instance \in {"times", "stops"}

MCNext == Next /\ UNCHANGED instance /\ Fits'

MCSpec == MCInit /\ [][MCNext]_<<vars, instance>>

===============================================================================
