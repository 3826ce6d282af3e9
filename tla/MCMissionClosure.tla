--------------------------- MODULE MCMissionClosure ----------------------------
(***************************************************************************)
(* MissionClosure for TLC.                                                 *)
(***************************************************************************)
EXTENDS MissionClosure, TLC

CONSTANTS pod, s1, s2, ann, bob, acme, other

\* Policies of one client; the other one has none.
AcmeStages == {<<acme, "OPERATIONAL_CLOSURE">>}

\* One requirement: a verified proof of delivery for each stop.
PodPolicies == {{<<pod, "EACH_STOP">>}}

\* A bound: a closing that will be refused for want of a policy - the other
\* client's, or the one for accounting - is not followed, and the mission has the
\* other client from between what a closing reads and what it writes, to its end.
Followed ==
  {closing[r].stage : r \in {q \in ClosingRequests : closing[q] # NoClosing}} \subseteq Stages

Closing == {closing[r].op : r \in ClosingRequests} \cap {"policy", "documents"} # {}

MCNext == Followed /\ (client = acme \/ Closing) /\ Next /\ (client' = client \/ Closing)
MCSpec == Init /\ [][MCNext]_vars

Symmetry ==
  {p @@ q @@ s : p \in Permutations(PolicyRequests), q \in Permutations({ann, bob}),
                 s \in Permutations({s1, s2})}

===============================================================================
