---------------------------- MODULE MissionPolicy ----------------------------
(***************************************************************************)
(* The vocabulary of a mission: its statuses, the approved transition      *)
(* matrix, and the statuses of its stops.  Nothing here has state; every   *)
(* module about missions extends it.                                       *)
(***************************************************************************)

MissionStatus ==
  {"DRAFT", "ASSIGNED", "WAITING_FOR_VEHICLE", "VEHICLE_ARRIVED", "LOADING",
   "LOADED", "DEPARTED", "IN_TRANSIT", "AT_STOP", "DELIVERING", "DELIVERED",
   "OPERATIONALLY_CLOSED", "ACCOUNTING_READY", "CLOSED", "CANCELLED"}

\* MissionStopStatus.  CANCELLED, its fifth value, is written by no code.
StopStatus == {"PENDING", "ARRIVED", "UNLOADING", "COMPLETED"}

CancellableAfterDelivery == {"DRAFT", "ASSIGNED", "DELIVERING", "DELIVERED"}  \* mutant

\* The statuses from which a mission may still be cancelled.
Cancellable ==
  {"DRAFT", "ASSIGNED", "WAITING_FOR_VEHICLE", "VEHICLE_ARRIVED", "LOADING",
   "LOADED", "DEPARTED", "IN_TRANSIT", "AT_STOP", "DELIVERING"}

\* MISSION_TRANSITIONS without its cancellations.
Forward(status) ==
  CASE status = "DRAFT"                -> {"ASSIGNED"}
    [] status = "ASSIGNED"             -> {"WAITING_FOR_VEHICLE"}
    [] status = "WAITING_FOR_VEHICLE"  -> {"VEHICLE_ARRIVED"}
    [] status = "VEHICLE_ARRIVED"      -> {"LOADING"}
    [] status = "LOADING"              -> {"LOADED"}
    [] status = "LOADED"               -> {"DEPARTED"}
    [] status = "DEPARTED"             -> {"IN_TRANSIT"}
    [] status = "IN_TRANSIT"           -> {"AT_STOP"}
    [] status = "AT_STOP"              -> {"DELIVERING"}
    [] status = "DELIVERING"           -> {"AT_STOP", "DELIVERED"}
    [] status = "DELIVERED"            -> {"OPERATIONALLY_CLOSED"}
    [] status = "OPERATIONALLY_CLOSED" -> {"ACCOUNTING_READY"}
    [] status = "ACCOUNTING_READY"     -> {"CLOSED"}
    [] OTHER                           -> {}

\* MISSION_TRANSITIONS[status].
Transitions(status) ==
  Forward(status) \cup (IF status \in Cancellable THEN {"CANCELLED"} ELSE {})

Terminal == {"CLOSED", "CANCELLED"}

\* Before the crew is required and after it is: the statuses only a mission
\* that was once ASSIGNED can have.
Underway == MissionStatus \ {"DRAFT", "CANCELLED"}

Departed ==
  {"DEPARTED", "IN_TRANSIT", "AT_STOP", "DELIVERING", "DELIVERED",
   "OPERATIONALLY_CLOSED", "ACCOUNTING_READY", "CLOSED"}

Loaded == Departed \cup {"LOADING", "LOADED"}

Delivered == {"DELIVERED", "OPERATIONALLY_CLOSED", "ACCOUNTING_READY", "CLOSED"}

==============================================================================
