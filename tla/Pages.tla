-------------------------------- MODULE Pages --------------------------------
(***************************************************************************)
(* The pages of the console as tables: what each loads from the API and    *)
(* when it loads it again, the changes its handlers send, and the          *)
(* permissions a form is shown under.                                      *)
(*                                                                         *)
(* A load is an effect of the page.  It runs when the page is shown and    *)
(* again on the signals of its dependency array: the session's token, a    *)
(* counter or callback of the page, or the answer of another load; and     *)
(* when a choice its query asks for is made.                               *)
(***************************************************************************)
EXTENDS ApiClient

\* A call of a load: made always, if the user has a permission, or if a choice
\* has a value.
Always(route) == [route |-> route, if |-> {}, chosen |-> {}]
If(permission, route) == [route |-> route, if |-> {permission}, chosen |-> {}]
When(kind, value, route) == [route |-> route, if |-> {}, chosen |-> {<<kind, value>>}]

\* needs: the loads whose answer must be there first.  picks: the choices it
\* makes for the user where none is made.  frees: its end re-enables the
\* buttons.  once: it runs until it has an answer, and not again.  pagers: loads of
\* single pages, for which its effect's cleanup ends the request under way and its
\* answer shows the first page.
Load(made, on) ==
  [calls |-> made, on |-> on, asks |-> {}, needs |-> {}, picks |-> {},
   frees |-> FALSE, once |-> FALSE, pagers |-> {}]

\* changes: the loads whose answer it changes.  bumps: the signals its success
\* raises.  needs: the loads whose answer the form is filled from.  shows: the
\* loads its answer replaces.  rows: one button per row, disabled on its own.
Write(route, changes) ==
  [route |-> route, changes |-> changes, bumps |-> {"revision"}, needs |-> {},
   shows |-> {}, rows |-> FALSE]

Row(route) == [Write(route, {"list"}) EXCEPT !.needs = {"list"}]

Page(under, loads, handlers, offers) ==
  [under |-> under, loads |-> loads, writes |-> handlers, offers |-> offers, ticks |-> {}]

None == [w \in {} |-> {}]
Unchecked(names) == [w \in names |-> {}]

\* Choices that may be open; the others always have a value.
OptionalKinds == {"selected", "client", "carrier", "mission"}

-------------------------------------------------------------------------------
(* Alerts, audit, exceptions.                                                  *)

AlertEffects ==
  [list |-> [Load({Always(ConfigurationCalls.getAlerts)}, {"token", "revision"})
               EXCEPT !.asks = {"filter"}]]
AlertHandlers == [read |-> [Row(ConfigurationCalls.markAlertRead) EXCEPT !.rows = TRUE]]
AlertForms == Unchecked({"read"})

AuditTimeline ==
  [timeline |-> [Load({Always(MonitoringCalls.getAuditContext)}, {"token"})
                   EXCEPT !.asks = {"context"}, !.once = TRUE]]
AuditEffects ==
  [list |-> [Load({Always(ReadCalls.getAuditLogs)}, {"token"}) EXCEPT !.asks = {"filter"}]]

ExceptionEffects ==
  [list    |-> [Load({Always(ExceptionCalls.getExceptions)}, {"token", "revision"})
                  EXCEPT !.asks = {"filter"}, !.picks = {"selected"}, !.frees = TRUE],
   detail  |-> [Load({Always(ExceptionCalls.getException)}, {"token", "revision"})
                  EXCEPT !.asks = {"selected"}],
   options |-> [Load({If("user.read", ReadCalls.getUsers),
                      If("document.read", DocumentCalls.getDocuments),
                      Always(getCollection("root-cause-categories"))}, {"token", "detail"})
                  EXCEPT !.needs = {"detail"}]]

\* Every form goes through mutate, which reloads list and detail.
Mutate(route) == [Write(route, {"list", "detail"}) EXCEPT !.needs = {"detail"}]

ExceptionForms ==
  [recover  |-> Mutate(MonitoringCalls.recoverRouteDeviation),
   assign   |-> Mutate(ExceptionCalls.assignException),
   severity |-> Mutate(ExceptionCalls.changeExceptionSeverity),
   cause    |-> Mutate(ExceptionCalls.addExceptionRootCause),
   decision |-> Mutate(ExceptionCalls.addExceptionDecision),
   evidence |-> Mutate(ExceptionCalls.attachExceptionEvidence),
   resolve  |-> Mutate(ExceptionCalls.resolveException)]

\* An action names one of the users, whom only user.read lists.
Traceability ==
  [complete |-> Mutate(ExceptionCalls.completeCorrectiveAction),
   action   |-> [Mutate(ExceptionCalls.addCorrectiveAction) EXCEPT !.needs = {"detail", "options"}]]
ExceptionOffers ==
  Unchecked(DOMAIN ExceptionForms \cup {"complete"}) @@ [action |-> {"user.read"}]

-------------------------------------------------------------------------------
(* Missions: the list, the form of a new one, the panel of one mission and its *)
(* waybill.                                                                    *)

MissionEffects ==
  [list |-> [Load({Always(MissionCalls.getMissions)}, {"token", "revision"})
               EXCEPT !.asks = {"filter"}]]
CreateFormEffects ==
  [options   |-> Load({Always(listResource("clients")), Always(listResource("warehouses"))},
                      {"token"}),
   contracts |-> [Load({Always(listResource("contracts")), Always(listResource("routes"))},
                       {"token"}) EXCEPT !.asks = {"client"}]]
CreateFormSubmit ==
  [create |-> [Write(MissionCalls.createMission, {"list"}) EXCEPT !.needs = {"options"}]]
MissionOffers == [create |-> {"mission.create"}]

PanelEffect ==
  [detail |-> [Load({Always(MissionCalls.getMission), Always(StopCalls.getMissionEvents),
                    Always(DocumentCalls.getMissionDocuments)}, {"token", "parent", "retry"})
               EXCEPT !.pagers = {"events", "documents"}],
   events    |-> [Load({Always(StopCalls.getMissionEvents)}, {}) EXCEPT !.needs = {"detail"}],
   documents |-> [Load({Always(DocumentCalls.getMissionDocuments)}, {}) EXCEPT !.needs = {"detail"}]]

WorkflowOptions ==
  [workflow |->
     [Load({Always(listResource(r)) : r \in {"carriers", "warehouses", "contracts", "routes", "branches"}}
             \cup {Always(MissionCalls.getAvailableMissionTransitions),
                   Always(ExceptionCalls.getExceptions)},
           {"token"}) EXCEPT !.needs = {"detail"}]]
CarrierOptions ==
  [fleet |-> [Load({Always(listResource("vehicles")), Always(listResource("drivers"))}, {"token"})
                EXCEPT !.asks = {"carrier"}, !.needs = {"detail"}]]

\* The page keys the panel by its revision: a success shows a new one.
Act(route, changes) == [Write(route, changes) EXCEPT !.bumps = {"mount"}, !.needs = {"detail"}]

WorkflowForms ==
  [deviate  |-> [Act(MonitoringCalls.startRouteDeviation, {"detail", "workflow"})
                   EXCEPT !.needs = {"workflow"}],
   update   |-> [Act(MissionCalls.updateMission, {"detail"}) EXCEPT !.needs = {"workflow"}],
   assign   |-> [Act(MissionCalls.assignMission, {"detail", "workflow"})
                   EXCEPT !.needs = {"workflow", "fleet"}],
   move     |-> [Act(MissionCalls.transitionMission, {"detail", "workflow"})
                   EXCEPT !.needs = {"workflow"}],
   add_stop |-> [Act(StopCalls.addMissionStop, {"detail", "workflow"})
                   EXCEPT !.needs = {"workflow"}]]
WorkflowOffers ==
  [deviate |-> {"exception.manage"}, update |-> {"mission.update"}, assign |-> {"mission.assign"},
   move |-> {"mission.transition"}, add_stop |-> {"mission_stop.create"}]

StopForms ==
  [arrive      |-> Act(StopCalls.recordMissionStopArrival, {"detail", "workflow"}),
   unload      |-> Act(StopCalls.startMissionStopUnloading, {"detail", "workflow"}),
   update_stop |-> Act(StopCalls.updateMissionStop, {"detail"}),
   complete    |-> Act(StopCalls.completeMissionStop, {"detail", "workflow"})]
StopOffers ==
  [arrive |-> {"mission_stop.arrive"}, unload |-> {"mission_stop.unload"},
   update_stop |-> {"mission_stop.update"}, complete |-> {"mission_stop.complete"}]

\* The driver's dashboard does not key its panel, it only renders it again; and
\* it shows the workflow under a permission more.
Unkeyed(handlers) == [w \in DOMAIN handlers |-> [handlers[w] EXCEPT !.bumps = {"parent"}]]
UnderUpdate(offers) == [w \in DOMAIN offers |-> offers[w] \cup {"mission.update"}]

WaybillEffect == [waybill |-> Load({Always(DocumentCalls.getWaybill)}, {"token"})]
WaybillHandlers ==
  [issue |-> [Write(DocumentCalls.issueWaybill, {"waybill"})
                EXCEPT !.bumps = {}, !.needs = {"waybill"}, !.shows = {"waybill"}],
   share |-> [Write(DocumentCalls.shareWaybill, {}) EXCEPT !.bumps = {}, !.needs = {"waybill"}]]
WaybillOffers == [issue |-> {"document.upload"}, share |-> {"document.upload"}]

-------------------------------------------------------------------------------
(* Master data: one page, configured for five resources, and clients.          *)

MasterOptions(resources) == [options |-> Load({Always(listResource(r)) : r \in resources}, {"token"})]
MasterList(resource) ==
  [list |-> [Load({Always(listResource(resource))}, {"token", "revision"}) EXCEPT !.asks = {"filter"}]]
MasterHandlers(resource) ==
  [create  |-> [Write(createResource(resource), {"list"}) EXCEPT !.needs = {"options"}],
   status  |-> Row(updateResource(resource, "update")),
   edit    |-> Row(updateResource(resource, "update")),
   archive |-> Row(archiveResource(resource, "archive"))]
MasterOffers(area) ==
  [create |-> {area \o ".create"}, status |-> {area \o ".update"}, edit |-> {area \o ".update"},
   archive |-> {area \o ".archive"}]

MasterPage(resource, area, options) ==
  Page(area \o ".read", MasterOptions(options) @@ MasterList(resource),
       MasterHandlers(resource), MasterOffers(area))

WarehousePage == MasterPage("warehouses", "warehouse", {"clients"})
BranchPage == MasterPage("branches", "branch", {"clients", "regions", "governorates"})
CarrierPage == MasterPage("carriers", "carrier", {})
DriverPage == MasterPage("drivers", "driver", {"carriers", "clients"})
VehiclePage == MasterPage("vehicles", "vehicle", {"carriers"})
ClientPage == MasterPage("clients", "client", {})

-------------------------------------------------------------------------------
(* Users and roles.                                                            *)

UserEffects ==
  [list |-> Load({Always(ReadCalls.getUsers), If("role.read", ReadCalls.getRoles),
                  If("driver.read", listResource("drivers")),
                  If("client.read", listResource("clients"))}, {"token", "revision"})]
UserHandlers ==
  [create        |-> Write(createResource("users"), {"list"}),
   client_portal |-> [Row(<<"users", "client-portal">>) EXCEPT !.needs = {"list"}],
   driver_portal |-> [Row(<<"users", "driver-portal">>) EXCEPT !.needs = {"list"}],
   status        |-> Row(updateResource("users", "status")),
   assign        |-> Row(ReadCalls.assignUserRole),
   link          |-> Row(updateResource("users", "driver"))]

\* A portal account and a role are picked from what the page could load.
UserOffers ==
  [create |-> {"user.create"}, client_portal |-> {"user.create", "client.read"},
   driver_portal |-> {"user.create", "driver.read"}, status |-> {"user.update"},
   assign |-> {"user.role.assign", "role.read"}, link |-> {"user.update", "driver.read"}]

RoleEffects ==
  [list |-> Load({Always(ReadCalls.getRoles), Always(ReadCalls.getPermissions)}, {"token", "revision"})]
RoleHandlers ==
  [create |-> [Write(createResource("roles"), {"list"}) EXCEPT !.needs = {"list"}],
   replace |-> Row(updateResource("roles", "replace"))]
RoleOffers == [create |-> {"role.create"}, replace |-> {"role.update"}]

-------------------------------------------------------------------------------
(* Configurations, contracts, routes, policies.                                *)

RuleEffects ==
  [list |-> [Load({Always(ConfigurationCalls.getRuleConfigurationOptions),
                   Always(ConfigurationCalls.getRuleConfigurations)},
                  {"token", "revision"}) EXCEPT !.frees = TRUE]]
RuleHandlers ==
  [submit |-> Row(ConfigurationCalls.createRuleConfiguration),
   reevaluate |-> [Write(MonitoringCalls.reevaluateOperationalRules, {}) EXCEPT !.bumps = {}]]
RuleForms == Unchecked({"submit", "reevaluate"})

KpiEffects ==
  [list |-> [Load({Always(ConfigurationCalls.getKpiConfigurationOptions),
                   Always(ConfigurationCalls.getKpiConfigurations)},
                  {"token", "revision"}) EXCEPT !.frees = TRUE]]
KpiHandlers == [submit |-> Row(ConfigurationCalls.createKpiConfiguration)]
KpiForms == Unchecked({"submit"})

\* The type of the party decides which list the names come from.
PartyOptions ==
  [parties |-> [Load({When("party", 1, listResource("clients")),
                      When("party", 2, listResource("carriers")),
                      When("party", 3, listResource("drivers"))}, {"token"}) EXCEPT !.asks = {"party"}]]
ContractEffects ==
  [list |-> [Load({Always(listResource("contracts"))}, {"token", "revision"}) EXCEPT !.asks = {"filter"}]]
ContractHandlers ==
  [create     |-> [Write(createResource("contracts"), {"list"}) EXCEPT !.needs = {"parties"}],
   deactivate |-> Row(archiveResource("contracts", "deactivate"))]
ContractOffers == [create |-> {"contract.manage"}, deactivate |-> {"contract.manage"}]

RouteEffects ==
  [clients  |-> Load({Always(listResource("clients"))}, {"token"}),
   branches |-> [Load({Always(listResource("branches"))}, {"token"}) EXCEPT !.asks = {"client"}],
   list     |-> Load({Always(listResource("routes"))}, {"token", "revision"})]
RouteHandlers ==
  [create |-> [Write(createResource("routes"), {"list"}) EXCEPT !.needs = {"clients", "branches"}]]
RouteOffers == [create |-> {"route.manage"}]

PolicyEffects ==
  [list |-> Load({Always(getCollection("closure-policies")), Always(listResource("clients"))},
                 {"token", "revision"})]
PolicyHandlers ==
  [save |-> Row(putResource("closure-policies")),
   activate |-> Row(archiveResource("closure-policies", "activate")),
   deactivate |-> Row(archiveResource("closure-policies", "deactivate"))]
PolicyOffers == [w \in DOMAIN PolicyHandlers |-> {"closure_policy.manage"}]

-------------------------------------------------------------------------------
(* Documents, dashboards, reports, portals.                                    *)

DocumentEffects ==
  [list     |-> [Load({Always(DocumentCalls.getDocuments)}, {"token", "revision"})
                   EXCEPT !.asks = {"filter"}],
   missions |-> Load({Always(MissionCalls.getMissions)}, {"token"}),
   stops    |-> [Load({Always(MissionCalls.getMission)}, {"token"}) EXCEPT !.asks = {"mission"}]]
DocumentHandlers ==
  [upload   |-> [Write(DocumentCalls.uploadDocument, {"list"}) EXCEPT !.needs = {"missions"}],
   download |-> [Row(DocumentCalls.getDocumentContent) EXCEPT !.changes = {}, !.bumps = {}],
   verify   |-> Row(DocumentCalls.verifyDocument)]
DocumentOffers ==
  [upload |-> {"document.upload"}, download |-> {"document.read"}, verify |-> {"document.verify"}]

ControlTowerEffects ==
  [list |-> [Load({Always(ReadCalls.getControlTower)}, {"token", "revision"})
               EXCEPT !.asks = {"filter"}],
   places |-> Load({If("geography.read", listResource("governorates"))}, {"token"})]

\* Report 1 is the daily one.
ReportEffects ==
  [list |-> [Load({When("report", 1, ReadCalls.getDailyLoading),
                   When("report", 2, ReadCalls.getOperationalReport)}, {"token"})
               EXCEPT !.asks = {"filter", "report"}]]

DriverDashboard ==
  [list |-> Load({Always(MissionCalls.getCurrentDriverMissions)}, {"token", "revision"})]
ClientDashboard == [list |-> Load({Always(ReadCalls.getControlTower)}, {"token", "revision"})]

-------------------------------------------------------------------------------

\* A counter the polling timer or a button of the page raises, and a callback
\* that is new whenever the parent renders.
Ticking(table, signals) == [table EXCEPT !.ticks = signals]

MissionPanel(keyed) ==
  LET handlers == WorkflowForms @@ StopForms
      offers == WorkflowOffers @@ StopOffers IN
  Ticking(Page("mission.read", PanelEffect @@ WorkflowOptions @@ CarrierOptions,
               IF keyed THEN handlers ELSE Unkeyed(handlers),
               IF keyed THEN offers ELSE UnderUpdate(offers)), {"parent"})

Consoles ==
     [alerts     |-> Page("alert.read", AlertEffects, AlertHandlers, AlertForms),
      timeline   |-> Page("alert.read", AuditTimeline, None, None),
      audit      |-> Page("audit.read", AuditEffects, None, None),
      exceptions |-> Page("exception.read", ExceptionEffects,
                          ExceptionForms @@ Traceability, ExceptionOffers)]
  @@ [missions   |-> Ticking(Page("mission.read", MissionEffects @@ CreateFormEffects,
                                  CreateFormSubmit, MissionOffers), {"revision"}),
      panel      |-> MissionPanel(TRUE),
      driver_panel |-> MissionPanel(FALSE),
      waybill    |-> Page("mission.read", WaybillEffect, WaybillHandlers, WaybillOffers)]
  @@ [warehouses |-> WarehousePage, branches |-> BranchPage, carriers |-> CarrierPage,
      drivers |-> DriverPage, vehicles |-> VehiclePage, clients |-> ClientPage]
  @@ [users      |-> Page("user.read", UserEffects, UserHandlers, UserOffers),
      roles      |-> Page("role.read", RoleEffects, RoleHandlers, RoleOffers),
      rules      |-> Page("rule.read", RuleEffects, RuleHandlers, RuleForms),
      kpi        |-> Page("kpi.read", KpiEffects, KpiHandlers, KpiForms),
      contracts  |-> Page("contract.read", PartyOptions @@ ContractEffects,
                          ContractHandlers, ContractOffers),
      routes     |-> Page("route.read", RouteEffects, RouteHandlers, RouteOffers),
      policies   |-> Page("closure_policy.read", PolicyEffects, PolicyHandlers, PolicyOffers),
      documents  |-> Page("document.read", DocumentEffects, DocumentHandlers, DocumentOffers)]
  @@ [control_tower |-> Ticking(Page("control_tower.read", ControlTowerEffects, None, None),
                                {"revision"}),
      reports    |-> Page("daily_loading.read", ReportEffects, None, None),
      driver_portal |-> Ticking(Page("driver_portal.read", DriverDashboard, None, None), {"revision"}),
      client_portal |-> Ticking(Page("control_tower.read", ClientDashboard, None, None), {"revision"})]

ASSUME FormsHavePermissions ==
  \A p \in DOMAIN Consoles : DOMAIN Consoles[p].offers = DOMAIN Consoles[p].writes

===============================================================================
