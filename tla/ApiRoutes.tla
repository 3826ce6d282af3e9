------------------------------ MODULE ApiRoutes ------------------------------
\* The routes of the API and the permissions its guard asks for, one definition
\* per controller. A route is <<resource, operation>>.
EXTENDS Sequences, TLC

Under(permissions, routes) == [route \in routes |-> permissions]

\* Any active user, and anybody.
Authenticated(routes) == Under({}, routes)
Public(routes) == Under({}, routes)

\* The five routes of a master record.
Crud(resource, area) ==
     Under({area \o ".read"}, {<<resource, "list">>, <<resource, "get">>})
  @@ Under({area \o ".create"}, {<<resource, "create">>})
  @@ Under({area \o ".update"}, {<<resource, "update">>})
  @@ Under({area \o ".archive"}, {<<resource, "archive">>})

CarrierRoutes == Crud("carriers", "carrier")
ClientRoutes == Crud("clients", "client")
BranchRoutes == Crud("branches", "branch")
DriverRoutes == Crud("drivers", "driver")
VehicleRoutes == Crud("vehicles", "vehicle")
WarehouseRoutes == Crud("warehouses", "warehouse")

RegionRoutes ==
  Under({"geography.read"}, {<<"regions", "list">>, <<"regions", "governorates">>})

GovernorateRoutes ==
  Under({"geography.read"}, {<<"governorates", "list">>, <<"governorates", "get">>})

AuditRoutes ==
  Under({"audit.read"}, {<<"audit-logs", "list">>, <<"audit-logs", "context">>})

JobRoutes == Under({"audit.read"}, {<<"jobs", "health">>, <<"jobs", "failed">>})

AuthRoutes ==
     Authenticated({<<"auth", "me">>})
  @@ Public({<<"auth", "login">>, <<"auth", "refresh">>, <<"auth", "logout">>})

HealthRoutes == Public({<<"health", "live">>, <<"health", "ready">>})

ClosurePolicyRoutes ==
     Under({"closure_policy.read"}, {<<"closure-policies", "list">>})
  @@ Under({"closure_policy.manage"},
           {<<"closure-policies", act>> : act \in {"put", "activate", "approve", "deactivate"}})

ContractRoutes ==
     Under({"contract.read"}, {<<"contracts", "list">>, <<"contracts", "get">>})
  @@ Under({"contract.manage"},
           {<<"contracts", act>> : act \in {"create", "expire-due", "deactivate", "transition"}})

ControlTowerRoutes == Under({"control_tower.read"}, {<<"control-tower", "list">>})
DailyLoadingRoutes == Under({"daily_loading.read"}, {<<"daily-loading", "list">>})
ReportRoutes == Under({"daily_loading.read"}, {<<"reports", "get">>})

DocumentRoutes ==
     Under({"document.read"}, {<<"documents", act>> : act \in {"list", "get", "content"}})
  @@ Under({"document.upload"}, {<<"documents", "create">>})
  @@ Under({"document.verify"}, {<<"documents", "verify">>, <<"documents", "malware-scan">>})

WaybillRoutes ==
     Public({<<"waybills", "verify">>})
  @@ Under({"document.read"}, {<<"waybills", "get">>})
  @@ Under({"document.upload"}, {<<"waybills", "issue">>, <<"waybills", "share">>})

MissionStopRoutes ==
     Under({"mission_stop.update"}, {<<"mission-stops", "update">>})
  @@ Under({"mission_stop.arrive"}, {<<"mission-stops", "arrive">>})
  @@ Under({"mission_stop.unload"}, {<<"mission-stops", "start-unloading">>})
  @@ Under({"mission_stop.complete"}, {<<"mission-stops", "complete">>})

MissionRoutes ==
     Under({"mission.read"},
           {<<"missions", act>> : act \in {"list", "get", "available-transitions", "events"}})
  @@ Under({"driver_portal.read"}, {<<"missions", "driver-portal">>})
  @@ Under({"mission.create"}, {<<"missions", "create">>})
  @@ Under({"mission.update"}, {<<"missions", "update">>})
  @@ Under({"mission.assign"}, {<<"missions", "assign">>})
  @@ Under({"mission.transition"}, {<<"missions", "transition">>})
  @@ Under({"mission_stop.create"}, {<<"missions", "stops">>})

ActionRoutes ==
     Under({"action.create"}, {<<"decisions", "actions">>})
  @@ Under({"action.update"}, {<<"actions", "complete">>})

AlertRoutes ==
     Under({"alert.read"}, {<<"alerts", "list">>})
  @@ Under({"alert.update"}, {<<"alerts", "read">>})
  @@ Under({"alert.deliver"}, {<<"alerts", "delivery-attempts">>})
  @@ Under({"alert.escalate"}, {<<"alerts", "escalate-due">>})

ExceptionRoutes ==
     Under({"exception.read"}, {<<"exceptions", "list">>, <<"exceptions", "get">>})
  @@ Under({"exception.manage"},
           {<<"exceptions", act>> : act \in {"assign", "severity", "resolve", "evidence"}})
  @@ Under({"root_cause.create"}, {<<"exceptions", "root-causes">>})
  @@ Under({"decision.create"}, {<<"exceptions", "decisions">>})

RouteDeviationRoutes ==
  Under({"exception.manage"}, {<<"route-deviations", "start">>, <<"route-deviations", "recover">>})

RootCauseCategoryRoutes ==
     Under({"exception.read"}, {<<"root-cause-categories", "list">>})
  @@ Under({"root_cause.manage"},
           {<<"root-cause-categories", "create">>, <<"root-cause-categories", "retire">>})

RuleConfigurationRoutes ==
     Under({"rule.read"}, {<<"rule-configurations", "list">>, <<"rule-configurations", "options">>})
  @@ Under({"rule.manage"}, {<<"rule-configurations", "create">>})

RuleReevaluationRoutes == Under({"rule.evaluate"}, {<<"rule-evaluations", "reevaluate">>})

KpiConfigurationRoutes ==
     Under({"kpi.read"}, {<<"kpi-configurations", "list">>, <<"kpi-configurations", "options">>})
  @@ Under({"kpi.manage"}, {<<"kpi-configurations", "create">>})

KpiFactSnapshotRoutes ==
     Under({"kpi.read"}, {<<"kpi-fact-snapshots", "get">>})
  @@ Under({"kpi.snapshot"}, {<<"kpi-fact-snapshots", "create">>})

KpiResultRoutes ==
     Under({"kpi.read"}, {<<"kpi-results", "list">>, <<"kpi-results", "get">>})
  @@ Under({"kpi.calculate"}, {<<"kpi-results", "calculate">>})
  @@ Under({"kpi.publish"}, {<<"kpi-results", "publish">>})

RoleRoutes ==
     Under({"role.read"}, {<<"roles", "list">>, <<"roles", "permissions">>})
  @@ Under({"role.create"}, {<<"roles", "create">>})
  @@ Under({"role.update"}, {<<"roles", "replace">>})

RouteRoutes ==
     Under({"route.read"}, {<<"routes", "list">>, <<"routes", "get">>})
  @@ Under({"route.manage"}, {<<"routes", "create">>})

SupportRoutes ==
     Under({"support.read"}, {<<"support", "list">>})
  @@ Under({"support.create"}, {<<"support", "create">>})
  @@ Under({"support.reply"}, {<<"support", "messages">>})
  @@ Under({"support.assign"}, {<<"support", "assign">>})

UserRoutes ==
     Under({"user.read"}, {<<"users", "list">>})
  @@ Under({"user.create"}, {<<"users", "create">>})
  @@ Under({"user.create", "user.role.assign"}, {<<"users", "client-portal">>})
  @@ Under({"user.create", "user.role.assign", "user.update"}, {<<"users", "driver-portal">>})
  @@ Under({"user.update"}, {<<"users", "status">>, <<"users", "driver">>})
  @@ Under({"user.role.assign"}, {<<"users", "roles">>})
  @@ Authenticated({<<"users", "me/password">>})

\* What PermissionsGuard reads off a route: every one of these must be granted
\* for the whole organization.
Required ==
  AuthRoutes @@ HealthRoutes @@ AuditRoutes @@ JobRoutes @@ ControlTowerRoutes
  @@ DailyLoadingRoutes @@ ReportRoutes @@ CarrierRoutes @@ ClientRoutes @@ BranchRoutes
  @@ DriverRoutes @@ VehicleRoutes @@ WarehouseRoutes @@ RegionRoutes @@ GovernorateRoutes
  @@ RouteRoutes @@ ContractRoutes @@ ClosurePolicyRoutes @@ DocumentRoutes @@ WaybillRoutes
  @@ MissionRoutes @@ MissionStopRoutes @@ RouteDeviationRoutes @@ ExceptionRoutes
  @@ ActionRoutes @@ RootCauseCategoryRoutes @@ AlertRoutes @@ RuleConfigurationRoutes
  @@ RuleReevaluationRoutes @@ KpiConfigurationRoutes @@ KpiFactSnapshotRoutes
  @@ KpiResultRoutes @@ UserRoutes @@ RoleRoutes @@ SupportRoutes

CanActivate(route, grants) == Required[route] \subseteq grants

===============================================================================
