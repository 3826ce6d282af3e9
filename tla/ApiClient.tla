------------------------------ MODULE ApiClient ------------------------------
\* The route each function of the console's API client sends to.  Functions
\* that take a path are operators on the resource it names.
EXTENDS ApiRoutes

SessionCalls ==
  [login |-> <<"auth", "login">>, refreshSession |-> <<"auth", "refresh">>,
   logoutSession |-> <<"auth", "logout">>, getCurrentUser |-> <<"auth", "me">>]

getCollection(resource) == <<resource, "list">>
listResource(resource) == <<resource, "list">>
createResource(resource) == <<resource, "create">>
updateResource(resource, part) == <<resource, part>>
putResource(resource) == <<resource, "put">>
archiveResource(resource, operation) == <<resource, operation>>

ReadCalls ==
  [getControlTower |-> <<"control-tower", "list">>, getUsers |-> <<"users", "list">>,
   getRoles |-> <<"roles", "list">>, getPermissions |-> <<"roles", "permissions">>,
   assignUserRole |-> <<"users", "roles">>, getDailyLoading |-> <<"daily-loading", "list">>,
   getOperationalReport |-> <<"reports", "get">>, getAuditLogs |-> <<"audit-logs", "list">>]

MissionCalls ==
  [getMission |-> <<"missions", "get">>, getMissions |-> <<"missions", "list">>,
   getCurrentDriverMissions |-> <<"missions", "driver-portal">>,
   createMission |-> <<"missions", "create">>, updateMission |-> <<"missions", "update">>,
   assignMission |-> <<"missions", "assign">>,
   getAvailableMissionTransitions |-> <<"missions", "available-transitions">>,
   transitionMission |-> <<"missions", "transition">>]

StopCalls ==
  [addMissionStop |-> <<"missions", "stops">>, updateMissionStop |-> <<"mission-stops", "update">>,
   recordMissionStopArrival |-> <<"mission-stops", "arrive">>,
   startMissionStopUnloading |-> <<"mission-stops", "start-unloading">>,
   completeMissionStop |-> <<"mission-stops", "complete">>,
   getMissionEvents |-> <<"missions", "events">>]

DocumentCalls ==
  [getMissionDocuments |-> <<"documents", "list">>, getDocuments |-> <<"documents", "list">>,
   uploadDocument |-> <<"documents", "create">>, verifyDocument |-> <<"documents", "verify">>,
   getDocumentContent |-> <<"documents", "content">>, getWaybill |-> <<"waybills", "get">>,
   issueWaybill |-> <<"waybills", "issue">>, shareWaybill |-> <<"waybills", "share">>,
   verifyWaybill |-> <<"waybills", "verify">>]

ExceptionCalls ==
  [getExceptions |-> <<"exceptions", "list">>, getException |-> <<"exceptions", "get">>,
   assignException |-> <<"exceptions", "assign">>,
   changeExceptionSeverity |-> <<"exceptions", "severity">>,
   resolveException |-> <<"exceptions", "resolve">>,
   addExceptionRootCause |-> <<"exceptions", "root-causes">>,
   addExceptionDecision |-> <<"exceptions", "decisions">>,
   attachExceptionEvidence |-> <<"exceptions", "evidence">>,
   addCorrectiveAction |-> <<"decisions", "actions">>,
   completeCorrectiveAction |-> <<"actions", "complete">>]

ConfigurationCalls ==
  [getRuleConfigurations |-> <<"rule-configurations", "list">>,
   getRuleConfigurationOptions |-> <<"rule-configurations", "options">>,
   createRuleConfiguration |-> <<"rule-configurations", "create">>,
   getAlerts |-> <<"alerts", "list">>, markAlertRead |-> <<"alerts", "read">>,
   getKpiConfigurations |-> <<"kpi-configurations", "list">>,
   getKpiConfigurationOptions |-> <<"kpi-configurations", "options">>,
   createKpiConfiguration |-> <<"kpi-configurations", "create">>]

MonitoringCalls ==
  [getAuditContext |-> <<"audit-logs", "context">>,
   reevaluateOperationalRules |-> <<"rule-evaluations", "reevaluate">>,
   startRouteDeviation |-> <<"route-deviations", "start">>,
   recoverRouteDeviation |-> <<"route-deviations", "recover">>]

Api == SessionCalls @@ ReadCalls @@ MissionCalls @@ StopCalls @@ DocumentCalls
       @@ ExceptionCalls @@ ConfigurationCalls @@ MonitoringCalls

ASSUME ClientSendsToRoutes == \A call \in DOMAIN Api : Api[call] \in DOMAIN Required

===============================================================================
