------------------------------- MODULE Console -------------------------------
(***************************************************************************)
(* A user at one page of the console: what is shown of each load while     *)
(* choices change, tokens are renewed, forms are sent and answers arrive   *)
(* in any order.                                                           *)
(*                                                                         *)
(* The page's own changes are all that moves the server's version; what    *)
(* other users change in the meantime is in no answer's duty.              *)
(***************************************************************************)
EXTENDS Pages, BrowserSession, FiniteSets

CONSTANT Choices  \* the values of a choice, positive numbers

VARIABLES
  page,      \* the page in front of the user
  user,      \* the permissions of the page's it lacks, and the scope of the others
  choice,    \* the value of each choice of the page, 0 for none
  version,   \* of the server, which changes of this page raise
  requests,  \* loads under way
  shown,     \* the answer each load shows
  failed,    \* loads whose last run failed
  writes,    \* changes under way
  busy,      \* the page's buttons are disabled
  paging,    \* the pagers that are disabled while a page loads
  owed       \* the version each load was told to catch up with

pageVars == <<page, user, choice, version, requests, shown, failed, writes, busy, paging, owed>>
vars == <<sessionVars, pageVars>>

Loads == Consoles[page].loads
Writes == Consoles[page].writes
Offers == Consoles[page].offers

Kinds(p) == UNION {Consoles[p].loads[l].asks : l \in DOMAIN Consoles[p].loads}

Nothing == [asked |-> {}, seen |-> 0]

Unmade == [k \in Kinds(page) |-> IF k \in OptionalKinds THEN 0 ELSE 1]

-------------------------------------------------------------------------------
(* Users: one with every permission the page meets, ones without one of those  *)
(* it loads with or checks, one without any of those only the API asks for, and *)
(* the two kinds of portal account.                                            *)

Met(p) ==
  {Consoles[p].under}
  \cup (UNION {Required[c.route] \cup c.if :
               c \in UNION {Consoles[p].loads[l].calls : l \in DOMAIN Consoles[p].loads}})
  \cup (UNION {Consoles[p].offers[w] : w \in DOMAIN Consoles[p].offers})

AskedByApi(p) ==
  (UNION {Required[Consoles[p].writes[w].route] : w \in DOMAIN Consoles[p].writes}) \ Met(p)

\* The permissions a page has a use for.
Relevant == [p \in DOMAIN Consoles |-> Met(p) \cup AskedByApi(p)]

PortalAccounts ==
  {[granted |-> {"control_tower.read", "mission.read", "document.read"}, scope |-> "CLIENT"],
   [granted |-> {"driver_portal.read"}, scope |-> "ORGANIZATION"]}

UsersOf(p) ==
  {[lacks |-> without, scope |-> "ORGANIZATION"] :
     without \in {{}, AskedByApi(p)} \cup {{q} : q \in Met(p) \ {Consoles[p].under}}}
  \cup {[lacks |-> Relevant[p] \ u.granted, scope |-> u.scope] :
          u \in {v \in PortalAccounts : Consoles[p].under \in v.granted}}

\* The console asks whether the user has a permission at all; the API's guard
\* whether it is for the whole organization.
hasPermission(permission) == permission \notin user.lacks
Whole == IF user.scope = "ORGANIZATION" THEN Relevant[page] \ user.lacks ELSE {}

Permitted ==
  /\ hasPermission(Consoles[page].under)
  /\ page = "client_portal" => user.scope = "CLIENT"

Shown == status = "authenticated" /\ Permitted

-------------------------------------------------------------------------------
(* Loads.                                                                      *)

\* What a load asks for, under the choices as they are then.
Asked(l, chosen) == {<<k, chosen[k]>> : k \in Loads[l].asks}

Made(l, chosen) ==
  {c \in Loads[l].calls : c.if \cap user.lacks = {} /\ c.chosen \subseteq Asked(l, chosen)}

Askable(l, chosen, panes) ==
  /\ \A k \in Loads[l].asks : chosen[k] # 0
  /\ \A m \in Loads[l].needs : panes[m] # Nothing

\* The loads whose effect runs again on these signals.
Woken(signals) ==
  {l \in DOMAIN Loads : /\ (Loads[l].on \cup Loads[l].asks) \cap signals # {}
                        /\ ~(Loads[l].once /\ shown[l] # Nothing)}

Kept(ls, under) == under  \* mutant

\* The cleanup of an effect aborts what it had asked.
Aborting(ls, under) == {q \in under : q.load \notin ls}

Pagers(ls) == UNION {Loads[l].pagers : l \in ls}

Run(ls, chosen, panes, under) ==
  LET start == {l \in ls : Askable(l, chosen, panes)} IN
  /\ requests' = Aborting(ls \cup Pagers(ls), under)
                 \cup {[load |-> l, asked |-> Asked(l, chosen), step |-> "sent", seen |-> 0] : l \in start}
  /\ failed' = failed \ start

\* The end of a load, aborted or not, re-enables the buttons; the end of an aborted
\* pager leaves it disabled.
Freed(ls) == busy' = (busy /\ \A q \in requests : q.load \in ls => ~Loads[q.load].frees)

\* The page appears, with nothing of what it showed before.
Mount ==
  LET none == [l \in DOMAIN Loads |-> Nothing]
      start == {l \in DOMAIN Loads : Askable(l, Unmade, none)} IN
  /\ choice' = Unmade /\ shown' = none /\ failed' = {} /\ paging' = {}
  /\ requests' = {[load |-> l, asked |-> Asked(l, Unmade), step |-> "sent", seen |-> 0] : l \in start}

Unmount ==
  /\ requests' = {} /\ writes' = {} /\ busy' = FALSE /\ failed' = {} /\ paging' = {}
  /\ choice' = Unmade /\ shown' = [l \in DOMAIN Loads |-> Nothing]
  /\ owed' = [l \in DOMAIN Loads |-> 0] /\ version' = 1
  /\ UNCHANGED <<page, user>>

ServeLoad(q) ==
  /\ q.step = "sent"
  /\ requests' = (requests \ {q}) \cup
       {IF \A c \in Made(q.load, choice) : CanActivate(c.route, Whole)
        THEN [q EXCEPT !.step = "served", !.seen = version]
        ELSE [q EXCEPT !.step = "refused"]}
  /\ UNCHANGED <<sessionVars, page, user, choice, version, shown, failed, writes, busy, paging, owed>>

\* An answer may make a choice, and is what further loads wait for.
AnswerLoad(q) ==
  LET l == q.load
      panes == [m \in DOMAIN shown |->
                  CASE m = l -> [asked |-> q.asked, seen |-> q.seen]
                    [] m # l /\ m \in Loads[l].pagers -> [asked |-> {<<m, 1>>}, seen |-> q.seen]
                    [] OTHER -> shown[m]]
      chosen == [k \in DOMAIN choice |->
                   IF k \in Loads[l].picks /\ choice[k] = 0 THEN 1 ELSE choice[k]]
      made == {k \in DOMAIN choice : chosen[k] # choice[k]}
      waiting == IF shown[l] = Nothing
                 THEN {m \in DOMAIN Loads : l \in Loads[m].needs} \ Loads[l].pagers ELSE {}
      woken == Woken({l} \cup made) \cup waiting IN
  /\ q.step = "served"
  /\ shown' = panes /\ choice' = chosen
  /\ Run(woken, chosen, panes, requests \ {q})
  /\ Freed({l} \cup woken)
  /\ paging' = paging \ {l}
  /\ UNCHANGED <<sessionVars, page, user, version, writes, owed>>

FailLoad(q) ==
  /\ failed' = failed \cup {q.load}
  /\ requests' = requests \ {q}
  /\ Freed({q.load})
  /\ paging' = paging \ {q.load}
  /\ UNCHANGED <<page, user, choice, version, shown, writes, owed>>

RefuseLoad(q) == q.step = "refused" /\ FailLoad(q) /\ UNCHANGED sessionVars

\* Something the user, a timer or the network does.
Event == Occurs /\ UNCHANGED <<status, session, armed, jar, live, issued, calls, accidents>>

\* An answer that is lost says as much as a request that is.
LoseLoad(q) == Event /\ q.step = "sent" /\ FailLoad(q)

-------------------------------------------------------------------------------
(* Changes.                                                                    *)

OfferedToSome(w) ==  \* mutant
  Offers[w] = {} \/ \E permission \in Offers[w] : hasPermission(permission)

Offered(w) == \A permission \in Offers[w] : hasPermission(permission)

Send(w) ==
  /\ ~busy /\ Event
  /\ Shown /\ Offered(w)
  /\ \A l \in Writes[w].needs : shown[l] # Nothing
  /\ writes' = writes \cup {[write |-> w, step |-> "sent", seen |-> 0]}
  /\ busy' = ~Writes[w].rows
  /\ UNCHANGED <<page, user, choice, version, requests, shown, failed, paging, owed>>

ServeWrite(i) ==
  /\ i.step = "sent"
  /\ IF CanActivate(Writes[i.write].route, Whole)
     THEN /\ version' = version + 1
          /\ writes' = (writes \ {i}) \cup {[i EXCEPT !.step = "served", !.seen = version']}
     ELSE /\ writes' = (writes \ {i}) \cup {[i EXCEPT !.step = "refused"]}
          /\ UNCHANGED version
  /\ UNCHANGED <<sessionVars, page, user, choice, requests, shown, failed, busy, paging, owed>>

\* Success reloads what the handler reloads, whichever loads the change shows in.
AnswerWrite(i) ==
  LET w == Writes[i.write] IN
  /\ i.step = "served"
  /\ writes' = writes \ {i} /\ busy' = FALSE
  /\ owed' = [l \in DOMAIN Loads |-> IF l \in w.changes /\ owed[l] < i.seen THEN i.seen ELSE owed[l]]
  /\ IF "mount" \in w.bumps
     THEN Mount
     ELSE LET panes == [l \in DOMAIN Loads |->
                          IF l \in w.shows THEN [shown[l] EXCEPT !.seen = i.seen] ELSE shown[l]] IN
          shown' = panes /\ Run(Woken(w.bumps), choice, panes, requests) /\ UNCHANGED <<choice, paging>>
  /\ UNCHANGED <<sessionVars, page, user, version>>

FailWrite(i) ==
  /\ writes' = writes \ {i} /\ busy' = FALSE
  /\ UNCHANGED <<page, user, choice, version, requests, shown, failed, paging, owed>>

RefuseWrite(i) == i.step = "refused" /\ FailWrite(i) /\ UNCHANGED sessionVars
LoseWrite(i) == Event /\ FailWrite(i)

-------------------------------------------------------------------------------
(* What the user and the page's timers do.                                     *)

Choose(k, value) ==
  LET chosen == [choice EXCEPT ![k] = value] IN
  /\ Event
  /\ Shown /\ value # choice[k]
  /\ choice' = chosen
  /\ Run(Woken({k}), chosen, shown, requests) /\ Freed(Woken({k}))
  /\ UNCHANGED <<page, user, version, shown, writes, paging, owed>>

\* Another page of what the pager's load shows.
TurnPage(l, value) ==
  /\ Event
  /\ Shown /\ l \notin paging
  /\ shown[l] # Nothing /\ shown[l].asked # {<<l, value>>}
  /\ requests' = requests \cup {[load |-> l, asked |-> {<<l, value>>}, step |-> "sent", seen |-> 0]}
  /\ paging' = paging \cup {l} /\ failed' = failed \ {l}
  /\ UNCHANGED <<page, user, choice, version, shown, writes, busy, owed>>

Tick ==
  /\ Event
  /\ Shown /\ Consoles[page].ticks # {}
  /\ Run(Woken(Consoles[page].ticks), choice, shown, requests) /\ Freed(Woken(Consoles[page].ticks))
  /\ UNCHANGED <<page, user, choice, version, shown, writes, paging, owed>>

PageNext ==
  \/ \E q \in requests : ServeLoad(q) \/ AnswerLoad(q) \/ RefuseLoad(q) \/ LoseLoad(q)
  \/ \E w \in DOMAIN Writes : Send(w)
  \/ \E i \in writes : ServeWrite(i) \/ AnswerWrite(i) \/ RefuseWrite(i) \/ LoseWrite(i)
  \/ \E k \in DOMAIN choice, value \in Choices : Choose(k, value)
  \/ \E l \in Pagers(DOMAIN Loads), value \in Choices : TurnPage(l, value)
  \/ Tick

\* The shell shows the page while the user is signed in, and a new session
\* renders it with its token.
Follow ==
  IF status' # "authenticated" THEN Unmount
  ELSE IF status # "authenticated" THEN
         IF Permitted
         THEN Mount /\ UNCHANGED <<page, user, version, writes, busy, owed>>
         ELSE UNCHANGED pageVars
  ELSE IF session' # session /\ Permitted
       THEN /\ Run(Woken({"token"}), choice, shown, requests) /\ Freed(Woken({"token"}))
            /\ UNCHANGED <<page, user, choice, version, shown, writes, paging, owed>>
       ELSE UNCHANGED pageVars

Init ==
  /\ page \in DOMAIN Consoles
  /\ user \in UsersOf(page)
  /\ choice = Unmade
  /\ version = 1 /\ requests = {} /\ failed = {} /\ writes = {} /\ busy = FALSE /\ paging = {}
  /\ shown = [l \in DOMAIN Loads |-> Nothing]
  /\ owed = [l \in DOMAIN Loads |-> 0]
  /\ SessionInit

Next ==
  \/ SessionNext /\ Follow
  \/ PageNext

Spec == Init /\ [][Next]_vars

-------------------------------------------------------------------------------
(* Properties.                                                                 *)

\* Panes the code does not bring up to date: the workflow of a driver's panel,
\* whose transitions no success reloads; a timeline, which loads once whatever
\* exception it is shown for; a waybill, which an answer that was read before it
\* was issued overwrites; and the pages of a mission's events and documents, which
\* a reload of the mission puts back.
Unrefreshed ==
  {<<"driver_panel", "workflow">>, <<"timeline", "timeline">>, <<"waybill", "waybill">>}
  \cup ({"panel", "driver_panel"} \X {"events", "documents"})

\* Every other pane a change is told to show in is loaded again, by a signal of
\* its success or by a new page; and loads wait for loads of their page, none for
\* one that an answer is shown in at once, or for a pager.
ASSUME ChangesReload ==
  \A p \in DOMAIN Consoles :
    LET loads == Consoles[p].loads IN
    /\ \A l \in DOMAIN loads : loads[l].needs \subseteq DOMAIN loads
    /\ \A l \in DOMAIN loads : loads[l].once => <<p, l>> \in Unrefreshed
    /\ \A l \in DOMAIN loads : \A m \in loads[l].pagers :
         /\ <<p, m>> \in Unrefreshed /\ m \in DOMAIN loads /\ l \in loads[m].needs
         /\ loads[m].calls \subseteq loads[l].calls
         /\ \A k \in DOMAIN loads : m \notin loads[k].needs
    /\ \A w \in DOMAIN Consoles[p].writes :
         LET change == Consoles[p].writes[w] IN
         "mount" \notin change.bumps =>
           /\ \A l \in change.changes :
                \/ <<p, l>> \in Unrefreshed
                \/ (loads[l].on \cup loads[l].asks) \cap change.bumps # {}
           /\ \A l \in change.shows :
                <<p, l>> \in Unrefreshed /\ \A m \in DOMAIN loads : l \notin loads[m].needs

\* When nothing is under way, every other pane shows the answer to the choices
\* as they are, with every change its page was told has succeeded; or its last
\* load failed.
SettledShowsCurrent ==
  Shown /\ requests = {} /\ writes = {} =>
    \A l \in DOMAIN Loads :
      \/ <<page, l>> \in Unrefreshed
      \/ l \in failed
      \/ ~Askable(l, choice, shown)
      \/ shown[l].asked = Asked(l, choice) /\ shown[l].seen >= owed[l] /\ shown[l] # Nothing

\* Four pages show their forms to whoever may read them, and the two forms that
\* create a portal account do not ask for the right to assign roles.
LooselyOffered(p, w) ==
  \/ p \in {"alerts", "exceptions", "rules", "kpi"}
  \/ p = "users" /\ w \in {"client_portal", "driver_portal"}

\* A load that asks for what a user of no organization is always refused.
Closed(p, l) ==
  \E c \in Consoles[p].loads[l].calls : c.if = {} /\ c.chosen = {} /\ Required[c.route] # {}

\* Every other form is shown under all its route requires; and a portal account
\* of a client is shown none, or only ones filled from what it cannot load.
ASSUME FormsAskEnough ==
  \A p \in DOMAIN Consoles : \A w \in DOMAIN Consoles[p].writes :
    LET change == Consoles[p].writes[w] IN
    /\ \/ LooselyOffered(p, w)
       \/ Required[change.route] \subseteq Consoles[p].offers[w] \cup {Consoles[p].under}
    /\ \A u \in UsersOf(p) :
         \/ u.scope = "ORGANIZATION"
         \/ (Consoles[p].offers[w] \cup {Consoles[p].under}) \cap u.lacks # {}
         \/ \E l \in change.needs : l \in DOMAIN Consoles[p].loads /\ Closed(p, l)

\* The API refuses no other form the console shows, to any user.
OfferedIsAllowed == \A i \in writes : i.step = "refused" => LooselyOffered(page, i.write)

===============================================================================
