---------------------------- MODULE BrowserSession ----------------------------
(***************************************************************************)
(* The session of one tab: restored from the refresh cookie when the tab   *)
(* opens, renewed by a timer, ended by signing out.  Calls of different    *)
(* purposes overlap, the cookie changes when an answer arrives, and the    *)
(* server exchanges a refresh token only once.                             *)
(***************************************************************************)
EXTENDS Naturals

CONSTANT MaxEvents  \* what the user, the timers and the network do

VARIABLES
  status,   \* "restoring", "authenticated", "anonymous" or "error"
  session,  \* the tokens the page works with: their number, 0 for none
  armed,    \* the renewal timer of this session has not fired
  jar,      \* the refresh token in the cookie, 0 for none
  live,     \* the refresh tokens the server would exchange
  issued,   \* how many the server has issued
  calls,    \* calls under way
  overtaken,  \* a sign-out has ended before a call that was fetching tokens
  cut,        \* so it has, or a call was lost, and no session was established since
  abandoned,  \* tokens whose answer was lost, or that an answer took from the cookie
              \* although its call had carried another
  events

accidents == <<overtaken, cut, abandoned>>
sessionVars == <<status, session, armed, jar, live, issued, calls, accidents, events>>

Purposes == {"restore", "renew", "login", "logout"}
Steps == {"sent", "granted", "refused", "me"}

\* A restore, a renewal and a logout carry the cookie as it is.
Carries == jar

Call(purpose) == [purpose |-> purpose, step |-> "sent", carries |-> Carries, got |-> 0]

Occurs == events < MaxEvents /\ events' = events + 1

TypeOK ==
  /\ status \in {"restoring", "authenticated", "anonymous", "error"}
  /\ {armed, overtaken, cut} \subseteq BOOLEAN
  /\ abandoned \subseteq 0..issued
  /\ {session, jar, issued, events} \subseteq Nat
  /\ live \subseteq 1..issued
  /\ calls \subseteq [purpose : Purposes, step : Steps, carries : 0..issued, got : 0..issued]

\* The tab opens, with or without the cookie of an earlier session.
SessionInit ==
  /\ status = "restoring" /\ session = 0 /\ armed = FALSE
  /\ issued \in 0..1 /\ jar = issued /\ live = 1..issued
  /\ calls = {Call("restore")}
  /\ overtaken = FALSE /\ cut = FALSE /\ abandoned = {}
  /\ events = 0

Fetches(under) == {c \in under : c.purpose # "logout"}

-------------------------------------------------------------------------------
(* What the page starts.                                                       *)

\* A tab that starts with nothing under way is not overtaken any more.
Afresh == overtaken' = (overtaken /\ calls # {}) /\ UNCHANGED <<cut, abandoned>>

Restore ==
  /\ status = "error" /\ Occurs /\ Afresh
  /\ status' = "restoring"
  /\ calls' = calls \cup {Call("restore")}
  /\ UNCHANGED <<session, armed, jar, live, issued>>

\* The timer of a session fires once, with a logout under way or not.
Renew ==
  /\ armed /\ Occurs
  /\ armed' = FALSE
  /\ calls' = calls \cup {Call("renew")}
  /\ UNCHANGED <<status, session, jar, live, issued, accidents>>

SignIn ==
  /\ status = "anonymous" /\ Occurs /\ Afresh
  /\ status' = "restoring"
  /\ calls' = calls \cup {[Call("login") EXCEPT !.carries = 0]}
  /\ UNCHANGED <<session, armed, jar, live, issued>>

SignOut ==
  /\ status = "authenticated" /\ Occurs
  /\ calls' = calls \cup {Call("logout")}
  /\ UNCHANGED <<status, session, armed, jar, live, issued, accidents>>

-------------------------------------------------------------------------------
(* What the server does: login, refresh, logout.                               *)

Becomes(c, changed) == calls' = (calls \ {c}) \cup {changed}
GoesOn == UNCHANGED <<status, session, armed, jar, accidents, events>>

Login(c) ==
  /\ c.purpose = "login" /\ c.step = "sent" /\ GoesOn
  /\ \/ /\ issued' = issued + 1 /\ live' = live \cup {issued'}
        /\ Becomes(c, [c EXCEPT !.step = "granted", !.got = issued'])
     \/ Becomes(c, [c EXCEPT !.step = "refused"]) /\ UNCHANGED <<live, issued>>

Refresh(c) ==
  /\ c.purpose \in {"restore", "renew"} /\ c.step = "sent" /\ GoesOn
  /\ IF c.carries \in live
     THEN /\ issued' = issued + 1
          /\ live' = (live \ {c.carries}) \cup {issued'}
          /\ Becomes(c, [c EXCEPT !.step = "granted", !.got = issued'])
     ELSE Becomes(c, [c EXCEPT !.step = "refused"]) /\ UNCHANGED <<live, issued>>

LeaveLive(c) == live  \* mutant

Revoked(c) == live \ {c.carries}

Logout(c) ==
  /\ c.purpose = "logout" /\ c.step = "sent" /\ GoesOn
  /\ live' = Revoked(c)
  /\ Becomes(c, [c EXCEPT !.step = "granted"])
  /\ UNCHANGED issued

-------------------------------------------------------------------------------
(* What the page makes of an answer.                                           *)

\* An answer sets or clears the cookie, whatever is in it by then.
SetCookie(c, token) ==
  /\ jar' = token
  /\ abandoned' = abandoned \cup ({jar} \ {c.carries})

\* The call ends; a sign-out that does overtakes what is fetching tokens.
Ends(c) == calls' = calls \ {c}
Overtakes(c) == c.purpose = "logout" /\ Fetches(calls) # {}

\* Tokens came with the cookie; the page asks who the user is.
TokensArrive(c) ==
  /\ c.purpose # "logout" /\ c.step = "granted"
  /\ SetCookie(c, c.got)
  /\ Becomes(c, [c EXCEPT !.step = "me"])
  /\ UNCHANGED <<status, session, armed, live, issued, overtaken, cut, events>>

\* The guard of /auth/me looks at the access token and its user, not at the
\* session, so a revoked session's answer establishes it all the same.
Establish(c) ==
  /\ c.step = "me"
  /\ status' = "authenticated" /\ session' = c.got /\ armed' = TRUE
  /\ Ends(c)
  /\ cut' = (cut /\ overtaken)
  /\ UNCHANGED <<jar, live, issued, overtaken, abandoned, events>>

Leave(next) == status' = next /\ session' = 0 /\ armed' = FALSE

Refused(c) ==
  /\ c.step = "refused"
  /\ Leave("anonymous")
  /\ Ends(c)
  /\ UNCHANGED <<jar, live, issued, accidents, events>>

LoggedOut(c) ==
  /\ c.purpose = "logout" /\ c.step = "granted"
  /\ Leave("anonymous")
  /\ SetCookie(c, 0)
  /\ Ends(c)
  /\ overtaken' = (overtaken \/ Overtakes(c))
  /\ cut' = (cut \/ Overtakes(c))
  /\ UNCHANGED <<live, issued, events>>

\* The request or its answer is lost, or the API fails.
Lose(c) ==
  /\ Occurs
  /\ Leave(IF c.purpose = "restore" THEN "error" ELSE "anonymous")
  /\ Ends(c)
  /\ overtaken' = (overtaken \/ Overtakes(c))
  /\ cut' = TRUE
  /\ abandoned' = abandoned \cup (IF c.step = "granted" THEN {c.got} ELSE {})
  /\ UNCHANGED <<jar, live, issued>>

SessionNext ==
  \/ Restore \/ Renew \/ SignIn \/ SignOut
  \/ \E c \in calls :
       \/ Login(c) \/ Refresh(c) \/ Logout(c)
       \/ TokensArrive(c) \/ Establish(c) \/ Refused(c) \/ LoggedOut(c) \/ Lose(c)

\* However renewals, sign-ins, sign-outs and restores overlap, and whichever of
\* their calls are lost: with nothing under way, the server would renew no session
\* but the cookie's and those whose tokens an answer lost or took from the cookie;
\* the page is signed in with the cookie's live session, unless a sign-out has ended
\* before a call that fetched tokens; and it is signed out of a live session only
\* after that, or after a call that was lost.
ScreenMatchesSession ==
  calls = {} =>
    /\ live \subseteq {jar} \cup abandoned
    /\ status = "authenticated" => overtaken \/ (session = jar /\ jar \in live)
    /\ status # "authenticated" /\ jar \in live => cut

===============================================================================
