---------------------------- MODULE Console_proofs ----------------------------
(***************************************************************************)
(* Theorems about what users of the console see and do: the session of a   *)
(* tab, what a page shows of its loads, and the records of exceptions and  *)
(* tickets that its forms lead to, for any number of events, requests,     *)
(* users and records.                                                      *)
(***************************************************************************)
EXTENDS Console, FollowUp, TLAPS

-------------------------------------------------------------------------------
(* The session of a tab: its types first.                                      *)

\* Every token was issued by the server, also those of a session left behind.
TokensInv == TypeOK /\ jar \in 0..issued /\ session \in 0..issued

CallsOf(n) == [purpose : Purposes, step : Steps, carries : 0..n, got : 0..n]

LEMMA CallsGrow ==
  ASSUME NEW n \in Nat, NEW m \in Nat, n <= m
  PROVE  CallsOf(n) \subseteq CallsOf(m) /\ 0..n \subseteq 0..m /\ 1..n \subseteq 1..m
<1>1. 0..n \subseteq 0..m /\ 1..n \subseteq 1..m
  OBVIOUS
<1> QED BY <1>1 DEF CallsOf

LEMMA CallChanged ==
  ASSUME NEW m \in Nat, NEW c \in CallsOf(m), NEW d, DOMAIN d = DOMAIN c,
         d.purpose = c.purpose, d.carries = c.carries, d.step \in Steps, d.got \in 0..m,
         d = [k \in DOMAIN d |-> d[k]]
  PROVE  d \in CallsOf(m)
<1> PICK numbers : numbers = 0..m
  OBVIOUS
<1>1. c \in [purpose : Purposes, step : Steps, carries : numbers, got : numbers] /\ d.got \in numbers
  BY DEF CallsOf
<1>2. DOMAIN d = {"purpose", "step", "carries", "got"}
  BY <1>1
<1>3. d = [purpose |-> d.purpose, step |-> d.step, carries |-> d.carries, got |-> d.got]
  BY <1>2
<1>4. d \in [purpose : Purposes, step : Steps, carries : numbers, got : numbers]
  BY <1>1, <1>3
<1> QED BY <1>4 DEF CallsOf

LEMMA NewCall ==
  ASSUME TokensInv, NEW purpose \in Purposes
  PROVE  Call(purpose) \in CallsOf(issued) /\ [Call(purpose) EXCEPT !.carries = 0] \in CallsOf(issued)
BY DEF TokensInv, TypeOK, Call, Carries, CallsOf, Steps

\* The server has issued more tokens or as many, and the calls are about them.
LEMMA TokensKept ==
  ASSUME TokensInv, issued' \in Nat, issued <= issued', events' \in Nat,
         status' \in {"restoring", "authenticated", "anonymous", "error"},
         armed' \in BOOLEAN, overtaken' \in BOOLEAN, cut' \in BOOLEAN, abandoned' \subseteq 0..issued',
         session' \in 0..issued', jar' \in 0..issued', live' \subseteq 1..issued',
         calls' \subseteq CallsOf(issued')
  PROVE  TokensInv'
BY DEF TokensInv, TypeOK, CallsOf

LEMMA EventsType ==
  ASSUME TokensInv, Restore \/ Renew \/ SignIn \/ SignOut
  PROVE  TokensInv'
<1>1. events' \in Nat /\ issued' = issued /\ issued \in Nat /\ UNCHANGED <<session, jar, live>>
  BY DEF TokensInv, TypeOK, Restore, Renew, SignIn, SignOut, Occurs
<1>2. \E c \in CallsOf(issued) : calls' = calls \cup {c}
  BY NewCall DEF Restore, Renew, SignIn, SignOut, Purposes
<1>3. calls' \subseteq CallsOf(issued)
  BY <1>2 DEF TokensInv, TypeOK, CallsOf
<1>4. status' \in {"restoring", "authenticated", "anonymous", "error"} /\ armed' \in BOOLEAN
  BY DEF TokensInv, TypeOK, Restore, Renew, SignIn, SignOut
<1>5. /\ session \in 0..issued /\ jar \in 0..issued /\ live \subseteq 1..issued
      /\ abandoned \subseteq 0..issued /\ overtaken \in BOOLEAN /\ cut \in BOOLEAN
  BY DEF TokensInv, TypeOK
<1>6. abandoned' = abandoned /\ cut' = cut /\ overtaken' \in {overtaken, FALSE}
  BY <1>5 DEF Restore, Renew, SignIn, SignOut, Afresh, accidents
<1>7. issued <= issued
  BY <1>1
<1>8. overtaken' \in BOOLEAN
  BY DEF Restore, Renew, SignIn, SignOut, Afresh, accidents, TokensInv, TypeOK
<1> QED BY <1>1, <1>3, <1>4, <1>5, <1>6, <1>7, <1>8, TokensKept

LEMMA AnswersType ==
  ASSUME TokensInv, NEW c \in calls,
         \/ Login(c) \/ Refresh(c) \/ Logout(c)
         \/ TokensArrive(c) \/ Establish(c) \/ Refused(c) \/ LoggedOut(c) \/ Lose(c)
  PROVE  TokensInv'
<1> PICK n : n = issued
  OBVIOUS
<1>1. /\ n \in Nat /\ events \in Nat /\ c \in CallsOf(n) /\ calls \subseteq CallsOf(n)
      /\ session \in 0..n /\ jar \in 0..n /\ live \subseteq 1..n /\ abandoned \subseteq 0..n
      /\ status \in {"restoring", "authenticated", "anonymous", "error"}
      /\ armed \in BOOLEAN /\ overtaken \in BOOLEAN /\ cut \in BOOLEAN
  BY DEF TokensInv, TypeOK, CallsOf
\* The server answers.
<1>2. ASSUME NEW m \in Nat, issued' = m, n <= m, NEW d \in CallsOf(m), Becomes(c, d), GoesOn,
             live' \subseteq 1..m
      PROVE  TokensInv'
  <2>1. calls' \subseteq CallsOf(m) /\ 0..n \subseteq 0..m
    <3>1. CallsOf(n) \subseteq CallsOf(m) /\ 0..n \subseteq 0..m
      BY <1>1, <1>2, CallsGrow
    <3> QED BY <1>1, <1>2, <3>1 DEF Becomes
  <2>2. session' \in 0..m /\ jar' \in 0..m /\ abandoned' \subseteq 0..m
    BY <1>1, <1>2, <2>1 DEF GoesOn, accidents
  <2>3. /\ status' \in {"restoring", "authenticated", "anonymous", "error"}
        /\ armed' \in BOOLEAN /\ overtaken' \in BOOLEAN /\ cut' \in BOOLEAN /\ events' \in Nat
    BY <1>1, <1>2 DEF GoesOn, accidents
  <2> QED BY <1>1, <1>2, <2>1, <2>2, <2>3, TokensKept
<1>3. "granted" \in Steps /\ "me" \in Steps /\ "refused" \in Steps /\ 0 \in 0..n /\ c.got \in 0..n
  <2>1. c.got \in 0..n
    BY <1>1 DEF CallsOf
  <2> QED BY <1>1, <2>1 DEF Steps
<1>4. CASE GoesOn /\ issued' = issued + 1 /\ live' \subseteq live \cup {issued'}
           /\ Becomes(c, [c EXCEPT !.step = "granted", !.got = issued'])
  <2>m. PICK m : m = n + 1
    OBVIOUS
  <2>d. PICK d : d = [c EXCEPT !.step = "granted", !.got = m]
    OBVIOUS
  <2>1. m \in Nat /\ n <= m /\ issued' = m /\ m \in 0..m /\ m \in 1..m
    BY <1>1, <1>4, <2>m
  <2>2. live' \subseteq 1..m
    BY <1>1, <1>4, <2>1, CallsGrow
  <2>3. d \in CallsOf(m)
    <3>1. c \in CallsOf(m)
      BY <1>1, <2>1, CallsGrow
    <3>2. /\ DOMAIN d = DOMAIN c /\ d.purpose = c.purpose /\ d.carries = c.carries
          /\ d.step = "granted" /\ d.got = m /\ d = [k \in DOMAIN d |-> d[k]]
      BY <2>d, <3>1 DEF CallsOf
    <3>3. d.step \in Steps /\ d.got \in 0..m /\ m \in Nat
      BY <1>3, <2>1, <3>2
    <3> QED BY <3>1, <3>2, <3>3, CallChanged
  <2>4. Becomes(c, d)
    BY <1>4, <2>1, <2>d
  <2> QED BY <1>2, <1>4, <2>1, <2>2, <2>3, <2>4
<1>5. CASE GoesOn /\ issued' = issued /\ live' \subseteq live
           /\ \E step \in Steps : Becomes(c, [c EXCEPT !.step = step])
  <2> PICK step \in Steps : Becomes(c, [c EXCEPT !.step = step])
    BY <1>5
  <2> PICK d : d = [c EXCEPT !.step = step]
    OBVIOUS
  <2>1. d \in CallsOf(n) /\ Becomes(c, d)
    <3>1. /\ DOMAIN d = DOMAIN c /\ d.purpose = c.purpose /\ d.carries = c.carries
          /\ d.step = step /\ d.got = c.got /\ d = [k \in DOMAIN d |-> d[k]]
      BY <1>1 DEF CallsOf
    <3> QED BY <1>1, <1>3, <3>1, CallChanged
  <2>2. live' \subseteq 1..n /\ issued' = n /\ n <= n
    BY <1>1, <1>5
  <2> QED BY <1>1, <1>2, <1>5, <2>1, <2>2
\* The page takes the answer.
<1>6. CASE TokensArrive(c)
  <2> PICK d : d = [c EXCEPT !.step = "me"]
    OBVIOUS
  <2>1. /\ issued' = n /\ jar' = c.got /\ abandoned' \subseteq abandoned \cup {jar}
        /\ UNCHANGED <<status, session, armed, live, overtaken, cut, events>>
        /\ calls' = (calls \ {c}) \cup {d}
    BY <1>6 DEF TokensArrive, SetCookie, Becomes
  <2>2. calls' \subseteq CallsOf(n)
    <3>1. d \in CallsOf(n)
      <4>1. /\ DOMAIN d = DOMAIN c /\ d.purpose = c.purpose /\ d.carries = c.carries
            /\ d.step = "me" /\ d.got = c.got /\ d = [k \in DOMAIN d |-> d[k]]
        BY <1>1 DEF CallsOf
      <4> QED BY <1>1, <1>3, <4>1, CallChanged
    <3> QED BY <1>1, <2>1, <3>1
  <2>3. n <= n /\ abandoned' \subseteq 0..n
    BY <1>1, <2>1
  <2> QED BY <1>1, <1>3, <2>1, <2>2, <2>3, TokensKept
<1>7. CASE Establish(c) \/ Refused(c) \/ LoggedOut(c) \/ Lose(c)
  <2>1. /\ issued' = n /\ calls' \subseteq calls /\ live' = live
        /\ session' \in {0, c.got} /\ jar' \in {0, jar}
        /\ abandoned' \subseteq abandoned \cup {jar, c.got}
        /\ status' \in {"authenticated", "anonymous", "error"}
        /\ armed' \in BOOLEAN
    BY <1>7 DEF Establish, Refused, LoggedOut, Lose, Leave, Ends, SetCookie, accidents
  <2>2. events' \in Nat /\ overtaken' \in BOOLEAN /\ cut' \in BOOLEAN
    <3>1. events' = events \/ events' = events + 1
      BY <1>7 DEF Establish, Refused, LoggedOut, Lose, Occurs
    <3>2. overtaken' \in BOOLEAN /\ cut' \in BOOLEAN
      <4>1. CASE Refused(c)
        BY <1>1, <4>1 DEF Refused, accidents
      <4>2. CASE Establish(c)
        BY <1>1, <4>2 DEF Establish
      <4>3. CASE LoggedOut(c) \/ Lose(c)
        BY <4>3 DEF LoggedOut, Lose
      <4> QED BY <1>7, <4>1, <4>2, <4>3
    <3>3. events' \in Nat
      BY <1>1, <3>1
    <3> QED BY <3>2, <3>3
  <2>3. session' \in 0..n /\ jar' \in 0..n /\ n <= n /\ abandoned' \subseteq 0..n
    <3>1. 0 \in 0..n
      BY <1>1
    <3> QED BY <1>1, <1>3, <2>1, <3>1
  <2>4. calls' \subseteq CallsOf(n) /\ live' \subseteq 1..n
    BY <1>1, <2>1
  <2> QED BY <1>1, <2>1, <2>2, <2>3, <2>4, TokensKept
<1>8. ASSUME Login(c) \/ Refresh(c) \/ Logout(c)
      PROVE  \/ GoesOn /\ issued' = issued + 1 /\ live' \subseteq live \cup {issued'}
                /\ Becomes(c, [c EXCEPT !.step = "granted", !.got = issued'])
             \/ GoesOn /\ issued' = issued /\ live' \subseteq live
                /\ \E step \in Steps : Becomes(c, [c EXCEPT !.step = step])
  <2>1. CASE Login(c)
    BY <1>3, <2>1 DEF Login
  <2>2. CASE Refresh(c)
    BY <1>3, <2>2 DEF Refresh
  <2>3. CASE Logout(c)
    BY <1>3, <2>3 DEF Logout, Revoked
  <2> QED BY <1>8, <2>1, <2>2, <2>3
<1> QED BY <1>4, <1>5, <1>6, <1>7, <1>8

\* A page's own steps may count an event, and leave the session.
LEMMA PageKeepsSession ==
  ASSUME PageNext
  PROVE  UNCHANGED <<status, session, armed, jar, live, issued, calls, accidents>>
BY DEF PageNext, ServeLoad, AnswerLoad, RefuseLoad, LoseLoad, Send, ServeWrite, AnswerWrite,
       RefuseWrite, LoseWrite, Choose, TurnPage, Tick, Event, sessionVars

LEMMA TokensInit ==
  ASSUME SessionInit
  PROVE  TokensInv
<1>1. /\ issued \in {0, 1} /\ jar = issued /\ live = 1..issued /\ session = 0
      /\ calls = {Call("restore")} /\ armed = FALSE /\ overtaken = FALSE /\ cut = FALSE /\ abandoned = {} /\ events = 0
      /\ status = "restoring"
  BY DEF SessionInit
<1>2. issued \in Nat /\ jar \in 0..issued /\ session \in 0..issued
  BY <1>1
<1>3. Call("restore") \in CallsOf(issued)
  BY <1>1, <1>2 DEF Call, Carries, CallsOf, Purposes, Steps
<1>4. live \subseteq 1..issued /\ {session, jar, issued, events} \subseteq Nat
  BY <1>1
<1> QED BY <1>1, <1>2, <1>3, <1>4 DEF TokensInv, TypeOK, CallsOf

LEMMA TokensStep ==
  ASSUME TokensInv, [Next]_vars
  PROVE  TokensInv'
<1>1. CASE SessionNext
  BY <1>1, EventsType, AnswersType DEF SessionNext
<1>2. CASE PageNext
  <2>1. UNCHANGED <<status, session, armed, jar, live, issued, calls, accidents>>
    BY <1>2, PageKeepsSession
  <2>2. events' \in Nat
    <3>1. events' = events \/ events' = events + 1
      <4>1. ASSUME NEW q \in requests, ServeLoad(q) \/ AnswerLoad(q) \/ RefuseLoad(q) \/ LoseLoad(q)
            PROVE  events' = events \/ events' = events + 1
        BY <4>1 DEF ServeLoad, AnswerLoad, RefuseLoad, LoseLoad, Event, Occurs, sessionVars
      <4>2. ASSUME NEW i \in writes, ServeWrite(i) \/ AnswerWrite(i) \/ RefuseWrite(i) \/ LoseWrite(i)
            PROVE  events' = events \/ events' = events + 1
        BY <4>2 DEF ServeWrite, AnswerWrite, RefuseWrite, LoseWrite, Event, Occurs, sessionVars
      <4>3. ASSUME Tick \/ (\E w \in DOMAIN Writes : Send(w))
                   \/ (\E k \in DOMAIN choice, value \in Choices : Choose(k, value))
                   \/ \E l \in Pagers(DOMAIN Loads), value \in Choices : TurnPage(l, value)
            PROVE  events' = events + 1
        BY <4>3 DEF Tick, Send, Choose, TurnPage, Event, Occurs
      <4> QED BY <1>2, <4>1, <4>2, <4>3 DEF PageNext
    <3> QED BY <3>1 DEF TokensInv, TypeOK
  <2> QED BY <2>1, <2>2 DEF TokensInv, TypeOK, accidents
<1>3. CASE UNCHANGED vars
  BY <1>3 DEF vars, sessionVars, accidents, TokensInv, TypeOK
<1> QED BY <1>1, <1>2, <1>3 DEF Next

\* The session's variables keep their types, and no token that would be renewed,
\* or that a call carries or brings, is one the server has not issued.
THEOREM TokensSafe == Spec => []TypeOK
<1>1. Init => TokensInv
  BY TokensInit DEF Init
<1>2. TokensInv /\ [Next]_vars => TokensInv'
  BY TokensStep
<1>3. TokensInv => TypeOK
  BY DEF TokensInv
<1> QED
  BY <1>1, <1>2, <1>3, PTL DEF Spec

-------------------------------------------------------------------------------
(* What the server would renew, and what the page shows of it.                 *)

\* A token the server would renew is in the cookie, on its way to it, or abandoned;
\* and it is not the one of a call the server has answered.
NoneForgotten ==
  /\ \A token \in live :
       token = jar \/ token \in abandoned \/ \E c \in calls : c.step = "granted" /\ c.got = token
  /\ \A c \in calls :
       /\ c.step # "sent" => c.carries \notin live
       /\ c.purpose = "login" => c.carries = 0
       /\ c.purpose = "logout" => c.got = 0 /\ c.step \in {"sent", "granted"}

\* A page without a session has no renewal to come, and the cookie is of no live
\* session unless a call was lost or tokens are being fetched.
SignedOff ==
  /\ armed => status = "authenticated"
  /\ overtaken => cut
  /\ status # "authenticated" /\ jar \in live => cut \/ Fetches(calls) # {}

\* Until a sign-out overtakes it there is at most one call that fetches tokens,
\* about the cookie as it is, and what it brings is live or being signed out of.
InOrder ==
  /\ \A c, d \in Fetches(calls) : c = d
  /\ status \in {"anonymous", "error"} \/ armed => Fetches(calls) = {}
  /\ status = "authenticated" /\ Fetches(calls) = {} => session = jar /\ (jar \in live \/ calls # {})
  /\ \A c \in Fetches(calls) :
       /\ c.step \in {"granted", "me"} => c.got \in live \/ calls # {c}
       /\ c.step = "me" => jar = c.got
       /\ c.step # "me" => IF c.purpose = "login" THEN jar \in live => cut ELSE c.carries = jar

SessionInv == NoneForgotten /\ SignedOff /\ (overtaken \/ InOrder)

LEMMA TokenFacts ==
  ASSUME TokensInv
  PROVE  /\ issued \in Nat /\ live \subseteq 1..issued /\ 0 \notin live /\ issued + 1 \notin live
         /\ jar # issued + 1
         /\ \A c \in calls : /\ c.carries # issued + 1 /\ c.carries \in 0..issued
                             /\ c.step \in Steps /\ c.purpose \in Purposes
                             /\ c = [purpose |-> c.purpose, step |-> c.step, carries |-> c.carries, got |-> c.got]
<1>1. /\ issued \in Nat /\ live \subseteq 1..issued /\ jar \in 0..issued
      /\ calls \subseteq [purpose : Purposes, step : Steps, carries : 0..issued, got : 0..issued]
  BY DEF TokensInv, TypeOK
<1>2. 0 \notin live /\ issued + 1 \notin live /\ jar # issued + 1
  BY <1>1
<1>3. issued + 1 \notin 0..issued
  BY <1>1
<1>4. ASSUME NEW c \in calls
      PROVE  /\ c.carries \in 0..issued /\ c.step \in Steps /\ c.purpose \in Purposes
             /\ c = [purpose |-> c.purpose, step |-> c.step, carries |-> c.carries, got |-> c.got]
  <2> PICK numbers : numbers = 0..issued
    OBVIOUS
  <2>1. c \in [purpose : Purposes, step : Steps, carries : numbers, got : numbers]
    BY <1>1
  <2> QED BY <2>1
<1> QED BY <1>1, <1>2, <1>3, <1>4

\* The server's answer to a call that was sent.
AnsweredAs(c, d) ==
  /\ calls' = (calls \ {c}) \cup {d} /\ c.step = "sent"
  /\ d.purpose = c.purpose /\ d.carries = c.carries
  /\ UNCHANGED <<status, session, armed, jar, overtaken, cut, abandoned>>
  /\ c.purpose # "login" => c.carries \notin live'
  /\ \/ /\ d.step = "granted" /\ c.purpose # "logout" /\ d.got = issued + 1
        /\ d.got \in live' /\ live' \subseteq live \cup {d.got}
     \/ d.step = "refused" /\ c.purpose # "logout" /\ d.got = c.got /\ live' = live
     \/ d.step = "granted" /\ c.purpose = "logout" /\ d.got = c.got /\ live' \subseteq live

LEMMA ServerAnswers ==
  ASSUME TokensInv, NEW c \in calls, Login(c) \/ Refresh(c) \/ Logout(c)
  PROVE  \E d : AnsweredAs(c, d)
<1>0. c.carries # issued + 1
  BY TokenFacts
<1>1. c = [purpose |-> c.purpose, step |-> c.step, carries |-> c.carries, got |-> c.got]
  BY TokenFacts
<1>2. PICK granted : granted = [c EXCEPT !.step = "granted", !.got = issued + 1]
  OBVIOUS
<1>3. PICK refused : refused = [c EXCEPT !.step = "refused"]
  OBVIOUS
<1>4. PICK revoked : revoked = [c EXCEPT !.step = "granted"]
  OBVIOUS
<1>5. /\ granted.purpose = c.purpose /\ granted.carries = c.carries
      /\ granted.step = "granted" /\ granted.got = issued + 1
  BY <1>1, <1>2
<1>6. refused.purpose = c.purpose /\ refused.carries = c.carries /\ refused.step = "refused" /\ refused.got = c.got
  BY <1>1, <1>3
<1>7. revoked.purpose = c.purpose /\ revoked.carries = c.carries /\ revoked.step = "granted" /\ revoked.got = c.got
  BY <1>1, <1>4
<1>8. UNCHANGED <<status, session, armed, jar, overtaken, cut, abandoned>> /\ c.step = "sent"
  BY DEF Login, Refresh, Logout, GoesOn, accidents
<1>9. CASE Login(c)
  <2>1. \/ calls' = (calls \ {c}) \cup {granted} /\ live' = live \cup {issued + 1}
        \/ calls' = (calls \ {c}) \cup {refused} /\ live' = live
    BY <1>2, <1>3, <1>9 DEF Login, Becomes
  <2>2. c.purpose = "login"
    BY <1>9 DEF Login
  <2>3. AnsweredAs(c, granted) \/ AnsweredAs(c, refused)
    BY <1>5, <1>6, <1>8, <2>1, <2>2 DEF AnsweredAs
  <2> QED BY <2>3
<1>10. CASE Refresh(c)
  <2>1. \/ calls' = (calls \ {c}) \cup {granted} /\ live' = (live \ {c.carries}) \cup {issued + 1}
        \/ calls' = (calls \ {c}) \cup {refused} /\ live' = live /\ c.carries \notin live
    BY <1>2, <1>3, <1>10 DEF Refresh, Becomes
  <2>2. c.purpose # "logout"
    BY <1>10 DEF Refresh
  <2>3. AnsweredAs(c, granted) \/ AnsweredAs(c, refused)
    BY <1>0, <1>5, <1>6, <1>8, <2>1, <2>2 DEF AnsweredAs
  <2> QED BY <2>3
<1>11. CASE Logout(c)
  <2>1. calls' = (calls \ {c}) \cup {revoked} /\ live' = live \ {c.carries} /\ c.purpose = "logout"
    BY <1>4, <1>11 DEF Logout, Revoked, Becomes
  <2>2. AnsweredAs(c, revoked)
    BY <1>7, <1>8, <2>1 DEF AnsweredAs
  <2> QED BY <2>2
<1> QED BY <1>9, <1>10, <1>11

LEMMA Arrived ==
  ASSUME TokensInv, NEW c \in calls, TokensArrive(c)
  PROVE  \E d : /\ calls' = (calls \ {c}) \cup {d} /\ c.step = "granted" /\ c.purpose # "logout"
                /\ d.purpose = c.purpose /\ d.carries = c.carries /\ d.step = "me" /\ d.got = c.got
                /\ jar' = c.got /\ abandoned' = abandoned \cup ({jar} \ {c.carries})
                /\ UNCHANGED <<status, session, armed, live, overtaken, cut>>
<1>1. c = [purpose |-> c.purpose, step |-> c.step, carries |-> c.carries, got |-> c.got]
  BY TokenFacts
<1>2. PICK d : d = [c EXCEPT !.step = "me"]
  OBVIOUS
<1>3. d.purpose = c.purpose /\ d.carries = c.carries /\ d.step = "me" /\ d.got = c.got
  BY <1>1, <1>2
<1> QED BY <1>2, <1>3 DEF TokensArrive, SetCookie, Becomes

\* What the page starts.
LEMMA Started ==
  ASSUME Restore \/ Renew \/ SignIn \/ SignOut
  PROVE  \E c : /\ calls' = calls \cup {c} /\ c.step = "sent" /\ c.got = 0
                /\ UNCHANGED <<session, jar, live, abandoned, cut>>
                /\ \/ /\ c.purpose = "restore" /\ c.carries = jar
                      /\ status = "error" /\ Afresh /\ status' = "restoring" /\ armed' = armed
                   \/ /\ c.purpose = "login" /\ c.carries = 0
                      /\ status = "anonymous" /\ Afresh /\ status' = "restoring" /\ armed' = armed
                   \/ /\ c.purpose = "renew" /\ c.carries = jar /\ overtaken' = overtaken
                      /\ armed /\ ~armed' /\ status' = status
                   \/ /\ c.purpose = "logout" /\ c.carries = jar /\ overtaken' = overtaken
                      /\ status = "authenticated" /\ status' = status /\ armed' = armed
<1>1. ASSUME NEW purpose
      PROVE  /\ Call(purpose).purpose = purpose /\ Call(purpose).step = "sent"
             /\ Call(purpose).carries = jar /\ Call(purpose).got = 0
  BY DEF Call, Carries
<1>2. PICK login : login = [Call("login") EXCEPT !.carries = 0]
  OBVIOUS
<1>3. login.purpose = "login" /\ login.step = "sent" /\ login.carries = 0 /\ login.got = 0
  BY <1>2 DEF Call
<1>4. CASE Restore
  BY <1>1, <1>4 DEF Restore, Afresh
<1>5. CASE Renew
  BY <1>1, <1>5 DEF Renew, accidents
<1>6. CASE SignIn
  BY <1>2, <1>3, <1>6 DEF SignIn, Afresh
<1>7. CASE SignOut
  BY <1>1, <1>7 DEF SignOut, accidents
<1> QED BY <1>4, <1>5, <1>6, <1>7

-------------------------------------------------------------------------------

LEMMA ForgottenKept ==
  ASSUME TokensInv, NoneForgotten, SessionNext
  PROVE  NoneForgotten'
<1>1. CASE Restore \/ Renew \/ SignIn \/ SignOut
  BY <1>1, Started DEF NoneForgotten
<1>2. ASSUME NEW c \in calls, Login(c) \/ Refresh(c) \/ Logout(c)
      PROVE  NoneForgotten'
  <2>0. PICK d : AnsweredAs(c, d)
    BY <1>2, ServerAnswers
  <2>1. /\ calls' = (calls \ {c}) \cup {d} /\ c.step = "sent"
        /\ d.purpose = c.purpose /\ d.carries = c.carries
        /\ jar' = jar /\ abandoned' = abandoned
        /\ c.purpose # "login" => c.carries \notin live'
        /\ \/ d.step = "granted" /\ c.purpose # "logout" /\ d.got = issued + 1 /\ live' \subseteq live \cup {d.got}
           \/ d.step = "refused" /\ c.purpose # "logout" /\ d.got = c.got /\ live' = live
           \/ d.step = "granted" /\ c.purpose = "logout" /\ d.got = c.got /\ live' \subseteq live
    BY <2>0 DEF AnsweredAs
  <2>2. 0 \notin live' /\ \A e \in calls : e.carries # issued + 1
    BY <2>1, TokenFacts
  <2>3. ASSUME NEW token \in live'
        PROVE  token = jar' \/ token \in abandoned' \/ \E e \in calls' : e.step = "granted" /\ e.got = token
    <3>1. CASE token \in live
      BY <2>1, <3>1 DEF NoneForgotten
    <3>2. CASE token \notin live
      BY <2>1, <2>3, <3>2
    <3> QED BY <3>1, <3>2
  <2>4. ASSUME NEW e \in calls'
        PROVE  /\ e.step # "sent" => e.carries \notin live'
               /\ e.purpose = "login" => e.carries = 0
               /\ e.purpose = "logout" => e.got = 0 /\ e.step \in {"sent", "granted"}
    <3>1. CASE e = d
      BY <1>2, <2>1, <2>2, <3>1 DEF NoneForgotten
    <3>2. CASE e # d
      BY <2>1, <2>2, <2>4, <3>2 DEF NoneForgotten
    <3> QED BY <3>1, <3>2
  <2> QED BY <2>3, <2>4 DEF NoneForgotten
<1>3. ASSUME NEW c \in calls, TokensArrive(c)
      PROVE  NoneForgotten'
  <2>1. PICK d : /\ calls' = (calls \ {c}) \cup {d} /\ c.step = "granted"
                 /\ d.purpose = c.purpose /\ d.carries = c.carries /\ d.step = "me" /\ d.got = c.got
                 /\ jar' = c.got /\ abandoned' = abandoned \cup ({jar} \ {c.carries}) /\ live' = live /\ c.purpose # "logout"
    BY <1>3, Arrived
  <2>2. ASSUME NEW token \in live'
        PROVE  token = jar' \/ token \in abandoned' \/ \E e \in calls' : e.step = "granted" /\ e.got = token
    <3>1. token = jar \/ token \in abandoned \/ \E e \in calls : e.step = "granted" /\ e.got = token
      BY <2>1, <2>2 DEF NoneForgotten
    <3>2. c.carries \notin live
      BY <2>1 DEF NoneForgotten
    <3>3. CASE token = jar
      <4>1. token \in abandoned'
        BY <2>1, <2>2, <3>2, <3>3
      <4> QED BY <4>1
    <3>4. CASE token \in abandoned
      BY <2>1, <3>4
    <3>5. CASE \E e \in calls : e.step = "granted" /\ e.got = token
      <4> PICK e \in calls : e.step = "granted" /\ e.got = token
        BY <3>5
      <4> QED BY <2>1
    <3> QED BY <3>1, <3>3, <3>4, <3>5
  <2>4. /\ d.carries \notin live' /\ d.purpose # "logout"
        /\ d.purpose = "login" => d.carries = 0
    <3>1. c.carries \notin live /\ (c.purpose = "login" => c.carries = 0)
      BY <2>1 DEF NoneForgotten
    <3> QED BY <2>1, <3>1
  <2>3. ASSUME NEW e \in calls'
        PROVE  /\ e.step # "sent" => e.carries \notin live'
               /\ e.purpose = "login" => e.carries = 0
               /\ e.purpose = "logout" => e.got = 0 /\ e.step \in {"sent", "granted"}
    <3>1. CASE e = d
      BY <2>4, <3>1, Zenon
    <3>2. CASE e \in calls
      BY <2>1, <3>2 DEF NoneForgotten
    <3> QED BY <2>1, <2>3, <3>1, <3>2
  <2> QED BY <2>2, <2>3 DEF NoneForgotten
<1>4. ASSUME NEW c \in calls, Establish(c) \/ Refused(c)
      PROVE  NoneForgotten'
  BY <1>4 DEF Establish, Refused, Ends, accidents, NoneForgotten
<1>5. ASSUME NEW c \in calls, LoggedOut(c)
      PROVE  NoneForgotten'
  <2>1. /\ calls' = calls \ {c} /\ c.purpose = "logout" /\ c.step = "granted"
        /\ jar' = 0 /\ abandoned' = abandoned \cup ({jar} \ {c.carries}) /\ live' = live
    BY <1>5 DEF LoggedOut, SetCookie, Ends
  <2> QED BY <2>1, TokenFacts DEF NoneForgotten
<1>6. ASSUME NEW c \in calls, Lose(c)
      PROVE  NoneForgotten'
  BY <1>6 DEF Lose, Ends, NoneForgotten
<1> QED BY <1>1, <1>2, <1>3, <1>4, <1>5, <1>6 DEF SessionNext

LEMMA SignedOffKept ==
  ASSUME TokensInv, NoneForgotten, SignedOff, overtaken \/ InOrder, SessionNext
  PROVE  SignedOff'
<1>1. CASE Restore \/ Renew \/ SignIn \/ SignOut
  <2>1. PICK c : /\ calls' = calls \cup {c}
                 /\ UNCHANGED <<jar, live, cut>>
                 /\ \/ c.purpose # "logout" /\ Afresh /\ armed' = armed /\ status \in {"error", "anonymous"}
                    \/ status' = status /\ (armed' => armed) /\ overtaken' = overtaken
    BY <1>1, Started
  <2>2. Fetches(calls) \subseteq Fetches(calls')
    BY <2>1 DEF Fetches
  <2>3. CASE c.purpose # "logout" /\ Afresh /\ armed' = armed /\ status \in {"error", "anonymous"}
    <3>1. c \in Fetches(calls')
      BY <2>1, <2>3 DEF Fetches
    <3>2. armed' => status' = "authenticated"
      BY <2>1, <2>3 DEF SignedOff
    <3>3. overtaken' => cut'
      <4>1. overtaken' => overtaken
        BY <2>3 DEF Afresh
      <4>2. cut' = cut
        BY <2>3 DEF Afresh
      <4> QED BY <4>1, <4>2 DEF SignedOff
    <3>4. Fetches(calls)' # {}
      BY <3>1
    <3> QED BY <3>2, <3>3, <3>4 DEF SignedOff
  <2>4. CASE status' = status /\ (armed' => armed) /\ overtaken' = overtaken
    BY <2>1, <2>2, <2>4 DEF SignedOff
  <2> QED BY <2>1, <2>3, <2>4
<1>2. ASSUME NEW c \in calls, Login(c) \/ Refresh(c) \/ Logout(c)
      PROVE  SignedOff'
  <2>0. PICK d : AnsweredAs(c, d)
    BY <1>2, ServerAnswers
  <2>1. /\ calls' = (calls \ {c}) \cup {d}
        /\ d.purpose = c.purpose
        /\ UNCHANGED <<status, armed, jar, overtaken, cut>>
        /\ c.purpose # "logout" \/ live' \subseteq live
    BY <2>0 DEF AnsweredAs
  <2>2. Fetches(calls) # {} => Fetches(calls') # {}
    BY <2>1 DEF Fetches
  <2>3. c.purpose # "logout" => Fetches(calls') # {}
    BY <2>1 DEF Fetches
  <2> QED BY <2>1, <2>2, <2>3 DEF SignedOff
<1>3. ASSUME NEW c \in calls, TokensArrive(c)
      PROVE  SignedOff'
  <2>1. PICK d : /\ calls' = (calls \ {c}) \cup {d} /\ c.purpose # "logout" /\ d.purpose = c.purpose
                 /\ UNCHANGED <<status, armed, overtaken, cut>>
    BY <1>3, Arrived
  <2>2. Fetches(calls') # {}
    BY <2>1 DEF Fetches
  <2> QED BY <2>1, <2>2 DEF SignedOff
<1>4. ASSUME NEW c \in calls, Establish(c)
      PROVE  SignedOff'
  BY <1>4 DEF Establish, SignedOff
<1>5. ASSUME NEW c \in calls, Refused(c)
      PROVE  SignedOff'
  <2>1. /\ c.step = "refused" /\ calls' = calls \ {c} /\ ~armed'
        /\ UNCHANGED <<jar, live, overtaken, cut>>
    BY <1>5 DEF Refused, Leave, Ends, accidents
  <2>2. CASE overtaken
    BY <2>1, <2>2 DEF SignedOff
  <2>3. CASE InOrder /\ c.purpose # "logout"
    <3>1. jar \in live => cut
      BY <2>1, <2>3 DEF InOrder, Fetches, NoneForgotten
    <3> QED BY <2>1, <3>1 DEF SignedOff
  <2>4. c.purpose # "logout"
    BY <2>1 DEF NoneForgotten
  <2> QED BY <2>2, <2>3, <2>4
<1>6. ASSUME NEW c \in calls, LoggedOut(c)
      PROVE  SignedOff'
  <2>1. jar' = 0 /\ live' = live /\ ~armed' /\ overtaken' = (overtaken \/ Overtakes(c)) /\ cut' = (cut \/ Overtakes(c))
    BY <1>6 DEF LoggedOut, SetCookie, Leave
  <2> QED BY <2>1, TokenFacts DEF SignedOff
<1>7. ASSUME NEW c \in calls, Lose(c)
      PROVE  SignedOff'
  BY <1>7 DEF Lose, Leave, SignedOff
<1> QED BY <1>1, <1>2, <1>3, <1>4, <1>5, <1>6, <1>7 DEF SessionNext

\* A step after which no call fetches tokens leaves little to keep in order.
LEMMA NothingFetched ==
  ASSUME Fetches(calls)' = {},
         status' = "authenticated" => session' = jar' /\ (jar' \in live' \/ calls' # {})
  PROVE  InOrder'
BY DEF InOrder

\* A step after which one call fetches tokens, and the page is to be signed in by it.
LEMMA OneFetches ==
  ASSUME NEW c, Fetches(calls)' = {c}, ~armed', status' \notin {"anonymous", "error"},
         c.step \in {"granted", "me"} => c.got \in live' \/ calls' # {c},
         c.step = "me" => jar' = c.got,
         c.step # "me" /\ c.purpose = "login" => (jar' \in live' => cut'),
         c.step # "me" /\ c.purpose # "login" => c.carries = jar'
  PROVE  InOrder'
BY DEF InOrder

LEMMA FetchAlone ==
  ASSUME InOrder, NEW c \in calls, c.purpose # "logout"
  PROVE  /\ Fetches(calls) = {c} /\ ~armed /\ status \notin {"anonymous", "error"}
         /\ c.step \in {"granted", "me"} => c.got \in live \/ calls # {c}
         /\ c.step = "me" => jar = c.got
         /\ c.step # "me" /\ c.purpose = "login" => (jar \in live => cut)
         /\ c.step # "me" /\ c.purpose # "login" => c.carries = jar
<1>1. c \in Fetches(calls)
  BY DEF Fetches
<1> QED BY <1>1 DEF InOrder

LEMMA OrderStarts ==
  ASSUME TokensInv, SignedOff, overtaken \/ InOrder, Restore \/ Renew \/ SignIn \/ SignOut, ~overtaken'
  PROVE  InOrder'
<1>1. PICK c : /\ calls' = calls \cup {c} /\ c.step = "sent" /\ c.got = 0
               /\ UNCHANGED <<session, jar, live, abandoned, cut>>
               /\ \/ /\ c.purpose = "restore" /\ c.carries = jar
                     /\ status = "error" /\ Afresh /\ status' = "restoring" /\ armed' = armed
                  \/ /\ c.purpose = "login" /\ c.carries = 0
                     /\ status = "anonymous" /\ Afresh /\ status' = "restoring" /\ armed' = armed
                  \/ /\ c.purpose = "renew" /\ c.carries = jar /\ overtaken' = overtaken
                     /\ armed /\ ~armed' /\ status' = status
                  \/ /\ c.purpose = "logout" /\ c.carries = jar /\ overtaken' = overtaken
                     /\ status = "authenticated" /\ status' = status /\ armed' = armed
  BY Started
<1>2. CASE c.purpose # "logout"
  <2>1. Fetches(calls) = {}
    <3>1. CASE overtaken
      <4>1. calls = {}
        BY <1>1, <1>2, <3>1 DEF Afresh
      <4> QED BY <4>1 DEF Fetches
    <3>2. CASE InOrder
      BY <1>1, <1>2, <3>2 DEF InOrder
    <3> QED BY <3>1, <3>2
  <2>2. Fetches(calls)' = {c}
    BY <1>1, <1>2, <2>1 DEF Fetches
  <2>3. ~armed' /\ status' \notin {"anonymous", "error"}
    BY <1>1, <1>2 DEF SignedOff
  <2>4. c.purpose = "login" => (jar' \in live' => cut')
    BY <1>1, <2>1 DEF SignedOff
  <2>5. c.step = "sent" /\ (c.purpose # "login" => c.carries = jar')
    BY <1>1, <1>2
  <2> QED BY <2>2, <2>3, <2>4, <2>5, OneFetches
<1>3. CASE c.purpose = "logout"
  <2>1. InOrder /\ UNCHANGED <<status, session, armed, jar, live, cut>> /\ calls' = calls \cup {c}
    BY <1>1, <1>3
  <2>2. Fetches(calls)' = Fetches(calls)
    BY <1>3, <2>1 DEF Fetches
  <2>3. \A e \in Fetches(calls) : calls' # {e}
    BY <1>3, <2>1 DEF Fetches
  <2>4. calls' # {}
    BY <2>1
  <2> QED BY <2>1, <2>2, <2>3, <2>4 DEF InOrder
<1> QED BY <1>2, <1>3

LEMMA OrderServed ==
  ASSUME TokensInv, InOrder, NEW c \in calls, Login(c) \/ Refresh(c) \/ Logout(c)
  PROVE  InOrder'
<1>2. PICK d : AnsweredAs(c, d)
  BY ServerAnswers
<1>3. /\ calls' = (calls \ {c}) \cup {d} /\ c.step = "sent" /\ d.purpose = c.purpose /\ d.carries = c.carries
      /\ UNCHANGED <<status, session, armed, jar, cut>>
  BY <1>2 DEF AnsweredAs
<1>4. CASE c.purpose # "logout"
  <2>1. Fetches(calls) = {c} /\ ~armed /\ status \notin {"anonymous", "error"}
    BY <1>4, FetchAlone
  <2>2. c.purpose = "login" => (jar \in live => cut)
    BY <1>3, <1>4, FetchAlone
  <2>3. c.purpose # "login" => c.carries = jar
    BY <1>3, <1>4, FetchAlone
  <2>4. Fetches(calls)' = {d}
    BY <1>3, <1>4, <2>1 DEF Fetches
  <2>5. d.step # "me" /\ (d.step = "granted" => d.got \in live') /\ (jar \in live' => jar \in live)
    BY <1>2, <1>4, TokenFacts DEF AnsweredAs
  <2> QED BY <1>3, <2>1, <2>2, <2>3, <2>4, <2>5, OneFetches
<1>5. CASE c.purpose = "logout"
  <2>1. live' \subseteq live
    BY <1>2, <1>5 DEF AnsweredAs
  <2>2. Fetches(calls)' = Fetches(calls)
    BY <1>3, <1>5 DEF Fetches
  <2>3. \A e \in Fetches(calls) : calls' # {e}
    BY <1>3, <1>5 DEF Fetches
  <2>4. calls' # {}
    BY <1>3
  <2> QED BY <1>3, <2>1, <2>2, <2>3, <2>4 DEF InOrder
<1> QED BY <1>4, <1>5

LEMMA OrderTaken ==
  ASSUME TokensInv, NoneForgotten, overtaken \/ InOrder, NEW c \in calls,
         TokensArrive(c) \/ Establish(c) \/ Refused(c) \/ LoggedOut(c) \/ Lose(c), ~overtaken'
  PROVE  InOrder'
<1>1. InOrder
  BY DEF TokensArrive, Establish, Refused, LoggedOut, Lose, accidents
<1>2. CASE TokensArrive(c)
  <2>1. PICK d : /\ calls' = (calls \ {c}) \cup {d} /\ c.step = "granted" /\ c.purpose # "logout"
                 /\ d.purpose = c.purpose /\ d.carries = c.carries /\ d.step = "me" /\ d.got = c.got
                 /\ jar' = c.got /\ UNCHANGED <<status, session, armed, live, cut>>
    BY <1>2, Arrived
  <2>2. /\ Fetches(calls) = {c} /\ ~armed /\ status \notin {"anonymous", "error"}
        /\ c.got \in live \/ calls # {c}
    BY <1>1, <2>1, FetchAlone
  <2>3. Fetches(calls)' = {d}
    BY <2>1, <2>2 DEF Fetches
  <2>4. calls # {c} => calls' # {d}
    <3> SUFFICES ASSUME calls # {c} PROVE calls' # {d}
      OBVIOUS
    <3> PICK x \in calls : x # c
      OBVIOUS
    <3>1. x.purpose = "logout"
      BY <2>2 DEF Fetches
    <3> QED BY <2>1, <3>1
  <2> QED BY <2>1, <2>2, <2>3, <2>4, OneFetches
<1>3. ASSUME ~TokensArrive(c)
      PROVE  Fetches(calls)' = {}
  <2>1. calls' = calls \ {c}
    BY <1>3 DEF Establish, Refused, LoggedOut, Lose, Ends
  <2>2. CASE c.purpose = "logout"
    <3>1. LoggedOut(c) \/ Lose(c)
      BY <1>3, <2>2 DEF Establish, Refused, NoneForgotten
    <3>2. Fetches(calls) = {}
      BY <2>2, <3>1 DEF LoggedOut, Lose, Overtakes
    <3> QED BY <2>1, <3>2 DEF Fetches
  <2>3. CASE c.purpose # "logout"
    <3>1. Fetches(calls) = {c}
      BY <1>1, <2>3, FetchAlone
    <3> QED BY <2>1, <3>1 DEF Fetches
  <2> QED BY <2>2, <2>3
<1>4. CASE Establish(c)
  <2>1. c.step = "me" /\ calls' = calls \ {c} /\ session' = c.got /\ jar' = jar /\ live' = live
    BY <1>4 DEF Establish, Ends
  <2>2. c.purpose # "logout"
    BY <2>1 DEF NoneForgotten
  <2>3. jar = c.got /\ (c.got \in live \/ calls # {c})
    BY <1>1, <2>1, <2>2, FetchAlone
  <2>4. ~TokensArrive(c)
    BY <2>1 DEF TokensArrive
  <2>5. calls # {c} => calls' # {}
    BY <2>1
  <2> QED BY <1>3, <2>1, <2>3, <2>4, <2>5, NothingFetched
<1>5. CASE Refused(c) \/ LoggedOut(c) \/ Lose(c)
  <2>1. status' # "authenticated"
    BY <1>5 DEF Refused, LoggedOut, Lose, Leave
  <2> QED BY <1>2, <1>3, <2>1, NothingFetched
<1> QED BY <1>2, <1>4, <1>5

LEMMA SessionKept ==
  ASSUME TokensInv, SessionInv, SessionNext
  PROVE  SessionInv'
<1>1. NoneForgotten' /\ SignedOff'
  BY ForgottenKept, SignedOffKept DEF SessionInv
<1>2. ASSUME ~overtaken'
      PROVE  InOrder'
  <2>1. CASE Restore \/ Renew \/ SignIn \/ SignOut
    BY <1>2, <2>1, OrderStarts DEF SessionInv
  <2>2. ASSUME NEW c \in calls, Login(c) \/ Refresh(c) \/ Logout(c)
        PROVE  InOrder'
    <3>1. InOrder
      BY <1>2, <2>2 DEF SessionInv, Login, Refresh, Logout, GoesOn, accidents
    <3> QED BY <2>2, <3>1, OrderServed
  <2>3. ASSUME NEW c \in calls,
               TokensArrive(c) \/ Establish(c) \/ Refused(c) \/ LoggedOut(c) \/ Lose(c)
        PROVE  InOrder'
    BY <1>2, <2>3, OrderTaken DEF SessionInv
  <2> QED BY <2>1, <2>2, <2>3 DEF SessionNext
<1> QED BY <1>1, <1>2 DEF SessionInv

\* However renewals, sign-ins, sign-outs and restores overlap, and whichever of their
\* calls are lost, once nothing is under way: the server would renew no session but the
\* cookie's and those whose tokens an answer lost or took from the cookie; unless a
\* sign-out ended before a call that fetched tokens, the page is signed in only with the
\* cookie's live session; and without that and without a lost call it is not signed out
\* of one.
THEOREM ScreenSafe == Spec => []ScreenMatchesSession
<1>1. Init => TokensInv /\ SessionInv
  <2> SUFFICES ASSUME SessionInit PROVE TokensInv /\ SessionInv
    BY DEF Init
  <2>1. TokensInv
    BY TokensInit
  <2>2. /\ jar = issued /\ live = 1..issued /\ issued \in 0..1 /\ calls = {Call("restore")}
        /\ armed = FALSE /\ overtaken = FALSE /\ status = "restoring"
    BY DEF SessionInit
  <2>3. /\ Call("restore").purpose = "restore" /\ Call("restore").step = "sent"
        /\ Call("restore").carries = jar
    BY DEF Call, Carries
  <2>4. NoneForgotten
    <3>1. live \subseteq {jar}
      BY <2>2
    <3> QED BY <2>2, <2>3, <3>1 DEF NoneForgotten
  <2>5. Fetches(calls) = {Call("restore")}
    BY <2>2, <2>3 DEF Fetches
  <2>6. SignedOff
    BY <2>2, <2>5 DEF SignedOff
  <2>7. InOrder
    BY <2>2, <2>3, <2>5 DEF InOrder
  <2> QED BY <2>1, <2>4, <2>6, <2>7 DEF SessionInv
<1>2. SessionInv /\ TokensInv /\ [Next]_vars => SessionInv'
  <2> SUFFICES ASSUME SessionInv, TokensInv, [Next]_vars PROVE SessionInv'
    OBVIOUS
  <2>1. CASE SessionNext
    BY <2>1, SessionKept
  <2>2. ASSUME UNCHANGED <<status, session, armed, jar, live, issued, calls, accidents>>
        PROVE  SessionInv'
    <3>1. Fetches(calls)' = Fetches(calls)
      BY <2>2 DEF Fetches
    <3>2. NoneForgotten' /\ SignedOff'
      BY <2>2, <3>1 DEF SessionInv, NoneForgotten, SignedOff, accidents
    <3>3. (overtaken \/ InOrder)'
      BY <2>2, <3>1 DEF SessionInv, InOrder, accidents
    <3> QED BY <3>2, <3>3 DEF SessionInv
  <2>3. CASE PageNext
    BY <2>2, <2>3, PageKeepsSession
  <2>4. CASE UNCHANGED vars
    BY <2>2, <2>4 DEF vars, sessionVars
  <2> QED BY <2>1, <2>3, <2>4 DEF Next
<1>3. TokensInv /\ [Next]_vars => TokensInv'
  BY TokensStep
<1>4. SessionInv => ScreenMatchesSession
  <2> SUFFICES ASSUME SessionInv, calls = {} PROVE ScreenMatchesSession
    BY DEF ScreenMatchesSession
  <2>1. Fetches(calls) = {}
    BY DEF Fetches
  <2>2. live \subseteq {jar} \cup abandoned
    BY DEF SessionInv, NoneForgotten
  <2>3. status = "authenticated" => overtaken \/ (session = jar /\ jar \in live)
    BY <2>1 DEF SessionInv, InOrder
  <2>4. status # "authenticated" /\ jar \in live => cut
    BY <2>1 DEF SessionInv, SignedOff
  <2> QED BY <2>2, <2>3, <2>4 DEF ScreenMatchesSession
<1> QED BY <1>1, <1>2, <1>3, <1>4, PTL DEF Spec

-------------------------------------------------------------------------------
(* What a page shows of its loads.                                             *)

RequestOK(q) ==
  /\ q = [load |-> q.load, asked |-> q.asked, step |-> q.step, seen |-> q.seen]
  /\ q.load \in DOMAIN Loads
  /\ q.step = "served" => q.seen \in 1..version

WriteOK(i) ==
  /\ i = [write |-> i.write, step |-> i.step, seen |-> i.seen]
  /\ i.write \in DOMAIN Writes
  /\ i.step = "served" => i.seen \in 1..version

ConsoleTyped ==
  /\ page \in DOMAIN Consoles
  /\ choice = [k \in Kinds(page) |-> choice[k]]
  /\ shown = [l \in DOMAIN Loads |-> shown[l]]
  /\ owed = [l \in DOMAIN Loads |-> owed[l]]
  /\ version \in Nat \ {0}
  /\ \A l \in DOMAIN Loads : owed[l] \in 0..version
  /\ \A q \in requests : RequestOK(q)
  /\ \A i \in writes : WriteOK(i)

\* The panes that are brought up to date.
Watched(l) == l \in DOMAIN Loads /\ <<page, l>> \notin Unrefreshed

\* A request asks for the choices as they are, and an answer to come knows every
\* change the pane was told of.
Fresh(q) ==
  /\ q.asked = Asked(q.load, choice)
  /\ q.step = "served" => q.seen >= owed[q.load]

UpToDate(l) ==
  shown[l].asked = Asked(l, choice) /\ shown[l].seen >= owed[l] /\ shown[l] # Nothing

PaneInv(l) ==
  /\ \A q \in requests : q.load = l => Fresh(q)
  /\ \/ \E q \in requests : q.load = l
     \/ l \in failed
     \/ ~Askable(l, choice, shown)
     \/ UpToDate(l)

ConsoleInv == ConsoleTyped /\ (Shown => \A l \in DOMAIN Loads : Watched(l) => PaneInv(l))

-------------------------------------------------------------------------------
(* Running loads again.                                                        *)

Sent(l, chosen) == [load |-> l, asked |-> Asked(l, chosen), step |-> "sent", seen |-> 0]

LEMMA SentFacts ==
  ASSUME NEW l, NEW chosen
  PROVE  /\ Sent(l, chosen).load = l /\ Sent(l, chosen).step = "sent"
         /\ Sent(l, chosen).asked = Asked(l, chosen)
BY DEF Sent

LEMMA RunFacts ==
  ASSUME NEW ls, NEW chosen, NEW panes, NEW under, Run(ls, chosen, panes, under)
  PROVE  /\ \A q \in requests' :
              \/ q \in under /\ q.load \notin ls
              \/ \E l \in ls : q = Sent(l, chosen) /\ Askable(l, chosen, panes)
         /\ \A q \in under : q.load \notin ls \cup Pagers(ls) => q \in requests'
         /\ \A l \in ls : Askable(l, chosen, panes) => Sent(l, chosen) \in requests'
         /\ \A l \in failed : l \notin ls => l \in failed'
BY DEF Run, Aborting, Sent

\* What runs again asks for the choices as they are.
LEMMA RunWoken ==
  ASSUME NEW ls, NEW chosen, NEW panes, NEW under, Run(ls, chosen, panes, under),
         page' = page, choice' = chosen, shown' = panes, NEW l \in ls
  PROVE  PaneInv(l)'
<1>1. ASSUME NEW q \in requests', q.load = l
      PROVE  q.asked = Asked(l, chosen) /\ q.step = "sent"
  BY <1>1, RunFacts, SentFacts
<1>2. Askable(l, chosen, panes) => \E q \in requests' : q.load = l
  BY RunFacts, SentFacts
<1>3. Asked(l, choice)' = Asked(l, chosen) /\ (Askable(l, choice, shown)' <=> Askable(l, chosen, panes))
  BY DEF Asked, Askable, Loads
<1> QED
  BY <1>1, <1>2, <1>3 DEF PaneInv, Fresh

\* And what does not run is as it was.
LEMMA RunOthers ==
  ASSUME NEW ls, NEW chosen, NEW panes, NEW under, Run(ls, chosen, panes, under),
         page' = page, choice' = chosen, shown' = panes, NEW l, l \notin ls \cup Pagers(ls),
         PaneInv(l),
         \A q \in requests : q.load = l => q \in under,
         under \subseteq requests,
         Asked(l, chosen) = Asked(l, choice),
         Askable(l, chosen, panes) => Askable(l, choice, shown),
         panes[l] = shown[l], owed'[l] = owed[l]
  PROVE  PaneInv(l)'
<1>1. ASSUME NEW q \in requests', q.load = l
      PROVE  q \in requests /\ Fresh(q)
  BY <1>1, RunFacts, SentFacts DEF PaneInv
<1>2. ASSUME NEW q \in requests, q.load = l PROVE q \in requests'
  BY <1>2, RunFacts
<1>3. /\ Asked(l, choice)' = Asked(l, choice)
      /\ Askable(l, choice, shown)' => Askable(l, choice, shown)
  BY DEF Asked, Askable, Loads
<1>4. UpToDate(l) => UpToDate(l)'
  BY <1>3 DEF UpToDate, Nothing
<1>5. l \in failed => l \in failed'
  BY RunFacts
<1>6. \A q \in requests' : q.load = l => Fresh(q)'
  BY <1>1, <1>3 DEF Fresh
<1> QED
  BY <1>2, <1>3, <1>4, <1>5, <1>6 DEF PaneInv

LEMMA WokenLoads == ASSUME NEW signals PROVE Woken(signals) \subseteq DOMAIN Loads
BY DEF Woken

\* No pane that is brought up to date is a pager's, and no load needs one.
LEMMA PagersApart ==
  ASSUME ConsoleTyped, NEW l, Watched(l), NEW ls \in SUBSET DOMAIN Loads
  PROVE  l \notin Pagers(ls) /\ \A m \in ls : Loads[m].pagers \cap Loads[l].needs = {}
<1>1. page \in DOMAIN Consoles /\ l \in DOMAIN Loads /\ <<page, l>> \notin Unrefreshed
  BY DEF ConsoleTyped, Watched
<1>2. ASSUME NEW m \in ls, NEW k \in Loads[m].pagers
      PROVE  k # l /\ k \notin Loads[l].needs
  BY <1>1, <1>2, ChangesReload DEF Loads
<1>3. \A m \in ls : l \notin Loads[m].pagers /\ Loads[m].pagers \cap Loads[l].needs = {}
  BY <1>2
<1> QED
  BY <1>3 DEF Pagers

LEMMA Unwoken ==
  ASSUME ConsoleTyped, NEW l, Watched(l), NEW signals, l \notin Woken(signals)
  PROVE  (Loads[l].on \cup Loads[l].asks) \cap signals = {}
BY ChangesReload DEF ConsoleTyped, Watched, Woken, Loads

LEMMA AskedStands ==
  ASSUME NEW l, NEW chosen, \A k \in Loads[l].asks : chosen[k] = choice[k]
  PROVE  Asked(l, chosen) = Asked(l, choice)
BY DEF Asked

-------------------------------------------------------------------------------
(* Requests and changes under way stay records of loads and changes of the page. *)

LEMMA SentOK ==
  ASSUME NEW l \in DOMAIN Loads, NEW chosen
  PROVE  RequestOK(Sent(l, chosen))
BY DEF RequestOK, Sent

LEMMA RequestStays ==
  ASSUME NEW q, RequestOK(q), page' = page, version \in Nat, version' \in Nat, version' >= version
  PROVE  RequestOK(q)'
BY DEF RequestOK, Loads

LEMMA WriteStays ==
  ASSUME NEW i, WriteOK(i), page' = page, version \in Nat, version' \in Nat, version' >= version
  PROVE  WriteOK(i)'
BY DEF WriteOK, Writes

LEMMA RunTyped ==
  ASSUME ConsoleTyped, NEW ls \in SUBSET DOMAIN Loads, NEW chosen, NEW panes, NEW under \in SUBSET requests,
         Run(ls, chosen, panes, under), page' = page, version' = version
  PROVE  \A q \in requests' : RequestOK(q)'
<1> SUFFICES ASSUME NEW q \in requests' PROVE RequestOK(q)'
  OBVIOUS
<1>1. RequestOK(q)
  <2>1. q \in under \/ \E l \in ls : q = Sent(l, chosen)
    BY RunFacts
  <2> QED
    BY <2>1, SentOK DEF ConsoleTyped
<1> QED
  BY <1>1, RequestStays DEF ConsoleTyped

LEMMA AskedKinds ==
  ASSUME ConsoleTyped, NEW l \in DOMAIN Loads
  PROVE  Loads[l].asks \subseteq DOMAIN choice
BY DEF ConsoleTyped, Kinds, Loads

\* Loads that a signal wakes ask again, and the others had no reason to.
LEMMA RunOnSignals ==
  ASSUME ConsoleTyped, NEW signals, NEW l, Watched(l), PaneInv(l), NEW chosen,
         \A k \in DOMAIN choice : k \notin signals => chosen[k] = choice[k],
         Run(Woken(signals), chosen, shown, requests),
         page' = page, choice' = chosen, shown' = shown, owed' = owed
  PROVE  PaneInv(l)'
<1>1. CASE l \in Woken(signals)
  BY <1>1, RunWoken
<1>2. CASE l \notin Woken(signals)
  <2>1. \A k \in Loads[l].asks : chosen[k] = choice[k]
    BY <1>2, Unwoken, AskedKinds DEF Watched
  <2>2. Asked(l, chosen) = Asked(l, choice)
    BY <2>1, AskedStands
  <2>3. Askable(l, chosen, shown) => Askable(l, choice, shown)
    BY <2>1 DEF Askable
  <2>4. l \notin Pagers(Woken(signals))
    BY PagersApart, WokenLoads
  <2> QED
    BY <1>2, <2>2, <2>3, <2>4, RunOthers
<1> QED
  BY <1>1, <1>2

-------------------------------------------------------------------------------
(* The steps of the user, a timer and a token.                                 *)

\* A step that runs again what its signals wake, for the same user.
LEMMA SignalSafe ==
  ASSUME ConsoleInv, NEW signals, NEW chosen,
         Shown, DOMAIN chosen = DOMAIN choice, chosen = [k \in DOMAIN chosen |-> chosen[k]],
         \A k \in DOMAIN choice : k \notin signals => chosen[k] = choice[k],
         Run(Woken(signals), chosen, shown, requests), choice' = chosen,
         UNCHANGED <<page, user, version, shown, writes, owed>>
  PROVE  ConsoleInv'
<1>0. /\ ConsoleTyped /\ page' = page /\ version' = version /\ shown' = shown /\ owed' = owed /\ writes' = writes
      /\ version \in Nat
  BY DEF ConsoleInv, ConsoleTyped
<1>1. ConsoleTyped'
  <2>1. \A q \in requests' : RequestOK(q)'
    BY <1>0, RunTyped, WokenLoads
  <2>2. \A i \in writes' : WriteOK(i)'
    <3> SUFFICES ASSUME NEW i \in writes PROVE WriteOK(i)'
      BY <1>0
    <3> QED
      BY <1>0, WriteStays DEF ConsoleTyped
  <2>3. choice' = [k \in Kinds(page') |-> choice'[k]]
    BY <1>0 DEF ConsoleTyped
  <2> QED
    BY <1>0, <2>1, <2>2, <2>3 DEF ConsoleTyped, Loads
<1>2. ASSUME NEW l \in DOMAIN Loads', Watched(l)' PROVE PaneInv(l)'
  <2>1. Watched(l)
    BY <1>0, <1>2 DEF Watched, Loads
  <2>2. PaneInv(l)
    BY <2>1 DEF ConsoleInv, Watched
  <2> QED
    BY <1>0, <2>1, <2>2, RunOnSignals
<1> QED
  BY <1>1, <1>2 DEF ConsoleInv

LEMMA ChooseSafe ==
  ASSUME ConsoleInv, NEW k \in DOMAIN choice, NEW value, Choose(k, value)
  PROVE  ConsoleInv'
<1> DEFINE chosen == [choice EXCEPT ![k] = value]
<1>1. /\ Shown /\ choice' = chosen
      /\ Run(Woken({k}), chosen, shown, requests)
      /\ UNCHANGED <<page, user, version, shown, writes, owed>>
  BY DEF Choose
<1>2. /\ DOMAIN chosen = DOMAIN choice /\ chosen = [j \in DOMAIN chosen |-> chosen[j]]
      /\ \A j \in DOMAIN choice : j \notin {k} => chosen[j] = choice[j]
  OBVIOUS
<1> HIDE DEF chosen
<1> QED
  BY <1>1, <1>2, SignalSafe

LEMMA ChoiceIsFunction ==
  ASSUME ConsoleInv PROVE choice = [k \in DOMAIN choice |-> choice[k]]
BY DEF ConsoleInv, ConsoleTyped

LEMMA TickSafe == ASSUME ConsoleInv, Tick PROVE ConsoleInv'
<1>1. PICK chosen : chosen = choice
  OBVIOUS
<1>2. PICK signals : signals = Consoles[page].ticks
  OBVIOUS
<1>3. /\ Shown /\ choice' = chosen
      /\ Run(Woken(signals), chosen, shown, requests)
      /\ UNCHANGED <<page, user, version, shown, writes, owed>>
  BY <1>1, <1>2 DEF Tick
<1>4. /\ DOMAIN chosen = DOMAIN choice /\ chosen = [j \in DOMAIN chosen |-> chosen[j]]
      /\ \A j \in DOMAIN choice : j \notin signals => chosen[j] = choice[j]
  BY <1>1, ChoiceIsFunction
<1> QED
  BY <1>3, <1>4, SignalSafe

-------------------------------------------------------------------------------
(* Steps that move requests and changes, and leave what is shown.              *)

\* What such a step owes: every request is one that was, or one to an answer
\* that is fresh if it was, and a request is lost only with a failure.
LEMMA PanesStand ==
  ASSUME ConsoleInv, page' = page, user' = user, choice' = choice, shown' = shown, owed' = owed, Shown' => Shown,
         \A l \in failed : Watched(l) => l \in failed',
         \A r \in requests' :
           r \in requests \/ (Watched(r.load) => \E q \in requests :
                               /\ r.load = q.load /\ r.asked = q.asked
                               /\ r.step = "served" => r.seen >= owed[r.load]),
         \A q \in requests : q.load \in failed' \/ \E r \in requests' : r.load = q.load,
         ConsoleTyped'
  PROVE  ConsoleInv'
<1>1. ASSUME Shown', NEW l \in DOMAIN Loads', Watched(l)' PROVE PaneInv(l)'
  <2>1. Watched(l) /\ PaneInv(l)
    BY <1>1 DEF Watched, Loads, ConsoleInv
  <2>2. /\ Asked(l, choice)' = Asked(l, choice)
        /\ Askable(l, choice, shown)' => Askable(l, choice, shown)
    BY DEF Asked, Askable, Loads
  <2>3. ASSUME NEW r \in requests', r.load = l PROVE Fresh(r)'
    BY <2>1, <2>2, <2>3 DEF PaneInv, Fresh
  <2>4. UpToDate(l) => UpToDate(l)'
    BY <2>2 DEF UpToDate, Nothing
  <2> QED
    BY <2>1, <2>2, <2>3, <2>4 DEF PaneInv
<1> QED
  BY <1>1 DEF ConsoleInv

LEMMA SameUserShown == ASSUME page' = page, user' = user, status' = status PROVE Shown' => Shown
BY DEF Shown, Permitted, hasPermission

LEMMA TypedStands ==
  ASSUME ConsoleTyped, page' = page, choice' = choice, shown' = shown, owed' = owed,
         version' \in Nat, version' >= version,
         \A q \in requests' : RequestOK(q)', \A i \in writes' : WriteOK(i)'
  PROVE  ConsoleTyped'
<1>1. choice' = [k \in Kinds(page') |-> choice'[k]]
  BY DEF ConsoleTyped
<1>2. Loads' = Loads
  BY DEF Loads
<1>3. /\ shown' = [l \in DOMAIN Loads' |-> shown'[l]]
      /\ owed' = [l \in DOMAIN Loads' |-> owed'[l]]
  BY <1>2 DEF ConsoleTyped
<1>4. version' \in Nat \ {0} /\ \A l \in DOMAIN Loads' : owed'[l] \in 0..version'
  BY <1>2 DEF ConsoleTyped
<1> QED
  BY <1>1, <1>3, <1>4 DEF ConsoleTyped

LEMMA ServeLoadSafe ==
  ASSUME ConsoleInv, NEW q \in requests, ServeLoad(q)
  PROVE  ConsoleInv'
<1>1. PICK r : /\ requests' = (requests \ {q}) \cup {r}
               /\ \/ r = [q EXCEPT !.step = "served", !.seen = version]
                  \/ r = [q EXCEPT !.step = "refused"]
  BY DEF ServeLoad
<1>2. /\ page' = page /\ user' = user /\ choice' = choice /\ shown' = shown /\ owed' = owed
      /\ version' = version /\ failed' = failed /\ writes' = writes /\ status' = status
  BY DEF ServeLoad, sessionVars
<1>3. ConsoleTyped /\ version \in Nat \ {0} /\ RequestOK(q)
  BY DEF ConsoleInv, ConsoleTyped
<1>4. /\ r.load = q.load /\ r.asked = q.asked
      /\ r.step = "served" => r.seen = version
      /\ RequestOK(r)
  <2>1. PICK load, asked, step, seen : q = [load |-> load, asked |-> asked, step |-> step, seen |-> seen]
    BY <1>3 DEF RequestOK
  <2>2. q.load = load /\ q.asked = asked /\ load \in DOMAIN Loads
    BY <2>1, <1>3 DEF RequestOK
  <2>3. CASE r = [q EXCEPT !.step = "served", !.seen = version]
    <3>1. r = [load |-> load, asked |-> asked, step |-> "served", seen |-> version]
      BY <2>1, <2>3
    <3> QED
      BY <3>1, <2>2, <1>3 DEF RequestOK
  <2>4. CASE r = [q EXCEPT !.step = "refused"]
    <3>1. r = [load |-> load, asked |-> asked, step |-> "refused", seen |-> seen]
      BY <2>1, <2>4
    <3> QED
      BY <3>1, <2>2 DEF RequestOK
  <2> QED
    BY <1>1, <2>3, <2>4
<1>5. ConsoleTyped'
  <2>1. \A s \in requests' : RequestOK(s)'
    BY <1>1, <1>2, <1>3, <1>4, RequestStays DEF ConsoleTyped
  <2>2. \A i \in writes' : WriteOK(i)'
    BY <1>2, <1>3, WriteStays DEF ConsoleTyped
  <2> QED
    BY <1>2, <1>3, <2>1, <2>2, TypedStands
<1>6. owed[q.load] <= version
  BY <1>3 DEF ConsoleTyped, RequestOK
<1>7. \A s \in requests' : s \in requests \/ (Watched(s.load) => \E p \in requests :
                               /\ s.load = p.load /\ s.asked = p.asked
                               /\ s.step = "served" => s.seen >= owed[s.load])
  BY <1>1, <1>3, <1>4, <1>6 DEF ConsoleTyped
<1>8. \A s \in requests : s.load \in failed' \/ \E p \in requests' : p.load = s.load
  BY <1>1, <1>4
<1> QED
  BY <1>2, <1>5, <1>7, <1>8, SameUserShown, PanesStand

LEMMA FailLoadSafe ==
  ASSUME ConsoleInv, NEW q \in requests, FailLoad(q), status' = status
  PROVE  ConsoleInv'
<1>1. /\ page' = page /\ user' = user /\ choice' = choice /\ shown' = shown /\ owed' = owed
      /\ version' = version /\ writes' = writes
      /\ failed' = failed \cup {q.load} /\ requests' = requests \ {q}
  BY DEF FailLoad
<1>2. ConsoleTyped /\ version \in Nat
  BY DEF ConsoleInv, ConsoleTyped
<1>3. ConsoleTyped'
  <2>1. \A s \in requests' : RequestOK(s)'
    BY <1>1, <1>2, RequestStays DEF ConsoleTyped
  <2>2. \A i \in writes' : WriteOK(i)'
    BY <1>1, <1>2, WriteStays DEF ConsoleTyped
  <2> QED
    BY <1>1, <1>2, <2>1, <2>2, TypedStands
<1> QED
  BY <1>1, <1>3, SameUserShown, PanesStand

\* A pager's request is for no pane that is brought up to date.
LEMMA TurnPageSafe ==
  ASSUME ConsoleInv, NEW l \in Pagers(DOMAIN Loads), NEW value, TurnPage(l, value)
  PROVE  ConsoleInv'
<1>1. PICK turned : turned = [load |-> l, asked |-> {<<l, value>>}, step |-> "sent", seen |-> 0]
  OBVIOUS
<1>2. /\ page' = page /\ user' = user /\ choice' = choice /\ shown' = shown /\ owed' = owed
      /\ version' = version /\ writes' = writes /\ status' = status
      /\ failed' = failed \ {l} /\ requests' = requests \cup {turned}
  BY <1>1 DEF TurnPage, Event
<1>3. ConsoleTyped /\ version \in Nat
  BY DEF ConsoleInv, ConsoleTyped
<1>4. l \in DOMAIN Loads /\ ~Watched(l)
  <2>1. PICK m \in DOMAIN Loads : l \in Loads[m].pagers
    BY DEF Pagers
  <2> QED
    BY <1>3, <2>1, ChangesReload DEF ConsoleTyped, Watched, Loads
<1>5. turned.load = l /\ turned.step = "sent"
      /\ turned = [load |-> turned.load, asked |-> turned.asked, step |-> turned.step, seen |-> turned.seen]
  BY <1>1
<1>6. ConsoleTyped'
  <2>1. \A s \in requests' : RequestOK(s)
    <3>1. RequestOK(turned)
      BY <1>4, <1>5 DEF RequestOK
    <3> QED
      BY <1>2, <1>3, <3>1 DEF ConsoleTyped
  <2>2. \A s \in requests' : RequestOK(s)'
    BY <1>2, <1>3, <2>1, RequestStays
  <2>3. \A i \in writes' : WriteOK(i)'
    BY <1>2, <1>3, WriteStays DEF ConsoleTyped
  <2> QED
    BY <1>2, <1>3, <2>2, <2>3, TypedStands
<1>7. \A m \in failed : Watched(m) => m \in failed'
  BY <1>2, <1>4
<1>8. \A s \in requests' : s \in requests \/ ~Watched(s.load)
  BY <1>2, <1>4, <1>5
<1>9. \A s \in requests : \E r \in requests' : r.load = s.load
  BY <1>2
<1> QED
  BY <1>2, <1>6, <1>7, <1>8, <1>9, SameUserShown, PanesStand

\* Changes that are sent, served and lost touch no pane.
LEMMA WritesSafe ==
  ASSUME ConsoleInv, UNCHANGED <<page, user, choice, shown, owed, failed, requests, status>>,
         version' \in Nat, version' >= version, \A i \in writes' : WriteOK(i)'
  PROVE  ConsoleInv'
<1>1. /\ page' = page /\ user' = user /\ choice' = choice /\ shown' = shown /\ owed' = owed
      /\ failed' = failed /\ requests' = requests /\ status' = status
  OBVIOUS
<1>2. ConsoleTyped /\ version \in Nat \ {0}
  BY DEF ConsoleInv, ConsoleTyped
<1>3. ConsoleTyped'
  <2>1. \A s \in requests' : RequestOK(s)'
    BY <1>1, <1>2, RequestStays DEF ConsoleTyped
  <2> QED
    BY <1>1, <1>2, <2>1, TypedStands
<1> QED
  BY <1>1, <1>3, SameUserShown, PanesStand

LEMMA SendSafe ==
  ASSUME ConsoleInv, NEW w \in DOMAIN Writes, Send(w)
  PROVE  ConsoleInv'
<1>1. ConsoleTyped /\ version \in Nat
  BY DEF ConsoleInv, ConsoleTyped
<1>2. /\ UNCHANGED <<page, user, choice, shown, owed, failed, requests, status>>
      /\ version' = version
      /\ writes' = writes \cup {[write |-> w, step |-> "sent", seen |-> 0]}
  BY DEF Send, Event
<1>3. \A i \in writes' : WriteOK(i)
  BY <1>1, <1>2 DEF ConsoleTyped, WriteOK
<1>4. \A i \in writes' : WriteOK(i)'
  BY <1>1, <1>2, <1>3, WriteStays
<1> QED
  BY <1>1, <1>2, <1>4, WritesSafe

LEMMA ServeWriteSafe ==
  ASSUME ConsoleInv, NEW i \in writes, ServeWrite(i)
  PROVE  ConsoleInv'
<1>1. ConsoleTyped /\ version \in Nat \ {0} /\ WriteOK(i)
  BY DEF ConsoleInv, ConsoleTyped
<1>2. UNCHANGED <<page, user, choice, shown, owed, failed, requests, status>>
  BY DEF ServeWrite, sessionVars
<1>3. PICK j : /\ writes' = (writes \ {i}) \cup {j}
               /\ \/ version' = version + 1 /\ j = [i EXCEPT !.step = "served", !.seen = version']
                  \/ version' = version /\ j = [i EXCEPT !.step = "refused"]
  BY DEF ServeWrite
<1>4. version' \in Nat /\ version' >= version /\ version' >= 1
  BY <1>1, <1>3
<1>5. WriteOK(j)'
  <2>1. PICK write, step, seen : i = [write |-> write, step |-> step, seen |-> seen]
    BY <1>1 DEF WriteOK
  <2>2. write \in DOMAIN Writes /\ Writes' = Writes
    BY <2>1, <1>1, <1>2 DEF WriteOK, Writes
  <2>3. \/ j = [write |-> write, step |-> "served", seen |-> version']
        \/ j = [write |-> write, step |-> "refused", seen |-> seen]
    BY <1>3, <2>1
  <2>4. version' \in 1..version'
    BY <1>4
  <2> QED
    BY <2>2, <2>3, <2>4 DEF WriteOK
<1>6. \A s \in writes' : WriteOK(s)'
  BY <1>1, <1>2, <1>3, <1>4, <1>5, WriteStays DEF ConsoleTyped
<1> QED
  BY <1>2, <1>4, <1>6, WritesSafe

LEMMA FailWriteSafe ==
  ASSUME ConsoleInv, NEW i \in writes, FailWrite(i), status' = status
  PROVE  ConsoleInv'
<1>1. ConsoleTyped /\ version \in Nat
  BY DEF ConsoleInv, ConsoleTyped
<1>2. /\ UNCHANGED <<page, user, choice, shown, owed, failed, requests, status>>
      /\ version' = version /\ writes' = writes \ {i}
  BY DEF FailWrite
<1>3. \A s \in writes' : WriteOK(s)'
  BY <1>1, <1>2, WriteStays DEF ConsoleTyped
<1> QED
  BY <1>1, <1>2, <1>3, WritesSafe

-------------------------------------------------------------------------------
(* Answers.                                                                    *)

LEMMA AnswerLoadSafe ==
  ASSUME ConsoleInv, NEW q \in requests, AnswerLoad(q)
  PROVE  ConsoleInv'
<1>1. PICK l0 : l0 = q.load
  OBVIOUS
<1>2. PICK panes : panes = [m \in DOMAIN shown |->
                             CASE m = l0 -> [asked |-> q.asked, seen |-> q.seen]
                               [] m # l0 /\ m \in Loads[l0].pagers -> [asked |-> {<<m, 1>>}, seen |-> q.seen]
                               [] OTHER -> shown[m]]
  OBVIOUS
<1>3. PICK chosen : chosen = [k \in DOMAIN choice |->
                               IF k \in Loads[l0].picks /\ choice[k] = 0 THEN 1 ELSE choice[k]]
  OBVIOUS
<1>4. PICK signals : signals = {l0} \cup {k \in DOMAIN choice : chosen[k] # choice[k]}
  OBVIOUS
<1>5. PICK ls : ls = Woken(signals) \cup
                     IF shown[l0] = Nothing
                     THEN {m \in DOMAIN Loads : l0 \in Loads[m].needs} \ Loads[l0].pagers ELSE {}
  OBVIOUS
<1>6. PICK under : under = requests \ {q}
  OBVIOUS
<1>7. /\ q.step = "served" /\ shown' = panes /\ choice' = chosen
      /\ Run(ls, chosen, panes, under)
      /\ page' = page /\ user' = user /\ status' = status
      /\ version' = version /\ writes' = writes /\ owed' = owed
  BY <1>1, <1>2, <1>3, <1>4, <1>5, <1>6 DEF AnswerLoad, sessionVars
<1>8. /\ ConsoleTyped /\ version \in Nat \ {0} /\ RequestOK(q)
      /\ ls \in SUBSET DOMAIN Loads /\ under \in SUBSET requests
  BY <1>5, <1>6, WokenLoads DEF ConsoleInv, ConsoleTyped
<1>9. l0 \in DOMAIN shown /\ q.seen \in 1..version
  BY <1>1, <1>7, <1>8 DEF RequestOK, ConsoleTyped
<1>10. ConsoleTyped'
  <2>1. \A r \in requests' : RequestOK(r)'
    BY <1>7, <1>8, RunTyped
  <2>2. \A i \in writes' : WriteOK(i)'
    BY <1>7, <1>8, WriteStays DEF ConsoleTyped
  <2>3. Loads' = Loads /\ Kinds(page') = Kinds(page)
    BY <1>7 DEF Loads
  <2>4. chosen = [k \in Kinds(page) |-> chosen[k]]
    BY <1>3, <1>8 DEF ConsoleTyped
  <2>5. panes = [l \in DOMAIN Loads |-> panes[l]]
    BY <1>2, <1>8 DEF ConsoleTyped
  <2>6. /\ page' \in DOMAIN Consoles /\ version' \in Nat \ {0}
        /\ owed' = [l \in DOMAIN Loads' |-> owed'[l]]
        /\ \A l \in DOMAIN Loads' : owed'[l] \in 0..version'
    BY <1>7, <1>8, <2>3 DEF ConsoleTyped
  <2> QED
    BY <1>7, <2>1, <2>2, <2>3, <2>4, <2>5, <2>6 DEF ConsoleTyped
<1>11. ASSUME Shown', NEW l \in DOMAIN Loads', Watched(l)' PROVE PaneInv(l)'
  <2>1. Watched(l) /\ Shown /\ l \in DOMAIN Loads
    BY <1>7, <1>11, SameUserShown DEF Watched, Loads
  <2>2. PaneInv(l)
    BY <2>1 DEF ConsoleInv
  <2>3. CASE l \in ls
    BY <1>7, <2>3, RunWoken
  <2>5. /\ l \notin Pagers(ls) /\ l \notin Loads[l0].pagers
        /\ Loads[l0].pagers \cap Loads[l].needs = {}
    <3>1. l0 \in DOMAIN Loads
      BY <1>1, <1>8 DEF RequestOK
    <3>2. l \notin Pagers({l0}) /\ Loads[l0].pagers \cap Loads[l].needs = {} /\ l \notin Pagers(ls)
      BY <1>8, <2>1, <3>1, PagersApart
    <3> QED
      BY <3>2 DEF Pagers
  <2>4. CASE l \notin ls
    <3>1. (Loads[l].on \cup Loads[l].asks) \cap signals = {}
      BY <1>5, <1>8, <2>1, <2>4, Unwoken
    <3>2. \A k \in Loads[l].asks : chosen[k] = choice[k]
      BY <1>4, <1>8, <2>1, <3>1, AskedKinds
    <3>3. Asked(l, chosen) = Asked(l, choice)
      BY <3>2, AskedStands
    <3>4. CASE l = l0
      <4>1. Asked(l, choice)' = Asked(l, choice)
        BY <1>7, <3>3 DEF Asked, Loads
      <4>2. ASSUME NEW r \in requests', r.load = l PROVE Fresh(r)'
        <5>1. r \in under
          BY <1>7, <2>4, <4>2, RunFacts, SentFacts
        <5>2. Fresh(r)
          BY <1>6, <2>2, <4>2, <5>1 DEF PaneInv
        <5> QED
          BY <1>7, <4>1, <4>2, <5>2 DEF Fresh
      <4>3. Fresh(q)
        BY <1>1, <2>2, <3>4 DEF PaneInv
      <4>4. panes[l] = [asked |-> q.asked, seen |-> q.seen]
        BY <1>2, <1>9, <3>4
      <4>5. /\ panes[l].asked = Asked(l, choice) /\ panes[l].seen >= owed[l] /\ panes[l] # Nothing
        BY <1>1, <1>7, <1>9, <3>4, <4>3, <4>4 DEF Fresh, Nothing
      <4>6. UpToDate(l)'
        BY <1>7, <4>1, <4>5 DEF UpToDate, Nothing
      <4> QED
        BY <4>2, <4>6 DEF PaneInv
    <3>5. CASE l # l0
      <4>1. \A r \in requests : r.load = l => r \in under
        BY <1>1, <1>6, <3>5
      <4>2. panes[l] = shown[l] /\ owed'[l] = owed[l]
        BY <1>2, <1>7, <1>8, <2>1, <2>5, <3>5 DEF ConsoleTyped
      <4>3. ASSUME NEW m \in Loads[l].needs, panes[m] # Nothing PROVE shown[m] # Nothing
        <5>1. CASE m = l0
          BY <1>5, <2>1, <2>4, <2>5, <4>3, <5>1
        <5>2. CASE m # l0
          <6>1. m \in DOMAIN shown /\ m \notin Loads[l0].pagers
            BY <1>8, <2>1, <2>5, <4>3, ChangesReload DEF ConsoleTyped, Loads
          <6> QED
            BY <1>2, <4>3, <5>2, <6>1
        <5> QED
          BY <5>1, <5>2
      <4>4. Askable(l, chosen, panes) => Askable(l, choice, shown)
        BY <3>2, <4>3 DEF Askable
      <4> QED
        BY <1>7, <1>8, <2>2, <2>4, <2>5, <3>3, <4>1, <4>2, <4>4, RunOthers
    <3> QED
      BY <3>4, <3>5
  <2> QED
    BY <2>3, <2>4
<1> QED
  BY <1>10, <1>11 DEF ConsoleInv

\* A page that appears asks for all it can.
LEMMA MountPanes ==
  ASSUME Mount, page' = page, NEW l \in DOMAIN Loads
  PROVE  PaneInv(l)'
<1>1. PICK chosen, none : chosen = Unmade /\ none = [m \in DOMAIN Loads |-> Nothing]
  OBVIOUS
<1>2. /\ choice' = chosen /\ shown' = none
      /\ requests' = {Sent(m, chosen) : m \in {k \in DOMAIN Loads : Askable(k, chosen, none)}}
  BY <1>1 DEF Mount, Sent
<1>3. Asked(l, choice)' = Asked(l, chosen) /\ (Askable(l, choice, shown)' <=> Askable(l, chosen, none))
  BY <1>2 DEF Asked, Askable, Loads, Nothing
<1>4. ASSUME NEW r \in requests', r.load = l PROVE Fresh(r)'
  BY <1>2, <1>3, <1>4, SentFacts DEF Fresh
<1>5. Askable(l, chosen, none) => \E r \in requests' : r.load = l
  BY <1>2, SentFacts
<1> QED
  BY <1>3, <1>4, <1>5 DEF PaneInv

LEMMA MountTyped ==
  ASSUME Mount, page' = page, page \in DOMAIN Consoles
  PROVE  /\ choice' = [k \in Kinds(page') |-> choice'[k]]
         /\ shown' = [l \in DOMAIN Loads' |-> shown'[l]]
         /\ \A q \in requests' : RequestOK(q)'
<1>1. Loads' = Loads /\ Kinds(page') = Kinds(page)
  BY DEF Loads
<1>2. \A q \in requests' : \E l \in DOMAIN Loads : q = Sent(l, Unmade)
  BY DEF Mount, Sent
<1>3. \A q \in requests' : RequestOK(q)'
  BY <1>1, <1>2 DEF RequestOK, Sent
<1>4. choice' = Unmade /\ shown' = [l \in DOMAIN Loads |-> Nothing]
  BY DEF Mount
<1>5. Unmade = [k \in Kinds(page) |-> Unmade[k]]
  BY DEF Unmade
<1> QED
  BY <1>1, <1>3, <1>4, <1>5

LEMMA AnswerWriteSafe ==
  ASSUME ConsoleInv, NEW i \in writes, AnswerWrite(i)
  PROVE  ConsoleInv'
<1>1. PICK w : w = Writes[i.write]
  OBVIOUS
<1>2. PICK due : due = [l \in DOMAIN Loads |-> IF l \in w.changes /\ owed[l] < i.seen THEN i.seen ELSE owed[l]]
  OBVIOUS
<1>3. PICK panes : panes = [l \in DOMAIN Loads |->
                             IF l \in w.shows THEN [shown[l] EXCEPT !.seen = i.seen] ELSE shown[l]]
  OBVIOUS
<1>4. PICK ls : ls = Woken(w.bumps)
  OBVIOUS
<1>5. PICK chosen : chosen = choice
  OBVIOUS
<1>6. PICK under : under = requests
  OBVIOUS
<1>7. /\ i.step = "served" /\ writes' = writes \ {i} /\ owed' = due
      /\ page' = page /\ user' = user /\ status' = status /\ version' = version
      /\ \/ Mount
         \/ /\ "mount" \notin w.bumps
            /\ shown' = panes /\ choice' = chosen /\ Run(ls, chosen, panes, under)
  BY <1>1, <1>2, <1>3, <1>4, <1>5, <1>6 DEF AnswerWrite, sessionVars
<1>8. /\ ConsoleTyped /\ version \in Nat \ {0} /\ WriteOK(i) /\ page \in DOMAIN Consoles
      /\ i.seen \in 1..version
  BY <1>7 DEF ConsoleInv, ConsoleTyped, WriteOK
<1>9. Loads' = Loads /\ Kinds(page') = Kinds(page)
  BY <1>7 DEF Loads
<1>10. /\ due = [l \in DOMAIN Loads |-> due[l]]
       /\ \A l \in DOMAIN Loads : due[l] \in 0..version
  BY <1>2, <1>8 DEF ConsoleTyped
<1>11. /\ page' \in DOMAIN Consoles /\ version' \in Nat \ {0}
       /\ owed' = [l \in DOMAIN Loads' |-> owed'[l]]
       /\ \A l \in DOMAIN Loads' : owed'[l] \in 0..version'
  BY <1>7, <1>8, <1>9, <1>10
<1>12. \A j \in writes' : WriteOK(j)'
  BY <1>7, <1>8, WriteStays DEF ConsoleTyped
<1>13. CASE Mount
  <2>1. /\ choice' = [k \in Kinds(page') |-> choice'[k]]
        /\ shown' = [l \in DOMAIN Loads' |-> shown'[l]]
        /\ \A q \in requests' : RequestOK(q)'
    BY <1>7, <1>8, <1>13, MountTyped
  <2>2. ConsoleTyped'
    BY <1>11, <1>12, <2>1 DEF ConsoleTyped
  <2>3. \A l \in DOMAIN Loads' : PaneInv(l)'
    BY <1>7, <1>9, <1>13, MountPanes
  <2> QED
    BY <2>2, <2>3 DEF ConsoleInv
<1>14. CASE /\ "mount" \notin w.bumps
            /\ shown' = panes /\ choice' = chosen /\ Run(ls, chosen, panes, under)
  <2>1. ls \in SUBSET DOMAIN Loads /\ under \in SUBSET requests
    BY <1>4, <1>6, WokenLoads
  <2>2. \A q \in requests' : RequestOK(q)'
    BY <1>7, <1>8, <1>14, <2>1, RunTyped
  <2>3. choice' = [k \in Kinds(page) |-> choice'[k]]
    BY <1>5, <1>8, <1>14 DEF ConsoleTyped
  <2>4. panes = [l \in DOMAIN Loads |-> panes[l]]
    BY <1>3
  <2>5. ConsoleTyped'
    BY <1>9, <1>11, <1>12, <1>14, <2>2, <2>3, <2>4 DEF ConsoleTyped
  <2>6. ASSUME Shown', NEW l \in DOMAIN Loads', Watched(l)' PROVE PaneInv(l)'
    <3>1. Watched(l) /\ Shown /\ l \in DOMAIN Loads
      BY <1>7, <1>9, <2>6, SameUserShown DEF Watched
    <3>2. PaneInv(l)
      BY <3>1 DEF ConsoleInv
    <3>3. CASE l \in ls
      BY <1>7, <1>14, <3>3, RunWoken
    <3>4. CASE l \notin ls
      <4>1. (Loads[l].on \cup Loads[l].asks) \cap w.bumps = {}
        BY <1>4, <1>8, <3>1, <3>4, Unwoken
      <4>2. l \notin w.changes
        BY <1>1, <1>8, <1>14, <3>1, <4>1, ChangesReload DEF Watched, WriteOK, Writes, Loads
      <4>3. \A m \in w.shows : m \notin Loads[l].needs
        BY <1>1, <1>8, <1>14, <3>1, ChangesReload DEF WriteOK, Writes, Loads
      <4>4. l \notin w.shows
        BY <1>1, <1>8, <1>14, <3>1, ChangesReload DEF Watched, WriteOK, Writes, Loads
      <4>5. panes[l] = shown[l] /\ owed'[l] = owed[l]
        BY <1>2, <1>3, <1>7, <3>1, <4>2, <4>4
      <4>6. ASSUME NEW m \in Loads[l].needs, panes[m] # Nothing PROVE shown[m] # Nothing
        <5>1. m \in DOMAIN Loads
          BY <1>8, <3>1, ChangesReload DEF Loads
        <5> QED
          BY <1>3, <4>3, <4>6, <5>1
      <4>7. Askable(l, chosen, panes) => Askable(l, choice, shown)
        BY <1>5, <4>6 DEF Askable
      <4> QED
        <5>1. l \notin Pagers(ls)
          BY <1>8, <2>1, <3>1, PagersApart
        <5> QED
          BY <1>5, <1>6, <1>7, <1>14, <2>1, <3>2, <3>4, <4>5, <4>7, <5>1, RunOthers
    <3> QED
      BY <3>3, <3>4
  <2> QED
    BY <2>5, <2>6 DEF ConsoleInv
<1> QED
  BY <1>7, <1>13, <1>14

-------------------------------------------------------------------------------
(* The session, and all steps together.                                        *)

\* A page no longer shown is empty.
LEMMA UnmountSafe ==
  ASSUME ConsoleInv, Unmount, status' # "authenticated"
  PROVE  ConsoleInv'
<1>1. page \in DOMAIN Consoles /\ page' = page
  BY DEF ConsoleInv, ConsoleTyped, Unmount
<1>2. Loads' = Loads /\ Kinds(page') = Kinds(page)
  BY <1>1 DEF Loads
<1>3. /\ requests' = {} /\ writes' = {} /\ version' = 1
      /\ choice' = Unmade /\ shown' = [l \in DOMAIN Loads |-> Nothing]
      /\ owed' = [l \in DOMAIN Loads |-> 0]
  BY DEF Unmount
<1>4. Unmade = [k \in Kinds(page) |-> Unmade[k]]
  BY DEF Unmade
<1>5. ConsoleTyped'
  BY <1>1, <1>2, <1>3, <1>4 DEF ConsoleTyped
<1>6. ~Shown'
  BY DEF Shown
<1> QED
  BY <1>5, <1>6 DEF ConsoleInv

LEMMA FollowSafe == ASSUME ConsoleInv, Follow PROVE ConsoleInv'
<1>0. ConsoleTyped /\ version \in Nat \ {0} /\ page \in DOMAIN Consoles
  BY DEF ConsoleInv, ConsoleTyped
<1>1. CASE status' # "authenticated"
  BY <1>1, UnmountSafe DEF Follow
<1>2. CASE UNCHANGED pageVars /\ (Shown' => Shown)
  <2>1. /\ page' = page /\ user' = user /\ choice' = choice /\ shown' = shown /\ owed' = owed
        /\ version' = version /\ failed' = failed /\ writes' = writes /\ requests' = requests
    BY <1>2 DEF pageVars
  <2>2. (\A q \in requests' : RequestOK(q)') /\ (\A i \in writes' : WriteOK(i)')
    BY <1>0, <2>1, RequestStays, WriteStays DEF ConsoleTyped
  <2>3. ConsoleTyped'
    BY <1>0, <2>1, <2>2, TypedStands
  <2> QED
    BY <1>2, <2>1, <2>3, PanesStand
<1>3. CASE status' = "authenticated" /\ status # "authenticated"
  <2>1. CASE Permitted
    <3>1. /\ Mount /\ page' = page /\ user' = user /\ version' = version /\ writes' = writes /\ owed' = owed
      BY <1>3, <2>1 DEF Follow
    <3>2. Loads' = Loads
      BY <3>1 DEF Loads
    <3>3. /\ choice' = [k \in Kinds(page') |-> choice'[k]]
          /\ shown' = [l \in DOMAIN Loads' |-> shown'[l]]
          /\ \A q \in requests' : RequestOK(q)'
      BY <1>0, <3>1, MountTyped
    <3>4. \A i \in writes' : WriteOK(i)'
      BY <1>0, <3>1, WriteStays DEF ConsoleTyped
    <3>5. /\ owed' = [l \in DOMAIN Loads' |-> owed'[l]]
          /\ \A l \in DOMAIN Loads' : owed'[l] \in 0..version'
      BY <1>0, <3>1, <3>2 DEF ConsoleTyped
    <3>6. ConsoleTyped'
      BY <1>0, <3>1, <3>3, <3>4, <3>5 DEF ConsoleTyped
    <3>7. \A l \in DOMAIN Loads' : PaneInv(l)'
      BY <3>1, <3>2, MountPanes
    <3> QED
      BY <3>6, <3>7 DEF ConsoleInv
  <2>2. CASE ~Permitted
    <3>1. UNCHANGED pageVars
      BY <1>3, <2>2 DEF Follow
    <3>2. ~Shown'
      BY <2>2, <3>1 DEF Shown, Permitted, hasPermission, pageVars
    <3> QED
      BY <1>2, <3>1, <3>2
  <2> QED
    BY <2>1, <2>2
<1>4. CASE status' = "authenticated" /\ status = "authenticated"
  <2>1. CASE session' # session /\ Permitted
    <3>1. PICK chosen, signals : chosen = choice /\ signals = {"token"}
      OBVIOUS
    <3>2. /\ Shown /\ choice' = chosen
          /\ Run(Woken(signals), chosen, shown, requests)
          /\ UNCHANGED <<page, user, version, shown, writes, owed>>
      BY <1>4, <2>1, <3>1 DEF Follow, Shown
    <3>3. /\ DOMAIN chosen = DOMAIN choice /\ chosen = [j \in DOMAIN chosen |-> chosen[j]]
          /\ \A j \in DOMAIN choice : j \notin signals => chosen[j] = choice[j]
      BY <3>1, ChoiceIsFunction
    <3> QED
      BY <3>2, <3>3, SignalSafe
  <2>2. CASE ~(session' # session /\ Permitted)
    <3>1. UNCHANGED pageVars
      BY <1>4, <2>2 DEF Follow
    <3>2. Shown' => Shown
      BY <1>4, <3>1, SameUserShown DEF pageVars
    <3> QED
      BY <1>2, <3>1, <3>2
  <2> QED
    BY <2>1, <2>2
<1> QED
  BY <1>1, <1>3, <1>4

LEMMA ConsoleInit == Init => ConsoleInv
<1> SUFFICES ASSUME Init PROVE ConsoleInv
  OBVIOUS
<1>1. ConsoleTyped
  BY DEF Init, ConsoleTyped, Unmade
<1>2. ~Shown
  BY DEF Init, SessionInit, Shown
<1> QED
  BY <1>1, <1>2 DEF ConsoleInv

LEMMA ConsoleStep == ConsoleInv /\ [Next]_vars => ConsoleInv'
<1> SUFFICES ASSUME ConsoleInv, [Next]_vars PROVE ConsoleInv'
  OBVIOUS
<1>1. CASE SessionNext /\ Follow
  BY <1>1, FollowSafe
<1>2. ASSUME NEW q \in requests, ServeLoad(q) PROVE ConsoleInv'
  BY <1>2, ServeLoadSafe
<1>3. ASSUME NEW q \in requests, AnswerLoad(q) PROVE ConsoleInv'
  BY <1>3, AnswerLoadSafe
<1>4. ASSUME NEW q \in requests, RefuseLoad(q) \/ LoseLoad(q) PROVE ConsoleInv'
  <2>1. FailLoad(q) /\ status' = status
    BY <1>4 DEF RefuseLoad, LoseLoad, Event, sessionVars
  <2> QED
    BY <2>1, FailLoadSafe
<1>5. ASSUME NEW w \in DOMAIN Writes, Send(w) PROVE ConsoleInv'
  BY <1>5, SendSafe
<1>6. ASSUME NEW i \in writes, ServeWrite(i) PROVE ConsoleInv'
  BY <1>6, ServeWriteSafe
<1>7. ASSUME NEW i \in writes, AnswerWrite(i) PROVE ConsoleInv'
  BY <1>7, AnswerWriteSafe
<1>8. ASSUME NEW i \in writes, RefuseWrite(i) \/ LoseWrite(i) PROVE ConsoleInv'
  <2>1. FailWrite(i) /\ status' = status
    BY <1>8 DEF RefuseWrite, LoseWrite, Event, sessionVars
  <2> QED
    BY <2>1, FailWriteSafe
<1>9. ASSUME NEW k \in DOMAIN choice, NEW value \in Choices, Choose(k, value) PROVE ConsoleInv'
  BY <1>9, ChooseSafe
<1>10. CASE Tick
  BY <1>10, TickSafe
<1>11. CASE UNCHANGED vars
  <2>1. UNCHANGED pageVars /\ status' = status
    BY <1>11 DEF vars, sessionVars
  <2>2. UNCHANGED <<page, user, choice, shown, owed, failed, requests, status>> /\ version' = version /\ writes' = writes
    BY <2>1 DEF pageVars
  <2>3. ConsoleTyped /\ version \in Nat
    BY DEF ConsoleInv, ConsoleTyped
  <2>4. \A i \in writes' : WriteOK(i)'
    BY <2>2, <2>3, WriteStays DEF ConsoleTyped
  <2> QED
    BY <2>2, <2>3, <2>4, WritesSafe
<1>12. ASSUME NEW l \in Pagers(DOMAIN Loads), NEW value \in Choices, TurnPage(l, value) PROVE ConsoleInv'
  BY <1>12, TurnPageSafe
<1> QED
  BY <1>1, <1>2, <1>3, <1>4, <1>5, <1>6, <1>7, <1>8, <1>9, <1>10, <1>11, <1>12 DEF Next, PageNext

\* When nothing is under way, every pane the code brings up to date shows the
\* answer to the choices as they are, with every change its page was told has
\* succeeded, or its last load failed: for any number of events and any values
\* of the choices.
THEOREM PanesSafe == Spec => []SettledShowsCurrent
<1>1. ConsoleInv => SettledShowsCurrent
  BY DEF ConsoleInv, Watched, PaneInv, UpToDate, SettledShowsCurrent
<1> QED
  BY <1>1, ConsoleInit, ConsoleStep, PTL DEF Spec

-------------------------------------------------------------------------------
(* What the API refuses.                                                       *)

\* A form is sent by a user it was shown to, and refused only for a permission
\* that user's account has not for the whole organization.
WriteAllowed(i) ==
  /\ Permitted /\ Offered(i.write)
  /\ i.step = "refused" => ~CanActivate(Writes[i.write].route, Whole)

\* A portal account of a client fills no form.
AllowedInv ==
  /\ user \in UsersOf(page)
  /\ \A i \in writes : WriteAllowed(i)
  /\ user.scope # "ORGANIZATION" =>
       /\ writes = {}
       /\ \A l \in DOMAIN Loads : Closed(page, l) =>
            /\ shown[l] = Nothing
            /\ \A q \in requests : q.load = l => q.step # "served"

LEMMA AllowedKept ==
  ASSUME AllowedInv, page' = page, user' = user,
         \A i \in writes' : i \in writes \/ (WriteAllowed(i) /\ user.scope = "ORGANIZATION"),
         \A l \in DOMAIN Loads : Closed(page, l) /\ user.scope # "ORGANIZATION" =>
           /\ shown'[l] \in {shown[l], Nothing}
           /\ \A r \in requests' : r.load = l => r \in requests \/ r.step # "served"
  PROVE  AllowedInv'
<1>1. Loads' = Loads /\ Writes' = Writes /\ Offers' = Offers
  BY DEF Loads, Writes, Offers
<1>2. \A i : WriteAllowed(i) => WriteAllowed(i)'
  BY <1>1 DEF WriteAllowed, Permitted, Offered, hasPermission, Whole
<1>3. \A i \in writes' : WriteAllowed(i)'
  BY <1>2 DEF AllowedInv
<1>4. user' \in UsersOf(page')
  BY DEF AllowedInv
<1>5. ASSUME user'.scope # "ORGANIZATION"
      PROVE  /\ writes' = {}
             /\ \A l \in DOMAIN Loads' : Closed(page', l) =>
                  /\ shown'[l] = Nothing
                  /\ \A q \in requests' : q.load = l => q.step # "served"
  BY <1>1, <1>5 DEF AllowedInv
<1> QED
  BY <1>3, <1>4, <1>5 DEF AllowedInv, Nothing

\* Loads that run again have no answer yet.
LEMMA RunKeepsAllowed ==
  ASSUME AllowedInv, page' = page, user' = user, \A i \in writes' : i \in writes,
         NEW ls, NEW chosen, NEW panes, NEW under \in SUBSET requests, Run(ls, chosen, panes, under),
         user.scope # "ORGANIZATION" =>
           \A l \in DOMAIN Loads : Closed(page, l) => shown'[l] \in {shown[l], Nothing}
  PROVE  AllowedInv'
<1>1. \A r \in requests' : r \in requests \/ r.step # "served"
  BY RunFacts, SentFacts
<1> QED
  BY <1>1, AllowedKept

LEMMA MountKeepsAllowed ==
  ASSUME AllowedInv, page' = page, user' = user, \A i \in writes' : i \in writes, Mount
  PROVE  AllowedInv'
<1>1. \A r \in requests' : r.step # "served"
  BY DEF Mount
<1>2. \A l \in DOMAIN Loads : shown'[l] = Nothing
  BY DEF Mount
<1> QED
  BY <1>1, <1>2, AllowedKept

LEMMA ServeLoadAllowed ==
  ASSUME ConsoleInv, AllowedInv, NEW q \in requests, ServeLoad(q)
  PROVE  AllowedInv'
<1>1. PICK r : /\ requests' = (requests \ {q}) \cup {r}
               /\ r = IF \A c \in Made(q.load, choice) : CanActivate(c.route, Whole)
                     THEN [q EXCEPT !.step = "served", !.seen = version]
                     ELSE [q EXCEPT !.step = "refused"]
  BY DEF ServeLoad
<1>2. page' = page /\ user' = user /\ writes' = writes /\ shown' = shown
  BY DEF ServeLoad
<1>3. RequestOK(q)
  BY DEF ConsoleInv, ConsoleTyped
<1>4. PICK load, asked, step, seen : q = [load |-> load, asked |-> asked, step |-> step, seen |-> seen]
  BY <1>3 DEF RequestOK
<1>5. q.load = load /\ r.load = load
  BY <1>1, <1>4
<1>6. ASSUME Closed(page, load), user.scope # "ORGANIZATION" PROVE r.step # "served"
  <2>1. PICK c \in Loads[load].calls : c.if = {} /\ c.chosen = {} /\ Required[c.route] # {}
    BY <1>6 DEF Closed, Loads
  <2>2. c \in Made(load, choice) /\ ~CanActivate(c.route, Whole)
    BY <1>6, <2>1 DEF Made, CanActivate, Whole
  <2>3. r = [load |-> load, asked |-> asked, step |-> "refused", seen |-> seen]
    BY <1>1, <1>4, <1>5, <2>2
  <2> QED
    BY <2>3
<1> QED
  BY <1>1, <1>2, <1>5, <1>6, AllowedKept

LEMMA AnswerLoadAllowed ==
  ASSUME ConsoleInv, AllowedInv, NEW q \in requests, AnswerLoad(q)
  PROVE  AllowedInv'
<1>1. PICK ls, chosen, panes, under :
        /\ under = requests \ {q} /\ Run(ls, chosen, panes, under) /\ shown' = panes
        /\ page' = page /\ user' = user /\ writes' = writes /\ q.step = "served"
  BY DEF AnswerLoad
<1>2. under \in SUBSET requests /\ RequestOK(q) /\ page \in DOMAIN Consoles /\ DOMAIN shown = DOMAIN Loads
  BY <1>1 DEF ConsoleInv, ConsoleTyped
<1>3. ASSUME user.scope # "ORGANIZATION", NEW l \in DOMAIN Loads, Closed(page, l)
      PROVE  shown'[l] \in {shown[l], Nothing}
  <2>1. q.load \in DOMAIN Loads /\ ~Closed(page, q.load)
    BY <1>1, <1>2, <1>3 DEF AllowedInv, RequestOK
  <2>2. l \notin Loads[q.load].pagers
    <3>1. l \in Loads[q.load].pagers => Loads[l].calls \subseteq Loads[q.load].calls
      BY <1>2, <2>1, ChangesReload DEF Loads
    <3> QED
      BY <1>3, <2>1, <3>1 DEF Closed, Loads
  <2>3. l # q.load
    BY <1>3, <2>1
  <2>4. shown'[l] = shown[l]
    BY <1>2, <2>2, <2>3 DEF AnswerLoad
  <2> QED
    BY <2>4
<1> QED
  BY <1>1, <1>2, <1>3, RunKeepsAllowed

LEMMA SendAllowed ==
  ASSUME ConsoleInv, AllowedInv, NEW w \in DOMAIN Writes, Send(w)
  PROVE  AllowedInv'
<1>1. /\ page' = page /\ user' = user /\ shown' = shown /\ requests' = requests
      /\ writes' = writes \cup {[write |-> w, step |-> "sent", seen |-> 0]}
      /\ Permitted /\ Offered(w) /\ \A l \in Writes[w].needs : shown[l] # Nothing
  BY DEF Send, Shown
<1>2. WriteAllowed([write |-> w, step |-> "sent", seen |-> 0])
  BY <1>1 DEF WriteAllowed
<1>3. user.scope = "ORGANIZATION"
  <2> SUFFICES ASSUME user.scope # "ORGANIZATION" PROVE FALSE
    OBVIOUS
  <2>1. page \in DOMAIN Consoles /\ w \in DOMAIN Consoles[page].writes /\ user \in UsersOf(page)
    BY DEF ConsoleInv, ConsoleTyped, AllowedInv, Writes
  <2>2. (Consoles[page].offers[w] \cup {Consoles[page].under}) \cap user.lacks = {}
    BY <1>1 DEF Permitted, Offered, Offers, hasPermission
  <2>3. PICK l \in Writes[w].needs : l \in DOMAIN Loads /\ Closed(page, l)
    BY <2>1, <2>2, FormsAskEnough DEF Writes, Loads
  <2> QED
    BY <1>1, <2>3 DEF AllowedInv
<1> QED
  BY <1>1, <1>2, <1>3, AllowedKept

LEMMA ServeWriteAllowed ==
  ASSUME ConsoleInv, AllowedInv, NEW i \in writes, ServeWrite(i)
  PROVE  AllowedInv'
<1>1. page' = page /\ user' = user /\ shown' = shown /\ requests' = requests
  BY DEF ServeWrite
<1>2. PICK j, seen : /\ writes' = (writes \ {i}) \cup {j}
                     /\ \/ j = [i EXCEPT !.step = "served", !.seen = seen]
                        \/ /\ ~CanActivate(Writes[i.write].route, Whole)
                           /\ j = [i EXCEPT !.step = "refused"]
  BY DEF ServeWrite
<1>3. WriteOK(i) /\ WriteAllowed(i) /\ user.scope = "ORGANIZATION"
  BY DEF ConsoleInv, ConsoleTyped, AllowedInv
<1>4. PICK write, step, old : i = [write |-> write, step |-> step, seen |-> old]
  BY <1>3 DEF WriteOK
<1>5. i.write = write
  BY <1>4
<1>6. \/ j = [write |-> write, step |-> "served", seen |-> seen]
      \/ /\ ~CanActivate(Writes[write].route, Whole)
         /\ j = [write |-> write, step |-> "refused", seen |-> old]
  BY <1>2, <1>4
<1>7. WriteAllowed(j)
  BY <1>3, <1>5, <1>6 DEF WriteAllowed
<1>8. \A k \in writes' : k \in writes \/ (WriteAllowed(k) /\ user.scope = "ORGANIZATION")
  BY <1>2, <1>3, <1>7
<1> QED
  BY <1>1, <1>8, AllowedKept

LEMMA AnswerWriteAllowed ==
  ASSUME ConsoleInv, AllowedInv, NEW i \in writes, AnswerWrite(i)
  PROVE  AllowedInv'
<1>1. /\ page' = page /\ user' = user /\ writes' = writes \ {i}
  BY DEF AnswerWrite
<1>2. user.scope = "ORGANIZATION"
  BY DEF AllowedInv
<1> QED
  BY <1>1, <1>2, AllowedKept

LEMMA FollowAllowed ==
  ASSUME AllowedInv, Follow
  PROVE  AllowedInv'
<1>1. CASE Unmount
  BY <1>1, AllowedKept DEF Unmount
<1>2. CASE Mount /\ UNCHANGED <<page, user, writes>>
  BY <1>2, MountKeepsAllowed
<1>3. CASE Run(Woken({"token"}), choice, shown, requests) /\ UNCHANGED <<page, user, writes, shown>>
  <2>1. PICK ls, chosen, panes, under :
          Run(ls, chosen, panes, under) /\ under = requests
    BY <1>3
  <2> QED
    BY <1>3, <2>1, RunKeepsAllowed
<1>4. CASE UNCHANGED pageVars
  BY <1>4, AllowedKept DEF pageVars
<1> QED
  BY <1>1, <1>2, <1>3, <1>4 DEF Follow

LEMMA AllowedStep == ConsoleInv /\ AllowedInv /\ [Next]_vars => AllowedInv'
<1> SUFFICES ASSUME ConsoleInv, AllowedInv, [Next]_vars PROVE AllowedInv'
  OBVIOUS
<1>1. CASE SessionNext /\ Follow
  BY <1>1, FollowAllowed
<1>2. ASSUME NEW q \in requests, ServeLoad(q) PROVE AllowedInv'
  BY <1>2, ServeLoadAllowed
<1>3. ASSUME NEW q \in requests, AnswerLoad(q) PROVE AllowedInv'
  BY <1>3, AnswerLoadAllowed
<1>4. ASSUME NEW q \in requests, RefuseLoad(q) \/ LoseLoad(q) PROVE AllowedInv'
  BY <1>4, AllowedKept DEF RefuseLoad, LoseLoad, FailLoad
<1>5. ASSUME NEW w \in DOMAIN Writes, Send(w) PROVE AllowedInv'
  BY <1>5, SendAllowed
<1>6. ASSUME NEW i \in writes, ServeWrite(i) PROVE AllowedInv'
  BY <1>6, ServeWriteAllowed
<1>7. ASSUME NEW i \in writes, AnswerWrite(i) PROVE AllowedInv'
  BY <1>7, AnswerWriteAllowed
<1>8. ASSUME NEW i \in writes, RefuseWrite(i) \/ LoseWrite(i) PROVE AllowedInv'
  BY <1>8, AllowedKept DEF RefuseWrite, LoseWrite, FailWrite
<1>9. ASSUME NEW k \in DOMAIN choice, NEW value \in Choices, Choose(k, value) PROVE AllowedInv'
  <2>1. PICK ls, chosen, panes, under :
          Run(ls, chosen, panes, under) /\ under = requests /\ UNCHANGED <<page, user, writes, shown>>
    BY <1>9 DEF Choose
  <2> QED
    BY <2>1, RunKeepsAllowed
<1>10. CASE Tick
  <2>1. PICK ls, chosen, panes, under :
          Run(ls, chosen, panes, under) /\ under = requests /\ UNCHANGED <<page, user, writes, shown>>
    BY <1>10 DEF Tick
  <2> QED
    BY <2>1, RunKeepsAllowed
<1>11. CASE UNCHANGED vars
  BY <1>11, AllowedKept DEF vars, pageVars
<1>12. ASSUME NEW l, NEW value, TurnPage(l, value) PROVE AllowedInv'
  BY <1>12, AllowedKept DEF TurnPage
<1> QED
  BY <1>1, <1>2, <1>3, <1>4, <1>5, <1>6, <1>7, <1>8, <1>9, <1>10, <1>11, <1>12 DEF Next, PageNext

\* Forms that ask for what their routes require are refused to nobody they are
\* shown to: the permissions are those of the whole organization, for who has
\* them otherwise sees no form that can be filled.
THEOREM FormsSafe == Spec => []OfferedIsAllowed
<1>1. Init => AllowedInv
  BY DEF Init, AllowedInv
<1>2. ConsoleInv /\ AllowedInv => OfferedIsAllowed
  <2> SUFFICES ASSUME ConsoleInv, AllowedInv, NEW i \in writes, i.step = "refused",
                      ~LooselyOffered(page, i.write)
               PROVE  FALSE
    BY DEF OfferedIsAllowed
  <2>1. page \in DOMAIN Consoles /\ i.write \in DOMAIN Consoles[page].writes
    BY DEF ConsoleInv, ConsoleTyped, WriteOK, Writes
  <2>2. /\ WriteAllowed(i) /\ user.scope = "ORGANIZATION"
    BY DEF AllowedInv
  <2>3. Required[Writes[i.write].route] \subseteq Consoles[page].offers[i.write] \cup {Consoles[page].under}
    BY <2>1, FormsAskEnough DEF Writes
  <2>4. Required[Writes[i.write].route] \cap user.lacks = {}
    BY <2>2, <2>3 DEF WriteAllowed, Permitted, Offered, Offers, hasPermission
  <2>5. Required[Writes[i.write].route] \subseteq Relevant[page]
    <3>1. Relevant[page] = Met(page) \cup AskedByApi(page)
      BY <2>1 DEF Relevant
    <3>2. ASSUME NEW permission \in Required[Writes[i.write].route], permission \notin Met(page)
          PROVE  permission \in AskedByApi(page)
      <4>1. permission \in UNION {Required[Consoles[page].writes[w].route] : w \in DOMAIN Consoles[page].writes}
        BY <2>1 DEF Writes
      <4> QED
        BY <3>2, <4>1 DEF AskedByApi
    <3> QED
      BY <3>1, <3>2
  <2> QED
    BY <2>2, <2>4, <2>5 DEF WriteAllowed, CanActivate, Whole
<1> QED
  BY ConsoleInit, ConsoleStep, AllowedStep, <1>1, <1>2, PTL DEF Spec

-------------------------------------------------------------------------------
(* The records that follow up exceptions and tickets: requests and their locks. *)

\* What a request remembers holds locks that were free.
Remembers(r, i) ==
  /\ Remember(r, i)
  /\ \A lock \in i.locks : Available(lock, r)

InflightInv ==
  /\ inflight = [r \in Requests |-> inflight[r]]
  /\ LocksExclusive

LEMMA InflightWritten ==
  ASSUME InflightInv, NEW r \in Requests, NEW i, Remember(r, i)
  PROVE  /\ inflight' = [q \in Requests |-> inflight'[q]]
         /\ inflight'[r] = i
         /\ \A q \in Requests : q # r => inflight'[q] = inflight[q]
BY DEF InflightInv, Remember

LEMMA InflightKept ==
  ASSUME InflightInv, NEW r \in Requests, NEW i, Remembers(r, i)
  PROVE  InflightInv'
<1>1. /\ inflight' = [q \in Requests |-> inflight'[q]]
      /\ inflight'[r] = i
      /\ \A q \in Requests : q # r => inflight'[q] = inflight[q]
  BY InflightWritten DEF Remembers
<1>2. ASSUME NEW q \in Requests, q # r PROVE i.locks \cap inflight[q].locks = {}
  BY <1>2 DEF Remembers, Available
<1>3. ASSUME NEW p \in Requests, NEW q \in Requests, p # q
      PROVE  inflight'[p].locks \cap inflight'[q].locks = {}
  <2>1. CASE p = r
    BY <1>1, <1>2, <1>3, <2>1
  <2>2. CASE q = r
    BY <1>1, <1>2, <1>3, <2>2
  <2>3. CASE p # r /\ q # r
    BY <1>1, <1>3, <2>3 DEF InflightInv, LocksExclusive
  <2> QED BY <2>1, <2>2, <2>3
<1> QED
  BY <1>1, <1>3 DEF InflightInv, LocksExclusive

LEMMA EndRemembers ==
  ASSUME NEW r, End(r)
  PROVE  Remembers(r, Answered) /\ Answered.op = "answered"
BY DEF End, Remembers, Answered

-------------------------------------------------------------------------------
(* Tickets.                                                                    *)

\* An assignment under way ends every open row there was when it looked, and has
\* its place after them.
AssignmentSound(i) ==
  /\ i.op = "ticket" => i.driver \in Drivers /\ i.client \in Clients /\ i.mission \in DOMAIN Images
  /\ i.op \in {"assign", "ending", "ended", "assigning"} =>
       /\ i.ticket \in Tickets /\ i.to \in Users
       /\ tickets[i.ticket] # NoTicket
  /\ i.op \in {"ending", "ended", "assigning"} =>
       /\ i.seen \in Nat /\ i.seen <= Len(assignments[i.ticket])
       /\ \A n \in 1..i.seen : assignments[i.ticket][n].open => n \in i.rows
  /\ i.op = "assigning" =>
       /\ i.at \in Nat /\ i.at <= created[i.ticket]
       /\ \A n \in 1..i.seen : assignments[i.ticket][n].at < i.at

\* The last row is open; what is open besides, or has a later place, was not there
\* for the later one.
Succession(rows) ==
  /\ rows # <<>> => rows[Len(rows)].open
  /\ \A m, n \in DOMAIN rows :
       m < n /\ (rows[m].open \/ rows[m].at > rows[n].at) => rows[n].seen < m

OnRecord(t) ==
  /\ tickets[t] = NoTicket => assignments[t] = <<>>
  /\ assignments[t] # <<>> => tickets[t].assignee = assignments[t][Len(assignments[t])].to
  /\ Succession(assignments[t])
  /\ \A n \in DOMAIN assignments[t] : assignments[t][n].at <= created[t]

SupportInv ==
  /\ active \subseteq Users
  /\ tickets \in [Tickets -> TicketRow \cup {NoTicket}]
  /\ assignments \in [Tickets -> Seq(AssignmentRow)]
  /\ created \in [Tickets -> Nat]
  /\ \A t \in Tickets : OnRecord(t)
  /\ \A r \in Requests : AssignmentSound(inflight[r])

LEMMA RowsAreTickets ==
  ASSUME NEW row \in TicketRow
  PROVE  /\ row # NoTicket /\ DOMAIN row = {"driver", "client", "mission", "status", "assignee"}
         /\ row.driver \in Drivers /\ row.mission \in DOMAIN Images
BY UsersAssumption DEF TicketRow, NoTicket

\* A request about something else, or one that ends.
LEMMA SupportUntouched ==
  ASSUME InflightInv, SupportInv, NEW r \in Requests, NEW i, Remember(r, i), AssignmentSound(i),
         UNCHANGED <<tickets, assignments, created>>, active' \subseteq Users
  PROVE  SupportInv'
<1>1. \A q \in Requests : AssignmentSound(inflight[q])'
  BY InflightWritten DEF SupportInv, AssignmentSound
<1> QED
  BY <1>1 DEF SupportInv, OnRecord

LEMMA SupportStartKeeps ==
  ASSUME InflightInv, SupportInv, NEW r \in Requests, SupportStart(r)
  PROVE  InflightInv' /\ SupportInv'
<1>1. CASE OpenTicket(r)
  <2> PICK t, u, client, m, attachment, i :
         /\ u \in Drivers /\ client \in Clients /\ m \in DriverMissions[u]
         /\ i = [op |-> "ticket", locks |-> {}, ticket |-> t, driver |-> u, client |-> client,
                 mission |-> m, attachment |-> attachment]
         /\ Remember(r, i)
         /\ UNCHANGED supportVars
    BY <1>1 DEF OpenTicket, Begin
  <2>1. /\ i.op = "ticket" /\ i.locks = {} /\ i.driver \in Drivers /\ i.client \in Clients
        /\ i.mission \in DOMAIN Images
    BY MissionsAssumption
  <2>2. Remembers(r, i) /\ AssignmentSound(i)
    BY <2>1 DEF Remembers, AssignmentSound
  <2> QED BY <2>2, InflightKept, SupportUntouched DEF supportVars, SupportInv
<1>2. CASE Message(r)
  <2>1. End(r) /\ UNCHANGED <<active, tickets, assignments, created>>
    BY <1>2 DEF Message
  <2>2. Remembers(r, Answered) /\ AssignmentSound(Answered)
    BY <2>1, EndRemembers DEF AssignmentSound
  <2> QED BY <2>1, <2>2, InflightKept, SupportUntouched DEF Remembers, SupportInv
<1>3. CASE FindTicket(r)
  <2> PICK t, to, i :
         /\ t \in Tickets /\ to \in active /\ tickets[t] # NoTicket
         /\ i = [op |-> "assign", locks |-> {}, ticket |-> t, to |-> to]
         /\ Remember(r, i)
         /\ UNCHANGED supportVars
    BY <1>3 DEF FindTicket, Begin
  <2>1. Remembers(r, i) /\ AssignmentSound(i)
    BY DEF Remembers, AssignmentSound, SupportInv
  <2> QED BY <2>1, InflightKept, SupportUntouched DEF supportVars, SupportInv
<1> QED
  BY <1>1, <1>2, <1>3 DEF SupportStart

LEMMA CommitTicketKeeps ==
  ASSUME InflightInv, SupportInv, NEW r \in Requests, CommitTicket(r)
  PROVE  InflightInv' /\ SupportInv'
<1> PICK i : i = inflight[r]
  OBVIOUS
<1> PICK row : row = [driver |-> i.driver, client |-> i.client, mission |-> i.mission,
                      status |-> "OPEN", assignee |-> Nobody]
  OBVIOUS
<1>1. /\ i.op = "ticket" /\ tickets[i.ticket] = NoTicket
      /\ tickets' = [tickets EXCEPT ![i.ticket] = row]
      /\ End(r) /\ UNCHANGED <<active, assignments, created>>
  BY DEF CommitTicket
<1>2. row \in TicketRow
  <2>1. i.driver \in Drivers /\ i.client \in Clients /\ i.mission \in DOMAIN Images
    BY <1>1 DEF SupportInv, AssignmentSound
  <2> QED BY <2>1 DEF TicketRow
<1>3. /\ tickets' \in [Tickets -> TicketRow \cup {NoTicket}]
      /\ \A t \in Tickets : tickets[t] # NoTicket => tickets'[t] = tickets[t]
  BY <1>1, <1>2 DEF SupportInv
<1>4. ASSUME NEW t \in Tickets PROVE OnRecord(t)'
  <2>1. CASE t = i.ticket
    <3>1. assignments'[t] = <<>>
      BY <1>1, <2>1 DEF SupportInv, OnRecord
    <3> QED BY <3>1 DEF OnRecord, Succession
  <2>2. CASE t # i.ticket
    <3>1. tickets'[t] = tickets[t] /\ assignments'[t] = assignments[t]
      BY <1>1, <2>2 DEF SupportInv
    <3>2. OnRecord(t) /\ created' = created
      BY <1>1 DEF SupportInv
    <3> QED BY <3>1, <3>2 DEF OnRecord
  <2> QED BY <2>1, <2>2
<1>5. ASSUME NEW q \in Requests PROVE AssignmentSound(inflight[q])'
  <2>1. CASE q = r
    <3>1. inflight'[q] = Answered /\ Answered.op = "answered"
      BY <1>1, <2>1, InflightWritten DEF End, Answered
    <3> QED BY <3>1 DEF AssignmentSound
  <2>2. CASE q # r
    <3>1. inflight'[q] = inflight[q] /\ AssignmentSound(inflight[q])
      BY <1>1, <2>2, InflightWritten DEF End, SupportInv
    <3> QED BY <1>1, <1>3, <3>1, RowsAreTickets DEF AssignmentSound
  <2> QED BY <2>1, <2>2
<1>6. InflightInv'
  BY <1>1, EndRemembers, InflightKept
<1> QED
  BY <1>1, <1>3, <1>4, <1>5, <1>6 DEF SupportInv

LEMMA AssignmentGoesOnKeeps ==
  ASSUME InflightInv, SupportInv, NEW r \in Requests,
         ListOpenAssignments(r) \/ EndAssignments(r) \/ CreateAssignment(r)
  PROVE  InflightInv' /\ SupportInv'
<1> PICK i : i = inflight[r]
  OBVIOUS
<1>0. AssignmentSound(i)
  BY DEF SupportInv
<1>1. CASE ListOpenAssignments(r)
  <2> PICK j : j = [op |-> "ending", locks |-> {}, ticket |-> i.ticket, to |-> i.to,
                    rows |-> OpenAssignments(i.ticket, i.to),
                    seen |-> Len(assignments[i.ticket])]
    OBVIOUS
  <2>1. i.op = "assign" /\ Remember(r, j) /\ UNCHANGED supportVars
    BY <1>1 DEF ListOpenAssignments
  <2>2. /\ i.ticket \in Tickets /\ i.to \in Users /\ tickets[i.ticket] # NoTicket
        /\ assignments[i.ticket] \in Seq(AssignmentRow)
    BY <1>0, <2>1 DEF AssignmentSound, SupportInv
  <2>3. AssignmentSound(j)
    BY <2>2 DEF AssignmentSound, OpenAssignments
  <2>4. Remembers(r, j)
    BY <2>1 DEF Remembers
  <2> QED BY <2>1, <2>3, <2>4, InflightKept, SupportUntouched DEF supportVars, SupportInv
<1>2. CASE EndAssignments(r)
  <2> PICK locks : locks = {AssignmentLock(i.ticket, n) :
                              n \in {k \in i.rows : assignments[i.ticket][k].open}}
    OBVIOUS
  <2> PICK j : j = [op |-> "ended", locks |-> locks, ticket |-> i.ticket, to |-> i.to,
                    rows |-> i.rows, seen |-> i.seen]
    OBVIOUS
  <2>1. /\ i.op = "ending" /\ Remember(r, j) /\ UNCHANGED supportVars
        /\ \A lock \in locks : Available(lock, r)
    BY <1>2 DEF EndAssignments
  <2>2. AssignmentSound(j)
    BY <1>0, <2>1 DEF AssignmentSound
  <2>3. Remembers(r, j)
    BY <2>1 DEF Remembers
  <2> QED BY <2>1, <2>2, <2>3, InflightKept, SupportUntouched DEF supportVars, SupportInv
<1>3. CASE CreateAssignment(r)
  <2> PICK at : at = created[i.ticket] + 1
    OBVIOUS
  <2> PICK j : j = [op |-> "assigning", locks |-> i.locks, ticket |-> i.ticket, to |-> i.to,
                    rows |-> i.rows, at |-> at, seen |-> i.seen]
    OBVIOUS
  <2>1. /\ i.op = "ended" /\ Remember(r, j) /\ created' = [created EXCEPT ![i.ticket] = at]
        /\ UNCHANGED <<active, tickets, assignments>>
    BY <1>3 DEF CreateAssignment
  <2>2. /\ i.ticket \in Tickets /\ i.to \in Users /\ tickets[i.ticket] # NoTicket
        /\ i.seen \in Nat /\ i.seen <= Len(assignments[i.ticket])
        /\ \A n \in 1..i.seen : assignments[i.ticket][n].open => n \in i.rows
    BY <1>0, <2>1 DEF AssignmentSound
  <2>3. /\ at \in Nat /\ created' \in [Tickets -> Nat] /\ created'[i.ticket] = at
        /\ \A t \in Tickets : created[t] \in Nat /\ created[t] <= created'[t]
    BY <2>1, <2>2 DEF SupportInv
  <2>4. /\ assignments[i.ticket] \in Seq(AssignmentRow)
        /\ \A n \in DOMAIN assignments[i.ticket] :
             /\ assignments[i.ticket][n].at \in Nat
             /\ assignments[i.ticket][n].at < at
    <3>1. /\ assignments[i.ticket] \in Seq(AssignmentRow)
          /\ \A n \in DOMAIN assignments[i.ticket] :
               assignments[i.ticket][n].at <= created[i.ticket]
      BY <2>2 DEF SupportInv, OnRecord
    <3>2. \A n \in DOMAIN assignments[i.ticket] : assignments[i.ticket][n] \in AssignmentRow
      BY <3>1
    <3> QED BY <2>2, <2>3, <3>1, <3>2 DEF AssignmentRow, SupportInv
  <2>5. AssignmentSound(j)'
    BY <2>1, <2>2, <2>3, <2>4 DEF AssignmentSound
  <2>6. ASSUME NEW q \in Requests PROVE AssignmentSound(inflight[q])'
    <3>1. CASE q = r
      <4>1. inflight'[q] = j
        BY <2>1, <3>1, InflightWritten
      <4> QED BY <2>5, <4>1 DEF AssignmentSound
    <3>2. CASE q # r
      <4> PICK k : k = inflight[q]
        OBVIOUS
      <4>1. inflight'[q] = k /\ AssignmentSound(k)
        BY <2>1, <3>2, InflightWritten DEF SupportInv
      <4>2. ASSUME k.op = "assigning" PROVE k.at <= created'[k.ticket]
        <5>1. k.at \in Nat /\ k.at <= created[k.ticket] /\ k.ticket \in Tickets
          BY <4>1, <4>2 DEF AssignmentSound
        <5>2. created[k.ticket] \in Nat /\ created'[k.ticket] \in Nat
              /\ created[k.ticket] <= created'[k.ticket]
          BY <2>3, <5>1
        <5> QED BY <5>1, <5>2
      <4> QED BY <2>1, <4>1, <4>2 DEF AssignmentSound
    <3> QED BY <3>1, <3>2
  <2>7. ASSUME NEW t \in Tickets PROVE OnRecord(t)'
    <3>1. /\ assignments[t] \in Seq(AssignmentRow) /\ OnRecord(t)
          /\ created[t] \in Nat /\ created'[t] \in Nat /\ created[t] <= created'[t]
      BY <2>3 DEF SupportInv
    <3>2. ASSUME NEW n \in DOMAIN assignments[t] PROVE assignments[t][n].at <= created'[t]
      <4> PICK row : row = assignments[t][n]
        OBVIOUS
      <4>1. row \in AssignmentRow /\ row.at <= created[t]
        BY <3>1, <3>2 DEF OnRecord
      <4>2. row.at \in Nat
        BY <4>1 DEF AssignmentRow
      <4> QED BY <3>1, <4>1, <4>2
    <3> QED BY <2>1, <3>1, <3>2 DEF OnRecord
  <2>8. Remembers(r, j)
    <3>1. \A q \in Requests \ {r} : i.locks \cap inflight[q].locks = {}
      BY DEF InflightInv, LocksExclusive
    <3> QED BY <2>1, <3>1 DEF Remembers, Available
  <2> QED BY <2>1, <2>3, <2>6, <2>7, <2>8, InflightKept DEF SupportInv
<1> QED
  BY <1>1, <1>2, <1>3

LEMMA EndedFacts ==
  ASSUME NEW rows \in Seq(AssignmentRow), NEW set
  PROVE  /\ Ended(rows, set) \in Seq(AssignmentRow) /\ Len(Ended(rows, set)) = Len(rows)
         /\ \A n \in DOMAIN rows :
              /\ Ended(rows, set)[n].to = rows[n].to /\ Ended(rows, set)[n].seen = rows[n].seen
              /\ Ended(rows, set)[n].at = rows[n].at
              /\ Ended(rows, set)[n].open <=> rows[n].open /\ n \notin set
<1> PICK ended : ended = Ended(rows, set)
  OBVIOUS
<1>1. ASSUME NEW n \in DOMAIN rows
      PROVE  /\ ended[n] \in AssignmentRow
             /\ ended[n].to = rows[n].to /\ ended[n].seen = rows[n].seen
             /\ ended[n].at = rows[n].at
             /\ ended[n].open <=> rows[n].open /\ n \notin set
  <2> PICK row : row = rows[n]
    OBVIOUS
  <2>0. row \in AssignmentRow
    BY <1>1
  <2>1. /\ row = [to |-> row.to, open |-> row.open, at |-> row.at, seen |-> row.seen]
        /\ row.to \in Users /\ row.open \in BOOLEAN /\ row.at \in Nat /\ row.seen \in Nat
    BY <2>0 DEF AssignmentRow
  <2>2. ended[n] = [row EXCEPT !.open = @ /\ n \notin set]
    BY <1>1 DEF Ended
  <2>3. CASE n \in set
    <3>1. ended[n] = [row EXCEPT !.open = FALSE]
      BY <2>1, <2>2, <2>3
    <3>2. ended[n] = [to |-> row.to, open |-> FALSE, at |-> row.at, seen |-> row.seen]
      BY <2>1, <3>1
    <3> QED BY <2>1, <2>3, <3>2 DEF AssignmentRow
  <2>4. CASE n \notin set
    <3>1. ended[n] = [row EXCEPT !.open = row.open]
      BY <2>1, <2>2, <2>4
    <3>2. ended[n] = row
      BY <2>1, <3>1
    <3> QED BY <2>1, <2>4, <3>2, <1>1
  <2> QED BY <2>3, <2>4
<1>2. Len(rows) \in Nat /\ DOMAIN rows = 1..Len(rows) /\ DOMAIN ended = 1..Len(rows)
  BY DEF Ended
<1>3. ended = [n \in 1..Len(rows) |-> ended[n]]
  BY <1>2 DEF Ended
<1> QED
  BY <1>1, <1>2, <1>3

LEMMA RowAppended ==
  ASSUME NEW ended \in Seq(AssignmentRow), NEW last \in AssignmentRow
  PROVE  \E longer :
           /\ longer = Append(ended, last)
           /\ longer \in Seq(AssignmentRow) /\ Len(longer) = Len(ended) + 1
           /\ \A n \in 1..Len(ended) : longer[n] = ended[n]
           /\ longer[Len(ended) + 1] = last
<1> PICK longer : longer = Append(ended, last)
  OBVIOUS
<1>1. /\ longer \in Seq(AssignmentRow) /\ Len(longer) = Len(ended) + 1
      /\ \A n \in 1..Len(ended) : longer[n] = ended[n]
      /\ longer[Len(ended) + 1] = last
  OBVIOUS
<1> QED BY <1>1

LEMMA RowTyped ==
  ASSUME NEW row \in AssignmentRow
  PROVE  row.open \in BOOLEAN /\ row.at \in Nat /\ row.seen \in Nat
BY DEF AssignmentRow

LEMMA CommitAssignmentKeeps ==
  ASSUME InflightInv, SupportInv, NEW r \in Requests, CommitAssignment(r)
  PROVE  InflightInv' /\ SupportInv'
<1> PICK i : i = inflight[r]
  OBVIOUS
<1> PICK rows : rows = assignments[i.ticket]
  OBVIOUS
<1> PICK ended : ended = Ended(rows, i.rows)
  OBVIOUS
<1> PICK last : last = [to |-> i.to, open |-> TRUE, at |-> i.at, seen |-> i.seen]
  OBVIOUS
<1>1. /\ i.op = "assigning"
      /\ assignments' = [assignments EXCEPT ![i.ticket] = Append(ended, last)]
      /\ tickets' = [tickets EXCEPT ![i.ticket].assignee = i.to, ![i.ticket].status = "IN_PROGRESS"]
      /\ End(r) /\ active' = active /\ created' = created
  BY DEF CommitAssignment
<1>2. /\ i.ticket \in Tickets /\ i.to \in Users /\ tickets[i.ticket] # NoTicket
      /\ i.seen \in Nat /\ i.seen <= Len(rows)
      /\ \A n \in 1..i.seen : rows[n].open => n \in i.rows
      /\ i.at \in Nat /\ i.at <= created[i.ticket]
      /\ \A n \in 1..i.seen : rows[n].at < i.at
  BY <1>1 DEF SupportInv, AssignmentSound
<1>3. rows \in Seq(AssignmentRow) /\ last \in AssignmentRow /\ Succession(rows)
  BY <1>2 DEF SupportInv, OnRecord, AssignmentRow
<1>4. /\ ended \in Seq(AssignmentRow) /\ Len(ended) = Len(rows)
      /\ \A n \in DOMAIN rows :
           /\ ended[n].to = rows[n].to /\ ended[n].seen = rows[n].seen
           /\ ended[n].at = rows[n].at
           /\ ended[n].open <=> rows[n].open /\ n \notin i.rows
  BY <1>3, EndedFacts
<1>0. /\ Len(rows) \in Nat /\ DOMAIN rows = 1..Len(rows)
      /\ \A n \in DOMAIN rows : rows[n] \in AssignmentRow
  BY <1>3
<1>5. PICK longer :
        /\ longer = Append(ended, last)
        /\ longer \in Seq(AssignmentRow) /\ Len(longer) = Len(ended) + 1
        /\ \A n \in 1..Len(ended) : longer[n] = ended[n]
        /\ longer[Len(ended) + 1] = last
  BY <1>3, <1>4, RowAppended, Zenon
<1>6. /\ Len(longer) = Len(rows) + 1 /\ DOMAIN longer = 1..(Len(rows) + 1)
      /\ \A n \in DOMAIN rows : longer[n] = ended[n]
      /\ longer[Len(rows) + 1] = last
  <2>1. Len(ended) = Len(rows)
    BY <1>4
  <2>2. DOMAIN longer = 1..Len(longer)
    <3>1. longer \in Seq(AssignmentRow)
      BY <1>5
    <3> QED BY <3>1
  <2>3. /\ Len(longer) = Len(ended) + 1
        /\ \A n \in 1..Len(ended) : longer[n] = ended[n]
        /\ longer[Len(ended) + 1] = last
    BY <1>5
  <2>4. Len(longer) = Len(rows) + 1
    BY <2>1, <2>3
  <2>5. DOMAIN longer = 1..(Len(rows) + 1)
    BY <2>2, <2>4
  <2>6. \A n \in DOMAIN rows : longer[n] = ended[n]
    BY <1>0, <2>1, <2>3
  <2>7. longer[Len(rows) + 1] = last
    BY <2>1, <2>3
  <2> QED BY <2>4, <2>5, <2>6, <2>7
<1>7. Succession(longer)
  <2>1. ASSUME NEW m \in DOMAIN longer, NEW n \in DOMAIN longer, m < n,
               longer[m].open \/ longer[m].at > longer[n].at
        PROVE  longer[n].seen < m
    <3>1. m \in DOMAIN rows /\ m \in Nat
      BY <1>0, <1>6, <2>1
    <3>2. longer[m] = ended[m] /\ ended[m].at = rows[m].at /\ (ended[m].open => rows[m].open /\ m \notin i.rows)
      BY <1>4, <1>6, <3>1
    <3>3. (rows[m].open /\ m \notin i.rows) \/ rows[m].at > longer[n].at
      BY <2>1, <3>2
    <3>4. CASE n \in DOMAIN rows
      <4>0. longer[n] = ended[n]
        BY <1>6, <3>4
      <4>1. longer[n].seen = rows[n].seen /\ longer[n].at = rows[n].at
        BY <1>4, <3>4, <4>0
      <4> QED BY <1>3, <2>1, <3>1, <3>3, <3>4, <4>1 DEF Succession
    <3>5. CASE n = Len(rows) + 1
      <4>1. longer[n].seen = i.seen /\ longer[n].at = i.at
        BY <1>6, <3>5
      <4>2. rows[m].at \in Nat
        BY <1>0, <3>1, RowTyped
      <4>3. ~(m \in 1..i.seen)
        <5>1. m \in 1..i.seen => rows[m].at < i.at /\ (rows[m].open => m \in i.rows)
          BY <1>2
        <5>2. m \in 1..i.seen => rows[m].at > i.at
          BY <3>3, <4>1, <5>1
        <5> QED BY <1>2, <4>2, <5>1, <5>2
      <4> QED BY <1>2, <3>1, <4>1, <4>3, <1>0
    <3> QED BY <1>0, <1>6, <2>1, <3>4, <3>5
  <2>2. longer # <<>> /\ longer[Len(longer)].open
    BY <1>0, <1>6
  <2> QED BY <2>1, <2>2 DEF Succession
<1>8. PICK ticket : ticket = tickets'[i.ticket]
  OBVIOUS
<1>9. ticket \in TicketRow /\ ticket.assignee = i.to
  <2> PICK row : row = tickets[i.ticket]
    OBVIOUS
  <2>1. /\ ticket = [row EXCEPT !.assignee = i.to, !.status = "IN_PROGRESS"]
        /\ row \in TicketRow /\ i.to \in Users
    BY <1>1, <1>2, <1>8 DEF SupportInv
  <2> QED BY <2>1 DEF TicketRow
<1>10. /\ tickets' \in [Tickets -> TicketRow \cup {NoTicket}]
       /\ assignments' \in [Tickets -> Seq(AssignmentRow)]
       /\ assignments'[i.ticket] = longer
       /\ \A t \in Tickets : t # i.ticket => tickets'[t] = tickets[t] /\ assignments'[t] = assignments[t]
  <2>1. /\ assignments' = [assignments EXCEPT ![i.ticket] = longer]
        /\ longer \in Seq(AssignmentRow)
    BY <1>1, <1>5
  <2>2. assignments \in [Tickets -> Seq(AssignmentRow)] /\ i.ticket \in Tickets
    BY <1>2 DEF SupportInv
  <2>3. /\ assignments' \in [Tickets -> Seq(AssignmentRow)]
        /\ assignments'[i.ticket] = longer
        /\ \A t \in Tickets : t # i.ticket => assignments'[t] = assignments[t]
    BY <2>1, <2>2
  <2>4. /\ tickets' \in [Tickets -> TicketRow \cup {NoTicket}]
        /\ \A t \in Tickets : t # i.ticket => tickets'[t] = tickets[t]
    BY <1>1, <1>2, <1>8, <1>9 DEF SupportInv
  <2> QED BY <2>3, <2>4
<1>11. ASSUME NEW t \in Tickets PROVE OnRecord(t)'
  <2>1. CASE t = i.ticket
    <3>1. assignments'[t] = longer /\ tickets'[t] = ticket /\ ticket # NoTicket
      BY <1>8, <1>9, <1>10, <2>1, RowsAreTickets
    <3>2. ASSUME NEW n \in DOMAIN longer PROVE longer[n].at <= created[t]
      <4>1. CASE n \in DOMAIN rows
        <5>1. longer[n].at = rows[n].at
          BY <1>4, <1>6, <4>1
        <5>2. rows[n].at <= created[t]
          BY <1>2, <2>1, <4>1 DEF SupportInv, OnRecord
        <5> QED BY <5>1, <5>2
      <4>2. CASE n = Len(rows) + 1
        BY <1>2, <1>6, <2>1, <4>2
      <4> QED BY <1>0, <1>6, <4>1, <4>2
    <3>3. longer[Len(longer)].to = i.to
      BY <1>0, <1>6
    <3>4. Succession(assignments[t])'
      BY <1>7, <3>1
    <3>5. tickets'[t] # NoTicket /\ tickets'[t].assignee = assignments'[t][Len(assignments'[t])].to
      BY <1>9, <3>1, <3>3
    <3>6. \A n \in DOMAIN assignments'[t] : assignments'[t][n].at <= created'[t]
      BY <1>1, <3>1, <3>2
    <3> QED BY <3>4, <3>5, <3>6 DEF OnRecord
  <2>2. CASE t # i.ticket
    BY <1>1, <1>10, <2>2 DEF SupportInv, OnRecord
  <2> QED BY <2>1, <2>2
<1>12. ASSUME NEW q \in Requests PROVE AssignmentSound(inflight[q])'
  <2>1. CASE q = r
    <3>1. inflight'[q] = Answered /\ Answered.op = "answered"
      BY <1>1, <2>1, InflightWritten DEF End, Answered
    <3> QED BY <3>1 DEF AssignmentSound
  <2>2. CASE q # r
    <3> PICK j : j = inflight[q]
      OBVIOUS
    <3>1. inflight'[q] = j /\ AssignmentSound(j)
      BY <1>1, <2>2, InflightWritten DEF End, SupportInv
    <3>2. CASE j.ticket = i.ticket /\ j.op \in {"assign", "ending", "ended", "assigning"}
      <4>1. tickets'[j.ticket] # NoTicket
        BY <1>8, <1>9, <3>2, RowsAreTickets
      <4>2. ASSUME j.op \in {"ending", "ended", "assigning"}
            PROVE  /\ j.seen \in Nat /\ j.seen <= Len(longer)
                   /\ \A n \in 1..j.seen : longer[n].open => n \in j.rows
        <5>1. /\ j.seen \in Nat /\ j.seen <= Len(rows)
              /\ \A n \in 1..j.seen : rows[n].open => n \in j.rows
          BY <3>1, <3>2, <4>2 DEF AssignmentSound
        <5>2. \A n \in 1..j.seen : n \in DOMAIN rows
          BY <1>0, <5>1
        <5>3. \A n \in DOMAIN rows : longer[n].open => rows[n].open
          BY <1>4, <1>6
        <5> QED BY <1>0, <1>6, <5>1, <5>2, <5>3
      <4>3. ASSUME j.op = "assigning" PROVE \A n \in 1..j.seen : longer[n].at < j.at
        <5>1. /\ j.seen \in Nat /\ j.seen <= Len(rows)
              /\ \A n \in 1..j.seen : rows[n].at < j.at
          BY <3>1, <3>2, <4>3 DEF AssignmentSound
        <5>2. \A n \in 1..j.seen : n \in DOMAIN rows
          BY <1>0, <5>1
        <5>3. \A n \in DOMAIN rows : longer[n].at = rows[n].at
          BY <1>4, <1>6
        <5> QED BY <5>1, <5>2, <5>3
      <4>4. assignments'[j.ticket] = longer /\ created' = created /\ inflight'[q] = j
        BY <1>1, <1>10, <3>1, <3>2
      <4> QED BY <3>1, <3>2, <4>1, <4>2, <4>3, <4>4 DEF AssignmentSound
    <3>3. CASE j.ticket # i.ticket \/ j.op \notin {"assign", "ending", "ended", "assigning"}
      <4>1. created' = created /\ inflight'[q] = j
        BY <1>1, <3>1
      <4>2. j.op \in {"assign", "ending", "ended", "assigning"} =>
              /\ tickets'[j.ticket] = tickets[j.ticket]
              /\ assignments'[j.ticket] = assignments[j.ticket]
        BY <1>10, <3>1, <3>3 DEF AssignmentSound
      <4> QED BY <3>1, <4>1, <4>2 DEF AssignmentSound
    <3> QED BY <3>2, <3>3
  <2> QED BY <2>1, <2>2
<1>13. InflightInv'
  BY <1>1, EndRemembers, InflightKept
<1> QED
  BY <1>1, <1>10, <1>11, <1>12, <1>13 DEF SupportInv

-------------------------------------------------------------------------------
(* What the audit of an exception tells.                                       *)

Columns == {"owner", "severity", "status"}

Values == Users \cup {Nobody} \cup Severities \cup {"OPEN", "RESOLVED"}

Logged == [column : Columns, old : Values, new : Values]

Fits(column, new) ==
  /\ column = "owner" => new \in Users \cup {Nobody}
  /\ column = "severity" => new \in Severities
  /\ column = "status" => new = "RESOLVED"

ChangesIn(log, column) == {n \in DOMAIN log : log[n].column = column}

Earlier(set, n) == {m \in set : m < n}

LastOf(set) == CHOOSE m \in set : \A k \in set : k <= m

HasLast(set) == set # {} => \E m \in set : \A k \in set : k <= m

ValueOf(log, set, first) == IF set = {} THEN first ELSE log[LastOf(set)].new

\* Every change of the column starts from what the one before it left behind.
Replays(log, column, first, value) ==
  /\ HasLast(ChangesIn(log, column))
  /\ value = ValueOf(log, ChangesIn(log, column), first)
  /\ \A n \in ChangesIn(log, column) :
       /\ HasLast(Earlier(ChangesIn(log, column), n))
       /\ log[n].old = ValueOf(log, Earlier(ChangesIn(log, column), n), first)

LEMMA LastIn ==
  ASSUME NEW set, set # {}, HasLast(set)
  PROVE  LastOf(set) \in set /\ \A k \in set : k <= LastOf(set)
BY DEF HasLast, LastOf

LEMMA ReplayGrows ==
  ASSUME NEW log \in Seq(Logged), NEW change \in Logged, NEW column, NEW first, NEW value,
         Replays(log, column, first, value),
         change.column = column => change.old = value
  PROVE  Replays(Append(log, change), column, first,
                 IF change.column = column THEN change.new ELSE value)
<1> PICK longer : longer = Append(log, change)
  OBVIOUS
<1> PICK last : last = Len(log) + 1
  OBVIOUS
<1> PICK before : before = ChangesIn(log, column)
  OBVIOUS
<1> PICK after : after = ChangesIn(longer, column)
  OBVIOUS
<1>1. /\ last \in Nat /\ last \notin DOMAIN log /\ DOMAIN log = 1..(last - 1)
      /\ DOMAIN longer = DOMAIN log \cup {last}
      /\ longer[last] = change
      /\ \A n \in DOMAIN log : n \in Nat /\ n < last /\ longer[n] = log[n]
  OBVIOUS
<1>0. \A n \in DOMAIN log : longer[n] = log[n]
  BY <1>1
<1>2. /\ before \subseteq DOMAIN log
      /\ after = before \cup (IF change.column = column THEN {last} ELSE {})
  BY <1>1 DEF ChangesIn
<1>3. ASSUME NEW n \in before
      PROVE  /\ HasLast(Earlier(after, n))
             /\ longer[n].old = ValueOf(longer, Earlier(after, n), first)
  <2>1. Earlier(after, n) = Earlier(before, n)
    BY <1>1, <1>2, <1>3 DEF Earlier
  <2>2. HasLast(Earlier(before, n)) /\ log[n].old = ValueOf(log, Earlier(before, n), first)
    BY <1>3 DEF Replays
  <2>3. Earlier(before, n) \subseteq DOMAIN log
    BY <1>2 DEF Earlier
  <2>4. ValueOf(longer, Earlier(before, n), first) = ValueOf(log, Earlier(before, n), first)
    BY <1>0, <2>2, <2>3, LastIn DEF ValueOf
  <2>5. longer[n] = log[n]
    BY <1>1, <1>2, <1>3
  <2> QED BY <2>1, <2>2, <2>4, <2>5
<1>4. HasLast(before) /\ ValueOf(longer, before, first) = value
  <2>1. HasLast(before) /\ value = ValueOf(log, before, first)
    BY DEF Replays
  <2>2. ValueOf(longer, before, first) = ValueOf(log, before, first)
    BY <1>0, <1>2, <2>1, LastIn DEF ValueOf
  <2> QED BY <2>1, <2>2
<1>5. CASE change.column # column
  <2>1. after = before
    BY <1>2, <1>5
  <2> QED BY <1>3, <1>4, <1>5, <2>1 DEF Replays
<1>6. CASE change.column = column
  <2>1. after = before \cup {last} /\ last \in after
    BY <1>2, <1>6
  <2>2. Earlier(after, last) = before
    BY <1>1, <1>2, <2>1 DEF Earlier
  <2>3. \A k \in after : k <= last
    BY <1>1, <1>2, <2>1
  <2>4. HasLast(after)
    BY <2>1, <2>3 DEF HasLast
  <2>5. LastOf(after) = last
    <3>1. LastOf(after) \in after /\ last <= LastOf(after) /\ LastOf(after) <= last
      BY <2>1, <2>3, <2>4, LastIn
    <3>2. LastOf(after) \in Nat
      BY <1>1, <1>2, <2>1, <3>1
    <3> QED BY <1>1, <3>1, <3>2
  <2>6. change.new = ValueOf(longer, after, first)
    BY <1>1, <2>1, <2>5 DEF ValueOf
  <2>7. longer[last].old = ValueOf(longer, Earlier(after, last), first) /\ HasLast(Earlier(after, last))
    BY <1>1, <1>4, <1>6, <2>2
  <2>8. \A n \in after :
          /\ HasLast(Earlier(after, n))
          /\ longer[n].old = ValueOf(longer, Earlier(after, n), first)
    BY <1>3, <2>1, <2>7
  <2> QED BY <1>6, <2>4, <2>6, <2>8 DEF Replays
<1> QED
  BY <1>5, <1>6

\* Behind the exception's lock a change has read the column as it is; only the
\* status can change without that lock, and then the change does not apply.
ChangeSound(i) ==
  /\ i.op \in {"ask", "change"} =>
       /\ i.exception \in Exceptions /\ i.column \in Columns
       /\ Fits(i.column, i.new)
  /\ i.op = "change" =>
       /\ ExceptionLock(i.exception) \in i.locks
       /\ i.old \in Values
       /\ i.column = "status" => i.old = "OPEN"
       /\ i.column # "status" => i.old = exceptions[i.exception][i.column]

ExceptionsTyped ==
  /\ exceptions \in [Exceptions -> ExceptionRow]
  /\ exceptionLog \in [Exceptions -> Seq(Logged)]

ExceptionsInv ==
  /\ ExceptionsTyped
  /\ \A e \in Exceptions, column \in Columns :
       Replays(exceptionLog[e], column, First(e, column), exceptions[e][column])
  /\ \A r \in Requests : ChangeSound(inflight[r])

LEMMA RowChanged ==
  ASSUME NEW row \in ExceptionRow, NEW column \in Columns, NEW new, Fits(column, new)
  PROVE  /\ [row EXCEPT ![column] = new] \in ExceptionRow
         /\ [row EXCEPT ![column] = new][column] = new
         /\ \A c \in Columns : c # column => [row EXCEPT ![column] = new][c] = row[c]
<1>1. /\ row = [status |-> row.status, owner |-> row.owner, severity |-> row.severity]
      /\ row.status \in {"OPEN", "RESOLVED"} /\ row.owner \in Users \cup {Nobody}
      /\ row.severity \in Severities \cup {Nobody}
  BY DEF ExceptionRow
<1>2. CASE column = "owner"
  BY <1>1, <1>2 DEF ExceptionRow, Fits, Columns
<1>3. CASE column = "severity"
  BY <1>1, <1>3 DEF ExceptionRow, Fits, Columns
<1>4. CASE column = "status"
  BY <1>1, <1>4 DEF ExceptionRow, Fits, Columns
<1> QED
  BY <1>2, <1>3, <1>4 DEF Columns

LEMMA ExceptionsUntouched ==
  ASSUME InflightInv, ExceptionsInv, NEW r \in Requests, NEW i, Remember(r, i), ChangeSound(i),
         UNCHANGED <<exceptions, exceptionLog>>
  PROVE  ExceptionsInv'
<1>1. \A q \in Requests : ChangeSound(inflight[q])'
  BY InflightWritten DEF ExceptionsInv, ChangeSound
<1> QED
  BY <1>1 DEF ExceptionsInv, ExceptionsTyped

\* One column changes, with an entry of the audit.
LEMMA ExceptionChanged ==
  ASSUME ExceptionsInv, NEW e \in Exceptions, NEW change \in Logged,
         Fits(change.column, change.new), change.old = exceptions[e][change.column],
         exceptions' = [exceptions EXCEPT ![e] = [@ EXCEPT ![change.column] = change.new]],
         exceptionLog' = [exceptionLog EXCEPT ![e] = Append(@, change)]
  PROVE  /\ ExceptionsTyped'
         /\ \A d \in Exceptions, column \in Columns :
              Replays(exceptionLog'[d], column, First(d, column), exceptions'[d][column])
         /\ \A d \in Exceptions : d # e => exceptions'[d] = exceptions[d]
         /\ \A column \in Columns : column # change.column => exceptions'[e][column] = exceptions[e][column]
<1> PICK row : row = exceptions[e]
  OBVIOUS
<1> PICK log : log = exceptionLog[e]
  OBVIOUS
<1>1. row \in ExceptionRow /\ log \in Seq(Logged) /\ change.column \in Columns
  BY DEF ExceptionsInv, ExceptionsTyped, Logged
<1>2. /\ exceptions'[e] = [row EXCEPT ![change.column] = change.new]
      /\ exceptionLog'[e] = Append(log, change)
      /\ \A d \in Exceptions : d # e => exceptions'[d] = exceptions[d] /\ exceptionLog'[d] = exceptionLog[d]
  BY DEF ExceptionsInv, ExceptionsTyped
<1>3. /\ exceptions'[e] \in ExceptionRow
      /\ exceptions'[e][change.column] = change.new
      /\ \A column \in Columns : column # change.column => exceptions'[e][column] = row[column]
  BY <1>1, <1>2, RowChanged
<1>4. Append(log, change) \in Seq(Logged)
  BY <1>1
<1>5. ExceptionsTyped'
  BY <1>2, <1>3, <1>4 DEF ExceptionsInv, ExceptionsTyped
<1>6. ASSUME NEW d \in Exceptions, NEW column \in Columns
      PROVE  Replays(exceptionLog'[d], column, First(d, column), exceptions'[d][column])
  <2>1. CASE d = e
    <3> PICK value : value = row[column]
      OBVIOUS
    <3>1. Replays(log, column, First(e, column), value)
      BY DEF ExceptionsInv
    <3>2. change.column = column => change.old = value
      OBVIOUS
    <3>3. Replays(Append(log, change), column, First(e, column),
                  IF change.column = column THEN change.new ELSE value)
      BY <1>1, <3>1, <3>2, ReplayGrows
    <3>4. exceptions'[e][column] = IF change.column = column THEN change.new ELSE value
      BY <1>3
    <3> QED BY <1>2, <2>1, <3>3, <3>4
  <2>2. CASE d # e
    BY <1>2, <2>2 DEF ExceptionsInv
  <2> QED BY <2>1, <2>2
<1> QED
  BY <1>2, <1>3, <1>5, <1>6

LEMMA AskSound ==
  ASSUME InflightInv, SupportInv, ExceptionsInv, NEW r \in Requests, Ask(r) \/ LockException(r)
  PROVE  \E i : Remembers(r, i) /\ i.op \in {"ask", "change"} /\ ChangeSound(i)
<1>1. CASE Ask(r)
  <2> PICK e, column, new, i :
         /\ e \in Exceptions /\ column \in Columns /\ Fits(column, new)
         /\ i = [op |-> "ask", locks |-> {}, exception |-> e, column |-> column, new |-> new]
         /\ Remember(r, i)
    <3> PICK e \in Exceptions :
           \/ \E u \in active \cup {Nobody} :
                Begin(r, [op |-> "ask", locks |-> {}, exception |-> e, column |-> "owner", new |-> u])
           \/ \E s \in Severities :
                Begin(r, [op |-> "ask", locks |-> {}, exception |-> e, column |-> "severity", new |-> s])
           \/ Begin(r, [op |-> "ask", locks |-> {}, exception |-> e, column |-> "status",
                        new |-> "RESOLVED"])
      BY <1>1 DEF Ask
    <3>1. CASE \E u \in active \cup {Nobody} :
                 Begin(r, [op |-> "ask", locks |-> {}, exception |-> e, column |-> "owner", new |-> u])
      BY <3>1 DEF Begin, Columns, Fits, SupportInv
    <3>2. CASE \E s \in Severities :
                 Begin(r, [op |-> "ask", locks |-> {}, exception |-> e, column |-> "severity", new |-> s])
      BY <3>2 DEF Begin, Columns, Fits
    <3>3. CASE Begin(r, [op |-> "ask", locks |-> {}, exception |-> e, column |-> "status",
                         new |-> "RESOLVED"])
      BY <3>3 DEF Begin, Columns, Fits
    <3> QED BY <3>1, <3>2, <3>3
  <2> QED BY DEF Remembers, ChangeSound
<1>2. CASE LockException(r)
  <2> PICK i : i = inflight[r]
    OBVIOUS
  <2> PICK lock : lock = ExceptionLock(i.exception)
    OBVIOUS
  <2> PICK old : old = exceptions[i.exception][i.column]
    OBVIOUS
  <2> PICK j : j = [op |-> "change", locks |-> {lock}, exception |-> i.exception,
                    column |-> i.column, new |-> i.new, old |-> old]
    OBVIOUS
  <2>1. i.op = "ask" /\ Available(lock, r) /\ old # i.new /\ Remember(r, j)
    BY <1>2 DEF LockException
  <2>2. i.exception \in Exceptions /\ i.column \in Columns /\ Fits(i.column, i.new)
    BY <2>1 DEF ExceptionsInv, ChangeSound
  <2> PICK row : row = exceptions[i.exception]
    OBVIOUS
  <2>3. /\ row.status \in {"OPEN", "RESOLVED"} /\ row.owner \in Users \cup {Nobody}
        /\ row.severity \in Severities \cup {Nobody}
    BY <2>2 DEF ExceptionsInv, ExceptionsTyped, ExceptionRow
  <2>4. old \in Values /\ (i.column = "status" => old = "OPEN")
    BY <2>1, <2>2, <2>3 DEF Columns, Fits, Values
  <2>5. ChangeSound(j) /\ j.op = "change" /\ Remembers(r, j)
    BY <2>1, <2>2, <2>4 DEF ChangeSound, Remembers
  <2> QED BY <2>5
<1> QED
  BY <1>1, <1>2

LEMMA CommitChangeKeeps ==
  ASSUME InflightInv, ExceptionsInv, NEW r \in Requests, CommitChange(r)
  PROVE  ExceptionsInv' /\ End(r)
<1> PICK i : i = inflight[r]
  OBVIOUS
<1>1. i.op = "change" /\ End(r)
  BY DEF CommitChange
<1>2. Answered.op = "answered" /\ Remember(r, Answered) /\ ChangeSound(Answered)
  BY <1>1 DEF End, Answered, ChangeSound
<1>3. /\ i.exception \in Exceptions /\ i.column \in Columns /\ Fits(i.column, i.new)
      /\ ExceptionLock(i.exception) \in i.locks /\ i.old \in Values
      /\ i.column = "status" => i.old = "OPEN"
      /\ i.column # "status" => i.old = exceptions[i.exception][i.column]
  BY <1>1 DEF ExceptionsInv, ChangeSound
<1>4. CASE ~Applies(i.column, exceptions[i.exception])
  <2>1. UNCHANGED <<exceptions, exceptionLog>>
    BY <1>4 DEF CommitChange
  <2> QED BY <1>1, <1>2, <2>1, ExceptionsUntouched
<1>5. CASE Applies(i.column, exceptions[i.exception])
  <2>1. PICK change : change = [column |-> i.column, old |-> i.old, new |-> i.new]
    OBVIOUS
  <2>2. /\ change \in Logged /\ Fits(change.column, change.new)
        /\ change.old = exceptions[i.exception][change.column] /\ change.column = i.column
    BY <1>3, <1>5, <2>1 DEF Logged, Fits, Values, Columns, Applies
  <2>3. exceptions' = [exceptions EXCEPT ![i.exception] = [@ EXCEPT ![change.column] = change.new]]
    BY <1>5, <2>1 DEF CommitChange
  <2>4. exceptionLog' = [exceptionLog EXCEPT ![i.exception] = Append(@, change)]
    BY <1>5, <2>1 DEF CommitChange
  <2>5. /\ ExceptionsTyped'
        /\ \A d \in Exceptions, column \in Columns :
             Replays(exceptionLog'[d], column, First(d, column), exceptions'[d][column])
        /\ \A d \in Exceptions : d # i.exception => exceptions'[d] = exceptions[d]
    BY <1>3, <2>2, <2>3, <2>4, ExceptionChanged
  <2>6. ASSUME NEW q \in Requests PROVE ChangeSound(inflight[q])'
    <3>1. CASE q = r
      <4>1. inflight'[q] = Answered
        BY <1>1, <3>1, InflightWritten DEF End
      <4> QED BY <1>2, <4>1 DEF ChangeSound
    <3>2. CASE q # r
      <4> PICK j : j = inflight[q]
        OBVIOUS
      <4>1. inflight'[q] = j /\ ChangeSound(j)
        BY <1>1, <3>2, InflightWritten DEF End, ExceptionsInv
      <4>2. j.locks \cap i.locks = {}
        BY <3>2 DEF InflightInv, LocksExclusive
      <4>3. j.op = "change" => j.exception # i.exception
        BY <1>3, <4>1, <4>2 DEF ChangeSound
      <4> QED BY <2>5, <4>1, <4>3 DEF ChangeSound
    <3> QED BY <3>1, <3>2
  <2> QED BY <1>1, <2>5, <2>6 DEF ExceptionsInv
<1> QED
  BY <1>4, <1>5

LEMMA ResolveElsewhereKeeps ==
  ASSUME ExceptionsInv, ResolveElsewhere
  PROVE  ExceptionsInv'
<1>1. PICK change : change = [column |-> "status", old |-> "OPEN", new |-> "RESOLVED"]
  OBVIOUS
<1>2. PICK e \in Exceptions :
      /\ exceptions[e].status = "OPEN"
      /\ exceptions' = [exceptions EXCEPT ![e].status = "RESOLVED"]
      /\ exceptionLog' = [exceptionLog EXCEPT ![e] = Append(@, change)]
      /\ UNCHANGED inflight
  BY <1>1 DEF ResolveElsewhere
<1>3. /\ e \in Exceptions /\ change \in Logged /\ Fits(change.column, change.new)
      /\ change.old = exceptions[e][change.column] /\ change.column = "status"
  BY <1>1, <1>2 DEF Logged, Columns, Values, Fits
<1>4. exceptions' = [exceptions EXCEPT ![e] = [@ EXCEPT ![change.column] = change.new]]
  BY <1>1, <1>2
<1>5. exceptionLog' = [exceptionLog EXCEPT ![e] = Append(@, change)]
  BY <1>2
<1>6. /\ ExceptionsTyped'
      /\ \A d \in Exceptions, column \in Columns :
           Replays(exceptionLog'[d], column, First(d, column), exceptions'[d][column])
      /\ \A d \in Exceptions : d # e => exceptions'[d] = exceptions[d]
      /\ \A column \in Columns : column # change.column => exceptions'[e][column] = exceptions[e][column]
  BY <1>3, <1>4, <1>5, ExceptionChanged
<1>7. \A q \in Requests : ChangeSound(inflight[q])'
  BY <1>3, <1>6, <1>2 DEF ExceptionsInv, ChangeSound
<1> QED
  BY <1>6, <1>7 DEF ExceptionsInv

-------------------------------------------------------------------------------
(* Corrective actions.                                                         *)

ActionSound(i) ==
  /\ i.op = "action" => i.row \in ActionRow /\ i.row.status = "OPEN"
  /\ i.op = "complete" => i.id \in Actions /\ actions[i.id] # NoAction /\ i.user \in Users

Completed(a) ==
  actionLog[a] = IF actions[a] = NoAction THEN <<>>
                 ELSE IF actions[a].status = "OPEN" THEN <<>> ELSE <<actions[a].by>>

ActionsInv ==
  /\ actions \in [Actions -> ActionRow \cup {NoAction}]
  /\ actionLog = [a \in Actions |-> actionLog[a]]
  /\ \A a \in Actions : Completed(a)
  /\ \A r \in Requests : ActionSound(inflight[r])

LEMMA RowsAreActions ==
  ASSUME NEW row \in ActionRow
  PROVE  row # NoAction
<1>1. DOMAIN row = {"decision", "owner", "status", "by"}
  BY DEF ActionRow
<1> QED
  BY <1>1 DEF NoAction

LEMMA ActionsUntouched ==
  ASSUME InflightInv, ActionsInv, NEW r \in Requests, NEW i, Remember(r, i), ActionSound(i),
         UNCHANGED <<actions, actionLog>>
  PROVE  ActionsInv'
<1>1. \A q \in Requests : ActionSound(inflight[q])'
  BY InflightWritten DEF ActionsInv, ActionSound
<1> QED
  BY <1>1 DEF ActionsInv, Completed

\* A request that ends has written one row, and its log with it.
LEMMA ActionWritten ==
  ASSUME InflightInv, ActionsInv, NEW r \in Requests, End(r), NEW a, NEW row \in ActionRow, NEW log,
         actions' = [actions EXCEPT ![a] = row], actionLog' = [actionLog EXCEPT ![a] = log],
         log = IF row.status = "OPEN" THEN <<>> ELSE <<row.by>>
  PROVE  ActionsInv'
<1>1. row # NoAction
  BY RowsAreActions
<1>2. /\ actions' \in [Actions -> ActionRow \cup {NoAction}]
      /\ actionLog' = [b \in Actions |-> actionLog'[b]]
      /\ a \in Actions => actions'[a] = row /\ actionLog'[a] = log
      /\ \A b \in Actions : b # a => actions'[b] = actions[b] /\ actionLog'[b] = actionLog[b]
  BY DEF ActionsInv
<1>3. ASSUME NEW b \in Actions PROVE Completed(b)'
  <2>1. CASE b = a
    BY <1>1, <1>2, <2>1 DEF Completed
  <2>2. CASE b # a
    BY <1>2, <2>2 DEF ActionsInv, Completed
  <2> QED BY <2>1, <2>2
<1>4. ASSUME NEW q \in Requests PROVE ActionSound(inflight[q])'
  <2>1. CASE q = r
    <3>1. inflight'[q] = Answered /\ Answered.op = "answered"
      BY <2>1, InflightWritten DEF End, Answered
    <3> QED BY <3>1 DEF ActionSound
  <2>2. CASE q # r
    <3>1. inflight'[q] = inflight[q] /\ ActionSound(inflight[q])
      BY <2>2, InflightWritten DEF End, ActionsInv
    <3> QED BY <1>1, <1>2, <3>1 DEF ActionSound
  <2> QED BY <2>1, <2>2
<1> QED
  BY <1>2, <1>3, <1>4 DEF ActionsInv

LEMMA CommitActionKeeps ==
  ASSUME InflightInv, ActionsInv, NEW r \in Requests, CommitAction(r)
  PROVE  ActionsInv'
<1> PICK i : i = inflight[r]
  OBVIOUS
<1> PICK row : row = i.row
  OBVIOUS
<1>1. /\ i.op = "action" /\ actions[i.id] = NoAction
      /\ actions' = [actions EXCEPT ![i.id] = row] /\ actionLog' = actionLog /\ End(r)
  BY DEF CommitAction
<1>2. row \in ActionRow /\ row.status = "OPEN"
  BY <1>1 DEF ActionsInv, ActionSound
<1>3. actionLog' = [actionLog EXCEPT ![i.id] = <<>>]
  BY <1>1 DEF ActionsInv, Completed
<1> QED
  BY <1>1, <1>2, <1>3, ActionWritten

LEMMA CompleteActionKeeps ==
  ASSUME InflightInv, ActionsInv, NEW r \in Requests, CompleteAction(r)
  PROVE  ActionsInv'
<1> PICK i : i = inflight[r]
  OBVIOUS
<1>1. i.op = "complete" /\ End(r)
  BY DEF CompleteAction
<1>2. i.id \in Actions /\ actions[i.id] # NoAction /\ i.user \in Users
  BY <1>1 DEF ActionsInv, ActionSound
<1> PICK old : old = actions[i.id]
  OBVIOUS
<1>3. old \in ActionRow
  BY <1>2 DEF ActionsInv
<1>4. CASE old.status # "OPEN"
  <2>1. UNCHANGED <<actions, actionLog>> /\ Remember(r, Answered) /\ ActionSound(Answered)
    BY <1>1, <1>4 DEF CompleteAction, End, Answered, ActionSound
  <2> QED BY <2>1, ActionsUntouched
<1>5. CASE old.status = "OPEN"
  <2> PICK row : row = [old EXCEPT !.status = "COMPLETED", !.by = i.user]
    OBVIOUS
  <2>1. /\ actions' = [actions EXCEPT ![i.id].status = "COMPLETED", ![i.id].by = i.user]
        /\ actionLog' = [actionLog EXCEPT ![i.id] = Append(@, i.user)]
    BY <1>5 DEF CompleteAction
  <2>2. row \in ActionRow /\ row.status = "COMPLETED" /\ row.by = i.user
    BY <1>2, <1>3 DEF ActionRow
  <2>3. actions' = [actions EXCEPT ![i.id] = row]
    BY <1>2, <2>1 DEF ActionsInv
  <2>4. actionLog[i.id] = <<>>
    BY <1>2, <1>5 DEF ActionsInv, Completed
  <2>5. actionLog' = [actionLog EXCEPT ![i.id] = <<i.user>>]
    BY <2>1, <2>4
  <2> QED BY <1>1, <2>2, <2>3, <2>5, ActionWritten
<1> QED
  BY <1>4, <1>5

-------------------------------------------------------------------------------
(* All together.                                                               *)

FollowUpInv == InflightInv /\ SupportInv /\ ExceptionsInv /\ ActionsInv

SupportOps == {"ticket", "assign", "ending", "ended", "assigning"}

LEMMA SupportRemembers ==
  ASSUME NEW r \in Requests, SupportStart(r) \/ SupportGoOn(r)
  PROVE  \E i : Remember(r, i) /\ i.op \in SupportOps \cup {"answered"}
<1>1. ASSUME NEW i, Remember(r, i), i.op \in SupportOps \cup {"answered"}
      PROVE  \E j : Remember(r, j) /\ j.op \in SupportOps \cup {"answered"}
  BY <1>1
<1>2. CASE \/ OpenTicket(r) \/ FindTicket(r) \/ ListOpenAssignments(r) \/ EndAssignments(r)
           \/ CreateAssignment(r)
  <2>1. CASE OpenTicket(r)
    BY <2>1 DEF OpenTicket, Begin, SupportOps
  <2>2. CASE FindTicket(r)
    BY <2>2 DEF FindTicket, Begin, SupportOps
  <2>3. CASE ListOpenAssignments(r)
    BY <2>3 DEF ListOpenAssignments, SupportOps
  <2>4. CASE EndAssignments(r)
    BY <2>4 DEF EndAssignments, SupportOps
  <2>5. CASE CreateAssignment(r)
    BY <2>5 DEF CreateAssignment, SupportOps
  <2> QED BY <1>2, <2>1, <2>2, <2>3, <2>4, <2>5
<1>3. CASE Message(r) \/ CommitTicket(r) \/ CommitAssignment(r)
  <2>1. End(r)
    BY <1>3 DEF Message, CommitTicket, CommitAssignment
  <2> QED BY <2>1 DEF End, Answered
<1> QED
  BY <1>2, <1>3 DEF SupportStart, SupportGoOn

LEMMA OthersAreSound ==
  ASSUME NEW i
  PROVE  /\ i.op \notin SupportOps => AssignmentSound(i)
         /\ i.op \notin {"ask", "change"} => ChangeSound(i)
         /\ i.op \notin {"action", "complete"} => ActionSound(i)
BY DEF SupportOps, AssignmentSound, ChangeSound, ActionSound

\* What no part of the invariant is about.
LEMMA RecordsUntouched ==
  ASSUME FollowUpInv, NEW r \in Requests, NEW i, Remembers(r, i), i.op \notin SupportOps,
         ChangeSound(i), ActionSound(i),
         UNCHANGED <<supportVars, exceptions, exceptionLog, actions, actionLog>>
  PROVE  FollowUpInv'
<1>1. AssignmentSound(i)
  BY OthersAreSound
<1>2. InflightInv' /\ ExceptionsInv' /\ ActionsInv'
  BY InflightKept, ExceptionsUntouched, ActionsUntouched DEF FollowUpInv, Remembers
<1>3. SupportInv'
  BY <1>1, SupportUntouched DEF FollowUpInv, Remembers, supportVars, SupportInv
<1> QED
  BY <1>2, <1>3 DEF FollowUpInv

LEMMA EndUntouched ==
  ASSUME FollowUpInv, NEW r \in Requests, End(r),
         UNCHANGED <<supportVars, exceptions, exceptionLog, actions, actionLog>>
  PROVE  FollowUpInv'
<1>1. Remembers(r, Answered) /\ Answered.op = "answered"
  BY EndRemembers
<1>2. Answered.op \notin SupportOps /\ ChangeSound(Answered) /\ ActionSound(Answered)
  BY <1>1, OthersAreSound DEF SupportOps
<1> QED
  BY <1>1, <1>2, RecordsUntouched

LEMMA FollowUpStartKeeps ==
  ASSUME FollowUpInv, NEW r \in Requests, FollowUpStart(r)
  PROVE  FollowUpInv'
<1>1. CASE SupportStart(r) /\ UNCHANGED followUpVars
  <2> PICK i : Remember(r, i) /\ i.op \in SupportOps \cup {"answered"}
    BY <1>1, SupportRemembers
  <2>1. ChangeSound(i) /\ ActionSound(i)
    BY OthersAreSound DEF SupportOps
  <2>2. InflightInv' /\ SupportInv'
    BY <1>1, SupportStartKeeps DEF FollowUpInv
  <2>3. ExceptionsInv' /\ ActionsInv'
    BY <1>1, <2>1, ExceptionsUntouched, ActionsUntouched DEF FollowUpInv, followUpVars
  <2> QED BY <2>2, <2>3 DEF FollowUpInv
<1>2. CASE Ask(r)
  <2> PICK i : Remembers(r, i) /\ i.op \in {"ask", "change"} /\ ChangeSound(i)
    BY <1>2, AskSound DEF FollowUpInv
  <2>1. i.op \notin SupportOps /\ ActionSound(i)
    BY OthersAreSound DEF SupportOps
  <2>2. UNCHANGED <<supportVars, exceptions, exceptionLog, actions, actionLog>>
    BY <1>2 DEF Ask, followUpVars
  <2> QED BY <2>1, <2>2, RecordsUntouched
<1>3. CASE RetireCategory(r) \/ AddDecision(r) \/ AttachEvidence(r)
  <2>1. End(r) /\ UNCHANGED <<supportVars, exceptions, exceptionLog, actions, actionLog>>
    BY <1>3 DEF RetireCategory, AddDecision, AttachEvidence
  <2> QED BY <2>1, EndUntouched
<1>4. CASE CreateCategory(r) \/ AddRootCause(r) \/ ReadAlert(r) \/ AddAction(r) \/ ReadAction(r)
  <2>1. UNCHANGED <<supportVars, exceptions, exceptionLog, actions, actionLog>>
    BY <1>4 DEF CreateCategory, AddRootCause, ReadAlert, AddAction, ReadAction, followUpVars
  <2>2. \E i : /\ Remember(r, i) /\ i.locks = {}
               /\ i.op \in {"category", "cause", "read", "action", "complete"} /\ ActionSound(i)
    <3>1. CASE CreateCategory(r)
      BY <3>1 DEF CreateCategory, Begin, ActionSound
    <3>2. CASE AddRootCause(r)
      BY <3>2 DEF AddRootCause, Begin, ActionSound
    <3>3. CASE ReadAlert(r)
      BY <3>3 DEF ReadAlert, Begin, ActionSound
    <3>4. CASE AddAction(r)
      <4> PICK a, d, u, row, i :
             /\ d \in Decisions /\ u \in active
             /\ row = [decision |-> d, owner |-> u, status |-> "OPEN", by |-> Nobody]
             /\ i = [op |-> "action", locks |-> {}, id |-> a, row |-> row]
             /\ Remember(r, i)
        BY <3>4 DEF AddAction, Begin
      <4>1. row \in ActionRow /\ row.status = "OPEN"
        BY DEF FollowUpInv, SupportInv, ActionRow
      <4> QED BY <4>1 DEF ActionSound
    <3>5. CASE ReadAction(r)
      <4> PICK a, u, i :
             /\ a \in Actions /\ u \in active /\ actions[a] # NoAction
             /\ i = [op |-> "complete", locks |-> {}, id |-> a, user |-> u]
             /\ Remember(r, i)
        BY <3>5 DEF ReadAction, Begin
      <4> QED BY DEF ActionSound, FollowUpInv, SupportInv
    <3> QED BY <1>4, <3>1, <3>2, <3>3, <3>4, <3>5
  <2> PICK i : /\ Remember(r, i) /\ i.locks = {}
               /\ i.op \in {"category", "cause", "read", "action", "complete"} /\ ActionSound(i)
    BY <2>2
  <2>3. i.op \notin SupportOps /\ ChangeSound(i) /\ Remembers(r, i)
    BY OthersAreSound DEF SupportOps, Remembers
  <2> QED BY <2>1, <2>3, RecordsUntouched
<1> QED
  BY <1>1, <1>2, <1>3, <1>4 DEF FollowUpStart

LEMMA FollowUpGoOnKeeps ==
  ASSUME FollowUpInv, NEW r \in Requests, FollowUpGoOn(r)
  PROVE  FollowUpInv'
<1>1. CASE SupportGoOn(r) /\ UNCHANGED followUpVars
  <2> PICK i : Remember(r, i) /\ i.op \in SupportOps \cup {"answered"}
    BY <1>1, SupportRemembers
  <2>1. ChangeSound(i) /\ ActionSound(i)
    BY OthersAreSound DEF SupportOps
  <2>2. InflightInv' /\ SupportInv'
    BY <1>1, CommitTicketKeeps, AssignmentGoesOnKeeps, CommitAssignmentKeeps
       DEF FollowUpInv, SupportGoOn
  <2>3. ExceptionsInv' /\ ActionsInv'
    BY <1>1, <2>1, ExceptionsUntouched, ActionsUntouched DEF FollowUpInv, followUpVars
  <2> QED BY <2>2, <2>3 DEF FollowUpInv
<1>2. CASE LockException(r)
  <2> PICK i : Remembers(r, i) /\ i.op \in {"ask", "change"} /\ ChangeSound(i)
    BY <1>2, AskSound DEF FollowUpInv
  <2>1. i.op \notin SupportOps /\ ActionSound(i)
    BY OthersAreSound DEF SupportOps
  <2>2. UNCHANGED <<supportVars, exceptions, exceptionLog, actions, actionLog>>
    BY <1>2 DEF LockException, followUpVars
  <2> QED BY <2>1, <2>2, RecordsUntouched
<1>3. CASE CommitChange(r)
  <2>1. ExceptionsInv' /\ End(r) /\ UNCHANGED <<supportVars, actions, actionLog>>
    BY <1>3, CommitChangeKeeps DEF FollowUpInv, CommitChange
  <2>2. /\ Remembers(r, Answered)
        /\ AssignmentSound(Answered) /\ ActionSound(Answered)
    BY <2>1, EndRemembers, OthersAreSound DEF SupportOps
  <2>3. InflightInv' /\ SupportInv' /\ ActionsInv'
    BY <2>1, <2>2, InflightKept, SupportUntouched, ActionsUntouched
       DEF FollowUpInv, Remembers, supportVars, SupportInv
  <2> QED BY <2>1, <2>3 DEF FollowUpInv
<1>4. CASE CommitAction(r) \/ CompleteAction(r)
  <2>1. End(r) /\ UNCHANGED <<supportVars, exceptions, exceptionLog>>
    BY <1>4 DEF CommitAction, CompleteAction
  <2>2. /\ Remembers(r, Answered)
        /\ AssignmentSound(Answered) /\ ChangeSound(Answered)
    BY <2>1, EndRemembers, OthersAreSound DEF SupportOps
  <2>3. InflightInv' /\ SupportInv' /\ ExceptionsInv'
    BY <2>1, <2>2, InflightKept, SupportUntouched, ExceptionsUntouched
       DEF FollowUpInv, Remembers, supportVars, SupportInv
  <2>4. ActionsInv'
    BY <1>4, CommitActionKeeps, CompleteActionKeeps DEF FollowUpInv
  <2> QED BY <2>3, <2>4 DEF FollowUpInv
<1>5. CASE \/ CommitCategory(r) \/ CommitRootCause(r) \/ MarkAlertRead(r)
           \/ Rollback(r) /\ UNCHANGED <<supportVars, followUpVars>>
  <2>1. End(r) /\ UNCHANGED <<supportVars, exceptions, exceptionLog, actions, actionLog>>
    BY <1>5 DEF CommitCategory, CommitRootCause, MarkAlertRead, Rollback, followUpVars
  <2> QED BY <2>1, EndUntouched
<1> QED
  BY <1>1, <1>2, <1>3, <1>4, <1>5 DEF FollowUpGoOn

LEMMA FollowUpStep == FollowUpInv /\ [FollowUpNext]_recordVars => FollowUpInv'
<1> SUFFICES ASSUME FollowUpInv, [FollowUpNext]_recordVars PROVE FollowUpInv'
  OBVIOUS
<1>1. CASE /\ UNCHANGED <<inflight, tickets, assignments, created, exceptions, exceptionLog, actions, actionLog>>
           /\ active' \subseteq active
  <2>1. InflightInv'
    BY <1>1 DEF FollowUpInv, InflightInv, LocksExclusive
  <2>2. SupportInv'
    BY <1>1 DEF FollowUpInv, SupportInv, OnRecord, AssignmentSound
  <2>3. ExceptionsInv'
    BY <1>1 DEF FollowUpInv, ExceptionsInv, ExceptionsTyped, ChangeSound
  <2>4. ActionsInv'
    BY <1>1 DEF FollowUpInv, ActionsInv, Completed, ActionSound
  <2> QED BY <2>1, <2>2, <2>3, <2>4 DEF FollowUpInv
<1>2. CASE UNCHANGED recordVars \/ (Deactivate /\ UNCHANGED followUpVars)
  <2>1. /\ UNCHANGED <<inflight, tickets, assignments, created, exceptions, exceptionLog, actions, actionLog>>
        /\ active' \subseteq active
    BY <1>2 DEF recordVars, supportVars, followUpVars, Deactivate
  <2> QED BY <1>1, <2>1
<1>3. CASE ResolveElsewhere
  <2>1. ExceptionsInv' /\ UNCHANGED <<inflight, supportVars, actions, actionLog>>
    BY <1>3, ResolveElsewhereKeeps DEF FollowUpInv, ResolveElsewhere
  <2>2. InflightInv'
    BY <2>1 DEF FollowUpInv, InflightInv, LocksExclusive
  <2>3. SupportInv'
    BY <2>1 DEF FollowUpInv, supportVars, SupportInv, OnRecord, AssignmentSound
  <2>4. ActionsInv'
    BY <2>1 DEF FollowUpInv, ActionsInv, Completed, ActionSound
  <2> QED BY <2>1, <2>2, <2>3, <2>4 DEF FollowUpInv
<1>4. \/ UNCHANGED recordVars \/ (Deactivate /\ UNCHANGED followUpVars)
      \/ ResolveElsewhere
      \/ \E r \in Requests : FollowUpStart(r) \/ FollowUpGoOn(r)
  BY DEF FollowUpNext
<1>5. CASE \E r \in Requests : FollowUpStart(r) \/ FollowUpGoOn(r)
  BY <1>5, FollowUpStartKeeps, FollowUpGoOnKeeps
<1> QED
  BY <1>2, <1>3, <1>4, <1>5

LEMMA FollowUpInvInit == FollowUpInit => FollowUpInv
<1> SUFFICES ASSUME FollowUpInit PROVE FollowUpInv
  OBVIOUS
<1>1. InflightInv
  BY DEF FollowUpInit, TransactionsInit, Waiting, InflightInv, LocksExclusive
<1>2. \A r \in Requests :
        AssignmentSound(inflight[r]) /\ ChangeSound(inflight[r]) /\ ActionSound(inflight[r])
  BY DEF FollowUpInit, TransactionsInit, Waiting, AssignmentSound, ChangeSound, ActionSound
<1>3. SupportInv
  <2>1. /\ active = Users
        /\ tickets = [t \in Tickets |-> IF t \in DOMAIN Assigned THEN Assigned[t] ELSE NoTicket]
        /\ assignments = [t \in Tickets |->
                            IF t \in DOMAIN Assigned
                            THEN <<[to |-> Assigned[t].assignee, open |-> TRUE, at |-> 1, seen |-> 0]>>
                            ELSE <<>>]
        /\ created = [t \in Tickets |-> IF t \in DOMAIN Assigned THEN 1 ELSE 0]
    BY DEF FollowUpInit, SupportInit
  <2>2. ASSUME NEW t \in Tickets
        PROVE  tickets[t] \in TicketRow \cup {NoTicket} /\ assignments[t] \in Seq(AssignmentRow) /\ OnRecord(t)
    <3>1. CASE t \in DOMAIN Assigned
      <4> PICK row : row = [to |-> Assigned[t].assignee, open |-> TRUE, at |-> 1, seen |-> 0]
        OBVIOUS
      <4>1. tickets[t] = Assigned[t] /\ assignments[t] = <<row>> /\ created[t] = 1
        BY <2>1, <3>1
      <4>2. Assigned[t] \in TicketRow /\ Assigned[t].assignee # Nobody
        BY <3>1, AssignedAssumption
      <4>3. Assigned[t].assignee \in Users /\ tickets[t] # NoTicket
        BY <4>1, <4>2, RowsAreTickets DEF TicketRow
      <4>4. row \in AssignmentRow /\ row.to = Assigned[t].assignee /\ row.open /\ row.at = 1
        BY <4>3 DEF AssignmentRow
      <4> PICK rows : rows = assignments[t]
        OBVIOUS
      <4>5. /\ rows \in Seq(AssignmentRow) /\ Len(rows) = 1
            /\ DOMAIN rows = {1} /\ rows[1] = row
        BY <4>1, <4>4
      <4>6. Succession(rows)
        BY <4>4, <4>5 DEF Succession
      <4>7. \A n \in DOMAIN rows : rows[n].at <= created[t]
        BY <4>1, <4>4, <4>5
      <4>8. tickets[t].assignee = rows[Len(rows)].to
        BY <4>1, <4>4, <4>5
      <4> QED BY <4>1, <4>2, <4>3, <4>5, <4>6, <4>7, <4>8 DEF OnRecord
    <3>2. CASE t \notin DOMAIN Assigned
      <4>1. tickets[t] = NoTicket /\ assignments[t] = <<>>
        BY <2>1, <3>2
      <4> QED BY <4>1 DEF OnRecord, Succession
    <3> QED BY <3>1, <3>2
  <2>3. created \in [Tickets -> Nat]
    BY <2>1
  <2> QED BY <1>2, <2>1, <2>2, <2>3 DEF SupportInv
<1>4. ExceptionsInv
  <2>1. /\ exceptions = [e \in Exceptions |-> [status |-> "OPEN", owner |-> Nobody, severity |-> Nobody]]
        /\ exceptionLog = [e \in Exceptions |-> <<>>]
    BY DEF FollowUpInit
  <2>2. ExceptionsTyped
    BY <2>1 DEF ExceptionsTyped, ExceptionRow
  <2>3. ASSUME NEW e \in Exceptions, NEW column \in Columns
        PROVE  Replays(exceptionLog[e], column, First(e, column), exceptions[e][column])
    <3>1. exceptions[e][column] = First(e, column)
      BY <2>1 DEF Columns, First
    <3>2. ChangesIn(exceptionLog[e], column) = {}
      BY <2>1 DEF ChangesIn
    <3> QED BY <3>1, <3>2 DEF Replays, HasLast, ValueOf
  <2> QED BY <1>2, <2>2, <2>3 DEF ExceptionsInv
<1>5. ActionsInv
  <2>1. /\ actions = [a \in Actions |-> IF a \in DOMAIN Undertaken THEN Undertaken[a] ELSE NoAction]
        /\ actionLog = [a \in Actions |-> <<>>]
    BY DEF FollowUpInit
  <2>2. \A a \in Actions : Completed(a)
    BY <2>1, UndertakenAssumption DEF Completed
  <2> QED BY <1>2, <2>1, <2>2, UndertakenAssumption DEF ActionsInv
<1> QED
  BY <1>1, <1>3, <1>4, <1>5 DEF FollowUpInv

\* SupportService.assign takes no lock, and yet a ticket's assignee always has
\* the assignment committed last, which is open.  An earlier one is open besides,
\* or is later in the history by assignedAt, only when it was committed after the
\* later one had listed those to end: assignments one after the other leave the
\* assignee with the last place of the history and the only open row.
THEOREM AssigneeSafe == FollowUpSpec => []AssigneeOnRecord
<1>1. FollowUpInv => AssigneeOnRecord
  BY DEF FollowUpInv, SupportInv, OnRecord, Succession, AssigneeOnRecord
<1> QED
  BY FollowUpInvInit, FollowUpStep, <1>1, PTL DEF FollowUpSpec

\* However the handlers of ExceptionsService, the recovery of a deviation and
\* the closing of a mission interleave, the audit of an exception replays to
\* its owner, severity and status, and an action names who completed it.
THEOREM FollowUpSafe == FollowUpSpec => []FollowUpReplays
<1>1. FollowUpInv => FollowUpReplays
  <2> SUFFICES ASSUME FollowUpInv PROVE FollowUpReplays
    OBVIOUS
  <2>1. ASSUME NEW e \in Exceptions, NEW column \in Columns
        PROVE  LET log == exceptionLog[e]
                   changes == ChangesOf(e, column)
                   before(n) == {m \in changes : m < n}
                   last(set) == CHOOSE m \in set : \A k \in set : k <= m
                   value(set) == IF set = {} THEN First(e, column) ELSE log[last(set)].new
               IN /\ \A n \in changes : log[n].old = value(before(n))
                  /\ exceptions[e][column] = value(changes)
    <3>1. Replays(exceptionLog[e], column, First(e, column), exceptions[e][column])
      BY DEF FollowUpInv, ExceptionsInv
    <3> QED BY <3>1 DEF Replays, ChangesIn, ChangesOf, Earlier, LastOf, ValueOf
  <2>2. \A a \in Actions :
          actions[a] # NoAction =>
            actionLog[a] = IF actions[a].status = "OPEN" THEN <<>> ELSE <<actions[a].by>>
    BY DEF FollowUpInv, ActionsInv, Completed
  <2> QED BY <2>1, <2>2 DEF FollowUpReplays, Columns
<1> QED
  BY FollowUpInvInit, FollowUpStep, <1>1, PTL DEF FollowUpSpec

-------------------------------------------------------------------------------
(* What the records refer to.                                                  *)

CategoryThere(c) == categories[c].status # "ABSENT"

\* What a request has looked up is still there.
LinkSound(i) ==
  /\ i.op = "ticket" =>
       /\ i.driver \in Drivers /\ i.mission \in DriverMissions[i.driver]
       /\ i.attachment \in Attachments(i.mission)
  /\ i.op = "category" =>
       /\ i.parent \in Categories \cup {Nobody} /\ i.parent # i.category
       /\ i.parent # Nobody => CategoryThere(i.parent)
  /\ i.op = "cause" => i.row \in RootCauseRow /\ CategoryThere(i.row.category)
  /\ i.op = "action" => decisions[i.row.decision] # Nobody

SaidWell(m, ticket) ==
  /\ m.attachment \in Attachments(ticket.mission)
  /\ m.internal => m.author # ticket.driver
  /\ m.author # ticket.driver => Covered(m.author, ticket.client)

TalkInv ==
  /\ messages \in [Tickets -> SUBSET MessageRow]
  /\ ConversationsFit

NoneBelowItself(rows) ==
  \A set \in SUBSET Categories : set # {} => \E c \in set : rows[c].parent \notin set

ParentsThere(rows) ==
  \A c \in Categories :
    rows[c].parent # Nobody => \A k \in {c, rows[c].parent} : rows[k].status # "ABSENT"

CategoriesInv ==
  /\ categories \in [Categories -> CategoryRow]
  /\ ParentsThere(categories)
  /\ NoneBelowItself(categories)

CausesInv ==
  /\ rootCauses \in [RootCauses -> RootCauseRow \cup {NoRow}]
  /\ \A id \in RootCauses : rootCauses[id] # NoRow => CategoryThere(rootCauses[id].category)

DecisionsInv ==
  /\ decisions \in [Decisions -> Exceptions \cup {Nobody}]
  /\ \A a \in Actions : actions[a] # NoAction => decisions[actions[a].decision] # Nobody

TypedRest == evidence \subseteq Exceptions \X Documents /\ alerts \in [Alerts -> Nat]

LinksInv ==
  /\ TalkInv /\ CategoriesInv /\ CausesInv /\ DecisionsInv /\ TypedRest
  /\ \A r \in Requests : LinkSound(inflight[r])

LEMMA LinkedOthers ==
  ASSUME NEW i, i.op \notin {"ticket", "category", "cause", "action"}
  PROVE  LinkSound(i) /\ LinkSound(i)'
BY DEF LinkSound

\* Nothing that was looked up goes away.
LEMMA LinksKept ==
  ASSUME InflightInv, LinksInv, NEW r \in Requests, NEW i, Remember(r, i), LinkSound(i)',
         \A c : CategoryThere(c) => CategoryThere(c)',
         \A d : decisions[d] # Nobody => decisions'[d] # Nobody
  PROVE  \A q \in Requests : LinkSound(inflight[q])'
<1> SUFFICES ASSUME NEW q \in Requests PROVE LinkSound(inflight[q])'
  OBVIOUS
<1>1. CASE q = r
  BY <1>1, InflightWritten DEF LinkSound, CategoryThere
<1>2. CASE q # r
  <2> PICK j : j = inflight[q]
    OBVIOUS
  <2>1. inflight'[q] = j /\ LinkSound(j)
    BY <1>2, InflightWritten DEF LinksInv
  <2>2. LinkSound(j)'
    BY <2>1 DEF LinkSound
  <2> QED BY <2>1, <2>2 DEF LinkSound, CategoryThere
<1> QED BY <1>1, <1>2

\* A request that only remembers something, or ends with nothing in these.
LEMMA LinksUntouched ==
  ASSUME InflightInv, LinksInv, NEW r \in Requests, NEW i, Remember(r, i), LinkSound(i),
         UNCHANGED <<tickets, messages, categories, rootCauses, decisions, actions, evidence, alerts>>
  PROVE  LinksInv'
<1>1. LinkSound(i)'
  BY DEF LinkSound, CategoryThere
<1>2. \A q \in Requests : LinkSound(inflight[q])'
  BY <1>1, LinksKept DEF CategoryThere
<1>3. TalkInv'
  BY DEF LinksInv, TalkInv, ConversationsFit
<1>4. CategoriesInv'
  BY DEF LinksInv, CategoriesInv
<1>5. CausesInv' /\ DecisionsInv' /\ TypedRest'
  BY DEF LinksInv, CausesInv, DecisionsInv, TypedRest, CategoryThere
<1> QED BY <1>2, <1>3, <1>4, <1>5 DEF LinksInv

\* Categories.

LEMMA CategoryAdded ==
  ASSUME NEW rows \in [Categories -> CategoryRow], ParentsThere(rows), NoneBelowItself(rows),
         NEW c \in Categories, rows[c].status = "ABSENT",
         NEW parent \in Categories \cup {Nobody}, parent # c,
         parent # Nobody => rows[parent].status # "ABSENT",
         NEW longer, longer = [rows EXCEPT ![c] = [status |-> "ACTIVE", parent |-> parent]]
  PROVE  longer \in [Categories -> CategoryRow] /\ ParentsThere(longer) /\ NoneBelowItself(longer)
<1>1. /\ longer[c].status = "ACTIVE" /\ longer[c].parent = parent
      /\ \A d \in Categories : d # c => longer[d] = rows[d]
      /\ longer \in [Categories -> CategoryRow]
  BY DEF CategoryRow
<1>2. \A d \in Categories : rows[d].parent # c
  BY DecidedAssumption DEF ParentsThere
<1>3. \A d \in Categories : rows[d].parent \in Categories \cup {Nobody}
  BY DEF CategoryRow
<1>4. ParentsThere(longer)
  <2> SUFFICES ASSUME NEW d \in Categories, longer[d].parent # Nobody
               PROVE  longer[d].status # "ABSENT" /\ longer[longer[d].parent].status # "ABSENT"
    BY DEF ParentsThere
  <2>1. CASE d = c
    BY <1>1, <2>1
  <2>2. CASE d # c
    <3>1. rows[d].status # "ABSENT" /\ rows[rows[d].parent].status # "ABSENT"
      BY <1>1, <2>2 DEF ParentsThere
    <3> QED BY <1>1, <1>2, <1>3, <2>2, <3>1
  <2> QED BY <2>1, <2>2
<1>5. ASSUME NEW set \in SUBSET Categories, set # {}
      PROVE  \E d \in set : longer[d].parent \notin set
  <2>1. CASE set \subseteq {c}
    BY <1>1, <1>5, <2>1
  <2>2. CASE ~(set \subseteq {c})
    <3>1. (set \ {c}) # {} /\ (set \ {c}) \in SUBSET Categories
      BY <2>2
    <3>2. PICK d \in set \ {c} : rows[d].parent \notin (set \ {c})
      BY <3>1 DEF NoneBelowItself
    <3> QED BY <1>1, <1>2, <3>2
  <2> QED BY <2>1, <2>2
<1> QED BY <1>1, <1>4, <1>5 DEF NoneBelowItself

LEMMA CommitCategoryLinks ==
  ASSUME InflightInv, LinksInv, NEW r \in Requests, CommitCategory(r)
  PROVE  LinksInv'
<1> PICK i : i = inflight[r]
  OBVIOUS
<1> PICK rows, longer : rows = categories /\ longer = categories'
  OBVIOUS
<1>1. /\ i.op = "category" /\ rows[i.category].status = "ABSENT"
      /\ longer = [rows EXCEPT ![i.category] = [status |-> "ACTIVE", parent |-> i.parent]]
      /\ End(r)
      /\ UNCHANGED <<tickets, messages, rootCauses, decisions, actions, evidence, alerts>>
  BY DEF CommitCategory, supportVars
<1>2. /\ rows \in [Categories -> CategoryRow] /\ ParentsThere(rows) /\ NoneBelowItself(rows)
  BY DEF LinksInv, CategoriesInv
<1>3. /\ i.parent \in Categories \cup {Nobody} /\ i.parent # i.category
      /\ i.parent # Nobody => rows[i.parent].status # "ABSENT"
  BY <1>1 DEF LinksInv, LinkSound, CategoryThere
<1>4. CategoriesInv'
  <2>1. CASE i.category \in Categories
    <3>1. PICK c, parent : c = i.category /\ parent = i.parent
      OBVIOUS
    <3>2. /\ c \in Categories /\ rows[c].status = "ABSENT" /\ parent # c
          /\ parent \in Categories \cup {Nobody}
          /\ parent # Nobody => rows[parent].status # "ABSENT"
          /\ longer = [rows EXCEPT ![c] = [status |-> "ACTIVE", parent |-> parent]]
      BY <1>1, <1>3, <2>1, <3>1
    <3>3. longer \in [Categories -> CategoryRow] /\ ParentsThere(longer) /\ NoneBelowItself(longer)
      BY <1>2, <3>2, CategoryAdded, ZenonT(60)
    <3> QED BY <3>3 DEF CategoriesInv
  <2>2. CASE i.category \notin Categories
    <3>1. longer = rows
      BY <1>1, <1>2, <2>2
    <3> QED BY <1>2, <3>1 DEF CategoriesInv
  <2> QED BY <2>1, <2>2
<1>5. \A c : CategoryThere(c) => CategoryThere(c)'
  BY <1>1, <1>2 DEF CategoryThere
<1>6. \A q \in Requests : LinkSound(inflight[q])'
  <2>1. Remember(r, Answered) /\ LinkSound(Answered)'
    BY <1>1, LinkedOthers DEF End, Answered
  <2> QED BY <1>1, <1>5, <2>1, LinksKept
<1>7. TalkInv'
  BY <1>1 DEF LinksInv, TalkInv, ConversationsFit
<1>8. CausesInv' /\ DecisionsInv' /\ TypedRest'
  BY <1>1, <1>5 DEF LinksInv, CausesInv, DecisionsInv, TypedRest
<1> QED BY <1>4, <1>6, <1>7, <1>8 DEF LinksInv

LEMMA RetireCategoryLinks ==
  ASSUME InflightInv, LinksInv, NEW r \in Requests, RetireCategory(r)
  PROVE  LinksInv'
<1> PICK rows, fewer : rows = categories /\ fewer = categories'
  OBVIOUS
<1>1. PICK c \in Categories :
      /\ rows[c].status = "ACTIVE"
      /\ fewer = [rows EXCEPT ![c].status = "RETIRED"]
      /\ End(r)
      /\ UNCHANGED <<tickets, messages, rootCauses, decisions, actions, evidence, alerts>>
  BY DEF RetireCategory, supportVars
<1>2. rows \in [Categories -> CategoryRow] /\ ParentsThere(rows) /\ NoneBelowItself(rows)
  BY DEF LinksInv, CategoriesInv
<1>3. rows[c] = [status |-> rows[c].status, parent |-> rows[c].parent] /\ rows[c].parent \in Categories \cup {Nobody}
  BY <1>2 DEF CategoryRow
<1>4. /\ fewer[c] = [status |-> "RETIRED", parent |-> rows[c].parent]
      /\ \A d \in Categories : d # c => fewer[d] = rows[d]
      /\ fewer = [d \in Categories |-> fewer[d]]
  BY <1>1, <1>2, <1>3
<1>5. /\ \A d \in Categories : fewer[d].parent = rows[d].parent
      /\ \A d \in Categories : rows[d].status # "ABSENT" => fewer[d].status # "ABSENT"
      /\ fewer \in [Categories -> CategoryRow]
  BY <1>2, <1>3, <1>4 DEF CategoryRow
<1>6. ParentsThere(fewer)
  <2>1. \A d \in Categories : rows[d].parent \in Categories \cup {Nobody}
    BY <1>2 DEF CategoryRow
  <2> QED BY <1>2, <1>5, <2>1 DEF ParentsThere
<1>7. NoneBelowItself(fewer)
  BY <1>2, <1>5 DEF NoneBelowItself
<1>8. CategoriesInv'
  BY <1>5, <1>6, <1>7 DEF CategoriesInv
<1>9. \A d : CategoryThere(d) => CategoryThere(d)'
  <2>1. ASSUME NEW d, rows[d].status # "ABSENT" PROVE fewer[d].status # "ABSENT"
    BY <1>1, <1>2, <1>4, <2>1
  <2> QED BY <2>1 DEF CategoryThere
<1>10. \A q \in Requests : LinkSound(inflight[q])'
  <2>1. Remember(r, Answered) /\ LinkSound(Answered)'
    BY <1>1, LinkedOthers DEF End, Answered
  <2> QED BY <1>1, <1>9, <2>1, LinksKept
<1>11. TalkInv'
  BY <1>1 DEF LinksInv, TalkInv, ConversationsFit
<1>12. CausesInv' /\ DecisionsInv' /\ TypedRest'
  BY <1>1, <1>9 DEF LinksInv, CausesInv, DecisionsInv, TypedRest
<1> QED BY <1>8, <1>10, <1>11, <1>12 DEF LinksInv

\* A request that ends and has written root causes, decisions, actions, evidence or alerts.
LEMMA LinksWritten ==
  ASSUME InflightInv, LinksInv, NEW r \in Requests, End(r),
         UNCHANGED <<tickets, messages, categories>>,
         \A d : decisions[d] # Nobody => decisions'[d] # Nobody,
         CausesInv', DecisionsInv', TypedRest'
  PROVE  LinksInv'
<1>1. Remember(r, Answered) /\ LinkSound(Answered)'
  BY LinkedOthers DEF End, Answered
<1>2. \A q \in Requests : LinkSound(inflight[q])'
  BY <1>1, LinksKept DEF CategoryThere
<1>3. TalkInv' /\ CategoriesInv'
  BY DEF LinksInv, TalkInv, ConversationsFit, CategoriesInv
<1> QED BY <1>2, <1>3 DEF LinksInv

LEMMA CommitRootCauseLinks ==
  ASSUME InflightInv, LinksInv, NEW r \in Requests, CommitRootCause(r)
  PROVE  LinksInv'
<1> PICK i : i = inflight[r]
  OBVIOUS
<1>1. /\ i.op = "cause" /\ rootCauses' = [rootCauses EXCEPT ![i.id] = i.row] /\ End(r)
      /\ UNCHANGED <<tickets, messages, categories, decisions, actions, evidence, alerts>>
  BY DEF CommitRootCause, supportVars
<1>2. i.row \in RootCauseRow /\ CategoryThere(i.row.category)
  BY <1>1 DEF LinksInv, LinkSound
<1>3. CausesInv'
  BY <1>1, <1>2 DEF LinksInv, CausesInv, CategoryThere
<1>4. DecisionsInv' /\ TypedRest'
  BY <1>1 DEF LinksInv, DecisionsInv, TypedRest
<1> QED BY <1>1, <1>3, <1>4, LinksWritten

LEMMA AddDecisionLinks ==
  ASSUME InflightInv, LinksInv, NEW r \in Requests, AddDecision(r)
  PROVE  LinksInv'
<1>1. PICK d \in Decisions, e \in Exceptions :
      /\ decisions[d] = Nobody /\ decisions' = [decisions EXCEPT ![d] = e] /\ End(r)
      /\ UNCHANGED <<tickets, messages, categories, rootCauses, actions, evidence, alerts>>
  BY DEF AddDecision, supportVars
<1>2. e # Nobody
  BY DecidedAssumption
<1>3. \A x : decisions[x] # Nobody => decisions'[x] # Nobody
  BY <1>1, <1>2 DEF LinksInv, DecisionsInv
<1>4. DecisionsInv'
  BY <1>1, <1>3 DEF LinksInv, DecisionsInv
<1>5. CausesInv' /\ TypedRest'
  BY <1>1 DEF LinksInv, CausesInv, CategoryThere, TypedRest
<1> QED BY <1>1, <1>3, <1>4, <1>5, LinksWritten

LEMMA CommitActionLinks ==
  ASSUME FollowUpInv, LinksInv, NEW r \in Requests, CommitAction(r) \/ CompleteAction(r)
  PROVE  LinksInv'
<1> PICK i : i = inflight[r]
  OBVIOUS
<1> PICK old, new : old = actions /\ new = actions'
  OBVIOUS
<1>1. /\ End(r)
      /\ UNCHANGED <<tickets, messages, categories, rootCauses, decisions, evidence, alerts>>
  BY DEF CommitAction, CompleteAction, supportVars
<1>2. /\ \A a \in Actions : old[a] # NoAction => decisions[old[a].decision] # Nobody
      /\ old \in [Actions -> ActionRow \cup {NoAction}]
  BY DEF LinksInv, DecisionsInv, FollowUpInv, ActionsInv
<1>3. ASSUME NEW a \in Actions, new[a] # NoAction
      PROVE  decisions[new[a].decision] # Nobody
  <2>1. CASE CommitAction(r)
    <3>1. i.op = "action" /\ new = [old EXCEPT ![i.id] = i.row]
      BY <2>1 DEF CommitAction
    <3>2. decisions[i.row.decision] # Nobody
      BY <3>1 DEF LinksInv, LinkSound
    <3>3. new[a] = i.row \/ new[a] = old[a]
      BY <1>2, <3>1
    <3> QED BY <1>2, <1>3, <3>2, <3>3
  <2>2. CASE CompleteAction(r)
    <3>1. \/ new = old
          \/ new = [old EXCEPT ![i.id].status = "COMPLETED", ![i.id].by = i.user]
      BY <2>2 DEF CompleteAction
    <3>2. i.op = "complete" /\ i.id \in Actions /\ old[i.id] # NoAction
      BY <2>2 DEF CompleteAction, FollowUpInv, ActionsInv, ActionSound
    <3>3. old[i.id] \in ActionRow
      BY <1>2, <3>2
    <3>4. new[i.id].decision = old[i.id].decision
      BY <1>2, <3>1, <3>2, <3>3 DEF ActionRow
    <3>5. a # i.id => new[a] = old[a]
      BY <1>2, <3>1, <3>2
    <3> QED BY <1>2, <1>3, <3>2, <3>4, <3>5
  <2> QED BY <2>1, <2>2
<1>4. DecisionsInv'
  BY <1>1, <1>3 DEF LinksInv, DecisionsInv
<1>5. CausesInv' /\ TypedRest'
  BY <1>1 DEF LinksInv, CausesInv, CategoryThere, TypedRest
<1> QED BY <1>1, <1>4, <1>5, LinksWritten DEF FollowUpInv

LEMMA OthersLink ==
  ASSUME InflightInv, LinksInv, NEW r \in Requests, AttachEvidence(r) \/ MarkAlertRead(r)
  PROVE  LinksInv'
<1>1. /\ End(r)
      /\ UNCHANGED <<tickets, messages, categories, rootCauses, decisions, actions>>
  BY DEF AttachEvidence, MarkAlertRead, supportVars
<1>2. TypedRest'
  <2>1. CASE AttachEvidence(r)
    BY <2>1 DEF AttachEvidence, LinksInv, TypedRest
  <2>2. CASE MarkAlertRead(r)
    <3> PICK a : a = inflight[r].id
      OBVIOUS
    <3>1. /\ alerts' = [alerts EXCEPT ![a] = IF alerts[a] = 0 THEN 1 ELSE alerts[a]]
          /\ UNCHANGED evidence
      BY <2>2 DEF MarkAlertRead
    <3> QED BY <3>1 DEF LinksInv, TypedRest
  <2> QED BY <2>1, <2>2
<1>3. CausesInv' /\ DecisionsInv'
  BY <1>1 DEF LinksInv, CausesInv, CategoryThere, DecisionsInv
<1> QED BY <1>1, <1>2, <1>3, LinksWritten

\* Tickets.

LEMMA TalkKeeps ==
  ASSUME InflightInv, LinksInv, NEW r \in Requests, NEW i, Remember(r, i), LinkSound(i)', TalkInv',
         UNCHANGED <<categories, rootCauses, decisions, actions, evidence, alerts>>
  PROVE  LinksInv'
<1>1. \A q \in Requests : LinkSound(inflight[q])'
  BY LinksKept DEF CategoryThere
<1>2. CategoriesInv' /\ CausesInv' /\ DecisionsInv' /\ TypedRest'
  BY DEF LinksInv, CategoriesInv, CausesInv, CategoryThere, DecisionsInv, TypedRest
<1> QED BY <1>1, <1>2 DEF LinksInv

LEMMA MessageFits ==
  ASSUME NEW m \in DOMAIN Images, NEW attachment \in Attachments(m), NEW author \in Users,
         NEW internal \in BOOLEAN
  PROVE  [author |-> author, internal |-> internal, attachment |-> attachment] \in MessageRow
BY DEF Attachments, MessageRow

LEMMA CommitTicketLinks ==
  ASSUME FollowUpInv, LinksInv, NEW r \in Requests, CommitTicket(r), UNCHANGED followUpVars
  PROVE  LinksInv'
<1> PICK i : i = inflight[r]
  OBVIOUS
<1> PICK row : row = [driver |-> i.driver, client |-> i.client, mission |-> i.mission,
                      status |-> "OPEN", assignee |-> Nobody]
  OBVIOUS
<1> PICK first : first = [author |-> i.driver, internal |-> FALSE, attachment |-> i.attachment]
  OBVIOUS
<1>1. /\ i.op = "ticket" /\ tickets[i.ticket] = NoTicket /\ End(r)
      /\ tickets' = [tickets EXCEPT ![i.ticket] = row]
      /\ messages' = [messages EXCEPT ![i.ticket] = {first}]
  BY DEF CommitTicket
<1>2. /\ i.driver \in Drivers /\ i.mission \in DriverMissions[i.driver]
      /\ i.attachment \in Attachments(i.mission)
  BY <1>1 DEF LinksInv, LinkSound
<1>3. i.mission \in DOMAIN Images /\ i.driver \in Users
  BY <1>2, MissionsAssumption, UsersAssumption
<1>4. first \in MessageRow
  BY <1>2, <1>3, MessageFits
<1>5. row # NoTicket
  BY DEF NoTicket
<1>6. TalkInv'
  <2>1. messages' \in [Tickets -> SUBSET MessageRow]
    BY <1>1, <1>4 DEF LinksInv, TalkInv
  <2>2. ASSUME NEW t \in Tickets
        PROVE  /\ tickets'[t] = NoTicket => messages'[t] = {}
               /\ tickets'[t] # NoTicket => tickets'[t].mission \in DriverMissions[tickets'[t].driver]
               /\ \A m \in messages'[t] :
                    SaidWell(m, tickets'[t])
    <3>1. CASE t = i.ticket
      <4>1. tickets'[t] = row /\ messages'[t] = {first}
        BY <1>1, <3>1 DEF FollowUpInv, SupportInv, LinksInv, TalkInv
      <4> QED BY <1>2, <1>5, <4>1 DEF SaidWell
    <3>2. CASE t # i.ticket
      <4>1. tickets'[t] = tickets[t] /\ messages'[t] = messages[t]
        BY <1>1, <3>2 DEF FollowUpInv, SupportInv, LinksInv, TalkInv
      <4> QED BY <4>1 DEF LinksInv, TalkInv, ConversationsFit, SaidWell
    <3> QED BY <3>1, <3>2
  <2> QED BY <2>1, <2>2 DEF TalkInv, ConversationsFit, SaidWell
<1>7. Remember(r, Answered) /\ LinkSound(Answered)'
  BY <1>1, LinkedOthers DEF End, Answered
<1> QED BY <1>6, <1>7, TalkKeeps DEF FollowUpInv, followUpVars

LEMMA MessageLinks ==
  ASSUME FollowUpInv, LinksInv, NEW r \in Requests, Message(r), UNCHANGED followUpVars
  PROVE  LinksInv'
<1>1. PICK t, u, internal, attachment :
      /\ t \in Tickets /\ u \in active /\ internal \in BOOLEAN
      /\ attachment \in Attachments(tickets[t].mission)
      /\ MayRead(u, t) /\ End(r)
      /\ messages' = [messages EXCEPT ![t] = @ \cup
                        {[author |-> u, internal |-> internal /\ tickets[t].driver # u,
                          attachment |-> attachment]}]
      /\ UNCHANGED tickets
  BY DEF Message
<1> PICK hidden \in BOOLEAN : hidden <=> internal /\ tickets[t].driver # u
  OBVIOUS
<1> PICK said : said = [author |-> u, internal |-> hidden, attachment |-> attachment]
  OBVIOUS
<1>2. messages' = [messages EXCEPT ![t] = @ \cup {said}]
  <2>1. CASE hidden
    <3>1. internal /\ tickets[t].driver # u
      BY <2>1
    <3>2. (internal /\ tickets[t].driver # u) = hidden
      BY <2>1, <3>1
    <3> QED BY <1>1, <3>2
  <2>2. CASE ~hidden
    <3>2. (internal /\ tickets[t].driver # u) = hidden
      BY <2>2
    <3> QED BY <1>1, <3>2
  <2> QED BY <2>1, <2>2
<1>3. /\ tickets[t] # NoTicket /\ u \in Users
      /\ tickets[t].driver # u => Covered(u, tickets[t].client)
  BY <1>1 DEF MayRead, FollowUpInv, SupportInv
<1>4. PICK mission : mission = tickets[t].mission
  OBVIOUS
<1>5. said \in MessageRow
  <2>1. tickets[t] \in TicketRow
    BY <1>1, <1>3 DEF FollowUpInv, SupportInv
  <2>2. mission \in DOMAIN Images
    BY <1>4, <2>1, RowsAreTickets
  <2>3. attachment \in Attachments(mission) /\ u \in Users
    BY <1>1, <1>3, <1>4
  <2> QED BY <2>2, <2>3, MessageFits
<1>6. SaidWell(said, tickets[t])
  BY <1>1, <1>3 DEF SaidWell
<1>7. TalkInv'
  <2>1. messages' \in [Tickets -> SUBSET MessageRow]
    BY <1>2, <1>5 DEF LinksInv, TalkInv
  <2>2. ASSUME NEW s \in Tickets
        PROVE  /\ tickets[s] = NoTicket => messages'[s] = {}
               /\ tickets[s] # NoTicket => tickets[s].mission \in DriverMissions[tickets[s].driver]
               /\ \A m \in messages'[s] :
                    SaidWell(m, tickets[s])
    <3>1. CASE s = t
      <4>1. messages'[s] = messages[s] \cup {said}
        BY <1>2, <3>1 DEF LinksInv, TalkInv
      <4> QED BY <1>3, <1>6, <3>1, <4>1 DEF LinksInv, TalkInv, ConversationsFit, SaidWell
    <3>2. CASE s # t
      <4>1. messages'[s] = messages[s]
        BY <1>2, <3>2 DEF LinksInv, TalkInv
      <4> QED BY <4>1 DEF LinksInv, TalkInv, ConversationsFit, SaidWell
    <3> QED BY <3>1, <3>2
  <2> QED BY <1>1, <2>1, <2>2 DEF TalkInv, ConversationsFit, SaidWell
<1>8. Remember(r, Answered) /\ LinkSound(Answered)'
  BY <1>1, LinkedOthers DEF End, Answered
<1> QED BY <1>7, <1>8, TalkKeeps DEF FollowUpInv, followUpVars

LEMMA CommitAssignmentLinks ==
  ASSUME FollowUpInv, LinksInv, NEW r \in Requests, CommitAssignment(r), UNCHANGED followUpVars
  PROVE  LinksInv'
<1> PICK i : i = inflight[r]
  OBVIOUS
<1>1. /\ i.op = "assigning" /\ End(r) /\ UNCHANGED messages
      /\ tickets' = [tickets EXCEPT ![i.ticket].assignee = i.to, ![i.ticket].status = "IN_PROGRESS"]
  BY DEF CommitAssignment
<1>2. i.ticket \in Tickets /\ tickets[i.ticket] # NoTicket
  BY <1>1 DEF FollowUpInv, SupportInv, AssignmentSound
<1> PICK old, new : old = tickets[i.ticket] /\ new = tickets'[i.ticket]
  OBVIOUS
<1>3. old \in TicketRow
  BY <1>2 DEF FollowUpInv, SupportInv
<1>4. /\ new = [old EXCEPT !.assignee = i.to, !.status = "IN_PROGRESS"]
      /\ \A t \in Tickets : t # i.ticket => tickets'[t] = tickets[t]
  BY <1>1, <1>2 DEF FollowUpInv, SupportInv
<1>5. /\ DOMAIN old = {"driver", "client", "mission", "status", "assignee"}
      /\ new.driver = old.driver /\ new.mission = old.mission /\ new.client = old.client
      /\ new # NoTicket /\ old # NoTicket
  BY <1>3, <1>4, RowsAreTickets DEF NoTicket
<1>6. ASSUME NEW t \in Tickets
      PROVE  /\ tickets'[t] = NoTicket <=> tickets[t] = NoTicket
             /\ tickets[t] # NoTicket => /\ tickets'[t].driver = tickets[t].driver
                                         /\ tickets'[t].mission = tickets[t].mission
                                         /\ tickets'[t].client = tickets[t].client
  BY <1>4, <1>5
<1>7. TalkInv'
  <2>1. ASSUME NEW t \in Tickets
        PROVE  /\ tickets'[t] = NoTicket => messages[t] = {}
               /\ tickets'[t] # NoTicket => tickets'[t].mission \in DriverMissions[tickets'[t].driver]
               /\ \A m \in messages[t] :
                    SaidWell(m, tickets'[t])
    <3>1. /\ tickets[t] = NoTicket => messages[t] = {}
          /\ tickets[t] # NoTicket => tickets[t].mission \in DriverMissions[tickets[t].driver]
          /\ \A m \in messages[t] :
               SaidWell(m, tickets[t])
      BY DEF LinksInv, TalkInv, ConversationsFit, SaidWell
    <3>2. CASE tickets[t] = NoTicket
      BY <1>6, <3>1, <3>2
    <3>3. CASE tickets[t] # NoTicket
      <4>1. /\ tickets'[t] # NoTicket
            /\ tickets'[t].driver = tickets[t].driver /\ tickets'[t].mission = tickets[t].mission
            /\ tickets'[t].client = tickets[t].client
        BY <1>6, <3>3
      <4> QED BY <3>1, <3>3, <4>1 DEF SaidWell
    <3> QED BY <3>2, <3>3
  <2>2. messages' = messages /\ messages \in [Tickets -> SUBSET MessageRow]
    BY <1>1 DEF LinksInv, TalkInv
  <2> QED BY <2>1, <2>2 DEF TalkInv, ConversationsFit, SaidWell
<1>8. Remember(r, Answered) /\ LinkSound(Answered)'
  BY <1>1, LinkedOthers DEF End, Answered
<1> QED BY <1>7, <1>8, TalkKeeps DEF FollowUpInv, followUpVars

\* All together.

LEMMA LinksStart ==
  ASSUME FollowUpInv, LinksInv, NEW r \in Requests, FollowUpStart(r)
  PROVE  LinksInv'
<1>1. CASE (OpenTicket(r) \/ FindTicket(r)) /\ UNCHANGED followUpVars
  <2>1. UNCHANGED <<tickets, messages, categories, rootCauses, decisions, actions, evidence, alerts>>
    BY <1>1 DEF OpenTicket, FindTicket, supportVars, followUpVars
  <2>2. \E i : Remember(r, i) /\ LinkSound(i)
    <3>1. CASE OpenTicket(r)
      <4> PICK t, u, client, m, attachment, i :
             /\ u \in Drivers /\ m \in DriverMissions[u] /\ attachment \in Attachments(m)
             /\ i = [op |-> "ticket", locks |-> {}, ticket |-> t, driver |-> u, client |-> client,
                     mission |-> m, attachment |-> attachment]
             /\ Remember(r, i)
        BY <3>1 DEF OpenTicket, Begin
      <4> QED BY DEF LinkSound
    <3>2. CASE FindTicket(r)
      BY <3>2 DEF FindTicket, Begin, LinkSound
    <3> QED BY <1>1, <3>1, <3>2
  <2> QED BY <2>1, <2>2, LinksUntouched DEF FollowUpInv
<1>2. CASE Message(r) /\ UNCHANGED followUpVars
  BY <1>2, MessageLinks
<1>3. CASE RetireCategory(r) \/ AddDecision(r) \/ AttachEvidence(r)
  BY <1>3, RetireCategoryLinks, AddDecisionLinks, OthersLink DEF FollowUpInv
<1>4. CASE Ask(r) \/ CreateCategory(r) \/ AddRootCause(r) \/ AddAction(r) \/ ReadAction(r) \/ ReadAlert(r)
  <2>1. UNCHANGED <<tickets, messages, categories, rootCauses, decisions, actions, evidence, alerts>>
    BY <1>4 DEF Ask, CreateCategory, AddRootCause, AddAction, ReadAction, ReadAlert, supportVars,
       followUpVars
  <2>2. \E i : Remember(r, i) /\ LinkSound(i)
    <3>1. CASE Ask(r)
      <4> PICK i : Remembers(r, i) /\ i.op \in {"ask", "change"}
        BY <3>1, AskSound DEF FollowUpInv
      <4> QED BY LinkedOthers DEF Remembers
    <3>2. CASE CreateCategory(r)
      <4> PICK c, parent, i :
             /\ c \in Categories /\ parent \in Categories \cup {Nobody} /\ c # parent
             /\ parent # Nobody => categories[parent].status = "ACTIVE"
             /\ i = [op |-> "category", locks |-> {}, category |-> c, parent |-> parent]
             /\ Remember(r, i)
        BY <3>2 DEF CreateCategory, Begin
      <4> QED BY DEF LinkSound, CategoryThere
    <3>3. CASE AddRootCause(r)
      <4> PICK id, e, c, u, row, i :
             /\ e \in Exceptions /\ c \in Categories /\ u \in active \cup {Nobody}
             /\ categories[c].status = "ACTIVE"
             /\ row = [exception |-> e, category |-> c, confirmed |-> u]
             /\ i = [op |-> "cause", locks |-> {}, id |-> id, row |-> row]
             /\ Remember(r, i)
        BY <3>3 DEF AddRootCause, Begin
      <4>1. row \in RootCauseRow
        BY DEF RootCauseRow, FollowUpInv, SupportInv
      <4> QED BY <4>1 DEF LinkSound, CategoryThere
    <3>4. CASE AddAction(r)
      <4> PICK a, d, u, row, i :
             /\ decisions[d] # Nobody
             /\ row = [decision |-> d, owner |-> u, status |-> "OPEN", by |-> Nobody]
             /\ i = [op |-> "action", locks |-> {}, id |-> a, row |-> row]
             /\ Remember(r, i)
        BY <3>4 DEF AddAction, Begin
      <4> QED BY DEF LinkSound
    <3>5. CASE ReadAction(r)
      BY <3>5, LinkedOthers DEF ReadAction, Begin
    <3>6. CASE ReadAlert(r)
      BY <3>6, LinkedOthers DEF ReadAlert, Begin
    <3> QED BY <1>4, <3>1, <3>2, <3>3, <3>4, <3>5, <3>6
  <2> QED BY <2>1, <2>2, LinksUntouched DEF FollowUpInv
<1> QED BY <1>1, <1>2, <1>3, <1>4 DEF FollowUpStart, SupportStart

LEMMA LinksGoOn ==
  ASSUME FollowUpInv, LinksInv, NEW r \in Requests, FollowUpGoOn(r)
  PROVE  LinksInv'
<1>1. CASE (CommitTicket(r) \/ CommitAssignment(r)) /\ UNCHANGED followUpVars
  BY <1>1, CommitTicketLinks, CommitAssignmentLinks
<1>2. CASE \/ /\ ListOpenAssignments(r) \/ EndAssignments(r) \/ CreateAssignment(r)
              /\ UNCHANGED followUpVars
           \/ LockException(r) \/ CommitChange(r)
           \/ (Rollback(r) /\ UNCHANGED <<supportVars, followUpVars>>)
  <2>1. UNCHANGED <<tickets, messages, categories, rootCauses, decisions, actions, evidence, alerts>>
    BY <1>2 DEF ListOpenAssignments, EndAssignments, CreateAssignment, LockException, CommitChange,
       supportVars, followUpVars
  <2>2. \E i : Remember(r, i) /\ i.op \in {"ending", "ended", "assigning", "change", "answered"}
    <3>1. CASE ListOpenAssignments(r)
      BY <3>1 DEF ListOpenAssignments
    <3>2. CASE EndAssignments(r)
      BY <3>2 DEF EndAssignments
    <3>5. CASE CreateAssignment(r)
      BY <3>5 DEF CreateAssignment
    <3>3. CASE LockException(r)
      BY <3>3 DEF LockException
    <3>4. CASE CommitChange(r) \/ Rollback(r)
      BY <3>4, EndRemembers DEF CommitChange, Rollback, Remembers
    <3> QED BY <1>2, <3>1, <3>2, <3>3, <3>4, <3>5
  <2> QED BY <2>1, <2>2, LinkedOthers, LinksUntouched DEF FollowUpInv
<1>3. CASE CommitCategory(r) \/ CommitRootCause(r) \/ CommitAction(r) \/ CompleteAction(r)
           \/ MarkAlertRead(r)
  BY <1>3, CommitCategoryLinks, CommitRootCauseLinks, CommitActionLinks, OthersLink DEF FollowUpInv
<1>4. \/ (CommitTicket(r) \/ CommitAssignment(r)) /\ UNCHANGED followUpVars
      \/ /\ ListOpenAssignments(r) \/ EndAssignments(r) \/ CreateAssignment(r)
         /\ UNCHANGED followUpVars
      \/ LockException(r) \/ CommitChange(r) \/ CommitCategory(r) \/ CommitRootCause(r)
      \/ CommitAction(r) \/ CompleteAction(r) \/ MarkAlertRead(r)
      \/ (Rollback(r) /\ UNCHANGED <<supportVars, followUpVars>>)
  BY DEF FollowUpGoOn, SupportGoOn
<1> QED BY <1>1, <1>2, <1>3, <1>4

LEMMA LinksStep == FollowUpInv /\ LinksInv /\ [FollowUpNext]_recordVars => LinksInv'
<1> SUFFICES ASSUME FollowUpInv, LinksInv, [FollowUpNext]_recordVars PROVE LinksInv'
  OBVIOUS
<1>1. CASE UNCHANGED recordVars \/ (Deactivate /\ UNCHANGED followUpVars) \/ ResolveElsewhere
  <2>1. UNCHANGED <<inflight, tickets, messages, categories, rootCauses, decisions, actions,
                    evidence, alerts>>
    BY <1>1 DEF recordVars, supportVars, followUpVars, Deactivate, ResolveElsewhere
  <2>2. TalkInv' /\ CategoriesInv'
    BY <2>1 DEF LinksInv, TalkInv, ConversationsFit, CategoriesInv
  <2>3. CausesInv' /\ DecisionsInv' /\ TypedRest'
    BY <2>1 DEF LinksInv, CausesInv, CategoryThere, DecisionsInv, TypedRest
  <2>4. \A r \in Requests : LinkSound(inflight[r])'
    BY <2>1 DEF LinksInv, LinkSound, CategoryThere
  <2> QED BY <2>2, <2>3, <2>4 DEF LinksInv
<1>2. CASE \E r \in Requests : FollowUpStart(r) \/ FollowUpGoOn(r)
  BY <1>2, LinksStart, LinksGoOn
<1>3. \/ UNCHANGED recordVars \/ (Deactivate /\ UNCHANGED followUpVars)
      \/ ResolveElsewhere
      \/ \E r \in Requests : FollowUpStart(r) \/ FollowUpGoOn(r)
  BY DEF FollowUpNext
<1> QED BY <1>1, <1>2, <1>3

LEMMA LinksInit == FollowUpInit => LinksInv
<1> SUFFICES ASSUME FollowUpInit PROVE LinksInv
  OBVIOUS
<1>1. \A r \in Requests : LinkSound(inflight[r])
  BY DEF FollowUpInit, TransactionsInit, Waiting, LinkSound
<1>2. TalkInv
  <2>1. /\ tickets = [t \in Tickets |-> IF t \in DOMAIN Assigned THEN Assigned[t] ELSE NoTicket]
        /\ messages = [t \in Tickets |-> {}]
    BY DEF FollowUpInit, SupportInit
  <2> QED BY <2>1, AssignedAssumption DEF TalkInv, ConversationsFit
<1>3. CategoriesInv
  <2>1. categories = [c \in Categories |->
                       [status |-> IF c \in Classified THEN "ACTIVE" ELSE "ABSENT", parent |-> Nobody]]
    BY DEF FollowUpInit
  <2> PICK rows : rows = categories
    OBVIOUS
  <2>2. rows \in [Categories -> CategoryRow] /\ \A c \in Categories : rows[c].parent = Nobody
    BY <2>1 DEF CategoryRow
  <2>3. ParentsThere(rows) /\ NoneBelowItself(rows)
    BY <2>2, DecidedAssumption DEF ParentsThere, NoneBelowItself
  <2> QED BY <2>2, <2>3 DEF CategoriesInv
<1>4. CausesInv /\ TypedRest
  BY DEF FollowUpInit, CausesInv, TypedRest
<1>5. DecisionsInv
  <2>1. decisions = [d \in Decisions |-> IF d \in DOMAIN DecidedOn THEN DecidedOn[d] ELSE Nobody]
    BY DEF FollowUpInit
  <2>2. actions = [a \in Actions |-> IF a \in DOMAIN Undertaken THEN Undertaken[a] ELSE NoAction]
    BY DEF FollowUpInit
  <2>3. ASSUME NEW a \in Actions, actions[a] # NoAction
        PROVE  decisions[actions[a].decision] # Nobody
    <3>1. /\ actions[a] = Undertaken[a] /\ Undertaken[a] \in ActionRow
          /\ Undertaken[a].decision \in DOMAIN DecidedOn
      BY <2>2, <2>3, UndertakenAssumption
    <3>2. Undertaken[a].decision \in Decisions
      BY <3>1 DEF ActionRow
    <3> QED BY <2>1, <3>1, <3>2, DecidedAssumption
  <2> QED BY <2>1, <2>3, DecidedAssumption DEF DecisionsInv
<1> QED BY <1>1, <1>2, <1>3, <1>4, <1>5 DEF LinksInv

\* What is said on a ticket stays among its driver and those whose grants of
\* support.read cover its client, with the images of the driver's own mission and
\* nothing the driver cannot see among the driver's own words, whoever answers and
\* assigns at a time.
THEOREM ConversationsSafe == FollowUpSpec => []ConversationsFit
<1>1. LinksInv => ConversationsFit
  BY DEF LinksInv, TalkInv
<1> QED
  BY FollowUpInvInit, FollowUpStep, LinksInit, LinksStep, <1>1, PTL DEF FollowUpSpec

\* ExceptionsService looks categories and decisions up before it writes what
\* refers to them: no reference dangles, and no category is below itself,
\* although two may be created at a time.
THEOREM LinksSafe == FollowUpSpec => []RecordsLinked
<1>1. LinksInv => RecordsLinked
  <2> SUFFICES ASSUME LinksInv PROVE RecordsLinked
    OBVIOUS
  <2>1. ParentsThere(categories) /\ NoneBelowItself(categories)
    BY DEF LinksInv, CategoriesInv
  <2>2. \A id \in RootCauses :
          rootCauses[id] # NoRow => categories[rootCauses[id].category].status # "ABSENT"
    BY DEF LinksInv, CausesInv, CategoryThere
  <2>3. \A a \in Actions : actions[a] # NoAction => decisions[actions[a].decision] # Nobody
    BY DEF LinksInv, DecisionsInv
  <2> QED BY <2>1, <2>2, <2>3 DEF RecordsLinked, ParentsThere, NoneBelowItself
<1> QED
  BY FollowUpInvInit, FollowUpStep, LinksInit, LinksStep, <1>1, PTL DEF FollowUpSpec

\* Every row has the columns of its table.
THEOREM FollowUpTypes == FollowUpSpec => []FollowUpTypeOK
<1>1. FollowUpInv /\ LinksInv => FollowUpTypeOK
  BY DEF FollowUpInv, SupportInv, ExceptionsInv, ExceptionsTyped, ActionsInv, LinksInv, TalkInv,
     CategoriesInv, CausesInv, DecisionsInv, TypedRest, FollowUpTypeOK, SupportTypeOK
<1> QED
  BY FollowUpInvInit, FollowUpStep, LinksInit, LinksStep, <1>1, PTL DEF FollowUpSpec

===============================================================================
