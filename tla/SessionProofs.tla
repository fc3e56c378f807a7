----------------------------- MODULE SessionProofs -----------------------------
(***************************************************************************)
(* A logged-in tab listens to the change events or is about to, for any    *)
(* number of tabs and tokens, however exchanges overlap or fail.  Until    *)
(* one does, there is one exchange at a time, and the token on its way is  *)
(* the one that the server knows.                                          *)
(***************************************************************************)
EXTENDS Session, TLAPS

--------------------------------------------------------------------------------
(* What is invariant *)

\* A login, or the bootstrap, is under way only in a tab that is not logged in: an answer
\* that brings a token does not bring it to a session whose stream is down.
EnteringFromOutside == \A t \in Tab : entering[t] # None => status[t] # "authenticated"

IInv ==
    /\ status \in [Tab -> {"loading", "authenticated", "anonymous"}]
    /\ access \in [Tab -> BOOLEAN]
    /\ stream \in [Tab -> BOOLEAN]
    /\ timer \in [Tab -> {"none", "set", "joined", "closed"}]
    /\ entering = [t \in Tab |-> entering[t]]
    /\ EnteringFromOutside
    /\ ListensOrReconnects

\* The parts of the state that the invariant speaks of.
heard == <<status, access, stream, timer, entering>>

--------------------------------------------------------------------------------

LEMMA InitListens == Init => IInv
BY DEF Init, IInv, EnteringFromOutside, ListensOrReconnects

\* The answer to a refresh, or its failure: the token decides over status and stream alike.
LEMMA SettlingListens ==
    ASSUME IInv, NEW t \in Tab, NEW token, RefreshSettles(t, token)
    PROVE  IInv'
BY DEF IInv, EnteringFromOutside, ListensOrReconnects, RefreshSettles, SetSession,
       StatusAfter, StreamAfter, TimerAfter

LEMMA StepListens == IInv /\ [Next]_vars => IInv'
<1> SUFFICES ASSUME IInv, [Next]_vars PROVE IInv'
  OBVIOUS
<1>1. CASE UNCHANGED heard
  BY <1>1 DEF heard, IInv, EnteringFromOutside, ListensOrReconnects
<1>2. ASSUME NEW t \in Tab, RefreshAnswered(t) \/ RefreshFails(t)
      PROVE  IInv'
  BY <1>2, SettlingListens DEF RefreshAnswered, RefreshFails
<1>3. ASSUME NEW t \in Tab,
             RefreshHandled(t) \/ Interval(t) \/ LogoutHandled(t) \/ SignOut(t)
                \/ ChangeOwnPassword(t) \/ WrongPassword(t) \/ Call(t) \/ CallAnswered(t)
                \/ CallUnauthorized(t) \/ CallRefused(t)
      PROVE  UNCHANGED heard
  BY <1>3 DEF heard, RefreshHandled, Interval, LogoutHandled, SignOut, ChangeOwnPassword,
              WrongPassword, Call, CallAnswered, CallUnauthorized, CallRefused
<1>4. ASSUME NEW t \in Tab,
             Login(t) \/ LoginHandled(t) \/ LoginAnswered(t) \/ LoginFails(t)
                \/ Entered(t) \/ NotEntered(t)
      PROVE  IInv'
  <2> USE DEF IInv, EnteringFromOutside, ListensOrReconnects
  <2>1. CASE Login(t)          BY <2>1 DEF Login
  <2>2. CASE LoginHandled(t)   BY <2>2 DEF LoginHandled
  <2>3. CASE LoginAnswered(t)  BY <2>3 DEF LoginAnswered, SetSession, StatusAfter
  <2>4. CASE LoginFails(t)     BY <2>4 DEF LoginFails
  <2>5. CASE Entered(t)        BY <2>5 DEF Entered
  <2>6. CASE NotEntered(t)     BY <2>6 DEF NotEntered
  <2> QED  BY <1>4, <2>1, <2>2, <2>3, <2>4, <2>5, <2>6
<1>5. ASSUME NEW t \in Tab, NEW removed \in BOOLEAN, LogoutEnds(t, removed)
      PROVE  IInv'
  BY <1>5 DEF LogoutEnds, StreamAfter, IInv, EnteringFromOutside, ListensOrReconnects
<1>6. ASSUME NEW t \in Tab, StreamError(t) \/ TimerFires(t) \/ Reload(t)
      PROVE  IInv'
  <2> USE DEF IInv, EnteringFromOutside, ListensOrReconnects
  <2>1. CASE StreamError(t)  BY <2>1 DEF StreamError
  <2>2. CASE TimerFires(t)   BY <2>2 DEF TimerFires
  <2>3. CASE Reload(t)       BY <2>3 DEF Reload
  <2> QED  BY <1>6, <2>1, <2>2, <2>3
<1>7. CASE RevokedElsewhere
  BY <1>7, <1>1 DEF RevokedElsewhere, heard
<1>8. CASE UNCHANGED vars
  BY <1>8, <1>1 DEF vars, heard
<1> QED  BY <1>1, <1>2, <1>3, <1>4, <1>5, <1>6, <1>7, <1>8 DEF Next

\* "refresh and reconnect" (events.ts): a logged-in tab that has an access token has an
\* open EventSource, or the timer is set or the refresh is awaited that will open one;
\* through every login, refresh, failure, reload and logout of any of the tabs.
THEOREM AlwaysListening == Spec => []ListensOrReconnects
<1>1. IInv => ListensOrReconnects
  BY DEF IInv
<1> QED  BY <1>1, InitListens, StepListens, PTL DEF Spec

--------------------------------------------------------------------------------
(* Until an exchange is disturbed there is one at a time *)

\* Tokens are random: there is one that nobody holds.
TokensSuffice == \E token \in Token : token \notin Held

Typed ==
    /\ live \subseteq Token
    /\ cookie \in MaybeToken
    /\ status \in [Tab -> {"loading", "authenticated", "anonymous"}]
    /\ access \in [Tab -> BOOLEAN]
    /\ flight \in [Tab -> Exchange({"sent", "answered"})]
    /\ entering \in [Tab -> Exchange({"sent", "answered", "me"})]
    /\ leaving \in [Tab -> Exchange({"sent", "answered"})]
    /\ disturbed \in BOOLEAN

LoggingIn(t) == entering[t] # None /\ entering[t].phase # "me"

OneAtATime ==
    \A t, u \in Tab :
        /\ flight[t] # None /\ flight[u] # None => t = u
        /\ LoggingIn(t) /\ LoggingIn(u) => t = u
        /\ leaving[t] # None /\ leaving[u] # None => t = u
        /\ flight[t] # None => ~LoggingIn(u) /\ leaving[u] = None
        /\ LoggingIn(t) => leaving[u] = None

\* Nobody exchanges or revokes the cookie: it is good.
CookieKept ==
    (\A t \in Tab : flight[t] = None /\ leaving[t] = None) => cookie = None \/ cookie \in live

\* A refresh carries the cookie, and brings its successor.
RefreshKnows ==
    \A t \in Tab : flight[t] # None =>
        /\ status[t] # "anonymous"
        /\ flight[t].phase = "sent" => flight[t].token = cookie /\ cookie \in live \cup {None}
        /\ flight[t].phase = "answered" =>
                flight[t].token \in live \/ (flight[t].token = None /\ cookie = None)

LoginKnows ==
    \A t \in Tab : LoggingIn(t) =>
        /\ ~access[t]
        /\ entering[t].phase = "answered" => entering[t].token \in live

OutsideHasNoToken ==
    \A t \in Tab : status[t] = "anonymous" /\ entering[t] = None => ~access[t]

Calm == OneAtATime /\ CookieKept /\ RefreshKnows /\ LoginKnows /\ OutsideHasNoToken

CInv == Typed /\ EnteringFromOutside /\ (~disturbed => Calm)

--------------------------------------------------------------------------------

LEMMA FreshIsNew ==
    ASSUME TokensSuffice
    PROVE  Fresh \in Token /\ Fresh \notin Held
BY DEF TokensSuffice, Fresh

\* An exchange that overlaps no other begins when there is none.
LEMMA NoOverlap ==
    ASSUME NEW t \in Tab, NEW kind \in {"refresh", "login", "logout"}, ~Overlaps(t, kind),
           NEW u \in Tab
    PROVE  /\ flight[u] # None => u = t /\ kind = "refresh"
           /\ LoggingIn(u) => u = t /\ kind = "login"
           /\ leaving[u] # None => u = t /\ kind = "logout"
<1>1. flight[u] # None => <<u, "refresh">> \in Traffic
  BY DEF Traffic
<1>2. LoggingIn(u) => <<u, "login">> \in Traffic
  BY DEF Traffic, LoggingIn
<1>3. leaving[u] # None => <<u, "logout">> \in Traffic
  BY DEF Traffic
<1>4. \A x \in Traffic : x = <<t, kind>>
  BY DEF Overlaps
<1> QED  BY <1>1, <1>2, <1>3, <1>4

LEMMA NoTraffic ==
    ASSUME Traffic = {}, NEW u \in Tab
    PROVE  flight[u] = None /\ ~LoggingIn(u) /\ leaving[u] = None
<1>1. flight[u] # None => <<u, "refresh">> \in Traffic
  BY DEF Traffic
<1>2. LoggingIn(u) => <<u, "login">> \in Traffic
  BY DEF Traffic, LoggingIn
<1>3. leaving[u] # None => <<u, "logout">> \in Traffic
  BY DEF Traffic
<1> QED  BY <1>1, <1>2, <1>3

\* What is forgotten is not the cookie.
LEMMA CookieHeld ==
    ASSUME OnlyHeld
    PROVE  /\ live' \subseteq live
           /\ cookie' # None /\ cookie' \in live => cookie' \in live'
BY DEF OnlyHeld, Held

LEMMA InitCalm == Init => CInv
<1> SUFFICES ASSUME Init PROVE CInv
  OBVIOUS
<1>1. Typed
  BY DEF Init, Typed, MaybeToken, Exchange
<1>2. EnteringFromOutside /\ Calm
  BY DEF Init, EnteringFromOutside, Calm, OneAtATime, CookieKept, RefreshKnows, LoginKnows,
         OutsideHasNoToken, LoggingIn
<1> QED  BY <1>1, <1>2 DEF CInv

\* A step that starts a refresh in a tab, or joins the one under way there.
LEMMA RefreshCalm ==
    ASSUME CInv, NEW t \in Tab, Refresh(t),
           UNCHANGED <<live, cookie, status, access, entering, leaving>>
    PROVE  CInv'
<1>1. CASE UNCHANGED <<flight, disturbed>>
  BY <1>1 DEF CInv, Typed, EnteringFromOutside, Calm, OneAtATime, CookieKept, RefreshKnows,
              LoginKnows, OutsideHasNoToken, LoggingIn
<1>2. CASE ~Refreshing(t)
  <2>1. /\ flight' = [flight EXCEPT ![t] = [phase |-> "sent", token |-> cookie]]
        /\ disturbed' = (disturbed \/ Overlaps(t, "refresh") \/ status[t] # "authenticated")
    BY <1>2 DEF Refresh
  <2>2. [phase |-> "sent", token |-> cookie] # None
    BY NoneAssumption DEF CInv, Typed, Carrying
  <2>3. Typed'
    BY <2>1 DEF CInv, Typed, Exchange, Carrying, Overlaps
  <2>4. EnteringFromOutside'
    BY DEF CInv, EnteringFromOutside
  <2>5. ASSUME ~disturbed'
        PROVE  Calm'
    <3>1. ~disturbed /\ ~Overlaps(t, "refresh") /\ status[t] = "authenticated"
      BY <2>1, <2>5
    <3>2. \A u \in Tab : flight[u] = None /\ ~LoggingIn(u) /\ leaving[u] = None
      BY <3>1, <1>2, NoOverlap DEF Refreshing
    <3>3. OneAtATime'
      BY <3>2, <2>1, <2>2 DEF OneAtATime, LoggingIn, CInv, Typed
    <3>4. CookieKept' /\ RefreshKnows'
      BY <3>1, <3>2, <2>1, <2>2 DEF CookieKept, RefreshKnows, CInv, Calm, Typed
    <3>5. LoginKnows' /\ OutsideHasNoToken'
      BY <3>1 DEF LoginKnows, OutsideHasNoToken, LoggingIn, CInv, Calm
    <3> QED  BY <3>3, <3>4, <3>5 DEF Calm
  <2> QED  BY <2>3, <2>4, <2>5 DEF CInv
<1> QED  BY <1>1, <1>2 DEF Refresh

\* A step that starts a logout in a tab, or finds one under way.
LEMMA LogoutCalm ==
    ASSUME CInv, NEW t \in Tab, BeginLogout(t),
           UNCHANGED <<live, cookie, status, access, flight, entering>>
    PROVE  CInv'
<1>1. CASE leaving[t] # None
  <2>1. leaving' = leaving
    BY <1>1 DEF BeginLogout, CInv, Typed
  <2> QED
    BY <2>1 DEF BeginLogout, Overlaps, CInv, Typed, EnteringFromOutside, Calm, OneAtATime,
                CookieKept, RefreshKnows, LoginKnows, OutsideHasNoToken, LoggingIn
<1>2. CASE leaving[t] = None
  <2>1. /\ leaving' = [leaving EXCEPT ![t] = [phase |-> "sent", token |-> cookie]]
        /\ disturbed' = (disturbed \/ Overlaps(t, "logout"))
    BY <1>2 DEF BeginLogout, CInv, Typed
  <2>2. [phase |-> "sent", token |-> cookie] # None
    BY NoneAssumption DEF CInv, Typed, Carrying
  <2>3. Typed'
    BY <2>1 DEF CInv, Typed, Exchange, Carrying, Overlaps
  <2>4. EnteringFromOutside'
    BY DEF CInv, EnteringFromOutside
  <2>5. ASSUME ~disturbed'
        PROVE  Calm'
    <3>1. ~disturbed /\ ~Overlaps(t, "logout")
      BY <2>1, <2>5
    <3>2. \A u \in Tab : flight[u] = None /\ ~LoggingIn(u) /\ leaving[u] = None
      BY <3>1, <1>2, NoOverlap
    <3>3. OneAtATime' /\ CookieKept'
      BY <3>2, <2>1, <2>2 DEF OneAtATime, CookieKept, LoggingIn, CInv, Typed
    <3>4. RefreshKnows' /\ LoginKnows' /\ OutsideHasNoToken'
      BY <3>1 DEF RefreshKnows, LoginKnows, OutsideHasNoToken, LoggingIn, CInv, Calm
    <3> QED  BY <3>3, <3>4 DEF Calm
  <2> QED  BY <2>3, <2>4, <2>5 DEF CInv
<1> QED  BY <1>1, <1>2

--------------------------------------------------------------------------------
(* The exchanges at the server *)

LEMMA RefreshHandledCalm ==
    ASSUME CInv, TokensSuffice, NEW t \in Tab, RefreshHandled(t)
    PROVE  CInv'
<1>1. PICK token \in MaybeToken :
        /\ flight' = [flight EXCEPT ![t] = [phase |-> "answered", token |-> token]]
        /\ flight[t].token \in live =>
                token \in Token /\ live' = (live \ {flight[t].token}) \cup {token}
        /\ flight[t].token \notin live => token = None /\ live' = live
  BY FreshIsNew DEF RefreshHandled, MaybeToken
<1>2. [phase |-> "answered", token |-> token] \in Carrying({"sent", "answered"})
  BY DEF Carrying
<1>3. [phase |-> "answered", token |-> token] # None
  BY NoneAssumption DEF Carrying
<1>4. /\ flight[t] # None /\ flight[t].phase = "sent"
      /\ UNCHANGED <<cookie, status, access, entering, leaving, disturbed>>
  BY DEF RefreshHandled
<1>5. Typed'
  BY <1>1, <1>2, <1>4 DEF CInv, Typed, Exchange
<1>6. EnteringFromOutside'
  BY <1>4 DEF CInv, EnteringFromOutside
<1>7. ASSUME ~disturbed'
      PROVE  Calm'
  <2>1. Calm
    BY <1>4, <1>7 DEF CInv
  <2>2. \A u \in Tab : u # t => flight'[u] = flight[u] /\ flight[u] = None
    BY <1>1, <1>4, <2>1 DEF Calm, OneAtATime, CInv, Typed
  <2>3. flight'[t] = [phase |-> "answered", token |-> token]
    BY <1>1 DEF CInv, Typed
  <2>4. OneAtATime'
    BY <2>1, <2>2, <2>3, <1>3, <1>4 DEF Calm, OneAtATime, LoggingIn
  <2>5. CookieKept'
    BY <2>3, <1>3 DEF CookieKept
  <2>6. token \in live' \/ (token = None /\ cookie' = None)
    BY <2>1, <1>1, <1>4 DEF Calm, RefreshKnows
  <2>7. RefreshKnows'
    BY <2>1, <2>2, <2>3, <2>6, <1>4 DEF Calm, RefreshKnows
  <2>8. LoginKnows' /\ OutsideHasNoToken'
    BY <2>1, <1>4 DEF Calm, LoginKnows, OutsideHasNoToken, LoggingIn, OneAtATime
  <2> QED  BY <2>4, <2>5, <2>7, <2>8 DEF Calm
<1> QED  BY <1>5, <1>6, <1>7 DEF CInv

LEMMA LoginHandledCalm ==
    ASSUME CInv, TokensSuffice, NEW t \in Tab, LoginHandled(t)
    PROVE  CInv'
<1>1. PICK token \in Token :
        /\ entering' = [entering EXCEPT ![t] = [phase |-> "answered", token |-> token]]
        /\ live' = live \cup {token}
  BY FreshIsNew DEF LoginHandled
<1>2. [phase |-> "answered", token |-> token] \in Carrying({"sent", "answered", "me"})
  BY DEF Carrying, MaybeToken
<1>3. [phase |-> "answered", token |-> token] # None
  BY <1>2, NoneAssumption
<1>4. /\ entering[t] # None /\ entering[t].phase = "sent"
      /\ UNCHANGED <<cookie, status, access, flight, leaving, disturbed>>
  BY DEF LoginHandled
<1>5. Typed'
  BY <1>1, <1>2, <1>4 DEF CInv, Typed, Exchange
<1>6. \A u \in Tab : u # t => entering'[u] = entering[u]
  BY <1>1 DEF CInv, Typed
<1>7. entering'[t] = [phase |-> "answered", token |-> token]
  BY <1>1 DEF CInv, Typed
<1>8. EnteringFromOutside'
  BY <1>4, <1>6, <1>7, <1>3 DEF CInv, EnteringFromOutside
<1>9. \A u \in Tab : LoggingIn(u)' <=> LoggingIn(u)
  BY <1>3, <1>4, <1>6, <1>7 DEF LoggingIn
<1>10. ASSUME ~disturbed'
       PROVE  Calm'
  <2>1. Calm
    BY <1>4, <1>10 DEF CInv
  <2>2. OneAtATime'
    BY <2>1, <1>4, <1>9 DEF Calm, OneAtATime
  <2>3. CookieKept' /\ RefreshKnows'
    BY <2>1, <1>1, <1>4 DEF Calm, CookieKept, RefreshKnows
  <2>4. LoginKnows'
    BY <2>1, <1>1, <1>4, <1>6, <1>7, <1>9 DEF Calm, LoginKnows, LoggingIn
  <2>5. OutsideHasNoToken'
    BY <2>1, <1>3, <1>4, <1>6, <1>7 DEF Calm, OutsideHasNoToken
  <2> QED  BY <2>2, <2>3, <2>4, <2>5 DEF Calm
<1> QED  BY <1>5, <1>8, <1>10 DEF CInv

LEMMA LogoutHandledCalm ==
    ASSUME CInv, NEW t \in Tab, LogoutHandled(t)
    PROVE  CInv'
<1>1. /\ leaving[t] # None
      /\ live' \subseteq live
      /\ leaving' = [leaving EXCEPT ![t] = [phase |-> "answered", token |-> None]]
      /\ UNCHANGED <<cookie, status, access, flight, entering, disturbed>>
  BY DEF LogoutHandled
<1>2. [phase |-> "answered", token |-> None] \in Carrying({"sent", "answered"})
  BY DEF Carrying, MaybeToken
<1>3. [phase |-> "answered", token |-> None] # None
  BY NoneAssumption DEF Carrying, MaybeToken
<1>4. Typed'
  BY <1>1, <1>2 DEF CInv, Typed, Exchange
<1>5. EnteringFromOutside'
  BY <1>1 DEF CInv, EnteringFromOutside
<1>6. ASSUME ~disturbed'
      PROVE  Calm'
  <2>1. Calm
    BY <1>1, <1>6 DEF CInv
  <2>2. \A u \in Tab : leaving'[u] # None <=> leaving[u] # None
    BY <1>1, <1>3 DEF CInv, Typed
  <2>3. \A u \in Tab : flight[u] = None /\ ~LoggingIn(u)
    BY <2>1, <1>1 DEF Calm, OneAtATime
  <2>4. OneAtATime'
    BY <2>1, <2>2, <1>1 DEF Calm, OneAtATime, LoggingIn
  <2>5. CookieKept' /\ RefreshKnows' /\ LoginKnows' /\ OutsideHasNoToken'
    BY <2>1, <2>2, <2>3, <1>1
    DEF Calm, CookieKept, RefreshKnows, LoginKnows, OutsideHasNoToken, LoggingIn
  <2> QED  BY <2>4, <2>5 DEF Calm
<1> QED  BY <1>4, <1>5, <1>6 DEF CInv

--------------------------------------------------------------------------------
(* Their answers *)

LEMMA RefreshAnsweredCalm ==
    ASSUME CInv, NEW t \in Tab, RefreshAnswered(t)
    PROVE  CInv'
<1> DEFINE token == flight[t].token
<1>1. /\ flight[t] # None /\ flight[t].phase = "answered"
      /\ flight' = [flight EXCEPT ![t] = None]
      /\ cookie' = token
      /\ access' = [access EXCEPT ![t] = (token # None)]
      /\ status' = [status EXCEPT ![t] = IF token = None THEN "anonymous" ELSE status[t]]
      /\ entering' = [entering EXCEPT ![t] =
            IF status[t] = "loading" /\ token # None
            THEN [phase |-> "me", token |-> None] ELSE @]
      /\ UNCHANGED <<leaving, disturbed>>
      /\ OnlyHeld
  BY DEF RefreshAnswered, CookieFrom, RefreshSettles, SetSession, StatusAfter
<1>2. token \in MaybeToken
  BY <1>1 DEF CInv, Typed, Exchange, Carrying
<1>3. /\ [phase |-> "me", token |-> None] \in Carrying({"sent", "answered", "me"})
      /\ [phase |-> "me", token |-> None].phase = "me"
  BY DEF Carrying, MaybeToken
<1>4. [phase |-> "me", token |-> None] # None
  BY <1>3, NoneAssumption
<1>5. live' \subseteq live /\ (cookie' # None /\ cookie' \in live => cookie' \in live')
  BY <1>1, CookieHeld
<1>6. Typed'
  BY <1>1, <1>2, <1>3, <1>5 DEF CInv, Typed, Exchange
<1> HIDE DEF token
<1>7. \A u \in Tab : u # t =>
        /\ flight'[u] = flight[u] /\ entering'[u] = entering[u]
        /\ status'[u] = status[u] /\ access'[u] = access[u]
  BY <1>1 DEF CInv, Typed
<1>8. /\ flight'[t] = None
      /\ access'[t] = (token # None)
      /\ token = None => status'[t] = "anonymous"
      /\ token # None => status'[t] = status[t]
      /\ \/ status[t] = "loading" /\ token # None /\ entering'[t] = [phase |-> "me", token |-> None]
         \/ ~(status[t] = "loading" /\ token # None) /\ entering'[t] = entering[t]
  BY <1>1 DEF CInv, Typed
<1>9. EnteringFromOutside'
  BY <1>7, <1>8 DEF CInv, EnteringFromOutside
<1>10. ASSUME ~disturbed'
       PROVE  Calm'
  <2>1. Calm
    BY <1>1, <1>10 DEF CInv
  <2>2. \A u \in Tab : ~LoggingIn(u) /\ leaving[u] = None /\ (u # t => flight[u] = None)
    BY <2>1, <1>1 DEF Calm, OneAtATime
  <2>3. \A u \in Tab : ~LoggingIn(u)' /\ leaving'[u] = None /\ flight'[u] = None
    BY <2>2, <1>1, <1>3, <1>7, <1>8 DEF LoggingIn
  <2>4. token \in live \/ token = None
    BY <2>1, <1>1 DEF Calm, RefreshKnows, token
  <2>5. OneAtATime' /\ CookieKept' /\ RefreshKnows' /\ LoginKnows'
    BY <2>3, <2>4, <1>1, <1>5 DEF OneAtATime, CookieKept, RefreshKnows, LoginKnows, token
  <2>6. status[t] # "anonymous"
    BY <2>1, <1>1 DEF Calm, RefreshKnows
  <2>7. OutsideHasNoToken'
    BY <2>1, <2>6, <1>7, <1>8 DEF Calm, OutsideHasNoToken
  <2> QED  BY <2>5, <2>7 DEF Calm
<1> QED  BY <1>6, <1>9, <1>10 DEF CInv

LEMMA RefreshFailsCalm ==
    ASSUME CInv, NEW t \in Tab, RefreshFails(t)
    PROVE  CInv'
<1>1. /\ flight' = [flight EXCEPT ![t] = None]
      /\ access' = [access EXCEPT ![t] = FALSE]
      /\ status' = [status EXCEPT ![t] = "anonymous"]
      /\ entering' = [entering EXCEPT ![t] = @]
      /\ disturbed' = TRUE
      /\ UNCHANGED <<cookie, leaving>>
      /\ live' \subseteq live
  BY CookieHeld DEF RefreshFails, RefreshSettles, SetSession, StatusAfter
<1> QED  BY <1>1 DEF CInv, Typed, Exchange, EnteringFromOutside

LEMMA LoginCalm ==
    ASSUME CInv, NEW t \in Tab, Login(t)
    PROVE  CInv'
<1>1. /\ status[t] = "anonymous" /\ entering[t] = None
      /\ entering' = [entering EXCEPT ![t] = [phase |-> "sent", token |-> None]]
      /\ disturbed' = (disturbed \/ Overlaps(t, "login"))
      /\ UNCHANGED <<live, cookie, status, access, flight, leaving>>
  BY DEF Login
<1>2. [phase |-> "sent", token |-> None] \in Carrying({"sent", "answered", "me"})
  BY DEF Carrying, MaybeToken
<1>3. Typed'
  BY <1>1, <1>2 DEF CInv, Typed, Exchange, Overlaps
<1>4. /\ \A u \in Tab : u # t => entering'[u] = entering[u]
      /\ entering'[t] = [phase |-> "sent", token |-> None]
  BY <1>1 DEF CInv, Typed
<1>5. EnteringFromOutside'
  BY <1>1, <1>4 DEF CInv, EnteringFromOutside
<1>6. ASSUME ~disturbed'
      PROVE  Calm'
  <2>1. Calm /\ ~Overlaps(t, "login")
    BY <1>1, <1>6 DEF CInv
  <2>2. \A u \in Tab : flight[u] = None /\ leaving[u] = None /\ ~LoggingIn(u)
    BY <2>1, <1>1, NoOverlap DEF LoggingIn
  <2>3. \A u \in Tab : LoggingIn(u)' => u = t
    BY <2>2, <1>4 DEF LoggingIn
  <2>4. OneAtATime' /\ CookieKept' /\ RefreshKnows'
    BY <2>1, <2>2, <2>3, <1>1 DEF Calm, OneAtATime, CookieKept, RefreshKnows
  <2>5. LoginKnows' /\ OutsideHasNoToken'
    BY <2>1, <2>3, <1>1, <1>4 DEF Calm, LoginKnows, OutsideHasNoToken
  <2> QED  BY <2>4, <2>5 DEF Calm
<1> QED  BY <1>3, <1>5, <1>6 DEF CInv

LEMMA LoginAnsweredCalm ==
    ASSUME CInv, NEW t \in Tab, LoginAnswered(t)
    PROVE  CInv'
<1> DEFINE token == entering[t].token
<1>1. /\ entering[t] # None /\ entering[t].phase = "answered"
      /\ cookie' = token
      /\ access' = [access EXCEPT ![t] = (token # None)]
      /\ status' = [status EXCEPT ![t] = IF token = None THEN "anonymous" ELSE status[t]]
      /\ entering' = [entering EXCEPT ![t] = [phase |-> "me", token |-> None]]
      /\ UNCHANGED <<flight, leaving, disturbed>>
      /\ OnlyHeld
  BY DEF LoginAnswered, SetSession, StatusAfter
<1>2. token \in MaybeToken
  BY <1>1 DEF CInv, Typed, Exchange, Carrying
<1>3. [phase |-> "me", token |-> None] \in Carrying({"sent", "answered", "me"})
  BY DEF Carrying, MaybeToken
<1>4. [phase |-> "me", token |-> None] # None
  BY <1>3, NoneAssumption
<1>5. live' \subseteq live /\ (cookie' # None /\ cookie' \in live => cookie' \in live')
  BY <1>1, CookieHeld
<1>6. Typed'
  BY <1>1, <1>2, <1>3, <1>5 DEF CInv, Typed, Exchange
<1> HIDE DEF token
<1>7. /\ \A u \in Tab : u # t => /\ entering'[u] = entering[u]
                                 /\ status'[u] = status[u] /\ access'[u] = access[u]
      /\ entering'[t] = [phase |-> "me", token |-> None]
      /\ status'[t] \in {"anonymous", status[t]}
      /\ token # None => status'[t] = status[t]
  BY <1>1 DEF CInv, Typed
<1>8. EnteringFromOutside'
  BY <1>1, <1>7 DEF CInv, EnteringFromOutside
<1>9. ASSUME ~disturbed'
      PROVE  Calm'
  <2>1. Calm /\ LoggingIn(t)
    BY <1>1, <1>9 DEF CInv, LoggingIn
  <2>2. token \in live
    BY <2>1, <1>1 DEF Calm, LoginKnows, token
  <2>3. \A u \in Tab : flight[u] = None /\ leaving[u] = None /\ (u # t => ~LoggingIn(u))
    BY <2>1 DEF Calm, OneAtATime
  <2>4. \A u \in Tab : ~LoggingIn(u)'
    BY <2>3, <1>7 DEF LoggingIn
  <2>5. OneAtATime' /\ CookieKept' /\ RefreshKnows' /\ LoginKnows'
    BY <2>2, <2>3, <2>4, <1>1, <1>5
    DEF OneAtATime, CookieKept, RefreshKnows, LoginKnows, token
  <2>6. OutsideHasNoToken'
    BY <2>1, <1>4, <1>7 DEF Calm, OutsideHasNoToken
  <2> QED  BY <2>5, <2>6 DEF Calm
<1> QED  BY <1>6, <1>8, <1>9 DEF CInv

LEMMA LoginFailsCalm ==
    ASSUME CInv, NEW t \in Tab, LoginFails(t)
    PROVE  CInv'
<1>1. /\ entering[t] # None /\ entering[t].phase # "me"
      /\ entering' = [entering EXCEPT ![t] = None]
      /\ disturbed' = (disturbed \/ entering[t].phase = "answered")
      /\ UNCHANGED <<cookie, status, access, flight, leaving>>
      /\ OnlyHeld
  BY DEF LoginFails
<1>2. live' \subseteq live /\ (cookie' # None /\ cookie' \in live => cookie' \in live')
  BY <1>1, CookieHeld
<1>3. Typed'
  BY <1>1, <1>2 DEF CInv, Typed, Exchange
<1>4. /\ \A u \in Tab : u # t => entering'[u] = entering[u]
      /\ entering'[t] = None
  BY <1>1 DEF CInv, Typed
<1>5. EnteringFromOutside'
  BY <1>1, <1>4 DEF CInv, EnteringFromOutside
<1>6. ASSUME ~disturbed'
      PROVE  Calm'
  <2>1. Calm /\ LoggingIn(t)
    BY <1>1, <1>6 DEF CInv, LoggingIn
  <2>2. \A u \in Tab : flight[u] = None /\ leaving[u] = None /\ (u # t => ~LoggingIn(u))
    BY <2>1 DEF Calm, OneAtATime
  <2>3. \A u \in Tab : ~LoggingIn(u)'
    BY <2>2, <1>4 DEF LoggingIn
  <2>4. OneAtATime' /\ CookieKept' /\ RefreshKnows' /\ LoginKnows'
    BY <2>1, <2>2, <2>3, <1>1, <1>2
    DEF Calm, OneAtATime, CookieKept, RefreshKnows, LoginKnows
  <2>5. OutsideHasNoToken'
    BY <2>1, <1>1, <1>4 DEF Calm, LoginKnows, OutsideHasNoToken
  <2> QED  BY <2>4, <2>5 DEF Calm
<1> QED  BY <1>3, <1>5, <1>6 DEF CInv

LEMMA EnteredCalm ==
    ASSUME CInv, NEW t \in Tab, Entered(t) \/ NotEntered(t)
    PROVE  CInv'
<1>1. /\ entering[t] # None /\ entering[t].phase = "me"
      /\ entering' = [entering EXCEPT ![t] = None]
      /\ \/ status' = [status EXCEPT ![t] = "authenticated"] /\ UNCHANGED disturbed
         \/ status' = [status EXCEPT ![t] = "anonymous"] /\ disturbed' = TRUE
      /\ UNCHANGED <<live, cookie, access, flight, leaving>>
  BY DEF Entered, NotEntered
<1>2. Typed'
  BY <1>1 DEF CInv, Typed, Exchange
<1>3. /\ \A u \in Tab : u # t => entering'[u] = entering[u] /\ status'[u] = status[u]
      /\ entering'[t] = None
      /\ ~disturbed' => status'[t] = "authenticated"
  BY <1>1 DEF CInv, Typed
<1>4. EnteringFromOutside'
  BY <1>3 DEF CInv, EnteringFromOutside
<1>5. \A u \in Tab : LoggingIn(u)' <=> LoggingIn(u)
  BY <1>1, <1>3 DEF LoggingIn
<1>6. ASSUME ~disturbed'
      PROVE  Calm'
  <2>1. Calm /\ status'[t] = "authenticated"
    BY <1>1, <1>3, <1>6 DEF CInv
  <2>2. OneAtATime' /\ CookieKept'
    BY <2>1, <1>1, <1>5 DEF Calm, OneAtATime, CookieKept
  <2>3. RefreshKnows' /\ OutsideHasNoToken'
    BY <2>1, <1>1, <1>3 DEF Calm, RefreshKnows, OutsideHasNoToken
  <2>4. LoginKnows'
    BY <2>1, <1>1, <1>3, <1>5 DEF Calm, LoginKnows, LoggingIn
  <2> QED  BY <2>2, <2>3, <2>4 DEF Calm
<1> QED  BY <1>2, <1>4, <1>6 DEF CInv

LEMMA LogoutEndsCalm ==
    ASSUME CInv, NEW t \in Tab, NEW removed \in BOOLEAN, LogoutEnds(t, removed)
    PROVE  CInv'
<1>1. /\ leaving[t] # None
      /\ leaving' = [leaving EXCEPT ![t] = None]
      /\ cookie' = IF removed THEN None ELSE cookie
      /\ disturbed' = (disturbed \/ ~removed)
      /\ access' = [access EXCEPT ![t] = FALSE]
      /\ status' = [status EXCEPT ![t] = "anonymous"]
      /\ UNCHANGED <<flight, entering>>
      /\ OnlyHeld
  BY DEF LogoutEnds
<1>2. live' \subseteq live
  BY <1>1, CookieHeld
<1>3. Typed'
  BY <1>1, <1>2 DEF CInv, Typed, Exchange, MaybeToken
<1>4. /\ \A u \in Tab : u # t => /\ leaving'[u] = leaving[u] /\ status'[u] = status[u]
                                 /\ access'[u] = access[u]
      /\ leaving'[t] = None /\ status'[t] = "anonymous" /\ ~access'[t]
  BY <1>1 DEF CInv, Typed
<1>5. EnteringFromOutside'
  BY <1>1, <1>4 DEF CInv, EnteringFromOutside
<1>6. ASSUME ~disturbed'
      PROVE  Calm'
  <2>1. Calm /\ cookie' = None
    BY <1>1, <1>6 DEF CInv
  <2>2. \A u \in Tab : flight[u] = None /\ ~LoggingIn(u) /\ (u # t => leaving[u] = None)
    BY <2>1, <1>1 DEF Calm, OneAtATime
  <2>3. OneAtATime' /\ CookieKept' /\ RefreshKnows' /\ LoginKnows'
    BY <2>1, <2>2, <1>1, <1>4 DEF OneAtATime, CookieKept, RefreshKnows, LoginKnows, LoggingIn
  <2>4. OutsideHasNoToken'
    BY <2>1, <1>1, <1>4 DEF Calm, OutsideHasNoToken
  <2> QED  BY <2>3, <2>4 DEF Calm
<1> QED  BY <1>3, <1>5, <1>6 DEF CInv

LEMMA ReloadCalm ==
    ASSUME CInv, NEW t \in Tab, Reload(t)
    PROVE  CInv'
<1>1. /\ status' = [status EXCEPT ![t] = "loading"]
      /\ access' = [access EXCEPT ![t] = FALSE]
      /\ flight' = [flight EXCEPT ![t] = [phase |-> "sent", token |-> cookie]]
      /\ entering' = [entering EXCEPT ![t] = None]
      /\ leaving' = [leaving EXCEPT ![t] = None]
      /\ disturbed' = (disturbed \/ Traffic # {})
      /\ UNCHANGED cookie
      /\ OnlyHeld
  BY DEF Reload
<1>2. [phase |-> "sent", token |-> cookie] \in Carrying({"sent", "answered"})
  BY DEF Carrying, CInv, Typed
<1>3. live' \subseteq live /\ (cookie' # None /\ cookie' \in live => cookie' \in live')
  BY <1>1, CookieHeld
<1>4. Typed'
  BY <1>1, <1>2, <1>3 DEF CInv, Typed, Exchange
<1>5. /\ \A u \in Tab : u # t => /\ leaving'[u] = leaving[u] /\ status'[u] = status[u]
                                 /\ access'[u] = access[u] /\ entering'[u] = entering[u]
                                 /\ flight'[u] = flight[u]
      /\ leaving'[t] = None /\ status'[t] = "loading" /\ ~access'[t] /\ entering'[t] = None
      /\ flight'[t] = [phase |-> "sent", token |-> cookie]
  BY <1>1 DEF CInv, Typed
<1>6. EnteringFromOutside'
  BY <1>1, <1>5 DEF CInv, EnteringFromOutside
<1>7. ASSUME ~disturbed'
      PROVE  Calm'
  <2>1. Calm /\ Traffic = {}
    BY <1>1, <1>7 DEF CInv
  <2>2. \A u \in Tab : flight[u] = None /\ ~LoggingIn(u) /\ leaving[u] = None
    BY <2>1, NoTraffic
  <2>3. \A u \in Tab : ~LoggingIn(u)' /\ leaving'[u] = None /\ (u # t => flight'[u] = None)
    BY <2>2, <1>5 DEF LoggingIn
  <2>4. cookie' = None \/ cookie' \in live'
    BY <2>1, <2>2, <1>1, <1>3 DEF Calm, CookieKept
  <2>5. OneAtATime' /\ CookieKept' /\ RefreshKnows' /\ LoginKnows'
    BY <2>3, <2>4, <1>1, <1>5 DEF OneAtATime, CookieKept, RefreshKnows, LoginKnows
  <2>6. OutsideHasNoToken'
    BY <2>1, <1>5 DEF Calm, OutsideHasNoToken
  <2> QED  BY <2>5, <2>6 DEF Calm
<1> QED  BY <1>4, <1>6, <1>7 DEF CInv

--------------------------------------------------------------------------------

LEMMA StepCalm == CInv /\ TokensSuffice /\ [Next]_vars => CInv'
<1> SUFFICES ASSUME CInv, TokensSuffice, [Next]_vars PROVE CInv'
  OBVIOUS
<1>1. CASE UNCHANGED <<live, cookie, status, access, flight, entering, leaving, disturbed>>
  BY <1>1 DEF CInv, Typed, EnteringFromOutside, Calm, OneAtATime, CookieKept, RefreshKnows,
              LoginKnows, OutsideHasNoToken, LoggingIn
<1>2. ASSUME NEW t \in Tab,
             RefreshHandled(t) \/ LoginHandled(t) \/ LogoutHandled(t)
      PROVE  CInv'
  BY <1>2, RefreshHandledCalm, LoginHandledCalm, LogoutHandledCalm
<1>3. ASSUME NEW t \in Tab,
             RefreshAnswered(t) \/ RefreshFails(t) \/ Reload(t)
                \/ Login(t) \/ LoginAnswered(t) \/ LoginFails(t) \/ Entered(t) \/ NotEntered(t)
      PROVE  CInv'
  BY <1>3, RefreshAnsweredCalm, RefreshFailsCalm, ReloadCalm, LoginCalm, LoginAnsweredCalm,
     LoginFailsCalm, EnteredCalm
<1>4. ASSUME NEW t \in Tab, NEW removed \in BOOLEAN, LogoutEnds(t, removed)
      PROVE  CInv'
  BY <1>4, LogoutEndsCalm
<1>5. ASSUME NEW t \in Tab, Interval(t) \/ CallUnauthorized(t) \/ TimerFires(t)
      PROVE  CInv'
  BY <1>5, RefreshCalm DEF Interval, CallUnauthorized, TimerFires
<1>6. ASSUME NEW t \in Tab, SignOut(t) \/ WrongPassword(t) \/ CallRefused(t)
      PROVE  CInv'
  BY <1>6, LogoutCalm DEF SignOut, WrongPassword, CallRefused
<1>7. ASSUME NEW t \in Tab, ChangeOwnPassword(t) \/ RevokedElsewhere
      PROVE  CInv'
  <2>1. /\ live' = {} /\ disturbed' = TRUE
        /\ UNCHANGED <<cookie, status, access, flight, entering, leaving>>
    BY <1>7 DEF ChangeOwnPassword, RevokedElsewhere
  <2> QED  BY <2>1 DEF CInv, Typed, EnteringFromOutside
<1>8. CASE RevokedElsewhere
  <2>1. /\ live' = {} /\ disturbed' = TRUE
        /\ UNCHANGED <<cookie, status, access, flight, entering, leaving>>
    BY <1>8 DEF RevokedElsewhere
  <2> QED  BY <2>1 DEF CInv, Typed, EnteringFromOutside
<1>9. ASSUME NEW t \in Tab, Call(t) \/ CallAnswered(t) \/ StreamError(t)
      PROVE  CInv'
  BY <1>9, <1>1 DEF Call, CallAnswered, StreamError
<1>10. CASE UNCHANGED vars
  BY <1>10, <1>1 DEF vars
<1> QED
  BY <1>2, <1>3, <1>4, <1>5, <1>6, <1>7, <1>8, <1>9, <1>10 DEF Next

LEMMA CalmIsWhole == CInv => UndisturbedSessionIsWhole
<1> SUFFICES ASSUME CInv, ~disturbed PROVE
        /\ cookie # None => CookieIsGood \/ \E t \in Tab : leaving[t] # None
        /\ OutsideHasNoToken
  BY DEF UndisturbedSessionIsWhole, OutsideHasNoToken
<1>1. Calm
  BY DEF CInv
<1>2. ASSUME cookie # None, \A t \in Tab : leaving[t] = None
      PROVE  CookieIsGood
  <2>1. CASE \A t \in Tab : flight[t] = None
    BY <2>1, <1>1, <1>2 DEF Calm, CookieKept, CookieIsGood
  <2>2. ASSUME NEW t \in Tab, flight[t] # None
        PROVE  CookieIsGood
    <3>1. flight[t].phase \in {"sent", "answered"}
      BY <2>2 DEF CInv, Typed, Exchange, Carrying
    <3> QED  BY <2>2, <3>1, <1>1, <1>2 DEF Calm, RefreshKnows, CookieIsGood
  <2> QED  BY <2>1, <2>2
<1> QED  BY <1>1, <1>2 DEF Calm

\* A logged-in session that ends without a logout was disturbed.
LEMMA EndingWasLogout ==
    ASSUME CInv, [Next]_vars, NEW t \in Tab,
           status[t] = "authenticated", status'[t] = "anonymous", ~disturbed'
    PROVE  leaving[t] # None \/ cookie = None
<1>1. status' # status
  OBVIOUS
<1>2. PICK u \in Tab :
        \/ RefreshAnswered(u) \/ RefreshFails(u) \/ Reload(u)
        \/ LoginAnswered(u) \/ Entered(u) \/ NotEntered(u)
        \/ \E removed \in BOOLEAN : LogoutEnds(u, removed)
  BY <1>1 DEF Next, vars, RefreshHandled, Interval, Login, LoginHandled, LoginFails, SignOut,
              ChangeOwnPassword, WrongPassword, LogoutHandled, Call, CallAnswered,
              CallUnauthorized, CallRefused, StreamError, TimerFires, RevokedElsewhere
<1>3. status \in [Tab -> {"loading", "authenticated", "anonymous"}]
  BY DEF CInv, Typed
<1>4. CASE RefreshAnswered(u)
  <2>1. /\ flight[u] # None /\ flight[u].phase = "answered" /\ UNCHANGED disturbed
        /\ status' = [status EXCEPT ![u] =
                        IF flight[u].token = None THEN "anonymous" ELSE status[u]]
    BY <1>4 DEF RefreshAnswered, RefreshSettles, SetSession, StatusAfter
  <2>2. u = t /\ flight[u].token = None
    BY <2>1, <1>3
  <2>3. Calm /\ live \subseteq Token
    BY <2>1 DEF CInv, Typed
  <2> QED  BY <2>1, <2>2, <2>3, SessionAssumption DEF SessionAssumption, Calm, RefreshKnows
<1>5. CASE RefreshFails(u)
  BY <1>5 DEF RefreshFails
<1>6. CASE Reload(u)
  BY <1>3, <1>6 DEF Reload
<1>7. CASE LoginAnswered(u)
  BY <1>3, <1>7 DEF LoginAnswered, SetSession, CInv, EnteringFromOutside
<1>8. CASE Entered(u) \/ NotEntered(u)
  BY <1>3, <1>8 DEF Entered, NotEntered
<1>9. CASE \E removed \in BOOLEAN : LogoutEnds(u, removed)
  BY <1>3, <1>9 DEF LogoutEnds
<1> QED  BY <1>2, <1>4, <1>5, <1>6, <1>7, <1>8, <1>9

\* The cookie of a browser (auth.ts, api.ts, auth.go): as long as there are tokens that
\* nobody holds, and until two exchanges of any of its tabs overlap, one is lost or the
\* password changes, the cookie is good or about to be replaced by a good one.
THEOREM CookieStaysGood == Spec /\ []TokensSuffice => []UndisturbedSessionIsWhole
<1> QED  BY InitCalm, StepCalm, CalmIsWhole, PTL DEF Spec

\* Under the same condition nobody is logged out but by a logout: the 401 that ends a
\* session is answered to a browser without a cookie only.
THEOREM OnlyLogoutEnds == Spec /\ []TokensSuffice => SessionEndsByLogout
<1>1. CInv /\ [Next]_vars =>
        [ \A t \in Tab :
            status[t] = "authenticated" /\ status'[t] = "anonymous" =>
                disturbed' \/ leaving[t] # None \/ cookie = None ]_vars
  BY EndingWasLogout
<1> QED  BY <1>1, InitCalm, StepCalm, PTL DEF Spec, SessionEndsByLogout
================================================================================
