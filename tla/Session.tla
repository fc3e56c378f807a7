-------------------------------- MODULE Session --------------------------------
(***************************************************************************)
(* The session of a browser: its tabs (web/src/lib/api.ts, auth.ts,        *)
(* App.tsx, the connection of events.ts) and the server                    *)
(* (internal/handlers/auth.go).                                            *)
(*                                                                         *)
(* A tab holds an access token for fifteen minutes.  The tabs share one    *)
(* cookie with a refresh token; exchanging it revokes it, and the answer   *)
(* brings the next one.  An exchange carries the cookie as it was when it  *)
(* was sent, and its answer sets the cookie when it arrives: what the      *)
(* other tabs do between the two is what this module is about.             *)
(***************************************************************************)
EXTENDS Naturals

CONSTANTS Tab, Token, None

ASSUME SessionAssumption == None \notin Token

VARIABLES
    live,       \* server: the refresh tokens that are not revoked
    cookie,     \* the refresh token in the browser's cookie
    status,     \* each tab: useAuth.status
    access,     \* each tab: whether it holds an access token, expired or not
    flight,     \* each tab: refreshPromise
    entering,   \* each tab: login, then loadMe
    leaving,    \* each tab: logout
    call,       \* each tab: a request to the API
    stream,     \* each tab: the EventSource of useLiveEvents is open
    timer,      \* each tab: the reconnection that onerror left
    disturbed   \* an exchange was overlapped, lost or stale, or the password changed

vars == <<live, cookie, status, access, flight, entering, leaving, call, stream,
          timer, disturbed>>

MaybeToken == Token \cup {None}
Carrying(phases) == [phase : phases, token : MaybeToken]
Exchange(phases) == Carrying(phases) \cup {None}

\* None is no token and no exchange.
ASSUME NoneAssumption == None \notin Carrying({"sent", "answered", "me"})

SessionTypeOK ==
    /\ live \subseteq Token
    /\ cookie \in MaybeToken
    /\ status \in [Tab -> {"loading", "authenticated", "anonymous"}]
    /\ access \in [Tab -> BOOLEAN]
    /\ flight \in [Tab -> Exchange({"sent", "answered"})]
    /\ entering \in [Tab -> Exchange({"sent", "answered", "me"})]
    /\ leaving \in [Tab -> Exchange({"sent", "answered"})]
    /\ call \in [Tab -> {"none", "sent", "waiting", "refused"}]
    /\ stream \in [Tab -> BOOLEAN]
    /\ timer \in [Tab -> {"none", "set", "joined", "closed"}]
    /\ disturbed \in BOOLEAN

Init ==
    /\ live = {}
    /\ cookie = None
    /\ status = [t \in Tab |-> "anonymous"]
    /\ access = [t \in Tab |-> FALSE]
    /\ flight = [t \in Tab |-> None]
    /\ entering = [t \in Tab |-> None]
    /\ leaving = [t \in Tab |-> None]
    /\ call = [t \in Tab |-> "none"]
    /\ stream = [t \in Tab |-> FALSE]
    /\ timer = [t \in Tab |-> "none"]
    /\ disturbed = FALSE

--------------------------------------------------------------------------------
(* The server *)

Carried(exchange) == { e.token : e \in {exchange[t] : t \in Tab} \ {None} }

\* The tokens that somebody still holds: no other will be presented again.
Held == ({cookie} \cup Carried(flight) \cup Carried(entering) \cup Carried(leaving)) \ {None}

\* Tokens that nobody holds any more are left out of account.
OnlyHeld == live' = live \cap Held'

\* issueSession: a token that nobody has.
Fresh == CHOOSE token \in Token : token \notin Held

\* The exchanges under way whose answer will set the cookie.
Traffic ==
    { x \in Tab \X {"refresh", "login", "logout"} :
        CASE x[2] = "refresh" -> flight[x[1]] # None
          [] x[2] = "login"   -> entering[x[1]] # None /\ entering[x[1]].phase # "me"
          [] x[2] = "logout"  -> leaving[x[1]] # None }

Overlaps(t, kind) == Traffic \ {<<t, kind>>} # {}

\* Refresh: UPDATE ... WHERE token_hash = $1 AND revoked_at IS NULL, then issueSession.
RefreshHandled(t) ==
    /\ flight[t] # None
    /\ flight[t].phase = "sent"
    /\ IF flight[t].token \in live
       THEN /\ live' = (live \ {flight[t].token}) \cup {Fresh}
            /\ flight' = [flight EXCEPT ![t] = [phase |-> "answered", token |-> Fresh]]
       ELSE /\ flight' = [flight EXCEPT ![t] = [phase |-> "answered", token |-> None]]
            /\ UNCHANGED live
    /\ UNCHANGED <<cookie, status, access, entering, leaving, call, stream, timer, disturbed>>

LoginHandled(t) ==
    /\ entering[t] # None
    /\ entering[t].phase = "sent"
    /\ live' = live \cup {Fresh}
    /\ entering' = [entering EXCEPT ![t] = [phase |-> "answered", token |-> Fresh]]
    /\ UNCHANGED <<cookie, status, access, flight, leaving, call, stream, timer, disturbed>>

LogoutHandled(t) ==
    /\ leaving[t] # None
    /\ leaving[t].phase = "sent"
    /\ live' = live \ {leaving[t].token}
    /\ leaving' = [leaving EXCEPT ![t] = [phase |-> "answered", token |-> None]]
    /\ UNCHANGED <<cookie, status, access, flight, entering, call, stream, timer, disturbed>>

\* ChangeOwnPassword: every refresh token of the user is revoked.
ChangeOwnPassword(t) ==
    /\ status[t] = "authenticated"
    /\ live' = {}
    /\ disturbed' = TRUE
    /\ UNCHANGED <<cookie, status, access, flight, entering, leaving, call, stream, timer>>

\* On another machine, by an administrator, or the user is disabled.
RevokedElsewhere ==
    /\ live # {}
    /\ live' = {}
    /\ disturbed' = TRUE
    /\ UNCHANGED <<cookie, status, access, flight, entering, leaving, call, stream, timer>>

--------------------------------------------------------------------------------
(* session.set and its listeners *)

\* No token: useAuth's listener ends the session, bootstrap does not begin one.
StatusAfter(t, token) == IF token = None THEN "anonymous" ELSE status[t]

\* Mutant: the listener closes the source and leaves it at that.
StreamAfter_Closed(t, token) == stream[t] /\ status[t] # "authenticated"

\* The listener of useLiveEvents, in an authenticated tab: close the source, connect if
\* there is a token.
StreamAfter(t, token) ==
    IF status[t] = "authenticated" THEN token # None ELSE stream[t]

\* The timer of an effect that is gone still refreshes, and connects no more.
TimerAfter(t, token) ==
    CASE timer[t] = "joined"                   -> "none"
      [] timer[t] = "set" /\ token = None      -> "closed"
      [] OTHER                                 -> timer[t]

SetSession(t, token) ==
    /\ access' = [access EXCEPT ![t] = token # None]
    /\ status' = [status EXCEPT ![t] = StatusAfter(t, token)]

--------------------------------------------------------------------------------
(* session.refresh *)

\* Mutant: every caller makes its own exchange.
Refreshing_Never(t) == FALSE

Refreshing(t) == flight[t] # None

\* Single flight: who comes later waits for the same promise.  A tab that is logged out
\* refreshes too (by a timer or a request left over): it exchanges the cookie that another
\* tab may have got by now.
Refresh(t) ==
    IF Refreshing(t) THEN UNCHANGED <<flight, disturbed>>
    ELSE /\ flight' = [flight EXCEPT ![t] = [phase |-> "sent", token |-> cookie]]
         /\ disturbed' = (disturbed \/ Overlaps(t, "refresh") \/ status[t] # "authenticated")

\* Every twelve minutes
Interval(t) ==
    /\ status[t] = "authenticated"
    /\ Refresh(t)
    /\ UNCHANGED <<live, cookie, status, access, entering, leaving, call, stream, timer>>

\* The promise is settled: session.set, then those who waited: the request that met a
\* 401 and is sent again or refused, bootstrap, and the reconnection (whose own connect
\* opens a second source, left out here).
RefreshSettles(t, token) ==
    /\ SetSession(t, token)
    /\ flight' = [flight EXCEPT ![t] = None]
    /\ stream' = [stream EXCEPT ![t] = StreamAfter(t, token)]
    /\ timer' = [timer EXCEPT ![t] = TimerAfter(t, token)]
    /\ call' = [call EXCEPT ![t] =
            IF @ # "waiting" THEN @ ELSE IF token = None THEN "refused" ELSE "none"]
    /\ entering' = [entering EXCEPT ![t] =
            IF status[t] = "loading" /\ token # None
            THEN [phase |-> "me", token |-> None] ELSE @]

\* Mutant: the answer brings no cookie.
CookieFrom_None(exchange) == cookie

CookieFrom(exchange) == exchange.token

\* Its answer arrives, with the next cookie or with its removal.
RefreshAnswered(t) ==
    /\ flight[t] # None
    /\ flight[t].phase = "answered"
    /\ cookie' = CookieFrom(flight[t])
    /\ RefreshSettles(t, flight[t].token)
    /\ UNCHANGED <<leaving, disturbed>>
    /\ OnlyHeld

\* .catch(() => null): the network fails, or the server does, before or after it rotated
\* the token.
RefreshFails(t) ==
    /\ flight[t] # None
    /\ RefreshSettles(t, None)
    /\ disturbed' = TRUE
    /\ UNCHANGED <<cookie, leaving>>
    /\ OnlyHeld

--------------------------------------------------------------------------------
(* useAuth *)

Login(t) ==
    /\ status[t] = "anonymous"
    /\ entering[t] = None
    /\ entering' = [entering EXCEPT ![t] = [phase |-> "sent", token |-> None]]
    /\ disturbed' = (disturbed \/ Overlaps(t, "login"))
    /\ UNCHANGED <<live, cookie, status, access, flight, leaving, call, stream, timer>>

LoginAnswered(t) ==
    /\ entering[t] # None
    /\ entering[t].phase = "answered"
    /\ cookie' = entering[t].token
    /\ SetSession(t, entering[t].token)
    /\ entering' = [entering EXCEPT ![t] = [phase |-> "me", token |-> None]]
    /\ UNCHANGED <<flight, leaving, call, stream, timer, disturbed>>
    /\ OnlyHeld

\* A wrong password, or no answer: the form says so.
LoginFails(t) ==
    /\ entering[t] # None
    /\ entering[t].phase # "me"
    /\ entering' = [entering EXCEPT ![t] = None]
    /\ disturbed' = (disturbed \/ entering[t].phase = "answered")
    /\ UNCHANGED <<cookie, status, access, flight, leaving, call, stream, timer>>
    /\ OnlyHeld

\* loadMe, of login and of bootstrap: the session begins, and the effect of
\* useLiveEvents connects.
Entered(t) ==
    /\ entering[t] # None
    /\ entering[t].phase = "me"
    /\ entering' = [entering EXCEPT ![t] = None]
    /\ status' = [status EXCEPT ![t] = "authenticated"]
    /\ stream' = [stream EXCEPT ![t] = access[t]]
    /\ UNCHANGED <<live, cookie, access, flight, leaving, call, timer, disturbed>>

\* It fails: the tab is anonymous, with a token and a cookie.
NotEntered(t) ==
    /\ entering[t] # None
    /\ entering[t].phase = "me"
    /\ entering' = [entering EXCEPT ![t] = None]
    /\ status' = [status EXCEPT ![t] = "anonymous"]
    /\ disturbed' = TRUE
    /\ UNCHANGED <<live, cookie, access, flight, leaving, call, stream, timer>>

\* logout: by the menu, and by the query client on any 401 that comes through.
BeginLogout(t) ==
    /\ leaving' = [leaving EXCEPT ![t] =
                        IF @ = None THEN [phase |-> "sent", token |-> cookie] ELSE @]
    /\ disturbed' = (disturbed \/ Overlaps(t, "logout"))

SignOut(t) ==
    /\ status[t] = "authenticated"
    /\ leaving[t] = None
    /\ BeginLogout(t)
    /\ UNCHANGED <<live, cookie, status, access, flight, entering, call, stream, timer>>

\* ChangeOwnPassword answers a wrong current password with a 401, and the mutation cache
\* takes it for the end of the session.
WrongPassword(t) ==
    /\ status[t] = "authenticated"
    /\ leaving[t] = None
    /\ BeginLogout(t)
    /\ UNCHANGED <<live, cookie, status, access, flight, entering, call, stream, timer>>

\* The answer removes the cookie; then session.set(null).  The request may fail, which
\* is swallowed: the cookie stays.
LogoutEnds(t, removed) ==
    /\ leaving[t] # None
    /\ removed => leaving[t].phase = "answered"
    /\ leaving' = [leaving EXCEPT ![t] = None]
    /\ cookie' = IF removed THEN None ELSE cookie
    /\ disturbed' = (disturbed \/ ~removed)
    /\ access' = [access EXCEPT ![t] = FALSE]
    /\ status' = [status EXCEPT ![t] = "anonymous"]
    /\ stream' = [stream EXCEPT ![t] = StreamAfter(t, None)]
    /\ timer' = [timer EXCEPT ![t] = IF @ = "none" THEN @ ELSE "closed"]
    /\ UNCHANGED <<flight, entering, call>>
    /\ OnlyHeld

--------------------------------------------------------------------------------
(* request, uploadXHR *)

Call(t) ==
    /\ status[t] = "authenticated"
    /\ call[t] = "none"
    /\ call' = [call EXCEPT ![t] = "sent"]
    /\ UNCHANGED <<live, cookie, status, access, flight, entering, leaving, stream, timer,
                   disturbed>>

\* Any answer but a 401
CallAnswered(t) ==
    /\ call[t] = "sent"
    /\ call' = [call EXCEPT ![t] = "none"]
    /\ UNCHANGED <<live, cookie, status, access, flight, entering, leaving, stream, timer,
                   disturbed>>

\* The token it carried had expired: await session.refresh().
CallUnauthorized(t) ==
    /\ call[t] = "sent"
    /\ call' = [call EXCEPT ![t] = "waiting"]
    /\ Refresh(t)
    /\ UNCHANGED <<live, cookie, status, access, entering, leaving, stream, timer>>

\* There is no other token: the error reaches the query client.
CallRefused(t) ==
    /\ call[t] = "refused"
    /\ call' = [call EXCEPT ![t] = "none"]
    /\ BeginLogout(t)
    /\ UNCHANGED <<live, cookie, status, access, flight, entering, stream, timer>>

--------------------------------------------------------------------------------
(* useLiveEvents *)

\* onerror: close, and try again in five seconds.
StreamError(t) ==
    /\ status[t] = "authenticated"
    /\ stream[t]
    /\ timer[t] \in {"none", "closed"}
    /\ stream' = [stream EXCEPT ![t] = FALSE]
    /\ timer' = [timer EXCEPT ![t] = "set"]
    /\ UNCHANGED <<live, cookie, status, access, flight, entering, leaving, call, disturbed>>

\* session.refresh().then(connect).  The timer outlives its effect.
TimerFires(t) ==
    /\ timer[t] \in {"set", "closed"}
    /\ timer' = [timer EXCEPT ![t] = IF @ = "set" THEN "joined" ELSE "none"]
    /\ Refresh(t)
    /\ UNCHANGED <<live, cookie, status, access, entering, leaving, call, stream>>

\* The page is loaded anew: bootstrap.  What was under way is aborted.
Reload(t) ==
    /\ status[t] # "loading"
    /\ status' = [status EXCEPT ![t] = "loading"]
    /\ access' = [access EXCEPT ![t] = FALSE]
    /\ flight' = [flight EXCEPT ![t] = [phase |-> "sent", token |-> cookie]]
    /\ entering' = [entering EXCEPT ![t] = None]
    /\ leaving' = [leaving EXCEPT ![t] = None]
    /\ call' = [call EXCEPT ![t] = "none"]
    /\ stream' = [stream EXCEPT ![t] = FALSE]
    /\ timer' = [timer EXCEPT ![t] = "none"]
    /\ disturbed' = (disturbed \/ Traffic # {})
    /\ UNCHANGED cookie
    /\ OnlyHeld

--------------------------------------------------------------------------------

Next ==
    \/ \E t \in Tab :
        \/ RefreshHandled(t) \/ RefreshAnswered(t) \/ RefreshFails(t) \/ Interval(t)
        \/ Login(t) \/ LoginHandled(t) \/ LoginAnswered(t) \/ LoginFails(t)
        \/ Entered(t) \/ NotEntered(t)
        \/ SignOut(t) \/ ChangeOwnPassword(t) \/ WrongPassword(t)
        \/ LogoutHandled(t) \/ \E removed \in BOOLEAN : LogoutEnds(t, removed)
        \/ Call(t) \/ CallAnswered(t) \/ CallUnauthorized(t) \/ CallRefused(t)
        \/ StreamError(t) \/ TimerFires(t) \/ Reload(t)
    \/ RevokedElsewhere

Spec == Init /\ [][Next]_vars

--------------------------------------------------------------------------------
(* Properties *)

\* The cookie is good: it is live, or the answer under way brings its successor.
CookieIsGood ==
    cookie \in live \/ \E t \in Tab : flight[t] # None /\ flight[t].token \in live

\* As long as no exchange was overlapped or lost and no password changed: the cookie is
\* good or absent, and a tab that is not logged in holds no access token.
UndisturbedSessionIsWhole ==
    ~disturbed =>
        /\ cookie # None => CookieIsGood \/ \E t \in Tab : leaving[t] # None
        /\ \A t \in Tab :
            status[t] = "anonymous" /\ entering[t] = None => ~access[t]

\* A session that the client refreshes by itself ends by a logout, of this tab or of one
\* that took the cookie away, or else an exchange was overlapped or lost, or the
\* password changed.
SessionEndsByLogout ==
    [][ \A t \in Tab :
            status[t] = "authenticated" /\ status'[t] = "anonymous" =>
                disturbed' \/ leaving[t] # None \/ cookie = None ]_vars

\* "refresh and reconnect": a logged-in tab with a token listens to the
\* events, or will again.
ListensOrReconnects ==
    \A t \in Tab :
        status[t] = "authenticated" /\ access[t] =>
            stream[t] \/ timer[t] \in {"set", "joined"}
================================================================================
