------------------------------ MODULE WebSession ------------------------------
(***************************************************************************)
(* Logging in to the web UI: the login attempts and sessions that          *)
(* web/src/backend keeps in memory (oidc.mjs), the two cookies of one      *)
(* browser, and the pages in its tabs that send one another to log in      *)
(* (main.tsx, router.tsx, login.tsx).  The tabs share the cookies; a       *)
(* response changes them when it arrives, in whatever order that is.       *)
(*                                                                         *)
(* A login is named by its state, a callback by its login and how often    *)
(* the browser has sent it, and a session by the callback that made it.    *)
(* The random values of token() are taken to be all different.             *)
(***************************************************************************)
EXTENDS Naturals

CONSTANTS
    Tabs,
    Pages, DefaultPage, \* pages under /admin; /admin/machines
    None,               \* no cookie, no login
    MaxLogins,          \* bounds, not code: logins that are begun,
    MaxSends,           \*   times a callback is sent,
    MaxFaults           \*   and expiries, restarts, reloads and failed discoveries

ASSUME WebSessionAssumption ==
    /\ DefaultPage \in Pages
    /\ MaxLogins \in Nat /\ MaxSends \in Nat \ {0} /\ MaxFaults \in Nat
    /\ None \notin Pages \cup 1..MaxLogins
    /\ None \notin (1..MaxLogins) \X (1..MaxSends)

VARIABLES
    metadata,           \* whether the provider's metadata is known
    logins,             \* logins.keys()
    returnTo,           \* returnTo[l]: where login l is to come back to
    sessions,           \* sessions.keys()
    calls,              \* calls[c]: how far callback c is
    loginCookie,        \* m2m_login
    sessionCookie,      \* m2m_session
    tab,                \* tab[t]: the page in tab t
    made,               \* history: sessions that were ever made
    disturbed,          \* history: logins that something came between, see below
    goal,               \* history: the page tab t's user asked for last, or None
                        \* when a failed login was shown since
    begun, faults

serverVars == <<metadata, logins, returnTo, sessions, calls>>
jar == <<loginCookie, sessionCookie>>
history == <<made, disturbed>>
vars == <<serverVars, jar, tab, history, goal, begun, faults>>

Logins == 1..MaxLogins
Calls == Logins \X (1..MaxSends)

\* A path the UI links to: a page under /admin, behind depth of /login?redirect=.
Path == [page : Pages, depth : Nat]
To(p) == [page |-> p, depth |-> 0]
Under(path) == [path EXCEPT !.depth = @ + 1]
Inside(path) == [path EXCEPT !.depth = IF @ > 0 THEN @ - 1 ELSE 0]

\* at: landing, loading (the router waits for me), app, login, asking
\* (/auth/login is under way), redirected, idp, callback, broken (a response
\* that is no page), leaving (/auth/logout is under way), left (its response is).
\* me: meQuery's data; seen: the session that /auth/me or /auth/logout carries;
\* asked: the sessions that requests to /api carry.
Tab == [at : {"landing", "loading", "app", "login", "asking", "redirected", "idp",
              "callback", "broken", "leaving", "left"},
        path : Path, err : BOOLEAN, me : {"unknown", "none", "user"},
        login : Logins \cup {None}, send : 0..MaxSends,
        seen : Calls \cup {None}, asked : SUBSET (Calls \cup {None})]

\* The browser loads a page: nothing of the former one is left, and me is asked for.
Load(at, path, cookie) ==
    [at |-> at, path |-> path, err |-> FALSE, me |-> "unknown", login |-> None,
     send |-> 0, seen |-> cookie, asked |-> {}]

Visit(path, cookie) ==
    IF path.depth > 0 THEN Load("login", Inside(path), cookie)
                      ELSE Load("loading", path, cookie)

\* /login?error=...: the redirect of the login is not in it.
LoginFailed(cookie) == [Load("login", To(DefaultPage), cookie) EXCEPT !.err = TRUE]

\* What becomes of callback c: it matters only to a tab that still waits for it.
Idle == [phase |-> "none", bound |-> FALSE]
Outcome(c, out) ==
    IF \E t \in Tabs : tab[t].at = "callback" /\ c = <<tab[t].login, tab[t].send>>
    THEN [phase |-> out, bound |-> FALSE] ELSE Idle

AtHome == Load("landing", To(DefaultPage), None)

Init ==
    /\ metadata = FALSE
    /\ logins = {}
    /\ returnTo = [l \in Logins |-> To(DefaultPage)]
    /\ sessions = {}
    /\ calls = [c \in Calls |-> Idle]
    /\ loginCookie = None
    /\ sessionCookie = None
    /\ tab = [t \in Tabs |-> AtHome]
    /\ made = {}
    /\ disturbed = {}
    /\ goal = [t \in Tabs |-> DefaultPage]
    /\ begun = 0
    /\ faults = 0

\* No tab comes back from login l any more; others came between logins ls.
Forget(l, ls) ==
    /\ returnTo' = [m \in Logins |-> IF m = l THEN To(DefaultPage) ELSE returnTo[m]]
    /\ disturbed' = (disturbed \cup ls) \ {l}

Wants(t, p) == goal' = [goal EXCEPT ![t] = p]
-------------------------------------------------------------------------------
(* The user. *)

\* Types the address of an admin page; a login that waits is given up.
Open(t, p) ==
    /\ tab[t].at \in {"landing", "idp", "broken"}
    /\ tab' = [tab EXCEPT ![t] = Load("loading", To(p), sessionCookie)]
    /\ Forget(tab[t].login, {})
    /\ Wants(t, p)
    /\ UNCHANGED <<metadata, logins, sessions, calls, jar, made, begun, faults>>

\* A tab of the admin console: beforeLoad takes me from the cache.
Navigate(t, p) ==
    /\ tab[t].at = "app" /\ tab[t].me = "user"
    /\ tab' = [tab EXCEPT ![t].path = To(p)]
    /\ Wants(t, p)
    /\ UNCHANGED <<serverVars, jar, history, begun, faults>>

\* The button of the landing page, "Log in" or "Admin console", by what the page
\* knows of me, which may be as old as the page.
Enter(t) ==
    /\ tab[t].at = "landing"
    /\ \E me \in {"none"} \cup (IF made = {} THEN {} ELSE {"user"}) :
          tab' = [tab EXCEPT ![t].at = IF me = "user" THEN "app" ELSE "login",
                             ![t].path = To(DefaultPage), ![t].me = me]
    /\ Wants(t, DefaultPage)
    /\ UNCHANGED <<serverVars, jar, history, begun, faults>>

\* "Try again", which a failed login waits for.
TryAgain(t) ==
    /\ tab[t].at = "login" /\ tab[t].err /\ tab[t].me # "user"
    /\ tab' = [tab EXCEPT ![t].at = "asking"]
    /\ UNCHANGED <<serverVars, jar, history, goal, begun, faults>>

\* Logs in at the provider or declines, and the provider sends the browser back.
Return(t, phase) ==
    /\ tab[t].at = "idp"
    /\ LET l == tab[t].login
       IN  /\ calls' = [calls EXCEPT ![<<l, 1>>] =
                            [phase |-> phase, bound |-> loginCookie = l]]
           /\ tab' = [tab EXCEPT ![t].at = "callback", ![t].send = 1]
    /\ UNCHANGED <<metadata, logins, returnTo, sessions, jar, history, goal, begun, faults>>

\* Reloads while the callback takes long, or has shown an error.  The handler of
\* the former request goes on, and nobody waits for its response.
Resend(t) ==
    LET l == tab[t].login  k == tab[t].send
    IN  /\ tab[t].at \in {"callback", "broken"} /\ k < MaxSends /\ faults < MaxFaults
        /\ calls' = [calls EXCEPT ![<<l, k>>] = IF @.phase \in {"sent", "denied", "exchanging"} THEN @ ELSE Idle,
                                  ![<<l, k + 1>>] = [phase |-> "sent", bound |-> loginCookie = l]]
        /\ tab' = [tab EXCEPT ![t].at = "callback", ![t].send = k + 1]
        /\ disturbed' = disturbed \cup {l}
        /\ faults' = faults + 1
        /\ UNCHANGED <<metadata, logins, returnTo, sessions, jar, made, goal, begun>>

LogOut(t) ==
    /\ tab[t].at = "app"
    /\ tab' = [tab EXCEPT ![t] = [AtHome EXCEPT !.at = "leaving", !.seen = sessionCookie]]
    /\ UNCHANGED <<serverVars, jar, history, goal, begun, faults>>
-------------------------------------------------------------------------------
(* The pages. *)

\* GET /auth/me is answered: beforeLoad of the admin routes goes on, or the login
\* page, which a failed login has loaded.
MeAnswered(t) ==
    /\ tab[t].at \in {"loading", "login"} /\ tab[t].me = "unknown"
    /\ LET me == IF tab[t].seen \in sessions THEN "user" ELSE "none"
       IN  tab' = [tab EXCEPT ![t].at = IF @ = "loading" /\ me = "user" THEN "app" ELSE "login",
                              ![t].me = me, ![t].seen = None]
    /\ UNCHANGED <<serverVars, jar, history, goal, begun, faults>>

\* The effect of LoginPage.
LoginEffect(t) ==
    /\ tab[t].at = "login"
    /\ \/ /\ tab[t].me = "user"
          /\ tab' = [tab EXCEPT ![t].at = IF tab[t].path.depth > 0 THEN "login" ELSE "app",
                                ![t].path = Inside(@),
                                ![t].err = FALSE]
       \/ /\ tab[t].me = "none" /\ ~tab[t].err
          /\ tab' = [tab EXCEPT ![t].at = "asking"]
    /\ UNCHANGED <<serverVars, jar, history, goal, begun, faults>>

\* The page asks the control plane for something.
Ask(t) ==
    /\ tab[t].at = "app" /\ tab[t].asked = {}
    /\ tab' = [tab EXCEPT ![t].asked = {sessionCookie}]
    /\ UNCHANGED <<serverVars, jar, history, goal, begun, faults>>

Answered(t, s) ==
    /\ s \in tab[t].asked \cap sessions
    /\ tab' = [tab EXCEPT ![t].asked = @ \ {s}]
    /\ UNCHANGED <<serverVars, jar, history, goal, begun, faults>>

\* A bug: me stays as it is known.
BugRefused(t, s) ==
    /\ s \in tab[t].asked \ sessions
    /\ tab[t].at \in {"app", "login", "asking"}
    /\ tab' = [tab EXCEPT ![t].at = "login", ![t].asked = @ \ {s}]
    /\ UNCHANGED <<serverVars, jar, history, goal, begun, faults>>

\* A bug: every page is left for the login of the default one.
BugForgetsPage(t, s) ==
    /\ s \in tab[t].asked \ sessions
    /\ tab[t].at \in {"app", "login", "asking"}
    /\ tab' = [tab EXCEPT ![t].at = "login", ![t].me = "none", ![t].asked = @ \ {s},
                          ![t].path = To(DefaultPage)]
    /\ UNCHANGED <<serverVars, jar, history, goal, begun, faults>>

\* A 401: onError.  The pages ask for several things at once, so another 401 may
\* follow when the page is the login already, and its path has that login in it.
Refused(t, s) ==
    /\ s \in tab[t].asked \ sessions
    /\ \/ /\ tab[t].at = "app"
          /\ \E asked \in {tab[t].asked, tab[t].asked \ {s}} :
                tab' = [tab EXCEPT ![t].at = "login", ![t].me = "none", ![t].asked = asked]
       \/ /\ tab[t].at \in {"login", "asking"}
          /\ tab' = [tab EXCEPT ![t].at = "login", ![t].me = "none", ![t].asked = @ \ {s},
                                ![t].path = Under(@)]
    /\ UNCHANGED <<serverVars, jar, history, goal, begun, faults>>
-------------------------------------------------------------------------------
(* The server, and its responses as they reach the browser. *)

\* login: GET /auth/login.
Login(t) ==
    /\ tab[t].at = "asking" /\ begun < MaxLogins
    /\ metadata' = TRUE
    /\ begun' = begun + 1
    /\ logins' = logins \cup {begun'}
    /\ returnTo' = [returnTo EXCEPT ![begun'] = tab[t].path]
    /\ tab' = [tab EXCEPT ![t].at = "redirected", ![t].login = begun', ![t].asked = {}]
    /\ UNCHANGED <<sessions, calls, jar, history, goal, faults>>

\* login, when the provider cannot be discovered.
Unreachable(t) ==
    /\ tab[t].at = "asking" /\ ~metadata /\ faults < MaxFaults
    /\ tab' = [tab EXCEPT ![t] = LoginFailed(sessionCookie)]
    /\ goal' = [goal EXCEPT ![t] = None]
    /\ faults' = faults + 1
    /\ UNCHANGED <<serverVars, jar, history, begun>>

\* The logins that wait at the provider, but for tab t's.
Waiting(t) == {tab[u].login : u \in {v \in Tabs \ {t} : tab[v].at = "idp"}}

\* The response of login: it binds the callback to this browser.
AtProvider(t) ==
    /\ tab[t].at = "redirected"
    /\ loginCookie' = tab[t].login
    /\ tab' = [tab EXCEPT ![t].at = "idp"]
    /\ disturbed' = disturbed \cup Waiting(t)
    /\ UNCHANGED <<serverVars, sessionCookie, made, goal, begun, faults>>

\* callback, to its first await, for a login that is there or not.
ToAwait(c) ==
    /\ calls[c].phase \in {"sent", "denied"}
    /\ calls' = [calls EXCEPT ![c] =
                     IF @.phase = "denied" THEN Outcome(c, "failed")
                     ELSE IF c[1] \in logins /\ @.bound THEN [phase |-> "exchanging", bound |-> FALSE]
                     ELSE Outcome(c, "refused")]
    /\ UNCHANGED <<metadata, returnTo, sessions, jar, tab, history, goal, begun, faults>>

\* A bug: the login stays until its session is made.
BugRedeem(c) == ToAwait(c) /\ UNCHANGED logins

\* The login is taken out before anything is looked at.
Redeem(c) == ToAwait(c) /\ logins' = logins \ {c[1]}

\* callback, from there: the provider's answer makes a session, or is refused,
\* or does not come and the request ends as an internal error.
Exchange(c) ==
    /\ calls[c].phase = "exchanging"
    /\ \/ /\ calls' = [calls EXCEPT ![c] = Outcome(c, "ok")]
          /\ sessions' = sessions \cup {c}
          /\ made' = made \cup {c}
       \/ /\ \E out \in {"failed", "crashed"} : calls' = [calls EXCEPT ![c] = Outcome(c, out)]
          /\ UNCHANGED <<sessions, made>>
    /\ UNCHANGED <<metadata, logins, returnTo, jar, tab, disturbed, goal, begun, faults>>

\* The response of callback.
Arrive(t) ==
    LET c == <<tab[t].login, tab[t].send>>
        out == calls[c].phase
    IN  /\ tab[t].at = "callback"
        /\ calls' = [calls EXCEPT ![c] = Idle]
        /\ \/ /\ out = "ok"
              /\ loginCookie' = None /\ sessionCookie' = c
              /\ tab' = [tab EXCEPT ![t] = Visit(returnTo[c[1]], c)]
              /\ Forget(c[1], Waiting(t))
              /\ UNCHANGED goal
           \/ /\ out \in {"failed", "refused"}
              /\ loginCookie' = None
              /\ tab' = [tab EXCEPT ![t] = LoginFailed(sessionCookie)]
              /\ Forget(c[1], Waiting(t))
              /\ goal' = [goal EXCEPT ![t] = None]
              /\ UNCHANGED sessionCookie
           \/ /\ out = "crashed"
              /\ tab' = [tab EXCEPT ![t].at = "broken"]
              /\ UNCHANGED <<returnTo, jar, disturbed, goal>>
        /\ UNCHANGED <<metadata, logins, sessions, made, begun, faults>>

\* logout.  Its location is the home page, or the provider's way back to it.
Logout(t) ==
    /\ tab[t].at = "leaving"
    /\ sessions' = sessions \ {tab[t].seen}
    /\ tab' = [tab EXCEPT ![t].at = "left", ![t].seen = None]
    /\ UNCHANGED <<metadata, logins, returnTo, calls, jar, history, goal, begun, faults>>

\* A bug: both cookies are cleared.
BugLeft(t) ==
    /\ tab[t].at = "left"
    /\ sessionCookie' = None /\ loginCookie' = None
    /\ tab' = [tab EXCEPT ![t] = AtHome]
    /\ UNCHANGED <<serverVars, history, goal, begun, faults>>

\* The response of logout: it clears the session cookie, whichever that is by now.
Left(t) ==
    /\ tab[t].at = "left"
    /\ sessionCookie' = None
    /\ tab' = [tab EXCEPT ![t] = AtHome]
    /\ UNCHANGED <<serverVars, loginCookie, history, goal, begun, faults>>

\* A session ends, by session() or the sweep.
ExpireSession(s) ==
    /\ s \in sessions /\ faults < MaxFaults
    /\ sessions' = sessions \ {s}
    /\ faults' = faults + 1
    /\ UNCHANGED <<metadata, logins, returnTo, calls, jar, tab, history, goal, begun>>

ExpireLogin(l) ==
    /\ l \in logins /\ faults < MaxFaults
    /\ logins' = logins \ {l}
    /\ disturbed' = disturbed \cup {l}
    /\ faults' = faults + 1
    /\ UNCHANGED <<metadata, returnTo, sessions, calls, jar, tab, made, goal, begun>>

\* The server keeps everything in memory; a request under way gets no answer.
Restart ==
    /\ faults < MaxFaults
    /\ metadata' = FALSE /\ logins' = {} /\ sessions' = {}
    /\ calls' = [c \in Calls |-> IF calls[c].phase = "exchanging"
                                 THEN Outcome(c, "crashed") ELSE calls[c]]
    /\ disturbed' = disturbed \cup logins
    /\ faults' = faults + 1
    /\ UNCHANGED <<returnTo, jar, tab, made, goal, begun>>
-------------------------------------------------------------------------------
User(t) ==
    \/ \E p \in Pages : Open(t, p) \/ Navigate(t, p)
    \/ Enter(t) \/ TryAgain(t) \/ Resend(t) \/ LogOut(t)
    \/ \E phase \in {"sent", "denied"} : Return(t, phase)

\* What goes on in a tab by itself.
Page(t) ==
    \/ MeAnswered(t) \/ LoginEffect(t) \/ Ask(t)
    \/ \E s \in Calls \cup {None} : Answered(t, s) \/ Refused(t, s)
    \/ Login(t) \/ AtProvider(t) \/ Arrive(t) \/ Logout(t) \/ Left(t)

Handle(c) == Redeem(c) \/ Exchange(c)

Fault ==
    \/ \E t \in Tabs : Unreachable(t)
    \/ \E s \in Calls : ExpireSession(s)
    \/ \E l \in Logins : ExpireLogin(l)
    \/ Restart

Next ==
    \/ \E t \in Tabs : User(t) \/ Page(t)
    \/ \E c \in Calls : Handle(c)
    \/ Fault

\* Pages run and poll, requests are answered, and the provider answers or times
\* out; what the user does is up to the user.
Fairness == /\ \A t \in Tabs : WF_vars(Page(t))
            /\ \A c \in Calls : WF_vars(Handle(c))

Spec == Init /\ [][Next]_vars /\ Fairness
-------------------------------------------------------------------------------
\* The types of everything.
TypeOK ==
    /\ metadata \in BOOLEAN
    /\ logins \subseteq Logins
    /\ returnTo \in [Logins -> Path]
    /\ sessions \subseteq Calls
    /\ calls \in [Calls -> [phase : {"none", "sent", "denied", "exchanging", "ok", "failed",
                                     "refused", "crashed"},
                            bound : BOOLEAN]]
    /\ loginCookie \in Logins \cup {None}
    /\ sessionCookie \in Calls \cup {None}
    /\ tab \in [Tabs -> Tab]
    /\ made \subseteq Calls /\ disturbed \subseteq Logins
    /\ goal \in [Tabs -> Pages \cup {None}]
    /\ begun \in 0..MaxLogins /\ faults \in 0..MaxFaults
    \* a login a tab is at is there
    /\ \A t \in Tabs : /\ tab[t].at \in {"redirected", "idp", "callback", "broken"} => tab[t].login \in Logins
                       /\ tab[t].at \in {"callback", "broken"} => tab[t].send > 0

\* A login makes one session at most, however often its callback is sent and
\* whatever the provider does: callback takes the state out of logins before its
\* first await.
OnePerLogin == \A c, d \in made : c[1] = d[1] => c = d

\* A login is refused as expired or another browser's (oidc.mjs:99) only if it
\* expired, the server restarted, its callback was sent again, or, while it was at
\* the provider, another login of this browser began or ended there.
UndisturbedLoginsWork == \A c \in Calls : calls[c].phase = "refused" => c[1] \in disturbed

\* Whoever was sent to log in is back on the page they asked for, through any
\* number of 401s, tabs and restarts, unless a failed login was shown on the way.
ComesBack == \A t \in Tabs : tab[t].at = "app" => goal[t] \in {tab[t].path.page, None}

\* Where nothing is under way: the login page waits only with an error, and the
\* console only shows while its session is alive.  (The last line is the bound.)
Rests(t) ==
    \/ tab[t].at \in {"landing", "idp", "broken"}
    \/ tab[t].at = "login" /\ tab[t].err /\ tab[t].me = "none"
    \/ tab[t].at = "app" /\ sessionCookie \in sessions
    \/ tab[t].at = "asking" /\ begun = MaxLogins

\* No tab redirects for ever, and none waits for ever, whatever the other does.
GetsSomewhere == \A t \in Tabs : ~Rests(t) ~> Rests(t)
===============================================================================
