--------------------------- MODULE WebSessionProofs ---------------------------
(***************************************************************************)
(* Theorems about WebSession for any number of tabs, logins and callbacks. *)
(***************************************************************************)
EXTENDS WebSession, TLAPS

\* Callbacks that have taken their login, and may make a session of it or have.
Spent == made \cup {c \in Calls : calls[c].phase = "exchanging"}

\* A login that was taken is not there again, and one callback took it.
Taken == /\ \A l \in logins : l <= begun
         /\ \A c \in Spent : c[1] <= begun /\ c[1] \notin logins
         /\ \A c, d \in Spent : c[1] = d[1] => c = d

LEMMA OutcomeTyped ==
    ASSUME NEW c \in Calls, NEW out \in {"failed", "refused", "crashed", "ok"}
    PROVE  /\ Outcome(c, out).phase \in {"none", out}
           /\ Outcome(c, out) \in [phase : {"none", "failed", "refused", "crashed", "ok"},
                                   bound : BOOLEAN]
BY DEF Outcome, Idle

LEMMA HomeTyped ==
    ASSUME NEW p \in Pages
    PROVE  To(p) \in Path /\ To(DefaultPage) \in Path
BY WebSessionAssumption DEF To, Path

LEMMA PathsTyped ==
    ASSUME NEW path \in Path
    PROVE  Under(path) \in Path /\ Inside(path) \in Path
BY DEF Under, Inside, Path

LEMMA LoadTyped ==
    ASSUME NEW at \in {"landing", "loading", "login"}, NEW path \in Path,
           NEW cookie \in Calls \cup {None}
    PROVE  /\ Load(at, path, cookie) \in Tab
           /\ Load(at, path, cookie).at = at
           /\ Load(at, path, cookie).login = None
BY WebSessionAssumption DEF Load, Tab

\* A page that is loaded has a type, and waits for no login.
Fresh(x) == x \in Tab /\ x.at \in {"landing", "loading", "login", "leaving"}

LEMMA FreshPages ==
    ASSUME NEW cookie \in Calls \cup {None}
    PROVE  /\ \A p \in Pages : Fresh(Load("loading", To(p), cookie))
           /\ \A path \in Path : Fresh(Visit(path, cookie))
           /\ Fresh(LoginFailed(cookie))
           /\ Fresh(AtHome)
           /\ Fresh([AtHome EXCEPT !.at = "leaving", !.seen = cookie])
<1>1. To(DefaultPage) \in Path
    BY HomeTyped, WebSessionAssumption
<1>2. ASSUME NEW p \in Pages
      PROVE  Fresh(Load("loading", To(p), cookie))
    BY HomeTyped, LoadTyped DEF Fresh
<1>3. ASSUME NEW path \in Path
      PROVE  Fresh(Visit(path, cookie))
    <2>1. CASE path.depth > 0
        BY <2>1, PathsTyped, LoadTyped DEF Visit, Fresh
    <2>2. CASE ~(path.depth > 0)
        BY <2>2, LoadTyped DEF Visit, Fresh
    <2>. QED  BY <2>1, <2>2
<1>4. Fresh(LoginFailed(cookie))
    <2>1. Load("login", To(DefaultPage), cookie) \in Tab
        BY <1>1, LoadTyped
    <2>. QED  BY <2>1, <1>1, LoadTyped DEF LoginFailed, Fresh, Tab
<1>5. AtHome \in Tab /\ AtHome.at = "landing"
    BY <1>1, LoadTyped DEF AtHome
<1>6. Fresh([AtHome EXCEPT !.at = "leaving", !.seen = cookie])
    BY <1>5 DEF Fresh, Tab
<1>. QED  BY <1>2, <1>3, <1>4, <1>5, <1>6 DEF Fresh
-------------------------------------------------------------------------------
\* What TypeOK says of one tab.
TabOK(x) ==
    /\ x \in Tab
    /\ x.at \in {"redirected", "idp", "callback", "broken"} => x.login \in Logins
    /\ x.at \in {"callback", "broken"} => x.send > 0

TabsOK == tab \in [Tabs -> Tab] /\ \A t \in Tabs : TabOK(tab[t])

LEMMA TabChanges ==
    ASSUME TypeOK, NEW t \in Tabs, NEW x, TabOK(x), tab' = [tab EXCEPT ![t] = x]
    PROVE  TabsOK'
BY DEF TypeOK, TabOK, TabsOK

LEMMA ForgetTyped ==
    ASSUME TypeOK, NEW l, NEW ls \in SUBSET Logins, Forget(l, ls)
    PROVE  returnTo' \in [Logins -> Path] /\ disturbed' \subseteq Logins
<1>1. To(DefaultPage) \in Path
    BY HomeTyped, WebSessionAssumption
<1>. QED  BY <1>1 DEF Forget, TypeOK

LEMMA CallingOK ==
    ASSUME TypeOK, NEW t \in Tabs, tab[t].login \in Logins, NEW k \in 1..MaxSends
    PROVE  TabOK([tab[t] EXCEPT !.at = "callback", !.send = k])
<1>. DEFINE x == [tab[t] EXCEPT !.at = "callback", !.send = k]
<1>1. tab[t] \in Tab
    BY DEF TypeOK
<1>2. k \in 0..MaxSends /\ k > 0
    OBVIOUS
<1>3. x \in Tab
    BY <1>1, <1>2 DEF Tab
<1>4. x.at = "callback" /\ x.send = k /\ x.login = tab[t].login
    BY <1>1 DEF Tab
<1>. QED  BY <1>2, <1>3, <1>4 DEF TabOK

LEMMA WaitingTyped ==
    ASSUME TypeOK, NEW t \in Tabs
    PROVE  Waiting(t) \subseteq Logins
BY DEF TypeOK, Waiting

LEMMA UserTyped ==
    ASSUME TypeOK, NEW t \in Tabs, User(t)
    PROVE  TypeOK'
<1>. USE WebSessionAssumption
<1>0. TabOK(tab[t]) /\ tab[t] \in Tab /\ tab \in [Tabs -> Tab]
    BY DEF TypeOK, TabOK
<1>1. ASSUME NEW p \in Pages, Open(t, p)
      PROVE  TypeOK'
    <2>1. TabsOK'
        BY <1>1, FreshPages, TabChanges DEF Open, TypeOK, Fresh, TabOK
    <2>2. returnTo' \in [Logins -> Path] /\ disturbed' \subseteq Logins
        BY <1>1, ForgetTyped DEF Open
    <2>. QED  BY <2>1, <2>2, <1>1 DEF Open, TypeOK, TabsOK, TabOK, Wants, jar
<1>2. ASSUME NEW p \in Pages, Navigate(t, p)
      PROVE  TypeOK'
    <2>1. TabOK([tab[t] EXCEPT !.path = To(p)])
        BY <1>0, <1>2, HomeTyped DEF TabOK, Tab, Navigate
    <2>2. TabsOK'
        BY <1>2, <2>1, TabChanges DEF Navigate
    <2>. QED  BY <2>2, <1>2 DEF Navigate, TypeOK, TabsOK, TabOK, Wants, serverVars, jar, history
<1>3. CASE Enter(t)
    <2>1. PICK me \in {"none", "user"} :
             tab' = [tab EXCEPT ![t].at = IF me = "user" THEN "app" ELSE "login",
                                ![t].path = To(DefaultPage), ![t].me = me]
        BY <1>3 DEF Enter
    <2>2. TabOK([tab[t] EXCEPT !.at = IF me = "user" THEN "app" ELSE "login",
                               !.path = To(DefaultPage), !.me = me])
        BY <1>0, HomeTyped DEF TabOK, Tab
    <2>3. TabsOK'
        BY <1>0, <2>1, <2>2, TabChanges
    <2>. QED  BY <2>3, <1>3 DEF Enter, TypeOK, TabsOK, TabOK, Wants, serverVars, jar, history
<1>4. CASE TryAgain(t)
    <2>1. TabOK([tab[t] EXCEPT !.at = "asking"])
        BY <1>0 DEF TabOK, Tab
    <2>2. TabsOK'
        BY <1>4, <2>1, TabChanges DEF TryAgain
    <2>. QED  BY <2>2, <1>4 DEF TryAgain, TypeOK, TabsOK, TabOK, serverVars, jar, history
<1>5. ASSUME NEW phase \in {"sent", "denied"}, Return(t, phase)
      PROVE  TypeOK'
    <2>. DEFINE l == tab[t].login
    <2>1. l \in Logins /\ 1 \in 1..MaxSends
        BY <1>0, <1>5 DEF Return, TabOK
    <2>2. TabOK([tab[t] EXCEPT !.at = "callback", !.send = 1])
        BY <2>1, CallingOK
    <2>3. TabsOK'
        BY <1>0, <1>5, <2>2, TabChanges DEF Return
    <2>4. calls' \in [Calls -> [phase : {"none", "sent", "denied", "exchanging", "ok", "failed",
                                        "refused", "crashed"}, bound : BOOLEAN]]
        BY <1>5, <2>1 DEF Return, TypeOK
    <2>. QED  BY <2>3, <2>4, <1>5 DEF Return, TypeOK, TabsOK, TabOK, jar, history
<1>6. CASE Resend(t)
    <2>. DEFINE l == tab[t].login
                k == tab[t].send
    <2>1. l \in Logins /\ k \in 1..MaxSends /\ k + 1 \in 1..MaxSends
        BY <1>0, <1>6 DEF Resend, TabOK, Tab
    <2>2. TabOK([tab[t] EXCEPT !.at = "callback", !.send = k + 1])
        BY <2>1, CallingOK
    <2>3. TabsOK'
        BY <1>0, <1>6, <2>2, TabChanges DEF Resend
    <2>4. calls' \in [Calls -> [phase : {"none", "sent", "denied", "exchanging", "ok", "failed",
                                        "refused", "crashed"}, bound : BOOLEAN]]
        BY <1>6, <2>1 DEF Resend, TypeOK, Idle
    <2>5. disturbed' \subseteq Logins /\ faults' \in 0..MaxFaults
        BY <1>6, <2>1 DEF Resend, TypeOK
    <2>6. UNCHANGED <<metadata, logins, returnTo, sessions, jar, made, goal, begun>>
        BY <1>6 DEF Resend
    <2>. QED  BY <2>3, <2>4, <2>5, <2>6 DEF TypeOK, TabsOK, TabOK, jar
<1>7. CASE LogOut(t)
    <2>1. Fresh([AtHome EXCEPT !.at = "leaving", !.seen = sessionCookie])
        BY FreshPages DEF TypeOK
    <2>2. TabsOK'
        BY <1>7, <2>1, TabChanges DEF LogOut, Fresh, TabOK
    <2>. QED  BY <2>2, <1>7 DEF LogOut, TypeOK, TabsOK, TabOK, serverVars, jar, history
<1>. QED  BY <1>1, <1>2, <1>3, <1>4, <1>5, <1>6, <1>7 DEF User

LEMMA PageTyped ==
    ASSUME TypeOK, NEW t \in Tabs, Page(t)
    PROVE  TypeOK'
<1>. USE WebSessionAssumption
<1>0. TabOK(tab[t]) /\ tab[t] \in Tab /\ tab \in [Tabs -> Tab]
    BY DEF TypeOK, TabOK
<1>1. CASE MeAnswered(t)
    <2>. DEFINE me == IF tab[t].seen \in sessions THEN "user" ELSE "none"
                x == [tab[t] EXCEPT !.at = IF @ = "loading" /\ me = "user" THEN "app" ELSE "login",
                                    !.me = me, !.seen = None]
    <2>1. TabOK(x)
        <3>. DEFINE y == [tab[t] EXCEPT !.at = IF @ = "loading" /\ me = "user" THEN "app" ELSE "login"]
                    z == [y EXCEPT !.me = me]
        <3>1. y \in Tab /\ y.at \in {"app", "login"}
            BY <1>0 DEF Tab
        <3>2. z \in Tab /\ z.at = y.at
            BY <3>1 DEF Tab
        <3>3. x = [z EXCEPT !.seen = None]
            OBVIOUS
        <3>. HIDE DEF x, y, z
        <3>4. x \in Tab /\ x.at = z.at
            BY <3>2, <3>3 DEF Tab
        <3>. QED  BY <3>1, <3>2, <3>4 DEF TabOK
    <2>2. tab' = [tab EXCEPT ![t] = x]
        BY <1>0, <1>1 DEF MeAnswered
    <2>. HIDE DEF x
    <2>3. TabsOK'
        BY <2>1, <2>2, TabChanges
    <2>. QED  BY <2>3, <1>1 DEF MeAnswered, TypeOK, TabsOK, TabOK, serverVars, jar, history
<1>2. CASE LoginEffect(t)
    <2>1. TabsOK'
        <3>1. CASE tab[t].me = "user"
            <4>. DEFINE x == [tab[t] EXCEPT !.at = IF tab[t].path.depth > 0 THEN "login" ELSE "app",
                                            !.path = Inside(@),
                                            !.err = FALSE]
            <4>1. Under(tab[t].path) \in Path /\ Inside(tab[t].path) \in Path
                BY <1>0, PathsTyped DEF Tab
            <4>2. TabOK(x)
                BY <1>0, <4>1 DEF TabOK, Tab
            <4>3. tab' = [tab EXCEPT ![t].at = IF tab[t].path.depth > 0 THEN "login" ELSE "app",
                                     ![t].path = Inside(@),
                                     ![t].err = FALSE]
                BY <1>2, <3>1 DEF LoginEffect
            <4>4. tab' = [tab EXCEPT ![t] = x]
                BY <1>0, <4>3
            <4>. QED  BY <4>2, <4>4, TabChanges
        <3>2. CASE tab[t].me # "user"
            <4>1. TabOK([tab[t] EXCEPT !.at = "asking"])
                BY <1>0 DEF TabOK, Tab
            <4>. QED  BY <1>0, <1>2, <3>2, <4>1, TabChanges DEF LoginEffect
        <3>. QED  BY <3>1, <3>2
    <2>. QED  BY <2>1, <1>2 DEF LoginEffect, TypeOK, TabsOK, TabOK, serverVars, jar, history
<1>3. CASE Ask(t)
    <2>1. TabOK([tab[t] EXCEPT !.asked = {sessionCookie}])
        BY <1>0 DEF TabOK, Tab, TypeOK
    <2>2. TabsOK'
        BY <1>3, <2>1, TabChanges DEF Ask
    <2>. QED  BY <2>2, <1>3 DEF Ask, TypeOK, TabsOK, TabOK, serverVars, jar, history
<1>4. ASSUME NEW s \in Calls \cup {None}, Answered(t, s)
      PROVE  TypeOK'
    <2>1. TabOK([tab[t] EXCEPT !.asked = @ \ {s}])
        BY <1>0 DEF TabOK, Tab
    <2>2. TabsOK'
        BY <1>4, <2>1, TabChanges DEF Answered
    <2>. QED  BY <2>2, <1>4 DEF Answered, TypeOK, TabsOK, TabOK, serverVars, jar, history
<1>5. ASSUME NEW s \in Calls \cup {None}, Refused(t, s)
      PROVE  TypeOK'
    <2>1. TabsOK'
        <3>1. CASE tab[t].at = "app"
            <4>1. PICK asked \in {tab[t].asked, tab[t].asked \ {s}} :
                     tab' = [tab EXCEPT ![t].at = "login", ![t].me = "none", ![t].asked = asked]
                BY <1>5, <3>1 DEF Refused
            <4>2. TabOK([tab[t] EXCEPT !.at = "login", !.me = "none", !.asked = asked])
                BY <1>0 DEF TabOK, Tab
            <4>. QED  BY <1>0, <4>1, <4>2, TabChanges
        <3>2. CASE tab[t].at # "app"
            <4>1. Under(tab[t].path) \in Path /\ Inside(tab[t].path) \in Path
                BY <1>0, PathsTyped DEF Tab
            <4>2. TabOK([tab[t] EXCEPT !.at = "login", !.me = "none", !.asked = @ \ {s},
                                       !.path = Under(@)])
                BY <1>0, <4>1 DEF TabOK, Tab
            <4>3. tab' = [tab EXCEPT ![t].at = "login", ![t].me = "none", ![t].asked = @ \ {s},
                                     ![t].path = Under(@)]
                BY <1>5, <3>2 DEF Refused
            <4>4. tab' = [tab EXCEPT ![t] = [tab[t] EXCEPT !.at = "login", !.me = "none",
                                                           !.asked = @ \ {s}, !.path = Under(@)]]
                BY <1>0, <4>3
            <4>. QED  BY <4>2, <4>4, TabChanges
        <3>. QED  BY <3>1, <3>2
    <2>. QED  BY <2>1, <1>5 DEF Refused, TypeOK, TabsOK, TabOK, serverVars, jar, history
<1>6. CASE Login(t)
    <2>1. begun' \in Logins
        BY <1>6 DEF Login, TypeOK, Logins
    <2>2. TabOK([tab[t] EXCEPT !.at = "redirected", !.login = begun', !.asked = {}])
        BY <1>0, <2>1 DEF TabOK, Tab
    <2>3. TabsOK'
        BY <1>0, <1>6, <2>2, TabChanges DEF Login
    <2>4. returnTo' \in [Logins -> Path]
        BY <1>0, <1>6, <2>1 DEF Login, TypeOK, Tab
    <2>5. begun' \in 0..MaxLogins
        BY <2>1 DEF Logins
    <2>. QED  BY <2>1, <2>3, <2>4, <2>5, <1>6 DEF Login, TypeOK, TabsOK, TabOK, jar, history
<1>7. CASE AtProvider(t)
    <2>1. TabOK([tab[t] EXCEPT !.at = "idp"])
        BY <1>0, <1>7 DEF TabOK, Tab, AtProvider
    <2>2. TabsOK'
        BY <1>0, <1>7, <2>1, TabChanges DEF AtProvider
    <2>3. loginCookie' \in Logins /\ disturbed' \subseteq Logins
        BY <1>0, <1>7, WaitingTyped DEF AtProvider, TabOK, TypeOK
    <2>. QED  BY <2>2, <2>3, <1>7 DEF AtProvider, TypeOK, TabsOK, TabOK, serverVars
<1>8. CASE Arrive(t)
    <2>. DEFINE c == <<tab[t].login, tab[t].send>>
                out == calls[c].phase
    <2>1. c \in Calls /\ tab[t].login \in Logins
        BY <1>0, <1>8 DEF Arrive, TabOK, Tab, Calls
    <2>2. calls' \in [Calls -> [phase : {"none", "sent", "denied", "exchanging", "ok", "failed",
                                        "refused", "crashed"}, bound : BOOLEAN]]
        BY <1>8, <2>1 DEF Arrive, TypeOK, Idle
    <2>3. CASE out = "ok"
        <3>1. /\ loginCookie' = None /\ sessionCookie' = c
              /\ tab' = [tab EXCEPT ![t] = Visit(returnTo[c[1]], c)]
              /\ Forget(c[1], Waiting(t))
              /\ UNCHANGED <<goal, metadata, logins, sessions, made, begun, faults>>
            BY <1>8, <2>3 DEF Arrive
        <3>2. returnTo[c[1]] \in Path
            BY <2>1 DEF TypeOK
        <3>3. TabsOK'
            BY <2>1, <3>1, <3>2, FreshPages, TabChanges DEF Fresh, TabOK
        <3>4. returnTo' \in [Logins -> Path] /\ disturbed' \subseteq Logins
            BY <3>1, WaitingTyped, ForgetTyped
        <3>. QED  BY <2>1, <2>2, <3>1, <3>3, <3>4 DEF TypeOK, TabsOK, TabOK
    <2>4. CASE out \in {"failed", "refused"}
        <3>1. /\ loginCookie' = None
              /\ tab' = [tab EXCEPT ![t] = LoginFailed(sessionCookie)]
              /\ Forget(c[1], Waiting(t))
              /\ goal' = [goal EXCEPT ![t] = None]
              /\ UNCHANGED <<sessionCookie, metadata, logins, sessions, made, begun, faults>>
            BY <1>8, <2>4 DEF Arrive
        <3>2. TabsOK'
            BY <3>1, FreshPages, TabChanges DEF Fresh, TabOK, TypeOK
        <3>3. returnTo' \in [Logins -> Path] /\ disturbed' \subseteq Logins
            BY <3>1, WaitingTyped, ForgetTyped
        <3>. QED  BY <2>2, <3>1, <3>2, <3>3 DEF TypeOK, TabsOK, TabOK
    <2>5. CASE out = "crashed"
        <3>1. /\ tab' = [tab EXCEPT ![t].at = "broken"]
              /\ UNCHANGED <<returnTo, jar, disturbed, goal, metadata, logins, sessions, made,
                             begun, faults>>
            BY <1>8, <2>5 DEF Arrive
        <3>2. TabOK([tab[t] EXCEPT !.at = "broken"])
            BY <1>0, <1>8 DEF TabOK, Tab, Arrive
        <3>3. TabsOK'
            BY <1>0, <3>1, <3>2, TabChanges
        <3>. QED  BY <2>2, <3>1, <3>3 DEF TypeOK, TabsOK, TabOK, jar
    <2>. QED  BY <1>8, <2>3, <2>4, <2>5 DEF Arrive
<1>9. CASE Logout(t)
    <2>1. TabOK([tab[t] EXCEPT !.at = "left", !.seen = None])
        BY <1>0 DEF TabOK, Tab
    <2>2. TabsOK'
        BY <1>0, <1>9, <2>1, TabChanges DEF Logout
    <2>. QED  BY <2>2, <1>9 DEF Logout, TypeOK, TabsOK, TabOK, jar, history
<1>10. CASE Left(t)
    <2>1. TabsOK'
        BY <1>10, FreshPages, TabChanges DEF Left, Fresh, TabOK, TypeOK
    <2>. QED  BY <2>1, <1>10 DEF Left, TypeOK, TabsOK, TabOK, serverVars, history
<1>. QED
    BY <1>1, <1>2, <1>3, <1>4, <1>5, <1>6, <1>7, <1>8, <1>9, <1>10 DEF Page

LEMMA HandleTyped ==
    ASSUME TypeOK, NEW c \in Calls, Handle(c)
    PROVE  TypeOK'
<1>1. CASE Redeem(c)
    BY <1>1, OutcomeTyped DEF Redeem, ToAwait, TypeOK, jar, history
<1>2. CASE Exchange(c)
    <2>1. PICK out \in {"ok", "failed", "crashed"} : calls' = [calls EXCEPT ![c] = Outcome(c, out)]
        BY <1>2 DEF Exchange
    <2>2. calls' \in [Calls -> [phase : {"none", "sent", "denied", "exchanging", "ok", "failed",
                                         "refused", "crashed"},
                                bound : BOOLEAN]]
        <3>1. Outcome(c, out) \in [phase : {"none", "sent", "denied", "exchanging", "ok", "failed",
                                           "refused", "crashed"},
                                   bound : BOOLEAN]
            BY OutcomeTyped
        <3>. QED  BY <2>1, <3>1 DEF TypeOK
    <2>3. sessions' \subseteq Calls /\ made' \subseteq Calls
        BY <1>2 DEF Exchange, TypeOK
    <2>. QED  BY <1>2, <2>2, <2>3 DEF Exchange, TypeOK, jar
<1>. QED  BY <1>1, <1>2 DEF Handle

LEMMA FaultTyped ==
    ASSUME TypeOK, Fault
    PROVE  TypeOK'
<1>. USE WebSessionAssumption
<1>1. ASSUME NEW t \in Tabs, Unreachable(t)
      PROVE  TypeOK'
    <2>1. TabsOK'
        BY <1>1, FreshPages, TabChanges DEF Unreachable, Fresh, TabOK, TypeOK
    <2>2. goal' \in [Tabs -> Pages \cup {None}] /\ faults' \in 0..MaxFaults
        BY <1>1 DEF Unreachable, TypeOK
    <2>3. UNCHANGED <<serverVars, jar, history, begun>>
        BY <1>1 DEF Unreachable
    <2>. QED  BY <2>1, <2>2, <2>3 DEF TypeOK, TabsOK, TabOK, serverVars, jar, history
<1>2. ASSUME NEW s \in Calls, ExpireSession(s)
      PROVE  TypeOK'
    BY <1>2 DEF ExpireSession, TypeOK, jar, history
<1>3. ASSUME NEW l \in Logins, ExpireLogin(l)
      PROVE  TypeOK'
    BY <1>3 DEF ExpireLogin, TypeOK, jar
<1>4. CASE Restart
    <2>1. calls' \in [Calls -> [phase : {"none", "sent", "denied", "exchanging", "ok", "failed",
                                        "refused", "crashed"}, bound : BOOLEAN]]
        BY <1>4, OutcomeTyped DEF Restart, TypeOK
    <2>2. disturbed' \subseteq Logins /\ faults' \in 0..MaxFaults
        BY <1>4 DEF Restart, TypeOK
    <2>3. /\ metadata' = FALSE /\ logins' = {} /\ sessions' = {}
          /\ UNCHANGED <<returnTo, jar, tab, made, goal, begun>>
        BY <1>4 DEF Restart
    <2>. QED  BY <2>1, <2>2, <2>3 DEF TypeOK, jar
<1>. QED  BY <1>1, <1>2, <1>3, <1>4 DEF Fault

\* The types of WebSession, and that a tab that is at the provider or waits for a
\* callback has a login (oidc.mjs, login and callback).
THEOREM Typing == Spec => []TypeOK
<1>1. Init => TypeOK
    <2>1. To(DefaultPage) \in Path
        BY HomeTyped, WebSessionAssumption
    <2>2. AtHome \in Tab /\ AtHome.at = "landing"
        BY FreshPages, LoadTyped, <2>1 DEF Fresh, AtHome
    <2>3. Init => /\ begun \in 0..MaxLogins /\ faults \in 0..MaxFaults
                  /\ calls \in [Calls -> [phase : {"none", "sent", "denied", "exchanging", "ok",
                                                   "failed", "refused", "crashed"},
                                          bound : BOOLEAN]]
        BY WebSessionAssumption DEF Init, Idle
    <2>4. Init => tab \in [Tabs -> Tab] /\ \A t \in Tabs : tab[t].at = "landing"
        BY <2>2 DEF Init
    <2>5. Init => /\ metadata \in BOOLEAN /\ logins \subseteq Logins /\ sessions \subseteq Calls
                  /\ returnTo \in [Logins -> Path] /\ made \subseteq Calls
                  /\ disturbed \subseteq Logins /\ goal \in [Tabs -> Pages \cup {None}]
                  /\ loginCookie = None /\ sessionCookie = None
        BY <2>1, WebSessionAssumption DEF Init
    <2>. QED  BY <2>3, <2>4, <2>5 DEF TypeOK
<1>2. TypeOK /\ [Next]_vars => TypeOK'
    <2>. SUFFICES ASSUME TypeOK, [Next]_vars
                  PROVE  TypeOK'
        OBVIOUS
    <2>1. CASE Next
        BY <2>1, UserTyped, PageTyped, HandleTyped, FaultTyped DEF Next
    <2>2. CASE UNCHANGED vars
        BY <2>2 DEF vars, serverVars, jar, history, TypeOK
    <2>. QED  BY <2>1, <2>2
<1>. QED  BY <1>1, <1>2, PTL DEF Spec
-------------------------------------------------------------------------------
\* A step that takes and begins no login, and makes no more of those taken.
LEMMA Quiet ==
    ASSUME Taken, Spent' \subseteq Spent, logins' \subseteq logins, begun' = begun
    PROVE  Taken'
BY DEF Taken

\* Where neither sessions are made nor callbacks change.
LEMMA QuietServer ==
    ASSUME Taken, UNCHANGED <<made, calls>>, logins' \subseteq logins, begun' = begun
    PROVE  Taken'
<1>1. Spent' = Spent
    BY DEF Spent
<1>. QED  BY <1>1, Quiet

LEMMA UserTakesNone ==
    ASSUME TypeOK, Taken, NEW t \in Tabs, User(t)
    PROVE  Taken'
<1>1. ASSUME NEW p \in Pages, Open(t, p) \/ Navigate(t, p)
      PROVE  Taken'
    BY <1>1, QuietServer DEF Open, Navigate, serverVars, history
<1>2. CASE Enter(t) \/ TryAgain(t) \/ LogOut(t)
    BY <1>2, QuietServer DEF Enter, TryAgain, LogOut, serverVars, history
<1>3. ASSUME NEW phase \in {"sent", "denied"}, Return(t, phase)
      PROVE  Taken'
    <2>1. \A c \in Calls : calls'[c].phase = "exchanging" => calls[c].phase = "exchanging"
        BY <1>3 DEF Return, TypeOK
    <2>2. UNCHANGED <<made, logins, begun>>
        BY <1>3 DEF Return, history
    <2>. QED  BY <2>1, <2>2, Quiet DEF Spent
<1>4. CASE Resend(t)
    <2>1. \A c \in Calls : calls'[c].phase = "exchanging" => calls[c].phase = "exchanging"
        BY <1>4 DEF Resend, TypeOK, Idle
    <2>2. UNCHANGED <<made, logins, begun>>
        BY <1>4 DEF Resend
    <2>. QED  BY <2>1, <2>2, Quiet DEF Spent
<1>. QED  BY <1>1, <1>2, <1>3, <1>4 DEF User

LEMMA PageTakesNone ==
    ASSUME TypeOK, Taken, NEW t \in Tabs, Page(t)
    PROVE  Taken'
<1>1. CASE MeAnswered(t) \/ LoginEffect(t) \/ Ask(t)
    BY <1>1, QuietServer DEF MeAnswered, LoginEffect, Ask, serverVars, history
<1>2. ASSUME NEW s \in Calls \cup {None}, Answered(t, s) \/ Refused(t, s)
      PROVE  Taken'
    BY <1>2, QuietServer DEF Answered, Refused, serverVars, history
<1>3. CASE Login(t)
    <2>1. /\ logins' = logins \cup {begun + 1} /\ begun' = begun + 1
          /\ UNCHANGED <<made, calls>>
        BY <1>3 DEF Login, history
    <2>2. Spent' = Spent
        BY <2>1 DEF Spent
    <2>3. begun \in Nat /\ \A c \in Spent : c[1] \in Nat
        BY DEF TypeOK, Spent, Calls, Logins
    <2>4. \A l \in logins : l \in Nat
        BY DEF TypeOK, Logins
    <2>. QED  BY <2>1, <2>2, <2>3, <2>4 DEF Taken
<1>4. CASE AtProvider(t) \/ Logout(t) \/ Left(t)
    BY <1>4, QuietServer DEF AtProvider, Logout, Left, serverVars, history
<1>5. CASE Arrive(t)
    <2>1. \A c \in Calls : calls'[c].phase = "exchanging" => calls[c].phase = "exchanging"
        BY <1>5 DEF Arrive, TypeOK, Idle
    <2>2. UNCHANGED <<made, logins, begun>>
        BY <1>5 DEF Arrive
    <2>. QED  BY <2>1, <2>2, Quiet DEF Spent
<1>. QED  BY <1>1, <1>2, <1>3, <1>4, <1>5 DEF Page

\* The heart of it: the login is taken out in the step that enters the exchange.
LEMMA HandleTakesOnce ==
    ASSUME TypeOK, Taken, NEW c \in Calls, Handle(c)
    PROVE  Taken'
<1>1. CASE Redeem(c)
    <2>1. UNCHANGED <<made, begun>> /\ logins' = logins \ {c[1]}
        BY <1>1 DEF Redeem, ToAwait, history
    <2>2. CASE c[1] \in logins
        <3>1. Spent' \subseteq Spent \cup {c}
            BY <1>1, <2>1, OutcomeTyped DEF Redeem, ToAwait, Spent, TypeOK
        <3>2. \A d \in Spent : d[1] # c[1]
            BY <2>2 DEF Taken
        <3>. QED  BY <2>1, <2>2, <3>1, <3>2 DEF Taken
    <2>3. CASE c[1] \notin logins
        <3>1. Spent' \subseteq Spent
            BY <1>1, <2>1, <2>3, OutcomeTyped DEF Redeem, ToAwait, Spent, TypeOK
        <3>. QED  BY <2>1, <3>1, Quiet
    <2>. QED  BY <2>2, <2>3
<1>2. CASE Exchange(c)
    <2>1. c \in Spent /\ made' \subseteq made \cup {c} /\ UNCHANGED <<logins, begun>>
        BY <1>2 DEF Exchange, Spent
    <2>2. \A d \in Calls : calls'[d].phase = "exchanging" => calls[d].phase = "exchanging"
        BY <1>2, OutcomeTyped DEF Exchange, TypeOK
    <2>3. Spent' \subseteq Spent
        BY <2>1, <2>2 DEF Spent
    <2>. QED  BY <2>1, <2>3, Quiet
<1>. QED  BY <1>1, <1>2 DEF Handle

LEMMA FaultTakesNone ==
    ASSUME TypeOK, Taken, Fault
    PROVE  Taken'
<1>1. ASSUME NEW t \in Tabs, Unreachable(t)
      PROVE  Taken'
    BY <1>1, QuietServer DEF Unreachable, serverVars, history
<1>2. ASSUME NEW s \in Calls, ExpireSession(s)
      PROVE  Taken'
    BY <1>2, QuietServer DEF ExpireSession, history
<1>3. ASSUME NEW l \in Logins, ExpireLogin(l)
      PROVE  Taken'
    BY <1>3, QuietServer DEF ExpireLogin
<1>4. CASE Restart
    <2>1. \A c \in Calls : calls'[c].phase = "exchanging" => calls[c].phase = "exchanging"
        BY <1>4, OutcomeTyped DEF Restart, TypeOK
    <2>2. UNCHANGED <<made, begun>> /\ logins' = {}
        BY <1>4 DEF Restart
    <2>. QED  BY <2>1, <2>2, Quiet DEF Spent
<1>. QED  BY <1>1, <1>2, <1>3, <1>4 DEF Fault

\* callback (oidc.mjs) makes at most one session of a login, whatever is sent
\* again, expires or is restarted, and in whatever order the provider answers.
THEOREM SingleUse == Spec => []OnePerLogin
<1>1. Init => Taken
    BY DEF Init, Taken, Spent, Idle
<1>2. TypeOK /\ Taken /\ [Next]_vars => Taken'
    <2>. SUFFICES ASSUME TypeOK, Taken, [Next]_vars
                  PROVE  Taken'
        OBVIOUS
    <2>1. CASE Next
        BY <2>1, UserTakesNone, PageTakesNone, HandleTakesOnce, FaultTakesNone DEF Next
    <2>2. CASE UNCHANGED vars
        BY <2>2, QuietServer DEF vars, serverVars, history
    <2>. QED  BY <2>1, <2>2
<1>3. Taken => OnePerLogin
    BY DEF Taken, Spent, OnePerLogin
<1>. QED  BY <1>1, <1>2, <1>3, Typing, PTL DEF Spec
-------------------------------------------------------------------------------
(* Who comes back, and whose login works.                                  *)

\* Where a tab has a login.
Away == {"redirected", "idp", "callback", "broken"}

\* Only there, and no two tabs have the same one.
Owns ==
    \A t \in Tabs : tab[t].login \in Logins =>
        /\ tab[t].login <= begun /\ tab[t].at \in Away
        /\ \A u \in Tabs : tab[u].login = tab[t].login => u = t

\* What the user wants is in the tab's path, or the tab is to come back to it.
Heads(t) ==
    /\ tab[t].at \in Away => goal[t] \in {returnTo[tab[t].login].page, None}
    /\ tab[t].at \in {"loading", "app", "login", "asking"} => goal[t] \in {tab[t].path.page, None}

OnTheWay == \A t \in Tabs : Heads(t)

\* The callbacks of a tab's login are those the tab has sent.
Sends ==
    \A c \in Calls : calls[c].phase # "none" =>
        /\ c[1] <= begun
        /\ \A t \in Tabs : tab[t].login = c[1] =>
               tab[t].at \in {"callback", "broken"} /\ c[2] <= tab[t].send

Resent ==
    \A t \in Tabs : tab[t].at \in {"callback", "broken"} /\ tab[t].send > 1 =>
        tab[t].login \in disturbed

WaitsFor(t, c) == tab[t].at = "callback" /\ tab[t].login = c[1] /\ tab[t].send = c[2]

\* A login that nothing came between is there when its callback gets there, which
\* carries its cookie.
Sound(t) ==
    tab[t].login \notin disturbed =>
        /\ tab[t].at \in {"redirected", "idp"} => tab[t].login \in logins
        /\ tab[t].at = "idp" => loginCookie = tab[t].login
        /\ \A c \in Calls : WaitsFor(t, c) /\ calls[c].phase = "sent" =>
               c[1] \in logins /\ calls[c].bound

AllSound == \A t \in Tabs : Sound(t)

\* A callback that is refused is one that a tab waits for.
Refusals ==
    \A c \in Calls : calls[c].phase = "refused" =>
        c[1] \in disturbed /\ \E t \in Tabs : WaitsFor(t, c)

LoginInv == Owns /\ OnTheWay /\ Sends /\ Resent /\ AllSound /\ Refusals

LEMMA OutcomeAwaited ==
    ASSUME TypeOK, NEW c \in Calls, NEW out
    PROVE  \/ Outcome(c, out) = Idle
           \/ Outcome(c, out) = [phase |-> out, bound |-> FALSE] /\ \E t \in Tabs : WaitsFor(t, c)
BY DEF Outcome, WaitsFor

\* A step in which a tab that has no login goes on without, or one goes on where it
\* is, and nothing happens to the logins.
LEMMA GoesOn ==
    ASSUME TypeOK, LoginInv, NEW t \in Tabs,
           UNCHANGED <<logins, returnTo, calls, loginCookie, disturbed, begun>>,
           \A u \in Tabs \ {t} : tab'[u] = tab[u] /\ goal'[u] = goal[u],
           \/ /\ tab[t].at \notin Away /\ tab'[t].at \notin Away
              /\ tab'[t].login \in {tab[t].login, None}
           \/ /\ tab'[t].at = tab[t].at /\ tab'[t].login = tab[t].login
              /\ tab'[t].send = tab[t].send,
           Heads(t)'
    PROVE  LoginInv'
<1>. USE DEF LoginInv, Away
<1>0. None \notin Logins
    BY WebSessionAssumption DEF Logins
<1>1. Owns'
    BY <1>0 DEF Owns
<1>2. OnTheWay'
    BY DEF OnTheWay, Heads
<1>3. Sends'
    BY <1>0 DEF Sends, Owns, Calls
<1>4. Resent'
    BY DEF Resent
<1>5. AllSound'
    BY DEF AllSound, Sound, WaitsFor
<1>6. Refusals'
    BY DEF Refusals, WaitsFor
<1>. QED  BY <1>1, <1>2, <1>3, <1>4, <1>5, <1>6

\* A callback is sent for the first time: it carries its login's cookie.
LEMMA ReturnInv ==
    ASSUME TypeOK, LoginInv, NEW t \in Tabs, NEW phase \in {"sent", "denied"}, Return(t, phase)
    PROVE  LoginInv'
<1>. USE DEF LoginInv, Away
<1>. DEFINE l == tab[t].login
            d == <<l, 1>>
<1>1. l \in Logins /\ d \in Calls /\ tab[t].at = "idp"
    BY WebSessionAssumption DEF Return, TypeOK, Calls
<1>2. /\ tab'[t].at = "callback" /\ tab'[t].send = 1 /\ tab'[t].login = l
      /\ \A u \in Tabs \ {t} : tab'[u] = tab[u]
      /\ calls'[d] = [phase |-> phase, bound |-> loginCookie = l]
      /\ \A c \in Calls \ {d} : calls'[c] = calls[c]
      /\ UNCHANGED <<logins, returnTo, loginCookie, disturbed, begun, goal>>
    BY <1>1 DEF Return, TypeOK, jar, history, Tab
<1>3. \A c \in Calls : c[1] = l => calls[c].phase = "none"
    BY <1>1 DEF Sends
<1>4. Owns'
    BY <1>2 DEF Owns
<1>5. OnTheWay'
    BY <1>1, <1>2 DEF OnTheWay, Heads
<1>6. Sends'
    <2>. SUFFICES ASSUME NEW c \in Calls, calls'[c].phase # "none"
                  PROVE  /\ c[1] <= begun
                         /\ \A u \in Tabs : tab'[u].login = c[1] =>
                                tab'[u].at \in {"callback", "broken"} /\ c[2] <= tab'[u].send
        BY <1>2 DEF Sends
    <2>1. CASE c = d
        BY <2>1, <1>1, <1>2 DEF Owns
    <2>2. CASE c # d
        BY <2>2, <1>2, <1>3 DEF Sends
    <2>. QED  BY <2>1, <2>2
<1>7. Resent'
    BY <1>2 DEF Resent
<1>8. AllSound'
    <2>1. ASSUME NEW u \in Tabs \ {t}  PROVE Sound(u)'
        <3>1. tab[u].login # l
            BY <1>1 DEF Owns
        <3>. QED  BY <1>2, <3>1 DEF AllSound, Sound, WaitsFor
    <2>2. Sound(t)'
        <3>1. l \notin disturbed => l \in logins /\ loginCookie = l
            BY <1>1 DEF AllSound, Sound
        <3>2. \A c \in Calls : WaitsFor(t, c)' => c = d
            BY <1>2 DEF WaitsFor, Calls
        <3>3. loginCookie = l => calls'[d].bound
            <4>1. loginCookie = l => (loginCookie = l) = TRUE
                OBVIOUS
            <4>2. loginCookie = l => calls'[d] = [phase |-> phase, bound |-> TRUE]
                BY <1>2, <4>1, Zenon
            <4>. QED  BY <4>2
        <3>4. l \notin disturbed => d[1] \in logins' /\ calls'[d].bound
            BY <1>2, <3>1, <3>3
        <3>. QED  BY <1>2, <3>2, <3>4 DEF Sound
    <2>. QED  BY <2>1, <2>2 DEF AllSound
<1>9. Refusals'
    BY <1>1, <1>2 DEF Refusals, WaitsFor
<1>. QED  BY <1>4, <1>5, <1>6, <1>7, <1>8, <1>9

\* It is sent again: whatever the former one finds is for nobody.
LEMMA ResendInv ==
    ASSUME TypeOK, LoginInv, NEW t \in Tabs, Resend(t)
    PROVE  LoginInv'
<1>. USE DEF LoginInv, Away
<1>. DEFINE l == tab[t].login
            k == tab[t].send
            c0 == <<l, k>>
            d == <<l, k + 1>>
<1>1. /\ l \in Logins /\ k \in 1..MaxSends /\ k + 1 \in 1..MaxSends
      /\ tab[t].at \in {"callback", "broken"}
    BY WebSessionAssumption DEF Resend, TypeOK, Tab
<1>2. /\ tab'[t].at = "callback" /\ tab'[t].send = k + 1 /\ tab'[t].login = l
      /\ \A u \in Tabs \ {t} : tab'[u] = tab[u]
      /\ disturbed' = disturbed \cup {l}
      /\ UNCHANGED <<logins, returnTo, loginCookie, begun, goal>>
    BY <1>1 DEF Resend, TypeOK, jar, Tab
<1>3. c0 \in Calls /\ d \in Calls /\ c0 # d
    BY <1>1 DEF Calls
<1>4. /\ calls'[d].phase = "sent"
      /\ calls'[c0].phase \in {"none", "sent", "denied", "exchanging"}
      /\ calls[c0].phase = "none" => calls'[c0].phase = "none"
      /\ \A c \in Calls \ {c0, d} : calls'[c] = calls[c]
    BY <1>1, <1>3 DEF Resend, TypeOK, Idle
<1>5. \A u \in Tabs \ {t} : tab[u].login # l
    BY <1>1 DEF Owns
<1>6. Owns'
    BY <1>2 DEF Owns
<1>7. OnTheWay'
    BY <1>1, <1>2 DEF OnTheWay, Heads
<1>8. Sends'
    <2>. SUFFICES ASSUME NEW c \in Calls, calls'[c].phase # "none"
                  PROVE  /\ c[1] <= begun
                         /\ \A u \in Tabs : tab'[u].login = c[1] =>
                                tab'[u].at \in {"callback", "broken"} /\ c[2] <= tab'[u].send
        BY <1>2 DEF Sends
    <2>1. CASE c = d
        BY <2>1, <1>1, <1>2, <1>5 DEF Owns
    <2>2. CASE c # d
        <3>1. calls[c].phase # "none"
            BY <2>2, <1>4
        <3>2. c[2] \in 1..MaxSends
            BY DEF Calls
        <3>. QED  BY <1>1, <1>2, <3>1, <3>2 DEF Sends
    <2>. QED  BY <2>1, <2>2
<1>9. Resent'
    BY <1>2 DEF Resent
<1>10. AllSound'
    <2>1. ASSUME NEW u \in Tabs \ {t}  PROVE Sound(u)'
        BY <1>2, <1>4, <1>5 DEF AllSound, Sound, WaitsFor
    <2>2. Sound(t)'
        BY <1>2 DEF Sound
    <2>. QED  BY <2>1, <2>2 DEF AllSound
<1>11. Refusals'
    <2>. SUFFICES ASSUME NEW c \in Calls, calls'[c].phase = "refused"
                  PROVE  c[1] \in disturbed' /\ \E u \in Tabs : WaitsFor(u, c)'
        BY DEF Refusals
    <2>1. c # c0 /\ c # d /\ calls[c].phase = "refused"
        BY <1>4
    <2>2. PICK u \in Tabs : WaitsFor(u, c)
        BY <2>1 DEF Refusals
    <2>3. u # t
        BY <2>1, <2>2 DEF WaitsFor, Calls
    <2>. QED  BY <1>2, <2>1, <2>2, <2>3 DEF Refusals, WaitsFor
<1>. QED  BY <1>6, <1>7, <1>8, <1>9, <1>10, <1>11

\* Open and the end of a callback: a tab leaves its login behind.
LEMMA LeavesLogin ==
    ASSUME TypeOK, LoginInv, NEW t \in Tabs, NEW x, NEW ls \in SUBSET Logins,
           tab' = [tab EXCEPT ![t] = x], x.at \notin Away, x.login = None,
           \A u \in Tabs \ {t} : goal'[u] = goal[u],
           Forget(tab[t].login, ls), UNCHANGED <<logins, begun>>,
           loginCookie' = loginCookie \/ Waiting(t) \subseteq ls,
           \A c \in Calls : calls'[c] = IF WaitsFor(t, c) THEN Idle ELSE calls[c],
           Heads(t)'
    PROVE  LoginInv'
<1>. USE DEF LoginInv, Away
<1>0. None \notin Logins
    BY WebSessionAssumption DEF Logins
<1>1. tab'[t] = x /\ \A u \in Tabs \ {t} : tab'[u] = tab[u]
    BY DEF TypeOK
<1>2. \A u \in Tabs \ {t} : tab[u].login \in Logins => tab[u].login # tab[t].login
    BY DEF Owns
<1>3. \A u \in Tabs \ {t} : tab[u].at \in Away =>
          /\ tab[u].login \in Logins
          /\ returnTo'[tab[u].login] = returnTo[tab[u].login]
          /\ tab[u].login \in disturbed => tab[u].login \in disturbed'
          /\ tab[u].login \in ls => tab[u].login \in disturbed'
    BY <1>2 DEF Forget, TypeOK
<1>4. Owns'
    BY <1>0, <1>1 DEF Owns
<1>5. OnTheWay'
    <2>1. ASSUME NEW u \in Tabs \ {t}  PROVE Heads(u)'
        BY <1>1, <1>3 DEF OnTheWay, Heads
    <2>. QED  BY <2>1 DEF OnTheWay
<1>6. Sends'
    <2>1. \A c \in Calls : calls'[c].phase # "none" => calls[c].phase # "none"
        BY DEF Idle
    <2>. QED  BY <1>0, <1>1, <2>1 DEF Sends, Calls
<1>7. Resent'
    BY <1>1, <1>3 DEF Resent
<1>8. AllSound'
    <2>1. ASSUME NEW u \in Tabs \ {t}  PROVE Sound(u)'
        <3>1. tab[u].at = "idp" /\ tab[u].login \notin disturbed' => loginCookie' = loginCookie
            BY <1>3 DEF Waiting
        <3>2. \A c \in Calls : calls'[c].phase = "sent" => calls'[c] = calls[c]
            BY DEF Idle
        <3>3. tab[u].at \in Away /\ tab[u].login \notin disturbed' => tab[u].login \notin disturbed
            BY <1>3
        <3>. QED  BY <1>1, <3>1, <3>2, <3>3 DEF AllSound, Sound, WaitsFor
    <2>2. Sound(t)'
        BY <1>1 DEF Sound, WaitsFor
    <2>. QED  BY <2>1, <2>2 DEF AllSound
<1>9. Refusals'
    <2>. SUFFICES ASSUME NEW c \in Calls, calls'[c].phase = "refused"
                  PROVE  c[1] \in disturbed' /\ \E u \in Tabs : WaitsFor(u, c)'
        BY DEF Refusals
    <2>1. calls[c].phase = "refused" /\ ~WaitsFor(t, c)
        BY DEF Idle
    <2>2. PICK u \in Tabs : WaitsFor(u, c)
        BY <2>1 DEF Refusals
    <2>3. u # t /\ c[1] \in disturbed
        BY <2>1, <2>2 DEF Refusals
    <2>. QED  BY <1>1, <1>3, <2>2, <2>3 DEF WaitsFor
<1>. QED  BY <1>4, <1>5, <1>6, <1>7, <1>8, <1>9

LEMMA UserInv ==
    ASSUME TypeOK, LoginInv, NEW t \in Tabs, User(t)
    PROVE  LoginInv'
<1>0. tab[t] \in Tab /\ tab \in [Tabs -> Tab] /\ None \notin Logins
    BY WebSessionAssumption DEF TypeOK, Logins
<1>1. ASSUME NEW p \in Pages, Open(t, p)
      PROVE  LoginInv'
    <2>. DEFINE x == Load("loading", To(p), sessionCookie)
    <2>1. x.at = "loading" /\ x.login = None /\ x.path.page = p
        BY DEF Load, To
    <2>2. \A c \in Calls : ~WaitsFor(t, c)
        BY <1>1 DEF Open, WaitsFor
    <2>3. /\ tab' = [tab EXCEPT ![t] = x] /\ Forget(tab[t].login, {})
          /\ goal' = [goal EXCEPT ![t] = p]
          /\ UNCHANGED <<logins, begun, calls, loginCookie>>
        BY <1>1 DEF Open, Wants, jar
    <2>4. Heads(t)'
        BY <2>1, <2>3, <1>0 DEF Heads, TypeOK, Away
    <2>5. x.at \notin Away
        BY <2>1 DEF Away
    <2>6. \A u \in Tabs \ {t} : goal'[u] = goal[u]
        BY <2>3 DEF TypeOK
    <2>7. \A c \in Calls : calls'[c] = IF WaitsFor(t, c) THEN Idle ELSE calls[c]
        BY <2>2, <2>3
    <2>8. {} \in SUBSET Logins
        OBVIOUS
    <2>. HIDE DEF x
    <2>. QED  BY <2>1, <2>3, <2>4, <2>5, <2>6, <2>7, <2>8, LeavesLogin
<1>2. ASSUME NEW p \in Pages, Navigate(t, p)
      PROVE  LoginInv'
    <2>1. /\ tab'[t].at = "app" /\ tab[t].at = "app" /\ tab'[t].login = tab[t].login
          /\ tab'[t].path.page = p /\ goal'[t] = p
          /\ \A u \in Tabs \ {t} : tab'[u] = tab[u] /\ goal'[u] = goal[u]
          /\ UNCHANGED <<logins, returnTo, calls, loginCookie, disturbed, begun>>
        BY <1>0, <1>2 DEF Navigate, Wants, To, TypeOK, serverVars, jar, history, Tab
    <2>2. Heads(t)' /\ "app" \notin Away
        BY <2>1 DEF Heads, Away
    <2>. QED  BY <2>1, <2>2, GoesOn
<1>3. CASE Enter(t)
    <2>1. /\ tab'[t].at \in {"app", "login"} /\ tab[t].at = "landing"
          /\ tab'[t].login = tab[t].login
          /\ tab'[t].path.page = DefaultPage /\ goal'[t] = DefaultPage
          /\ \A u \in Tabs \ {t} : tab'[u] = tab[u] /\ goal'[u] = goal[u]
          /\ UNCHANGED <<logins, returnTo, calls, loginCookie, disturbed, begun>>
        BY <1>0, <1>3 DEF Enter, Wants, To, TypeOK, serverVars, jar, history, Tab
    <2>2. Heads(t)' /\ {"app", "login", "landing"} \cap Away = {}
        BY <2>1 DEF Heads, Away
    <2>. QED  BY <2>1, <2>2, GoesOn
<1>4. CASE TryAgain(t)
    <2>1. /\ tab'[t].at = "asking" /\ tab[t].at = "login"
          /\ tab'[t].login = tab[t].login /\ tab'[t].path = tab[t].path
          /\ \A u \in Tabs \ {t} : tab'[u] = tab[u]
          /\ UNCHANGED <<goal, logins, returnTo, calls, loginCookie, disturbed, begun>>
        BY <1>0, <1>4 DEF TryAgain, TypeOK, serverVars, jar, history, Tab
    <2>2. Heads(t)' /\ {"asking", "login"} \cap Away = {}
        BY <2>1 DEF Heads, Away, LoginInv, OnTheWay
    <2>. QED  BY <2>1, <2>2, GoesOn
<1>5. ASSUME NEW phase \in {"sent", "denied"}, Return(t, phase)
      PROVE  LoginInv'
    BY <1>5, ReturnInv
<1>6. CASE Resend(t)
    BY <1>6, ResendInv
<1>7. CASE LogOut(t)
    <2>1. /\ tab'[t].at = "leaving" /\ tab[t].at = "app" /\ tab'[t].login = None
          /\ \A u \in Tabs \ {t} : tab'[u] = tab[u]
          /\ UNCHANGED <<goal, logins, returnTo, calls, loginCookie, disturbed, begun>>
        BY <1>0, <1>7 DEF LogOut, AtHome, Load, TypeOK, serverVars, jar, history
    <2>2. Heads(t)' /\ {"leaving", "app"} \cap Away = {}
        BY <2>1 DEF Heads, Away
    <2>. QED  BY <2>1, <2>2, GoesOn
<1>. QED  BY <1>1, <1>2, <1>3, <1>4, <1>5, <1>6, <1>7 DEF User

\* A login is begun, and is nobody else's.
LEMMA LoginKeeps ==
    ASSUME TypeOK, LoginInv, NEW t \in Tabs, Login(t)
    PROVE  LoginInv'
<1>. USE DEF LoginInv, Away
<1>. DEFINE l == begun + 1
<1>1. l \in Logins /\ begun \in Nat /\ tab[t].at = "asking"
    BY WebSessionAssumption DEF Login, TypeOK, Logins
<1>2. /\ tab'[t].at = "redirected" /\ tab'[t].login = l
      /\ \A u \in Tabs \ {t} : tab'[u] = tab[u]
      /\ begun' = l /\ logins' = logins \cup {l}
      /\ returnTo'[l] = tab[t].path
      /\ \A m \in Logins \ {l} : returnTo'[m] = returnTo[m]
      /\ UNCHANGED <<calls, loginCookie, disturbed, goal>>
    BY <1>1 DEF Login, TypeOK, jar, history, Tab
<1>3. \A u \in Tabs : tab[u].login # l
    BY <1>1 DEF Owns
<1>4. \A c \in Calls : calls[c].phase # "none" => c[1] # l /\ c[1] \in Nat
    BY <1>1 DEF Sends, Calls, Logins
<1>5. \A m \in Logins : m <= begun => m <= begun'
    BY <1>1, <1>2 DEF Logins
<1>6. Owns'
    BY <1>1, <1>2, <1>3, <1>5 DEF Owns
<1>7. OnTheWay'
    <2>1. ASSUME NEW u \in Tabs \ {t}  PROVE Heads(u)'
        <3>1. tab[u].at \in Away => tab[u].login \in Logins
            BY DEF TypeOK
        <3>. QED  BY <1>2, <1>3, <3>1 DEF OnTheWay, Heads
    <2>2. Heads(t)'
        BY <1>1, <1>2 DEF OnTheWay, Heads
    <2>. QED  BY <2>1, <2>2 DEF OnTheWay
<1>8. Sends'
    <2>1. \A c \in Calls : calls[c].phase # "none" => c[1] <= begun'
        BY <1>5 DEF Sends, Calls
    <2>. QED  BY <1>2, <1>4, <2>1 DEF Sends
<1>9. Resent'
    BY <1>2 DEF Resent
<1>10. AllSound'
    BY <1>2 DEF AllSound, Sound, WaitsFor
<1>11. Refusals'
    BY <1>1, <1>2 DEF Refusals, WaitsFor
<1>. QED  BY <1>6, <1>7, <1>8, <1>9, <1>10, <1>11

\* The cookie is this login's from now on, and the others come to know.
LEMMA AtProviderKeeps ==
    ASSUME TypeOK, LoginInv, NEW t \in Tabs, AtProvider(t)
    PROVE  LoginInv'
<1>. USE DEF LoginInv, Away
<1>1. /\ tab[t].at = "redirected" /\ tab'[t].at = "idp" /\ tab'[t].login = tab[t].login
      /\ \A u \in Tabs \ {t} : tab'[u] = tab[u]
      /\ loginCookie' = tab[t].login
      /\ disturbed' = disturbed \cup Waiting(t)
      /\ UNCHANGED <<logins, returnTo, calls, begun, goal>>
    BY DEF AtProvider, TypeOK, serverVars, Tab
<1>2. Owns'
    BY <1>1 DEF Owns
<1>3. OnTheWay'
    BY <1>1 DEF OnTheWay, Heads
<1>4. Sends'
    BY <1>1 DEF Sends
<1>5. Resent'
    BY <1>1 DEF Resent
<1>6. AllSound'
    <2>1. ASSUME NEW u \in Tabs \ {t}  PROVE Sound(u)'
        <3>1. tab[u].at = "idp" => tab[u].login \in disturbed'
            BY <1>1 DEF Waiting
        <3>. QED  BY <1>1, <3>1 DEF AllSound, Sound, WaitsFor
    <2>2. Sound(t)'
        BY <1>1 DEF AllSound, Sound, WaitsFor
    <2>. QED  BY <2>1, <2>2 DEF AllSound
<1>7. Refusals'
    BY <1>1 DEF Refusals, WaitsFor
<1>. QED  BY <1>2, <1>3, <1>4, <1>5, <1>6, <1>7

\* The answer a callback's tab waits for: back with a session, a failed login, or
\* nothing that can be shown.
LEMMA ArriveKeeps ==
    ASSUME TypeOK, LoginInv, NEW t \in Tabs, Arrive(t)
    PROVE  LoginInv'
<1>. DEFINE c == <<tab[t].login, tab[t].send>>
            out == calls[c].phase
<1>0. tab[t] \in Tab /\ tab \in [Tabs -> Tab] /\ c \in Calls /\ c[1] = tab[t].login
    BY DEF Arrive, TypeOK, Tab, Calls
<1>1. /\ tab[t].at = "callback" /\ UNCHANGED <<logins, begun>>
      /\ calls' = [calls EXCEPT ![c] = Idle]
    BY DEF Arrive
<1>2. \A d \in Calls : WaitsFor(t, d) <=> d = c
    BY <1>0, <1>1 DEF WaitsFor, Calls
<1>3. \A d \in Calls : calls'[d] = IF WaitsFor(t, d) THEN Idle ELSE calls[d]
    BY <1>0, <1>1, <1>2 DEF TypeOK
<1>4. Waiting(t) \in SUBSET Logins
    BY WaitingTyped
<1>5. CASE out = "ok"
    <2>. DEFINE x == Visit(returnTo[c[1]], c)
    <2>1. /\ tab' = [tab EXCEPT ![t] = x] /\ Forget(tab[t].login, Waiting(t))
          /\ UNCHANGED goal
        BY <1>5, <1>0 DEF Arrive
    <2>2. x.at \in {"login", "loading"} /\ x.login = None /\ x.path.page = returnTo[c[1]].page
        BY <1>0 DEF Visit, Load, Inside, TypeOK, Path, Calls
    <2>3. Heads(t)' /\ x.at \notin Away
        BY <1>0, <1>1, <2>1, <2>2 DEF Heads, Away, LoginInv, OnTheWay
    <2>. HIDE DEF x
    <2>. QED  BY <1>1, <1>3, <1>4, <2>1, <2>2, <2>3, LeavesLogin
<1>6. CASE out \in {"failed", "refused"}
    <2>. DEFINE x == LoginFailed(sessionCookie)
    <2>1. /\ tab' = [tab EXCEPT ![t] = x] /\ Forget(tab[t].login, Waiting(t))
          /\ goal' = [goal EXCEPT ![t] = None]
        BY <1>6, <1>0 DEF Arrive
    <2>2. x.at = "login" /\ x.login = None
        BY DEF LoginFailed, Load
    <2>3. \A u \in Tabs \ {t} : goal'[u] = goal[u]
        BY <2>1 DEF TypeOK
    <2>4. Heads(t)' /\ x.at \notin Away
        BY <1>0, <2>1, <2>2 DEF Heads, Away, TypeOK
    <2>. HIDE DEF x
    <2>. QED  BY <1>1, <1>3, <1>4, <2>1, <2>2, <2>3, <2>4, LeavesLogin
<1>7. CASE out = "crashed"
    <2>. USE DEF LoginInv, Away
    <2>1. /\ tab'[t].at = "broken" /\ tab'[t].login = tab[t].login /\ tab'[t].send = tab[t].send
          /\ \A u \in Tabs \ {t} : tab'[u] = tab[u]
          /\ UNCHANGED <<returnTo, loginCookie, disturbed, goal>>
        BY <1>0, <1>7 DEF Arrive, jar, Tab
    <2>2. \A d \in Calls : calls'[d].phase # "none" => calls'[d] = calls[d] /\ ~WaitsFor(t, d)
        BY <1>3 DEF Idle
    <2>3. Owns'
        BY <1>1, <2>1 DEF Owns
    <2>4. OnTheWay'
        BY <1>1, <2>1 DEF OnTheWay, Heads
    <2>5. Sends'
        BY <1>1, <2>1, <2>2 DEF Sends
    <2>6. Resent'
        BY <1>1, <2>1 DEF Resent
    <2>7. AllSound'
        BY <1>1, <2>1, <2>2 DEF AllSound, Sound, WaitsFor
    <2>8. Refusals'
        BY <1>1, <2>1, <2>2 DEF Refusals, WaitsFor
    <2>. QED  BY <2>3, <2>4, <2>5, <2>6, <2>7, <2>8
<1>. QED  BY <1>5, <1>6, <1>7 DEF Arrive

LEMMA PageInv ==
    ASSUME TypeOK, LoginInv, NEW t \in Tabs, Page(t)
    PROVE  LoginInv'
<1>0. tab[t] \in Tab /\ tab \in [Tabs -> Tab] /\ Heads(t)
    BY DEF TypeOK, LoginInv, OnTheWay
<1>. DEFINE Still == /\ \A u \in Tabs \ {t} : tab'[u] = tab[u]
                     /\ UNCHANGED <<goal, logins, returnTo, calls, loginCookie, disturbed, begun>>
            Here == {"loading", "app", "login", "asking"}
<1>1. CASE MeAnswered(t)
    <2>1. /\ Still /\ tab[t].at \in Here /\ tab'[t].at \in Here
          /\ tab'[t].login = tab[t].login /\ tab'[t].path = tab[t].path
        BY <1>0, <1>1 DEF MeAnswered, serverVars, jar, history, Tab
    <2>2. Heads(t)' /\ Here \cap Away = {}
        BY <1>0, <2>1 DEF Heads, Away
    <2>. QED  BY <2>1, <2>2, GoesOn
<1>2. CASE LoginEffect(t)
    <2>1. /\ Still /\ tab[t].at \in Here /\ tab'[t].at \in Here
          /\ tab'[t].login = tab[t].login /\ tab'[t].path.page = tab[t].path.page
        BY <1>0, <1>2 DEF LoginEffect, serverVars, jar, history, Tab, Inside, Path
    <2>2. Heads(t)' /\ Here \cap Away = {}
        BY <1>0, <2>1 DEF Heads, Away
    <2>. QED  BY <2>1, <2>2, GoesOn
<1>3. ASSUME Ask(t) \/ \E s \in Calls \cup {None} : Answered(t, s)
      PROVE  LoginInv'
    <2>1. /\ Still /\ tab'[t].at = tab[t].at /\ tab'[t].login = tab[t].login
          /\ tab'[t].send = tab[t].send /\ tab'[t].path = tab[t].path
        BY <1>0, <1>3 DEF Ask, Answered, serverVars, jar, history, Tab
    <2>2. Heads(t)'
        BY <1>0, <2>1 DEF Heads
    <2>. QED  BY <2>1, <2>2, GoesOn
<1>4. ASSUME NEW s \in Calls \cup {None}, Refused(t, s)
      PROVE  LoginInv'
    <2>1. /\ Still /\ tab[t].at \in Here /\ tab'[t].at \in Here
          /\ tab'[t].login = tab[t].login /\ tab'[t].path.page = tab[t].path.page
        BY <1>0, <1>4 DEF Refused, serverVars, jar, history, Tab, Under, Path
    <2>2. Heads(t)' /\ Here \cap Away = {}
        BY <1>0, <2>1 DEF Heads, Away
    <2>. QED  BY <2>1, <2>2, GoesOn
<1>5. CASE Login(t)
    BY <1>5, LoginKeeps
<1>6. CASE AtProvider(t)
    BY <1>6, AtProviderKeeps
<1>7. CASE Arrive(t)
    BY <1>7, ArriveKeeps
<1>8. CASE Logout(t)
    <2>1. /\ Still /\ tab[t].at = "leaving" /\ tab'[t].at = "left"
          /\ tab'[t].login = tab[t].login
        BY <1>0, <1>8 DEF Logout, jar, history, Tab
    <2>2. Heads(t)' /\ {"leaving", "left"} \cap Away = {}
        BY <2>1 DEF Heads, Away
    <2>. QED  BY <2>1, <2>2, GoesOn
<1>9. CASE Left(t)
    <2>1. /\ Still /\ tab[t].at = "left" /\ tab'[t].at = "landing" /\ tab'[t].login = None
        BY <1>0, <1>9 DEF Left, serverVars, history, AtHome, Load
    <2>2. Heads(t)' /\ {"landing", "left"} \cap Away = {}
        BY <2>1 DEF Heads, Away
    <2>. QED  BY <2>1, <2>2, GoesOn
<1>. QED  BY <1>1, <1>2, <1>3, <1>4, <1>5, <1>6, <1>7, <1>8, <1>9 DEF Page

\* The server's part, in which no tab moves: it says what becomes of callbacks that
\* tabs wait for, and the logins that go without a callback of theirs are disturbed.
LEMMA ServerKeeps ==
    ASSUME TypeOK, LoginInv, logins' \subseteq logins, disturbed \subseteq disturbed',
           \A l \in logins \ logins' :
               \/ l \in disturbed'
               \/ \E d \in Calls : d[1] = l /\ calls[d].phase # "none" /\ calls'[d].phase # "sent",
           \A d \in Calls : \/ calls'[d] = calls[d]
                            \/ /\ calls[d].phase # "none" /\ calls'[d].phase # "sent"
                               /\ calls'[d].phase = "refused" =>
                                      d[1] \in disturbed /\ \E t \in Tabs : WaitsFor(t, d),
           UNCHANGED <<tab, goal, returnTo, loginCookie, begun>>
    PROVE  LoginInv'
<1>. USE DEF LoginInv, Away
<1>1. Owns' /\ OnTheWay'
    BY DEF Owns, OnTheWay, Heads
<1>2. Sends'
    BY DEF Sends
<1>3. Resent'
    BY DEF Resent
<1>4. AllSound'
    <2>. SUFFICES ASSUME NEW t \in Tabs, tab[t].login \notin disturbed'
                  PROVE  Sound(t)'
        BY DEF AllSound, Sound
    <2>1. Sound(t) /\ tab[t].login \notin disturbed
        BY DEF AllSound
    <2>2. tab[t].at \in {"redirected", "idp"} => tab[t].login \in logins'
        BY <2>1 DEF Sound, Sends
    <2>3. ASSUME NEW c \in Calls, WaitsFor(t, c), calls'[c].phase = "sent"
          PROVE  c[1] \in logins' /\ calls'[c].bound
        <3>1. calls'[c] = calls[c] /\ c[1] \in logins /\ calls[c].bound
            BY <2>1, <2>3 DEF Sound
        <3>2. tab[t].send = 1 /\ c[2] = 1
            BY <2>1, <2>3 DEF Resent, WaitsFor, TypeOK, Tab
        <3>3. ASSUME NEW d \in Calls, d[1] = c[1], calls[d].phase # "none"
              PROVE  d = c
            BY <2>3, <3>2, <3>3 DEF Sends, WaitsFor, Calls
        <3>. QED  BY <2>1, <2>3, <3>1, <3>3 DEF WaitsFor
    <2>. QED  BY <2>1, <2>2, <2>3 DEF Sound, WaitsFor
<1>5. Refusals'
    BY DEF Refusals, WaitsFor
<1>. QED  BY <1>1, <1>2, <1>3, <1>4, <1>5

\* The server refuses no callback whose login nothing came between.
LEMMA HandleInv ==
    ASSUME TypeOK, LoginInv, NEW c \in Calls, Handle(c)
    PROVE  LoginInv'
<1>1. CASE Redeem(c)
    <2>1. /\ logins' = logins \ {c[1]} /\ calls[c].phase \in {"sent", "denied"}
          /\ UNCHANGED <<tab, goal, returnTo, loginCookie, disturbed, begun>>
        BY <1>1 DEF Redeem, ToAwait, jar, history
    <2>2. /\ \A d \in Calls \ {c} : calls'[d] = calls[d]
          /\ calls'[c] \in {Outcome(c, "failed"), Outcome(c, "refused"),
                            [phase |-> "exchanging", bound |-> FALSE]}
          /\ calls'[c] = Outcome(c, "refused") \/ calls'[c].phase # "refused"
          /\ calls[c].phase = "sent" /\ c[1] \in logins /\ calls[c].bound
                 => calls'[c].phase # "refused"
          /\ calls[c].phase = "denied" => calls'[c].phase # "refused"
        BY <1>1, OutcomeTyped DEF Redeem, ToAwait, TypeOK
    <2>3. calls'[c].phase \notin {"sent"}
        BY <2>2, OutcomeTyped
    <2>4. ASSUME calls'[c].phase = "refused"
          PROVE  c[1] \in disturbed /\ \E t \in Tabs : WaitsFor(t, c)
        <3>1. PICK t \in Tabs : WaitsFor(t, c)
            BY <2>2, <2>4, OutcomeAwaited DEF Idle
        <3>2. calls[c].phase = "sent" /\ ~(c[1] \in logins /\ calls[c].bound)
            BY <2>1, <2>2, <2>4
        <3>3. tab[t].login = c[1]
            BY <3>1 DEF WaitsFor
        <3>. QED  BY <3>1, <3>2, <3>3 DEF LoginInv, AllSound, Sound
    <2>. QED  BY <2>1, <2>2, <2>3, <2>4, ServerKeeps
<1>2. CASE Exchange(c)
    <2>1. /\ calls[c].phase = "exchanging"
          /\ UNCHANGED <<tab, goal, returnTo, loginCookie, disturbed, begun, logins>>
        BY <1>2 DEF Exchange, jar
    <2>2. /\ \A d \in Calls \ {c} : calls'[d] = calls[d]
          /\ calls'[c].phase \notin {"sent", "refused"}
        BY <1>2, OutcomeTyped DEF Exchange, TypeOK
    <2>. QED  BY <2>1, <2>2, ServerKeeps
<1>. QED  BY <1>1, <1>2 DEF Handle

LEMMA FaultInv ==
    ASSUME TypeOK, LoginInv, Fault
    PROVE  LoginInv'
<1>1. ASSUME NEW t \in Tabs, Unreachable(t)
      PROVE  LoginInv'
    <2>1. /\ tab[t].at = "asking" /\ tab'[t].at = "login" /\ tab'[t].login = None
          /\ goal'[t] = None
          /\ \A u \in Tabs \ {t} : tab'[u] = tab[u] /\ goal'[u] = goal[u]
          /\ UNCHANGED <<logins, returnTo, calls, loginCookie, disturbed, begun>>
        BY <1>1 DEF Unreachable, LoginFailed, Load, TypeOK, serverVars, jar, history
    <2>2. Heads(t)' /\ {"asking", "login"} \cap Away = {}
        BY <2>1 DEF Heads, Away
    <2>. QED  BY <2>1, <2>2, GoesOn
<1>2. ASSUME NEW s \in Calls, ExpireSession(s)
      PROVE  LoginInv'
    BY <1>2, ServerKeeps DEF ExpireSession, jar, history
<1>3. ASSUME NEW l \in Logins, ExpireLogin(l)
      PROVE  LoginInv'
    BY <1>3, ServerKeeps DEF ExpireLogin, jar
<1>4. CASE Restart
    <2>1. /\ logins' = {} /\ disturbed' = disturbed \cup logins
          /\ UNCHANGED <<tab, goal, returnTo, loginCookie, begun>>
        BY <1>4 DEF Restart, jar
    <2>2. \A d \in Calls : \/ calls'[d] = calls[d]
                           \/ /\ calls[d].phase # "none"
                              /\ calls'[d].phase \notin {"sent", "refused"}
        BY <1>4, OutcomeTyped DEF Restart
    <2>. QED  BY <2>1, <2>2, ServerKeeps
<1>. QED  BY <1>1, <1>2, <1>3, <1>4 DEF Fault

LEMMA LoginInvariance == Spec => []LoginInv
<1>1. Init => LoginInv
    <2>1. Init => /\ \A t \in Tabs : tab[t].at = "landing" /\ tab[t].login = None
                  /\ \A c \in Calls : calls[c].phase = "none"
        BY DEF Init, AtHome, Load, Idle
    <2>2. None \notin Logins
        BY WebSessionAssumption DEF Logins
    <2>. QED
        BY <2>1, <2>2 DEF LoginInv, Owns, OnTheWay, Heads, Sends, Resent, AllSound, Sound,
                          WaitsFor, Refusals, Away
<1>2. TypeOK /\ LoginInv /\ [Next]_vars => LoginInv'
    <2>. SUFFICES ASSUME TypeOK, LoginInv, [Next]_vars
                  PROVE  LoginInv'
        OBVIOUS
    <2>1. CASE Next
        BY <2>1, UserInv, PageInv, HandleInv, FaultInv DEF Next
    <2>2. CASE UNCHANGED vars
        BY <2>2, ServerKeeps DEF vars, serverVars, jar, history
    <2>. QED  BY <2>1, <2>2
<1>. QED  BY <1>1, <1>2, Typing, PTL DEF Spec

\* A tab that shows the console shows what its user asked for last, through any
\* number of 401s, other tabs, restarts and callbacks in any order (login.tsx,
\* main.tsx and the return_to of oidc.mjs).
THEOREM Homecoming == Spec => []ComesBack
<1>1. LoginInv => ComesBack
    BY DEF LoginInv, OnTheWay, Heads, ComesBack
<1>. QED  BY <1>1, LoginInvariance, PTL

\* callback (oidc.mjs) refuses no login that nothing came between.
THEOREM Undisturbed == Spec => []UndisturbedLoginsWork
<1>1. LoginInv => UndisturbedLoginsWork
    BY DEF LoginInv, Refusals, UndisturbedLoginsWork
<1>. QED  BY <1>1, LoginInvariance, PTL
===============================================================================
