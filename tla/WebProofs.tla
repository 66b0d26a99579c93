------------------------------ MODULE WebProofs ----------------------------
(***************************************************************************)
(* What the web application guarantees: the session, for any number of     *)
(* accounts, organisations and forms in flight; and the API keys page, for *)
(* any number of keys and of handlers in flight.  The two specifications   *)
(* share no variable.                                                      *)
(***************************************************************************)
EXTENDS WebSession, ApiKeysPage, TLAPS

(* ------------------------------ the session ---------------------------- *)

\* The page whose form a handler belongs to.
FormOf(kind) ==
    CASE kind = "login"  -> "/login"
      [] kind = "signup" -> "/signup"
      [] OTHER           -> "/onboarding"

\* The items of a session are stored and removed together.
Whole(st) ==
    /\ st \in [token : Account \cup {None}, user : Account \cup {None},
               org : WithOrg \cup {None, "null"}, onboarded : BOOLEAN]
    /\ st.user = st.token
    /\ st.org = IF st.token = None THEN None ELSE OrgOf(st.token)

\* A handler whose page is shown is that page's, ...
AtHome(hs) == \A h \in Handler : hs[h].mounted => route = FormOf(hs[h].kind)

\* ... and one that has sent the second request has had the first one answered.
Registered(hs) == \A h \in Handler : hs[h].kind = "complete" => hs[h].account \in monitors

SessionInv ==
    /\ TypeOK
    /\ Whole(storage) /\ AtHome(handlers) /\ Registered(handlers)
    /\ OneOrgOnScreen /\ OnboardedHasMonitor

HandlerType == [Handler -> [kind : {"none", "login", "signup", "register", "complete"},
                            account : Account \cup {None}, mounted : BOOLEAN]]
ShellType == [org : WithOrg \cup {None, "null"}, user : Account \cup {None},
              open : SUBSET {"org", "avatar", "sidebar"}]
ViewType == [busy : BOOLEAN, error : BOOLEAN, loading : BOOLEAN,
             asked : Account \cup {None}, shown : WithOrg \cup {None}]

USE WebAssumption
USE DEF Route, Form, Dashboard, ByOrg, ByToken, HandlerType, ShellType, ViewType

(* A mounted page asks for what the session stored names, and shows nothing. *)
LEMMA MountedAsks ==
  ASSUME NEW st, Whole(st), NEW r \in Route
  PROVE  /\ Mounted(r, st) \in ViewType
         /\ Mounted(r, st).shown = None
         /\ Mounted(r, st).asked \in {None, st.token}
  BY DEF Whole, Mounted, loadStatus, loadByToken, Blank, OrgOf

(* A shell just mounted shows the session stored.                           *)
LEMMA ShellShowsSession ==
  ASSUME NEW st, Whole(st), NEW r \in Route
  PROVE  /\ NewShell(r, st) \in ShellType
         /\ r \in Dashboard => NewShell(r, st).user = st.user /\ NewShell(r, st).org = st.org
  BY DEF Whole, NewShell, NoShell

(* A handler whose page is left keeps its kind and its account.             *)
LEMMA Unmounted ==
  ASSUME NEW K, NEW A, NEW x \in [kind : K, account : A, mounted : BOOLEAN]
  PROVE  /\ [x EXCEPT !.mounted = FALSE] \in [kind : K, account : A, mounted : BOOLEAN]
         /\ [x EXCEPT !.mounted = FALSE].kind = x.kind
         /\ [x EXCEPT !.mounted = FALSE].account = x.account
         /\ ~[x EXCEPT !.mounted = FALSE].mounted
  OBVIOUS

(* Going to a page keeps one account on the screen, if the session it is    *)
(* given is whole and is not a change behind the back of a mounted shell.   *)
LEMMA VisitKeeps ==
  ASSUME SessionInv, NEW r \in Route, NEW st, Whole(st), storage' = st,
         NEW bar \in ShellType, bar.user = shell.user, bar.org = shell.org,
         NEW hs \in HandlerType, AtHome(hs),
         NEW change \in BOOLEAN,
         ~change /\ route \in Dashboard /\ r \in Dashboard => st.token = storage.token,
         Visit(r, st, bar, hs, change),
         \A g \in Handler : hs[g] \in {Idle, handlers[g]},
         users' \in SUBSET Account, monitors' = monitors,
         profiles' \in SUBSET Account, profiles' \subseteq monitors
  PROVE  SessionInv'
  <1> DEFINE to   == loadSession(r, st)
             stay == to \in Dashboard /\ route \in Dashboard
  <1>1. to \in Route /\ (r = route => to = r) /\ (to = r \/ to = "/login")
    BY DEF loadSession
  <1>2. route' = to BY DEF Visit
  <1>3. behind' = (stay /\ (behind \/ change)) BY DEF Visit
  <1>4. behind' \in BOOLEAN BY <1>3 DEF SessionInv, TypeOK
  <1>5. Whole(storage)' /\ OnboardedHasMonitor' BY DEF Whole, OnboardedHasMonitor
  <1>6. Idle.kind = "none" BY DEF Idle
  <1>7. CASE r = route
    <2>1. /\ view' = view /\ handlers' = hs /\ shell' = bar /\ route' = route
      BY <1>1, <1>2, <1>7 DEF Visit
    <2>2. OneOrgOnScreen'
      BY <1>1, <1>2, <1>3, <1>7, <2>1 DEF SessionInv, OneOrgOnScreen, TypeOK
    <2>3. TypeOK' BY <1>4, <2>1 DEF SessionInv, TypeOK, Whole
    <2>4. AtHome(handlers)' BY <2>1 DEF AtHome
    <2>5. Registered(handlers)' BY <2>1, <1>6 DEF SessionInv, Registered
    <2> QED BY <1>5, <2>2, <2>3, <2>4, <2>5 DEF SessionInv
  <1>8. CASE r # route
    <2>1. view' = Mounted(to, st) BY <1>8 DEF Visit
    <2>2. handlers' = [h \in Handler |-> [hs[h] EXCEPT !.mounted = FALSE]]
      BY <1>8 DEF Visit
    <2>3. shell' = IF stay THEN [bar EXCEPT !.open = @ \ {"sidebar"}] ELSE NewShell(to, st)
      BY <1>8 DEF Visit
    <2>4. view' \in ViewType /\ view'.shown = None /\ view'.asked \in {None, st.token}
      BY <1>1, <2>1, MountedAsks
    <2>5. shell' \in ShellType
      BY <1>1, <2>3, ShellShowsSession
    <2>6. /\ handlers' \in HandlerType /\ AtHome(handlers)'
          /\ \A h \in Handler : /\ handlers'[h].kind = hs[h].kind
                                /\ handlers'[h].account = hs[h].account
      <3>1. /\ \A h \in Handler : handlers'[h] = [hs[h] EXCEPT !.mounted = FALSE]
            /\ handlers' = [h \in Handler |-> handlers'[h]]
        BY <2>2
      <3>2. ASSUME NEW h \in Handler
            PROVE  /\ handlers'[h] \in [kind : {"none", "login", "signup", "register", "complete"},
                                       account : Account \cup {None}, mounted : BOOLEAN]
                   /\ handlers'[h].kind = hs[h].kind /\ handlers'[h].account = hs[h].account
                   /\ ~handlers'[h].mounted
        <4>1. hs[h] \in [kind : {"none", "login", "signup", "register", "complete"},
                         account : Account \cup {None}, mounted : BOOLEAN]
          OBVIOUS
        <4>2. handlers'[h] = [hs[h] EXCEPT !.mounted = FALSE] BY <3>1
        <4> QED BY <4>1, <4>2, Unmounted
      <3> QED BY <3>1, <3>2 DEF AtHome
    <2>7. ASSUME route' \in Dashboard, ~behind'
          PROVE  /\ st.token # None
                 /\ shell'.user = st.token /\ shell'.org = OrgOf(st.token)
      <3>1. to = r /\ r \in Dashboard BY <1>1, <1>2, <2>7
      <3>2. CASE route \in Dashboard
        <4>1. ~behind /\ ~change /\ stay BY <1>2, <1>3, <2>7, <3>2 DEF SessionInv, TypeOK
        <4>2. st.token = storage.token BY <3>1, <3>2, <4>1
        <4>3. shell'.user = shell.user /\ shell'.org = shell.org
          BY <2>3, <4>1
        <4> QED BY <3>2, <4>1, <4>2, <4>3 DEF SessionInv, OneOrgOnScreen
      <3>3. CASE route \notin Dashboard
        <4>1. st.token # None BY <3>1, <3>3, <1>8 DEF loadSession
        <4>2. shell' = NewShell(to, st) BY <2>3, <3>3
        <4> QED BY <3>1, <4>1, <4>2, ShellShowsSession DEF Whole
      <3> QED BY <3>2, <3>3
    <2>8. OneOrgOnScreen' BY <2>4, <2>7 DEF OneOrgOnScreen
    <2>9. TypeOK' BY <1>1, <1>2, <1>4, <2>4, <2>5, <2>6 DEF SessionInv, TypeOK, Whole
    <2>10. Registered(handlers)' BY <2>6, <1>6 DEF SessionInv, Registered
    <2> QED BY <1>5, <2>6, <2>8, <2>9, <2>10 DEF SessionInv
  <1> QED BY <1>7, <1>8

(* At the start nobody is signed in and the landing page is shown.          *)
LEMMA InitSession == Init => SessionInv
  <1> SUFFICES ASSUME Init PROVE SessionInv OBVIOUS
  <1> USE DEF Init, SignedOut, Blank, NoShell, Idle
  <1>1. TypeOK BY DEF TypeOK
  <1>2. Whole(storage) BY DEF Whole
  <1>3. AtHome(handlers) /\ Registered(handlers) BY DEF AtHome, Registered
  <1>4. OneOrgOnScreen /\ OnboardedHasMonitor BY DEF OneOrgOnScreen, OnboardedHasMonitor
  <1> QED BY <1>1, <1>2, <1>3, <1>4 DEF SessionInv

(* The items a login or a signup stores belong together.                    *)
LEMMA SignedInWhole ==
  ASSUME Whole(storage), NEW a \in Account
  PROVE  Whole(SignedIn(a)) /\ SignedIn(a).token = a
  BY DEF Whole, SignedIn, OrgOf

(* Ending a handler leaves the others as they are.                          *)
LEMMA DoneKeeps ==
  ASSUME SessionInv, NEW h \in Handler
  PROVE  /\ Done(h) \in HandlerType /\ AtHome(Done(h))
         /\ \A g \in Handler : Done(h)[g] = IF g = h THEN Idle ELSE handlers[g]
         /\ ~Idle.mounted /\ Idle.kind = "none"
  <1>1. Done(h) \in HandlerType BY DEF SessionInv, TypeOK, Done, Idle
  <1>2. \A g \in Handler : Done(h)[g] = IF g = h THEN Idle ELSE handlers[g]
    BY DEF SessionInv, TypeOK, Done
  <1>3. ~Idle.mounted /\ Idle.kind = "none" BY DEF Idle
  <1>4. AtHome(Done(h)) BY <1>2, <1>3 DEF SessionInv, AtHome
  <1> QED BY <1>1, <1>2, <1>3, <1>4

(* A failed request changes nothing but the form it came from.              *)
LEMMA FailedKeeps ==
  ASSUME SessionInv, NEW h \in Handler, Failed(h),
         users' \in SUBSET Account, monitors' \in SUBSET WithOrg,
         profiles' \in SUBSET Account,
         monitors \subseteq monitors', profiles' \subseteq monitors'
  PROVE  SessionInv'
  <1>1. /\ handlers' = Done(h) /\ UNCHANGED <<storage, route, shell, behind>>
        /\ view' \in ViewType /\ view'.asked = view.asked /\ view'.shown = view.shown
    BY DEF Failed, SessionInv, TypeOK
  <1>2. TypeOK' /\ OneOrgOnScreen' /\ Whole(storage)' /\ OnboardedHasMonitor'
    BY <1>1, DoneKeeps DEF SessionInv, TypeOK, OneOrgOnScreen, OnboardedHasMonitor, Whole, OrgOf
  <1>3. AtHome(handlers)' BY <1>1, DoneKeeps DEF AtHome
  <1>4. Registered(handlers)' BY <1>1, DoneKeeps DEF SessionInv, Registered
  <1> QED BY <1>2, <1>3, <1>4 DEF SessionInv

(* Closing the menus changes neither the organisation nor the user shown.   *)
LEMMA MenusClosed ==
  ASSUME SessionInv
  PROVE  LET bar == [shell EXCEPT !.open = @ \ {"org", "avatar"}]
         IN  bar \in ShellType /\ bar.user = shell.user /\ bar.org = shell.org
  BY DEF SessionInv, TypeOK

LEMMA FollowKeeps == ASSUME SessionInv, Follow PROVE SessionInv'
  <1> DEFINE bar == [shell EXCEPT !.open = @ \ {"org", "avatar"}]
  <1>1. PICK r \in Links(route) : Visit(r, storage, bar, handlers, FALSE)
    BY DEF Follow
  <1>2. r \in Route BY DEF Links, SessionInv, TypeOK
  <1>3. bar \in ShellType /\ bar.user = shell.user /\ bar.org = shell.org BY MenusClosed
  <1>4. storage' = storage /\ UNCHANGED <<users, monitors, profiles>> BY DEF Follow, backend
  <1>5. /\ users' \in SUBSET Account /\ profiles' \in SUBSET Account /\ profiles' \subseteq monitors
        /\ handlers \in HandlerType /\ AtHome(handlers) /\ Whole(storage)
    BY <1>4 DEF SessionInv, TypeOK, OnboardedHasMonitor
  <1> HIDE DEF bar, HandlerType, ShellType, Route, Dashboard
  <1> QED BY <1>1, <1>2, <1>3, <1>4, <1>5, VisitKeeps

LEMMA LogoutKeeps == ASSUME SessionInv, handleLogout PROVE SessionInv'
  <1> DEFINE st == [SignedOut EXCEPT !.onboarded = storage.onboarded]
  <1>1. storage' = st /\ Visit("/login", st, shell, handlers, FALSE)
    BY DEF handleLogout
  <1>2. Whole(st) BY DEF SignedOut, Whole, SessionInv
  <1>3. UNCHANGED <<users, monitors, profiles>> BY DEF handleLogout, backend
  <1>4. /\ users' \in SUBSET Account /\ profiles' \in SUBSET Account /\ profiles' \subseteq monitors
        /\ handlers \in HandlerType /\ AtHome(handlers) /\ shell \in ShellType
    BY <1>3 DEF SessionInv, TypeOK, OnboardedHasMonitor
  <1>5. "/login" \in Route /\ "/login" \notin Dashboard OBVIOUS
  <1> HIDE DEF st, HandlerType, ShellType, Route, Dashboard
  <1> QED BY <1>1, <1>2, <1>3, <1>4, <1>5, VisitKeeps

(* The answer to a login or a signup form, with the account it signs in: a  *)
(* handler whose form is still shown is not on a page of the dashboard.     *)
LEMMA SignInKeeps ==
  ASSUME SessionInv, NEW h \in Handler, handlers[h].kind \in {"login", "signup"},
         NEW a \in Account, NEW r \in Route, storage' = SignedIn(a),
         Visit(r, SignedIn(a), shell, Done(h), ~handlers[h].mounted),
         users' \in SUBSET Account, UNCHANGED <<monitors, profiles>>
  PROVE  SessionInv'
  <1>1. Whole(SignedIn(a)) /\ SignedIn(a).token = a BY SignedInWhole DEF SessionInv
  <1>2. handlers[h].mounted => route \notin Dashboard BY DEF SessionInv, AtHome, FormOf
  <1>3. /\ profiles' \in SUBSET Account /\ profiles' \subseteq monitors /\ monitors' = monitors
        /\ shell \in ShellType /\ handlers[h].mounted \in BOOLEAN
    BY DEF SessionInv, TypeOK, OnboardedHasMonitor
  <1>4. /\ Done(h) \in HandlerType /\ AtHome(Done(h))
        /\ \A g \in Handler : Done(h)[g] \in {Idle, handlers[g]}
    BY DoneKeeps
  <1>5. (~handlers[h].mounted) \in BOOLEAN OBVIOUS
  <1> HIDE DEF HandlerType, ShellType, Route, Dashboard
  <1> QED BY <1>1, <1>2, <1>3, <1>4, <1>5, VisitKeeps

LEMMA LoginKeeps == ASSUME SessionInv, NEW h \in Handler, LoginSettles(h) PROVE SessionInv'
  <1>1. /\ handlers[h].kind = "login" /\ UNCHANGED <<users, monitors, profiles>>
        /\ users \in SUBSET Account /\ monitors \in SUBSET WithOrg
        /\ profiles \in SUBSET Account /\ profiles \subseteq monitors
    BY DEF LoginSettles, backend, SessionInv, TypeOK, OnboardedHasMonitor
  <1>2. CASE Failed(h) BY <1>1, <1>2, FailedKeeps
  <1>3. ASSUME NEW a \in users, storage' = SignedIn(a),
               Visit("/dashboard", SignedIn(a), shell, Done(h), ~handlers[h].mounted)
        PROVE  SessionInv'
    <2>1. a \in Account /\ "/dashboard" \in Route BY <1>1
    <2> HIDE DEF HandlerType, ShellType, Route, Dashboard
    <2> QED BY <1>1, <1>3, <2>1, SignInKeeps
  <1> QED BY <1>2, <1>3 DEF LoginSettles

LEMMA SignupKeeps == ASSUME SessionInv, NEW h \in Handler, SignupSettles(h) PROVE SessionInv'
  <1>1. /\ handlers[h].kind = "signup" /\ UNCHANGED <<monitors, profiles>>
        /\ users' \in SUBSET Account /\ monitors \in SUBSET WithOrg
        /\ profiles \in SUBSET Account /\ profiles \subseteq monitors
    BY DEF SignupSettles, SessionInv, TypeOK, OnboardedHasMonitor
  <1>2. CASE Failed(h) BY <1>1, <1>2, FailedKeeps
  <1>3. ASSUME NEW a \in WithOrg \ users, storage' = SignedIn(a),
               Visit("/onboarding", SignedIn(a), shell, Done(h), ~handlers[h].mounted)
        PROVE  SessionInv'
    <2>1. a \in Account /\ "/onboarding" \in Route OBVIOUS
    <2> HIDE DEF HandlerType, ShellType, Route, Dashboard
    <2> QED BY <1>1, <1>3, <2>1, SignInKeeps
  <1> QED BY <1>2, <1>3 DEF SignupSettles

(* The first request of the onboarding: the account of the handler that goes*)
(* on has a service.                                                        *)
LEMMA RegisterKeeps == ASSUME SessionInv, NEW h \in Handler, RegisterSettles(h) PROVE SessionInv'
  <1> DEFINE mine == {handlers[h].account} \cap WithOrg
  <1>1. /\ handlers[h].kind = "register" /\ UNCHANGED <<users, profiles>>
        /\ users \in SUBSET Account /\ monitors \in SUBSET WithOrg
        /\ profiles \in SUBSET Account /\ profiles \subseteq monitors
        /\ mine \subseteq WithOrg
    BY DEF RegisterSettles, SessionInv, TypeOK, OnboardedHasMonitor
  <1>2. CASE monitors' \in {monitors, monitors \cup mine} /\ Failed(h)
    <2>1. monitors' \in SUBSET WithOrg /\ monitors \subseteq monitors' /\ profiles' \subseteq monitors'
      BY <1>1, <1>2
    <2> QED BY <1>1, <1>2, <2>1, FailedKeeps
  <1>3. CASE /\ mine # {} /\ monitors' = monitors \cup mine
             /\ handlers' = [handlers EXCEPT ![h].kind = "complete"]
             /\ UNCHANGED <<storage, route, view, shell, behind>>
    <2>1. handlers[h].account \in monitors' BY <1>3
    <2>2. ASSUME NEW g \in Handler
          PROVE  /\ handlers'[g].account = handlers[g].account
                 /\ handlers'[g].mounted = handlers[g].mounted
                 /\ handlers'[g].kind = IF g = h THEN "complete" ELSE handlers[g].kind
      BY <1>3 DEF SessionInv, TypeOK
    <2>3. handlers' \in HandlerType BY <1>3 DEF SessionInv, TypeOK
    <2>4. AtHome(handlers)'
      BY <1>1, <1>3, <2>2 DEF SessionInv, AtHome, FormOf
    <2>5. Registered(handlers)' BY <1>3, <2>1, <2>2 DEF SessionInv, Registered
    <2>6. TypeOK' BY <1>1, <1>3, <2>3 DEF SessionInv, TypeOK
    <2>7. OneOrgOnScreen' BY <1>3 DEF SessionInv, OneOrgOnScreen, OrgOf
    <2>8. Whole(storage)' BY <1>3 DEF SessionInv, Whole, OrgOf
    <2>9. OnboardedHasMonitor' BY <1>1, <1>3 DEF OnboardedHasMonitor
    <2> QED BY <2>4, <2>5, <2>6, <2>7, <2>8, <2>9 DEF SessionInv
  <1> QED BY <1>2, <1>3 DEF RegisterSettles

(* The second request names the account of the first one, whoever is signed *)
(* in by now.                                                               *)
LEMMA CompleteKeeps == ASSUME SessionInv, NEW h \in Handler, CompleteSettles(h) PROVE SessionInv'
  <1> DEFINE st == [storage EXCEPT !.onboarded = TRUE]
  <1>1. /\ handlers[h].kind = "complete" /\ UNCHANGED <<users, monitors>>
        /\ users \in SUBSET Account /\ monitors \in SUBSET WithOrg
        /\ profiles \in SUBSET Account /\ profiles \subseteq monitors
        /\ shell \in ShellType
    BY DEF CompleteSettles, SessionInv, TypeOK, OnboardedHasMonitor
  <1>2. completeOnboarding(h) \subseteq monitors
    BY <1>1 DEF completeOnboarding, SessionInv, Registered
  <1>3. CASE profiles' \in {profiles, profiles \cup completeOnboarding(h)} /\ Failed(h)
    <2>1. profiles' \in SUBSET Account /\ profiles' \subseteq monitors'
      BY <1>1, <1>2, <1>3
    <2> QED BY <1>1, <1>3, <2>1, FailedKeeps
  <1>4. CASE /\ profiles' = profiles \cup completeOnboarding(h)
             /\ storage' = st
             /\ Visit("/dashboard", storage', shell, Done(h), FALSE)
    <2>1. Whole(st) /\ st.token = storage.token
      <3>1. /\ st \in [token : Account \cup {None}, user : Account \cup {None},
                        org : WithOrg \cup {None, "null"}, onboarded : BOOLEAN]
            /\ st.token = storage.token /\ st.user = storage.user /\ st.org = storage.org
        BY DEF SessionInv, Whole
      <3> QED BY <3>1 DEF SessionInv, Whole
    <2>2. profiles' \in SUBSET Account /\ profiles' \subseteq monitors
      BY <1>1, <1>2, <1>4
    <2>3. /\ Done(h) \in HandlerType /\ AtHome(Done(h))
          /\ \A g \in Handler : Done(h)[g] \in {Idle, handlers[g]}
      BY DoneKeeps
    <2>4. "/dashboard" \in Route OBVIOUS
    <2>5. Visit("/dashboard", st, shell, Done(h), FALSE) BY <1>4
    <2> HIDE DEF st, HandlerType, ShellType, Route, Dashboard
    <2> QED BY <1>1, <1>4, <2>1, <2>2, <2>3, <2>4, <2>5, VisitKeeps
  <1> QED BY <1>3, <1>4 DEF CompleteSettles

(* A form that is submitted is the one shown.                               *)
LEMMA StartKeeps ==
  ASSUME SessionInv, NEW h \in Handler, NEW kind \in {"login", "signup", "register"},
         NEW account \in Account \cup {None}, route = FormOf(kind), Start(h, kind, account)
  PROVE  SessionInv'
  <1>1. UNCHANGED <<storage, route, shell, users, monitors, profiles, behind>>
    BY DEF Start, backend
  <1>2. handlers' = [handlers EXCEPT ![h] = [kind |-> kind, account |-> account, mounted |-> TRUE]]
    BY DEF Start
  <1>3. view' \in ViewType /\ view'.asked = view.asked /\ view'.shown = view.shown
    BY DEF Start, SessionInv, TypeOK
  <1>4. handlers' \in HandlerType BY <1>2 DEF SessionInv, TypeOK
  <1>5. TypeOK' BY <1>1, <1>3, <1>4 DEF SessionInv, TypeOK
  <1>6. OneOrgOnScreen' /\ Whole(storage)' /\ OnboardedHasMonitor'
    BY <1>1, <1>3 DEF SessionInv, OneOrgOnScreen, Whole, OnboardedHasMonitor, OrgOf
  <1>7. ASSUME NEW g \in Handler
        PROVE  handlers'[g] = IF g = h THEN [kind |-> kind, account |-> account, mounted |-> TRUE]
                              ELSE handlers[g]
    BY <1>2 DEF SessionInv, TypeOK
  <1>8. AtHome(handlers)'
    <2> SUFFICES ASSUME NEW g \in Handler, handlers'[g].mounted
                 PROVE  route' = FormOf(handlers'[g].kind)
      BY DEF AtHome
    <2> HIDE DEF FormOf
    <2>1. CASE g = h BY <1>1, <1>7, <2>1
    <2>2. CASE g # h BY <1>1, <1>7, <2>2 DEF SessionInv, AtHome
    <2> QED BY <2>1, <2>2
  <1>9. Registered(handlers)' BY <1>1, <1>7 DEF SessionInv, Registered
  <1> QED BY <1>5, <1>6, <1>8, <1>9 DEF SessionInv

(* The page shows what it asked for, or nothing.                            *)
LEMMA LoadKeeps == ASSUME SessionInv, LoadSettles PROVE SessionInv'
  <1>1. UNCHANGED <<storage, route, shell, handlers, users, monitors, profiles, behind>>
    BY DEF LoadSettles, backend
  <1>2. /\ view' \in ViewType
        /\ {view'.asked, view'.shown} \subseteq {None, view.asked, view.shown}
    BY DEF LoadSettles, SessionInv, TypeOK
  <1>3. TypeOK' BY <1>1, <1>2 DEF SessionInv, TypeOK
  <1>4. OneOrgOnScreen' /\ Whole(storage)' /\ OnboardedHasMonitor'
    BY <1>1, <1>2 DEF SessionInv, OneOrgOnScreen, Whole, OnboardedHasMonitor, OrgOf
  <1>5. AtHome(handlers)' /\ Registered(handlers)'
    BY <1>1 DEF SessionInv, AtHome, Registered, FormOf
  <1> QED BY <1>3, <1>4, <1>5 DEF SessionInv

LEMMA ToggleKeeps ==
  ASSUME SessionInv, NEW m \in {"org", "avatar", "sidebar"}, Toggle(m) PROVE SessionInv'
  <1>1. UNCHANGED <<storage, route, view, handlers, users, monitors, profiles, behind>>
    BY DEF Toggle, backend
  <1>2. shell' \in ShellType /\ shell'.org = shell.org /\ shell'.user = shell.user
    BY DEF Toggle, SessionInv, TypeOK
  <1>3. TypeOK' BY <1>1, <1>2 DEF SessionInv, TypeOK
  <1>4. OneOrgOnScreen' /\ Whole(storage)' /\ OnboardedHasMonitor'
    BY <1>1, <1>2 DEF SessionInv, OneOrgOnScreen, Whole, OnboardedHasMonitor, OrgOf
  <1>5. AtHome(handlers)' /\ Registered(handlers)'
    BY <1>1 DEF SessionInv, AtHome, Registered, FormOf
  <1> QED BY <1>3, <1>4, <1>5 DEF SessionInv

(* Another tab's session is whole too, and the history notes the change.    *)
LEMMA OtherTabKeeps == ASSUME SessionInv, OtherTab PROVE SessionInv'
  <1>1. UNCHANGED <<route, view, shell, handlers, users, monitors, profiles>>
    BY DEF OtherTab, backend
  <1>2. Whole(storage') /\ Whole(storage)'
    <2>1. CASE storage' \in {SignedIn(a) : a \in users}
      BY <2>1, SignedInWhole DEF SessionInv, TypeOK, Whole, OrgOf
    <2>2. CASE storage' = [SignedOut EXCEPT !.onboarded = storage.onboarded]
      BY <2>2 DEF SessionInv, SignedOut, Whole, OrgOf
    <2>3. CASE storage' = [storage EXCEPT !.onboarded = TRUE]
      BY <2>3 DEF SessionInv, Whole, OrgOf
    <2> QED BY <2>1, <2>2, <2>3 DEF OtherTab
  <1>3. behind' = (behind \/ (route \in Dashboard /\ storage'.token # storage.token))
    BY DEF OtherTab
  <1>4. TypeOK' BY <1>1, <1>2, <1>3 DEF SessionInv, TypeOK, Whole
  <1>5. OneOrgOnScreen' BY <1>1, <1>3 DEF SessionInv, OneOrgOnScreen, OrgOf, TypeOK
  <1>6. AtHome(handlers)' /\ Registered(handlers)' /\ OnboardedHasMonitor'
    BY <1>1 DEF SessionInv, AtHome, Registered, FormOf, OnboardedHasMonitor
  <1> QED BY <1>2, <1>4, <1>5, <1>6 DEF SessionInv

(* A page opened by its address starts from the session stored.             *)
LEMMA OpenKeeps == ASSUME SessionInv, Open PROVE SessionInv'
  <1>1. PICK r \in Route :
            LET to == IF storage.token = None /\ r \in Dashboard \cup {"/onboarding"}
                      THEN "/login" ELSE r
            IN  /\ route' = to
                /\ view' = Mounted(to, storage)
                /\ shell' = NewShell(to, storage)
    BY DEF Open
  <1>2. /\ route' \in Route /\ view' = Mounted(route', storage)
        /\ shell' = NewShell(route', storage)
        /\ route' \in Dashboard => storage.token # None
    BY <1>1
  <1>3. UNCHANGED <<storage, users, monitors, profiles>> /\ behind' = FALSE
    BY DEF Open, backend
  <1>4. handlers' = [h \in Handler |-> Idle] BY DEF Open
  <1>5. Whole(storage) BY DEF SessionInv
  <1>6. /\ view' \in ViewType /\ view'.shown = None /\ view'.asked \in {None, storage.token}
    BY <1>2, <1>5, MountedAsks
  <1>7. /\ shell' \in ShellType
        /\ route' \in Dashboard => shell'.user = storage.user /\ shell'.org = storage.org
    BY <1>2, <1>5, ShellShowsSession
  <1>8. handlers' \in HandlerType /\ AtHome(handlers)' /\ Registered(handlers)'
    BY <1>4 DEF Idle, AtHome, Registered
  <1>9. TypeOK' BY <1>2, <1>3, <1>6, <1>7, <1>8 DEF SessionInv, TypeOK
  <1>10. OneOrgOnScreen'
    BY <1>2, <1>3, <1>5, <1>6, <1>7 DEF OneOrgOnScreen, Whole, OrgOf
  <1>11. Whole(storage)' /\ OnboardedHasMonitor'
    BY <1>3 DEF SessionInv, Whole, OrgOf, OnboardedHasMonitor
  <1> QED BY <1>8, <1>9, <1>10, <1>11 DEF SessionInv

(* Every step keeps the invariant.                                          *)
LEMMA NextKeepsSession == SessionInv /\ [Next]_vars => SessionInv'
  <1> SUFFICES ASSUME SessionInv, [Next]_vars PROVE SessionInv' OBVIOUS
  <1>1. ASSUME NEW h \in Handler, SubmitLogin(h) PROVE SessionInv'
    BY <1>1, StartKeeps DEF SubmitLogin, FormOf
  <1>2. ASSUME NEW h \in Handler, SubmitSignup(h) PROVE SessionInv'
    BY <1>2, StartKeeps DEF SubmitSignup, FormOf
  <1>3. ASSUME NEW h \in Handler, handleStartMonitoring(h) PROVE SessionInv'
    <2>1. storage.token \in Account \cup {None} BY DEF SessionInv, TypeOK
    <2> QED BY <1>3, <2>1, StartKeeps DEF handleStartMonitoring, FormOf
  <1>4. CASE UNCHANGED vars
    BY <1>4 DEF vars, backend, SessionInv, TypeOK, Whole, OrgOf, AtHome, FormOf, Registered,
                OneOrgOnScreen, OnboardedHasMonitor
  <1> QED
    BY <1>1, <1>2, <1>3, <1>4, FollowKeeps, OpenKeeps, LoadKeeps, LogoutKeeps, OtherTabKeeps,
       ToggleKeeps, LoginKeeps, SignupKeeps, RegisterKeeps, CompleteKeeps
       DEF Next, Settles

(* The session's invariant, and with it the type of every variable; one     *)
(* account on the screen of the dashboard: header, menus, data and token    *)
(* agree unless the session was changed behind the page's back; and an      *)
(* account recorded as onboarded has a service, for any number of accounts, *)
(* forms in flight and tabs.                                                *)
THEOREM SessionIsSound == Spec => [](TypeOK /\ OneOrgOnScreen /\ OnboardedHasMonitor)
  <1>1. SessionInv => TypeOK /\ OneOrgOnScreen /\ OnboardedHasMonitor BY DEF SessionInv
  <1> QED BY InitSession, NextKeepsSession, <1>1, PTL DEF Spec

(* Type correctness: in particular no page asks for the data of the          *)
(* organisation "null", which the login of a user without one stores.       *)
THEOREM SessionTypeCorrect == Spec => []TypeOK
  BY SessionIsSound, PTL

(* The two requests of the onboarding form, sent one after the other, never *)
(* record an account as onboarded that has no service, whoever is signed in *)
(* when they are answered.                                                   *)
THEOREM OnboardingLeavesMonitor == Spec => []OnboardedHasMonitor
  BY SessionIsSound, PTL

(* --------------------------- the API keys page ------------------------- *)

KeyState == {"none", "active", "revoked"}

PageType ==
    [loading : BOOLEAN, keys : [Key -> KeyState], showCreate : BOOLEAN, named : BOOLEAN,
     creating : BOOLEAN, newKey : Key \cup {NoKey}, revoking : Key \cup {NoKey}]

CallType ==
    [kind : {"none", "load", "create", "revoke"}, key : Key \cup {NoKey}, listing : BOOLEAN,
     served : BOOLEAN, result : {"ok", "refused", "failed"}, rows : [Key -> KeyState],
     mounted : BOOLEAN]

KeysShape ==
    /\ table \in [Key -> KeyState] /\ page \in PageType /\ calls \in [Call -> CallType]
    /\ disturbed \in BOOLEAN

\* The handler that runs alone and is answered, and what it will show.
Alone ==
    ~disturbed =>
        /\ \A c, d \in InFlight : c = d
        /\ \A c \in InFlight :
            /\ calls[c].mounted /\ (calls[c].served => calls[c].result = "ok")
            /\ calls[c].served /\ calls[c].listing => calls[c].rows = table
        /\ InFlight = {} => page.keys = table

KeysInv == KeysShape /\ Alone

\* What the page becomes by an answer.
LEMMA Answered ==
  ASSUME NEW p \in PageType, NEW call \in CallType
  PROVE  /\ Finally(p, call) \in PageType
         /\ Finally(p, call).keys = p.keys /\ Finally(p, call).newKey = p.newKey
         /\ ShowKey(p, call.key) \in PageType
         /\ ShowKey(p, call.key).keys = p.keys /\ ShowKey(p, call.key).newKey = call.key
         /\ ShowList(p, call) \in PageType
         /\ call.result = "ok" => ShowList(p, call).keys = call.rows
  <1>1. /\ Finally(p, call) \in PageType
        /\ Finally(p, call).keys = p.keys /\ Finally(p, call).newKey = p.newKey
    <2>1. \/ Finally(p, call) = [p EXCEPT !.creating = FALSE]
          \/ Finally(p, call) = [p EXCEPT !.revoking = NoKey]
          \/ Finally(p, call) = p
      BY DEF Finally
    <2> QED BY <2>1 DEF PageType
  <1>2. /\ ShowKey(p, call.key) \in PageType
        /\ ShowKey(p, call.key).keys = p.keys /\ ShowKey(p, call.key).newKey = call.key
    BY DEF ShowKey, PageType, CallType
  <1>3. /\ ShowList(p, call) \in PageType
        /\ call.result = "ok" => ShowList(p, call).keys = call.rows
    <2>1. NoKeys \in [Key -> KeyState] BY DEF NoKeys, KeyState
    <2> QED BY <2>1 DEF ShowList, PageType, CallType
  <1> QED BY <1>1, <1>2, <1>3

\* The calls that start.
LEMMA Started ==
  /\ NoCall \in CallType /\ NoCall.kind = "none" /\ Load \in CallType
  /\ Load.kind = "load" /\ Load.mounted /\ ~Load.served
  /\ \A kind \in {"create", "revoke"}, k \in Key \cup {NoKey} :
       LET call == [NoCall EXCEPT !.kind = kind, !.key = k, !.mounted = TRUE]
       IN  call \in CallType /\ call.kind = kind /\ call.mounted /\ ~call.served
  <1>1. NoKeys \in [Key -> KeyState] BY DEF NoKeys, KeyState
  <1> QED BY <1>1 DEF NoCall, Load, CallType

\* The page has just been opened, and its load runs alone.
LEMMA InitKeys == KeysInit => KeysInv
  <1> SUFFICES ASSUME KeysInit PROVE KeysInv OBVIOUS
  <1>1. table \in [Key -> KeyState] BY DEF KeysInit, KeyState
  <1>2. page \in PageType /\ page = Fresh
    <2>1. NoKeys \in [Key -> KeyState] BY DEF NoKeys, KeyState
    <2> QED BY <2>1 DEF KeysInit, Fresh, PageType
  <1>3. PICK c \in Call : calls = [d \in Call |-> IF d = c THEN Load ELSE NoCall]
    BY DEF KeysInit
  <1>4. calls \in [Call -> CallType] BY <1>3, Started
  <1>5. InFlight = {c} BY <1>3, Started DEF InFlight
  <1>6. Alone BY <1>3, <1>5, Started DEF Alone
  <1> QED BY <1>1, <1>2, <1>4, <1>6 DEF KeysInit, KeysInv, KeysShape

\* A new handler: it runs alone, or is disturbed.
LEMMA NewCallKeeps ==
  ASSUME KeysInv, UNCHANGED table, page' \in PageType, NEW c \in Call,
         calls[c].kind = "none", calls' \in [Call -> CallType],
         calls'[c].kind # "none" /\ calls'[c].mounted /\ ~calls'[c].served,
         \A d \in Call \ {c} : calls'[d].kind = calls[d].kind,
         disturbed' = (InFlight # {})
  PROVE  KeysInv'
  <1>1. InFlight' = InFlight \cup {c} BY DEF InFlight
  <1>2. Alone' BY <1>1 DEF Alone
  <1> QED BY <1>2 DEF KeysInv, KeysShape

\* A key is created or revoked: the buttons of the page start such a handler.
LEMMA BeginKeeps ==
  ASSUME KeysInv, NEW c \in Call, handleCreate(c) \/ handleRevoke(c)
  PROVE  KeysInv'
  <1>1. PICK kind \in {"create", "revoke"}, k \in Key \cup {NoKey} : Begin(c, kind, k)
    BY DEF handleCreate, handleRevoke, KeysInv, KeysShape, PageType
  <1>2. page' \in PageType
    BY DEF handleCreate, handleRevoke, KeysInv, KeysShape, PageType
  <1> DEFINE call == [NoCall EXCEPT !.kind = kind, !.key = k, !.mounted = TRUE]
  <1>3. call \in CallType /\ call.kind # "none" /\ call.mounted /\ ~call.served
    BY Started
  <1>4. /\ calls' = [calls EXCEPT ![c] = call] /\ calls[c].kind = "none"
        /\ disturbed' = (InFlight # {}) /\ UNCHANGED table
    BY <1>1 DEF Begin
  <1> HIDE DEF call
  <1>5. /\ calls' \in [Call -> CallType] /\ calls'[c] = call
        /\ \A d \in Call \ {c} : calls'[d].kind = calls[d].kind
    BY <1>3, <1>4 DEF KeysInv, KeysShape
  <1> QED BY <1>2, <1>3, <1>4, <1>5, NewCallKeeps

\* The page is opened: the handlers of the page that was left are not its own.
LEMMA OpenKeepsKeys ==
  ASSUME KeysInv, OpenPage
  PROVE  KeysInv'
  <1>1. PICK c \in Call :
          /\ calls[c].kind = "none"
          /\ calls' = [d \in Call |-> IF d = c THEN Load
                                   ELSE [calls[d] EXCEPT !.mounted = FALSE]]
    BY DEF OpenPage
  <1>2. page' \in PageType
    <2>1. NoKeys \in [Key -> KeyState] BY DEF NoKeys, KeyState
    <2> QED BY <2>1 DEF OpenPage, Fresh, PageType
  <1>3. \A d \in Call : /\ [calls[d] EXCEPT !.mounted = FALSE] \in CallType
                        /\ [calls[d] EXCEPT !.mounted = FALSE].kind = calls[d].kind
    BY DEF KeysInv, KeysShape, CallType
  <1>4. /\ calls' \in [Call -> CallType] /\ calls'[c] = Load
        /\ \A d \in Call \ {c} : calls'[d].kind = calls[d].kind
    BY <1>1, <1>3, Started
  <1> QED BY <1>1, <1>2, <1>4, Started, NewCallKeeps DEF OpenPage

\* The server's part: undisturbed, it serves the only handler, and well.
LEMMA ServeKeeps ==
  ASSUME KeysInv, NEW c \in Call, Serve(c)
  PROVE  KeysInv'
  <1>1. PICK k \in Key \cup {NoKey}, result \in {"ok", "refused", "failed"},
             rows \in {table, NoKeys} :
          /\ Respond(c, k, result, rows)
          /\ calls[c].listing => table' = table /\ (result = "ok" => rows = table)
          /\ table' \in [Key -> KeyState]
    <2>1. CASE ServeList(c) BY <2>1 DEF ServeList, KeysInv, KeysShape
    <2>2. CASE ServeChange(c)
      BY <2>2 DEF ServeChange, Create, Revoke, KeysInv, KeysShape, KeyState
    <2> QED BY <2>1, <2>2 DEF Serve
  <1>2. /\ calls[c].kind # "none" /\ ~calls[c].served /\ UNCHANGED page
        /\ disturbed' = (disturbed \/ calls'[c].result # "ok")
    BY DEF Serve
  <1>3. NoKeys \in [Key -> KeyState] /\ table \in [Key -> KeyState]
    BY DEF NoKeys, KeyState, KeysInv, KeysShape
  <1>4. /\ calls' \in [Call -> CallType]
        /\ calls'[c].kind = calls[c].kind /\ calls'[c].mounted = calls[c].mounted
        /\ calls'[c].listing = calls[c].listing /\ calls'[c].result = result
        /\ calls'[c].rows = rows
        /\ \A d \in Call \ {c} : calls'[d] = calls[d]
    BY <1>1, <1>3 DEF Respond, KeysInv, KeysShape, CallType
  <1>5. InFlight' = InFlight /\ c \in InFlight BY <1>2, <1>4 DEF InFlight
  <1>6. Alone'
    BY <1>1, <1>2, <1>4, <1>5 DEF KeysInv, Alone
  <1> QED BY <1>1, <1>2, <1>4, <1>6 DEF KeysInv, KeysShape

\* A handler resumes; undisturbed, the last of its answers is the table.
LEMMA SettleKeeps ==
  ASSUME KeysInv, NEW c \in Call, Settle(c)
  PROVE  KeysInv'
  <1> DEFINE call == calls[c]
             told == call.kind = "create" /\ ~call.listing /\ call.result = "ok"
             p == IF told THEN ShowKey(page, call.key)
                  ELSE IF call.listing THEN ShowList(page, call) ELSE page
  <1>1. /\ call.kind # "none" /\ call.served
        /\ page' = IF ~call.mounted THEN page
                   ELSE IF GoesOn(call) THEN p ELSE Finally(p, call)
        /\ calls' = [calls EXCEPT ![c] =
                        IF GoesOn(call)
                        THEN [call EXCEPT !.key = NoKey, !.listing = TRUE, !.served = FALSE]
                        ELSE NoCall]
        /\ UNCHANGED <<table, disturbed>>
    BY DEF Settle
  <1>2. page \in PageType /\ call \in CallType /\ calls \in [Call -> CallType]
    BY DEF KeysInv, KeysShape
  <1> HIDE DEF call
  <1>3. p \in PageType
        /\ (call.listing /\ call.result = "ok" => p.keys = call.rows)
    BY <1>2, Answered
  <1> HIDE DEF p
  <1>4. page' \in PageType BY <1>1, <1>2, <1>3, Answered
  <1>5. CASE GoesOn(call)
    <2> DEFINE next == [call EXCEPT !.key = NoKey, !.listing = TRUE, !.served = FALSE]
    <2>1. /\ next \in CallType /\ next.kind = call.kind /\ next.mounted = call.mounted
          /\ ~next.served
      BY <1>2 DEF CallType
    <2> HIDE DEF next
    <2>2. calls' = [calls EXCEPT ![c] = next] BY <1>1, <1>5 DEF next
    <2>3. /\ calls' \in [Call -> CallType] /\ calls'[c] = next
          /\ \A d \in Call \ {c} : calls'[d] = calls[d]
      BY <1>2, <2>1, <2>2
    <2>4. InFlight' = InFlight /\ c \in InFlight
      BY <1>1, <2>1, <2>3 DEF InFlight, call
    <2>5. Alone' BY <1>1, <2>1, <2>3, <2>4 DEF KeysInv, Alone, call
    <2> QED BY <1>1, <1>4, <2>3, <2>5 DEF KeysInv, KeysShape
  <1>6. CASE ~GoesOn(call)
    <2>1. calls' = [calls EXCEPT ![c] = NoCall] BY <1>1, <1>6
    <2>2. /\ calls' \in [Call -> CallType] /\ calls'[c] = NoCall
          /\ \A d \in Call \ {c} : calls'[d] = calls[d]
      BY <1>2, <2>1, Started
    <2>3. InFlight' = InFlight \ {c} /\ c \in InFlight
      BY <1>1, <2>2, Started DEF InFlight, call
    <2>4. ASSUME ~disturbed
          PROVE  InFlight' = {} /\ page'.keys = table
      <3>1. /\ InFlight' = {} /\ call.mounted /\ call.result = "ok"
            /\ call.listing => call.rows = table
        BY <1>1, <2>3, <2>4 DEF KeysInv, Alone, call
      <3>2. call.listing BY <1>2, <1>6, <3>1 DEF GoesOn, CallType
      <3>3. page' = Finally(p, call) /\ p.keys = table BY <1>1, <1>3, <1>6, <3>1, <3>2
      <3> QED BY <1>2, <1>3, <3>1, <3>3, Answered
    <2>5. Alone' BY <1>1, <2>4 DEF Alone
    <2> QED BY <1>1, <1>4, <2>2, <2>5 DEF KeysInv, KeysShape
  <1> QED BY <1>5, <1>6

\* The user's clicks do not touch the list shown.
LEMMA ClickKeeps ==
  ASSUME KeysInv, Dialog \/ AskRevoke \/ DismissKey
  PROVE  KeysInv'
  <1>1. UNCHANGED <<table, calls, disturbed>>
    BY DEF Dialog, AskRevoke, DismissKey
  <1>2. page' \in PageType /\ page'.keys = page.keys
    BY DEF Dialog, AskRevoke, DismissKey, KeysInv, KeysShape, PageType
  <1> QED BY <1>1, <1>2 DEF KeysInv, KeysShape, Alone, InFlight

\* Every step keeps the invariant.
LEMMA NextKeepsKeys == KeysInv /\ [KeysNext]_(keysVars) => KeysInv'
  <1> SUFFICES ASSUME KeysInv, [KeysNext]_(keysVars) PROVE KeysInv' OBVIOUS
  <1>1. CASE Elsewhere
    BY <1>1 DEF Elsewhere, Create, Revoke, KeysInv, KeysShape, KeyState, Alone
  <1>2. CASE UNCHANGED keysVars
    BY <1>2 DEF keysVars, KeysInv, KeysShape, Alone, InFlight
  <1> QED BY <1>1, <1>2, OpenKeepsKeys, ClickKeeps, BeginKeeps, ServeKeeps, SettleKeeps
     DEF KeysNext

\* The handlers of this page that create a key.
Creators == {c \in Call : calls[c].kind = "create" /\ calls[c].mounted}

\* A key awaits its handler: it was created for it, and not shown yet.
Answering(c) ==
    calls[c].kind = "create" /\ ~calls[c].listing /\ calls[c].served /\ calls[c].result = "ok"

\* The page creates one key at a time, because the button is disabled until the
\* handler has ended; keys are created in order; and the key a handler brings is
\* newer than the one shown.
OrderInv ==
    /\ \A c, d \in Creators : c = d
    /\ \A c \in Creators : page.creating
    /\ \A k, l \in Key : table[k] # "none" /\ l < k => table[l] # "none"
    /\ page.newKey # NoKey => table[page.newKey] # "none"
    /\ \A c \in Call : Answering(c) =>
        /\ calls[c].key \in Key /\ table[calls[c].key] # "none"
        /\ calls[c].mounted /\ page.newKey # NoKey => page.newKey < calls[c].key

\* What the user does to the page starts no creation, or the only one.
LEMMA ClickKeepsOrder ==
  ASSUME KeysInv, OrderInv, Dialog \/ AskRevoke \/ DismissKey
  PROVE  OrderInv'
  <1>1. UNCHANGED <<table, calls>>
    BY DEF Dialog, AskRevoke, DismissKey
  <1>2. page'.creating = page.creating /\ page'.newKey \in {page.newKey, NoKey}
    BY DEF Dialog, AskRevoke, DismissKey, KeysInv, KeysShape, PageType
  <1> QED BY <1>1, <1>2 DEF OrderInv, Creators, Answering

LEMMA BeginKeepsOrder ==
  ASSUME KeysInv, OrderInv, NEW c \in Call, handleCreate(c) \/ handleRevoke(c)
  PROVE  OrderInv'
  <1>1. PICK kind \in {"create", "revoke"}, k \in Key \cup {NoKey} :
          /\ Begin(c, kind, k)
          /\ kind = "create" => ~page.creating /\ page'.creating
          /\ kind = "revoke" => page' = page
    BY DEF handleCreate, handleRevoke, KeysInv, KeysShape, PageType
  <1>2. page'.newKey = page.newKey
    BY DEF handleCreate, handleRevoke, KeysInv, KeysShape, PageType
  <1> DEFINE call == [NoCall EXCEPT !.kind = kind, !.key = k, !.mounted = TRUE]
  <1>3. call \in CallType /\ call.kind = kind /\ ~call.served
    BY Started
  <1>4. calls' = [calls EXCEPT ![c] = call] /\ UNCHANGED table
    BY <1>1 DEF Begin
  <1> HIDE DEF call
  <1>5. calls'[c] = call /\ \A d \in Call \ {c} : calls'[d] = calls[d]
    BY <1>4 DEF KeysInv, KeysShape
  <1>6. /\ kind = "create" => Creators = {} /\ Creators' \subseteq {c}
        /\ kind = "revoke" => Creators' \subseteq Creators
    BY <1>1, <1>3, <1>5 DEF OrderInv, Creators
  <1>7. \A d \in Call : Answering(d)' => d # c /\ Answering(d)
    BY <1>3, <1>5 DEF Answering
  <1>8. /\ \A d, e \in Creators' : d = e
        /\ \A d \in Creators' : page'.creating
    BY <1>1, <1>6 DEF OrderInv
  <1> QED BY <1>2, <1>4, <1>5, <1>7, <1>8 DEF OrderInv

\* A page that is opened shows no key, and creates none yet.
LEMMA OpenKeepsOrder ==
  ASSUME KeysInv, OrderInv, OpenPage
  PROVE  OrderInv'
  <1>1. PICK c \in Call :
          calls' = [d \in Call |-> IF d = c THEN Load
                                   ELSE [calls[d] EXCEPT !.mounted = FALSE]]
    BY DEF OpenPage
  <1>2. page'.newKey = NoKey /\ UNCHANGED table
    BY DEF OpenPage, Fresh
  <1>3. \A d \in Call \ {c} :
          /\ calls'[d].kind = calls[d].kind /\ calls'[d].listing = calls[d].listing
          /\ calls'[d].served = calls[d].served /\ calls'[d].result = calls[d].result
          /\ calls'[d].key = calls[d].key /\ ~calls'[d].mounted
    BY <1>1 DEF KeysInv, KeysShape, CallType
  <1>4. calls'[c].kind = "load"
    BY <1>1, Started
  <1>5. Creators' = {}
    BY <1>3, <1>4 DEF Creators
  <1>6. \A d \in Call : Answering(d)' => d # c /\ Answering(d)
    BY <1>3, <1>4 DEF Answering
  <1> QED BY <1>2, <1>3, <1>5, <1>6 DEF OrderInv

\* The next key is newer than every other, the one on the page included.
LEMMA CreatedIsNewest ==
  ASSUME KeysInv, OrderInv, NEW k \in Key, Create(k)
  PROVE  /\ table'[k] # "none" /\ \A l \in Key : table[l] # "none" => l < k
         /\ \A l \in Key : table[l] # "none" => table'[l] # "none"
         /\ \A m, l \in Key : table'[m] # "none" /\ l < m => table'[l] # "none"
  <1>1. /\ table[k] = "none" /\ table'[k] = "active"
        /\ \A l \in Key \ {k} : table'[l] = table[l]
        /\ \A l \in 1..(k - 1) : table[l] # "none"
    BY DEF Create, KeysInv, KeysShape
  <1>2. \A l \in Key : l \in Nat /\ (l < k => l \in 1..(k - 1)) /\ (l < k \/ l = k \/ k < l)
    BY KeysAssumption DEF Key
  <1>3. \A l \in Key : table[l] # "none" => l < k
    BY <1>1, <1>2 DEF OrderInv
  <1> QED BY <1>1, <1>2, <1>3 DEF OrderInv

\* A revocation creates nothing.
LEMMA RevokedKeepsOrder ==
  ASSUME KeysInv, OrderInv, NEW k \in Key, Revoke(k)
  PROVE  \A l \in Key : table'[l] # "none" <=> table[l] # "none"
BY DEF Revoke, KeysInv, KeysShape

\* The server creates keys in order, whoever asks for them.
LEMMA ElsewhereKeepsOrder ==
  ASSUME KeysInv, OrderInv, Elsewhere
  PROVE  OrderInv'
  <1>1. PICK k \in Key : Create(k) \/ Revoke(k)
    BY DEF Elsewhere
  <1>2. /\ \A l \in Key : table[l] # "none" => table'[l] # "none"
        /\ \A m, l \in Key : table'[m] # "none" /\ l < m => table'[l] # "none"
    BY <1>1, CreatedIsNewest, RevokedKeepsOrder DEF OrderInv
  <1>3. UNCHANGED <<page, calls>>
    BY DEF Elsewhere
  <1>4. page.newKey \in Key \cup {NoKey}
    BY DEF KeysInv, KeysShape, PageType
  <1> QED BY <1>2, <1>3, <1>4 DEF OrderInv, Creators, Answering

\* The key created for a handler is newer than the one its page shows.
LEMMA ServeKeepsOrder ==
  ASSUME KeysInv, OrderInv, NEW c \in Call, Serve(c)
  PROVE  OrderInv'
  <1>1. /\ page' = page /\ page.newKey \in Key \cup {NoKey}
        /\ ~calls[c].served
    BY DEF Serve, KeysInv, KeysShape, PageType
  <1>2. PICK k, result, rows : Respond(c, k, result, rows)
    BY DEF Serve, ServeList, ServeChange
  <1>3. /\ \A d \in Call \ {c} : calls'[d] = calls[d]
        /\ calls'[c].kind = calls[c].kind /\ calls'[c].mounted = calls[c].mounted
        /\ calls'[c].listing = calls[c].listing
    BY <1>2 DEF Respond, KeysInv, KeysShape, CallType
  <1>4. Creators' = Creators
    BY <1>3 DEF Creators
  <1>5. /\ \A l \in Key : table[l] # "none" => table'[l] # "none"
        /\ \A m, l \in Key : table'[m] # "none" /\ l < m => table'[l] # "none"
    <2>1. table' = table \/ \E l \in Key : Create(l) \/ Revoke(l)
      BY DEF Serve, ServeList, ServeChange
    <2> QED BY <2>1, CreatedIsNewest, RevokedKeepsOrder DEF OrderInv
  <1>6. ASSUME Answering(c)'
        PROVE  /\ calls'[c].key \in Key /\ table'[calls'[c].key] # "none"
               /\ page.newKey # NoKey => page.newKey < calls'[c].key
    <2>1. PICK l \in Key : Create(l) /\ Respond(c, l, "ok", NoKeys)
      <3>1. ServeChange(c) /\ calls[c].kind = "create"
        BY <1>3, <1>6 DEF Serve, ServeList, Answering
      <3>2. ~Respond(c, NoKey, "failed", NoKeys)
        BY <1>6 DEF Respond, Answering, KeysInv, KeysShape, CallType
      <3> QED BY <3>1, <3>2 DEF ServeChange
    <2>2. calls'[c].key = l
      BY <2>1 DEF Respond, KeysInv, KeysShape, CallType
    <2> QED BY <1>1, <2>1, <2>2, CreatedIsNewest DEF OrderInv
  <1>7. \A d \in Call \ {c} : Answering(d)' = Answering(d)
    BY <1>3 DEF Answering
  <1> QED BY <1>1, <1>3, <1>4, <1>5, <1>6, <1>7 DEF OrderInv

\* What a handler shows when it resumes is newer than what was shown; it stays
\* the only creator, or the button is enabled.
LEMMA SettleKeepsOrder ==
  ASSUME KeysInv, OrderInv, NEW c \in Call, Settle(c)
  PROVE  /\ OrderInv'
         /\ page.newKey # NoKey /\ page'.newKey # NoKey => page'.newKey >= page.newKey
  <1> DEFINE call == calls[c]
             told == call.kind = "create" /\ ~call.listing /\ call.result = "ok"
             p == IF told THEN ShowKey(page, call.key)
                  ELSE IF call.listing THEN ShowList(page, call) ELSE page
  <1>1. /\ call.kind # "none" /\ call.served
        /\ page' = IF ~call.mounted THEN page
                   ELSE IF GoesOn(call) THEN p ELSE Finally(p, call)
        /\ calls' = [calls EXCEPT ![c] =
                        IF GoesOn(call)
                        THEN [call EXCEPT !.key = NoKey, !.listing = TRUE, !.served = FALSE]
                        ELSE NoCall]
        /\ UNCHANGED table
    BY DEF Settle
  <1>2. /\ page \in PageType /\ call \in CallType /\ calls \in [Call -> CallType]
        /\ page.newKey \in Key \cup {NoKey}
    BY DEF KeysInv, KeysShape, PageType
  <1>3. told => Answering(c) /\ GoesOn(call)
    BY <1>1 DEF Answering, GoesOn
  <1> HIDE DEF call
  <1>4. /\ p.creating = page.creating
        /\ p.newKey = IF told THEN call.key ELSE page.newKey
    BY <1>2 DEF ShowKey, ShowList, PageType, CallType
  <1>5. p \in PageType
    BY <1>2, Answered
  <1> HIDE DEF p
  <1>6. /\ Finally(p, call).newKey = p.newKey
        /\ call.kind # "create" => Finally(p, call).creating = p.creating
    BY <1>5 DEF Finally, PageType
  <1>7. /\ page'.newKey = IF call.mounted /\ told THEN call.key ELSE page.newKey
        /\ c \notin Creators \/ GoesOn(call) => page'.creating = page.creating
    BY <1>1, <1>4, <1>6 DEF Creators, call
  <1>8. call.mounted /\ told =>
          /\ call.key \in Key /\ table[call.key] # "none"
          /\ page.newKey # NoKey => page.newKey < call.key
    BY <1>3 DEF OrderInv, call
  <1>9. \A k \in Key : k \in Nat
    BY KeysAssumption DEF Key
  <1>10. page.newKey # NoKey /\ page'.newKey # NoKey => page'.newKey >= page.newKey
    BY <1>2, <1>7, <1>8, <1>9
  <1>11. page'.newKey # NoKey => table'[page'.newKey] # "none"
    BY <1>1, <1>7, <1>8 DEF OrderInv
  <1>12. \A d \in Call \ {c} : calls'[d] = calls[d]
    BY <1>1, <1>2
  <1>13. CASE GoesOn(call)
    <2> DEFINE next == [call EXCEPT !.key = NoKey, !.listing = TRUE, !.served = FALSE]
    <2>1. next.kind = call.kind /\ next.mounted = call.mounted /\ ~next.served
      BY <1>2 DEF CallType
    <2>2. calls'[c] = next
      BY <1>1, <1>2, <1>13
    <2> HIDE DEF next
    <2>3. Creators' = Creators /\ page'.creating = page.creating
      BY <1>7, <1>12, <1>13, <2>1, <2>2 DEF Creators, call
    <2>4. ~Answering(c)' /\ \A d \in Call \ {c} : Answering(d)' = Answering(d)
      BY <1>12, <2>1, <2>2 DEF Answering
    <2>5. ASSUME NEW d \in Call \ {c}, Answering(d), calls[d].mounted, page'.newKey # NoKey
          PROVE  page'.newKey < calls[d].key
      <3>1. ~(call.mounted /\ told)
        BY <2>5 DEF OrderInv, Creators, Answering, call
      <3> QED BY <1>7, <2>5, <3>1 DEF OrderInv
    <2>6. OrderInv'
      BY <1>1, <1>11, <1>12, <2>3, <2>4, <2>5 DEF OrderInv
    <2> QED BY <1>10, <2>6
  <1>14. CASE ~GoesOn(call)
    <2>1. calls'[c] = NoCall /\ calls'[c].kind = "none"
      BY <1>1, <1>2, <1>14, Started
    <2>2. Creators' = Creators \ {c}
      BY <1>12, <2>1 DEF Creators
    <2>3. \A d \in Creators' : page'.creating
      BY <1>7, <2>2 DEF OrderInv
    <2>4. ~Answering(c)' /\ \A d \in Call \ {c} : Answering(d)' = Answering(d)
      BY <1>12, <2>1 DEF Answering
    <2>5. page'.newKey = page.newKey
      BY <1>3, <1>7, <1>14
    <2>6. OrderInv'
      BY <1>1, <1>12, <2>2, <2>3, <2>4, <2>5 DEF OrderInv
    <2> QED BY <1>10, <2>6
  <1> QED BY <1>13, <1>14

\* At first nothing is created, and the keys there are came in order.
LEMMA InitOrder == KeysInit => OrderInv
  <1> SUFFICES ASSUME KeysInit PROVE OrderInv OBVIOUS
  <1>1. PICK m \in 0..MaxKeys : table = [k \in Key |-> IF k <= m THEN "active" ELSE "none"]
    BY DEF KeysInit
  <1>2. m \in Nat /\ \A k \in Key : k \in Nat
    BY KeysAssumption DEF Key
  <1>3. \A k, l \in Key : table[k] # "none" /\ l < k => table[l] # "none"
    BY <1>1, <1>2
  <1>4. \A c \in Call : calls[c].kind # "create"
    BY Started DEF KeysInit
  <1>5. page.newKey = NoKey
    BY DEF KeysInit, Fresh
  <1> QED BY <1>3, <1>4, <1>5 DEF OrderInv, Creators, Answering

\* Every step keeps the order, and none goes back to an older key.
LEMMA NextKeepsOrder ==
  ASSUME KeysInv, OrderInv, [KeysNext]_(keysVars)
  PROVE  /\ OrderInv'
         /\ page.newKey # NoKey /\ page'.newKey # NoKey => page'.newKey >= page.newKey
  <1>1. \A k \in Key : k \in Nat
    BY KeysAssumption DEF Key
  <1>2. page.newKey \in Key \cup {NoKey}
    BY DEF KeysInv, KeysShape, PageType
  <1>3. CASE \E c \in Call : Settle(c)
    BY <1>3, SettleKeepsOrder
  <1>4. CASE UNCHANGED keysVars
    BY <1>1, <1>2, <1>4 DEF keysVars, OrderInv, Creators, Answering
  <1>5. CASE OpenPage
    BY <1>5, OpenKeepsOrder DEF OpenPage, Fresh
  <1>6. CASE \/ Elsewhere \/ Dialog \/ AskRevoke \/ DismissKey
             \/ \E c \in Call : handleCreate(c) \/ handleRevoke(c) \/ Serve(c)
    <2>1. page'.newKey \in {page.newKey, NoKey}
      BY <1>6 DEF Elsewhere, Dialog, AskRevoke, DismissKey, handleCreate, handleRevoke,
         Serve, KeysInv, KeysShape, PageType
    <2>2. OrderInv'
      BY <1>6, ElsewhereKeepsOrder, ClickKeepsOrder, BeginKeepsOrder, ServeKeepsOrder
    <2> QED BY <1>1, <1>2, <2>1, <2>2
  <1> QED BY <1>3, <1>4, <1>5, <1>6 DEF KeysNext

\* "You won't see it again": for any number of keys and of handlers suspended at
\* once, no late answer puts an older key in the place of a newer one that is
\* still shown.
THEOREM NewKeysStay == KeysSpec => NewerKeyIsNotReplaced
  <1> DEFINE A == page.newKey # NoKey /\ page'.newKey # NoKey
                    => page'.newKey >= page.newKey
  <1>1. KeysInv /\ OrderInv /\ [KeysNext]_(keysVars) => OrderInv' /\ [A]_keysVars
    BY NextKeepsOrder
  <1> QED BY InitKeys, InitOrder, NextKeepsKeys, <1>1, PTL DEF KeysSpec, NewerKeyIsNotReplaced

\* For any number of keys and handlers, the page lists the keys as they are in
\* the table once the last handler has run alone and been answered.
THEOREM ListIsCurrent == KeysSpec => []ListIsCurrentWhenQuiet
  <1>1. KeysInv => ListIsCurrentWhenQuiet
    BY DEF KeysInv, Alone, ListIsCurrentWhenQuiet
  <1> QED BY InitKeys, NextKeepsKeys, <1>1, PTL DEF KeysSpec
=============================================================================
