----------------------------- MODULE WebSession ----------------------------
(***************************************************************************)
(* The signed-in part of the web application in one browser tab: the forms *)
(* (login, signup, onboarding), the session in localStorage, the shell     *)
(* around the dashboard and the pages inside it, each of which loads its   *)
(* data once when it is mounted.                                           *)
(*                                                                         *)
(* A form's handler is suspended while its request is in flight, and goes  *)
(* on even if its page has been left meanwhile: state updates of a page    *)
(* that is gone are ignored, localStorage and router.push are not.  Other  *)
(* tabs of the browser share localStorage.                                 *)
(***************************************************************************)
EXTENDS Naturals

CONSTANTS
    Account,    \* users of the application
    WithOrg,    \* those who belong to an organisation
    Handler,    \* bound: form handlers suspended at the same time
    None        \* an absent item of localStorage, or nothing shown

ASSUME WebAssumption ==
    WithOrg \subseteq Account /\ None \notin Account \cup {"null"} /\ "null" \notin Account

VARIABLES
    storage,    \* localStorage: token, user, org, onboarded
    route,      \* the page shown
    view,       \* the state of that page's component
    shell,      \* the state of DashboardShell, if it is mounted
    handlers,   \* the form handlers in flight
    users,      \* backend: accounts that exist
    monitors,   \* backend: accounts that have registered a service
    profiles,   \* backend: accounts whose onboarding is recorded
    behind      \* history: the session changed behind the mounted shell's back

backend == <<users, monitors, profiles>>
vars == <<storage, route, view, shell, handlers, backend, behind>>

Form      == {"/login", "/signup", "/onboarding"}
ByOrg     == {"/dashboard", "/dashboard/incidents"}
ByToken   == {"/dashboard/services/id", "/dashboard/settings"}
Dashboard == ByOrg \cup ByToken
Route     == Form \cup Dashboard \cup {"/", "/s/slug"}

OrgOf(a) == IF a \in WithOrg THEN a ELSE "null"

SignedOut == [token |-> None, user |-> None, org |-> None, onboarded |-> FALSE]
NoShell   == [org |-> None, user |-> None, open |-> {}]
Idle      == [kind |-> "none", account |-> None, mounted |-> FALSE]

\* A component that has just been mounted.
Blank == [busy |-> FALSE, error |-> FALSE, loading |-> FALSE, asked |-> None,
          shown |-> None]

Init ==
    /\ storage = SignedOut /\ route = "/"
    /\ view = Blank /\ shell = NoShell
    /\ handlers = [h \in Handler |-> Idle]
    /\ users = Account \ WithOrg /\ monitors = {} /\ profiles = {}
    /\ behind = FALSE

(* ------------------------------ navigation ----------------------------- *)

\* The mistake of taking "null" for an organisation.
loadStatus_Null(st) ==
    IF st.org = None THEN Blank ELSE [Blank EXCEPT !.loading = TRUE, !.asked = st.org]

\* What the page's effect does with the session it finds: the overview and the
\* incidents ask for the organisation's status, the others use the token.
\* JSON.parse("null").slug throws, and without a token the effect returns:
\* in both cases "Loading..." stays.
loadStatus(st) ==
    IF st.org = None THEN Blank
    ELSE [Blank EXCEPT !.loading = TRUE,
                       !.asked = IF st.org = "null" THEN None ELSE st.org]

loadByToken(st) == [Blank EXCEPT !.loading = TRUE, !.asked = st.token]

Mounted(r, st) ==
    CASE r \in ByOrg   -> loadStatus(st)
      [] r \in ByToken -> loadByToken(st)
      [] OTHER         -> Blank

\* The shell, when it is mounted, and the onboarding page send a visitor
\* without a token to the login page.
loadSession(r, st) ==
    IF /\ st.token = None /\ r # route
       /\ r = "/onboarding" \/ (r \in Dashboard /\ route \notin Dashboard)
    THEN "/login" ELSE r

NewShell(r, st) ==
    IF r \in Dashboard THEN [org |-> st.org, user |-> st.user, open |-> {}] ELSE NoShell

\* The router shows page r with the session st.  A page is mounted anew unless
\* it is the one shown; the shell stays between pages of the dashboard, but its
\* sidebar closes when the path changes.
Visit(r, st, bar, hs, change) ==
    LET to   == loadSession(r, st)
        stay == to \in Dashboard /\ route \in Dashboard
    IN  /\ route' = to
        /\ view' = IF r = route THEN view ELSE Mounted(to, st)
        /\ handlers' = IF r = route THEN hs
                       ELSE [h \in Handler |-> [hs[h] EXCEPT !.mounted = FALSE]]
        /\ shell' = IF r = route THEN bar
                    ELSE IF stay THEN [bar EXCEPT !.open = @ \ {"sidebar"}]
                    ELSE NewShell(to, st)
        /\ behind' = (stay /\ (behind \/ change))

\* The links a page offers.
Links(r) ==
    CASE r = "/"            -> {"/login", "/signup"}
      [] r = "/login"       -> {"/signup"}
      [] r = "/signup"      -> {"/login"}
      [] r = "/onboarding"  -> {"/"}
      [] r = "/s/slug"      -> {"/"}
      [] OTHER ->
            {"/"} \cup (Dashboard \ {"/dashboard/services/id"})
            \cup (IF r = "/dashboard" THEN {"/dashboard/services/id"} ELSE {})
            \cup (IF shell.org \in WithOrg THEN {"/s/slug"} ELSE {})

\* A click on a link; it is outside the menus, or closes the menu it is in.
Follow ==
    /\ \E r \in Links(route) :
        Visit(r, storage, [shell EXCEPT !.open = @ \ {"org", "avatar"}], handlers, FALSE)
    /\ UNCHANGED <<storage, backend>>

\* A page is opened by its address: everything in the tab but localStorage is new.
Open ==
    /\ \E r \in Route :
        LET to == IF storage.token = None /\ r \in Dashboard \cup {"/onboarding"}
                  THEN "/login" ELSE r
        IN  /\ route' = to
            /\ view' = Mounted(to, storage)
            /\ shell' = NewShell(to, storage)
    /\ handlers' = [h \in Handler |-> Idle]
    /\ behind' = FALSE
    /\ UNCHANGED <<storage, backend>>

(* --------------------------------- forms ------------------------------- *)

\* A form is submitted: its button is disabled until its handler is done.
Start(h, kind, account) ==
    /\ ~view.busy /\ handlers[h].kind = "none"
    /\ handlers' = [handlers EXCEPT ![h] = [kind |-> kind, account |-> account, mounted |-> TRUE]]
    /\ view' = [view EXCEPT !.busy = TRUE, !.error = FALSE]
    /\ UNCHANGED <<storage, route, shell, backend, behind>>

SubmitLogin(h)  == route = "/login" /\ Start(h, "login", None)
SubmitSignup(h) == route = "/signup" /\ Start(h, "signup", None)

\* The onboarding form reads the token once, when it is submitted.
handleStartMonitoring(h) == route = "/onboarding" /\ Start(h, "register", storage.token)

Done(h) == [handlers EXCEPT ![h] = Idle]

\* The mistake of a form that only resets its button after a success.
Failed_NoReset(h) ==
    /\ handlers' = Done(h)
    /\ view' = IF handlers[h].mounted THEN [view EXCEPT !.error = TRUE] ELSE view
    /\ UNCHANGED <<storage, route, shell, behind>>

\* A refused or failed request ends the handler with a message under the form.
Failed(h) ==
    /\ handlers' = Done(h)
    /\ view' = IF handlers[h].mounted THEN [view EXCEPT !.error = TRUE, !.busy = FALSE]
               ELSE view
    /\ UNCHANGED <<storage, route, shell, behind>>

\* The mistake of a form that stores the organisation only when there is one.
SignedIn_KeepsOrg(a) ==
    [storage EXCEPT !.token = a, !.user = a, !.org = IF a \in WithOrg THEN a ELSE @]

\* The items a login or a signup stores.
SignedIn(a) == [storage EXCEPT !.token = a, !.user = a, !.org = OrgOf(a)]

\* The answer to a login form: the session is stored and the dashboard opened,
\* whatever page is shown by then.
LoginSettles(h) ==
    /\ handlers[h].kind = "login"
    /\ UNCHANGED backend
    /\ \/ \E a \in users :
            /\ storage' = SignedIn(a)
            /\ Visit("/dashboard", SignedIn(a), shell, Done(h), ~handlers[h].mounted)
       \/ Failed(h)

\* Likewise for a signup, which may create the account and lose the answer.
SignupSettles(h) ==
    /\ handlers[h].kind = "signup"
    /\ \/ \E a \in WithOrg \ users :
            /\ users' = users \cup {a} /\ storage' = SignedIn(a)
            /\ Visit("/onboarding", SignedIn(a), shell, Done(h), ~handlers[h].mounted)
       \/ /\ users' = users \/ \E a \in WithOrg \ users : users' = users \cup {a}
          /\ Failed(h)
    /\ UNCHANGED <<monitors, profiles>>

\* The service is registered, for the organisation of the token, and the second
\* request is sent with the same token; or the first one fails, its effect
\* done or not.
RegisterSettles(h) ==
    /\ handlers[h].kind = "register"
    /\ LET mine == {handlers[h].account} \cap WithOrg
       IN  \/ /\ mine # {} /\ monitors' = monitors \cup mine
              /\ handlers' = [handlers EXCEPT ![h].kind = "complete"]
              /\ UNCHANGED <<storage, route, view, shell, behind>>
           \/ monitors' \in {monitors, monitors \cup mine} /\ Failed(h)
    /\ UNCHANGED <<users, profiles>>

\* The mistake of sending the second request with the token stored by then.
completeOnboarding_Rereads(h) == {storage.token} \ {None}

\* Whom the second request records as onboarded.
completeOnboarding(h) == {handlers[h].account}

\* The onboarding is recorded and the dashboard opened; or the request fails.
CompleteSettles(h) ==
    /\ handlers[h].kind = "complete"
    /\ \/ /\ profiles' = profiles \cup completeOnboarding(h)
          /\ storage' = [storage EXCEPT !.onboarded = TRUE]
          /\ Visit("/dashboard", storage', shell, Done(h), FALSE)
       \/ profiles' \in {profiles, profiles \cup completeOnboarding(h)} /\ Failed(h)
    /\ UNCHANGED <<users, monitors>>

Settles(h) == LoginSettles(h) \/ SignupSettles(h) \/ RegisterSettles(h) \/ CompleteSettles(h)

(* ------------------------------ dashboard ------------------------------ *)

\* The page's load is answered: with the organisation's data, or with an error,
\* shown as nothing found.  A rejected request leaves "Loading..." on the page:
\* the pages that use the token catch nothing, and getPublicStatus catches a
\* rejected fetch, but returns the promise of the body without awaiting it.
LoadSettles ==
    /\ view.asked # None
    /\ \/ \E x \in {None} \cup ({view.asked} \cap WithOrg) :
            view' = [view EXCEPT !.shown = x, !.loading = FALSE, !.asked = None]
       \/ view' = [view EXCEPT !.asked = None]
    /\ UNCHANGED <<storage, route, shell, handlers, backend, behind>>

\* A click on the button of a menu or of the sidebar; any click closes the
\* menus it is not in.
Toggle(m) ==
    /\ route \in Dashboard
    /\ m = "avatar" => shell.user # None
    /\ shell' = [shell EXCEPT !.open =
                    (IF m \in @ THEN @ \ {m} ELSE @ \cup {m}) \ ({"org", "avatar"} \ {m})]
    /\ UNCHANGED <<storage, route, view, handlers, backend, behind>>

\* "Sign out" in the avatar's menu; the onboarded item is not removed.
handleLogout ==
    /\ "avatar" \in shell.open
    /\ storage' = [SignedOut EXCEPT !.onboarded = storage.onboarded]
    /\ Visit("/login", storage', shell, handlers, FALSE)
    /\ UNCHANGED backend

\* Another tab signs in, signs out or completes an onboarding.
OtherTab ==
    /\ storage' \in {SignedIn(a) : a \in users}
                  \cup {[SignedOut EXCEPT !.onboarded = storage.onboarded],
                        [storage EXCEPT !.onboarded = TRUE]}
    /\ behind' = (behind \/ (route \in Dashboard /\ storage'.token # storage.token))
    /\ UNCHANGED <<route, view, shell, handlers, backend>>

Next ==
    \/ Follow \/ Open \/ LoadSettles \/ handleLogout \/ OtherTab
    \/ \E m \in {"org", "avatar", "sidebar"} : Toggle(m)
    \/ \E h \in Handler :
        SubmitLogin(h) \/ SubmitSignup(h) \/ handleStartMonitoring(h) \/ Settles(h)

Spec == Init /\ [][Next]_vars

\* The browser settles every request in the end.
FairSpec == Spec /\ WF_vars(LoadSettles) /\ \A h \in Handler : WF_vars(Settles(h))

(* ------------------------------ properties ----------------------------- *)

\* Every variable is of its type; in particular no page asks for the data of the
\* organisation "null", which the login of a user without one stores.
TypeOK ==
    /\ storage \in [token : Account \cup {None}, user : Account \cup {None},
                    org : WithOrg \cup {None, "null"}, onboarded : BOOLEAN]
    /\ route \in Route
    /\ view \in [busy : BOOLEAN, error : BOOLEAN, loading : BOOLEAN,
                 asked : Account \cup {None}, shown : WithOrg \cup {None}]
    /\ shell \in [org : WithOrg \cup {None, "null"}, user : Account \cup {None},
                  open : SUBSET {"org", "avatar", "sidebar"}]
    /\ handlers \in [Handler -> [kind : {"none", "login", "signup", "register", "complete"},
                                 account : Account \cup {None}, mounted : BOOLEAN]]
    /\ users \in SUBSET Account /\ monitors \in SUBSET WithOrg /\ profiles \in SUBSET Account
    /\ behind \in BOOLEAN

\* A dashboard page never mixes two accounts: unless the session was changed
\* behind its back (by another tab, or by a login answered after its form was
\* left), the header, the menus and the data shown, or asked for, are those of
\* the account whose token the page's next request will carry.
OneOrgOnScreen ==
    route \in Dashboard /\ ~behind =>
        /\ storage.token # None
        /\ shell.user = storage.token /\ shell.org = OrgOf(storage.token)
        /\ {view.asked, view.shown} \subseteq {None, storage.token}

\* An account is recorded as onboarded only if it has a service to monitor,
\* whichever account the browser is signed in with when the two requests of the
\* onboarding form, sent one after the other, are answered.
OnboardedHasMonitor == profiles \subseteq monitors

\* A form's button is never left disabled: its handler ends with a new page or
\* with the button enabled, or the page is left.
BusyEnds == view.busy ~> ~view.busy
=============================================================================
