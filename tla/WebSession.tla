----------------------------- MODULE WebSession -----------------------------
(***************************************************************************)
(* Who is signed in in a browser, which pages that lets a tab show, and    *)
(* the language it speaks.  Token, user and language are kept in the       *)
(* localStorage, which the tabs of the browser share; a tab keeps a copy   *)
(* of the user and of the language in the state of its components.         *)
(*                                                                         *)
(* Effects run, children first, in one go after the render that needs      *)
(* them.  A redirect of the router is carried out some time later.  The    *)
(* user waits until the page has settled.  What a page shows is the        *)
(* subject of WebPages; here a page is the calls it may send.              *)
(***************************************************************************)
EXTENDS Integers, Sequences, FiniteSets

CONSTANTS
    Users,
    InitAccount,   \* role and preferred language of each user
    Languages,
    Default,       \* DEFAULT_LANGUAGE
    MaxTokens,     \* sign-ins in a behaviour (bound)
    MaxTrail,      \* pages the Back button remembers (bound)
    None

VARIABLES
    account,   \* users.role and users.preferred_language
    claims,    \* the tokens issued: user and role at that time
    expired,   \* tokens older than a day
    store,     \* localStorage
    tab,       \* the state of the tab
    saving     \* PATCH /auth/language under way

vars == <<account, claims, expired, store, tab, saving>>

Roles == {"admin", "manager", "operator"}
OperatorPages == {"/clients", "/locations", "/subscriptions", "/calculations"}
Pages == OperatorPages \cup {"/clients/detail", "/statistics", "/services", "/periods", "/users"}
Paths == Pages \cup {"/", "/login"}

\* The user object of the login response.
SessionUsers == [user : Users, role : Roles]

ASSUME WebSessionAssumption ==
    /\ Default \in Languages
    /\ InitAccount \in [Users -> [role : Roles, language : Languages]]
    /\ MaxTokens \in Nat /\ MaxTrail \in Nat
    /\ None \notin Nat /\ None \notin Paths /\ None \notin SessionUsers

-----------------------------------------------------------------------------
(* Three tables that have to agree: what the guard admits, what the menu   *)
(* offers, and what the server allows.                                     *)

managerPages == {"/statistics", "/services", "/periods"}
adminPages == {"/users"}

RoleOf(user) == IF user = None THEN "operator" ELSE user.role

\* Mutant: everybody but the administrators starts with the statistics.
DefaultStatistics(user) == IF RoleOf(user) = "admin" THEN "/users" ELSE "/statistics"
DefaultPath(user) ==
    CASE RoleOf(user) = "admin" -> "/users"
      [] RoleOf(user) = "manager" -> "/statistics"
      [] RoleOf(user) = "operator" -> "/clients"

\* Where the guard sends a tab that is on path; None if it may stay.
Guarded(path, s) ==
    CASE path = "/login" -> None
      [] path # "/login" /\ s.token = None -> "/login"
      [] OTHER ->
            IF \/ path \in adminPages /\ RoleOf(s.user) # "admin"
               \/ path \in managerPages /\ RoleOf(s.user) = "operator"
               \/ path = "/"
            THEN DefaultPath(s.user) ELSE None

\* Mutant: the services are offered to everybody.
MenuForAll(role) ==
    OperatorPages \cup {"/services"}
    \cup (IF role \in {"admin", "manager"} THEN {"/statistics", "/periods"} ELSE {})
    \cup (IF role = "admin" THEN {"/users"} ELSE {})
Menu(role) ==
    OperatorPages
    \cup (IF role \in {"admin", "manager"} THEN {"/statistics", "/services", "/periods"} ELSE {})
    \cup (IF role = "admin" THEN {"/users"} ELSE {})

\* The calls a page makes, when it opens or from its handlers.
Calls(path) ==
    LET reads(S) == {"read"} \X S
        all(S) == {"read", "write"} \X S
    IN  CASE path = "/clients" -> all({"clients"})
          [] path = "/clients/detail" ->
                reads({"clients", "services", "calculations"}) \cup all({"locations", "subscriptions"})
          [] path = "/locations" -> reads({"clients"}) \cup all({"locations"})
          [] path = "/subscriptions" ->
                reads({"clients", "services", "locations"}) \cup all({"subscriptions"})
          [] path = "/calculations" ->
                reads({"periods", "clients", "locations", "subscriptions", "services"})
                \cup all({"calculations"})
          [] path = "/statistics" -> reads({"statistics"})
          [] path = "/services" -> all({"services", "tariffs"})
          [] path = "/periods" -> all({"periods"})
          [] path = "/users" -> all({"users"})

\* The groups of the router.
\* Mutant: the periods may only be read by those who manage them.
AllowedPeriods(call) ==
    CASE call[2] = "users" -> {"admin"}
      [] call[2] \in {"statistics", "periods"} \/ call \in {"write"} \X {"services", "tariffs"} ->
            {"admin", "manager"}
      [] OTHER -> Roles
Allowed(call) ==
    CASE call[2] = "users" -> {"admin"}
      [] call[2] = "statistics" \/ call \in {"write"} \X {"services", "tariffs", "periods"} ->
            {"admin", "manager"}
      [] OTHER -> Roles

\* middleware.Auth takes the role from the token, whatever it has become since.
Authorised(call, token) ==
    token # None /\ token \notin expired /\ claims[token].role \in Allowed(call)

-----------------------------------------------------------------------------
(* A tab.  hydrated: the provider of the language has mounted; ready: the  *)
(* guard has let something be shown since the tab was loaded; fresh: the   *)
(* effects for the present path have not run; admitted: the token they     *)
(* saw; shown: the user the header and the menu have read; lang, form: the *)
(* language of the provider and of the login page.                         *)

Loaded(path) ==
    [path |-> path, trail |-> <<>>, hydrated |-> FALSE, ready |-> FALSE, fresh |-> TRUE,
     goTo |-> None, how |-> "replace", admitted |-> None, shown |-> None, lang |-> Default,
     form |-> Default, login |-> {}]

Settled == tab.hydrated /\ tab.ready /\ ~tab.fresh /\ tab.goTo = None
OnLogin == tab.path = "/login"

Going(t, path, how) == [t EXCEPT !.goTo = path, !.how = how]
Kept(trail) == SubSeq(trail, 1 + (IF Len(trail) > MaxTrail THEN Len(trail) - MaxTrail ELSE 0), Len(trail))

\* saveAuth and clearAuth.
SaveAuth(s, token, user) == [s EXCEPT !.token = token, !.user = user]
\* Mutant: the user is left behind.
ClearToken(s) == [s EXCEPT !.token = None]
ClearAuth(s) == [s EXCEPT !.token = None, !.user = None]

\* The provider mounts, which mounts the guard below it anew.  The guard's effect has run
\* once by then, and asks for the same redirect when it runs again.
Hydrate ==
    /\ ~tab.hydrated
    /\ tab' = [tab EXCEPT !.hydrated = TRUE, !.lang = store.lang]
    /\ UNCHANGED <<account, claims, expired, store, saving>>

\* The header and the menu read the user whenever the path has changed.
\* Mutant: only when they are mounted.
UserOnce == IF tab.shown = None THEN store.user ELSE tab.shown
UserNow == store.user

\* The effects for a new path.  A guard that is ready shows the page before it has looked.
Effects ==
    /\ tab.hydrated /\ tab.fresh
    /\ LET to == Guarded(tab.path, store)
           stays == to = None
           shows == tab.ready \/ stays
       IN  tab' = [(IF stays THEN tab ELSE Going(tab, to, "replace"))
                      EXCEPT !.fresh = FALSE,
                             !.ready = shows,
                             !.admitted = IF stays THEN store.token ELSE None,
                             !.shown = IF shows THEN UserNow ELSE @,
                             !.form = IF OnLogin THEN store.lang ELSE @]
    /\ UNCHANGED <<account, claims, expired, store, saving>>

\* The router goes where it was told.
Go ==
    /\ tab.hydrated /\ tab.goTo # None
    /\ tab' = [tab EXCEPT !.path = tab.goTo, !.fresh = @ \/ tab.goTo # tab.path, !.goTo = None,
                          !.trail = IF tab.how = "push" /\ tab.goTo # tab.path
                                    THEN Kept(Append(@, tab.path)) ELSE @,
                          !.how = "replace"]
    /\ UNCHANGED <<account, claims, expired, store, saving>>

-----------------------------------------------------------------------------
(* The user. *)

\* An address is typed in, or the page is reloaded.
Visit ==
    /\ Settled
    /\ \E path \in Paths : tab' = Loaded(path)
    /\ UNCHANGED <<account, claims, expired, store, saving>>

\* Back stays in the document, and so does what React remembers.
Back ==
    /\ Settled /\ tab.trail # <<>>
    /\ tab' = [tab EXCEPT !.path = tab.trail[Len(tab.trail)],
                          !.trail = SubSeq(@, 1, Len(@) - 1), !.fresh = TRUE]
    /\ UNCHANGED <<account, claims, expired, store, saving>>

FollowMenu ==
    /\ Settled /\ ~OnLogin
    /\ \E path \in Menu(RoleOf(tab.shown)) : tab' = Going(tab, path, "push")
    /\ UNCHANGED <<account, claims, expired, store, saving>>

ChooseOnLoginPage ==
    /\ Settled /\ OnLogin
    /\ \E l \in Languages :
        /\ tab' = [tab EXCEPT !.form = l]
        /\ store' = [store EXCEPT !.lang = l]
    /\ UNCHANGED <<account, claims, expired, saving>>

\* submit, until the answer comes; Enter submits again while the button is disabled.
SignIn ==
    /\ Settled /\ OnLogin
    /\ \E u \in Users : tab' = [tab EXCEPT !.login = @ \cup {u}]
    /\ UNCHANGED <<account, claims, expired, store, saving>>

\* The answer has a token and the user, without the preferred language: the language of the
\* login page stays.
SignedIn ==
    /\ tab.hydrated /\ Len(claims) < MaxTokens
    /\ \E u \in tab.login :
        LET user == [user |-> u, role |-> account[u].role]
        IN  /\ claims' = Append(claims, user)
            /\ store' = [SaveAuth(store, Len(claims) + 1, user) EXCEPT !.lang = tab.form]
            /\ tab' = [Going(tab, DefaultPath(user), "push") EXCEPT !.login = @ \ {u}]
    /\ UNCHANGED <<account, expired, saving>>
SignInFails ==
    /\ \E u \in tab.login : tab' = [tab EXCEPT !.login = @ \ {u}]
    /\ UNCHANGED <<account, claims, expired, store, saving>>

HeaderShown == Settled /\ ~OnLogin /\ tab.shown # None

ChooseInHeader ==
    /\ HeaderShown
    /\ \E l \in Languages :
        /\ tab' = [tab EXCEPT !.lang = l]
        /\ store' = [store EXCEPT !.lang = l]
        /\ saving' = IF store.token # None /\ store.token \notin expired
                     THEN saving \cup {[user |-> claims[store.token].user, language |-> l]} ELSE saving
    /\ UNCHANGED <<account, claims, expired>>

Logout ==
    /\ HeaderShown
    /\ store' = ClearAuth(store)
    /\ tab' = Going(tab, "/login", "push")
    /\ UNCHANGED <<account, claims, expired, saving>>

-----------------------------------------------------------------------------
(* The rest of the world. *)

\* PATCH /auth/language is executed, or lost.
SaveLanguage ==
    /\ \E s \in saving :
        /\ saving' = saving \ {s}
        /\ account' \in {account, [account EXCEPT ![s.user].language = s.language]}
    /\ UNCHANGED <<claims, expired, store, tab>>

\* An administrator changes a role; the page sends no language, and the default is written.
ChangeRole ==
    /\ \E u \in Users, r \in Roles :
        account' = [account EXCEPT ![u] = [role |-> r, language |-> Default]]
    /\ UNCHANGED <<claims, expired, store, tab, saving>>

Expire ==
    /\ \E token \in DOMAIN claims \ expired : expired' = expired \cup {token}
    /\ UNCHANGED <<account, claims, store, tab, saving>>

\* Another tab of the browser signs somebody in, or out.
OtherTab ==
    /\ \/ /\ Len(claims) < MaxTokens
          /\ \E u \in Users, l \in Languages :
                LET user == [user |-> u, role |-> account[u].role]
                IN  /\ claims' = Append(claims, user)
                    /\ store' = [SaveAuth(store, Len(claims) + 1, user) EXCEPT !.lang = l]
       \/ /\ store.token # None
          /\ store' = ClearAuth(store)
          /\ UNCHANGED claims
    /\ UNCHANGED <<account, expired, tab, saving>>

Init ==
    /\ account = InitAccount
    /\ claims = <<>>
    /\ expired = {}
    /\ store = [token |-> None, user |-> None, lang |-> Default]
    /\ tab = Loaded("/")
    /\ saving = {}

Alone ==
    \/ Hydrate \/ Effects \/ Go
    \/ Visit \/ Back \/ FollowMenu \/ ChooseOnLoginPage \/ SignIn \/ SignedIn \/ SignInFails
    \/ ChooseInHeader \/ Logout
    \/ SaveLanguage \/ ChangeRole \/ Expire
Next == Alone \/ OtherTab

Spec == Init /\ [][Next]_vars

\* A browser with one tab.
OneTabSpec == Init /\ [][Alone]_vars

\* The browser renders, runs effects and carries out redirects without being asked.
FairSpec == Spec /\ WF_vars(Hydrate \/ Effects \/ Go)

-----------------------------------------------------------------------------
(* Properties. *)

\* Nobody has signed in or out since the page was admitted.
SameSession == tab.admitted # None /\ tab.admitted = store.token

\* Every state has the shape the declarations give it; in particular the token and the user
\* in the localStorage are always there together, and the user is the one the token names.
TypeOK ==
    /\ account \in [Users -> [role : Roles, language : Languages]]
    /\ claims \in Seq(SessionUsers) /\ Len(claims) <= MaxTokens
    /\ expired \subseteq DOMAIN claims
    /\ store.lang \in Languages
    /\ IF store.token = None THEN store.user = None
       ELSE store.token \in DOMAIN claims /\ store.user = claims[store.token]
    /\ tab.path \in Paths /\ tab.goTo \in Paths \cup {None}
    /\ Len(tab.trail) <= MaxTrail /\ \A n \in DOMAIN tab.trail : tab.trail[n] \in Paths
    /\ tab.shown \in SessionUsers \cup {None}
    /\ tab.lang \in Languages /\ tab.form \in Languages
    /\ tab.login \subseteq Users
    /\ saving \subseteq [user : Users, language : Languages]

\* While the session is the one a page was admitted with, every call the page makes is one the
\* server allows: the pages of the guard, the calls of the pages and the groups of the router
\* agree for every role, whichever way the page was reached and whoever was signed in before.
AdmittedPagesServed ==
    Settled /\ ~OnLogin /\ SameSession /\ store.token \notin expired =>
        \A call \in Calls(tab.path) : Authorised(call, store.token)

\* While the session is the one a page was admitted with, the header names the user in whose
\* name the calls are made, also after somebody else has signed in in the same document.
ShownUserCalls ==
    Settled /\ ~OnLogin /\ SameSession => tab.shown = claims[store.token]

\* No entry of the menu is turned away by the guard, unless another tab has changed the session.
MenuIsAdmitted ==
    Settled /\ ~OnLogin /\ SameSession =>
        \A path \in Menu(RoleOf(tab.shown)) : Guarded(path, store) = None

\* Redirects come to an end on a page that is shown: the guard never sends a tab round in
\* circles, nor to a page it does not show, and every document that is loaded gets ready.
RedirectsSettle == ~Settled ~> Settled

\* README.md: "Users can select their preferred language, which is stored in their profile and
\* applied automatically after login."
ProfileLanguageApplied ==
    Settled /\ ~OnLogin /\ SameSession /\ saving = {} =>
        tab.lang = account[claims[store.token].user].language
=============================================================================
