-------------------------- MODULE WebSessionProofs ---------------------------
(***************************************************************************)
(* The guard, the menu, the header and the router agree about the user who *)
(* is signed in: for any users and languages and any number of sign-ins,   *)
(* with other tabs signing in and out at any moment.                       *)
(*                                                                         *)
(* The invariant that carries it, Admission, remembers what the guard saw: *)
(* the token a page was admitted with is one that was issued, its claims   *)
(* are the user the header shows, and their role may be on the page.       *)
(***************************************************************************)
EXTENDS WebSession, SequenceTheorems, TLAPS

Accounts == [Users -> [role : Roles, language : Languages]]
Stores == [token : Nat \cup {None}, user : SessionUsers \cup {None}, lang : Languages]
Tabs == [path : Paths, trail : Seq(Paths), hydrated : BOOLEAN, ready : BOOLEAN, fresh : BOOLEAN,
         goTo : Paths \cup {None}, how : {"push", "replace"}, admitted : Nat \cup {None},
         shown : SessionUsers \cup {None}, lang : Languages, form : Languages,
         login : SUBSET Users]

Shape ==
    /\ account \in Accounts
    /\ claims \in Seq(SessionUsers) /\ Len(claims) <= MaxTokens
    /\ expired \subseteq DOMAIN claims
    /\ store \in Stores
    /\ tab \in Tabs /\ Len(tab.trail) <= MaxTrail
    /\ saving \subseteq [user : Users, language : Languages]

\* The user in the localStorage is the one its token names.
StoreMatches ==
    IF store.token = None THEN store.user = None
    ELSE store.token \in DOMAIN claims /\ store.user = claims[store.token]

\* The pages a role may be on.
RoleAdmits(path, role) ==
    /\ path # "/"
    /\ path \in adminPages => role = "admin"
    /\ path \in managerPages => role # "operator"

Admission ==
    tab.admitted # None =>
        /\ tab.admitted \in DOMAIN claims
        /\ ~tab.fresh /\ ~OnLogin =>
               /\ tab.shown = claims[tab.admitted]
               /\ RoleAdmits(tab.path, claims[tab.admitted].role)

SessionInv == Shape /\ StoreMatches /\ Admission

-----------------------------------------------------------------------------
(* The guard. *)

\* Everybody is sent to a page.
LEMMA DefaultPathIsPath ==
    ASSUME NEW user \in SessionUsers \cup {None}
    PROVE  DefaultPath(user) \in Paths
<1>1. RoleOf(user) \in Roles BY DEF RoleOf, SessionUsers, Roles
<1> QED BY <1>1 DEF DefaultPath, Roles, Paths, Pages, OperatorPages

\* The guard sends a tab to a page or leaves it where it is.
LEMMA GuardedIsPath ==
    ASSUME NEW s \in Stores, NEW path \in Paths
    PROVE  Guarded(path, s) \in Paths \cup {None}
<1>1. DefaultPath(s.user) \in Paths BY DefaultPathIsPath DEF Stores
<1>2. "/login" \in Paths BY DEF Paths
<1> QED BY <1>1, <1>2 DEF Guarded

\* A page that is not the login page is admitted only with a token, and by the user's role.
LEMMA GuardAdmits ==
    ASSUME NEW s \in Stores, NEW path \in Paths \ {"/login"}, Guarded(path, s) = None,
           s.user \in SessionUsers
    PROVE  s.token # None /\ RoleAdmits(path, s.user.role)
<1>1. DefaultPath(s.user) # None BY DefaultPathIsPath, WebSessionAssumption
<1>2. "/login" # None BY WebSessionAssumption DEF Paths
<1>3. RoleOf(s.user) = s.user.role BY WebSessionAssumption DEF RoleOf
<1> QED BY <1>1, <1>2, <1>3 DEF Guarded, RoleAdmits

\* Without a token it is not admitted at all.
LEMMA NoTokenNoPage ==
    ASSUME NEW s \in Stores, NEW path \in Paths \ {"/login"}, s.token = None
    PROVE  Guarded(path, s) # None
<1>1. "/login" # None BY WebSessionAssumption DEF Paths
<1> QED BY <1>1 DEF Guarded

\* And with one it is, if the role may be on it.
LEMMA RoleIsAdmitted ==
    ASSUME NEW s \in Stores, NEW path, s.token # None, s.user \in SessionUsers,
           RoleAdmits(path, s.user.role)
    PROVE  Guarded(path, s) = None
<1>1. RoleOf(s.user) = s.user.role BY WebSessionAssumption DEF RoleOf
<1> QED BY <1>1 DEF Guarded, RoleAdmits

-----------------------------------------------------------------------------
(* Pieces of steps. *)

\* The trail keeps its latest pages and its bound.
LEMMA KeptIsBounded ==
    ASSUME NEW trail \in Seq(Paths)
    PROVE  Kept(trail) \in Seq(Paths) /\ Len(Kept(trail)) <= MaxTrail
<1> DEFINE first == 1 + (IF Len(trail) > MaxTrail THEN Len(trail) - MaxTrail ELSE 0)
<1>1. Len(trail) \in Nat /\ MaxTrail \in Nat BY WebSessionAssumption
<1>2. first \in 1..(Len(trail) + 1) BY <1>1
<1>3. \A i \in first..Len(trail) : trail[i] \in Paths
  BY <1>1, <1>2
<1>4. /\ SubSeq(trail, first, Len(trail)) \in Seq(Paths)
      /\ Len(SubSeq(trail, first, Len(trail))) =
             IF first <= Len(trail) THEN Len(trail) - first + 1 ELSE 0
  <2> HIDE DEF first
  <2>1. first \in Int /\ Len(trail) \in Int BY <1>1, <1>2
  <2> QED BY <2>1, <1>3, SubSeqProperties
<1> QED BY <1>1, <1>4 DEF Kept

\* A token more leaves the tokens there are, and the new one names its user.
LEMMA TokenIssued ==
    ASSUME NEW old \in Seq(SessionUsers), NEW user \in SessionUsers
    PROVE  /\ Append(old, user) \in Seq(SessionUsers)
           /\ Len(Append(old, user)) = Len(old) + 1
           /\ DOMAIN old \subseteq DOMAIN Append(old, user)
           /\ \A n \in DOMAIN old : Append(old, user)[n] = old[n]
           /\ Len(old) + 1 \in DOMAIN Append(old, user)
           /\ Append(old, user)[Len(old) + 1] = user
           /\ Len(old) + 1 \in Nat
BY AppendProperties

\* A loaded document has been admitted nowhere yet.
LEMMA LoadedIsTab ==
    ASSUME NEW path \in Paths
    PROVE  Loaded(path) \in Tabs /\ Loaded(path).admitted = None /\ Len(Loaded(path).trail) = 0
BY WebSessionAssumption DEF Loaded, Tabs

\* Steps that neither issue a token nor touch the user and the path the tab shows.
LEMMA AdmissionUnmoved ==
    ASSUME Admission, claims' = claims, tab'.admitted = tab.admitted,
           tab'.path = tab.path, tab'.fresh = tab.fresh, tab'.shown = tab.shown
    PROVE  Admission'
BY DEF Admission, OnLogin

-----------------------------------------------------------------------------
(* The steps of the tab. *)

\* Mounting reads the language only.
LEMMA HydrateKeeps == SessionInv /\ Hydrate => SessionInv'
<1> SUFFICES ASSUME SessionInv, Hydrate PROVE SessionInv' OBVIOUS
<1>1. tab' \in Tabs /\ tab'.trail = tab.trail
  BY DEF SessionInv, Shape, Hydrate, Tabs, Stores
<1>2. Shape' BY <1>1 DEF SessionInv, Shape, Hydrate
<1>3. StoreMatches' BY DEF SessionInv, StoreMatches, Hydrate
<1>4. Admission'
  BY AdmissionUnmoved DEF SessionInv, Shape, Hydrate, Tabs
<1> QED BY <1>2, <1>3, <1>4 DEF SessionInv

\* The guard looks at the token and at the user of the same session.
LEMMA EffectsKeep == SessionInv /\ Effects => SessionInv'
<1> SUFFICES ASSUME SessionInv, Effects PROVE SessionInv' OBVIOUS
<1> DEFINE to == Guarded(tab.path, store)
<1>1. tab \in Tabs /\ store \in Stores BY DEF SessionInv, Shape
<1>2. to \in Paths \cup {None} BY <1>1, GuardedIsPath DEF Tabs
<1>3. /\ tab'.path = tab.path /\ tab'.trail = tab.trail /\ tab'.fresh = FALSE
      /\ tab'.admitted = IF to = None THEN store.token ELSE None
      /\ to = None => tab'.shown = store.user
  BY <1>1 DEF Effects, Tabs, Going, UserNow
<1>4. tab' \in Tabs
  <2> HIDE DEF to
  <2>1. CASE to = None
    BY <1>1, <2>1 DEF Effects, Tabs, Stores, Going, UserNow, to
  <2>2. CASE to # None
    BY <1>1, <1>2, <2>2 DEF Effects, Tabs, Stores, Going, UserNow, to
  <2> QED BY <2>1, <2>2
<1>5. Shape' BY <1>3, <1>4 DEF SessionInv, Shape, Effects
<1>6. StoreMatches' BY DEF SessionInv, StoreMatches, Effects
<1>7. Admission'
  <2> SUFFICES ASSUME tab'.admitted # None
               PROVE  /\ tab'.admitted \in DOMAIN claims
                      /\ tab'.path # "/login" =>
                            /\ tab'.shown = claims[tab'.admitted]
                            /\ RoleAdmits(tab'.path, claims[tab'.admitted].role)
    BY DEF Admission, OnLogin, Effects
  <2>1. to = None /\ tab'.admitted = store.token BY <1>3
  <2>2. store.token \in DOMAIN claims /\ store.user = claims[store.token]
    BY <2>1 DEF SessionInv, StoreMatches
  <2>3. store.user \in SessionUsers BY <2>2 DEF SessionInv, Shape
  <2>4. ASSUME tab.path # "/login" PROVE RoleAdmits(tab.path, store.user.role)
    BY <1>1, <2>1, <2>3, <2>4, GuardAdmits DEF Tabs
  <2> QED BY <1>3, <2>1, <2>2, <2>4
<1> QED BY <1>5, <1>6, <1>7 DEF SessionInv

\* A redirect to another page makes the page fresh.
LEMMA GoKeeps == SessionInv /\ Go => SessionInv'
<1> SUFFICES ASSUME SessionInv, Go PROVE SessionInv' OBVIOUS
<1>1. tab \in Tabs /\ Len(tab.trail) <= MaxTrail BY DEF SessionInv, Shape
<1>2. Append(tab.trail, tab.path) \in Seq(Paths) BY <1>1, AppendProperties DEF Tabs
<1> DEFINE pushed == Kept(Append(tab.trail, tab.path))
<1>3. pushed \in Seq(Paths) /\ Len(pushed) <= MaxTrail BY <1>2, KeptIsBounded
<1> HIDE DEF pushed
<1>4. /\ tab'.path = tab.goTo /\ tab'.admitted = tab.admitted /\ tab'.shown = tab.shown
      /\ tab'.fresh = (tab.fresh \/ tab.goTo # tab.path)
      /\ tab'.trail \in {tab.trail, pushed}
  BY <1>1 DEF Go, Tabs, pushed
<1>5. tab' \in Tabs /\ Len(tab'.trail) <= MaxTrail
  BY <1>1, <1>3, <1>4 DEF Go, Tabs
<1>6. Shape' BY <1>5 DEF SessionInv, Shape, Go
<1>7. StoreMatches' BY DEF SessionInv, StoreMatches, Go
<1>8. Admission' BY <1>4 DEF SessionInv, Admission, OnLogin, Go
<1> QED BY <1>6, <1>7, <1>8 DEF SessionInv

-----------------------------------------------------------------------------
(* The steps of the user. *)

\* A document that is loaded starts without an admitted token.
LEMMA VisitKeeps == SessionInv /\ Visit => SessionInv'
<1> SUFFICES ASSUME SessionInv, Visit PROVE SessionInv' OBVIOUS
<1>1. PICK path \in Paths : tab' = Loaded(path) BY DEF Visit
<1>2. tab' \in Tabs /\ tab'.admitted = None /\ Len(tab'.trail) <= MaxTrail
  BY <1>1, LoadedIsTab, WebSessionAssumption
<1>3. Shape' BY <1>2 DEF SessionInv, Shape, Visit
<1>4. StoreMatches' BY DEF SessionInv, StoreMatches, Visit
<1>5. Admission' BY <1>2 DEF Admission
<1> QED BY <1>3, <1>4, <1>5 DEF SessionInv

\* Back makes the page fresh too.
LEMMA BackKeeps == SessionInv /\ Back => SessionInv'
<1> SUFFICES ASSUME SessionInv, Back PROVE SessionInv' OBVIOUS
<1>1. tab \in Tabs /\ tab.trail # <<>> /\ Len(tab.trail) <= MaxTrail /\ tab.trail \in Seq(Paths)
  BY DEF SessionInv, Shape, Back, Tabs
<1>2. Len(tab.trail) \in Nat \ {0} /\ tab.trail[Len(tab.trail)] \in Paths
  BY <1>1, EmptySeq, LenProperties, ElementOfSeq
<1> DEFINE rest == SubSeq(tab.trail, 1, Len(tab.trail) - 1)
<1>3. rest \in Seq(Paths) /\ Len(rest) = Len(tab.trail) - 1
  <2>1. \A i \in 1..(Len(tab.trail) - 1) : tab.trail[i] \in Paths BY <1>1, <1>2, ElementOfSeq
  <2>2. 1 \in Int /\ Len(tab.trail) - 1 \in Int BY <1>2
  <2> QED BY <1>2, <2>1, <2>2, SubSeqProperties
<1> HIDE DEF rest
<1>4. /\ tab'.admitted = tab.admitted /\ tab'.fresh = TRUE /\ tab'.trail = rest
      /\ tab' \in Tabs
  BY <1>1, <1>2, <1>3 DEF Back, Tabs, rest
<1>5. Len(tab'.trail) <= MaxTrail BY <1>1, <1>2, <1>3, <1>4, WebSessionAssumption
<1>6. Shape' BY <1>4, <1>5 DEF SessionInv, Shape, Back
<1>7. StoreMatches' BY DEF SessionInv, StoreMatches, Back
<1>8. Admission' BY <1>4 DEF SessionInv, Admission, Back
<1> QED BY <1>6, <1>7, <1>8 DEF SessionInv

\* A link asks for a page and moves nothing yet.
LEMMA FollowMenuKeeps == SessionInv /\ FollowMenu => SessionInv'
<1> SUFFICES ASSUME SessionInv, FollowMenu PROVE SessionInv' OBVIOUS
<1>1. PICK path \in Menu(RoleOf(tab.shown)) : tab' = Going(tab, path, "push") BY DEF FollowMenu
<1>2. path \in Paths BY <1>1 DEF Menu, Paths, Pages, OperatorPages
<1>3. /\ tab' \in Tabs /\ tab'.trail = tab.trail /\ tab'.admitted = tab.admitted
      /\ tab'.path = tab.path /\ tab'.fresh = tab.fresh /\ tab'.shown = tab.shown
  BY <1>1, <1>2 DEF SessionInv, Shape, Going, Tabs
<1>4. Shape' BY <1>3 DEF SessionInv, Shape, FollowMenu
<1>5. StoreMatches' BY DEF SessionInv, StoreMatches, FollowMenu
<1>6. Admission' BY <1>3, AdmissionUnmoved DEF SessionInv, FollowMenu
<1> QED BY <1>4, <1>5, <1>6 DEF SessionInv

\* A language leaves token and user alone.
LEMMA ChooseOnLoginPageKeeps == SessionInv /\ ChooseOnLoginPage => SessionInv'
<1> SUFFICES ASSUME SessionInv, ChooseOnLoginPage PROVE SessionInv' OBVIOUS
<1>1. /\ tab' \in Tabs /\ tab'.trail = tab.trail /\ tab'.admitted = tab.admitted
      /\ tab'.path = tab.path /\ tab'.fresh = tab.fresh /\ tab'.shown = tab.shown
      /\ store' \in Stores /\ store'.token = store.token /\ store'.user = store.user
  BY DEF SessionInv, Shape, ChooseOnLoginPage, Tabs, Stores
<1>2. Shape' BY <1>1 DEF SessionInv, Shape, ChooseOnLoginPage
<1>3. StoreMatches' BY <1>1 DEF SessionInv, StoreMatches, ChooseOnLoginPage
<1>4. Admission' BY <1>1, AdmissionUnmoved DEF SessionInv, ChooseOnLoginPage
<1> QED BY <1>2, <1>3, <1>4 DEF SessionInv

\* Submitting the form, or its failure, is remembered by the form only.
LEMMA SignInKeeps == SessionInv /\ (SignIn \/ SignInFails) => SessionInv'
<1> SUFFICES ASSUME SessionInv, SignIn \/ SignInFails PROVE SessionInv' OBVIOUS
<1>1. /\ tab' \in Tabs /\ tab'.trail = tab.trail /\ tab'.admitted = tab.admitted
      /\ tab'.path = tab.path /\ tab'.fresh = tab.fresh /\ tab'.shown = tab.shown
  <2>1. PICK u \in Users : tab' \in {[tab EXCEPT !.login = @ \cup {u}], [tab EXCEPT !.login = @ \ {u}]}
    BY DEF SignIn, SignInFails, SessionInv, Shape, Tabs
  <2> QED BY <2>1 DEF SessionInv, Shape, Tabs
<1>2. UNCHANGED <<account, claims, expired, store, saving>> BY DEF SignIn, SignInFails
<1>3. Shape' BY <1>1, <1>2 DEF SessionInv, Shape
<1>4. StoreMatches' BY <1>2 DEF SessionInv, StoreMatches
<1>5. Admission' BY <1>1, <1>2, AdmissionUnmoved DEF SessionInv
<1> QED BY <1>3, <1>4, <1>5 DEF SessionInv

\* The tokens there were still name whom they named.
LEMMA AdmissionAppended ==
    ASSUME SessionInv, NEW user \in SessionUsers, claims' = Append(claims, user),
           tab'.admitted = tab.admitted, tab'.path = tab.path, tab'.fresh = tab.fresh,
           tab'.shown = tab.shown
    PROVE  Admission'
<1>1. claims \in Seq(SessionUsers) BY DEF SessionInv, Shape
<1>2. /\ DOMAIN claims \subseteq DOMAIN claims'
      /\ \A n \in DOMAIN claims : claims'[n] = claims[n]
  BY <1>1, TokenIssued
<1> QED BY <1>2 DEF SessionInv, Admission, OnLogin

\* Somebody signs in, in this tab or in another.
LEMMA IssueKeeps ==
    ASSUME SessionInv, Len(claims) < MaxTokens, NEW u \in Users, NEW l \in Languages,
           claims' = Append(claims, [user |-> u, role |-> account[u].role]),
           store' = [SaveAuth(store, Len(claims) + 1, [user |-> u, role |-> account[u].role])
                        EXCEPT !.lang = l],
           UNCHANGED <<account, expired, saving>>,
           tab' \in Tabs, tab'.trail = tab.trail, tab'.admitted = tab.admitted,
           tab'.path = tab.path, tab'.fresh = tab.fresh, tab'.shown = tab.shown
    PROVE  SessionInv'
<1> DEFINE user == [user |-> u, role |-> account[u].role]
<1>1. user \in SessionUsers BY DEF SessionInv, Shape, Accounts, SessionUsers
<1> HIDE DEF user
<1>2. claims \in Seq(SessionUsers) BY DEF SessionInv, Shape
<1>3. /\ claims' \in Seq(SessionUsers) /\ Len(claims') = Len(claims) + 1
      /\ DOMAIN claims \subseteq DOMAIN claims'
      /\ Len(claims) + 1 \in DOMAIN claims'
      /\ claims'[Len(claims) + 1] = user
      /\ Len(claims) + 1 \in Nat
  BY <1>1, <1>2, TokenIssued DEF user
<1>4. store' \in Stores /\ store'.token = Len(claims) + 1 /\ store'.user = user
  BY <1>1, <1>3 DEF SessionInv, Shape, Stores, SaveAuth, user
<1>5. Len(claims') <= MaxTokens
  BY <1>2, <1>3, WebSessionAssumption, LenProperties
<1>6. Shape' BY <1>3, <1>4, <1>5 DEF SessionInv, Shape
<1>7. StoreMatches' BY <1>3, <1>4, WebSessionAssumption DEF StoreMatches
<1>8. Admission' BY <1>1, AdmissionAppended DEF user
<1> QED BY <1>6, <1>7, <1>8 DEF SessionInv

\* The answer to a sign-in replaces token and user together.
LEMMA SignedInKeeps == SessionInv /\ SignedIn => SessionInv'
<1> SUFFICES ASSUME SessionInv, SignedIn PROVE SessionInv' OBVIOUS
<1>1. PICK u \in tab.login :
        LET user == [user |-> u, role |-> account[u].role]
        IN  /\ claims' = Append(claims, user)
            /\ store' = [SaveAuth(store, Len(claims) + 1, user) EXCEPT !.lang = tab.form]
            /\ tab' = [Going(tab, DefaultPath(user), "push") EXCEPT !.login = @ \ {u}]
  BY DEF SignedIn
<1> DEFINE user == [user |-> u, role |-> account[u].role]
<1>2. u \in Users /\ tab.form \in Languages /\ tab \in Tabs BY DEF SessionInv, Shape, Tabs
<1>3. user \in SessionUsers BY <1>2 DEF SessionInv, Shape, Accounts, SessionUsers
<1>4. DefaultPath(user) \in Paths BY <1>3, DefaultPathIsPath
<1>5. /\ tab' \in Tabs /\ tab'.trail = tab.trail /\ tab'.admitted = tab.admitted
      /\ tab'.path = tab.path /\ tab'.fresh = tab.fresh /\ tab'.shown = tab.shown
  <2> HIDE DEF user
  <2>1. tab' = [Going(tab, DefaultPath(user), "push") EXCEPT !.login = @ \ {u}] BY <1>1 DEF user
  <2> QED BY <1>2, <1>4, <2>1 DEF Going, Tabs
<1>6. Len(claims) < MaxTokens /\ UNCHANGED <<account, expired, saving>> BY DEF SignedIn
<1> QED BY <1>1, <1>2, <1>5, <1>6, IssueKeeps

\* The language chosen in the header is saved in the name of the token's user.
LEMMA ChooseInHeaderKeeps == SessionInv /\ ChooseInHeader => SessionInv'
<1> SUFFICES ASSUME SessionInv, ChooseInHeader PROVE SessionInv' OBVIOUS
<1>1. PICK l \in Languages :
        /\ tab' = [tab EXCEPT !.lang = l]
        /\ store' = [store EXCEPT !.lang = l]
        /\ saving' = IF store.token # None /\ store.token \notin expired
                     THEN saving \cup {[user |-> claims[store.token].user, language |-> l]} ELSE saving
  BY DEF ChooseInHeader
<1>2. /\ tab' \in Tabs /\ tab'.trail = tab.trail /\ tab'.admitted = tab.admitted
      /\ tab'.path = tab.path /\ tab'.fresh = tab.fresh /\ tab'.shown = tab.shown
      /\ store' \in Stores /\ store'.token = store.token /\ store'.user = store.user
  BY <1>1 DEF SessionInv, Shape, Tabs, Stores
<1>3. saving' \subseteq [user : Users, language : Languages]
  <2>1. store.token # None => claims[store.token] \in SessionUsers
    BY DEF SessionInv, StoreMatches, Shape
  <2>2. store.token # None => claims[store.token].user \in Users BY <2>1 DEF SessionUsers
  <2> QED BY <1>1, <2>2 DEF SessionInv, Shape
<1>4. Shape' BY <1>2, <1>3 DEF SessionInv, Shape, ChooseInHeader
<1>5. StoreMatches' BY <1>2 DEF SessionInv, StoreMatches, ChooseInHeader
<1>6. Admission' BY <1>2, AdmissionUnmoved DEF SessionInv, ChooseInHeader
<1> QED BY <1>4, <1>5, <1>6 DEF SessionInv

\* Signing out empties the localStorage, in this tab or in another.
LEMMA ClearKeeps ==
    ASSUME SessionInv, store' = ClearAuth(store), UNCHANGED <<account, claims, expired, saving>>,
           tab' \in Tabs, tab'.trail = tab.trail, tab'.admitted = tab.admitted,
           tab'.path = tab.path, tab'.fresh = tab.fresh, tab'.shown = tab.shown
    PROVE  SessionInv'
<1>1. store' \in Stores /\ store'.token = None /\ store'.user = None
  BY DEF SessionInv, Shape, ClearAuth, Stores
<1>2. Shape' BY <1>1 DEF SessionInv, Shape
<1>3. StoreMatches' BY <1>1 DEF StoreMatches
<1>4. Admission' BY AdmissionUnmoved DEF SessionInv
<1> QED BY <1>2, <1>3, <1>4 DEF SessionInv

\* Signing out removes token and user together.
LEMMA LogoutKeeps == SessionInv /\ Logout => SessionInv'
<1> SUFFICES ASSUME SessionInv, Logout PROVE SessionInv' OBVIOUS
<1>1. /\ tab' \in Tabs /\ tab'.trail = tab.trail /\ tab'.admitted = tab.admitted
      /\ tab'.path = tab.path /\ tab'.fresh = tab.fresh /\ tab'.shown = tab.shown
  BY DEF SessionInv, Shape, Logout, Going, Tabs, Paths
<1> QED BY <1>1, ClearKeeps DEF Logout

-----------------------------------------------------------------------------
(* The rest of the world. *)

\* Another tab changes the localStorage as this one would.
LEMMA OtherTabKeeps == SessionInv /\ OtherTab => SessionInv'
<1> SUFFICES ASSUME SessionInv, OtherTab PROVE SessionInv' OBVIOUS
<1>1. UNCHANGED <<account, expired, tab, saving>> BY DEF OtherTab
<1>2. tab' \in Tabs BY <1>1 DEF SessionInv, Shape
<1>3. CASE store' = ClearAuth(store) /\ UNCHANGED claims BY <1>1, <1>2, <1>3, ClearKeeps
<1>4. ASSUME Len(claims) < MaxTokens, NEW u \in Users, NEW l \in Languages,
             claims' = Append(claims, [user |-> u, role |-> account[u].role]),
             store' = [SaveAuth(store, Len(claims) + 1, [user |-> u, role |-> account[u].role])
                          EXCEPT !.lang = l]
      PROVE  SessionInv'
  BY <1>1, <1>2, <1>4, IssueKeeps
<1> QED BY <1>3, <1>4 DEF OtherTab

\* The server's steps touch neither the tokens nor the tab.
LEMMA WorldKeeps == SessionInv /\ (SaveLanguage \/ ChangeRole \/ Expire) => SessionInv'
<1> SUFFICES ASSUME SessionInv, SaveLanguage \/ ChangeRole \/ Expire PROVE SessionInv' OBVIOUS
<1>1. UNCHANGED <<claims, store, tab>> BY DEF SaveLanguage, ChangeRole, Expire
<1>2. account' \in Accounts
  <2>1. CASE SaveLanguage
    <3>1. PICK s \in saving : account' \in {account, [account EXCEPT ![s.user].language = s.language]}
      BY <2>1 DEF SaveLanguage
    <3>2. s.user \in Users /\ s.language \in Languages BY DEF SessionInv, Shape
    <3> QED BY <3>1, <3>2 DEF SessionInv, Shape, Accounts
  <2>2. CASE ChangeRole
    <3>1. PICK u \in Users, r \in Roles :
               account' = [account EXCEPT ![u] = [role |-> r, language |-> Default]]
      BY <2>2 DEF ChangeRole
    <3> QED BY <3>1, WebSessionAssumption DEF SessionInv, Shape, Accounts
  <2>3. CASE Expire BY <2>3 DEF Expire, SessionInv, Shape
  <2> QED BY <2>1, <2>2, <2>3
<1>3. /\ expired' \subseteq DOMAIN claims
      /\ saving' \subseteq [user : Users, language : Languages]
  BY DEF SaveLanguage, ChangeRole, Expire, SessionInv, Shape
<1>4. Shape' BY <1>1, <1>2, <1>3 DEF SessionInv, Shape
<1>5. StoreMatches' BY <1>1 DEF SessionInv, StoreMatches
<1>6. Admission' BY <1>1, AdmissionUnmoved DEF SessionInv
<1> QED BY <1>4, <1>5, <1>6 DEF SessionInv

-----------------------------------------------------------------------------
(* What holds at every moment. *)

\* Every step keeps the invariant.
LEMMA SessionStep == SessionInv /\ [Next]_vars => SessionInv'
<1>1. CASE UNCHANGED vars
  BY <1>1 DEF vars, SessionInv, Shape, StoreMatches, Admission, OnLogin
<1> QED
  BY <1>1, HydrateKeeps, EffectsKeep, GoKeeps, VisitKeeps, BackKeeps, FollowMenuKeeps,
     ChooseOnLoginPageKeeps, SignInKeeps, SignedInKeeps, ChooseInHeaderKeeps, LogoutKeeps,
     WorldKeeps, OtherTabKeeps DEF Next, Alone

\* A browser without a session starts with it.
LEMMA SessionStart == Init => SessionInv
<1> SUFFICES ASSUME Init PROVE SessionInv OBVIOUS
<1>1. tab \in Tabs /\ tab.admitted = None /\ Len(tab.trail) <= MaxTrail
  <2>1. "/" \in Paths BY DEF Paths
  <2> QED BY <2>1, LoadedIsTab, WebSessionAssumption DEF Init
<1>2. store \in Stores /\ store.token = None /\ store.user = None
  BY WebSessionAssumption DEF Init, Stores
<1>3. claims \in Seq(SessionUsers) /\ Len(claims) <= MaxTokens
  BY WebSessionAssumption, EmptySeq DEF Init
<1>4. Shape
  BY <1>1, <1>2, <1>3, WebSessionAssumption DEF Init, Shape, Accounts
<1> QED BY <1>1, <1>2, <1>4 DEF SessionInv, StoreMatches, Admission

\* The invariant from which the session's safety follows is kept by every step.
THEOREM SessionInvariant == Spec => []SessionInv
BY SessionStart, SessionStep, PTL DEF Spec

\* Every state has its shape, and the localStorage never holds a token without the user it
\* names, or a user without a token.
THEOREM SessionTypeOK == Spec => []TypeOK
<1>1. SessionInv => TypeOK
  <2> SUFFICES ASSUME SessionInv PROVE TypeOK OBVIOUS
  <2>1. tab \in Tabs /\ store \in Stores BY DEF SessionInv, Shape
  <2>2. \A n \in DOMAIN tab.trail : tab.trail[n] \in Paths
    <3>1. tab.trail \in Seq(Paths) BY <2>1 DEF Tabs
    <3> QED BY <3>1, ElementOfSeq, LenProperties
  <2> QED BY <2>1, <2>2 DEF SessionInv, Shape, StoreMatches, TypeOK, Accounts, Tabs, Stores
<1> QED BY <1>1, SessionInvariant, PTL

\* The header names the user in whose name the page's calls are made.
THEOREM HeaderNamesCaller == Spec => []ShownUserCalls
<1>1. SessionInv => ShownUserCalls
  BY DEF SessionInv, Admission, ShownUserCalls, Settled, SameSession
<1> QED BY <1>1, SessionInvariant, PTL

\* What the session of an admitted page looks like.
LEMMA AdmittedSession ==
    ASSUME SessionInv, Settled, ~OnLogin, SameSession
    PROVE  /\ store.token # None /\ store.token \in DOMAIN claims
           /\ store.user = claims[store.token] /\ tab.shown = store.user
           /\ store.user \in SessionUsers
           /\ RoleAdmits(tab.path, store.user.role)
           /\ tab.path \in Pages
<1>1. store.token # None /\ tab.admitted = store.token BY DEF SameSession
<1>2. store.token \in DOMAIN claims /\ store.user = claims[store.token]
  BY <1>1 DEF SessionInv, StoreMatches
<1>3. tab.shown = store.user /\ RoleAdmits(tab.path, store.user.role)
  BY <1>1, <1>2 DEF SessionInv, Admission, Settled
<1>4. store.user \in SessionUsers BY <1>2 DEF SessionInv, Shape
<1>5. tab.path \in Paths BY DEF SessionInv, Shape, Tabs
<1>6. tab.path \in Pages BY <1>3, <1>5 DEF Paths, RoleAdmits, OnLogin
<1> QED BY <1>1, <1>2, <1>3, <1>4, <1>6

\* No entry of the menu leads to a page that the guard would turn the user away from.
THEOREM MenuLeadsSomewhere == Spec => []MenuIsAdmitted
<1>1. SessionInv => MenuIsAdmitted
  <2> SUFFICES ASSUME SessionInv, Settled, ~OnLogin, SameSession,
                      NEW path \in Menu(RoleOf(tab.shown))
               PROVE  Guarded(path, store) = None
    BY DEF MenuIsAdmitted
  <2>1. RoleOf(tab.shown) = store.user.role
    BY AdmittedSession, WebSessionAssumption DEF RoleOf
  <2>2. RoleAdmits(path, store.user.role)
    BY <2>1 DEF Menu, RoleAdmits, OperatorPages, adminPages, managerPages
  <2>3. store \in Stores BY DEF SessionInv, Shape
  <2> QED BY <2>2, <2>3, AdmittedSession, RoleIsAdmitted
<1> QED BY <1>1, SessionInvariant, PTL

\* A role that may be on a page may make every call of the page.
LEMMA RoleIsServed ==
    ASSUME NEW path \in Pages, NEW role \in Roles, RoleAdmits(path, role), NEW call \in Calls(path)
    PROVE  role \in Allowed(call)
<1>1. CASE path \in {"/clients", "/clients/detail", "/locations", "/subscriptions", "/calculations"}
  BY <1>1 DEF Calls, Allowed
<1>2. CASE path \in managerPages
  <2>1. role \in {"admin", "manager"} BY <1>2 DEF RoleAdmits, Roles
  <2> QED BY <1>2, <2>1 DEF managerPages, Calls, Allowed
<1>3. CASE path = "/users"
  <2>1. role = "admin" BY <1>3 DEF RoleAdmits, adminPages
  <2> QED BY <1>3, <2>1 DEF Calls, Allowed
<1> QED BY <1>1, <1>2, <1>3 DEF Pages, OperatorPages, managerPages

\* The server serves every call that an admitted page makes, until the token expires.
THEOREM PagesAreServed == Spec => []AdmittedPagesServed
<1>1. SessionInv => AdmittedPagesServed
  <2> SUFFICES ASSUME SessionInv, Settled, ~OnLogin, SameSession, store.token \notin expired,
                      NEW call \in Calls(tab.path)
               PROVE  Authorised(call, store.token)
    BY DEF AdmittedPagesServed
  <2>1. claims[store.token].role \in Roles BY AdmittedSession DEF SessionUsers
  <2>2. claims[store.token].role \in Allowed(call) BY <2>1, AdmittedSession, RoleIsServed
  <2> QED BY <2>2, AdmittedSession DEF Authorised
<1> QED BY <1>1, SessionInvariant, PTL
=============================================================================
