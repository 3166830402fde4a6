------------------------------ MODULE Accounts ------------------------------
(***************************************************************************)
(* The users of billcore, their sessions and their audit trail: UserRepo,  *)
(* AuthService and the Auth and RequireAdmin middleware, the audit trigger *)
(* that stamps created_by and updated_by, and the language a user prefers. *)
(*                                                                         *)
(* A browser keeps the token of its last login and has at most one request *)
(* in flight.  The Auth middleware trusts the claims of the token (user    *)
(* and role) for 24 hours and never reads the users table, so a request    *)
(* carries the identity of the moment of its login.  A request of several  *)
(* statements goes one statement per step, at READ COMMITTED; req holds    *)
(* what it has read.  A refused request is a stuttering step, unless it    *)
(* was already in flight.  User names, e-mail addresses and passwords are  *)
(* left out: logging in as u means knowing them.                           *)
(***************************************************************************)
EXTENDS Integers

CONSTANTS
    Users,       \* user ids (SERIAL: never used twice)
    Roles,       \* the roles given to users, "admin" among them
    Languages,   \* supported languages, "en" among them
    Browsers,    \* clients with a login each
    Records,     \* ids of audited rows (clients, ..., periods)
    NTables,     \* how many audited tables there are
    TableOf,     \* the table of a record, by its place in the list Delete goes through
    InitUsers,   \* the users in place at the start
    Ops,         \* the kinds of request this instance makes
    None         \* SQL NULL, Go nil

ASSUME AccountsAssumption ==
    /\ "admin" \in Roles
    /\ "en" \in Languages
    /\ NTables \in Nat
    /\ TableOf \in [Records -> 1..NTables]
    /\ None \notin Users

Opt(S) == S \cup {None}

User == [state: {"new", "live", "gone"}, role: Roles, active: BOOLEAN, lang: Languages]
Claims == [user: Users, role: Roles]
Stamps == [created: Opt(Users), updated: Opt(Users)]

\* A request in flight: what it will do, from what it has read.
Request ==
    [kind: {"login"}, user: Users, role: Roles]
    \cup [kind: {"block"}, user: Users]
    \cup [kind: {"delete"}, user: Users, table: 1..(NTables + 1), author: Users]
    \cup [kind: {"write"}, record: Records, author: Users]
    \cup [kind: {"language"}, user: Users, lang: Languages]

ASSUME RequestAssumption == None \notin Request /\ None \notin Claims /\ None \notin Stamps

ASSUME InitialUsersAssumption == InitUsers \in [Users -> User]

VARIABLES
    users,     \* rows of billcore.users
    records,   \* created_by and updated_by of the audited rows
    token,     \* the claims of the token each browser keeps
    req,       \* the request each browser has in flight
    standing   \* history: the rows that have named the user throughout a Delete

vars == <<users, records, token, req, standing>>

TypeOK ==
    /\ users \in [Users -> User]
    /\ records \in [Records -> Opt(Stamps)]
    /\ token \in [Browsers -> Opt(Claims)]
    /\ req \in [Browsers -> Opt(Request)]
    /\ standing \in [Browsers -> SUBSET Records]

Init ==
    /\ users = InitUsers
    /\ records = [r \in Records |-> None]
    /\ token = [c \in Browsers |-> None]
    /\ req = [c \in Browsers |-> None]
    /\ standing = [c \in Browsers |-> {}]

Live(u) == users[u].state = "live"
\* The rows that name u.
Touched(u) ==
    {r \in Records : records[r] # None /\ u \in {records[r].created, records[r].updated}}

Doing(c, kind) == req[c] # None /\ req[c].kind = kind
Send(c, request) == req[c] = None /\ req' = [req EXCEPT ![c] = request]

\* The request of c ends; its step may have rewritten rows another deletion looks at.
Done(c) ==
    /\ req' = [req EXCEPT ![c] = None]
    /\ standing' = [d \in Browsers |->
                       IF d = c THEN {} ELSE {r \in standing[d] : r \in Touched(req[d].user)'}]

\* What RequireAdmin lets through: the role the token was issued for.
ByAdmin(c, kind) == kind \in Ops /\ token[c] # None /\ token[c].role = "admin"

-----------------------------------------------------------------------------
(* Login and tokens. *)

\* Mutant: a blocked user logs in.
MayLogInAnyway(u) == Live(u)
MayLogIn(u) == Live(u) /\ users[u].active

\* AuthService.Login reads the user once; checking the password and signing
\* the token take a while.
Login(c, u) ==
    /\ MayLogIn(u)
    /\ Send(c, [kind |-> "login", user |-> u, role |-> users[u].role])
    /\ UNCHANGED <<users, records, token, standing>>

\* The browser stores the token of the response.
FinishLogin(c) ==
    /\ Doing(c, "login")
    /\ token' = [token EXCEPT ![c] = [user |-> req[c].user, role |-> req[c].role]]
    /\ UNCHANGED <<users, records>>
    /\ Done(c)

\* 24 hours are over, or the user logs out.
Expire(c) ==
    /\ token[c] # None
    /\ token' = [token EXCEPT ![c] = None]
    /\ UNCHANGED <<users, records, req, standing>>

-----------------------------------------------------------------------------
(* User management, by holders of an admin token. *)

ActiveAdmin(u) == Live(u) /\ users[u].role = "admin" /\ users[u].active

OtherAdmins(u) == {v \in Users \ {u} : ActiveAdmin(v)}

CreateUser(c, u, role) ==
    /\ ByAdmin(c, "createUser")
    /\ req[c] = None
    /\ users[u].state = "new"
    /\ users' = [users EXCEPT ![u] = [state |-> "live", role |-> role, active |-> TRUE,
                                      lang |-> "en"]]
    /\ UNCHANGED <<records, token, req, standing>>

\* The page sends no preferred_language, and UserRepo.Update then writes the default.
UpdateUser(c, u, role) ==
    /\ ByAdmin(c, "updateUser")
    /\ req[c] = None
    /\ Live(u)
    /\ users' = [users EXCEPT ![u].role = role, ![u].lang = "en"]
    /\ UNCHANGED <<records, token, req, standing>>

\* SetActive(false): the count of the remaining admins, then the UPDATE.  The
\* page offers it for other users than one's own.
Block(c, u) ==
    /\ ByAdmin(c, "block")
    /\ Live(u) /\ users[u].active
    /\ u # token[c].user
    /\ OtherAdmins(u) # {}
    /\ Send(c, [kind |-> "block", user |-> u])
    /\ UNCHANGED <<users, records, token, standing>>

FinishBlock(c) ==
    /\ Doing(c, "block")
    /\ LET u == req[c].user
       IN  users' = IF Live(u) THEN [users EXCEPT ![u].active = FALSE] ELSE users
    /\ UNCHANGED <<records, token>>
    /\ Done(c)

\* SetActive(true): one UPDATE.
Unblock(c, u) ==
    /\ ByAdmin(c, "unblock")
    /\ req[c] = None
    /\ Live(u) /\ ~users[u].active
    /\ u # token[c].user
    /\ users' = [users EXCEPT ![u].active = TRUE]
    /\ UNCHANGED <<records, token, req, standing>>

\* Delete: one COUNT for each audited table, then the DELETE.
Delete(c, u) ==
    /\ ByAdmin(c, "deleteUser")
    /\ Live(u)
    /\ u # token[c].user
    /\ Send(c, [kind |-> "delete", user |-> u, table |-> 1, author |-> token[c].user])
    /\ standing' = [standing EXCEPT ![c] = Touched(u)]
    /\ UNCHANGED <<users, records, token>>

\* Mutant: only created_by is looked at.
CreatedIn(u, table) ==
    \E r \in Records : TableOf[r] = table /\ records[r] # None /\ records[r].created = u
HistoryIn(u, table) ==
    \E r \in Records : /\ TableOf[r] = table
                       /\ records[r] # None
                       /\ u \in {records[r].created, records[r].updated}

\* Mutant: the list of tables is read past its end.
CheckHistoryTooFar(c) ==
    /\ Doing(c, "delete")
    /\ req[c].table <= NTables + 1
    /\ UNCHANGED <<users, records, token>>
    /\ IF HistoryIn(req[c].user, req[c].table)
       THEN Done(c)
       ELSE req' = [req EXCEPT ![c].table = @ + 1] /\ UNCHANGED standing
CheckHistory(c) ==
    /\ Doing(c, "delete")
    /\ req[c].table <= NTables
    /\ UNCHANGED <<users, records, token>>
    /\ IF HistoryIn(req[c].user, req[c].table)
       THEN Done(c)
       ELSE req' = [req EXCEPT ![c].table = @ + 1] /\ UNCHANGED standing

\* Mutant: the foreign key check of a write locks nothing.
NoKeyShareUser(u) == FALSE
\* An uncommitted write stamped with u holds a FOR KEY SHARE lock on the user.
KeyShareUser(u) == \E c \in Browsers : Doing(c, "write") /\ req[c].author = u
\* An uncommitted write holds its row.
RowLocked(r) == \E c \in Browsers : Doing(c, "write") /\ req[c].record = r

Without(stamp, u) == IF stamp = u THEN None ELSE stamp

\* created_by and updated_by are ON DELETE SET NULL.  That is an UPDATE of the
\* row, so the audit trigger stamps it with the author of the deletion, and the
\* deletion fails unless that author is a user who stays.
FinishDelete(c) ==
    /\ Doing(c, "delete")
    /\ req[c].table > NTables
    /\ LET u == req[c].user
       IN  /\ ~KeyShareUser(u)
           /\ \A r \in Touched(u) : ~RowLocked(r)
           /\ IF Touched(u) = {} \/ (Live(req[c].author) /\ req[c].author # u)
              THEN /\ users' = IF Live(u) THEN [users EXCEPT ![u].state = "gone"] ELSE users
                   /\ records' = [r \in Records |->
                         IF r \in Touched(u)
                         THEN [created |-> Without(records[r].created, u),
                               updated |-> req[c].author]
                         ELSE records[r]]
              ELSE UNCHANGED <<users, records>>
    /\ UNCHANGED token
    /\ Done(c)

-----------------------------------------------------------------------------
(* Audited writes of the other repositories, and the preferred language. *)

\* The trigger stamps the row with the user of the token; the foreign key on
\* users refuses the stamp of a deleted user.  The row is there, locked, until
\* the commit.
Write(c, r) ==
    /\ "write" \in Ops
    /\ token[c] # None
    /\ Live(token[c].user)
    /\ ~RowLocked(r)
    /\ Send(c, [kind |-> "write", record |-> r, author |-> token[c].user])
    /\ UNCHANGED <<users, records, token, standing>>

\* INSERT stamps both columns, UPDATE only updated_by.
CommitWrite(c) ==
    /\ Doing(c, "write")
    /\ LET r == req[c].record
           u == req[c].author
       IN  records' = [records EXCEPT
                          ![r] = IF @ = None THEN [created |-> u, updated |-> u]
                                 ELSE [@ EXCEPT !.updated = u]]
    /\ UNCHANGED <<users, token>>
    /\ Done(c)

\* The header sends the choice to the server.
ChooseLanguage(c, lang) ==
    /\ "language" \in Ops
    /\ token[c] # None
    /\ Send(c, [kind |-> "language", user |-> token[c].user, lang |-> lang])
    /\ UNCHANGED <<users, records, token, standing>>

FinishLanguage(c) ==
    /\ Doing(c, "language")
    /\ LET u == req[c].user
       IN  users' = IF Live(u) THEN [users EXCEPT ![u].lang = req[c].lang] ELSE users
    /\ UNCHANGED <<records, token>>
    /\ Done(c)

-----------------------------------------------------------------------------
\* The request is cancelled or its connection lost: WithTx rolls it back.
Abort(c) ==
    /\ "abort" \in Ops
    /\ req[c] # None
    /\ UNCHANGED <<users, records, token>>
    /\ Done(c)

\* What a request does once it has been sent.
Continue(c) ==
    \/ FinishLogin(c)
    \/ FinishBlock(c)
    \/ CheckHistory(c)
    \/ FinishDelete(c)
    \/ CommitWrite(c)
    \/ FinishLanguage(c)

Manage(c) ==
    \E u \in Users :
       \/ \E role \in Roles : CreateUser(c, u, role) \/ UpdateUser(c, u, role)
       \/ Block(c, u)
       \/ Unblock(c, u)
       \/ Delete(c, u)

Next ==
    \E c \in Browsers :
       \/ \E u \in Users : Login(c, u)
       \/ Expire(c)
       \/ Manage(c)
       \/ \E r \in Records : Write(c, r)
       \/ \E lang \in Languages : ChooseLanguage(c, lang)
       \/ Continue(c)
       \/ Abort(c)

Spec == Init /\ [][Next]_vars

\* A statement that was sent is executed, and 24 hours pass.
FairSpec == Spec /\ \A c \in Browsers : WF_vars(Continue(c)) /\ WF_vars(Expire(c))

-----------------------------------------------------------------------------
(* Properties. *)

\* The audit trail never names a user who is no longer there, whatever
\* deletions race with the writes of the deleted user's last token
\* (created_by and updated_by of the audit trigger).
AuthorsExist ==
    \A r \in Records : records[r] # None =>
       \A u \in {records[r].created, records[r].updated} : u # None => Live(u)

\* A deletion never overlooks a history that is there: a user whom one and the same
\* row has named ever since the request began is not deleted by it, though the
\* tables are counted one statement after the other, while other requests write
\* and rewrite stamps and delete users in between (UserRepo.Delete).
StandingHistoryKept ==
    [][\A c \in Browsers :
          /\ Doing(c, "delete") /\ req'[c] = None
          /\ Live(req[c].user) /\ users'[req[c].user].state # "live"
          => standing[c] = {}]_vars

\* Taking a right away works in the end: once a user no longer has a role (is
\* blocked, deleted or given another one) and stays so, no browser keeps a token
\* that grants it, though the middleware never looks at the users table.
RevocationTakesHold ==
    \A u \in Users, role \in Roles :
       <>[]~(Live(u) /\ users[u].active /\ users[u].role = role)
       => <>[](\A c \in Browsers : token[c] # [user |-> u, role |-> role])

-----------------------------------------------------------------------------
(* Why AuthorsExist holds: the author of an uncommitted write cannot be deleted. *)

WritersLive == \A c \in Browsers : Doing(c, "write") => Live(req[c].author)

AuditInv == TypeOK /\ AuthorsExist /\ WritersLive

\* Why StandingHistoryKept holds: such a row is still to be counted.
StandingAhead ==
    \A c \in Browsers : Doing(c, "delete") =>
       \A r \in standing[c] : r \in Touched(req[c].user) /\ TableOf[r] >= req[c].table

DeletionInv == AuditInv /\ StandingAhead

-----------------------------------------------------------------------------
(* What the documentation says of the program, and the code does not do.      *)

\* "The last active admin cannot be blocked" (USER_GUIDE.md).  The count and the UPDATE
\* are statements of their own and lock nothing the other request would wait for: two
\* admins who block each other are each counted as the admin who remains.
LastAdminNotBlocked ==
    [][\A u \in Users :
          ActiveAdmin(u) /\ Live(u)' /\ ~users'[u].active
          => \E v \in Users : ActiveAdmin(v)']_vars
=============================================================================
