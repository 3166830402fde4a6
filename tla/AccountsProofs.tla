--------------------------- MODULE AccountsProofs ---------------------------
(***************************************************************************)
(* The audit trail of Accounts names only users who exist, and a deletion  *)
(* never overlooks a row that names its user all along, for any number of  *)
(* requests in flight.                                                     *)
(***************************************************************************)
EXTENDS Accounts, TLAPS

LEMMA InitAudit == Init => AuditInv
<1> SUFFICES ASSUME Init
             PROVE  AuditInv
    OBVIOUS
<1>1. TypeOK
    BY AccountsAssumption, InitialUsersAssumption DEF Init, TypeOK, Opt
<1>2. AuthorsExist /\ WritersLive
    BY DEF Init, AuthorsExist, WritersLive, Doing
<1> QED
    BY <1>1, <1>2 DEF AuditInv

\* A step that deletes no user, stamps no row and starts no write.
LEMMA QuietStep ==
    ASSUME AuditInv, TypeOK', records' = records,
           \A u \in Users : Live(u) => Live(u)',
           \A c \in Browsers : Doing(c, "write")' => Doing(c, "write") /\ req'[c] = req[c]
    PROVE  AuditInv'
<1>1. AuthorsExist'
    <2>1. ASSUME NEW r \in Records, records'[r] # None,
                 NEW u \in {records'[r].created, records'[r].updated}, u # None
          PROVE  Live(u)'
        <3>1. u \in Users
            BY <2>1 DEF AuditInv, TypeOK, Opt, Stamps
        <3> QED
            BY <2>1, <3>1 DEF AuditInv, AuthorsExist
    <2> QED
        BY <2>1 DEF AuthorsExist
<1>2. WritersLive'
    <2>1. ASSUME NEW c \in Browsers, Doing(c, "write")'
          PROVE  Live(req[c].author)' /\ req'[c] = req[c]
        <3>1. Doing(c, "write") /\ req'[c] = req[c]
            BY <2>1
        <3>2. req[c].author \in Users
            BY <3>1 DEF AuditInv, TypeOK, Doing, Opt, Request
        <3> QED
            BY <3>1, <3>2 DEF AuditInv, WritersLive
    <2> QED
        BY <2>1 DEF WritersLive, Live
<1> QED
    BY <1>1, <1>2 DEF AuditInv

StandingTyped == standing \in [Browsers -> SUBSET Records]

\* What a step does to the rows that stand.
LEMMA StandingChange ==
    ASSUME [Next]_vars
    PROVE  \/ UNCHANGED <<standing, records>>
           \/ \E d \in Browsers, u \in Users : Delete(d, u)
           \/ \E d \in Browsers : Done(d)
BY DEF Next, vars, Manage, CreateUser, UpdateUser, Unblock, Block, Login, Expire, Write,
       ChooseLanguage, Continue, FinishLogin, FinishBlock, CheckHistory, FinishDelete,
       CommitWrite, FinishLanguage, Abort

LEMMA StandingType ==
    ASSUME TypeOK, [Next]_vars
    PROVE  StandingTyped'
<1>1. CASE UNCHANGED standing
    BY <1>1 DEF TypeOK, StandingTyped
<1>2. ASSUME NEW d \in Browsers, NEW u \in Users, Delete(d, u)
      PROVE  StandingTyped'
    <2>1. Touched(u) \subseteq Records
        BY DEF Touched
    <2> QED
        BY <1>2, <2>1 DEF Delete, TypeOK, StandingTyped
<1>3. ASSUME NEW d \in Browsers, Done(d)
      PROVE  StandingTyped'
    BY <1>3 DEF Done, TypeOK, StandingTyped
<1> QED
    BY <1>1, <1>2, <1>3, StandingChange

\* A request in flight is a request.
LEMMA RequestType ==
    ASSUME TypeOK, NEW c \in Browsers, NEW kind, Doing(c, kind)
    PROVE  req[c] \in Request /\ req[c].kind = kind
BY DEF TypeOK, Opt, Doing

\* What user management writes into the row of a user: a user who is there.
LEMMA RowWritten ==
    ASSUME TypeOK, NEW c \in Browsers, NEW u \in Users, NEW role \in Roles,
           CreateUser(c, u, role) \/ UpdateUser(c, u, role) \/ Unblock(c, u)
    PROVE  \E row \in User : users' = [users EXCEPT ![u] = row] /\ row.state = "live"
<1>1. CASE CreateUser(c, u, role)
    <2> DEFINE row == [state |-> "live", role |-> role, active |-> TRUE, lang |-> "en"]
    <2>1. row \in User /\ row.state = "live"
        BY AccountsAssumption DEF User
    <2>2. users' = [users EXCEPT ![u] = row]
        BY <1>1 DEF CreateUser
    <2> QED
        BY <2>1, <2>2
<1>2. CASE UpdateUser(c, u, role)
    <2> DEFINE row == [users[u] EXCEPT !.role = role, !.lang = "en"]
    <2>1. users[u] \in User /\ users[u].state = "live"
        BY <1>2 DEF TypeOK, UpdateUser, Live
    <2>2. row \in User /\ row.state = "live"
        BY <2>1, AccountsAssumption DEF User
    <2>3. users' = [users EXCEPT ![u] = row]
        BY <1>2 DEF UpdateUser
    <2> QED
        BY <2>2, <2>3
<1>3. CASE Unblock(c, u)
    <2> DEFINE row == [users[u] EXCEPT !.active = TRUE]
    <2>1. users[u] \in User /\ users[u].state = "live"
        BY <1>3 DEF TypeOK, Unblock, Live
    <2>2. row \in User /\ row.state = "live"
        BY <2>1 DEF User
    <2>3. users' = [users EXCEPT ![u] = row]
        BY <1>3 DEF Unblock
    <2> QED
        BY <2>2, <2>3
<1> QED
    BY <1>1, <1>2, <1>3

\* Steps that change the database, none of which deletes a user.
LEMMA UserStep ==
    ASSUME AuditInv, StandingTyped', NEW c \in Browsers, NEW u \in Users, NEW role \in Roles,
           CreateUser(c, u, role) \/ UpdateUser(c, u, role) \/ Unblock(c, u)
    PROVE  AuditInv'
<1>1. PICK row \in User : users' = [users EXCEPT ![u] = row] /\ row.state = "live"
    BY RowWritten DEF AuditInv
<1>2. UNCHANGED <<records, token, req>>
    BY DEF CreateUser, UpdateUser, Unblock
<1>3. TypeOK'
    BY <1>1, <1>2 DEF AuditInv, TypeOK, StandingTyped
<1>4. \A v \in Users : Live(v) => Live(v)'
    BY <1>1 DEF AuditInv, TypeOK, Live
<1> QED
    BY <1>2, <1>3, <1>4, QuietStep DEF Doing

\* Steps that end a request and may change columns of a user.
LEMMA FinishStep ==
    ASSUME AuditInv, StandingTyped', NEW c \in Browsers, FinishBlock(c) \/ FinishLanguage(c)
    PROVE  AuditInv'
<1> DEFINE u == req[c].user
<1>1. users[u] \in User /\ u \in Users /\ (Doing(c, "language") => req[c].lang \in Languages)
    <2>1. Doing(c, "block") \/ Doing(c, "language")
        BY DEF FinishBlock, FinishLanguage
    <2>2. req[c] \in Request /\ req[c].kind \in {"block", "language"}
        BY <2>1, RequestType DEF AuditInv
    <2>3. u \in Users
        BY <2>2 DEF Request
    <2>4. req[c].kind = "language" => req[c].lang \in Languages
        BY <2>2 DEF Request
    <2> QED
        BY <2>3, <2>4 DEF AuditInv, TypeOK, Doing
<1>2. \E row \in User : users' = [users EXCEPT ![u] = row] /\ row.state = users[u].state
    <2>1. CASE ~Live(u)
        BY <1>1, <2>1 DEF FinishBlock, FinishLanguage, AuditInv, TypeOK
    <2>2. CASE Live(u) /\ FinishBlock(c)
        <3> DEFINE row == [users[u] EXCEPT !.active = FALSE]
        <3>1. row \in User /\ row.state = users[u].state
            BY <1>1 DEF User
        <3>2. users' = [users EXCEPT ![u] = row]
            BY <2>2 DEF FinishBlock
        <3> QED
            BY <3>1, <3>2
    <2>3. CASE Live(u) /\ FinishLanguage(c)
        <3> DEFINE row == [users[u] EXCEPT !.lang = req[c].lang]
        <3>1. row \in User /\ row.state = users[u].state
            BY <1>1, <2>3 DEF User, FinishLanguage
        <3>2. users' = [users EXCEPT ![u] = row]
            BY <2>3 DEF FinishLanguage
        <3> QED
            BY <3>1, <3>2
    <2> QED
        BY <2>1, <2>2, <2>3
<1>3. PICK row \in User : users' = [users EXCEPT ![u] = row] /\ row.state = users[u].state
    BY <1>2
<1> HIDE DEF u
<1>4. /\ records' = records /\ token' = token
      /\ req' = [req EXCEPT ![c] = None]
    BY DEF FinishBlock, FinishLanguage, Done
<1>5. TypeOK'
    BY <1>1, <1>3, <1>4 DEF AuditInv, TypeOK, StandingTyped, Opt
<1>6. \A v \in Users : Live(v) => Live(v)'
    BY <1>1, <1>3 DEF AuditInv, TypeOK, Live
<1>7. \A d \in Browsers : Doing(d, "write")' => Doing(d, "write") /\ req'[d] = req[d]
    BY <1>4 DEF AuditInv, TypeOK, Doing
<1> QED
    BY <1>4, <1>5, <1>6, <1>7, QuietStep

\* Steps that leave the tables alone and start no write.
Quiet(c) ==
    \/ \E u \in Users : Login(c, u) \/ Block(c, u) \/ Delete(c, u)
    \/ \E lang \in Languages : ChooseLanguage(c, lang)
    \/ FinishLogin(c)
    \/ Expire(c)
    \/ CheckHistory(c)
    \/ Abort(c)

LEMMA BrowserStep ==
    ASSUME AuditInv, StandingTyped', NEW c \in Browsers, Quiet(c)
    PROVE  AuditInv'
<1>1. users' = users /\ records' = records
    BY DEF Quiet, Login, FinishLogin, Expire, Block, Delete, CheckHistory, ChooseLanguage,
       Abort
<1>2. token' \in [Browsers -> Opt(Claims)]
    <2>1. CASE FinishLogin(c)
        <3>1. Doing(c, "login")
            BY <2>1 DEF FinishLogin
        <3>2. req[c] \in Request /\ req[c].kind = "login"
            BY <3>1, RequestType DEF AuditInv
        <3>3. [user |-> req[c].user, role |-> req[c].role] \in Claims
            BY <3>2 DEF Request, Claims
        <3> QED
            BY <2>1, <3>3 DEF FinishLogin, AuditInv, TypeOK, Opt
    <2>2. CASE Expire(c)
        BY <2>2 DEF Expire, AuditInv, TypeOK, Opt
    <2>3. CASE token' = token
        BY <2>3 DEF AuditInv, TypeOK
    <2> QED
        BY <2>1, <2>2, <2>3 DEF Quiet, Login, Block, Delete, CheckHistory,
           ChooseLanguage, Abort
<1>3. PICK request \in Opt(Request) :
         /\ req' = [req EXCEPT ![c] = request]
         /\ request # None /\ request.kind = "write" => request = req[c]
    <2> DEFINE Sent(request) == /\ request \in Request
                                /\ request.kind # "write"
                                /\ req' = [req EXCEPT ![c] = request]
    <2>1. CASE \E u \in Users : Login(c, u)
        <3> PICK u \in Users : Login(c, u)
            BY <2>1
        <3>1. users[u].role \in Roles
            BY DEF AuditInv, TypeOK, User
        <3>2. Sent([kind |-> "login", user |-> u, role |-> users[u].role])
            BY <3>1 DEF AuditInv, TypeOK, Login, Send, Request
        <3> QED
            BY <3>2 DEF Opt
    <2>2. CASE \E u \in Users : Block(c, u)
        <3> PICK u \in Users : Block(c, u)
            BY <2>2
        <3>1. Sent([kind |-> "block", user |-> u])
            BY DEF Block, Send, Request
        <3> QED
            BY <3>1 DEF Opt
    <2>3. CASE \E u \in Users : Delete(c, u)
        <3> PICK u \in Users : Delete(c, u)
            BY <2>3
        <3>1. 1 \in 1..(NTables + 1)
            BY AccountsAssumption
        <3>2. token[c].user \in Users
            BY DEF Delete, ByAdmin, AuditInv, TypeOK, Opt, Claims
        <3>3. Sent([kind |-> "delete", user |-> u, table |-> 1, author |-> token[c].user])
            BY <3>1, <3>2 DEF Delete, Send, Request
        <3> QED
            BY <3>3 DEF Opt
    <2>4. CASE \E lang \in Languages : ChooseLanguage(c, lang)
        <3> PICK lang \in Languages : ChooseLanguage(c, lang)
            BY <2>4
        <3>1. token[c].user \in Users
            BY DEF ChooseLanguage, AuditInv, TypeOK, Opt, Claims
        <3>2. Sent([kind |-> "language", user |-> token[c].user, lang |-> lang])
            BY <3>1 DEF ChooseLanguage, Send, Request
        <3> QED
            BY <3>2 DEF Opt
    <2>5. CASE Done(c)
        BY <2>5 DEF Done, Opt
    <2>6. CASE CheckHistory(c) /\ ~Done(c)
        <3> DEFINE next == [req[c] EXCEPT !.table = @ + 1]
        <3>1. Doing(c, "delete") /\ req[c].table <= NTables
              /\ req' = [req EXCEPT ![c].table = @ + 1]
            BY <2>6 DEF CheckHistory
        <3>2. req[c] \in Request /\ req[c].kind = "delete"
            BY <3>1, RequestType DEF AuditInv
        <3>3. req[c] \in [kind: {"delete"}, user: Users, table: 1..(NTables + 1), author: Users]
            BY <3>2 DEF Request
        <3>4. next \in [kind: {"delete"}, user: Users, table: 1..(NTables + 1), author: Users]
              /\ next.kind = "delete"
            BY <3>1, <3>3, AccountsAssumption
        <3>5. req' = [req EXCEPT ![c] = next]
            BY <3>1
        <3> HIDE DEF next
        <3>6. Sent(next)
            BY <3>4, <3>5 DEF Request
        <3> QED
            BY <3>6 DEF Opt
    <2>7. CASE req' = req
        <3>1. req' = [req EXCEPT ![c] = req[c]] /\ req[c] \in Opt(Request)
            BY <2>7 DEF AuditInv, TypeOK
        <3> QED
            BY <3>1
    <2> QED
        BY <2>1, <2>2, <2>3, <2>4, <2>5, <2>6, <2>7
        DEF Quiet, FinishLogin, Expire, CheckHistory, Abort
<1>4. TypeOK'
    BY <1>1, <1>2, <1>3 DEF AuditInv, TypeOK, StandingTyped
<1>5. \A d \in Browsers : Doing(d, "write")' => Doing(d, "write") /\ req'[d] = req[d]
    BY <1>3 DEF AuditInv, TypeOK, Doing
<1> QED
    BY <1>1, <1>4, <1>5, QuietStep DEF Live

\* A write starts with the key of its author locked.
LEMMA WriteStep ==
    ASSUME AuditInv, StandingTyped', NEW c \in Browsers, NEW r \in Records, Write(c, r)
    PROVE  AuditInv'
<1> DEFINE request == [kind |-> "write", record |-> r, author |-> token[c].user]
<1>1. /\ token[c].user \in Users /\ Live(token[c].user)
      /\ req' = [req EXCEPT ![c] = request]
      /\ UNCHANGED <<users, records, token>>
    BY DEF Write, Send, AuditInv, TypeOK, Opt, Claims
<1>2. request \in Request
    BY <1>1 DEF Request
<1>3. request.author = token[c].user
    OBVIOUS
<1> HIDE DEF request
<1>4. TypeOK'
    BY <1>1, <1>2 DEF AuditInv, TypeOK, StandingTyped, Opt
<1>5. AuthorsExist'
    BY <1>1 DEF AuditInv, AuthorsExist, Live
<1>6. ASSUME NEW d \in Browsers, Doing(d, "write")'
      PROVE  Live(req[d].author)'
    <2>1. CASE d = c
        BY <1>1, <1>3, <2>1 DEF Live, AuditInv, TypeOK
    <2>2. CASE d # c
        BY <1>1, <1>6, <2>2 DEF Live, AuditInv, TypeOK, WritersLive, Doing
    <2> QED
        BY <2>1, <2>2
<1> QED
    BY <1>4, <1>5, <1>6 DEF AuditInv, WritersLive

LEMMA CommitWriteStep ==
    ASSUME AuditInv, StandingTyped', NEW c \in Browsers, CommitWrite(c)
    PROVE  AuditInv'
<1> DEFINE r == req[c].record
           u == req[c].author
           stamps == IF records[r] = None THEN [created |-> u, updated |-> u]
                     ELSE [records[r] EXCEPT !.updated = u]
<1>1. /\ Doing(c, "write") /\ records' = [records EXCEPT ![r] = stamps]
      /\ req' = [req EXCEPT ![c] = None] /\ UNCHANGED <<users, token>>
    BY DEF CommitWrite, Done
<1>2. req[c] \in Request /\ req[c].kind = "write"
    BY <1>1, RequestType DEF AuditInv
<1>3. r \in Records /\ u \in Users /\ Live(u)
    BY <1>1, <1>2 DEF Request, AuditInv, WritersLive
<1>4. /\ stamps \in Stamps
      /\ stamps.updated = u
      /\ stamps.created = u \/ (records[r] # None /\ stamps.created = records[r].created)
    BY <1>3 DEF AuditInv, TypeOK, Opt, Stamps
<1> HIDE DEF r, u, stamps
<1>5. TypeOK'
    BY <1>1, <1>3, <1>4 DEF AuditInv, TypeOK, StandingTyped, Opt
<1>6. ASSUME NEW q \in Records, records'[q] # None,
             NEW v \in {records'[q].created, records'[q].updated}, v # None
      PROVE  Live(v)'
    <2>1. CASE q = r
        BY <1>1, <1>3, <1>4, <1>6, <2>1 DEF AuditInv, TypeOK, AuthorsExist, Live
    <2>2. CASE q # r
        BY <1>1, <1>3, <1>6, <2>2 DEF AuditInv, TypeOK, AuthorsExist, Live
    <2> QED
        BY <2>1, <2>2
<1>7. WritersLive'
    BY <1>1 DEF AuditInv, TypeOK, WritersLive, Doing, Live
<1> QED
    BY <1>5, <1>6, <1>7 DEF AuditInv, AuthorsExist

\* A deletion waits for the writes stamped with the user, and puts its own
\* author in the place of the user in the committed rows.
LEMMA FinishDeleteStep ==
    ASSUME AuditInv, StandingTyped', NEW c \in Browsers, FinishDelete(c)
    PROVE  AuditInv'
<1> DEFINE u == req[c].user
           author == req[c].author
           gone == [users[u] EXCEPT !.state = "gone"]
<1>1. /\ Doing(c, "delete") /\ ~KeyShareUser(u)
      /\ req' = [req EXCEPT ![c] = None] /\ UNCHANGED token
      /\ \/ /\ Touched(u) = {} \/ (Live(author) /\ author # u)
            /\ users' = IF Live(u) THEN [users EXCEPT ![u] = gone] ELSE users
            /\ records' = [r \in Records |->
                  IF r \in Touched(u)
                  THEN [created |-> Without(records[r].created, u), updated |-> author]
                  ELSE records[r]]
         \/ UNCHANGED <<users, records>>
    BY DEF FinishDelete, Done
<1>2. u \in Users /\ author \in Users /\ gone \in User
    <2>1. req[c] \in Request /\ req[c].kind = "delete"
        BY <1>1, RequestType DEF AuditInv
    <2>2. u \in Users /\ author \in Users
        BY <2>1 DEF Request
    <2> QED
        BY <2>2 DEF AuditInv, TypeOK, User
<1>3. \A v \in Users : Live(v) /\ v # u => Live(v)'
    BY <1>1, <1>2 DEF AuditInv, TypeOK, Live
<1>4. ASSUME NEW r \in Records, records[r] # None
      PROVE  /\ records[r].created \in Opt(Users) /\ records[r].updated \in Opt(Users)
             /\ r \notin Touched(u) => u \notin {records[r].created, records[r].updated}
    BY <1>4 DEF AuditInv, TypeOK, Opt, Stamps, Touched
<1>5. ASSUME NEW r \in Records, records[r] # None
      PROVE  Without(records[r].created, u) \in Opt(Users) \ {u}
    BY <1>2, <1>4, <1>5, AccountsAssumption DEF Opt, Without
<1>6. records' \in [Records -> Opt(Stamps)]
    <2>1. CASE UNCHANGED records
        BY <2>1 DEF AuditInv, TypeOK
    <2>2. CASE records' = [r \in Records |->
                  IF r \in Touched(u)
                  THEN [created |-> Without(records[r].created, u), updated |-> author]
                  ELSE records[r]]
        <3>1. \A r \in Touched(u) : r \in Records /\ records[r] # None
            BY DEF Touched
        <3> QED
            BY <1>2, <1>5, <2>2, <3>1 DEF AuditInv, TypeOK, Opt, Stamps
    <2> QED
        BY <1>1, <2>1, <2>2
<1>7. TypeOK'
    BY <1>1, <1>2, <1>6 DEF AuditInv, TypeOK, StandingTyped, Opt
<1>8. ASSUME NEW r \in Records, records'[r] # None,
             NEW v \in {records'[r].created, records'[r].updated}, v # None
      PROVE  Live(v)'
    <2>1. CASE UNCHANGED <<users, records>>
        BY <1>8, <2>1 DEF AuditInv, AuthorsExist, Live
    <2>2. CASE r \in Touched(u) /\ ~UNCHANGED <<users, records>>
        <3>1. /\ records[r] # None /\ Live(author) /\ author # u
              /\ records'[r] = [created |-> Without(records[r].created, u), updated |-> author]
            BY <1>1, <2>2 DEF Touched
        <3>2. v = author \/ (v \in Users /\ v # u /\ v = records[r].created)
            BY <1>5, <1>8, <3>1 DEF Opt, Without
        <3>3. Live(v)
            BY <1>8, <3>1, <3>2 DEF AuditInv, AuthorsExist
        <3> QED
            BY <1>2, <1>3, <3>1, <3>2, <3>3
    <2>3. CASE r \notin Touched(u) /\ ~UNCHANGED <<users, records>>
        <3>1. records'[r] = records[r]
            BY <1>1, <2>3
        <3>2. v # u /\ v \in Users /\ Live(v)
            BY <1>4, <1>8, <2>3, <3>1 DEF AuditInv, AuthorsExist, Opt
        <3> QED
            BY <1>3, <3>2
    <2> QED
        BY <2>1, <2>2, <2>3
<1>9. ASSUME NEW d \in Browsers, Doing(d, "write")'
      PROVE  Live(req[d].author)'
    <2>1. Doing(d, "write") /\ req'[d] = req[d]
        BY <1>1, <1>9 DEF AuditInv, TypeOK, Doing
    <2>2. req[d].author # u
        BY <1>1, <2>1 DEF KeyShareUser
    <2>3. req[d].author \in Users
        <3>1. req[d] \in Request /\ req[d].kind = "write"
            BY <2>1, RequestType DEF AuditInv
        <3> QED
            BY <3>1 DEF Request
    <2>4. Live(req[d].author)
        BY <2>1 DEF AuditInv, WritersLive
    <2> QED
        BY <1>3, <2>1, <2>2, <2>3, <2>4 DEF Live
<1> QED
    BY <1>7, <1>8, <1>9 DEF AuditInv, AuthorsExist, WritersLive

\* AuditInv is inductive.
LEMMA NextAudit ==
    ASSUME AuditInv, [Next]_vars
    PROVE  AuditInv'
<1>0. StandingTyped'
    BY StandingType DEF AuditInv
<1>1. CASE UNCHANGED vars
    BY <1>1 DEF vars, AuditInv, TypeOK, AuthorsExist, WritersLive, Doing, Live
<1>2. ASSUME NEW c \in Browsers, Manage(c), ~Quiet(c)
      PROVE  AuditInv'
    <2>1. PICK u \in Users, role \in Roles :
             CreateUser(c, u, role) \/ UpdateUser(c, u, role) \/ Unblock(c, u)
        BY <1>2, AccountsAssumption DEF Manage, Quiet
    <2> QED
        BY <1>0, <2>1, UserStep
<1>3. ASSUME NEW c \in Browsers, Continue(c), ~Quiet(c)
      PROVE  AuditInv'
    BY <1>0, <1>3, FinishStep, CommitWriteStep, FinishDeleteStep DEF Continue, Quiet
<1>4. ASSUME NEW c \in Browsers, NEW r \in Records, Write(c, r)
      PROVE  AuditInv'
    BY <1>0, <1>4, WriteStep
<1>5. CASE Next
    <2>1. PICK c \in Browsers : \/ Quiet(c)
                                \/ Manage(c) /\ ~Quiet(c)
                                \/ Continue(c) /\ ~Quiet(c)
                                \/ \E r \in Records : Write(c, r)
        BY <1>5 DEF Next, Quiet
    <2> QED
        BY <1>0, <1>2, <1>3, <1>4, <2>1, BrowserStep
<1> QED
    BY <1>1, <1>5

LEMMA AuditInvariant == Spec => []AuditInv
<1>1. Init => AuditInv
    BY InitAudit
<1>2. AuditInv /\ [Next]_vars => AuditInv'
    BY NextAudit
<1> QED
    BY <1>1, <1>2, PTL DEF Spec

\* Users, stamps, tokens and requests keep their types: what a request takes from
\* its token or from the users table is still a user and a role when it writes.
THEOREM AccountTypes == Spec => []TypeOK
<1>1. AuditInv => TypeOK
    BY DEF AuditInv
<1> QED
    BY <1>1, AuditInvariant, PTL

\* No audit stamp ever names a deleted user, however many requests are in
\* flight when the user is deleted.
THEOREM AuditNamesUsers == Spec => []AuthorsExist
<1>1. AuditInv => AuthorsExist
    BY DEF AuditInv
<1> QED
    BY <1>1, AuditInvariant, PTL

-----------------------------------------------------------------------------
(* A row that names the user throughout a deletion is counted.              *)

\* A browser sends its own requests, and nothing else changes them.
LEMMA StartedBy ==
    ASSUME TypeOK, [Next]_vars, NEW c \in Browsers, req'[c] # req[c], req'[c] # None
    PROVE  \/ \E u \in Users : Login(c, u) \/ Block(c, u) \/ Delete(c, u)
           \/ \E r \in Records : Write(c, r)
           \/ \E lang \in Languages : ChooseLanguage(c, lang)
           \/ CheckHistory(c)
<1>1. ASSUME NEW d \in Browsers, NEW request, d # c, req' = [req EXCEPT ![d] = request]
      PROVE  FALSE
    BY <1>1 DEF TypeOK
<1>2. ASSUME NEW d \in Browsers, Done(d)
      PROVE  FALSE
    BY <1>2 DEF Done, TypeOK
<1>3. req' # req
    OBVIOUS
<1>4. PICK d \in Browsers : \/ \E u \in Users : Login(d, u) \/ Block(d, u) \/ Delete(d, u)
                            \/ \E r \in Records : Write(d, r)
                            \/ \E lang \in Languages : ChooseLanguage(d, lang)
                            \/ CheckHistory(d)
    BY <1>2, <1>3
    DEF Next, vars, Manage, CreateUser, UpdateUser, Unblock, Expire, Continue, FinishLogin,
        FinishBlock, FinishDelete, CommitWrite, FinishLanguage, Abort
<1>5. d = c
    <2>1. ASSUME NEW u \in Users, Login(d, u) \/ Block(d, u) \/ Delete(d, u)
          PROVE  d = c
        BY <1>1, <2>1 DEF Login, Block, Delete, Send
    <2>2. ASSUME NEW r \in Records, Write(d, r)
          PROVE  d = c
        BY <1>1, <2>2 DEF Write, Send
    <2>3. ASSUME NEW lang \in Languages, ChooseLanguage(d, lang)
          PROVE  d = c
        BY <1>1, <2>3 DEF ChooseLanguage, Send
    <2>4. CASE CheckHistory(d)
        BY <1>2, <2>4 DEF CheckHistory, TypeOK
    <2> QED
        BY <1>4, <2>1, <2>2, <2>3, <2>4
<1> QED
    BY <1>4, <1>5

\* The rows that have named the user since a deletion began name her still, and the
\* deletion has not counted their tables yet: a count would have found them.
LEMMA AheadStep ==
    ASSUME AuditInv, StandingAhead, [Next]_vars
    PROVE  StandingAhead'
<1> SUFFICES ASSUME NEW c \in Browsers, Doing(c, "delete")', NEW r \in standing'[c]
             PROVE  r \in Touched(req[c].user)' /\ TableOf[r] >= req'[c].table
    BY DEF StandingAhead
<1>1. CASE req'[c] = req[c]
    <2>1. Doing(c, "delete") /\ req[c] # None /\ TypeOK
        BY <1>1 DEF Doing, AuditInv
    <2>2. CASE UNCHANGED <<standing, records>>
        BY <1>1, <2>1, <2>2 DEF StandingAhead, Touched
    <2>3. ASSUME NEW d \in Browsers, NEW u \in Users, Delete(d, u)
          PROVE  standing'[c] = standing[c] /\ records' = records
        BY <2>1, <2>3 DEF Delete, Send, TypeOK
    <2>4. ASSUME NEW d \in Browsers, Done(d)
          PROVE  r \in standing[c] /\ r \in Touched(req[c].user)'
        BY <1>1, <2>1, <2>4 DEF Done, TypeOK, Touched
    <2> QED
        BY <1>1, <2>1, <2>2, <2>3, <2>4, StandingChange DEF StandingAhead, Touched
<1>2. CASE req'[c] # req[c]
    <2> USE DEF AuditInv
    <2>1. req'[c].kind = "delete" /\ req'[c] # None
        BY DEF Doing
    <2>2. ASSUME NEW u \in Users, Login(c, u) \/ Block(c, u)
          PROVE  FALSE
        BY <2>1, <2>2 DEF Login, Block, Send, TypeOK
    <2>3. ASSUME NEW q \in Records, Write(c, q)
          PROVE  FALSE
        BY <2>1, <2>3 DEF Write, Send, TypeOK
    <2>4. ASSUME NEW lang \in Languages, ChooseLanguage(c, lang)
          PROVE  FALSE
        BY <2>1, <2>4 DEF ChooseLanguage, Send, TypeOK
    <2>5. CASE \E u \in Users : Delete(c, u)
        <3> PICK u \in Users : Delete(c, u)
            BY <2>5
        <3>1. /\ req'[c].user = u /\ req'[c].table = 1
              /\ standing'[c] = Touched(u) /\ records' = records
            BY DEF Delete, Send, TypeOK
        <3>2. r \in Records /\ TableOf[r] \in 1..NTables
            BY <3>1, AccountsAssumption DEF Touched
        <3> QED
            BY <3>1, <3>2 DEF Touched
    <2>6. CASE CheckHistory(c)
        <3>1. req[c] \in [kind: {"delete"}, user: Users, table: 1..(NTables + 1), author: Users]
            BY <2>6, RequestType DEF CheckHistory, Request
        <3>2. /\ ~HistoryIn(req[c].user, req[c].table)
              /\ req'[c] = [req[c] EXCEPT !.table = @ + 1]
              /\ UNCHANGED <<standing, records>>
            BY <2>1, <2>6 DEF CheckHistory, Done, TypeOK
        <3>3. /\ req'[c].user = req[c].user /\ req'[c].table = req[c].table + 1
              /\ req[c].table \in Int
            BY <3>1, <3>2, AccountsAssumption
        <3>4. r \in Touched(req[c].user) /\ TableOf[r] >= req[c].table
            BY <2>6, <3>2 DEF CheckHistory, StandingAhead
        <3>5. TableOf[r] # req[c].table /\ TableOf[r] \in Int
            BY <3>2, <3>4, AccountsAssumption DEF Touched, HistoryIn
        <3>6. TableOf[r] >= req'[c].table
            BY <3>3, <3>4, <3>5
        <3> QED
            BY <3>2, <3>3, <3>4, <3>6 DEF Touched
    <2> QED
        BY <1>2, <2>1, <2>2, <2>3, <2>4, <2>5, <2>6, StartedBy
<1> QED
    BY <1>1, <1>2

\* Only the DELETE of UserRepo takes a user away.
LEMMA NobodyElseDeletes ==
    ASSUME AuditInv, [Next]_vars, NEW u \in Users, Live(u), ~Live(u)'
    PROVE  \E c \in Browsers : FinishDelete(c)
<1>1. ASSUME NEW c \in Browsers, Manage(c)
      PROVE  Live(u)'
    <2>1. CASE users' = users
        BY <2>1 DEF Live
    <2>2. CASE \E v \in Users, role \in Roles :
                  CreateUser(c, v, role) \/ UpdateUser(c, v, role) \/ Unblock(c, v)
        <3>1. PICK v \in Users, row \in User :
                 users' = [users EXCEPT ![v] = row] /\ row.state = "live"
            BY <2>2, RowWritten DEF AuditInv
        <3> QED
            BY <3>1 DEF Live, AuditInv, TypeOK
    <2> QED
        BY <1>1, <2>1, <2>2, AccountsAssumption DEF Manage, Block, Delete
<1>2. ASSUME NEW c \in Browsers, FinishBlock(c) \/ FinishLanguage(c)
      PROVE  Live(u)'
    BY <1>2 DEF FinishBlock, FinishLanguage, Live, AuditInv, TypeOK, User
<1>3. users' # users
    BY DEF Live
<1> QED
    BY <1>1, <1>2, <1>3
    DEF Next, vars, Login, Expire, Write, ChooseLanguage, Continue, FinishLogin, CheckHistory,
        CommitWrite, Abort

\* A user whom one and the same row has named since her deletion began is not deleted
\* by it, whatever other requests write, rewrite and delete between the counts: a count
\* reads what is committed when it starts, and the row was there for the count of its table.
THEOREM DeletionSeesStanding == Spec => StandingHistoryKept
<1>1. ASSUME DeletionInv, [Next]_vars,
             NEW c \in Browsers, Doing(c, "delete"), req'[c] = None,
             Live(req[c].user), users'[req[c].user].state # "live"
      PROVE  standing[c] = {}
    <2>1. req[c] \in [kind: {"delete"}, user: Users, table: 1..(NTables + 1), author: Users]
          /\ req[c] # None
        BY <1>1, RequestType DEF DeletionInv, AuditInv, Request, Doing
    <2>2. req[c].user \in Users /\ req[c].table \in Int
        BY <2>1, AccountsAssumption
    <2>3. \E d \in Browsers : FinishDelete(d)
        <3>1. PICK u \in Users : u = req[c].user
            BY <2>2
        <3>2. Live(u) /\ ~Live(u)'
            BY <1>1, <3>1 DEF Live
        <3> QED
            BY <1>1, <3>2, NobodyElseDeletes DEF DeletionInv
    <2>4. PICK d \in Browsers : FinishDelete(d)
        BY <2>3
    <2>5. d = c
        BY <1>1, <2>1, <2>4 DEF FinishDelete, Done, DeletionInv, AuditInv, TypeOK
    <2>6. req[c].table > NTables
        BY <2>4, <2>5 DEF FinishDelete
    <2>7. ASSUME NEW r \in standing[c]
          PROVE  FALSE
        <3>1. r \in Records /\ TableOf[r] >= req[c].table
            BY <1>1, <2>7 DEF DeletionInv, StandingAhead, Touched
        <3> QED
            BY <2>2, <2>6, <3>1, AccountsAssumption
    <2> QED
        BY <2>7
<1>2. DeletionInv /\ [Next]_vars
      => [\A c \in Browsers :
             /\ Doing(c, "delete") /\ req'[c] = None
             /\ Live(req[c].user) /\ users'[req[c].user].state # "live"
             => standing[c] = {}]_vars
    BY <1>1
<1>3. Init => DeletionInv
    BY InitAudit DEF Init, StandingAhead, DeletionInv, Doing
<1>4. DeletionInv /\ [Next]_vars => DeletionInv'
    BY NextAudit, AheadStep DEF DeletionInv
<1> QED
    BY <1>2, <1>3, <1>4, PTL DEF Spec, StandingHistoryKept
=============================================================================
