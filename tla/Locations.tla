----------------------------- MODULE Locations -----------------------------
(***************************************************************************)
(* ClientRepo's locations, statement by statement: UpdateLocation locks    *)
(* the client's other locations one after the other and then its own,      *)
(* DeleteLocation looks for subscriptions and then deletes, the deletion   *)
(* of a client goes through its locations.  locs, clients and subscribed   *)
(* are the committed rows; tx is what a request has done and does next.    *)
(*                                                                         *)
(* PostgreSQL: an UPDATE or DELETE waits for the row it has come to; an    *)
(* entry of idx_locations_one_default waits for the transaction that has   *)
(* made or is about to remove another one; the check of a foreign key      *)
(* waits for the transaction that deletes the parent, and holds it.  Rows  *)
(* are met in any order.  A request in a ring of waiting requests may be   *)
(* ended by the deadlock detector.                                         *)
(***************************************************************************)
EXTENDS FiniteSets

CONSTANTS
    Sessions,       \* requests that may be under way at once (bound)
    Clients,
    Locations,      \* location ids (SERIAL: never used twice; bound)
    ClientOf,       \* client_id, which no UPDATE changes
    Touched,        \* the locations that requests are about (bound)
    InitLocs,       \* the rows in place at the start
    InitSubscribed, \* the locations that have a subscription at the start
    None

VARIABLES
    clients,        \* the clients in the table
    locs,           \* is_default of each location in the table
    subscribed,     \* the locations that have a subscription
    tx              \* the transaction of each session

vars == <<clients, locs, subscribed, tx>>

Flags == {"plain", "default"}

ASSUME LocationsAssumption ==
    /\ ClientOf \in [Locations -> Clients]
    /\ Touched \subseteq Locations
    /\ InitLocs \in [Locations -> {"new", "gone"} \cup Flags]
    /\ \A l, m \in Locations :
          InitLocs[l] = "default" /\ InitLocs[m] = "default" /\ ClientOf[l] = ClientOf[m] => l = m
    /\ InitSubscribed \subseteq {l \in Locations : InitLocs[l] \in Flags}
    /\ None \notin Locations

\* at: what the session does next.  row, todo: the row its statement has come to, and the
\* rows it has still to meet; mine: the rows it has locked or inserted.
Request ==
    [op : {"create", "update", "delete", "deleteClient", "subscribe"},
     loc : Locations \cup {None}, client : Clients, flag : Flags,
     at : {"find", "rows", "own", "index", "parent", "client", "check", "key", "commit"},
     row : Locations \cup {None}, todo : SUBSET Locations, mine : SUBSET Locations]

\* Every row and every local of a request has its type; a transaction holds rows of the
\* client it is about and of nobody else.
TypeOK ==
    /\ clients \subseteq Clients
    /\ locs \in [Locations -> {"new", "gone"} \cup Flags]
    /\ subscribed \subseteq Locations
    /\ tx \in [Sessions -> Request \cup {None}]
    /\ \A s \in Sessions : tx[s] # None => \A l \in tx[s].mine : ClientOf[l] = tx[s].client

Init ==
    /\ clients = Clients
    /\ locs = InitLocs
    /\ subscribed = InitSubscribed
    /\ tx = [s \in Sessions |-> None]

-----------------------------------------------------------------------------
(* Rows and locks. *)

InTable(l) == locs[l] \in Flags
Busy(s) == tx[s] # None
At(s, phase) == Busy(s) /\ tx[s].at = phase

\* WHERE client_id = $1 AND id <> $2
\* Mutant: the condition on the client is left out.
OthersOfAll(c, l) == {m \in Locations : InTable(m) /\ m # l}
Others(c, l) == {m \in Locations : InTable(m) /\ ClientOf[m] = c /\ m # l}

Deletes(s) == tx[s].op \in {"delete", "deleteClient"}
\* An entry of the index that is not committed yet.
Claims(s) == tx[s].flag = "default" /\ tx[s].at \in {"parent", "commit"}
\* Mutant: a subscription under way does not hold its location.
HoldsNothing(s, l) == FALSE
\* FOR KEY SHARE of the foreign key checks.
KeepsLocation(s, l) == tx[s].op = "subscribe" /\ tx[s].at = "commit" /\ tx[s].loc = l
KeepsClient(s) == tx[s].op = "create" /\ tx[s].at = "commit"
HoldsClient(s) == tx[s].op = "deleteClient" /\ tx[s].at # "client"

\* x is in the way of what s does next.
InTheWay(x, s) ==
    LET r == tx[s]
        sameClient == tx[x].client = r.client
    IN  \/ r.at = "rows" /\ (r.row \in tx[x].mine \/ (Deletes(s) /\ KeepsLocation(x, r.row)))
        \/ r.at = "own" /\ r.loc \in tx[x].mine
        \/ /\ r.at = "index" /\ sameClient
           /\ Claims(x) \/ \E l \in tx[x].mine : locs[l] = "default"
        \/ r.at = "parent" /\ sameClient /\ HoldsClient(x)
        \/ r.at = "client" /\ sameClient /\ (HoldsClient(x) \/ KeepsClient(x))
        \/ r.at = "key" /\ Deletes(x) /\ r.loc \in tx[x].mine
WaitsFor(s) == {x \in Sessions \ {s} : Busy(x) /\ Busy(s) /\ InTheWay(x, s)}
Runs(s, phase) == At(s, phase) /\ WaitsFor(s) = {}

\* Mutant: the index lets everything in.
AdmitsAll(s) == TRUE
\* idx_locations_one_default.
IndexAdmits(s) ==
    \A l \in Locations \ tx[s].mine : ClientOf[l] = tx[s].client => locs[l] # "default"

-----------------------------------------------------------------------------
(* Transactions. *)

Set(s, r) ==
    /\ tx' = [tx EXCEPT ![s] = r]
    /\ UNCHANGED <<clients, locs, subscribed>>

\* Mutant: WithTx returns the error of its callback and rolls nothing back.
NoRollback(s) == UNCHANGED vars
Rollback(s) == Set(s, None)

Begin(s, op, l, c, flag, at) ==
    /\ ~Busy(s)
    /\ Set(s, [op |-> op, loc |-> l, client |-> c, flag |-> flag, at |-> at,
               row |-> IF op = "delete" THEN l ELSE None,
               todo |-> {}, mine |-> IF op = "create" THEN {l} ELSE {}])

\* A statement of r goes on to the rows S, or to what follows it when there are none.
AfterRows(r) == IF r.op = "update" THEN "own" ELSE "check"
Scan(r, S) ==
    IF S = {} THEN {[r EXCEPT !.at = AfterRows(r), !.row = None, !.todo = {}]}
    ELSE {[r EXCEPT !.at = "rows", !.row = m, !.todo = S \ {m}] : m \in S}

-----------------------------------------------------------------------------
(* Requests. *)

CreateLocation(s, l, flag) ==
    /\ locs[l] = "new"
    /\ \A x \in Sessions : Busy(x) => l \notin tx[x].mine
    /\ Begin(s, "create", l, ClientOf[l], flag, IF flag = "default" THEN "index" ELSE "parent")

\* Mutant: the other locations are cleared whatever the request asks for.
ClearsAlways(flag) == "find"
\* if l.IsDefault
FirstUpdate(flag) == IF flag = "default" THEN "find" ELSE "own"
\* SELECT client_id finds the row, or the request is refused.
UpdateLocation(s, l, flag) ==
    InTable(l) /\ Begin(s, "update", l, ClientOf[l], flag, FirstUpdate(flag))

\* SELECT EXISTS finds no subscription, or the request is refused.
DeleteLocation(s, l) ==
    InTable(l) /\ l \notin subscribed /\ Begin(s, "delete", l, ClientOf[l], "plain", "rows")

DeleteClient(s, c) == c \in clients /\ Begin(s, "deleteClient", None, c, "plain", "client")

Subscribe(s, l) == InTable(l) /\ Begin(s, "subscribe", l, ClientOf[l], "plain", "key")

\* SubscriptionRepo.Delete, when the location has no other one.
Unsubscribe(l) ==
    /\ l \in subscribed
    /\ subscribed' = subscribed \ {l}
    /\ UNCHANGED <<clients, locs, tx>>

-----------------------------------------------------------------------------
(* Statements. *)

\* UPDATE ... SET is_default = FALSE: the rows that its snapshot finds.
FindOthers(s) ==
    /\ At(s, "find")
    /\ \E r \in Scan(tx[s], Others(tx[s].client, tx[s].loc)) : Set(s, r)

\* The next row, in its latest version; one that has gone meanwhile is passed over, but
\* DeleteLocation fails without its row.
TakeRow(s) ==
    /\ Runs(s, "rows")
    /\ LET r == tx[s]
           taken == [r EXCEPT !.mine = IF InTable(r.row) THEN @ \cup {r.row} ELSE @]
       IN  IF r.op = "delete" /\ ~InTable(r.row) THEN Rollback(s)
           ELSE \E n \in Scan(taken, r.todo) : Set(s, n)

\* UPDATE ... WHERE id = $4 RETURNING
WriteOwn(s) ==
    /\ Runs(s, "own")
    /\ IF InTable(tx[s].loc)
       THEN Set(s, [tx[s] EXCEPT !.mine = @ \cup {tx[s].loc},
                                 !.at = IF tx[s].flag = "default" THEN "index" ELSE "commit"])
       ELSE Rollback(s)

EnterIndex(s) ==
    /\ Runs(s, "index")
    /\ IF IndexAdmits(s)
       THEN Set(s, [tx[s] EXCEPT !.at = IF tx[s].op = "create" THEN "parent" ELSE "commit"])
       ELSE Rollback(s)

\* REFERENCES billcore.clients
CheckParent(s) ==
    /\ Runs(s, "parent")
    /\ IF tx[s].client \in clients THEN Set(s, [tx[s] EXCEPT !.at = "commit"]) ELSE Rollback(s)

\* DELETE FROM clients, and the cascade to its locations.
LockClient(s) ==
    /\ Runs(s, "client")
    /\ IF tx[s].client \in clients
       THEN \E r \in Scan(tx[s], Others(tx[s].client, None)) : Set(s, r)
       ELSE Rollback(s)

\* ON DELETE RESTRICT of the subscriptions.
CheckSubscriptions(s) ==
    /\ At(s, "check")
    /\ IF tx[s].mine \cap subscribed = {} THEN Set(s, [tx[s] EXCEPT !.at = "commit"])
       ELSE Rollback(s)

\* REFERENCES billcore.locations
TakeKey(s) ==
    /\ Runs(s, "key")
    /\ IF InTable(tx[s].loc) THEN Set(s, [tx[s] EXCEPT !.at = "commit"]) ELSE Rollback(s)

Version(r, l) ==
    IF r.op \in {"delete", "deleteClient"} THEN "gone" ELSE IF l = r.loc THEN r.flag ELSE "plain"
Commit(s) ==
    /\ At(s, "commit")
    /\ LET r == tx[s]
       IN  /\ locs' = [l \in Locations |-> IF l \in r.mine THEN Version(r, l) ELSE locs[l]]
           /\ clients' = IF r.op = "deleteClient" THEN clients \ {r.client} ELSE clients
           /\ subscribed' = IF r.op = "subscribe" THEN subscribed \cup {r.loc} ELSE subscribed
    /\ tx' = [tx EXCEPT ![s] = None]

Continue(s) ==
    \/ FindOthers(s) \/ TakeRow(s) \/ WriteOwn(s) \/ EnterIndex(s) \/ CheckParent(s)
    \/ LockClient(s) \/ CheckSubscriptions(s) \/ TakeKey(s) \/ Commit(s)

-----------------------------------------------------------------------------
\* The request is cancelled or its connection lost.
Abort(s) == Busy(s) /\ Rollback(s)

\* Every session of a ring waits for another one of it; no smaller ring is inside.
Ring(C) == C # {} /\ \A x \in C : WaitsFor(x) \cap C # {}
InRing(s) ==
    \E C \in SUBSET Sessions :
        s \in C /\ Ring(C) /\ \A D \in SUBSET C : Ring(D) => D = C
BreakRing(s) == Busy(s) /\ InRing(s) /\ Rollback(s)

Next ==
    \/ \E s \in Sessions :
          \/ \E l \in Touched :
                \/ \E flag \in Flags : CreateLocation(s, l, flag) \/ UpdateLocation(s, l, flag)
                \/ DeleteLocation(s, l)
                \/ Subscribe(s, l)
                \/ DeleteClient(s, ClientOf[l])
          \/ Continue(s) \/ Abort(s) \/ BreakRing(s)
    \/ \E l \in Touched : Unsubscribe(l)

Spec == Init /\ [][Next]_vars

\* A statement that can go on does so in the end, as PostgreSQL gives a row to the one who
\* has waited for it; and the detector looks at every ring.
FairSpec == Spec /\ \A s \in Sessions : SF_vars(Continue(s)) /\ WF_vars(BreakRing(s))

-----------------------------------------------------------------------------
(* Properties. *)

\* A client never has two default locations, however new ones, changes and deletions of its
\* locations interleave.
OneDefault ==
    \A l, m \in Locations :
        locs[l] = "default" /\ locs[m] = "default" /\ ClientOf[l] = ClientOf[m] => l = m

\* A subscription never loses its location, nor a location its client: not to a deletion that
\* looked for subscriptions before this one came, nor to the cascade of a client.
LocationsKept ==
    /\ \A l \in subscribed : InTable(l)
    /\ \A l \in Locations : InTable(l) => ClientOf[l] \in clients

\* Two requests wait for each other only if one of them moves the default of a client, and
\* the other one does so too or deletes that client: saving any other change of a location
\* never meets a deadlock with a second request.
MovesDefault(s) == tx[s].op = "update" /\ tx[s].flag = "default"
DeadlocksMoveDefaults ==
    \A s, x \in Sessions :
        x \in WaitsFor(s) /\ s \in WaitsFor(x) =>
            /\ tx[s].client = tx[x].client
            /\ MovesDefault(s) \/ MovesDefault(x)
            /\ \A y \in {s, x} : MovesDefault(y) \/ tx[y].op = "deleteClient"

\* Every request ends, although two changes of the default can lock the rows of a client in
\* opposite orders.
RequestsEnd == \A s \in Sessions : Busy(s) ~> ~Busy(s)

Book == INSTANCE LocationBook WITH book <- locs, InitBook <- InitLocs

\* The statements implement LocationBook: whatever they interleave with, the default moves
\* in one step, a refused request moves nothing, and other clients keep theirs.
ImplementsBook == Book!Spec
=============================================================================
