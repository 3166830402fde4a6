-------------------------- MODULE LocationsProofs --------------------------
(***************************************************************************)
(* Locations for any number of sessions, clients and locations: types, one *)
(* default location, no lost reference, the shape of deadlocks, and that   *)
(* the statements implement LocationBook.                                  *)
(***************************************************************************)
EXTENDS Locations, TLAPS

OfClient(c) == {l \in Locations : ClientOf[l] = c}

\* What each kind of request knows, by the statement it has reached.
CreateFits(s) ==
    LET r == tx[s]
    IN  r.op = "create" =>
          /\ r.loc \in OfClient(r.client)
          /\ r.mine = {r.loc} /\ locs[r.loc] = "new"
          /\ r.at \in {"index", "parent", "commit"}
          /\ r.at = "commit" => r.client \in clients
UpdateFits(s) ==
    LET r == tx[s]
    IN  r.op = "update" =>
          /\ r.loc \in OfClient(r.client) /\ locs[r.loc] # "new"
          /\ r.at \in {"find", "rows", "own", "index", "commit"}
          /\ r.at \in {"index", "commit"} => r.loc \in r.mine
          /\ r.flag = "plain" => /\ r.at \in {"own", "commit"}
                                 /\ r.at = "own" => r.mine = {}
                                 /\ r.at = "commit" => r.mine = {r.loc}
DeleteFits(s) ==
    LET r == tx[s]
    IN  r.op = "delete" =>
          /\ r.loc \in OfClient(r.client) /\ r.flag = "plain"
          /\ r.at \in {"rows", "check", "commit"}
          /\ r.at = "rows" => r.row = r.loc /\ r.todo = {} /\ r.mine = {}
          /\ r.at # "rows" => r.mine = {r.loc}
DeleteClientFits(s) ==
    LET r == tx[s]
    IN  r.op = "deleteClient" =>
          /\ r.at \in {"client", "rows", "check", "commit"} /\ r.flag = "plain"
          /\ r.at = "client" => r.mine = {}
          /\ r.at # "client" =>
                \A l \in OfClient(r.client) : InTable(l) =>
                    l \in r.mine \/ (r.at = "rows" /\ (l = r.row \/ l \in r.todo))
SubscribeFits(s) ==
    LET r == tx[s]
    IN  r.op = "subscribe" =>
          /\ r.loc \in OfClient(r.client) /\ r.flag = "plain" /\ r.mine = {}
          /\ r.at \in {"key", "commit"}
          /\ r.at = "commit" => InTable(r.loc)

Fits(s) ==
    /\ CreateFits(s) /\ UpdateFits(s) /\ DeleteFits(s) /\ DeleteClientFits(s) /\ SubscribeFits(s)
    /\ tx[s].mine \subseteq OfClient(tx[s].client)
    /\ tx[s].op # "create" => \A l \in tx[s].mine : InTable(l)
    /\ tx[s].at = "rows" => tx[s].row \in OfClient(tx[s].client) /\ locs[tx[s].row] # "new"
    /\ tx[s].todo \subseteq OfClient(tx[s].client)
    /\ \A l \in tx[s].todo : locs[l] # "new"
    /\ Deletes(s) /\ tx[s].at = "commit" => tx[s].mine \cap subscribed = {}
    /\ Claims(s) => IndexAdmits(s)

\* What two transactions cannot hold at once.
Apart(s, x) ==
    /\ tx[s].mine \cap tx[x].mine = {}
    /\ tx[s].client = tx[x].client =>
          /\ ~(Claims(s) /\ Claims(x))
          /\ ~(KeepsClient(s) /\ HoldsClient(x))
          /\ ~(HoldsClient(s) /\ HoldsClient(x))
    /\ Deletes(x) => \A l \in tx[x].mine : ~KeepsLocation(s, l)

LocInv ==
    /\ TypeOK
    /\ OneDefault
    /\ LocationsKept
    /\ \A s \in Sessions : Busy(s) => Fits(s)
    /\ \A s, x \in Sessions : s # x /\ Busy(s) /\ Busy(x) => Apart(s, x)

-----------------------------------------------------------------------------
\* A step of session s that only changes its own transaction keeps the invariant, if the new
\* transaction fits and is apart from the others.
LEMMA OwnStepKeeps ==
    ASSUME LocInv, NEW s \in Sessions, NEW r \in Request, Set(s, r),
           r.mine \subseteq OfClient(r.client),
           Fits(s)',
           \A x \in Sessions \ {s} : Busy(x) => Apart(s, x)' /\ Apart(x, s)'
    PROVE  LocInv'
<1>1. tx' = [tx EXCEPT ![s] = r] /\ UNCHANGED <<clients, locs, subscribed>> BY DEF Set
<1>2. tx'[s] = r /\ \A x \in Sessions \ {s} : tx'[x] = tx[x] BY <1>1 DEF LocInv, TypeOK
<1>3. TypeOK' BY <1>1, <1>2 DEF LocInv, TypeOK, OfClient
<1>4. OneDefault' /\ LocationsKept'
  BY <1>1 DEF LocInv, OneDefault, LocationsKept, InTable
<1>5. ASSUME NEW x \in Sessions, Busy(x)' PROVE Fits(x)'
  <2>1. CASE x = s BY <2>1
  <2>2. CASE x # s
    <3>1. Fits(x) BY <1>2, <1>5, <2>2 DEF LocInv, Busy
    <3> QED BY <1>1, <1>2, <2>2, <3>1
        DEF Fits, CreateFits, UpdateFits, DeleteFits, DeleteClientFits, SubscribeFits, Deletes,
            Claims, IndexAdmits, InTable
  <2> QED BY <2>1, <2>2
<1>6. ASSUME NEW x \in Sessions, NEW y \in Sessions, x # y, Busy(x)', Busy(y)' PROVE Apart(x, y)'
  <2>1. CASE x # s /\ y # s
    <3>1. Apart(x, y) BY <1>2, <1>6, <2>1 DEF LocInv, Busy
    <3> QED BY <1>2, <2>1, <3>1 DEF Apart, Claims, KeepsClient, HoldsClient, Deletes, KeepsLocation
  <2>2. CASE x = s \/ y = s BY <1>2, <1>6, <2>2 DEF Busy
  <2> QED BY <2>1, <2>2
<1> QED BY <1>3, <1>4, <1>5, <1>6 DEF LocInv

\* Nothing of a transaction that is rolled back is left.
LEMMA RollbackKeeps ==
    ASSUME LocInv, NEW s \in Sessions, Rollback(s)
    PROVE  LocInv'
<1>1. tx' = [tx EXCEPT ![s] = None] /\ UNCHANGED <<clients, locs, subscribed>> BY DEF Rollback, Set
<1>2. tx'[s] = None /\ \A x \in Sessions \ {s} : tx'[x] = tx[x] BY <1>1 DEF LocInv, TypeOK
<1>3. TypeOK' BY <1>1, <1>2 DEF LocInv, TypeOK
<1>4. OneDefault' /\ LocationsKept' BY <1>1 DEF LocInv, OneDefault, LocationsKept, InTable
<1>5. ASSUME NEW x \in Sessions, Busy(x)' PROVE Fits(x)'
  <2>1. x # s /\ Fits(x) BY <1>2, <1>5 DEF LocInv, Busy
  <2> QED BY <1>1, <1>2, <2>1
      DEF Fits, CreateFits, UpdateFits, DeleteFits, DeleteClientFits, SubscribeFits, Deletes,
          Claims, IndexAdmits, InTable
<1>6. ASSUME NEW x \in Sessions, NEW y \in Sessions, x # y, Busy(x)', Busy(y)' PROVE Apart(x, y)'
  <2>1. x # s /\ y # s /\ Apart(x, y) BY <1>2, <1>6 DEF LocInv, Busy
  <2> QED BY <1>2, <2>1 DEF Apart, Claims, KeepsClient, HoldsClient, Deletes, KeepsLocation
<1> QED BY <1>3, <1>4, <1>5, <1>6 DEF LocInv

-----------------------------------------------------------------------------
(* A new request. *)

\* A request that has just begun holds at most the row it inserts.
LEMMA BeginSets ==
    ASSUME LocInv, NEW s \in Sessions, NEW op, NEW l, NEW c, NEW flag, NEW at,
           Begin(s, op, l, c, flag, at)
    PROVE  /\ tx[s] = None
           /\ UNCHANGED <<clients, locs, subscribed>>
           /\ \A x \in Sessions \ {s} : tx'[x] = tx[x]
           /\ tx'[s] = [op |-> op, loc |-> l, client |-> c, flag |-> flag, at |-> at,
                        row |-> IF op = "delete" THEN l ELSE None,
                        todo |-> {}, mine |-> IF op = "create" THEN {l} ELSE {}]
           /\ Set(s, tx'[s])
BY DEF Begin, Set, Busy, LocInv, TypeOK

\* The first statement of an INSERT: the row is nobody else's.
LEMMA CreateKeeps ==
    ASSUME LocInv, NEW s \in Sessions, NEW l \in Locations, NEW flag \in Flags,
           CreateLocation(s, l, flag)
    PROVE  LocInv'
<1>1. /\ locs[l] = "new"
      /\ \A x \in Sessions : Busy(x) => l \notin tx[x].mine
      /\ Begin(s, "create", l, ClientOf[l], flag, IF flag = "default" THEN "index" ELSE "parent")
  BY DEF CreateLocation
<1> DEFINE r == tx'[s]
<1>2. /\ r = [op |-> "create", loc |-> l, client |-> ClientOf[l], flag |-> flag,
              at |-> IF flag = "default" THEN "index" ELSE "parent",
              row |-> None, todo |-> {}, mine |-> {l}]
      /\ Set(s, r)
      /\ UNCHANGED <<clients, locs, subscribed>>
      /\ \A x \in Sessions \ {s} : tx'[x] = tx[x]
  BY <1>1, BeginSets
<1>3. r \in Request /\ r.mine \subseteq OfClient(r.client)
  BY <1>2, LocationsAssumption DEF Request, OfClient
<1>4. Fits(s)'
  BY <1>1, <1>2, LocationsAssumption
     DEF Fits, CreateFits, UpdateFits, DeleteFits, DeleteClientFits, SubscribeFits, Deletes,
         Claims, OfClient, Flags
<1>5. ASSUME NEW x \in Sessions \ {s}, Busy(x) PROVE Apart(s, x)' /\ Apart(x, s)'
  BY <1>1, <1>2, <1>5 DEF Apart, Claims, KeepsClient, HoldsClient, Deletes, KeepsLocation, Flags
<1> HIDE DEF r
<1> QED BY <1>2, <1>3, <1>4, <1>5, OwnStepKeeps

\* The other requests hold nothing at first.
LEMMA UpdateKeeps ==
    ASSUME LocInv, NEW s \in Sessions, NEW l \in Locations, NEW flag \in Flags,
           UpdateLocation(s, l, flag)
    PROVE  LocInv'
<1>1. InTable(l) /\ Begin(s, "update", l, ClientOf[l], flag, FirstUpdate(flag))
  BY DEF UpdateLocation
<1> DEFINE r == tx'[s]
<1>2. /\ r = [op |-> "update", loc |-> l, client |-> ClientOf[l], flag |-> flag,
              at |-> FirstUpdate(flag), row |-> None, todo |-> {}, mine |-> {}]
      /\ Set(s, r)
      /\ UNCHANGED <<clients, locs, subscribed>>
      /\ \A x \in Sessions \ {s} : tx'[x] = tx[x]
  BY <1>1, BeginSets
<1>3. r \in Request /\ r.mine \subseteq OfClient(r.client)
  BY <1>2, LocationsAssumption DEF Request, OfClient, FirstUpdate
<1>4. Fits(s)'
  BY <1>1, <1>2, LocationsAssumption
     DEF Fits, CreateFits, UpdateFits, DeleteFits, DeleteClientFits, SubscribeFits, Deletes,
         Claims, OfClient, Flags, FirstUpdate, InTable
<1>5. ASSUME NEW x \in Sessions \ {s}, Busy(x) PROVE Apart(s, x)' /\ Apart(x, s)'
  BY <1>2, <1>5
     DEF Apart, Claims, KeepsClient, HoldsClient, Deletes, KeepsLocation, FirstUpdate
<1> HIDE DEF r
<1> QED BY <1>2, <1>3, <1>4, <1>5, OwnStepKeeps

\* A deletion comes to its one row first.
LEMMA DeleteKeeps ==
    ASSUME LocInv, NEW s \in Sessions, NEW l \in Locations, DeleteLocation(s, l)
    PROVE  LocInv'
<1>1. InTable(l) /\ Begin(s, "delete", l, ClientOf[l], "plain", "rows") BY DEF DeleteLocation
<1> DEFINE r == tx'[s]
<1>2. /\ r = [op |-> "delete", loc |-> l, client |-> ClientOf[l], flag |-> "plain",
              at |-> "rows", row |-> l, todo |-> {}, mine |-> {}]
      /\ Set(s, r)
      /\ UNCHANGED <<clients, locs, subscribed>>
      /\ \A x \in Sessions \ {s} : tx'[x] = tx[x]
  BY <1>1, BeginSets
<1>3. r \in Request /\ r.mine \subseteq OfClient(r.client)
  BY <1>2, LocationsAssumption DEF Request, OfClient, Flags
<1>4. Fits(s)'
  BY <1>1, <1>2, LocationsAssumption
     DEF Fits, CreateFits, UpdateFits, DeleteFits, DeleteClientFits, SubscribeFits, Deletes,
         Claims, OfClient, Flags, InTable
<1>5. ASSUME NEW x \in Sessions \ {s}, Busy(x) PROVE Apart(s, x)' /\ Apart(x, s)'
  BY <1>2, <1>5 DEF Apart, Claims, KeepsClient, HoldsClient, Deletes, KeepsLocation
<1> HIDE DEF r
<1> QED BY <1>2, <1>3, <1>4, <1>5, OwnStepKeeps

\* The deletion of a client has not even locked it.
LEMMA DeleteClientKeeps ==
    ASSUME LocInv, NEW s \in Sessions, NEW c \in Clients, DeleteClient(s, c)
    PROVE  LocInv'
<1>1. Begin(s, "deleteClient", None, c, "plain", "client") BY DEF DeleteClient
<1> DEFINE r == tx'[s]
<1>2. /\ r = [op |-> "deleteClient", loc |-> None, client |-> c, flag |-> "plain",
              at |-> "client", row |-> None, todo |-> {}, mine |-> {}]
      /\ Set(s, r)
      /\ UNCHANGED <<clients, locs, subscribed>>
      /\ \A x \in Sessions \ {s} : tx'[x] = tx[x]
  BY <1>1, BeginSets
<1>3. r \in Request /\ r.mine \subseteq OfClient(r.client) BY <1>2 DEF Request, Flags
<1>4. Fits(s)'
  BY <1>2
     DEF Fits, CreateFits, UpdateFits, DeleteFits, DeleteClientFits, SubscribeFits, Deletes,
         Claims
<1>5. ASSUME NEW x \in Sessions \ {s}, Busy(x) PROVE Apart(s, x)' /\ Apart(x, s)'
  BY <1>2, <1>5 DEF Apart, Claims, KeepsClient, HoldsClient, Deletes, KeepsLocation
<1> HIDE DEF r
<1> QED BY <1>2, <1>3, <1>4, <1>5, OwnStepKeeps

\* A subscription under way holds its location only once it has found it.
LEMMA SubscribeKeeps ==
    ASSUME LocInv, NEW s \in Sessions, NEW l \in Locations, Subscribe(s, l)
    PROVE  LocInv'
<1>1. Begin(s, "subscribe", l, ClientOf[l], "plain", "key") BY DEF Subscribe
<1> DEFINE r == tx'[s]
<1>2. /\ r = [op |-> "subscribe", loc |-> l, client |-> ClientOf[l], flag |-> "plain",
              at |-> "key", row |-> None, todo |-> {}, mine |-> {}]
      /\ Set(s, r)
      /\ UNCHANGED <<clients, locs, subscribed>>
      /\ \A x \in Sessions \ {s} : tx'[x] = tx[x]
  BY <1>1, BeginSets
<1>3. r \in Request /\ r.mine \subseteq OfClient(r.client)
  BY <1>2, LocationsAssumption DEF Request, Flags
<1>4. Fits(s)'
  BY <1>2, LocationsAssumption
     DEF Fits, CreateFits, UpdateFits, DeleteFits, DeleteClientFits, SubscribeFits, Deletes,
         Claims, OfClient
<1>5. ASSUME NEW x \in Sessions \ {s}, Busy(x) PROVE Apart(s, x)' /\ Apart(x, s)'
  BY <1>2, <1>5 DEF Apart, Claims, KeepsClient, HoldsClient, Deletes, KeepsLocation
<1> HIDE DEF r
<1> QED BY <1>2, <1>3, <1>4, <1>5, OwnStepKeeps

\* A subscription fewer holds less.
LEMMA UnsubscribeKeeps ==
    ASSUME LocInv, NEW l \in Locations, Unsubscribe(l)
    PROVE  LocInv'
<1>1. subscribed' = subscribed \ {l} /\ UNCHANGED <<clients, locs, tx>> BY DEF Unsubscribe
<1>2. TypeOK' /\ OneDefault' /\ LocationsKept'
  BY <1>1 DEF LocInv, TypeOK, OneDefault, LocationsKept, InTable
<1>3. ASSUME NEW x \in Sessions, Busy(x)' PROVE Fits(x)'
  <2>1. Fits(x) BY <1>1, <1>3 DEF LocInv, Busy
  <2> QED BY <1>1, <2>1
      DEF Fits, CreateFits, UpdateFits, DeleteFits, DeleteClientFits, SubscribeFits, Deletes,
          Claims, IndexAdmits, InTable
<1>4. ASSUME NEW x \in Sessions, NEW y \in Sessions, x # y, Busy(x)', Busy(y)' PROVE Apart(x, y)'
  <2>1. Apart(x, y) BY <1>1, <1>4 DEF LocInv, Busy
  <2> QED BY <1>1, <2>1 DEF Apart, Claims, KeepsClient, HoldsClient, Deletes, KeepsLocation
<1> QED BY <1>2, <1>3, <1>4 DEF LocInv

-----------------------------------------------------------------------------
(* The statements of a request that is under way. *)

\* A statement that runs waits for nobody.
LEMMA RunsFree ==
    ASSUME NEW s \in Sessions, NEW phase, Runs(s, phase)
    PROVE  /\ Busy(s) /\ tx[s].at = phase
           /\ \A x \in Sessions \ {s} : Busy(x) => ~InTheWay(x, s)
BY DEF Runs, At, WaitsFor

\* What the invariant says of the session that runs.
LEMMA OwnFacts ==
    ASSUME LocInv, NEW s \in Sessions, Busy(s)
    PROVE  /\ tx[s] \in Request /\ Fits(s)
           /\ \A x \in Sessions \ {s} : Busy(x) =>
                 tx[x] \in Request /\ Fits(x) /\ Apart(s, x) /\ Apart(x, s)
           /\ \A r : Set(s, r) => /\ tx'[s] = r
                                  /\ UNCHANGED <<clients, locs, subscribed>>
                                  /\ \A x \in Sessions \ {s} : tx'[x] = tx[x]
BY DEF LocInv, TypeOK, Busy, Set

\* What a statement meets next is a request again.
LEMMA ScanFacts ==
    ASSUME NEW r \in Request, NEW S \in SUBSET Locations, NEW n \in Scan(r, S)
    PROVE  /\ n \in Request
           /\ n.op = r.op /\ n.loc = r.loc /\ n.client = r.client /\ n.flag = r.flag
           /\ n.mine = r.mine
           /\ \/ S = {} /\ n.at = AfterRows(r) /\ n.row = None /\ n.todo = {}
              \/ n.at = "rows" /\ n.row \in S /\ n.todo = S \ {n.row}
<1>1. CASE S = {}
  <2>1. n = [r EXCEPT !.at = AfterRows(r), !.row = None, !.todo = {}] BY <1>1 DEF Scan
  <2> QED BY <1>1, <2>1 DEF Request, AfterRows
<1>2. CASE S # {}
  <2>1. PICK m \in S : n = [r EXCEPT !.at = "rows", !.row = m, !.todo = S \ {m}] BY <1>2 DEF Scan
  <2> QED BY <2>1 DEF Request
<1> QED BY <1>1, <1>2

\* Looking for the other locations locks none of them.
LEMMA FindOthersKeeps ==
    ASSUME LocInv, NEW s \in Sessions, FindOthers(s)
    PROVE  LocInv'
<1>1. Busy(s) /\ tx[s].at = "find" BY DEF FindOthers, At
<1>2. PICK r \in Scan(tx[s], Others(tx[s].client, tx[s].loc)) : Set(s, r) BY DEF FindOthers
<1>3. tx[s].op = "update" /\ tx[s].flag = "default"
  BY <1>1, OwnFacts
     DEF Request, Flags, Fits, CreateFits, UpdateFits, DeleteFits, DeleteClientFits, SubscribeFits
<1>4. /\ Others(tx[s].client, tx[s].loc) \in SUBSET OfClient(tx[s].client)
      /\ \A l \in Others(tx[s].client, tx[s].loc) : locs[l] # "new"
  BY DEF Others, OfClient, InTable, Flags
<1>5. /\ r \in Request /\ r.op = "update" /\ r.flag = "default" /\ r.loc = tx[s].loc
      /\ r.client = tx[s].client /\ r.mine = tx[s].mine
      /\ r.at \in {"rows", "own"} /\ r.todo \subseteq OfClient(r.client)
      /\ r.at = "rows" => r.row \in OfClient(r.client) /\ locs[r.row] # "new"
      /\ \A l \in r.todo : locs[l] # "new"
  BY <1>1, <1>2, <1>3, <1>4, OwnFacts, ScanFacts DEF AfterRows, OfClient
<1>6. Fits(s)' /\ r.mine \subseteq OfClient(r.client)
  BY <1>1, <1>2, <1>3, <1>5, OwnFacts
     DEF Fits, CreateFits, UpdateFits, DeleteFits, DeleteClientFits, SubscribeFits, Deletes,
         Claims, InTable
<1>7. ASSUME NEW x \in Sessions \ {s}, Busy(x) PROVE Apart(s, x)' /\ Apart(x, s)'
  BY <1>1, <1>2, <1>3, <1>5, <1>7, OwnFacts
     DEF Apart, Claims, KeepsClient, HoldsClient, Deletes, KeepsLocation
<1> QED BY <1>2, <1>5, <1>6, <1>7, OwnStepKeeps

\* A row is locked when nobody else has it, and no subscription under way needs it to stay.
LEMMA TakeRowKeeps ==
    ASSUME LocInv, NEW s \in Sessions, TakeRow(s)
    PROVE  LocInv'
<1> DEFINE o == tx[s]
           taken == [o EXCEPT !.mine = IF InTable(o.row) THEN @ \cup {o.row} ELSE @]
<1>1. /\ Busy(s) /\ o.at = "rows"
      /\ \A x \in Sessions \ {s} : Busy(x) =>
            o.row \notin tx[x].mine /\ (Deletes(s) => ~KeepsLocation(x, o.row))
  BY RunsFree DEF TakeRow, InTheWay
<1>2. CASE o.op = "delete" /\ ~InTable(o.row) BY <1>2, RollbackKeeps DEF TakeRow
<1>3. CASE ~(o.op = "delete" /\ ~InTable(o.row))
  <2>1. PICK r \in Scan(taken, o.todo) : Set(s, r) BY <1>3 DEF TakeRow
  <2>2. /\ o \in Request /\ Fits(s)
        /\ o.row \in OfClient(o.client) /\ o.todo \subseteq OfClient(o.client)
    BY <1>1, OwnFacts DEF Fits
  <2>3. /\ taken \in Request /\ taken.op = o.op /\ taken.loc = o.loc /\ taken.client = o.client
        /\ taken.flag = o.flag
        /\ taken.mine = IF InTable(o.row) THEN o.mine \cup {o.row} ELSE o.mine
    BY <2>2 DEF Request, OfClient
  <2>4. o.todo \in SUBSET Locations BY <2>2 DEF OfClient
  <2> HIDE DEF taken
  <2>5. /\ r \in Request /\ r.op = o.op /\ r.loc = o.loc /\ r.client = o.client /\ r.flag = o.flag
        /\ r.mine = IF InTable(o.row) THEN o.mine \cup {o.row} ELSE o.mine
        /\ \/ o.todo = {} /\ r.at = AfterRows(o) /\ r.row = None /\ r.todo = {}
           \/ r.at = "rows" /\ r.row \in o.todo /\ r.todo = o.todo \ {r.row}
    BY <2>1, <2>3, <2>4, ScanFacts DEF AfterRows
  <2>6. o.op \in {"update", "delete", "deleteClient"}
    BY <1>1, <2>2 DEF Request, Fits, CreateFits, SubscribeFits
  <2>7. r.mine \subseteq OfClient(r.client) BY <2>2, <2>5 DEF Fits
  <2>8. Fits(s)'
    <3>1. /\ tx'[s] = r /\ UNCHANGED <<clients, locs, subscribed>> BY <1>1, <2>1, OwnFacts
    <3>2. CreateFits(s)' /\ SubscribeFits(s)' BY <2>5, <2>6, <3>1 DEF CreateFits, SubscribeFits
    <3>3. UpdateFits(s)'
      BY <1>1, <2>2, <2>5, <3>1 DEF UpdateFits, Fits, Request, Flags, AfterRows
    <3>4. DeleteFits(s)'
      BY <1>1, <1>3, <2>2, <2>5, <3>1 DEF DeleteFits, Fits, Request, Flags, AfterRows
    <3>5. DeleteClientFits(s)'
      BY <1>1, <2>2, <2>5, <3>1 DEF DeleteClientFits, Fits, AfterRows, InTable, OfClient
    <3> QED BY <1>1, <2>2, <2>5, <2>6, <2>7, <3>1, <3>2, <3>3, <3>4, <3>5
        DEF Fits, Deletes, Claims, InTable, AfterRows
  <2>9. ASSUME NEW x \in Sessions \ {s}, Busy(x) PROVE Apart(s, x)' /\ Apart(x, s)'
    BY <1>1, <2>1, <2>5, <2>6, <2>9, OwnFacts
       DEF Apart, Claims, KeepsClient, HoldsClient, Deletes, KeepsLocation, AfterRows
  <2> QED BY <2>1, <2>5, <2>7, <2>8, <2>9, OwnStepKeeps
<1> QED BY <1>2, <1>3

\* The row itself, which nobody else has either.
LEMMA WriteOwnKeeps ==
    ASSUME LocInv, NEW s \in Sessions, WriteOwn(s)
    PROVE  LocInv'
<1> DEFINE o == tx[s]
           r == [o EXCEPT !.mine = @ \cup {o.loc},
                          !.at = IF o.flag = "default" THEN "index" ELSE "commit"]
<1>1. /\ Busy(s) /\ o.at = "own"
      /\ \A x \in Sessions \ {s} : Busy(x) => o.loc \notin tx[x].mine
  BY RunsFree DEF WriteOwn, InTheWay
<1>2. CASE ~InTable(o.loc) BY <1>2, RollbackKeeps DEF WriteOwn
<1>3. CASE InTable(o.loc)
  <2>1. Set(s, r) BY <1>3 DEF WriteOwn
  <2>2. o \in Request /\ Fits(s) /\ o.op = "update" /\ o.loc \in OfClient(o.client)
    BY <1>1, OwnFacts
       DEF Request, Flags, Fits, CreateFits, UpdateFits, DeleteFits, DeleteClientFits, SubscribeFits
  <2>3. /\ r \in Request /\ r.op = "update" /\ r.loc = o.loc /\ r.client = o.client
        /\ r.flag = o.flag /\ r.todo = o.todo /\ r.row = o.row /\ r.mine = o.mine \cup {o.loc}
        /\ r.at = IF o.flag = "default" THEN "index" ELSE "commit"
    BY <2>2 DEF Request, OfClient
  <2> HIDE DEF r
  <2>4. r.mine \subseteq OfClient(r.client) BY <2>2, <2>3 DEF Fits
  <2>5. Fits(s)'
    <3>1. /\ tx'[s] = r /\ UNCHANGED <<clients, locs, subscribed>> BY <1>1, <2>1, OwnFacts
    <3> QED BY <1>1, <1>3, <2>2, <2>3, <2>4, <3>1
        DEF Fits, CreateFits, UpdateFits, DeleteFits, DeleteClientFits, SubscribeFits, Deletes,
            Claims, InTable
  <2>6. ASSUME NEW x \in Sessions \ {s}, Busy(x) PROVE Apart(s, x)' /\ Apart(x, s)'
    BY <1>1, <2>1, <2>2, <2>3, <2>6, OwnFacts
       DEF Apart, Claims, KeepsClient, HoldsClient, Deletes, KeepsLocation
  <2> QED BY <2>1, <2>3, <2>4, <2>5, <2>6, OwnStepKeeps
<1> QED BY <1>2, <1>3

\* The index admits one entry per client.
LEMMA EnterIndexKeeps ==
    ASSUME LocInv, NEW s \in Sessions, EnterIndex(s)
    PROVE  LocInv'
<1> DEFINE o == tx[s]
           r == [o EXCEPT !.at = IF o.op = "create" THEN "parent" ELSE "commit"]
<1>1. /\ Busy(s) /\ o.at = "index"
      /\ \A x \in Sessions \ {s} : Busy(x) => ~(tx[x].client = o.client /\ Claims(x))
  BY RunsFree DEF EnterIndex, InTheWay
<1>2. CASE ~IndexAdmits(s) BY <1>2, RollbackKeeps DEF EnterIndex
<1>3. CASE IndexAdmits(s)
  <2>1. Set(s, r) BY <1>3 DEF EnterIndex
  <2>2. o \in Request /\ Fits(s) /\ o.op \in {"create", "update"}
    BY <1>1, OwnFacts DEF Request, Fits, DeleteFits, DeleteClientFits, SubscribeFits
  <2>3. /\ r \in Request /\ r.op = o.op /\ r.loc = o.loc /\ r.client = o.client
        /\ r.flag = o.flag /\ r.todo = o.todo /\ r.row = o.row /\ r.mine = o.mine
        /\ r.at = IF o.op = "create" THEN "parent" ELSE "commit"
    BY <2>2 DEF Request
  <2> HIDE DEF r
  <2>4. r.mine \subseteq OfClient(r.client) BY <2>2, <2>3 DEF Fits
  <2>5. Fits(s)'
    <3>1. /\ tx'[s] = r /\ UNCHANGED <<clients, locs, subscribed>> BY <1>1, <2>1, OwnFacts
    <3>2. IndexAdmits(s)' BY <1>3, <2>3, <3>1 DEF IndexAdmits
    <3> QED BY <1>1, <2>2, <2>3, <2>4, <3>1, <3>2
        DEF Fits, CreateFits, UpdateFits, DeleteFits, DeleteClientFits, SubscribeFits, Deletes,
            InTable, Request, Flags
  <2>6. ASSUME NEW x \in Sessions \ {s}, Busy(x) PROVE Apart(s, x)' /\ Apart(x, s)'
    BY <1>1, <2>1, <2>2, <2>3, <2>6, OwnFacts
       DEF Apart, Claims, KeepsClient, HoldsClient, Deletes, KeepsLocation
  <2> QED BY <2>1, <2>3, <2>4, <2>5, <2>6, OwnStepKeeps
<1> QED BY <1>2, <1>3

\* A new location holds its client, which nobody deletes.
LEMMA CheckParentKeeps ==
    ASSUME LocInv, NEW s \in Sessions, CheckParent(s)
    PROVE  LocInv'
<1> DEFINE o == tx[s]
           r == [o EXCEPT !.at = "commit"]
<1>1. /\ Busy(s) /\ o.at = "parent"
      /\ \A x \in Sessions \ {s} : Busy(x) => ~(tx[x].client = o.client /\ HoldsClient(x))
  BY RunsFree DEF CheckParent, InTheWay
<1>2. CASE o.client \notin clients BY <1>2, RollbackKeeps DEF CheckParent
<1>3. CASE o.client \in clients
  <2>1. Set(s, r) BY <1>3 DEF CheckParent
  <2>2. o \in Request /\ Fits(s) /\ o.op = "create"
    BY <1>1, OwnFacts DEF Request, Fits, UpdateFits, DeleteFits, DeleteClientFits, SubscribeFits
  <2>3. /\ r \in Request /\ r.op = "create" /\ r.loc = o.loc /\ r.client = o.client
        /\ r.flag = o.flag /\ r.todo = o.todo /\ r.row = o.row /\ r.mine = o.mine
        /\ r.at = "commit"
    BY <2>2 DEF Request
  <2> HIDE DEF r
  <2>4. r.mine \subseteq OfClient(r.client) BY <2>2, <2>3 DEF Fits
  <2>5. Fits(s)'
    <3>1. /\ tx'[s] = r /\ UNCHANGED <<clients, locs, subscribed>> BY <1>1, <2>1, OwnFacts
    <3> QED BY <1>1, <1>3, <2>2, <2>3, <2>4, <3>1
        DEF Fits, CreateFits, UpdateFits, DeleteFits, DeleteClientFits, SubscribeFits, Deletes,
            Claims, IndexAdmits, InTable
  <2>6. ASSUME NEW x \in Sessions \ {s}, Busy(x) PROVE Apart(s, x)' /\ Apart(x, s)'
    BY <1>1, <2>1, <2>2, <2>3, <2>6, OwnFacts
       DEF Apart, Claims, KeepsClient, HoldsClient, Deletes, KeepsLocation
  <2> QED BY <2>1, <2>3, <2>4, <2>5, <2>6, OwnStepKeeps
<1> QED BY <1>2, <1>3

\* A deletion holds the client, and meets every location it has.
LEMMA LockClientKeeps ==
    ASSUME LocInv, NEW s \in Sessions, LockClient(s)
    PROVE  LocInv'
<1> DEFINE o == tx[s]
           S == Others(o.client, None)
<1>1. /\ Busy(s) /\ o.at = "client"
      /\ \A x \in Sessions \ {s} : Busy(x) =>
            ~(tx[x].client = o.client /\ (HoldsClient(x) \/ KeepsClient(x)))
  BY RunsFree DEF LockClient, InTheWay
<1>2. CASE o.client \notin clients BY <1>2, RollbackKeeps DEF LockClient
<1>3. CASE o.client \in clients
  <2>1. PICK r \in Scan(o, S) : Set(s, r) BY <1>3 DEF LockClient
  <2>2. o \in Request /\ Fits(s) /\ o.op = "deleteClient" /\ o.flag = "plain" /\ o.mine = {}
    BY <1>1, OwnFacts
       DEF Request, Fits, CreateFits, UpdateFits, DeleteFits, DeleteClientFits, SubscribeFits
  <2>3. S = {l \in OfClient(o.client) : InTable(l)} /\ S \in SUBSET Locations
    BY LocationsAssumption DEF Others, OfClient
  <2>4. /\ r \in Request /\ r.op = "deleteClient" /\ r.client = o.client /\ r.flag = "plain"
        /\ r.mine = {}
        /\ \/ S = {} /\ r.at = "check" /\ r.todo = {}
           \/ r.at = "rows" /\ r.row \in S /\ r.todo = S \ {r.row}
    BY <2>1, <2>2, <2>3, ScanFacts DEF AfterRows
  <2>5. Fits(s)' /\ r.mine \subseteq OfClient(r.client)
    <3>1. /\ tx'[s] = r /\ UNCHANGED <<clients, locs, subscribed>> BY <1>1, <2>1, OwnFacts
    <3> QED BY <2>3, <2>4, <3>1
        DEF Fits, CreateFits, UpdateFits, DeleteFits, DeleteClientFits, SubscribeFits, Deletes,
            Claims, InTable, Flags
  <2>6. ASSUME NEW x \in Sessions \ {s}, Busy(x) PROVE Apart(s, x)' /\ Apart(x, s)'
    BY <1>1, <2>1, <2>2, <2>4, <2>6, OwnFacts
       DEF Apart, Claims, KeepsClient, HoldsClient, Deletes, KeepsLocation
  <2> QED BY <2>1, <2>4, <2>5, <2>6, OwnStepKeeps
<1> QED BY <1>2, <1>3

\* A deletion whose rows have no subscription keeps them locked until it commits.
LEMMA CheckSubscriptionsKeeps ==
    ASSUME LocInv, NEW s \in Sessions, CheckSubscriptions(s)
    PROVE  LocInv'
<1> DEFINE o == tx[s]
           r == [o EXCEPT !.at = "commit"]
<1>1. Busy(s) /\ o.at = "check" BY DEF CheckSubscriptions, At
<1>2. CASE o.mine \cap subscribed # {} BY <1>2, RollbackKeeps DEF CheckSubscriptions
<1>3. CASE o.mine \cap subscribed = {}
  <2>1. Set(s, r) BY <1>3 DEF CheckSubscriptions
  <2>2. o \in Request /\ Fits(s) /\ o.op \in {"delete", "deleteClient"} /\ o.flag = "plain"
    BY <1>1, OwnFacts
       DEF Request, Fits, CreateFits, UpdateFits, SubscribeFits, DeleteFits, DeleteClientFits
  <2>3. /\ r \in Request /\ r.op = o.op /\ r.loc = o.loc /\ r.client = o.client
        /\ r.flag = "plain" /\ r.todo = o.todo /\ r.row = o.row /\ r.mine = o.mine
        /\ r.at = "commit"
    BY <2>2 DEF Request
  <2> HIDE DEF r
  <2>4. r.mine \subseteq OfClient(r.client) BY <2>2, <2>3 DEF Fits
  <2>5. Fits(s)'
    <3>1. /\ tx'[s] = r /\ UNCHANGED <<clients, locs, subscribed>> BY <1>1, <2>1, OwnFacts
    <3> QED BY <1>1, <1>3, <2>2, <2>3, <2>4, <3>1
        DEF Fits, CreateFits, UpdateFits, DeleteFits, DeleteClientFits, SubscribeFits, Deletes,
            Claims, InTable
  <2>6. ASSUME NEW x \in Sessions \ {s}, Busy(x) PROVE Apart(s, x)' /\ Apart(x, s)'
    BY <1>1, <2>1, <2>2, <2>3, <2>6, OwnFacts
       DEF Apart, Claims, KeepsClient, HoldsClient, Deletes, KeepsLocation
  <2> QED BY <2>1, <2>3, <2>4, <2>5, <2>6, OwnStepKeeps
<1> QED BY <1>2, <1>3

\* A subscription holds its location, which nobody deletes.
LEMMA TakeKeyKeeps ==
    ASSUME LocInv, NEW s \in Sessions, TakeKey(s)
    PROVE  LocInv'
<1> DEFINE o == tx[s]
           r == [o EXCEPT !.at = "commit"]
<1>1. /\ Busy(s) /\ o.at = "key"
      /\ \A x \in Sessions \ {s} : Busy(x) => ~(Deletes(x) /\ o.loc \in tx[x].mine)
  BY RunsFree DEF TakeKey, InTheWay
<1>2. CASE ~InTable(o.loc) BY <1>2, RollbackKeeps DEF TakeKey
<1>3. CASE InTable(o.loc)
  <2>1. Set(s, r) BY <1>3 DEF TakeKey
  <2>2. o \in Request /\ Fits(s) /\ o.op = "subscribe"
    BY <1>1, OwnFacts DEF Request, Fits, CreateFits, UpdateFits, DeleteFits, DeleteClientFits
  <2>3. /\ r \in Request /\ r.op = "subscribe" /\ r.loc = o.loc /\ r.client = o.client
        /\ r.flag = o.flag /\ r.todo = o.todo /\ r.row = o.row /\ r.mine = o.mine
        /\ r.at = "commit"
    BY <2>2 DEF Request
  <2> HIDE DEF r
  <2>4. r.mine \subseteq OfClient(r.client) BY <2>2, <2>3 DEF Fits
  <2>5. Fits(s)'
    <3>1. /\ tx'[s] = r /\ UNCHANGED <<clients, locs, subscribed>> BY <1>1, <2>1, OwnFacts
    <3> QED BY <1>1, <1>3, <2>2, <2>3, <2>4, <3>1
        DEF Fits, CreateFits, UpdateFits, DeleteFits, DeleteClientFits, SubscribeFits, Deletes,
            Claims, InTable
  <2>6. ASSUME NEW x \in Sessions \ {s}, Busy(x) PROVE Apart(s, x)' /\ Apart(x, s)'
    BY <1>1, <2>1, <2>2, <2>3, <2>6, OwnFacts
       DEF Apart, Claims, KeepsClient, HoldsClient, Deletes, KeepsLocation, Fits, SubscribeFits
  <2> QED BY <2>1, <2>3, <2>4, <2>5, <2>6, OwnStepKeeps
<1> QED BY <1>2, <1>3

\* A commit writes the rows that the transaction holds, and nothing that another one relies on.
LEMMA CommitKeeps ==
    ASSUME LocInv, NEW s \in Sessions, Commit(s)
    PROVE  LocInv'
<1> DEFINE o == tx[s]
<1>1. /\ Busy(s) /\ o.at = "commit"
      /\ locs' = [l \in Locations |-> IF l \in o.mine THEN Version(o, l) ELSE locs[l]]
      /\ clients' = IF o.op = "deleteClient" THEN clients \ {o.client} ELSE clients
      /\ subscribed' = IF o.op = "subscribe" THEN subscribed \cup {o.loc} ELSE subscribed
      /\ tx' = [tx EXCEPT ![s] = None]
  BY DEF Commit, At
<1>2. /\ o \in Request /\ Fits(s)
      /\ \A x \in Sessions \ {s} : Busy(x) =>
            tx[x] \in Request /\ Fits(x) /\ Apart(s, x) /\ Apart(x, s)
  BY <1>1, OwnFacts
<1>3. TypeOK /\ OneDefault /\ LocationsKept BY DEF LocInv
<1>4. tx'[s] = None /\ \A x \in Sessions \ {s} : tx'[x] = tx[x] BY <1>1, <1>3 DEF TypeOK
<1>5. \A l \in Locations : locs'[l] = IF l \in o.mine THEN Version(o, l) ELSE locs[l]
  BY <1>1
<1>5a. \A l \in Locations : locs[l] # "new" => locs'[l] # "new"
  BY <1>2, <1>5 DEF Version, Request, Flags
<1>6. TypeOK'
  <2>1. o.op = "subscribe" => o.loc \in Locations BY <1>2 DEF Fits, SubscribeFits, OfClient
  <2>2. \A l \in Locations : Version(o, l) \in {"new", "gone"} \cup Flags
    BY <1>2 DEF Version, Request, Flags
  <2> QED BY <1>1, <1>3, <1>4, <2>1, <2>2 DEF TypeOK
<1>7. \A l \in o.mine : l \in OfClient(o.client) BY <1>2 DEF Fits
<1>8. OneDefault'
  <2> SUFFICES ASSUME NEW l \in Locations, NEW m \in Locations, locs'[l] = "default",
                      locs'[m] = "default", ClientOf[l] = ClientOf[m]
               PROVE  l = m
    BY DEF OneDefault
  <2>1. \A k \in o.mine : locs'[k] = "default" => k = o.loc /\ o.flag = "default"
    BY <1>5, <1>7 DEF Version, OfClient
  <2>2. o.flag = "default" => IndexAdmits(s) BY <1>1, <1>2 DEF Fits, Claims
  <2>3. CASE l \in o.mine /\ m \in o.mine BY <2>1, <2>3
  <2>4. CASE l \in o.mine /\ m \notin o.mine
    BY <1>5, <1>7, <2>1, <2>2, <2>4 DEF IndexAdmits, OfClient
  <2>5. CASE l \notin o.mine /\ m \in o.mine
    BY <1>5, <1>7, <2>1, <2>2, <2>5 DEF IndexAdmits, OfClient
  <2>6. CASE l \notin o.mine /\ m \notin o.mine BY <1>3, <1>5, <2>6 DEF OneDefault
  <2> QED BY <2>3, <2>4, <2>5, <2>6
<1>9. o.op # "deleteClient" /\ o.op # "delete" =>
         \A l \in o.mine : locs'[l] \in Flags
  BY <1>2, <1>5, <1>7 DEF Version, Request, Flags, OfClient
<1>10. LocationsKept'
  <2>1. \A l \in subscribed : (InTable(l))'
    <3> SUFFICES ASSUME NEW l \in subscribed PROVE locs'[l] \in Flags BY DEF InTable
    <3>1. l \in Locations /\ locs[l] \in Flags BY <1>3 DEF TypeOK, LocationsKept, InTable
    <3>2. l \in o.mine => o.op # "deleteClient" /\ o.op # "delete"
      BY <1>1, <1>2 DEF Fits, Deletes
    <3> QED BY <1>5, <1>9, <3>1, <3>2
  <2>2. o.op = "subscribe" => locs'[o.loc] \in Flags
    BY <1>1, <1>2, <1>5 DEF Fits, SubscribeFits, InTable, OfClient
  <2>3. ASSUME NEW l \in Locations, (InTable(l))' PROVE ClientOf[l] \in clients'
    <3>1. CASE o.op = "deleteClient"
      <4>1. l \notin o.mine
        BY <1>5, <2>3, <3>1 DEF Version, InTable, Flags
      <4>2. InTable(l) BY <1>5, <2>3, <4>1 DEF InTable
      <4>3. ClientOf[l] # o.client
        BY <1>1, <1>2, <3>1, <4>1, <4>2 DEF Fits, DeleteClientFits, OfClient
      <4> QED BY <1>1, <1>3, <3>1, <4>2, <4>3 DEF LocationsKept
    <3>2. CASE o.op # "deleteClient"
      <4>1. CASE l \notin o.mine BY <1>1, <1>3, <1>5, <2>3, <3>2, <4>1 DEF LocationsKept, InTable
      <4>2. CASE l \in o.mine
        <5>1. CASE o.op = "create"
          BY <1>1, <1>2, <1>7, <4>2, <5>1 DEF Fits, CreateFits, OfClient
        <5>2. CASE o.op # "create"
          BY <1>1, <1>2, <1>3, <3>2, <4>2, <5>2 DEF Fits, LocationsKept
        <5> QED BY <5>1, <5>2
      <4> QED BY <4>1, <4>2
    <3> QED BY <3>1, <3>2
  <2>4. \A l \in subscribed' : (InTable(l))' BY <1>1, <2>1, <2>2 DEF InTable
  <2> QED BY <2>3, <2>4 DEF LocationsKept
<1>11. ASSUME NEW x \in Sessions, Busy(x)' PROVE Fits(x)'
  <2>1. x # s /\ Busy(x) /\ tx'[x] = tx[x] BY <1>4, <1>11 DEF Busy
  <2>2. Fits(x) /\ Apart(s, x) /\ Apart(x, s) /\ tx[x] \in Request BY <1>2, <2>1
  <2>3. \A l \in Locations : l \in tx[x].mine => locs'[l] = locs[l] BY <1>5, <2>2 DEF Apart
  <2>4. tx[x].mine \subseteq Locations BY <2>2 DEF Request
  <2>5. CreateFits(x)'
    <3>1. tx[x].op = "create" => tx[x].loc \in tx[x].mine BY <2>2 DEF Fits, CreateFits
    <3>2. tx[x].op = "create" /\ tx[x].at = "commit" => tx[x].client \in clients'
      BY <1>1, <2>2 DEF Fits, CreateFits, Apart, KeepsClient, HoldsClient
    <3> QED BY <2>1, <2>2, <2>3, <2>4, <3>1, <3>2 DEF Fits, CreateFits
  <2>6. UpdateFits(x)' /\ DeleteFits(x)'
    BY <1>5a, <2>1, <2>2 DEF Fits, UpdateFits, DeleteFits, OfClient
  <2>7. DeleteClientFits(x)'
    <3> SUFFICES ASSUME tx[x].op = "deleteClient", tx[x].at # "client",
                        NEW l \in OfClient(tx[x].client), locs'[l] \in Flags
                 PROVE  locs[l] \in Flags
      BY <2>1, <2>2 DEF Fits, DeleteClientFits, InTable
    <3>1. CASE l \notin o.mine BY <1>5, <3>1 DEF OfClient
    <3>2. CASE l \in o.mine
      <4>1. o.client = tx[x].client BY <1>7, <3>2 DEF OfClient
      <4>2. o.op # "create" BY <1>1, <2>2, <4>1 DEF Apart, KeepsClient, HoldsClient
      <4> QED BY <1>2, <3>2, <4>2 DEF Fits, InTable
    <3> QED BY <3>1, <3>2
  <2>8. SubscribeFits(x)'
    <3> SUFFICES ASSUME tx[x].op = "subscribe", tx[x].at = "commit"
                 PROVE  locs'[tx[x].loc] \in Flags
      BY <2>1, <2>2 DEF Fits, SubscribeFits, InTable
    <3>1. tx[x].loc \in Locations /\ locs[tx[x].loc] \in Flags
      BY <2>2 DEF Fits, SubscribeFits, OfClient, InTable
    <3>2. Deletes(s) => tx[x].loc \notin o.mine BY <2>2 DEF Apart, KeepsLocation
    <3> QED BY <1>5, <1>9, <3>1, <3>2 DEF Deletes
  <2>9. Deletes(x) /\ tx[x].at = "commit" => tx[x].mine \cap subscribed' = {}
    <3>1. o.op = "subscribe" /\ Deletes(x) => o.loc \notin tx[x].mine
      BY <1>1, <2>2 DEF Apart, KeepsLocation
    <3> QED BY <1>1, <2>2, <3>1 DEF Fits
  <2>10. Claims(x) => IndexAdmits(x)'
    <3> SUFFICES ASSUME Claims(x), NEW l \in Locations \ tx[x].mine,
                        ClientOf[l] = tx[x].client, locs'[l] = "default"
                 PROVE  FALSE
      BY <2>1 DEF IndexAdmits
    <3>1. locs[l] # "default" BY <2>2 DEF Fits, IndexAdmits
    <3>2. l \in o.mine /\ o.flag = "default" /\ o.client = tx[x].client
      BY <1>5, <1>7, <3>1 DEF Version, OfClient
    <3> QED BY <1>1, <2>2, <3>2 DEF Apart, Claims
  <2>11. /\ tx[x].at = "rows" => locs'[tx[x].row] # "new"
         /\ \A l \in tx[x].todo : locs'[l] # "new"
    BY <1>5a, <2>2 DEF Fits, OfClient
  <2> QED BY <2>1, <2>2, <2>3, <2>4, <2>5, <2>6, <2>7, <2>8, <2>9, <2>10, <2>11
      DEF Fits, Deletes, Claims, InTable
<1>12. ASSUME NEW x \in Sessions, NEW y \in Sessions, x # y, Busy(x)', Busy(y)' PROVE Apart(x, y)'
  <2>1. x # s /\ y # s /\ Apart(x, y) BY <1>4, <1>12 DEF LocInv, Busy
  <2> QED BY <1>4, <2>1 DEF Apart, Claims, KeepsClient, HoldsClient, Deletes, KeepsLocation
<1> QED BY <1>6, <1>8, <1>10, <1>11, <1>12 DEF LocInv

-----------------------------------------------------------------------------
(* The invariant. *)

\* At the start no request is under way.
LEMMA InvAtStart == Init => LocInv
<1> SUFFICES ASSUME Init PROVE LocInv OBVIOUS
<1>1. \A s \in Sessions : tx[s] = None BY DEF Init
<1>2. TypeOK BY <1>1, LocationsAssumption DEF Init, TypeOK
<1>3. OneDefault /\ LocationsKept
  BY LocationsAssumption DEF Init, OneDefault, LocationsKept, InTable
<1> QED BY <1>1, <1>2, <1>3 DEF LocInv, Busy

\* Every statement, commit, cancelled request and broken ring keeps it.
LEMMA InvKept == LocInv /\ [Next]_vars => LocInv'
<1> SUFFICES ASSUME LocInv, [Next]_vars PROVE LocInv' OBVIOUS
<1>1. CASE UNCHANGED vars
  BY <1>1
     DEF vars, LocInv, TypeOK, OneDefault, LocationsKept, Busy, Fits, CreateFits, UpdateFits,
         DeleteFits, DeleteClientFits, SubscribeFits, Apart, Deletes, Claims, IndexAdmits, InTable,
         KeepsClient, HoldsClient, KeepsLocation
<1>2. CASE \E l \in Touched : Unsubscribe(l)
  BY <1>2, LocationsAssumption, UnsubscribeKeeps
<1>3. ASSUME NEW s \in Sessions, NEW l \in Touched,
             \/ \E flag \in Flags : CreateLocation(s, l, flag) \/ UpdateLocation(s, l, flag)
             \/ DeleteLocation(s, l)
             \/ Subscribe(s, l)
             \/ DeleteClient(s, ClientOf[l])
      PROVE  LocInv'
  <2>1. l \in Locations /\ ClientOf[l] \in Clients BY LocationsAssumption
  <2> QED BY <1>3, <2>1, CreateKeeps, UpdateKeeps, DeleteKeeps, SubscribeKeeps, DeleteClientKeeps
<1>4. ASSUME NEW s \in Sessions, Continue(s) PROVE LocInv'
  BY <1>4, FindOthersKeeps, TakeRowKeeps, WriteOwnKeeps, EnterIndexKeeps, CheckParentKeeps,
     LockClientKeeps, CheckSubscriptionsKeeps, TakeKeyKeeps, CommitKeeps DEF Continue
<1>5. ASSUME NEW s \in Sessions, Abort(s) \/ BreakRing(s) PROVE LocInv'
  BY <1>5, RollbackKeeps DEF Abort, BreakRing
<1> QED BY <1>1, <1>2, <1>3, <1>4, <1>5 DEF Next

\* LocInv holds for ever.
THEOREM LocInvariant == Spec => []LocInv
BY InvAtStart, InvKept, PTL DEF Spec

\* The rows and the transactions keep their types.
THEOREM LocationTypes == Spec => []TypeOK
<1>1. LocInv => TypeOK BY DEF LocInv
<1> QED BY <1>1, LocInvariant, PTL

\* A client never has two default locations, whatever requests interleave.
THEOREM OneDefaultEver == Spec => []OneDefault
<1>1. LocInv => OneDefault BY DEF LocInv
<1> QED BY <1>1, LocInvariant, PTL

\* No deletion takes the location of a subscription, or the client of a location.
THEOREM ReferencesStay == Spec => []LocationsKept
<1>1. LocInv => LocationsKept BY DEF LocInv
<1> QED BY <1>1, LocInvariant, PTL

-----------------------------------------------------------------------------
(* Deadlocks. *)

\* Who makes y wait while it waits itself: a move of the default, the deletion of a client that
\* has come to its locations, or a new default that waits for its client.
LEMMA WhoBlocks ==
    ASSUME LocInv, NEW x \in Sessions, NEW y \in Sessions, x # y, Busy(x), Busy(y),
           InTheWay(x, y),
           tx[x].at \in {"rows", "own", "index", "parent", "client", "key"}
    PROVE  /\ tx[x].client = tx[y].client
           /\ \/ MovesDefault(x)
              \/ tx[x].op = "deleteClient" /\ HoldsClient(x)
              \/ tx[x].op = "create" /\ tx[x].at = "parent" /\ tx[y].at = "index"
<1>1. tx[x] \in Request /\ tx[y] \in Request /\ Fits(x) /\ Fits(y) BY DEF LocInv, TypeOK, Busy
<1>2. ~KeepsLocation(x, tx[y].row) /\ ~KeepsClient(x) BY DEF KeepsLocation, KeepsClient
<1>3. tx[x].client = tx[y].client
  <2>1. tx[y].at = "own" => tx[y].op = "update" /\ tx[y].loc \in OfClient(tx[y].client)
    BY <1>1 DEF Request, Fits, CreateFits, UpdateFits, DeleteFits, DeleteClientFits, SubscribeFits
  <2>2. tx[y].at = "key" => tx[y].loc \in OfClient(tx[y].client)
    BY <1>1 DEF Request, Fits, CreateFits, UpdateFits, DeleteFits, DeleteClientFits, SubscribeFits
  <2> QED BY <1>1, <1>2, <2>1, <2>2 DEF InTheWay, Fits, OfClient
<1>4. CASE tx[x].op = "create"
  <2>1. tx[x].mine = {tx[x].loc} /\ locs[tx[x].loc] = "new" /\ ~Deletes(x) /\ ~HoldsClient(x)
    BY <1>1, <1>4 DEF Fits, CreateFits, Deletes, HoldsClient
  <2>2. tx[y].at = "rows" => tx[y].row \notin tx[x].mine BY <1>1, <2>1 DEF Fits
  <2>3. tx[y].at = "own" => tx[y].loc \notin tx[x].mine
    BY <1>1, <2>1
       DEF Request, Fits, CreateFits, UpdateFits, DeleteFits, DeleteClientFits, SubscribeFits
  <2>4. tx[y].at = "index" /\ Claims(x) BY <1>2, <2>1, <2>2, <2>3 DEF InTheWay
  <2> QED BY <1>3, <1>4, <2>4 DEF Claims
<1>5. CASE tx[x].op = "update"
  <2>1. tx[x].flag = "plain" => tx[x].mine = {} BY <1>1, <1>5 DEF Fits, UpdateFits
  <2>2. tx[x].flag = "default"
    BY <1>1, <1>2, <1>5, <2>1 DEF InTheWay, Claims, HoldsClient, Request, Flags
  <2> QED BY <1>3, <1>5, <2>2 DEF MovesDefault
<1>6. CASE tx[x].op = "delete"
  <2>1. tx[x].mine = {} /\ tx[x].flag = "plain" BY <1>1, <1>6 DEF Fits, DeleteFits
  <2> QED BY <1>2, <1>6, <2>1 DEF InTheWay, Claims, HoldsClient
<1>7. CASE tx[x].op = "deleteClient"
  <2>1. tx[x].at = "client" => tx[x].mine = {} /\ tx[x].flag = "plain"
    BY <1>1, <1>7 DEF Fits, DeleteClientFits
  <2> QED BY <1>2, <1>3, <1>7, <2>1 DEF InTheWay, Claims, HoldsClient
<1>8. CASE tx[x].op = "subscribe"
  <2>1. tx[x].mine = {} /\ tx[x].flag = "plain" BY <1>1, <1>8 DEF Fits, SubscribeFits
  <2> QED BY <1>2, <1>8, <2>1 DEF InTheWay, Claims, HoldsClient
<1> QED BY <1>1, <1>4, <1>5, <1>6, <1>7, <1>8 DEF Request

\* Two requests wait for each other only if one moves a default and the other does so too or
\* deletes the client.
THEOREM DeadlocksOnlyOfMoves == Spec => []DeadlocksMoveDefaults
<1>1. LocInv => DeadlocksMoveDefaults
  <2> SUFFICES ASSUME LocInv, NEW s \in Sessions, NEW x \in Sessions,
                      x \in WaitsFor(s), s \in WaitsFor(x)
               PROVE  /\ tx[s].client = tx[x].client
                      /\ MovesDefault(s) \/ MovesDefault(x)
                      /\ MovesDefault(s) \/ tx[s].op = "deleteClient"
                      /\ MovesDefault(x) \/ tx[x].op = "deleteClient"
    BY DEF DeadlocksMoveDefaults
  <2>1. s # x /\ Busy(s) /\ Busy(x) /\ InTheWay(s, x) /\ InTheWay(x, s) BY DEF WaitsFor
  <2>2. /\ tx[s].at \in {"rows", "own", "index", "parent", "client", "key"}
        /\ tx[x].at \in {"rows", "own", "index", "parent", "client", "key"}
    BY <2>1 DEF InTheWay
  <2>3. /\ tx[x].client = tx[s].client
        /\ \/ MovesDefault(x)
           \/ tx[x].op = "deleteClient" /\ HoldsClient(x)
           \/ tx[x].op = "create" /\ tx[x].at = "parent" /\ tx[s].at = "index"
    BY <2>1, <2>2, WhoBlocks
  <2>4. \/ MovesDefault(s)
        \/ tx[s].op = "deleteClient" /\ HoldsClient(s)
        \/ tx[s].op = "create" /\ tx[s].at = "parent" /\ tx[x].at = "index"
    BY <2>1, <2>2, WhoBlocks
  <2>5. ~(HoldsClient(s) /\ HoldsClient(x)) BY <2>1, <2>3 DEF LocInv, Apart
  <2>6. ~(tx[x].op = "create" /\ tx[x].at = "parent" /\ tx[s].at = "index")
    BY <2>1 DEF InTheWay, HoldsClient, LocInv, Fits, DeleteClientFits
  <2>7. ~(tx[s].op = "create" /\ tx[s].at = "parent" /\ tx[x].at = "index")
    BY <2>1 DEF InTheWay, HoldsClient, LocInv, Fits, DeleteClientFits
  <2> QED BY <2>3, <2>4, <2>5, <2>6, <2>7
<1> QED BY <1>1, LocInvariant, PTL

-----------------------------------------------------------------------------
(* LocationBook. *)

\* A commit is one step of the book; every other step is none.
LEMMA StepsOfBook == LocInv /\ [Next]_vars => [Book!Next]_locs
<1> SUFFICES ASSUME LocInv, [Next]_vars, locs' # locs PROVE Book!Next OBVIOUS
<1>1. PICK s \in Sessions : Commit(s)
  BY DEF Next, Continue, Unsubscribe, CreateLocation, UpdateLocation, DeleteLocation, Subscribe,
         DeleteClient, Begin, Set, FindOthers, TakeRow, WriteOwn, EnterIndex, CheckParent,
         LockClient, CheckSubscriptions, TakeKey, Abort, BreakRing, Rollback, vars
<1> DEFINE o == tx[s]
<1>2. /\ Busy(s) /\ o.at = "commit"
      /\ locs' = [l \in Locations |-> IF l \in o.mine THEN Version(o, l) ELSE locs[l]]
  BY <1>1 DEF Commit, At
<1>3. o \in Request /\ Fits(s) /\ TypeOK BY <1>2 DEF LocInv, TypeOK, Busy
<1>4. o.mine \subseteq OfClient(o.client) BY <1>3 DEF Fits
<1>5. CASE o.op = "create"
  <2>1. /\ o.loc \in OfClient(o.client) /\ o.mine = {o.loc} /\ locs[o.loc] = "new"
        /\ o.flag \in Flags
    BY <1>3, <1>5 DEF Fits, CreateFits, Request
  <2>2. o.flag = "default" =>
           \A m \in Locations : ClientOf[m] = ClientOf[o.loc] => locs[m] # "default"
    BY <1>2, <1>3, <2>1 DEF Fits, Claims, IndexAdmits, OfClient
  <2>3. locs' = [locs EXCEPT ![o.loc] = o.flag]
    BY <1>2, <1>3, <1>5, <2>1 DEF Version, TypeOK
  <2>4. Book!Create(o.loc, o.flag) BY <2>1, <2>2, <2>3 DEF Book!Create
  <2> QED BY <2>1, <2>4 DEF Book!Next, Book!Flags, Flags, OfClient
<1>6. CASE o.op = "update"
  <2>1. /\ o.loc \in OfClient(o.client) /\ o.loc \in o.mine /\ InTable(o.loc) /\ o.flag \in Flags
        /\ o.flag = "plain" => o.mine = {o.loc}
        /\ \A l \in o.mine : InTable(l)
    BY <1>2, <1>3, <1>6 DEF Fits, UpdateFits, Request
  <2>2. o.flag = "default" =>
           \A l \in Locations \ o.mine : ClientOf[l] = o.client => locs[l] # "default"
    BY <1>2, <1>3 DEF Fits, Claims, IndexAdmits
  <2>3. ASSUME NEW m \in Locations
        PROVE  (IF m \in o.mine THEN Version(o, m) ELSE locs[m])
                 = IF m = o.loc THEN o.flag
                   ELSE IF o.flag = "default" /\ locs[m] \in Flags /\ ClientOf[m] = ClientOf[o.loc]
                        THEN "plain"
                   ELSE locs[m]
    BY <1>4, <1>6, <2>1, <2>2 DEF Version, OfClient, Flags, InTable
  <2>4. Book!Update(o.loc, o.flag)
    BY <1>2, <2>1, <2>3 DEF Book!Update, Book!InTable, Book!Flags, InTable, Flags
  <2> QED BY <2>1, <2>4 DEF Book!Next, Book!Flags, Flags, OfClient
<1>7. CASE o.op = "delete"
  <2>1. o.loc \in OfClient(o.client) /\ o.mine = {o.loc} /\ InTable(o.loc)
    BY <1>2, <1>3, <1>7 DEF Fits, DeleteFits
  <2>2. locs' = [locs EXCEPT ![o.loc] = "gone"]
    BY <1>2, <1>3, <1>7, <2>1 DEF Version, TypeOK
  <2>3. Book!Delete(o.loc)
    BY <2>1, <2>2 DEF Book!Delete, Book!InTable, Book!Flags, InTable, Flags
  <2> QED BY <2>1, <2>3 DEF Book!Next, OfClient
<1>8. CASE o.op = "deleteClient"
  <2>1. \A l \in o.mine : InTable(l) BY <1>3, <1>8 DEF Fits
  <2>2. \A l \in OfClient(o.client) : InTable(l) => l \in o.mine
    BY <1>2, <1>3, <1>8 DEF Fits, DeleteClientFits
  <2>3. ASSUME NEW m \in Locations
        PROVE  (IF m \in o.mine THEN Version(o, m) ELSE locs[m])
                 = IF locs[m] \in Flags /\ ClientOf[m] = o.client THEN "gone" ELSE locs[m]
    BY <1>4, <1>8, <2>1, <2>2 DEF Version, OfClient, InTable
  <2>4. Book!DeleteAll(o.client)
    BY <1>2, <2>3 DEF Book!DeleteAll, Book!InTable, Book!Flags, Flags
  <2>5. PICK l \in Locations : ClientOf[l] = o.client
    <3>1. o.mine # {} BY <1>2, <1>3 DEF TypeOK
    <3> QED BY <1>4, <3>1 DEF OfClient
  <2> QED BY <2>4, <2>5 DEF Book!Next
<1>9. CASE o.op = "subscribe"
  <2>1. o.mine = {} BY <1>3, <1>9 DEF Fits, SubscribeFits
  <2> QED BY <1>2, <1>3, <2>1 DEF TypeOK
<1> QED BY <1>3, <1>5, <1>6, <1>7, <1>8, <1>9 DEF Request

\* The statements implement LocationBook for any number of requests.
THEOREM TableImplementsLocationBook == Spec => ImplementsBook
<1>1. Init => Book!Init BY DEF Init, Book!Init
<1> QED BY <1>1, StepsOfBook, LocInvariant, PTL DEF Spec, ImplementsBook, Book!Spec
=============================================================================
