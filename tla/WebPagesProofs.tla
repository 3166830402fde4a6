--------------------------- MODULE WebPagesProofs ----------------------------
(***************************************************************************)
(* No row is left without the rows it refers to, whatever the pages and    *)
(* other users send, and in whatever order; and the pages hold what their  *)
(* declarations say: for every finite set of ids, any number of handlers   *)
(* under way and of things that go wrong.                                  *)
(*                                                                         *)
(* Only Execute and Elsewhere write the tables, and they apply a call the  *)
(* server accepts.  The first part shows that such a call leaves every     *)
(* reference with a row to refer to, whatever call it is.                  *)
(***************************************************************************)
EXTENDS WebPages, WellFoundedInduction, FiniteSetTheorems, SequenceTheorems, TLAPS

-----------------------------------------------------------------------------
(* The tables of the server.                                               *)

\* Each reference is a column of its table, points into a table, and is never updated.
LEMMA References ==
    ASSUME NEW t \in Tables, NEW p \in Parents[t]
    PROVE  /\ p[2] \in Tables \ {"calculations"}
           /\ p[1] \notin Writable[t]
           /\ p[1] \notin {"is_default", "ended"}
BY DEF Tables, Parents, Writable

\* The columns that refer are columns of the rows.
LEMMA ReferencesAreColumns ==
    ASSUME NEW t \in Tables, NEW r \in Row[t], NEW p \in Parents[t]
    PROVE  p[1] \in DOMAIN r
<1>1. CASE t = "locations" BY <1>1 DEF Row, Parents
<1>2. CASE t = "tariffs" BY <1>2 DEF Row, Parents
<1>3. CASE t = "subscriptions" BY <1>3 DEF Row, Parents
<1>4. CASE t = "calculations" BY <1>4 DEF Row, Parents
<1>5. CASE t \in {"users", "clients", "services", "periods"} BY <1>5 DEF Parents
<1> QED BY <1>1, <1>2, <1>3, <1>4, <1>5 DEF Tables

\* A live row has the columns of its table.
LEMMA LiveRow ==
    ASSUME NEW d, RegistryOK(d), NEW t \in Tables, NEW i, Live(d, t, i)
    PROVE  i \in IdsOf(t) /\ d[t][i] \in Row[t]
BY DEF RegistryOK, Live

\* What is in a table's rows is live.
LEMMA RowLive ==
    ASSUME NEW d, NEW t \in Tables, NEW i \in IdsOf(t), d[t][i] \in Row[t]
    PROVE  Live(d, t, i)
BY RegistryAssumption DEF Live

\* A set of natural numbers that is not empty has a smallest element.
LEMMA LeastElement ==
    ASSUME NEW S \in SUBSET Nat, S # {}
    PROVE  \E i \in S : \A j \in S : i <= j
<1>1. PICK i \in S : \A j \in S : ~(<<j, i>> \in OpToRel(<, Nat))
  BY NatLessThanWellFounded, WFMin
<1>2. ASSUME NEW j \in S PROVE i <= j
  <2>1. i \in Nat /\ j \in Nat OBVIOUS
  <2>2. CASE j < i
    <3>1. <<j, i>> \in OpToRel(<, Nat) BY <2>1, <2>2 DEF OpToRel
    <3> QED BY <1>1, <3>1
  <2> QED BY <2>1, <2>2
<1> QED BY <1>2

-----------------------------------------------------------------------------
(* Two ways to change the tables that keep every reference.                *)

\* The same rows are there, with the same references.
SameReferences(d, e) ==
    \A t \in Tables : \A i \in IdsOf(t) :
        /\ Live(d, t, i) <=> Live(e, t, i)
        /\ Live(d, t, i) => \A p \in Parents[t] : e[t][i][p[1]] = d[t][i][p[1]]

\* Tables with the same rows and references resolve alike.
LEMMA SameReferencesResolve ==
    ASSUME NEW d, NEW e, Resolves(d), SameReferences(d, e)
    PROVE  /\ Resolves(e)
           /\ \A t \in Tables : \A r : HasParents(d, t, r) => HasParents(e, t, r)
<1>1. ASSUME NEW t \in Tables, NEW i, Live(d, t, i) PROVE Live(e, t, i)
  BY <1>1 DEF SameReferences, Live
<1>2. \A t \in Tables : \A r : HasParents(d, t, r) => HasParents(e, t, r)
  BY <1>1, References DEF HasParents
<1>3. ASSUME NEW t \in Tables, NEW i, Live(e, t, i) PROVE HasParents(e, t, e[t][i])
  <2>1. Live(d, t, i) /\ \A p \in Parents[t] : e[t][i][p[1]] = d[t][i][p[1]]
    BY <1>3 DEF SameReferences, Live
  <2>2. HasParents(d, t, d[t][i])
    BY <2>1 DEF Resolves, LiveIds, Live
  <2> QED BY <2>1, <2>2, <1>1, References DEF HasParents
<1> QED BY <1>2, <1>3 DEF Resolves, LiveIds, Live

\* A row is stored whose references are there.
LEMMA Stored ==
    ASSUME NEW d, RegistryOK(d), Resolves(d), NEW t \in Tables, NEW i \in IdsOf(t),
           NEW r \in Row[t], HasParents(d, t, r), NEW e, e = [d EXCEPT ![t][i] = r]
    PROVE  RegistryOK(e) /\ Resolves(e) /\ \A u \in Tables : \A j : Live(d, u, j) => Live(e, u, j)
<1>1. e[t][i] = r /\ \A u \in Tables : \A j \in IdsOf(u) : <<u, j>> # <<t, i>> => e[u][j] = d[u][j]
  BY DEF RegistryOK
<1>2. RegistryOK(e)
  BY DEF RegistryOK
<1>3. ASSUME NEW u \in Tables, NEW j, Live(d, u, j) PROVE Live(e, u, j)
  <2>1. CASE u = t /\ j = i BY <2>1, <1>1, RowLive
  <2>2. CASE ~(u = t /\ j = i) BY <2>2, <1>1, <1>3 DEF Live
  <2> QED BY <2>1, <2>2
<1>4. ASSUME NEW u \in Tables, NEW j, Live(e, u, j) PROVE HasParents(e, u, e[u][j])
  <2>1. CASE u = t /\ j = i
    BY <2>1, <1>1, <1>3, References DEF HasParents
  <2>2. CASE ~(u = t /\ j = i)
    <3>1. e[u][j] = d[u][j] /\ Live(d, u, j) BY <2>2, <1>1, <1>4 DEF Live
    <3>2. HasParents(d, u, d[u][j]) BY <3>1 DEF Resolves, LiveIds, Live
    <3> QED BY <3>1, <3>2, <1>3, References DEF HasParents
  <2> QED BY <2>1, <2>2
<1> QED BY <1>2, <1>3, <1>4 DEF Resolves, LiveIds, Live

-----------------------------------------------------------------------------
(* Insert. *)

\* A tariff that is ended stays, and with it what refers to it.
LEMMA EndTariffKeeps ==
    ASSUME NEW d, RegistryOK(d), NEW s
    PROVE  RegistryOK(EndTariff(d, s)) /\ SameReferences(d, EndTariff(d, s))
<1> DEFINE e == EndTariff(d, s)
<1>1. /\ DOMAIN e = Tables
      /\ \A t \in Tables \ {"tariffs"} : e[t] = d[t]
      /\ e["tariffs"] = [i \in Ids |-> IF i \in InForce(d, s)
                                       THEN [d["tariffs"][i] EXCEPT !.ended = TRUE]
                                       ELSE d["tariffs"][i]]
  BY DEF EndTariff, RegistryOK, Tables
<1>2. ASSUME NEW i \in Ids
      PROVE  /\ e["tariffs"][i] \in Row["tariffs"] \cup {New, Gone}
             /\ Live(d, "tariffs", i) <=> Live(e, "tariffs", i)
             /\ Live(d, "tariffs", i) => e["tariffs"][i].service = d["tariffs"][i].service
  <2>1. CASE i \in InForce(d, s)
    <3>1. Live(d, "tariffs", i) /\ d["tariffs"][i] \in Row["tariffs"]
      BY <2>1, LiveRow DEF InForce, LiveIds, Tables
    <3>2. e["tariffs"][i] = [d["tariffs"][i] EXCEPT !.ended = TRUE]
      BY <1>1, <2>1
    <3>3. /\ e["tariffs"][i] \in Row["tariffs"]
          /\ e["tariffs"][i].service = d["tariffs"][i].service
      BY <3>1, <3>2 DEF Row
    <3> QED BY <3>1, <3>3, RowLive DEF Tables, IdsOf
  <2>2. CASE i \notin InForce(d, s)
    BY <1>1, <2>2 DEF RegistryOK, Live, Tables, IdsOf
  <2> QED BY <2>1, <2>2
<1>3. RegistryOK(e)
  <2>1. e["tariffs"] \in [Ids -> Row["tariffs"] \cup {New, Gone}]
    BY <1>1, <1>2
  <2> QED BY <1>1, <2>1 DEF RegistryOK, IdsOf, Tables
<1>4. SameReferences(d, e)
  <2> SUFFICES ASSUME NEW t \in Tables, NEW i \in IdsOf(t)
               PROVE  /\ Live(d, t, i) <=> Live(e, t, i)
                      /\ Live(d, t, i) => \A p \in Parents[t] : e[t][i][p[1]] = d[t][i][p[1]]
    BY DEF SameReferences
  <2>1. CASE t = "tariffs"
    <3>1. i \in Ids BY <2>1 DEF IdsOf
    <3>2. \A p \in Parents["tariffs"] : p[1] = "service" BY DEF Parents
    <3> QED BY <2>1, <3>1, <3>2, <1>2
  <2>2. CASE t # "tariffs" BY <2>2, <1>1 DEF Live
  <2> QED BY <2>1, <2>2
<1> QED BY <1>3, <1>4

\* What an insert does first removes no row and changes no reference.
LEMMA PreparedKeeps ==
    ASSUME NEW d, RegistryOK(d), NEW t, NEW r
    PROVE  RegistryOK(Prepared(d, t, r)) /\ SameReferences(d, Prepared(d, t, r))
BY EndTariffKeeps DEF Prepared, SameReferences

\* A subscription that can be billed has a tariff to be billed with.
LEMMA BillableHasTariff ==
    ASSUME NEW d, NEW s, Billable(d, s)
    PROVE  TariffOf(d, s) \in Ids /\ Live(d, "tariffs", TariffOf(d, s))
BY DEF Billable, TariffOf, InForce, LiveIds, IdsOf

\* The calculations generated for a period refer to rows that are there.
LEMMA GeneratedKeeps ==
    ASSUME NEW d, RegistryOK(d), Resolves(d), NEW p \in Ids, Live(d, "periods", p)
    PROVE  RegistryOK(Generated(d, p)) /\ Resolves(Generated(d, p))
<1> DEFINE e == Generated(d, p)
           row(i) == [subscription |-> i[1], period |-> p, tariff |-> TariffOf(d, i[1]),
                      reading |-> None, status |-> "pending", note |-> None]
<1>1. /\ DOMAIN e = Tables
      /\ \A t \in Tables \ {"calculations"} : e[t] = d[t]
      /\ e["calculations"] = [i \in Ids \X Ids |-> IF i[2] = p /\ Billable(d, i[1]) THEN row(i)
                                                  ELSE d["calculations"][i]]
  BY DEF Generated, RegistryOK, Tables
<1>2. ASSUME NEW i \in Ids \X Ids, i[2] = p, Billable(d, i[1])
      PROVE  row(i) \in Row["calculations"]
  BY <1>2, BillableHasTariff, RegistryAssumption DEF Row, Opt
<1>3. RegistryOK(e)
  <2>1. e["calculations"] \in [Ids \X Ids -> Row["calculations"] \cup {New, Gone}]
    BY <1>1, <1>2 DEF RegistryOK, IdsOf, Tables
  <2> QED BY <1>1, <2>1 DEF RegistryOK, IdsOf, Tables
<1>4. \A u \in Tables \ {"calculations"} : \A j : Live(d, u, j) <=> Live(e, u, j)
  BY <1>1 DEF Live
<1>5. ASSUME NEW t \in Tables, NEW i \in IdsOf(t), Live(e, t, i) PROVE HasParents(e, t, e[t][i])
  <2>1. CASE t = "calculations" /\ i[2] = p /\ Billable(d, i[1])
    <3>1. i \in Ids \X Ids BY <2>1 DEF IdsOf
    <3>2. e[t][i] = row(i) BY <1>1, <2>1, <3>1
    <3>3. Live(d, "subscriptions", i[1]) BY <2>1 DEF Billable
    <3>4. Live(d, "tariffs", TariffOf(d, i[1])) BY <2>1, BillableHasTariff
    <3>5. /\ Live(e, "subscriptions", row(i).subscription)
          /\ Live(e, "periods", row(i).period)
          /\ Live(e, "tariffs", row(i).tariff)
      BY <3>3, <3>4, <1>4 DEF Tables
    <3>6. \A q \in Parents["calculations"] : Live(e, q[2], row(i)[q[1]])
      BY <3>5 DEF Parents
    <3> QED BY <2>1, <3>2, <3>6 DEF HasParents
  <2>2. CASE ~(t = "calculations" /\ i[2] = p /\ Billable(d, i[1]))
    <3>1. e[t][i] = d[t][i] BY <2>2, <1>1 DEF IdsOf
    <3>2. Live(d, t, i) BY <3>1, <1>5 DEF Live
    <3>3. HasParents(d, t, d[t][i]) BY <3>2 DEF Resolves, LiveIds
    <3> QED BY <3>1, <3>3, <1>4, References DEF HasParents
  <2> QED BY <2>1, <2>2
<1> QED BY <1>3, <1>5 DEF Resolves, LiveIds

\* An accepted insert stores a row whose references are there.
LEMMA InsertedKeeps ==
    ASSUME NEW d, RegistryOK(d), Resolves(d), NEW t, NEW r, AcceptedInsert(d, t, r)
    PROVE  RegistryOK(Inserted(d, t, r)) /\ Resolves(Inserted(d, t, r))
<1> DEFINE i == NextId(d, t, r)
           d0 == Prepared(d, t, r)
           row == Completed(d, t, r)
           d1 == [d0 EXCEPT ![t][i] = row]
<1>1. RegistryOK(d0) /\ Resolves(d0) /\ \A u \in Tables : \A x : HasParents(d, u, x) => HasParents(d0, u, x)
  BY PreparedKeeps, SameReferencesResolve
<1>2. CASE t \in Tables
  <2>1. i \in IdsOf(t)
    <3>1. FreeIds(d, t, r) # {} BY DEF AcceptedInsert
    <3>2. FreeIds(d, t, r) \subseteq IdsOf(t) BY DEF FreeIds
    <3>3. \E j \in FreeIds(d, t, r) : t = "calculations" \/ \A k \in FreeIds(d, t, r) : j <= k
      <4>1. CASE t = "calculations" BY <3>1, <4>1
      <4>2. CASE t # "calculations"
        <5>1. FreeIds(d, t, r) \subseteq Nat BY <3>2, <4>2, RegistryAssumption DEF IdsOf
        <5> QED BY <5>1, <3>1, LeastElement
      <4> QED BY <4>1, <4>2
    <3> QED BY <3>2, <3>3 DEF NextId
  <2>2. row \in Row[t] /\ HasParents(d0, t, row)
    BY <1>1, <1>2 DEF AcceptedInsert
  <2>3. RegistryOK(d1) /\ Resolves(d1)
    BY <1>1, <1>2, <2>1, <2>2, Stored
  <2>4. CASE t = "periods"
    <3>1. Live(d1, "periods", i)
      BY <2>1, <2>2, <2>4, <1>1, RowLive DEF RegistryOK, Tables
    <3>2. i \in Ids BY <2>1, <2>4 DEF IdsOf
    <3> QED BY <2>3, <2>4, <3>1, <3>2, GeneratedKeeps DEF Inserted
  <2>5. CASE t # "periods" BY <2>3, <2>5 DEF Inserted
  <2> QED BY <2>4, <2>5
<1>3. CASE t \notin Tables
  <2>1. DOMAIN d1 = Tables /\ \A u \in Tables : d1[u] = d0[u]
    BY <1>1, <1>3 DEF RegistryOK
  <2>2. RegistryOK(d1) /\ SameReferences(d0, d1)
    BY <1>1, <2>1 DEF RegistryOK, SameReferences, Live
  <2>3. Inserted(d, t, r) = d1
    BY <1>3 DEF Inserted, Tables
  <2> QED BY <1>1, <2>2, <2>3, SameReferencesResolve
<1> QED BY <1>2, <1>3

-----------------------------------------------------------------------------
(* Update and delete. *)

\* Taking the flag from the other locations changes no reference.
LEMMA OthersClearedKeeps ==
    ASSUME NEW d, RegistryOK(d), NEW t, NEW i, NEW set
    PROVE  RegistryOK(OthersCleared(d, t, i, set)) /\ SameReferences(d, OthersCleared(d, t, i, set))
<1> DEFINE e == OthersCleared(d, t, i, set)
           cleared(j) == j # i /\ Live(d, t, j) /\ d["locations"][j].client = d["locations"][i].client
<1>1. CASE ~(t = "locations" /\ set.is_default)
  BY <1>1 DEF OthersCleared, SameReferences
<1>2. CASE t = "locations" /\ set.is_default
  <2>1. /\ DOMAIN e = Tables
        /\ \A u \in Tables \ {"locations"} : e[u] = d[u]
        /\ e["locations"] = [j \in Ids |-> IF cleared(j)
                                          THEN [d["locations"][j] EXCEPT !.is_default = FALSE]
                                          ELSE d["locations"][j]]
    BY <1>2 DEF OthersCleared, RegistryOK, Tables
  <2>2. ASSUME NEW j \in Ids
        PROVE  /\ e["locations"][j] \in Row["locations"] \cup {New, Gone}
               /\ Live(d, "locations", j) <=> Live(e, "locations", j)
               /\ Live(d, "locations", j) => e["locations"][j].client = d["locations"][j].client
    <3>1. CASE cleared(j)
      <4>1. Live(d, "locations", j) /\ d["locations"][j] \in Row["locations"]
        BY <1>2, <3>1, LiveRow DEF Tables
      <4>2. e["locations"][j] = [d["locations"][j] EXCEPT !.is_default = FALSE]
        BY <2>1, <3>1
      <4>3. /\ e["locations"][j] \in Row["locations"]
            /\ e["locations"][j].client = d["locations"][j].client
        BY <4>1, <4>2 DEF Row
      <4> QED BY <4>1, <4>3, RowLive DEF Tables, IdsOf
    <3>2. CASE ~cleared(j)
      BY <2>1, <3>2 DEF RegistryOK, Live, Tables, IdsOf
    <3> QED BY <3>1, <3>2
  <2>3. RegistryOK(e)
    <3>1. e["locations"] \in [Ids -> Row["locations"] \cup {New, Gone}]
      BY <2>1, <2>2
    <3> QED BY <2>1, <3>1 DEF RegistryOK, IdsOf, Tables
  <2>4. SameReferences(d, e)
    <3> SUFFICES ASSUME NEW u \in Tables, NEW j \in IdsOf(u)
                 PROVE  /\ Live(d, u, j) <=> Live(e, u, j)
                        /\ Live(d, u, j) => \A p \in Parents[u] : e[u][j][p[1]] = d[u][j][p[1]]
      BY DEF SameReferences
    <3>1. CASE u = "locations"
      <4>1. j \in Ids BY <3>1 DEF IdsOf
      <4>2. \A p \in Parents["locations"] : p[1] = "client" BY DEF Parents
      <4> QED BY <3>1, <4>1, <4>2, <2>2
    <3>2. CASE u # "locations" BY <3>2, <2>1 DEF Live
    <3> QED BY <3>1, <3>2
  <2> QED BY <2>3, <2>4
<1> QED BY <1>1, <1>2

\* An update removes no row and writes no reference.
LEMMA UpdatedKeeps ==
    ASSUME NEW d, RegistryOK(d), Resolves(d), NEW t, NEW i, NEW set, AcceptedUpdate(d, t, i, set)
    PROVE  RegistryOK(Updated(d, t, i, set)) /\ Resolves(Updated(d, t, i, set))
<1> DEFINE d0 == OthersCleared(d, t, i, set)
           row == Written(t, d[t][i], set)
           d1 == [d0 EXCEPT ![t][i] = row]
<1>1. CASE ~Live(d, t, i) BY <1>1 DEF Updated
<1>2. CASE Live(d, t, i)
  <2>1. Updated(d, t, i, set) = d1 BY <1>2 DEF Updated
  <2>2. RegistryOK(d0) /\ Resolves(d0) /\ \A u \in Tables : \A x : HasParents(d, u, x) => HasParents(d0, u, x)
    BY OthersClearedKeeps, SameReferencesResolve
  <2>3. CASE t \in Tables
    <3>1. i \in IdsOf(t) /\ d[t][i] \in Row[t] BY <1>2, <2>3, LiveRow
    <3>2. row \in Row[t] BY <1>2 DEF AcceptedUpdate
    <3>3. HasParents(d, t, d[t][i]) BY <1>2, <2>3 DEF Resolves, LiveIds, Live
    <3>4. \A p \in Parents[t] : row[p[1]] = d[t][i][p[1]]
      BY <3>1, <2>3, References, ReferencesAreColumns DEF Written
    <3>5. HasParents(d0, t, row) BY <3>3, <3>4, <2>2, <2>3 DEF HasParents
    <3> QED BY <2>1, <2>2, <2>3, <3>1, <3>2, <3>5, Stored
  <2>4. CASE t \notin Tables
    <3>1. DOMAIN d1 = Tables /\ \A u \in Tables : d1[u] = d0[u]
      BY <2>2, <2>4 DEF RegistryOK
    <3>2. RegistryOK(d1) /\ SameReferences(d0, d1)
      BY <2>2, <3>1 DEF RegistryOK, SameReferences, Live
    <3> QED BY <2>1, <2>2, <3>2, SameReferencesResolve
  <2> QED BY <2>3, <2>4
<1> QED BY <1>1, <1>2

\* Nothing that stays refers to a row that goes: row i and, for a client, its locations.
LEMMA DeletedKeeps ==
    ASSUME NEW d, RegistryOK(d), Resolves(d), NEW t, NEW i, AcceptedDelete(d, t, i)
    PROVE  RegistryOK(Deleted(d, t, i)) /\ Resolves(Deleted(d, t, i))
<1> DEFINE e == Deleted(d, t, i)
           goes(u, j) == (u = t /\ j = i)
                         \/ (t = "clients" /\ u = "locations" /\ j \in LocationsOf(d, i))
<1>1. CASE ~Live(d, t, i) BY <1>1 DEF Deleted
<1>2. CASE Live(d, t, i) /\ t \notin Tables
  <2>1. e = [d EXCEPT ![t][i] = Gone] BY <1>2 DEF Deleted, Tables
  <2>2. DOMAIN e = Tables /\ \A u \in Tables : e[u] = d[u]
    BY <1>2, <2>1 DEF RegistryOK
  <2>3. RegistryOK(e) /\ SameReferences(d, e)
    BY <2>2 DEF RegistryOK, SameReferences, Live
  <2> QED BY <2>3, SameReferencesResolve
<1>3. CASE Live(d, t, i) /\ t \in Tables
  <2>1. /\ DOMAIN e = Tables
        /\ \A u \in Tables : /\ DOMAIN e[u] = IdsOf(u)
                            /\ e[u] \in [IdsOf(u) -> Row[u] \cup {New, Gone}]
                            /\ \A j \in IdsOf(u) : e[u][j] = IF goes(u, j) THEN Gone ELSE d[u][j]
    <3>1. CASE t = "clients"
      <4>1. e = [d EXCEPT !.clients[i] = Gone,
                          !.locations = [l \in Ids |-> IF l \in LocationsOf(d, i) THEN Gone ELSE @[l]]]
        BY <1>3, <3>1 DEF Deleted
      <4>2. i \in Ids BY <1>3, <3>1 DEF Live, IdsOf
      <4>3. /\ DOMAIN e = Tables
            /\ \A u \in Tables \ {"clients", "locations"} : e[u] = d[u]
            /\ e["clients"] = [d["clients"] EXCEPT ![i] = Gone]
            /\ e["locations"] = [l \in Ids |-> IF l \in LocationsOf(d, i) THEN Gone
                                               ELSE d["locations"][l]]
        BY <4>1 DEF RegistryOK, Tables
      <4>4. /\ d["clients"] \in [Ids -> Row["clients"] \cup {New, Gone}]
            /\ d["locations"] \in [Ids -> Row["locations"] \cup {New, Gone}]
        BY DEF RegistryOK, IdsOf, Tables
      <4>5. /\ e["clients"] \in [Ids -> Row["clients"] \cup {New, Gone}]
            /\ \A j \in Ids : e["clients"][j] = IF j = i THEN Gone ELSE d["clients"][j]
        BY <4>2, <4>3, <4>4
      <4>6. /\ e["locations"] \in [Ids -> Row["locations"] \cup {New, Gone}]
            /\ \A j \in Ids : e["locations"][j] = IF j \in LocationsOf(d, i) THEN Gone
                                                  ELSE d["locations"][j]
        BY <4>3, <4>4
      <4>7. /\ \A u \in Tables \ {"clients", "locations"} : \A j : ~goes(u, j)
            /\ \A j : goes("clients", j) <=> j = i
            /\ \A j : goes("locations", j) <=> j \in LocationsOf(d, i)
        BY <3>1
      <4>8. \A u \in Tables \ {"clients", "locations"} :
               d[u] \in [IdsOf(u) -> Row[u] \cup {New, Gone}]
        BY DEF RegistryOK
      <4>9. IdsOf("clients") = Ids /\ IdsOf("locations") = Ids BY DEF IdsOf
      <4> HIDE DEF goes, e
      <4>10. ASSUME NEW u \in Tables
             PROVE  /\ e[u] \in [IdsOf(u) -> Row[u] \cup {New, Gone}]
                    /\ \A j \in IdsOf(u) : e[u][j] = IF goes(u, j) THEN Gone ELSE d[u][j]
        <5>1. CASE u = "clients" BY <5>1, <4>5, <4>7, <4>9
        <5>2. CASE u = "locations" BY <5>2, <4>6, <4>7, <4>9
        <5>3. CASE u \notin {"clients", "locations"} BY <5>3, <4>3, <4>7, <4>8
        <5> QED BY <5>1, <5>2, <5>3
      <4> QED BY <4>3, <4>10
    <3>2. CASE t # "clients"
      <4>1. e = [d EXCEPT ![t][i] = Gone] BY <1>3, <3>2 DEF Deleted
      <4>2. i \in IdsOf(t) BY <1>3 DEF Live
      <4>3. /\ DOMAIN e = Tables
            /\ \A u \in Tables \ {t} : e[u] = d[u]
            /\ e[t] = [d[t] EXCEPT ![i] = Gone]
        BY <1>3, <4>1 DEF RegistryOK
      <4>4. \A u \in Tables : d[u] \in [IdsOf(u) -> Row[u] \cup {New, Gone}]
        BY DEF RegistryOK
      <4>5. \A u \in Tables \ {t} : \A j \in IdsOf(u) : ~goes(u, j)
        BY <3>2
      <4>6. \A j \in IdsOf(t) : goes(t, j) <=> j = i
        BY <3>2
      <4>7. /\ e[t] \in [IdsOf(t) -> Row[t] \cup {New, Gone}]
            /\ \A j \in IdsOf(t) : e[t][j] = IF goes(t, j) THEN Gone ELSE d[t][j]
        <5> HIDE DEF goes
        <5> QED BY <1>3, <4>2, <4>3, <4>4, <4>6
      <4> HIDE DEF goes
      <4> QED BY <4>3, <4>4, <4>5, <4>7
    <3> QED BY <3>1, <3>2
  <2>2. RegistryOK(e) BY <2>1 DEF RegistryOK
  <2>3. ASSUME NEW u \in Tables, NEW j, Live(e, u, j)
        PROVE  Live(d, u, j) /\ e[u][j] = d[u][j] /\ ~goes(u, j)
    BY <2>1, <2>3 DEF Live
  <2>4. ASSUME NEW u \in Tables, NEW j, Live(d, u, j), ~goes(u, j)
        PROVE  Live(e, u, j)
    BY <2>1, <2>4 DEF Live
  \* A row that stays does not refer to one that goes.
  <2>5. ASSUME NEW u \in Tables, NEW j, Live(e, u, j), NEW p \in Parents[u],
               goes(p[2], d[u][j][p[1]])
        PROVE  FALSE
    <3>1. Live(d, u, j) /\ ~goes(u, j) BY <2>3, <2>5
    <3>2. \A s \in Tables : \A k : p[2] = s /\ d[u][j][p[1]] = k => <<u, j>> \in Children(d, s, k)
      BY <3>1, <2>5 DEF Children, LiveIds, Live
    <3>3. CASE p[2] = t /\ d[u][j][p[1]] = i
      <4>1. <<u, j>> \in Children(d, t, i) BY <3>2, <3>3, <1>3
      <4>2. t = "clients" BY <4>1, <1>3 DEF AcceptedDelete
      <4>3. u = "locations" /\ p[1] = "client" BY <3>3, <4>2, <2>5 DEF Parents, Tables
      <4>4. j \in LocationsOf(d, i) BY <3>1, <3>3, <4>3 DEF LocationsOf, LiveIds, Live
      <4> QED BY <3>1, <4>2, <4>3, <4>4
    <3>4. CASE t = "clients" /\ p[2] = "locations" /\ d[u][j][p[1]] \in LocationsOf(d, i)
      <4>1. <<u, j>> \in Children(d, "locations", d[u][j][p[1]]) BY <3>2, <3>4 DEF Tables
      <4> QED BY <3>4, <4>1 DEF AcceptedDelete
    <3> QED BY <2>5, <3>3, <3>4
  <2>6. ASSUME NEW u \in Tables, NEW j, Live(e, u, j) PROVE HasParents(e, u, e[u][j])
    <3>1. Live(d, u, j) /\ e[u][j] = d[u][j] BY <2>3, <2>6
    <3>2. HasParents(d, u, d[u][j]) BY <3>1 DEF Resolves, LiveIds, Live
    <3>3. ASSUME NEW p \in Parents[u] PROVE Live(e, p[2], d[u][j][p[1]])
      BY <3>2, <2>4, <2>5, <2>6, References DEF HasParents
    <3> QED BY <3>1, <3>3 DEF HasParents
  <2> QED BY <2>2, <2>6 DEF Resolves, LiveIds, Live
<1> QED BY <1>1, <1>2, <1>3

-----------------------------------------------------------------------------
(* Whatever the server accepts. *)

\* No call that the server accepts leaves a reference without its row.
LEMMA ApplyKeeps ==
    ASSUME NEW d, RegistryOK(d), Resolves(d), NEW c, Accepted(d, c)
    PROVE  RegistryOK(Apply(d, c)) /\ Resolves(Apply(d, c))
<1>1. CASE c.op = "insert" BY <1>1, InsertedKeeps DEF Accepted, Apply
<1>2. CASE c.op = "update" BY <1>2, UpdatedKeeps DEF Accepted, Apply
<1>3. CASE c.op = "delete" BY <1>3, DeletedKeeps DEF Accepted, Apply
<1> QED BY <1>1, <1>2, <1>3 DEF Accepted

-----------------------------------------------------------------------------
(* The pages.                                                              *)

\* The tables are well formed and every reference has its row.
TablesOK == RegistryOK(db) /\ Resolves(db)

-----------------------------------------------------------------------------
(* What a user does sends nothing yet. *)

\* Neither a click, nor a dialog that it opens, nor a form that it submits changes a table.
LEMMA ClickSendsLater == \A page, programs : Click(page, programs) => UNCHANGED db
BY DEF Click
\* Opening a dialog is a click.
LEMMA ShowSendsLater == \A dialog : Show(dialog) => UNCHANGED db
BY ClickSendsLater DEF Show
\* So is submitting a form.
LEMMA SubmitSendsLater == \A steps : Submit(steps) => UNCHANGED db
BY ClickSendsLater DEF Submit

\* No handler of the clients page has changed a table when its click is over.
LEMMA ClientsPageSendsLater == ClientsPage => UNCHANGED db
<1>1. ApplySearch \/ PreviousPage \/ NextPage => UNCHANGED db
  BY ClickSendsLater DEF ApplySearch, PreviousPage, NextPage, Refilter
<1>2. OpenCreateClient \/ OpenEditClient \/ OpenDeleteClient => UNCHANGED db
  BY ShowSendsLater DEF OpenCreateClient, OpenEditClient, OpenDeleteClient
<1>3. CreateClient \/ SaveClient \/ DeleteClient => UNCHANGED db
  BY SubmitSendsLater DEF CreateClient, SaveClient, DeleteClient
<1> QED BY <1>1, <1>2, <1>3 DEF ClientsPage

\* No handler of the locations page has changed a table when its click is over.
LEMMA LocationsPageSendsLater == LocationsPage => UNCHANGED db
<1>1. ChooseClient => UNCHANGED db BY ClickSendsLater DEF ChooseClient
<1>2. OpenCreateLocation \/ OpenEditLocation \/ OpenDeleteLocation => UNCHANGED db
  BY ShowSendsLater DEF OpenCreateLocation, OpenEditLocation, OpenDeleteLocation
<1>3. CreateLocation \/ SaveLocation \/ DeleteLocation => UNCHANGED db
  BY SubmitSendsLater DEF CreateLocation, SaveLocation, DeleteLocation
<1> QED BY <1>1, <1>2, <1>3 DEF LocationsPage

\* No handler of a client's details has changed a table when its click is over.
LEMMA DetailPageSendsLater == DetailPage => UNCHANGED db
<1>1. \/ OpenAddLocation \/ OpenChangeLocation \/ OpenSubscribe \/ OpenDisconnectHere
      \/ OpenUnsubscribe
      => UNCHANGED db
  BY ShowSendsLater DEF OpenAddLocation, OpenChangeLocation, OpenSubscribe, OpenDisconnectHere, OpenUnsubscribe
<1>2. SaveDetailLocation \/ Subscribe \/ DisconnectHere \/ Unsubscribe => UNCHANGED db
  BY SubmitSendsLater DEF SaveDetailLocation, Subscribe, DisconnectHere, Unsubscribe
<1> QED BY <1>1, <1>2 DEF DetailPage

\* No handler of the subscriptions page has changed a table when its click is over.
LEMMA SubscriptionsPageSendsLater == SubscriptionsPage => UNCHANGED db
<1>1. FilterClient \/ FilterLocation \/ ChooseClientInForm => UNCHANGED db
  BY ClickSendsLater DEF FilterClient, FilterLocation, ChooseClientInForm, FilterBy
<1>2. \/ OpenCreateSubscription \/ OpenEditSubscription \/ OpenDisconnect
      \/ OpenDeleteSubscription
      => UNCHANGED db
  BY ShowSendsLater DEF OpenCreateSubscription, OpenEditSubscription, OpenDisconnect, OpenDeleteSubscription
<1>3. CreateSubscription \/ SaveSubscription \/ Disconnect \/ DeleteSubscription => UNCHANGED db
  BY SubmitSendsLater DEF CreateSubscription, SaveSubscription, Disconnect, DeleteSubscription
<1> QED BY <1>1, <1>2, <1>3 DEF SubscriptionsPage

\* No handler of the services page has changed a table when its click is over.
LEMMA ServicesPageSendsLater == ServicesPage => UNCHANGED db
<1>1. ToggleExpand => UNCHANGED db BY ClickSendsLater DEF ToggleExpand
<1>2. \/ OpenCreateService \/ OpenEditService \/ OpenDeleteService
      \/ OpenCreateTariff \/ OpenEditTariff \/ OpenDeleteTariff
      => UNCHANGED db
  BY ShowSendsLater DEF OpenCreateService, OpenEditService, OpenDeleteService, OpenCreateTariff, OpenEditTariff, OpenDeleteTariff
<1>3. \/ SaveService \/ CreateService \/ DeleteService \/ SaveTariff \/ DeleteTariff
      => UNCHANGED db
  BY SubmitSendsLater DEF SaveService, CreateService, DeleteService, SaveTariff, DeleteTariff
<1> QED BY <1>1, <1>2, <1>3 DEF ServicesPage

\* No handler of the periods page has changed a table when its click is over.
LEMMA PeriodsPageSendsLater == PeriodsPage => UNCHANGED db
<1>1. OpenOpenPeriod \/ OpenClosePeriod \/ OpenDeletePeriod => UNCHANGED db
  BY ShowSendsLater DEF OpenOpenPeriod, OpenClosePeriod, OpenDeletePeriod
<1>2. OpenPeriod \/ ClosePeriod \/ ReopenPeriod \/ DeletePeriod => UNCHANGED db
  BY SubmitSendsLater DEF OpenPeriod, ClosePeriod, ReopenPeriod, DeletePeriod
<1> QED BY <1>1, <1>2 DEF PeriodsPage

\* No handler of the users page has changed a table when its click is over.
LEMMA UsersPageSendsLater == UsersPage => UNCHANGED db
<1>1. OpenCreateUser \/ OpenEditUser \/ OpenPassword \/ OpenDeleteUser => UNCHANGED db
  BY ShowSendsLater DEF OpenCreateUser, OpenEditUser, OpenPassword, OpenDeleteUser
<1>2. CreateUser \/ SaveUser \/ ChangePassword \/ ToggleBlock \/ DeleteUser => UNCHANGED db
  BY SubmitSendsLater DEF CreateUser, SaveUser, ChangePassword, ToggleBlock, DeleteUser
<1> QED BY <1>1, <1>2 DEF UsersPage

\* No handler of the calculations page has changed a table when its click is over.
LEMMA BillPageSendsLater == BillPage => UNCHANGED db
<1>1. ChoosePeriod \/ ChooseBilled \/ ChooseLocation => UNCHANGED db
  BY ClickSendsLater DEF ChoosePeriod, ChooseBilled, ChooseLocation
<1>2. OpenCreateCalculation \/ OpenEditCalculation \/ OpenDeleteCalculation \/ OpenStatus
      => UNCHANGED db
  BY ShowSendsLater DEF OpenCreateCalculation, OpenEditCalculation, OpenDeleteCalculation, OpenStatus
<1>3. CreateCalculation \/ DeleteCalculation \/ SaveEdit \/ SaveStatus => UNCHANGED db
  BY SubmitSendsLater DEF CreateCalculation, DeleteCalculation, SaveEdit, SaveStatus
<1> QED BY <1>1, <1>2, <1>3 DEF BillPage

\* Nor has any other click, or a link.
LEMMA UserSendsLater == User => UNCHANGED db
<1>1. Cancel \/ Visit => UNCHANGED db BY ClickSendsLater DEF Cancel, Visit, Open
<1> QED BY <1>1, ClientsPageSendsLater, LocationsPageSendsLater, DetailPageSendsLater,
           SubscriptionsPageSendsLater, ServicesPageSendsLater, PeriodsPageSendsLater,
           UsersPageSendsLater, BillPageSendsLater DEF User

-----------------------------------------------------------------------------

\* TablesOK holds initially and no step of a page, of the network or of others breaks it.
THEOREM TablesStayOK == Spec => []TablesOK
<1>1. Init => TablesOK BY WebPagesAssumption DEF Init, TablesOK
<1>2. TablesOK /\ [Next]_vars => TablesOK'
  <2> SUFFICES ASSUME TablesOK, [Next]_vars PROVE TablesOK' OBVIOUS
  <2>1. CASE UNCHANGED db BY <2>1 DEF TablesOK
  <2>2. CASE \E c : Accepted(db, c) /\ db' = Apply(db, c)
    <3>1. PICK c : Accepted(db, c) /\ db' = Apply(db, c) BY <2>2
    <3>2. RegistryOK(Apply(db, c)) /\ Resolves(Apply(db, c)) BY <3>1, ApplyKeeps DEF TablesOK
    <3> QED BY <3>1, <3>2 DEF TablesOK
  <2>3. CASE User BY <2>3, <2>1, UserSendsLater
  <2>4. ASSUME NEW k \in Slots, Network(k) PROVE TablesOK'
    <3>1. CASE Execute(k) BY <3>1, <2>2 DEF Execute
    <3>2. CASE Reply(k) BY <3>2, <2>1 DEF Reply
    <3>3. CASE Deliver(k) BY <3>3, <2>1 DEF Deliver
    <3>4. CASE Refuse(k) BY <3>4, <2>1 DEF Refuse, Caught
    <3>5. CASE Fail(k) BY <3>5, <2>1 DEF Fail, Caught
    <3> QED BY <2>4, <3>1, <3>2, <3>3, <3>4, <3>5 DEF Network
  <2>5. CASE Elsewhere(Others) BY <2>5, <2>2 DEF Elsewhere
  <2>6. CASE UNCHANGED vars BY <2>6, <2>1 DEF vars
  <2> QED BY <2>3, <2>4, <2>5, <2>6 DEF Next
<1> QED BY <1>1, <1>2, PTL DEF Spec

\* No reference of the server's tables is ever left without its row, although the pages send
\* deletions they have worked out from lists that may be stale.
THEOREM NoOrphansEver == Spec => []NoOrphans
<1>1. TablesOK => NoOrphans BY DEF TablesOK, NoOrphans
<1> QED BY <1>1, TablesStayOK, PTL

-----------------------------------------------------------------------------
(* The shape of the state: PageInv.  A page holds lists of rows known by   *)
(* ids because every query of a handler names a list that may hold what it *)
(* is answered; a filter or a dialog takes its ids from those lists; and a *)
(* handler under way is what is left of a program of such queries.         *)
(* First the queries and the answers, then the programs, then the pages,   *)
(* one lemma each, and the network.                                        *)

\* What a list may hold: rows by their ids, and in "tariffs" such a list for each service.
ListOK(l, f) ==
    /\ l = "calculations" => DOMAIN f \subseteq Ids \X Ids
    /\ l \notin {"calculations", "active", "tariffs"} => DOMAIN f \subseteq Ids
    /\ l = "periods" => \A p \in DOMAIN f : f[p] \in Row["periods"]
    /\ l = "tariffs" => \A s \in DOMAIN f : DOMAIN f[s] \subseteq Ids

\* The list of a query is one that may hold its rows.
QueryOK(q) ==
    /\ q.list \in Lists /\ q.table \in Tables
    /\ q.list = "calculations" <=> q.table = "calculations"
    /\ q.list = "tariffs" <=> q.by = "history"
    /\ q.list = "active" <=> q.by = "inForce"
    /\ q.by = "search" => q.list = "clients"
    /\ q.by = "bill" => q.list = "calculations"
    /\ q.list = "periods" => q.table = "periods"

StepOK(s) ==
    /\ s \in [calls : {s.calls}, asks : {s.asks}, close : {s.close}, spin : BOOLEAN,
               fin : {"never", "failed", "always"}, next : {s.next}]
    /\ \A q \in s.asks : QueryOK(q)
    /\ s.next \in Opt({"active", "subscriptions", "calculations", "options"})

ProgramOK(steps) ==
    LET S == {steps[n] : n \in DOMAIN steps}
    IN  steps \in Seq(S) /\ steps # <<>> /\ \A s \in S : StepOK(s)

JobOK(j) ==
    /\ j \in [steps : {j.steps}, got : {j.got}, made : {j.made}, here : BOOLEAN]
    /\ ProgramOK(j.steps)
    /\ j.got # None => \A l \in DOMAIN j.got : ListOK(l, j.got[l])

\* The offset is that of a page, so the button that subtracts PageSize from an offset above
\* zero does not get below it.
SelOK(sel) ==
    /\ sel \in [client : Opt(Ids), location : Opt(Ids), period : Opt(Ids), service : Opt(Ids),
                 search : Opt(Texts), offset : Nat]
    /\ \E n \in 0..sel.offset : sel.offset = n * PageSize

UiOK(page) ==
    /\ page \in [page : Pages, sel : {page.sel}, list : {page.list}, dlg : {page.dlg},
                  busy : BOOLEAN]
    /\ SelOK(page.sel)
    /\ DOMAIN page.list = Lists /\ \A l \in Lists : ListOK(l, page.list[l])
    /\ page.dlg # None =>
           page.dlg.id \in Opt(IdsOf(IF page.page = "calculations" THEN "calculations" ELSE "any"))

PageInv ==
    /\ RegistryOK(db) /\ Resolves(db)
    /\ UiOK(ui)
    /\ DOMAIN job = Slots /\ \A k \in Slots : job[k] # NoJob => JobOK(job[k])
    /\ trouble \in Nat
    /\ saves \in 0..MaxSaves

\* An answer fits the list of its query.
LEMMA AnswerFits ==
    ASSUME NEW d, RegistryOK(d), NEW q, QueryOK(q)
    PROVE  ListOK(q.list, Answer(d, q))
<1> DEFINE found == {i \in LiveIds(d, q.table) : Selects(d, q, i)}
<1>1. /\ LiveIds(d, "tariffs") \subseteq Ids
      /\ found \subseteq IdsOf(q.table)
  BY DEF LiveIds, IdsOf
<1>2. \A S, t : DOMAIN Rows(d, t, S) = S BY DEF Rows
<1>3. \A S, offset : Window(S, offset) \subseteq S BY DEF Window
<1>4. \A i \in LiveIds(d, "periods") : d["periods"][i] \in Row["periods"]
  BY DEF RegistryOK, LiveIds, Live, Tables
<1>5. CASE q.by = "search"
  <2>1. Answer(d, q) = Rows(d, "clients", Window(found, q.of.offset)) BY <1>5 DEF Answer
  <2> QED BY <2>1, <1>1, <1>2, <1>3, <1>5 DEF QueryOK, ListOK, IdsOf
<1>6. CASE q.by = "history"
  <2>1. Answer(d, q) = [s \in q.of |-> Rows(d, "tariffs",
                            {i \in LiveIds(d, "tariffs") : d.tariffs[i].service = s})]
    BY <1>6 DEF Answer
  <2> QED BY <2>1, <1>1, <1>2, <1>6 DEF QueryOK, ListOK
<1>7. CASE q.by = "inForce" BY <1>7 DEF QueryOK, ListOK
<1>8. CASE q.by = "bill"
  <2>1. DOMAIN Answer(d, q) = found BY <1>8 DEF Answer
  <2> QED BY <2>1, <1>1, <1>8 DEF QueryOK, ListOK, IdsOf
<1>9. CASE q.by \notin {"search", "history", "inForce", "bill"}
  <2>1. Answer(d, q) = Rows(d, q.table, found) BY <1>9 DEF Answer
  <2>2. q.list = "periods" => \A p \in found : Rows(d, q.table, found)[p] \in Row["periods"]
    BY <1>4 DEF Rows, QueryOK
  <2> QED BY <2>1, <2>2, <1>1, <1>2, <1>9 DEF QueryOK, ListOK, IdsOf
<1> QED BY <1>5, <1>6, <1>7, <1>8, <1>9

\* A merged answer fits too.
LEMMA MergedFits ==
    ASSUME NEW l, NEW f, NEW g, ListOK(l, f), ListOK(l, g)
    PROVE  ListOK(l, Merged(f, g))
<1>1. DOMAIN Merged(f, g) = DOMAIN f \cup DOMAIN g BY DEF Merged
<1>2. \A x \in DOMAIN f : Merged(f, g)[x] = f[x] BY DEF Merged
<1>3. \A x \in DOMAIN g \ DOMAIN f : Merged(f, g)[x] = g[x] BY DEF Merged
<1> QED BY <1>1, <1>2, <1>3 DEF ListOK

\* An empty list fits everywhere.
LEMMA NothingFits == \A l : ListOK(l, Nothing)
BY DEF ListOK, Nothing

\* So do the lists after an answer has arrived.
LEMMA ArrivedFits ==
    ASSUME NEW lists, NEW asks, NEW got,
           \A l \in Lists : ListOK(l, lists[l]), \A l \in DOMAIN got : ListOK(l, got[l])
    PROVE  /\ DOMAIN Arrived(lists, asks, got) = Lists
           /\ \A l \in Lists : ListOK(l, Arrived(lists, asks, got)[l])
BY MergedFits DEF Arrived

-----------------------------------------------------------------------------
\* Any sequence of steps is a program, and so is what is left of one.
LEMMA IsProgram ==
    ASSUME NEW S, NEW q \in Seq(S), q # <<>>, \A s \in S : StepOK(s)
    PROVE  ProgramOK(q)
<1> DEFINE R == {q[n] : n \in DOMAIN q}
<1>1. q \in [1..Len(q) -> S] /\ Len(q) \in Nat BY LenProperties
<1>2. R \subseteq S BY <1>1
<1>3. q \in [1..Len(q) -> R] BY <1>1
<1>4. q \in Seq(R) BY <1>1, <1>3, SeqDef
<1> QED BY <1>2, <1>4 DEF ProgramOK

\* A program of one step.
LEMMA OneStep == ASSUME NEW a, StepOK(a) PROVE ProgramOK(<<a>>)
<1>1. <<a>> \in Seq({a}) OBVIOUS
<1>2. <<a>> # <<>> OBVIOUS
<1>3. \A s \in {a} : StepOK(s) OBVIOUS
<1> HIDE DEF StepOK, ProgramOK
<1> DEFINE q == <<a>>
<1>4. q \in Seq({a}) /\ q # <<>> BY <1>1, <1>2
<1> HIDE DEF q
<1>5. ProgramOK(q) BY <1>3, <1>4, IsProgram
<1> QED BY <1>5 DEF q

\* Programs one after the other.
LEMMA StepsInRow ==
    ASSUME NEW s, ProgramOK(s), NEW t, ProgramOK(t)
    PROVE  ProgramOK(s \o t)
<1> DEFINE S == {s[n] : n \in DOMAIN s}
<1> DEFINE T == {t[n] : n \in DOMAIN t}
<1> DEFINE U == S \cup T
<1>1. s \in Seq(U) /\ t \in Seq(U) /\ s # <<>> /\ t # <<>> BY DEF ProgramOK
<1>2. \A u \in U : StepOK(u) BY DEF ProgramOK
<1>3. s \o t \in Seq(U) /\ s \o t # <<>> BY <1>1
<1> QED BY <1>2, <1>3, IsProgram

\* What a step of a handler is made from.
LEMMA StepKinds ==
    /\ \A calls, dialog : StepOK(Send(calls, dialog))
    /\ \A asks : (\A q \in asks : QueryOK(q)) => StepOK(Load(asks))
    /\ \A name \in {"active", "subscriptions", "calculations", "options"} : StepOK(Then(name))
    /\ \A s : StepOK(s) => StepOK(Spinning(s)) /\ StepOK(Finally(s)) /\ StepOK(IfFailed(s))
<1>1. StepOK(Step) BY DEF StepOK, Step, Opt
<1>2. \A s, calls, dialog : StepOK(s) => StepOK([s EXCEPT !.calls = calls, !.close = dialog])
  BY DEF StepOK
<1>3. \A s, asks : StepOK(s) /\ (\A q \in asks : QueryOK(q)) => StepOK([s EXCEPT !.asks = asks])
  BY DEF StepOK
<1>4. \A s : \A name \in {"active", "subscriptions", "calculations", "options"} :
        StepOK(s) => StepOK([s EXCEPT !.next = name])
  BY DEF StepOK, Opt
<1>5. \A s : StepOK(s) => StepOK(Spinning(s)) /\ StepOK(Finally(s)) /\ StepOK(IfFailed(s))
  BY DEF StepOK, Spinning, Finally, IfFailed
<1> QED BY <1>1, <1>2, <1>3, <1>4, <1>5 DEF Send, Load, Then

\* What the requests of the pages ask for fits their lists.
LEMMA QueryKinds ==
    /\ \A t \in {"users", "clients", "locations", "services", "subscriptions", "periods"} :
           QueryOK(All(t))
    /\ \A c : QueryOK(LocationsOfClient(c))
    /\ \A sel : \A q \in Bill(sel) : QueryOK(q)
    /\ \A sel, calcs : \A q \in Unbilled(sel, calcs) : QueryOK(q)
    /\ \A sel : \A q \in ClientQueries(sel) : QueryOK(q)
    /\ \A c : \A q \in DetailQueries(c) : QueryOK(q)
    /\ \A s : QueryOK(Tariffs("tariffs", "history", s)) /\ QueryOK(Tariffs("active", "inForce", s))
BY DEF QueryOK, All, Query, LocationsOfClient, Bill, Unbilled, ClientQueries, DetailQueries, Tariffs,
       Lists, Tables

\* So does what a later step works out.
LEMMA AskedOK ==
    ASSUME NEW name \in {"active", "subscriptions", "calculations", "options"}, NEW got, NEW sel
    PROVE  \A q \in Asked(name, got, sel) : QueryOK(q)
<1>1. CASE name = "active" BY <1>1 DEF Asked, QueryOK, Query, Lists, Tables
<1>2. CASE name = "subscriptions" BY <1>2 DEF Asked, QueryOK, Query, Lists, Tables
<1>3. CASE name = "calculations" BY <1>3, QueryKinds DEF Asked
<1>4. CASE name = "options" BY <1>4, QueryKinds DEF Asked
<1> QED BY <1>1, <1>2, <1>3, <1>4

\* The rest of a handler is over, or a program.
LEMMA RestOK ==
    ASSUME NEW steps, ProgramOK(steps), NEW got, NEW sel
    PROVE  Rest(steps, got, sel) = <<>> \/ ProgramOK(Rest(steps, got, sel))
<1> DEFINE S == {steps[n] : n \in DOMAIN steps}
<1>1. steps \in Seq(S) /\ steps # <<>> /\ Len(steps) \in Nat \ {0} BY EmptySeq DEF ProgramOK
<1>2. CASE Len(steps) = 1 BY <1>2 DEF Rest
<1>3. CASE Len(steps) # 1
  <2> DEFINE s == steps[2]
             asks == IF s.next = None THEN s.asks ELSE Asked(s.next, got, sel)
             first == [s EXCEPT !.asks = asks, !.next = None]
             more == SubSeq(steps, 3, Len(steps))
  <2>1. s \in S
    <3> HIDE DEF S
    <3> DEFINE n == Len(steps)
    <3>0. n \in Nat /\ n # 0 /\ n # 1 BY <1>1, <1>3
    <3> HIDE DEF n
    <3>1. 2 \in 1..n BY <3>0
    <3> QED BY <1>1, <3>1, ElementOfSeq DEF n
  <2>2. StepOK(s) BY <2>1 DEF ProgramOK
  <2>3. \A q \in asks : QueryOK(q) BY <2>2, AskedOK DEF StepOK, Opt
  <2> HIDE DEF asks
  <2>4. StepOK(first) BY <2>2, <2>3 DEF StepOK, Opt
  <2>5. ProgramOK(<<first>>) BY <2>4, OneStep
  <2>6. more = <<>> \/ ProgramOK(more)
    <3>1. \A i \in 3..Len(steps) : steps[i] \in S BY <1>1, ElementOfSeq
    <3>2. more \in Seq(S) BY <1>1, <3>1, SubSeqProperties
    <3>3. \A x \in S : StepOK(x) BY DEF ProgramOK
    <3> HIDE DEF more, S
    <3>4. CASE more # <<>> BY <3>2, <3>3, <3>4, IsProgram
    <3> QED BY <3>4
  <2>7. ProgramOK(<<first>> \o more)
    <3>1. CASE more = <<>>
      <4>1. <<first>> \in Seq({first}) OBVIOUS
      <4>2. <<first>> \o <<>> = <<first>> BY <4>1, ConcatEmptySeq
      <4> QED BY <2>5, <3>1, <4>2
    <3>2. CASE ProgramOK(more) BY <3>2, <2>5, StepsInRow
    <3> QED BY <2>6, <3>1, <3>2
  <2>8. Rest(steps, got, sel) = IF s.calls = {} /\ asks = {} THEN <<>> ELSE <<first>> \o more
    BY <1>3 DEF Rest, asks
  <2> QED BY <2>7, <2>8
<1> QED BY <1>2, <1>3

-----------------------------------------------------------------------------
(* Handlers that begin. *)

\* The programs of one click.
ProgramsOK(programs) == \E S : programs \in Seq(S) /\ \A p \in S : ProgramOK(p)

\* No program at all, one, and those of two effects.
LEMMA ProgramsFew ==
    /\ ProgramsOK(<<>>)
    /\ \A p : ProgramOK(p) => ProgramsOK(<<p>>)
    /\ \A P, Q : ProgramsOK(P) /\ ProgramsOK(Q) => ProgramsOK(P \o Q)
<1>1. ProgramsOK(<<>>)
  <2> DEFINE S == {}
  <2>1. <<>> \in Seq(S) BY EmptySeq
  <2>2. \A p \in S : ProgramOK(p) OBVIOUS
  <2> HIDE DEF S
  <2>3. \E V : <<>> \in Seq(V) /\ \A p \in V : ProgramOK(p) BY <2>1, <2>2
  <2> QED BY <2>3 DEF ProgramsOK
<1>2. ASSUME NEW p, ProgramOK(p) PROVE ProgramsOK(<<p>>)
  <2>1. <<p>> \in Seq({p}) OBVIOUS
  <2>2. \A x \in {p} : ProgramOK(x) BY <1>2
  <2> DEFINE P == <<p>>
             S == {p}
  <2>3. P \in Seq(S) /\ \A x \in S : ProgramOK(x) BY <2>1, <2>2
  <2> HIDE DEF P, S
  <2>4. \E V : P \in Seq(V) /\ \A x \in V : ProgramOK(x) BY <2>3
  <2>5. ProgramsOK(P) BY <2>4 DEF ProgramsOK
  <2> QED BY <2>5 DEF P
<1>3. ASSUME NEW P, NEW Q, ProgramsOK(P), ProgramsOK(Q) PROVE ProgramsOK(P \o Q)
  <2>1. PICK S : P \in Seq(S) /\ \A p \in S : ProgramOK(p) BY <1>3 DEF ProgramsOK
  <2>2. PICK T : Q \in Seq(T) /\ \A p \in T : ProgramOK(p) BY <1>3 DEF ProgramsOK
  <2>3. P \in Seq(S \cup T) /\ Q \in Seq(S \cup T) BY <2>1, <2>2, SeqMonotonic
  <2>4. P \o Q \in Seq(S \cup T) BY <2>3, ConcatProperties
  <2>5. \A p \in S \cup T : ProgramOK(p) BY <2>1, <2>2
  <2> QED BY <2>4, <2>5 DEF ProgramsOK
<1> QED BY <1>1, <1>2, <1>3

\* The position of a slot among the free ones is counted from one.
LEMMA RankPositive ==
    ASSUME NEW F \in SUBSET Nat, NEW k \in F
    PROVE  Cardinality({j \in F : j <= k}) \in Nat \ {0}
<1> DEFINE A == {j \in F : j <= k}
<1>1. IsFiniteSet(0..k) BY FS_Interval
<1>2. IsFiniteSet(A)
  <2>1. A \subseteq 0..k
    <3>1. \A j \in A : j \in Nat /\ j <= k OBVIOUS
    <3>2. k \in Nat OBVIOUS
    <3> HIDE DEF A
    <3> QED BY <3>1, <3>2
  <2> QED BY <1>1, <2>1, FS_Subset
<1>3. k \in A
  <2>1. k \in Nat OBVIOUS
  <2>2. k <= k BY <2>1
  <2> QED BY <2>2
<1> QED BY <1>2, <1>3, FS_CardinalityType, FS_EmptySet

\* Every slot that is taken holds a handler.
JobsOK(jobs) == DOMAIN jobs = Slots /\ \A k \in Slots : jobs[k] # NoJob => JobOK(jobs[k])

\* A handler begins with its whole program.
LEMMA NewJobOK == ASSUME NEW p, ProgramOK(p) PROVE JobOK(NewJob(p))
BY DEF NewJob, JobOK

\* The handlers under way after a click.
LEMMA BegunOK ==
    ASSUME NEW jobs, JobsOK(jobs), NEW programs, ProgramsOK(programs)
    PROVE  JobsOK(Begun(jobs, programs))
<1> DEFINE free == {k \in Slots : jobs[k] = NoJob}
           rank(k) == Cardinality({j \in free : j <= k})
<1>1. PICK S : programs \in Seq(S) /\ \A p \in S : ProgramOK(p) BY DEF ProgramsOK
<1>2. \A k \in free : rank(k) \in Nat \ {0}
  <2>1. free \in SUBSET Nat BY BrowserAssumption
  <2> QED BY <2>1, RankPositive
<1>3. ASSUME NEW k \in free, rank(k) <= Len(programs) PROVE ProgramOK(programs[rank(k)])
  <2>1. Len(programs) \in Nat BY <1>1, LenProperties
  <2>2. rank(k) \in 1..Len(programs) BY <1>2, <1>3, <2>1
  <2>3. programs[rank(k)] \in S BY <1>1, <2>2, ElementOfSeq
  <2> QED BY <1>1, <2>3
<1>4. Begun(jobs, programs) =
        [k \in Slots |-> IF k \in free /\ rank(k) <= Len(programs) THEN NewJob(programs[rank(k)])
                         ELSE jobs[k]]
  BY DEF Begun
<1> HIDE DEF rank
<1>5. ASSUME NEW k \in Slots, Begun(jobs, programs)[k] # NoJob
      PROVE  JobOK(Begun(jobs, programs)[k])
  <2>1. CASE k \in free /\ rank(k) <= Len(programs) BY <2>1, <1>3, <1>4, NewJobOK
  <2>2. CASE ~(k \in free /\ rank(k) <= Len(programs)) BY <2>2, <1>4, <1>5 DEF JobsOK
  <2> QED BY <2>1, <2>2
<1> QED BY <1>4, <1>5 DEF JobsOK

\* However many of the programs write, they can be counted.
LEMMA WritersCounted ==
    ASSUME NEW programs, ProgramsOK(programs)
    PROVE  Cardinality({n \in DOMAIN programs : Head(programs[n]).calls # {}}) \in Nat
<1> DEFINE A == {n \in DOMAIN programs : Head(programs[n]).calls # {}}
<1>1. PICK S : programs \in Seq(S) BY DEF ProgramsOK
<1>2. DOMAIN programs = 1..Len(programs) /\ Len(programs) \in Nat BY <1>1, LenProperties
<1>3. A \subseteq 1..Len(programs) BY <1>2
<1>4. IsFiniteSet(1..Len(programs)) BY <1>2, FS_Interval
<1>5. IsFiniteSet(A) BY <1>3, <1>4, FS_Subset
<1> QED BY <1>5, FS_CardinalityType

\* A click keeps the shape of the state, if it leaves a proper page and begins programs.
LEMMA ClickKeeps ==
    ASSUME PageInv, NEW page, UiOK(page), NEW programs, ProgramsOK(programs),
           Click(page, programs)
    PROVE  PageInv'
<1> DEFINE on == page.busy \/ \E n \in DOMAIN programs : Head(programs[n]).spin
<1>1. on \in BOOLEAN OBVIOUS
<1>2. ui' = [page EXCEPT !.busy = on] BY DEF Click
<1> HIDE DEF on
<1>3. UiOK(ui') BY <1>1, <1>2 DEF UiOK
<1>4. JobsOK(job')
  <2>1. JobsOK(job) BY DEF PageInv, JobsOK
  <2> QED BY <2>1, BegunOK DEF Click, Begin
<1>5. trouble' \in Nat BY BrowserAssumption DEF PageInv, Click
<1>6. saves' \in 0..MaxSaves
  <2> DEFINE n == Cardinality({m \in DOMAIN programs : Head(programs[m]).calls # {}})
  <2>1. n \in Nat BY WritersCounted
  <2>2. saves' = saves + n /\ saves' <= MaxSaves BY DEF Click
  <2> HIDE DEF n
  <2> QED BY <2>1, <2>2, BrowserAssumption DEF PageInv
<1>7. UNCHANGED db BY DEF Click
<1> QED BY <1>3, <1>4, <1>5, <1>6, <1>7 DEF PageInv, JobsOK

\* Two steps, and a first step before others.
LEMMA MoreSteps ==
    /\ \A a, b : StepOK(a) /\ StepOK(b) => ProgramOK(<<a, b>>)
    /\ \A a, t : StepOK(a) /\ (t = <<>> \/ ProgramOK(t)) => ProgramOK(<<a>> \o t)
<1>1. ASSUME NEW a, NEW t, StepOK(a), t = <<>> \/ ProgramOK(t) PROVE ProgramOK(<<a>> \o t)
  <2>1. ProgramOK(<<a>>) BY <1>1, OneStep
  <2>2. CASE t = <<>>
    <3>1. <<a>> \in Seq({a}) OBVIOUS
    <3>2. <<a>> \o <<>> = <<a>> BY <3>1, ConcatEmptySeq
    <3> QED BY <2>1, <2>2, <3>2
  <2>3. CASE ProgramOK(t) BY <2>1, <2>3, StepsInRow
  <2> QED BY <1>1, <2>2, <2>3
<1>2. ASSUME NEW a, NEW b, StepOK(a), StepOK(b) PROVE ProgramOK(<<a, b>>)
  <2> DEFINE q == <<a, b>>
             S == {a, b}
  <2>1. q \in Seq(S) /\ q # <<>> /\ \A s \in S : StepOK(s) BY <1>2
  <2> HIDE DEF q, S
  <2>2. ProgramOK(q) BY <2>1, IsProgram
  <2> QED BY <2>2 DEF q
<1> QED BY <1>1, <1>2

\* What the pages load, and how they begin to.
LEMMA Loads ==
    /\ \A sel : StepOK(LoadClients(sel))
    /\ \A c : StepOK(ReloadLocations(c)) /\ StepOK(Spinning(ReloadLocations(c)))
    /\ \A c : ProgramOK(LoadDetail(c))
    /\ StepOK(LoadSubscriptions) /\ StepOK(LoadPeriods) /\ StepOK(LoadUsers)
    /\ ProgramOK(LoadServices)
    /\ \A s : StepOK(LoadHistory(s)) /\ StepOK(RefreshTariffs(s))
    /\ \A sel : ReloadCalculations(sel) = <<>> \/ ProgramOK(ReloadCalculations(sel))
    /\ \A sel : ProgramOK(SpinCalculations(sel))
<1>1. \A sel : StepOK(LoadClients(sel)) BY StepKinds, QueryKinds DEF LoadClients
<1>2. \A c : StepOK(ReloadLocations(c)) BY StepKinds, QueryKinds DEF ReloadLocations
<1>3. \A c : ProgramOK(LoadDetail(c)) BY StepKinds, QueryKinds, MoreSteps DEF LoadDetail
<1>4. StepOK(LoadSubscriptions) /\ StepOK(LoadPeriods) /\ StepOK(LoadUsers)
  BY StepKinds, QueryKinds DEF LoadSubscriptions, LoadPeriods, LoadUsers
<1>5. ProgramOK(LoadServices)
  <2>1. StepOK(Load({All("services")})) BY StepKinds, QueryKinds
  <2>2. StepOK(IfFailed(Load({All("services")}))) /\ StepOK(Finally(Then("active")))
    BY <2>1, StepKinds
  <2> QED BY <2>2, MoreSteps DEF LoadServices
<1>6. \A s : StepOK(LoadHistory(s)) /\ StepOK(RefreshTariffs(s))
  BY StepKinds, QueryKinds DEF LoadHistory, RefreshTariffs
<1>7. \A sel : StepOK(Load(Bill(sel))) /\ StepOK(Then("options")) BY StepKinds, QueryKinds
<1>8. \A sel : ReloadCalculations(sel) = <<>> \/ ProgramOK(ReloadCalculations(sel))
  BY <1>7, MoreSteps DEF ReloadCalculations
<1>9. \A sel : ProgramOK(SpinCalculations(sel)) BY <1>7, StepKinds, MoreSteps DEF SpinCalculations
<1> QED BY <1>1, <1>2, <1>3, <1>4, <1>5, <1>6, <1>8, <1>9, StepKinds

\* The same as programs of one handler.
LEMMA LoadsAlone ==
    /\ \A s : StepOK(s) => ProgramsOK(<< <<s>> >>)
    /\ \A p : ProgramOK(p) => ProgramsOK(<<p>>)
    /\ ProgramsOK(<<>>)
BY OneStep, ProgramsFew

-----------------------------------------------------------------------------
(* Pages. *)

\* The rows shown are known by their ids.
LEMMA ShownOK ==
    ASSUME PageInv
    PROVE  /\ \A l \in {"users", "clients", "locations", "services", "subscriptions", "periods",
                        "options"} : Shown(l) \subseteq Ids
           /\ Shown("calculations") \subseteq Ids \X Ids
           /\ DOMAIN Unfolded \subseteq Ids
<1>1. /\ \A l \in {"users", "clients", "locations", "services", "subscriptions", "periods",
                   "options"} : Shown(l) \subseteq Ids
      /\ Shown("calculations") \subseteq Ids \X Ids
  BY DEF PageInv, UiOK, ListOK, Shown, Lists
<1>2. DOMAIN Unfolded \subseteq Ids
  <2>1. CASE ui.sel.service \in Shown("services") \cap Shown("tariffs")
    BY <2>1 DEF PageInv, UiOK, ListOK, Shown, Lists, Unfolded
  <2>2. CASE ui.sel.service \notin Shown("services") \cap Shown("tariffs")
    BY <2>2 DEF Unfolded, Nothing
  <2> QED BY <2>1, <2>2
<1> QED BY <1>1, <1>2

\* The filters that a click can set.
LEMMA SelSet ==
    ASSUME NEW sel, SelOK(sel), NEW c \in Opt(Ids)
    PROVE  /\ SelOK([sel EXCEPT !.client = c])
           /\ SelOK([sel EXCEPT !.location = c])
           /\ SelOK([sel EXCEPT !.client = c, !.location = None])
           /\ SelOK([sel EXCEPT !.period = c])
           /\ SelOK([sel EXCEPT !.service = c])
BY DEF SelOK, Opt

\* A page with other filters, an emptied list, or a dialog.
LEMMA UiSet ==
    ASSUME NEW page, UiOK(page)
    PROVE  /\ \A sel : SelOK(sel) => UiOK([page EXCEPT !.sel = sel])
           /\ \A l \in Lists : UiOK([page EXCEPT !.list = [@ EXCEPT ![l] = Nothing]])
           /\ UiOK([page EXCEPT !.dlg = None])
           /\ \A name, row : UiOK([page EXCEPT !.dlg = Dialog(name, None, row)])
           /\ page.page # "calculations" =>
                \A name, row : \A id \in Ids : UiOK([page EXCEPT !.dlg = Dialog(name, id, row)])
           /\ page.page = "calculations" =>
                \A name, row : \A id \in Ids \X Ids :
                    UiOK([page EXCEPT !.dlg = Dialog(name, id, row)])
<1>1. ASSUME NEW sel, SelOK(sel) PROVE UiOK([page EXCEPT !.sel = sel])
  BY <1>1 DEF UiOK
<1>2. ASSUME NEW l \in Lists PROVE UiOK([page EXCEPT !.list = [@ EXCEPT ![l] = Nothing]])
  <2>1. \A m \in Lists : ListOK(m, [page.list EXCEPT ![l] = Nothing][m])
    BY <1>2, NothingFits DEF UiOK
  <2> QED BY <1>2, <2>1 DEF UiOK
<1>3. UiOK([page EXCEPT !.dlg = None]) BY DEF UiOK
<1>4. ASSUME NEW name, NEW id, NEW row,
             id \in Opt(IdsOf(IF page.page = "calculations" THEN "calculations" ELSE "any"))
      PROVE  UiOK([page EXCEPT !.dlg = Dialog(name, id, row)])
  BY <1>4 DEF UiOK, Dialog
<1> QED BY <1>1, <1>2, <1>3, <1>4 DEF Opt, IdsOf

\* A form that is submitted keeps the shape of the state.
LEMMA SubmitKeeps == ASSUME PageInv, NEW steps, ProgramOK(steps), Submit(steps) PROVE PageInv'
BY ClickKeeps, LoadsAlone DEF Submit, PageInv

\* So does a form that sends and then runs more.
LEMMA SendKeeps ==
    ASSUME PageInv, NEW a, StepOK(a), NEW t, t = <<>> \/ ProgramOK(t), Submit(<<a>> \o t)
    PROVE  PageInv'
BY SubmitKeeps, MoreSteps

\* Sending and one load.
LEMMA SaveKeeps ==
    ASSUME PageInv, NEW a, StepOK(a), NEW b, StepOK(b), Submit(<<a, b>>)
    PROVE  PageInv'
BY SubmitKeeps, MoreSteps

\* So does a dialog that is opened for a row, or for a new one.
LEMMA ShowKeeps ==
    ASSUME PageInv, NEW name, NEW id, NEW row, Show(Dialog(name, id, row)),
           \/ id = None
           \/ ~On("calculations") /\ id \in Ids
           \/ On("calculations") /\ id \in Ids \X Ids
    PROVE  PageInv'
<1>1. UiOK([ui EXCEPT !.dlg = Dialog(name, id, row)]) BY UiSet DEF PageInv, On
<1> QED BY <1>1, ClickKeeps, LoadsAlone DEF Show

-----------------------------------------------------------------------------
\* The pages of the clients.
LEMMA RefilterKeeps == ASSUME PageInv, NEW sel, SelOK(sel), Refilter(sel) PROVE PageInv'
<1>1. UiOK([ui EXCEPT !.sel = sel]) BY UiSet DEF PageInv
<1> QED BY <1>1, Loads, LoadsAlone, ClickKeeps DEF Refilter

\* The handlers of the clients page.
LEMMA ClientsPageKeeps == ASSUME PageInv, ClientsPage PROVE PageInv'
<1> USE DEF Reachable, InTable, InDialog, On
<1>1. SelOK(ui.sel) BY DEF PageInv, UiOK
<1>2. PICK n \in 0..ui.sel.offset : ui.sel.offset = n * PageSize BY <1>1 DEF SelOK
<1>3. PageSize \in Nat /\ PageSize > 0 /\ ui.sel.offset \in Nat /\ n \in Nat
  BY <1>1, <1>2, BrowserAssumption DEF SelOK
<1>4. CASE ApplySearch
  <2>1. PICK text \in Opt(Texts) : Refilter([ui.sel EXCEPT !.search = text, !.offset = 0])
    BY <1>4 DEF ApplySearch
  <2>2. 0 \in 0..0 /\ 0 = 0 * PageSize BY <1>3
  <2>3. SelOK([ui.sel EXCEPT !.search = text, !.offset = 0]) BY <1>1, <2>2 DEF SelOK
  <2> QED BY <2>1, <2>3, RefilterKeeps
<1>5. CASE PreviousPage
  <2> DEFINE m == ui.sel.offset - PageSize
  <2>1. ui.sel.offset > 0 BY <1>5 DEF PreviousPage
  <2>2. n > 0 BY <1>2, <1>3, <2>1
  <2>3. (n - 1) * PageSize = n * PageSize - PageSize BY <1>3
  <2>4. n - 1 \in Nat /\ (n - 1) * PageSize \in Nat BY <1>3, <2>2
  <2>5. m = (n - 1) * PageSize /\ m \in Nat BY <1>2, <2>3, <2>4
  <2>6. n - 1 \in 0..m BY <1>3, <2>4, <2>5
  <2> HIDE DEF m
  <2>7. SelOK([ui.sel EXCEPT !.offset = m]) BY <1>1, <2>5, <2>6 DEF SelOK
  <2>8. Refilter([ui.sel EXCEPT !.offset = m]) BY <1>5 DEF PreviousPage, m
  <2> QED BY <2>7, <2>8, RefilterKeeps
<1>6. CASE NextPage
  <2> DEFINE m == ui.sel.offset + PageSize
  <2>1. (n + 1) * PageSize = n * PageSize + PageSize BY <1>3
  <2>2. m = (n + 1) * PageSize /\ m \in Nat BY <1>2, <1>3, <2>1
  <2>3. n + 1 \in 0..m BY <1>2, <1>3
  <2> HIDE DEF m
  <2>4. SelOK([ui.sel EXCEPT !.offset = m]) BY <1>1, <2>2, <2>3 DEF SelOK
  <2>5. Refilter([ui.sel EXCEPT !.offset = m]) BY <1>6 DEF NextPage, m
  <2> QED BY <2>4, <2>5, RefilterKeeps
<1>7. CASE OpenCreateClient BY <1>7, ShowKeeps DEF OpenCreateClient
<1>8. CASE OpenEditClient BY <1>8, ShownOK, ShowKeeps DEF OpenEditClient
<1>9. CASE OpenDeleteClient BY <1>9, ShownOK, ShowKeeps DEF OpenDeleteClient
<1>10. CASE CreateClient BY <1>10, StepKinds, Loads, SaveKeeps DEF CreateClient
<1>11. CASE SaveClient BY <1>11, StepKinds, Loads, SaveKeeps DEF SaveClient
<1>12. CASE DeleteClient BY <1>12, StepKinds, Loads, SaveKeeps DEF DeleteClient
<1> QED BY <1>4, <1>5, <1>6, <1>7, <1>8, <1>9, <1>10, <1>11, <1>12 DEF ClientsPage

\* The handlers of the locations page.
LEMMA LocationsPageKeeps == ASSUME PageInv, LocationsPage PROVE PageInv'
<1> USE DEF Reachable, InTable, InDialog, On
<1>1. UiOK(ui) /\ SelOK(ui.sel) BY DEF PageInv, UiOK
<1>2. CASE ChooseClient
  <2> DEFINE page(c) == [ui EXCEPT !.sel = [@ EXCEPT !.client = c]]
             none(c) == [page(c) EXCEPT !.list = [@ EXCEPT !["locations"] = Nothing]]
  <2>1. PICK c \in Shown("clients") \cup {None} :
            IF c = None THEN Click(none(c), <<>>)
            ELSE Click(page(c), << <<Spinning(ReloadLocations(c))>> >>)
    BY <1>2 DEF ChooseClient
  <2>2. c \in Opt(Ids) BY <2>1, ShownOK DEF Opt
  <2>3. UiOK(page(c)) BY <1>1, <2>2, SelSet, UiSet
  <2> HIDE DEF page
  <2>4. UiOK(none(c)) BY <2>3, UiSet DEF Lists
  <2> HIDE DEF none
  <2> QED BY <2>1, <2>3, <2>4, Loads, LoadsAlone, ClickKeeps
<1>3. CASE OpenCreateLocation BY <1>3, ShowKeeps DEF OpenCreateLocation
<1>4. CASE OpenEditLocation BY <1>4, ShownOK, ShowKeeps DEF OpenEditLocation
<1>5. CASE OpenDeleteLocation BY <1>5, ShownOK, ShowKeeps DEF OpenDeleteLocation
<1>6. CASE CreateLocation BY <1>6, StepKinds, Loads, SaveKeeps DEF CreateLocation
<1>7. CASE SaveLocation BY <1>7, StepKinds, Loads, SaveKeeps DEF SaveLocation
<1>8. CASE DeleteLocation BY <1>8, StepKinds, Loads, SaveKeeps DEF DeleteLocation
<1> QED BY <1>2, <1>3, <1>4, <1>5, <1>6, <1>7, <1>8 DEF LocationsPage

\* The handlers of a client's details.
LEMMA DetailPageKeeps == ASSUME PageInv, DetailPage PROVE PageInv'
<1> USE DEF Detailed, Reachable, InDialog, On
<1>1. CASE OpenAddLocation BY <1>1, ShowKeeps DEF OpenAddLocation
<1>2. CASE OpenChangeLocation BY <1>2, ShownOK, ShowKeeps DEF OpenChangeLocation
<1>3. CASE OpenSubscribe BY <1>3, ShownOK, ShowKeeps DEF OpenSubscribe
<1>4. CASE OpenDisconnectHere BY <1>4, ShownOK, ShowKeeps DEF OpenDisconnectHere
<1>5. CASE OpenUnsubscribe BY <1>5, ShownOK, ShowKeeps DEF OpenUnsubscribe
<1>6. CASE SaveDetailLocation BY <1>6, StepKinds, Loads, SendKeeps DEF SaveDetailLocation
<1>7. CASE Subscribe BY <1>7, StepKinds, Loads, SendKeeps DEF Subscribe
<1>8. CASE DisconnectHere BY <1>8, StepKinds, Loads, SendKeeps DEF DisconnectHere
<1>9. CASE Unsubscribe BY <1>9, StepKinds, Loads, SendKeeps DEF Unsubscribe
<1> QED BY <1>1, <1>2, <1>3, <1>4, <1>5, <1>6, <1>7, <1>8, <1>9 DEF DetailPage

\* The filter of the subscriptions, in the page and in the dialog.
LEMMA FilterKeeps == ASSUME PageInv, NEW c \in Opt(Ids), FilterBy(c, ui) PROVE PageInv'
<1> DEFINE page == [ui EXCEPT !.sel = [@ EXCEPT !.client = c, !.location = None]]
           none == [page EXCEPT !.list = [@ EXCEPT !["locations"] = Nothing]]
<1>1. IF c = None THEN Click(none, <<>>) ELSE Click(page, << <<ReloadLocations(c)>> >>)
  BY DEF FilterBy
<1>2. UiOK(ui) /\ SelOK(ui.sel) BY DEF PageInv, UiOK
<1>3. UiOK(page) BY <1>2, SelSet, UiSet
<1> HIDE DEF page
<1>4. UiOK(none) BY <1>3, UiSet DEF Lists
<1> HIDE DEF none
<1> QED BY <1>1, <1>3, <1>4, Loads, LoadsAlone, ClickKeeps

\* The handlers of the subscriptions page.
LEMMA SubscriptionsPageKeeps == ASSUME PageInv, SubscriptionsPage PROVE PageInv'
<1> USE DEF Reachable, InTable, InDialog, On
<1>1. UiOK(ui) /\ SelOK(ui.sel) BY DEF PageInv, UiOK
<1>2. Filtered \subseteq Ids BY ShownOK DEF Filtered
<1>3. CASE FilterClient BY <1>3, ShownOK, FilterKeeps DEF FilterClient, Opt
<1>4. CASE FilterLocation
  <2>1. PICK l \in Shown("locations") \cup {None} :
            Click([ui EXCEPT !.sel = [@ EXCEPT !.location = l]], <<>>)
    BY <1>4 DEF FilterLocation
  <2>2. UiOK([ui EXCEPT !.sel = [@ EXCEPT !.location = l]])
    BY <1>1, <2>1, ShownOK, SelSet, UiSet DEF Opt
  <2> QED BY <2>1, <2>2, LoadsAlone, ClickKeeps
<1>5. CASE ChooseClientInForm BY <1>5, ShownOK, FilterKeeps DEF ChooseClientInForm, Opt
<1>6. CASE OpenCreateSubscription BY <1>6, ShowKeeps DEF OpenCreateSubscription
<1>7. CASE OpenEditSubscription BY <1>7, <1>2, ShowKeeps DEF OpenEditSubscription
<1>8. CASE OpenDisconnect BY <1>8, <1>2, ShowKeeps DEF OpenDisconnect
<1>9. CASE OpenDeleteSubscription BY <1>9, <1>2, ShowKeeps DEF OpenDeleteSubscription
<1>10. CASE CreateSubscription BY <1>10, StepKinds, Loads, SaveKeeps DEF CreateSubscription
<1>11. CASE SaveSubscription BY <1>11, StepKinds, Loads, SaveKeeps DEF SaveSubscription
<1>12. CASE Disconnect BY <1>12, StepKinds, Loads, SaveKeeps DEF Disconnect
<1>13. CASE DeleteSubscription BY <1>13, StepKinds, Loads, SaveKeeps DEF DeleteSubscription
<1> QED BY <1>3, <1>4, <1>5, <1>6, <1>7, <1>8, <1>9, <1>10, <1>11, <1>12, <1>13
        DEF SubscriptionsPage

\* The handlers of the services page.
LEMMA ServicesPageKeeps == ASSUME PageInv, ServicesPage PROVE PageInv'
<1> USE DEF Reachable, InTable, InDialog, On
<1>1. UiOK(ui) /\ SelOK(ui.sel) BY DEF PageInv, UiOK
<1>2. CASE ToggleExpand
  <2> DEFINE t(s) == IF ui.sel.service = s THEN None ELSE s
             page(s) == [ui EXCEPT !.sel = [@ EXCEPT !.service = t(s)]]
  <2>1. PICK s \in Shown("services") :
            Click(page(s), IF page(s).sel.service = None \/ s \in Shown("tariffs") THEN <<>>
                           ELSE << <<LoadHistory(s)>> >>)
    BY <1>2 DEF ToggleExpand
  <2>2. t(s) \in Opt(Ids) BY ShownOK DEF Opt
  <2> HIDE DEF t
  <2>3. UiOK(page(s)) BY <1>1, <2>2, SelSet, UiSet
  <2> HIDE DEF page
  <2> QED BY <2>1, <2>3, Loads, LoadsAlone, ClickKeeps
<1>3. CASE OpenCreateService BY <1>3, ShowKeeps DEF OpenCreateService
<1>4. CASE OpenEditService BY <1>4, ShownOK, ShowKeeps DEF OpenEditService
<1>5. CASE OpenDeleteService BY <1>5, ShownOK, ShowKeeps DEF OpenDeleteService
<1>6. CASE SaveService BY <1>6, StepKinds, Loads, SendKeeps DEF SaveService
<1>7. CASE CreateService
  <2>1. PICK form, tariff :
            Submit((IF tariff = None THEN <<Send({Insert("services", form)}, "service")>>
                    ELSE <<Send({Insert("services", form)}, None),
                           Send({Insert("tariffs", tariff)}, "service")>>) \o LoadServices)
    BY <1>7 DEF CreateService
  <2> DEFINE sends == IF tariff = None THEN <<Send({Insert("services", form)}, "service")>>
                      ELSE <<Send({Insert("services", form)}, None),
                             Send({Insert("tariffs", tariff)}, "service")>>
  <2>2. ProgramOK(sends) BY StepKinds, OneStep, MoreSteps
  <2> HIDE DEF sends
  <2>3. ProgramOK(sends \o LoadServices) BY <2>2, Loads, StepsInRow
  <2>4. Submit(sends \o LoadServices) BY <2>1 DEF sends
  <2> QED BY <2>3, <2>4, SubmitKeeps
<1>8. CASE DeleteService BY <1>8, StepKinds, Loads, SendKeeps DEF DeleteService
<1>9. CASE OpenCreateTariff BY <1>9, ShowKeeps DEF OpenCreateTariff
<1>10. CASE OpenEditTariff BY <1>10, ShownOK, ShowKeeps DEF OpenEditTariff
<1>11. CASE OpenDeleteTariff BY <1>11, ShownOK, ShowKeeps DEF OpenDeleteTariff
<1>12. CASE SaveTariff
  <2>1. PICK call : Submit(<<Send({call}, None),
                             [RefreshTariffs(ui.dlg.row) EXCEPT !.close = "tariff"]>>)
    BY <1>12 DEF SaveTariff
  <2>2. \A s : StepOK(s) => StepOK([s EXCEPT !.close = "tariff"]) BY DEF StepOK
  <2> QED BY <2>1, <2>2, StepKinds, Loads, SaveKeeps
<1>13. CASE DeleteTariff
  <2> DEFINE delete == Send({Delete("tariffs", ui.dlg.id)}, "deleteTariff")
  <2>1. Submit(<<delete>>) \/ \E s : Submit(<<delete, RefreshTariffs(s)>>) BY <1>13 DEF DeleteTariff
  <2>2. StepOK(delete) BY StepKinds
  <2> HIDE DEF delete
  <2> QED BY <2>1, <2>2, OneStep, Loads, SubmitKeeps, SaveKeeps
<1> QED BY <1>2, <1>3, <1>4, <1>5, <1>6, <1>7, <1>8, <1>9, <1>10, <1>11, <1>12, <1>13
        DEF ServicesPage

\* The handlers of the periods page.
LEMMA PeriodsPageKeeps == ASSUME PageInv, PeriodsPage PROVE PageInv'
<1> USE DEF Reachable, InTable, InDialog, On
<1>1. CASE OpenOpenPeriod BY <1>1, ShowKeeps DEF OpenOpenPeriod
<1>2. CASE OpenClosePeriod BY <1>2, ShownOK, ShowKeeps DEF OpenClosePeriod
<1>3. CASE OpenDeletePeriod BY <1>3, ShownOK, ShowKeeps DEF OpenDeletePeriod
<1>4. CASE OpenPeriod BY <1>4, StepKinds, Loads, SaveKeeps DEF OpenPeriod
<1>5. CASE ClosePeriod BY <1>5, StepKinds, Loads, SaveKeeps DEF ClosePeriod
<1>6. CASE ReopenPeriod BY <1>6, StepKinds, Loads, SaveKeeps DEF ReopenPeriod
<1>7. CASE DeletePeriod BY <1>7, StepKinds, Loads, SaveKeeps DEF DeletePeriod
<1> QED BY <1>1, <1>2, <1>3, <1>4, <1>5, <1>6, <1>7 DEF PeriodsPage

\* The handlers of the users page.
LEMMA UsersPageKeeps == ASSUME PageInv, UsersPage PROVE PageInv'
<1> USE DEF Reachable, InTable, InDialog, On
<1>1. CASE OpenCreateUser BY <1>1, ShowKeeps DEF OpenCreateUser
<1>2. CASE OpenEditUser BY <1>2, ShownOK, ShowKeeps DEF OpenEditUser
<1>3. CASE OpenPassword BY <1>3, ShownOK, ShowKeeps DEF OpenPassword
<1>4. CASE OpenDeleteUser BY <1>4, ShownOK, ShowKeeps DEF OpenDeleteUser, OthersShown
<1>5. CASE CreateUser BY <1>5, StepKinds, Loads, SaveKeeps DEF CreateUser
<1>6. CASE SaveUser BY <1>6, StepKinds, Loads, SaveKeeps DEF SaveUser
<1>7. CASE ChangePassword BY <1>7, StepKinds, OneStep, SubmitKeeps DEF ChangePassword
<1>8. CASE ToggleBlock BY <1>8, StepKinds, Loads, SaveKeeps DEF ToggleBlock
<1>9. CASE DeleteUser BY <1>9, StepKinds, Loads, SaveKeeps DEF DeleteUser
<1> QED BY <1>1, <1>2, <1>3, <1>4, <1>5, <1>6, <1>7, <1>8, <1>9 DEF UsersPage

\* The handlers of the calculations page.
LEMMA BillPageKeeps == ASSUME PageInv, BillPage PROVE PageInv'
<1> USE DEF Reachable, InTable, InDialog, On
<1>1. UiOK(ui) /\ SelOK(ui.sel) BY DEF PageInv, UiOK
<1>2. CASE ChoosePeriod
  <2> DEFINE page(p) == [ui EXCEPT !.sel = [@ EXCEPT !.period = p]]
             none(p) == [page(p) EXCEPT !.list = [@ EXCEPT !["calculations"] = Nothing]]
  <2>1. PICK p \in Shown("periods") \cup {None} :
            IF p # None THEN Click(page(p), <<SpinCalculations(page(p).sel)>>)
            ELSE Click(none(p), OptionsEffect(page(p).sel, Unbilled(page(p).sel, Nothing)))
    BY <1>2 DEF ChoosePeriod
  <2>2. p \in Opt(Ids) BY <2>1, ShownOK DEF Opt
  <2>3. UiOK(page(p)) BY <1>1, <2>2, SelSet, UiSet
  <2> HIDE DEF page
  <2>4. UiOK(none(p)) BY <2>3, UiSet DEF Lists
  <2> HIDE DEF none
  <2>5. ProgramsOK(OptionsEffect(page(p).sel, Unbilled(page(p).sel, Nothing)))
    BY StepKinds, QueryKinds, LoadsAlone DEF OptionsEffect
  <2> QED BY <2>1, <2>3, <2>4, <2>5, Loads, LoadsAlone, ClickKeeps
<1>3. CASE ChooseBilled
  <2> DEFINE page(c) == [ui EXCEPT !.sel.client = c, !.sel.location = None,
                                   !.list["locations"] = IF c = None THEN Nothing ELSE @,
                                   !.list["options"] = IF c = None THEN Nothing ELSE @]
             filtered(c) == [ui EXCEPT !.sel = [@ EXCEPT !.client = c, !.location = None]]
             lists(c) == [ui.list EXCEPT !["locations"] = IF c = None THEN Nothing ELSE @,
                                         !["options"] = IF c = None THEN Nothing ELSE @]
             first(c) == IF c = None THEN <<>>
                         ELSE << <<Load({LocationsOfClient(c)} \cup OptionsNow(page(c).sel))>> >>
             second(c) == IF ui.sel.period = None THEN <<>> ELSE <<SpinCalculations(page(c).sel)>>
  <2>1. PICK c \in Shown("clients") \cup {None} : Click(page(c), first(c) \o second(c))
    BY <1>3 DEF ChooseBilled
  <2>2. c \in Opt(Ids) BY ShownOK DEF Opt
  <2>3. UiOK(filtered(c)) BY <1>1, <2>2, SelSet, UiSet
  <2>4. UiOK(page(c))
    <3>1. page(c) = [filtered(c) EXCEPT !.list = lists(c)] BY <1>1 DEF UiOK
    <3>2. DOMAIN lists(c) = Lists BY <1>1 DEF UiOK
    <3>3. \A l \in Lists : ListOK(l, lists(c)[l]) BY <1>1, NothingFits DEF UiOK
    <3> HIDE DEF lists, filtered
    <3>4. UiOK([filtered(c) EXCEPT !.list = lists(c)]) BY <2>3, <3>2, <3>3 DEF UiOK
    <3> QED BY <3>1, <3>4
  <2> HIDE DEF page
  <2>5. ProgramsOK(first(c))
    <3>1. \A q \in {LocationsOfClient(c)} \cup OptionsNow(page(c).sel) : QueryOK(q)
      BY QueryKinds DEF OptionsNow
    <3> QED BY <3>1, StepKinds, LoadsAlone
  <2>6. ProgramsOK(second(c)) BY Loads, LoadsAlone
  <2> HIDE DEF first, second
  <2>7. ProgramsOK(first(c) \o second(c)) BY <2>5, <2>6, ProgramsFew
  <2> QED BY <2>1, <2>4, <2>7, ClickKeeps
<1>4. CASE ChooseLocation
  <2> DEFINE page(l) == [ui EXCEPT !.sel = [@ EXCEPT !.location = l]]
  <2>1. PICK l \in Shown("locations") \cup {None} :
            Click(page(l), IF ui.sel.period = None THEN <<>> ELSE <<SpinCalculations(page(l).sel)>>)
    BY <1>4 DEF ChooseLocation
  <2>2. l \in Opt(Ids) BY ShownOK DEF Opt
  <2>3. UiOK(page(l)) BY <1>1, <2>2, SelSet, UiSet
  <2> HIDE DEF page
  <2> QED BY <2>1, <2>3, Loads, LoadsAlone, ClickKeeps
<1>5. CASE OpenCreateCalculation BY <1>5, ShowKeeps DEF OpenCreateCalculation
<1>6. CASE OpenEditCalculation BY <1>6, ShownOK, ShowKeeps DEF OpenEditCalculation
<1>7. CASE OpenDeleteCalculation BY <1>7, ShownOK, ShowKeeps DEF OpenDeleteCalculation
<1>8. CASE OpenStatus BY <1>8, ShownOK, ShowKeeps DEF OpenStatus
<1>9. CASE CreateCalculation BY <1>9, StepKinds, Loads, SendKeeps DEF CreateCalculation
<1>10. CASE DeleteCalculation BY <1>10, StepKinds, Loads, SendKeeps DEF DeleteCalculation
<1>11. CASE SaveEdit BY <1>11, StepKinds, Loads, SendKeeps DEF SaveEdit
<1>12. CASE SaveStatus BY <1>12, StepKinds, Loads, SendKeeps DEF SaveStatus
<1> QED BY <1>2, <1>3, <1>4, <1>5, <1>6, <1>7, <1>8, <1>9, <1>10, <1>11, <1>12 DEF BillPage

-----------------------------------------------------------------------------
(* Going to another page. *)

\* The effects of a first render are programs.
LEMMA MountedOK == \A page \in Pages : \A sel : ProgramsOK(Mounted(page, sel))
<1> SUFFICES ASSUME NEW page \in Pages, NEW sel PROVE ProgramsOK(Mounted(page, sel))
  OBVIOUS
<1> DEFINE locations == IF sel.client = None THEN <<>> ELSE << <<ReloadLocations(sel.client)>> >>
           spinning == IF sel.client = None THEN <<>>
                       ELSE << <<Spinning(ReloadLocations(sel.client))>> >>
           unbilled == IF sel.client = None THEN <<>>
                       ELSE << <<Load({LocationsOfClient(sel.client)} \cup Unbilled(sel, Nothing))>> >>
           bill == IF sel.period = None THEN <<>> ELSE <<SpinCalculations(sel)>>
           first == <<Load({All("periods"), All("clients")}), Spinning(Then("calculations")),
                      Then("options")>>
<1>1. ProgramsOK(locations) /\ ProgramsOK(spinning) /\ ProgramsOK(bill) BY Loads, LoadsAlone
<1>2. ProgramsOK(unbilled)
  <2>1. \A q \in {LocationsOfClient(sel.client)} \cup Unbilled(sel, Nothing) : QueryOK(q)
    BY QueryKinds
  <2> QED BY <2>1, StepKinds, LoadsAlone
<1>3. ProgramsOK(<<first>>)
  <2> DEFINE a == Load({All("periods"), All("clients")})
             b == Spinning(Then("calculations"))
             c == Then("options")
  <2>1. StepOK(a) /\ StepOK(b) /\ StepOK(c) BY StepKinds, QueryKinds
  <2> HIDE DEF a, b, c
  <2> DEFINE q == <<a, b, c>>
             S == {a, b, c}
  <2>2. q \in Seq(S) /\ q # <<>> /\ \A s \in S : StepOK(s) BY <2>1
  <2> HIDE DEF q, S
  <2>3. ProgramOK(q) BY <2>2, IsProgram
  <2>4. ProgramsOK(<<q>>) BY <2>3, LoadsAlone
  <2> QED BY <2>4 DEF q, a, b, c
<1>4. ProgramsOK(<< <<Load({All("clients")})>> >>) BY StepKinds, QueryKinds, LoadsAlone
<1> HIDE DEF locations, spinning, unbilled, bill, first
<1>5. CASE page = "clients" BY <1>5, Loads, LoadsAlone DEF Mounted
<1>6. CASE page = "locations"
  <2>1. Mounted(page, sel) = << <<Load({All("clients")})>> >> \o spinning BY <1>6 DEF Mounted, spinning
  <2> QED BY <1>1, <1>4, <2>1, ProgramsFew
<1>7. CASE page = "detail" BY <1>7, Loads, LoadsAlone DEF Mounted
<1>8. CASE page = "subscriptions"
  <2>1. Mounted(page, sel) = locations \o << <<LoadSubscriptions>> >> BY <1>8 DEF Mounted, locations
  <2>2. ProgramsOK(<< <<LoadSubscriptions>> >>) BY Loads, LoadsAlone
  <2> QED BY <1>1, <2>1, <2>2, ProgramsFew
<1>9. CASE page = "services" BY <1>9, Loads, LoadsAlone DEF Mounted
<1>10. CASE page = "periods" BY <1>10, Loads, LoadsAlone DEF Mounted
<1>11. CASE page = "users" BY <1>11, Loads, LoadsAlone DEF Mounted
<1>12. CASE page = "calculations"
  <2>1. Mounted(page, sel) = (<<first>> \o unbilled) \o bill
    BY <1>12 DEF Mounted, first, unbilled, bill
  <2>2. ProgramsOK(<<first>> \o unbilled) BY <1>2, <1>3, ProgramsFew
  <2> QED BY <1>1, <2>1, <2>2, ProgramsFew
<1> QED BY <1>5, <1>6, <1>7, <1>8, <1>9, <1>10, <1>11, <1>12 DEF Pages

\* A page begins with empty lists and without a dialog.
LEMMA OpenedOK == \A page \in Pages : \A sel : SelOK(sel) => UiOK(Opened(page, sel))
BY NothingFits DEF Opened, UiOK, Blank

\* The filters a page may be opened with.
LEMMA FiltersOK ==
    /\ SelOK(NoFilter)
    /\ \A c \in Opt(Ids) : SelOK([NoFilter EXCEPT !.client = c]) /\ SelOK([NoFilter EXCEPT !.period = c])
<1>1. 0 \in 0..0 /\ 0 = 0 * PageSize BY BrowserAssumption
<1>2. SelOK(NoFilter) BY <1>1 DEF SelOK, NoFilter, Opt
<1> QED BY <1>2, SelSet

\* A link keeps the shape of the state.
LEMMA VisitKeeps == ASSUME PageInv, Visit PROVE PageInv'
<1>1. PICK link \in Links : (link.by # "none" => ~ui.busy) /\ \E sel \in Handed(link) : Open(link.to, sel)
  BY DEF Visit
<1>2. PICK sel \in Handed(link) : Open(link.to, sel) BY <1>1
<1>3. link.to \in Pages /\ link.by \in {"none", "client", "period"} BY WebPagesAssumption
<1>4. SelOK(sel)
  <2>1. CASE link.by = "none" BY <2>1, <1>2, FiltersOK DEF Handed
  <2>2. CASE link.by = "client"
    <3>1. PICK c \in IF link.from = "clients" THEN Shown("clients") ELSE {ui.sel.client} \ {None} :
            sel = [NoFilter EXCEPT !.client = c]
      BY <2>2, <1>2 DEF Handed
    <3>2. ui.sel.client \in Opt(Ids) BY DEF PageInv, UiOK, SelOK
    <3>3. c \in Opt(Ids) BY <3>1, <3>2, ShownOK DEF Opt
    <3> QED BY <3>1, <3>3, FiltersOK
  <2>3. CASE link.by = "period"
    <3>1. PICK c \in Shown("periods") : sel = [NoFilter EXCEPT !.period = c]
      BY <2>3, <1>2 DEF Handed
    <3>2. c \in Opt(Ids) BY <3>1, ShownOK DEF Opt
    <3> QED BY <3>1, <3>2, FiltersOK
  <2> QED BY <1>3, <2>1, <2>2, <2>3
<1>5. UiOK(ui') BY <1>2, <1>3, <1>4, OpenedOK DEF Open
<1>6. JobsOK(Abandoned)
  <2>1. \A k \in Slots : job[k] # NoJob => JobOK([job[k] EXCEPT !.here = FALSE])
    BY DEF PageInv, JobOK
  <2> QED BY <2>1 DEF JobsOK, Abandoned
<1>7. JobsOK(job')
  <2>1. ProgramsOK(Mounted(link.to, sel)) BY <1>3, MountedOK
  <2> QED BY <1>2, <1>6, <2>1, BegunOK DEF Open
<1>8. trouble' \in Nat /\ UNCHANGED <<db, saves>>
  BY <1>2, BrowserAssumption DEF Open, PageInv
<1> QED BY <1>5, <1>7, <1>8 DEF PageInv, JobsOK

\* So does everything else a user can click.
LEMMA UserKeeps == ASSUME PageInv, User PROVE PageInv'
<1>1. CASE Cancel
  <2>1. UiOK([ui EXCEPT !.dlg = None]) BY UiSet DEF PageInv
  <2> QED BY <1>1, <2>1, LoadsAlone, ClickKeeps DEF Cancel
<1> QED BY <1>1, VisitKeeps, ClientsPageKeeps, LocationsPageKeeps, DetailPageKeeps,
           SubscriptionsPageKeeps, ServicesPageKeeps, PeriodsPageKeeps, UsersPageKeeps,
           BillPageKeeps DEF User

-----------------------------------------------------------------------------
(* The network. *)

\* The step under way.
LEMMA CurrentOK ==
    ASSUME PageInv, NEW k \in Slots, Waiting(k)
    PROVE  /\ JobOK(job[k]) /\ ProgramOK(job[k].steps) /\ StepOK(Current(k))
           /\ job[k].steps # <<>>
           /\ Head(job[k].steps) = Current(k)
<1> DEFINE steps == job[k].steps
           S == {steps[n] : n \in DOMAIN steps}
<1>1. JobOK(job[k]) /\ ProgramOK(steps) BY DEF PageInv, Waiting, JobOK
<1>2. steps \in Seq(S) /\ steps # <<>> /\ \A s \in S : StepOK(s) BY <1>1 DEF ProgramOK
<1>3. 1 \in 1..Len(steps) BY <1>2, EmptySeq
<1> HIDE DEF steps
<1>4. steps[1] \in S BY <1>2, <1>3, ElementOfSeq
<1>5. StepOK(steps[1]) /\ Head(steps) = steps[1] BY <1>2, <1>4
<1> QED BY <1>1, <1>2, <1>5 DEF Current, steps

\* A request that has been executed is taken off its step.
LEMMA ExecuteKeeps == ASSUME PageInv, NEW k \in Slots, Execute(k) PROVE PageInv'
<1> DEFINE steps == job[k].steps
<1>1. PICK call : LET c == Filled(call, job[k].made) IN
        /\ Accepted(db, c) /\ db' = Apply(db, c)
        /\ job' = [job EXCEPT ![k].steps[1].calls = @ \ {call},
                              ![k].made = IF c.op = "insert" THEN NextId(db, c.table, c.row) ELSE @]
  BY DEF Execute
<1> DEFINE c == Filled(call, job[k].made)
           made == IF c.op = "insert" THEN NextId(db, c.table, c.row) ELSE job[k].made
           first == [steps[1] EXCEPT !.calls = @ \ {call}]
           left == [steps EXCEPT ![1] = first]
           j == [job[k] EXCEPT !.steps = left, !.made = made]
<1>2. RegistryOK(db') /\ Resolves(db') BY <1>1, ApplyKeeps DEF PageInv
<1>3. Waiting(k) BY DEF Execute
<1>4. JobOK(job[k]) /\ ProgramOK(steps) /\ StepOK(steps[1]) /\ steps # <<>>
  BY <1>3, CurrentOK DEF Current
<1>5. StepOK(first) BY <1>4 DEF StepOK
<1> HIDE DEF first
<1>6. ProgramOK(left)
  <2> DEFINE S == {steps[n] : n \in DOMAIN steps}
             T == S \cup {first}
  <2>1. steps \in Seq(S) /\ steps # <<>> /\ \A s \in S : StepOK(s) BY <1>4 DEF ProgramOK
  <2> HIDE DEF S, steps
  <2>2. steps \in Seq(T) /\ first \in T BY <2>1, SeqMonotonic
  <2>3. 1 \in 1..Len(steps) BY <2>1, EmptySeq
  <2>4. left \in Seq(T) /\ Len(left) = Len(steps) BY <2>2, <2>3, ExceptSeq
  <2>5. left # <<>> BY <2>3, <2>4, EmptySeq
  <2>6. \A s \in T : StepOK(s) BY <2>1, <1>5
  <2> HIDE DEF T, left
  <2> QED BY <2>4, <2>5, <2>6, IsProgram
<1> HIDE DEF left, made
<1>7. JobOK(j) BY <1>4, <1>6 DEF JobOK
<1>8. job' = [job EXCEPT ![k] = j] BY <1>1, <1>4 DEF PageInv, JobOK, j, left, first, made
<1> HIDE DEF j
<1>9. JobsOK(job') BY <1>7, <1>8 DEF PageInv, JobsOK
<1> QED BY <1>2, <1>9 DEF Execute, PageInv, JobsOK

\* What the server answers fits the lists.
LEMMA ReplyKeeps == ASSUME PageInv, NEW k \in Slots, Reply(k) PROVE PageInv'
<1> DEFINE asks == Current(k).asks
           got == [l \in {q.list : q \in asks} |-> Answer(db, CHOOSE q \in asks : q.list = l)]
<1>1. JobOK(job[k]) /\ StepOK(Current(k)) BY CurrentOK DEF Reply
<1>2. ASSUME NEW l \in DOMAIN got PROVE ListOK(l, got[l])
  <2> DEFINE q == CHOOSE q \in asks : q.list = l
  <2>1. q \in asks /\ q.list = l OBVIOUS
  <2> HIDE DEF q
  <2>2. QueryOK(q) BY <1>1, <2>1 DEF StepOK
  <2>3. ListOK(l, Answer(db, q)) BY <2>1, <2>2, AnswerFits DEF PageInv
  <2> QED BY <2>3 DEF q
<1>3. job' = [job EXCEPT ![k].got = got] BY DEF Reply
<1> HIDE DEF got
<1>4. JobOK([job[k] EXCEPT !.got = got]) BY <1>1, <1>2 DEF JobOK
<1>5. JobsOK(job') BY <1>3, <1>4 DEF PageInv, JobsOK
<1> QED BY <1>5 DEF Reply, PageInv, JobsOK

\* There is a latest period among those that are shown.
LEMMA LatestAmong ==
    ASSUME NEW f, ListOK("periods", f), NEW S \in SUBSET DOMAIN f, S # {}
    PROVE  Latest(f, S) \in S
<1> DEFINE R == StrictSubsetOrdering(S)
           Top(U) == \E p \in U : \A q \in U : f[q].month <= f[p].month
           T == {U \in FiniteSubsetsOf(S) : U # {} /\ ~Top(U)}
<1>1. \A p \in S : p \in Ids /\ f[p].month \in Nat
  BY RegistryAssumption DEF ListOK, Row
<1>2. S \in FiniteSubsetsOf(S)
  <2>1. IsFiniteSet(S) BY <1>1, RegistryAssumption, FS_Subset
  <2> QED BY <2>1 DEF FiniteSubsetsOf
<1>3. IsWellFoundedOn(R, FiniteSubsetsOf(S)) BY FS_StrictSubsetOrderingWellFounded
<1> HIDE DEF R
<1>4. T = {}
  <2> SUFFICES ASSUME T # {} PROVE FALSE OBVIOUS
  <2>1. PICK U \in T : \A V \in T : ~(<<V, U>> \in R)
    <3>1. T \subseteq FiniteSubsetsOf(S) OBVIOUS
    <3> HIDE DEF T
    <3> QED BY <1>3, <3>1, WFMin
  <2>2. U \subseteq S /\ IsFiniteSet(U) /\ U # {} /\ ~Top(U) BY DEF FiniteSubsetsOf
  <2>3. PICK x \in U : TRUE BY <2>2
  <2> DEFINE V == U \ {x}
  <2>4. V \in FiniteSubsetsOf(S) /\ <<V, U>> \in R
    BY <2>2, FS_RemoveElement, FS_Subset DEF FiniteSubsetsOf, R, StrictSubsetOrdering
  <2>5. \A z \in U : f[z].month \in Nat BY <1>1, <2>2
  <2>6. V # {} BY <2>2, <2>3, <2>5
  <2>7. PICK y \in V : \A z \in V : f[z].month <= f[y].month BY <2>1, <2>4, <2>6
  <2>8. CASE f[x].month <= f[y].month
    <3>1. \A z \in U : f[z].month <= f[y].month BY <2>7, <2>8
    <3> QED BY <2>2, <2>7, <3>1
  <2>9. CASE ~(f[x].month <= f[y].month)
    <3>1. \A z \in U : f[z].month <= f[x].month BY <2>5, <2>7, <2>9
    <3> QED BY <2>2, <3>1
  <2> QED BY <2>8, <2>9
<1>5. Top(S) BY <1>2, <1>4
<1> QED BY <1>5 DEF Latest

\* The period a page chooses by itself is one of those it has just fetched.
LEMMA ChosenOK ==
    ASSUME NEW f, ListOK("periods", f)
    PROVE  ChosenPeriod(f) \in Opt(Ids)
<1> DEFINE open == {p \in DOMAIN f : f[p].open}
           S == IF open # {} THEN open ELSE DOMAIN f
<1>1. CASE DOMAIN f = {} BY <1>1 DEF ChosenPeriod, Opt
<1>2. CASE DOMAIN f # {}
  <2>1. S \in SUBSET DOMAIN f /\ S # {} BY <1>2
  <2>2. ChosenPeriod(f) = Latest(f, S) BY <1>2 DEF ChosenPeriod
  <2> HIDE DEF S
  <2>3. Latest(f, S) \in S BY <2>1, LatestAmong
  <2> QED BY <2>1, <2>2, <2>3 DEF ListOK, Opt
<1> QED BY <1>1, <1>2

\* What the continuation of a step leaves on the page.
LEMMA DeliverKeeps == ASSUME PageInv, NEW k \in Slots, Deliver(k) PROVE PageInv'
<1> DEFINE j == job[k]
           got == Received(k)
           sel == IF j.here THEN Preselected(ui.sel, got) ELSE ui.sel
           rest == Rest(j.steps, got, sel)
           s == Head(j.steps)
           lists == Arrived(ui.list, s.asks, got)
           emptied == IF NoOptions(j.steps, sel) THEN [lists EXCEPT !["options"] = Nothing]
                      ELSE lists
           dlg == IF ui.dlg # None /\ ui.dlg.name = s.close THEN None ELSE ui.dlg
           on == (ui.busy /\ s.fin # "always") \/ (rest # <<>> /\ Head(rest).spin)
<1>1. JobOK(j) /\ ProgramOK(j.steps) /\ UiOK(ui) BY CurrentOK DEF Deliver, PageInv
<1>2. \A l \in DOMAIN got : ListOK(l, got[l])
  BY <1>1 DEF Received, Nothing, JobOK
<1> HIDE DEF got
<1>3. SelOK(sel)
  <2>1. SelOK(ui.sel) BY <1>1 DEF UiOK
  <2>2. "periods" \in DOMAIN got => ChosenPeriod(got["periods"]) \in Opt(Ids)
    BY <1>2, ChosenOK
  <2> QED BY <2>1, <2>2, SelSet DEF Preselected
<1> HIDE DEF sel
<1>4. rest = <<>> \/ ProgramOK(rest) BY <1>1, RestOK
<1> HIDE DEF rest
<1>5. DOMAIN lists = Lists /\ \A l \in Lists : ListOK(l, lists[l])
  BY <1>1, <1>2, ArrivedFits DEF UiOK
<1>6. DOMAIN emptied = Lists /\ \A l \in Lists : ListOK(l, emptied[l])
  <2> HIDE DEF lists
  <2> QED BY <1>5, NothingFits
<1>7. job' = [job EXCEPT ![k] = IF rest = <<>> THEN NoJob ELSE [j EXCEPT !.steps = rest, !.got = None]]
  BY DEF Deliver, rest, sel, got
<1>8. JobsOK(job')
  <2> HIDE DEF j
  <2>1. rest # <<>> => JobOK([j EXCEPT !.steps = rest, !.got = None]) BY <1>1, <1>4 DEF JobOK
  <2> QED BY <1>7, <2>1 DEF PageInv, JobsOK
<1>9. UiOK(ui')
  <2>1. CASE ~j.here BY <2>1, <1>1 DEF Deliver
  <2>2. CASE j.here
    <3>1. ui' = [ui EXCEPT !.list = emptied, !.dlg = dlg, !.busy = on, !.sel = sel]
      BY <2>2, <1>1 DEF Deliver, Continued, UiOK, rest, sel, got
    <3>2. on \in BOOLEAN OBVIOUS
    <3>3. dlg = None \/ dlg = ui.dlg OBVIOUS
    <3> HIDE DEF on, dlg, emptied
    <3> QED BY <1>1, <1>3, <1>6, <3>1, <3>2, <3>3 DEF UiOK
  <2> QED BY <2>1, <2>2
<1> QED BY <1>8, <1>9 DEF Deliver, PageInv, JobsOK

\* A handler that fails leaves at most the rest of its requests behind.
LEMMA CaughtKeeps ==
    ASSUME PageInv, NEW k \in Slots, Waiting(k), NEW late, Caught(k, late)
    PROVE  JobsOK(job') /\ UiOK(ui') /\ UNCHANGED <<db, saves>>
<1>1. JobOK([NewJob(<<Send(late, None)>>) EXCEPT !.here = FALSE, !.made = job[k].made])
  <2>1. JobOK(NewJob(<<Send(late, None)>>)) BY StepKinds, OneStep, NewJobOK
  <2> QED BY <2>1 DEF JobOK
<1>2. JobsOK(job') BY <1>1 DEF Caught, PageInv, JobsOK
<1>3. UiOK(ui')
  <2> DEFINE on == ui.busy /\ ~(job[k].here /\ Current(k).fin # "never")
  <2>1. on \in BOOLEAN OBVIOUS
  <2>2. ui' = [ui EXCEPT !.busy = on] BY DEF Caught
  <2> HIDE DEF on
  <2> QED BY <2>1, <2>2 DEF PageInv, UiOK
<1> QED BY <1>2, <1>3 DEF Caught

-----------------------------------------------------------------------------

\* PageInv holds initially and every step keeps it.
THEOREM PageInvariant == Spec => []PageInv
<1>1. Init => PageInv
  <2> SUFFICES ASSUME Init PROVE PageInv OBVIOUS
  <2>1. PICK page \in StartPages :
          LET sel == [NoFilter EXCEPT !.client = IF page = "detail" THEN 1 ELSE None]
          IN  ui = Opened(page, sel) /\ job = Begun(Idle, Mounted(page, sel))
    BY DEF Init
  <2> DEFINE c == IF page = "detail" THEN 1 ELSE None
             sel == [NoFilter EXCEPT !.client = c]
  <2>2. page \in Pages /\ c \in Opt(Ids) BY WebPagesAssumption DEF Opt, Live, IdsOf
  <2>3. SelOK(sel) BY <2>2, FiltersOK
  <2>4. UiOK(ui) BY <2>1, <2>2, <2>3, OpenedOK
  <2>5. JobsOK(job)
    <3>1. JobsOK(Idle) BY DEF JobsOK, Idle
    <3> QED BY <2>1, <2>2, <3>1, MountedOK, BegunOK
  <2> QED BY <2>4, <2>5, WebPagesAssumption, BrowserAssumption DEF Init, PageInv, JobsOK
<1>2. PageInv /\ [Next]_vars => PageInv'
  <2> SUFFICES ASSUME PageInv, [Next]_vars PROVE PageInv' OBVIOUS
  <2>1. CASE User BY <2>1, UserKeeps
  <2>2. ASSUME NEW k \in Slots, Network(k) PROVE PageInv'
    <3>1. CASE Execute(k) BY <3>1, ExecuteKeeps
    <3>2. CASE Reply(k) BY <3>2, ReplyKeeps
    <3>3. CASE Deliver(k) BY <3>3, DeliverKeeps
    <3>4. CASE Refuse(k)
      <4>1. Waiting(k) /\ \E late : Caught(k, late) BY <3>4 DEF Refuse
      <4>2. JobsOK(job') /\ UiOK(ui') /\ UNCHANGED <<db, saves>> BY <4>1, CaughtKeeps
      <4>3. trouble' \in Nat BY <3>4 DEF Refuse, PageInv
      <4> QED BY <4>2, <4>3 DEF PageInv, JobsOK
    <3>5. CASE Fail(k)
      <4>1. Waiting(k) /\ \E late : Caught(k, late) BY <3>5 DEF Fail
      <4>2. JobsOK(job') /\ UiOK(ui') /\ UNCHANGED <<db, saves>> BY <4>1, CaughtKeeps
      <4>3. trouble' \in Nat BY <3>5, BrowserAssumption DEF Fail, PageInv
      <4> QED BY <4>2, <4>3 DEF PageInv, JobsOK
    <3> QED BY <2>2, <3>1, <3>2, <3>3, <3>4, <3>5 DEF Network
  <2>3. CASE Elsewhere(Others)
    <3>1. PICK c \in Others : Accepted(db, c) /\ db' = Apply(db, c) BY <2>3 DEF Elsewhere
    <3>2. RegistryOK(db') /\ Resolves(db') BY <3>1, ApplyKeeps DEF PageInv
    <3>3. trouble' \in Nat BY <2>3, BrowserAssumption DEF Elsewhere, PageInv
    <3> QED BY <2>3, <3>2, <3>3 DEF Elsewhere, PageInv
  <2>4. CASE UNCHANGED vars BY <2>4 DEF vars, PageInv
  <2> QED BY <2>1, <2>2, <2>3, <2>4 DEF Next
<1> QED BY <1>1, <1>2, PTL DEF Spec

\* Every state has the shape the declarations give it; in particular the offset of the list
\* of clients is that of a page, and never below zero.
THEOREM PageTypes == Spec => []TypeOK
<1>1. PageInv => TypeOK
  <2> SUFFICES ASSUME PageInv PROVE TypeOK OBVIOUS
  <2>1. UiOK(ui) /\ SelOK(ui.sel) BY DEF PageInv, UiOK
  <2>2. \A k \in Slots : job[k] # NoJob => job[k].steps # <<>> /\ job[k].here \in BOOLEAN
    BY DEF PageInv, JobOK, ProgramOK
  <2> QED BY <2>1, <2>2 DEF PageInv, TypeOK, UiOK, SelOK, On
<1> QED BY <1>1, PageInvariant, PTL
=============================================================================
