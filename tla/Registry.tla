------------------------------ MODULE Registry ------------------------------
(***************************************************************************)
(* The server as the pages of the web application see it: tables of rows,  *)
(* and the calls that insert, update and delete them.  A call is executed  *)
(* in one step and is accepted or refused by the checks of the repositories*)
(* and by the keys of the schema.  What happens between the statements of  *)
(* one call is the subject of Billing, Tariffs and Accounts.               *)
(*                                                                         *)
(* Dates, prices and amounts are left out: a tariff is in force until it   *)
(* is ended, a subscription is connected until it is disconnected, and two *)
(* subscriptions of a location to a service begin on the same day.         *)
(***************************************************************************)
EXTENDS Integers, FiniteSets

CONSTANTS
    Ids,        \* the ids a table can give away (bound; SERIAL: never used twice)
    Texts,      \* names and account numbers
    Notes,      \* an empty note is None
    Roles,      \* "admin" among them
    Statuses,   \* of a calculation, "pending" among them
    Months,     \* period_start, in the order of time
    Readings,   \* reading_curr
    New,        \* an id that has not been given away
    Gone,       \* the id of a deleted row
    None        \* SQL NULL

Tables == {"users", "clients", "locations", "services", "tariffs", "subscriptions",
           "periods", "calculations"}

\* A calculation is known by its subscription and its period, which are unique.
IdsOf(t) == IF t = "calculations" THEN Ids \X Ids ELSE Ids

Opt(S) == S \cup {None}

Row == [
    users         |-> [username: Texts, role: Roles, is_active: BOOLEAN],
    clients       |-> [account_number: Texts, full_name: Texts, is_active: BOOLEAN],
    locations     |-> [client: Ids, name: Texts, is_default: BOOLEAN],
    services      |-> [name: Texts, has_meter: BOOLEAN],
    tariffs       |-> [service: Ids, note: Opt(Notes), ended: BOOLEAN],
    subscriptions |-> [location: Ids, service: Ids, note: Opt(Notes), connected: BOOLEAN],
    periods       |-> [month: Months, open: BOOLEAN],
    calculations  |-> [subscription: Ids, period: Ids, tariff: Ids, reading: Opt(Readings),
                       status: Statuses, note: Opt(Notes)]]

ASSUME RegistryAssumption ==
    /\ Ids \subseteq Nat /\ IsFiniteSet(Ids)
    /\ Months \subseteq Nat
    /\ "pending" \in Statuses
    /\ \A t \in Tables : New \notin Row[t] /\ Gone \notin Row[t]

\* The references of the schema: the column and the table it points into.
Parents == [
    users         |-> {},
    clients       |-> {},
    locations     |-> {<<"client", "clients">>},
    services      |-> {},
    tariffs       |-> {<<"service", "services">>},
    subscriptions |-> {<<"location", "locations">>, <<"service", "services">>},
    periods       |-> {},
    calculations  |-> {<<"subscription", "subscriptions">>, <<"period", "periods">>,
                       <<"tariff", "tariffs">>}]

\* Its unique keys; those of locations and tariffs only hold for rows that Indexed admits.
Unique == [
    users         |-> {"username"},
    clients       |-> {"account_number"},
    locations     |-> {"client"},
    services      |-> {"name"},
    tariffs       |-> {"service"},
    subscriptions |-> {"location", "service"},
    periods       |-> {"month"},
    calculations  |-> {"subscription", "period"}]

Indexed(t, r) ==
    /\ t = "locations" => r.is_default
    /\ t = "tariffs" => ~r.ended

Live(d, t, i) == i \in IdsOf(t) /\ d[t][i] \notin {New, Gone}
LiveIds(d, t) == {i \in IdsOf(t) : Live(d, t, i)}

HasParents(d, t, r) == \A p \in Parents[t] : Live(d, p[2], r[p[1]])

\* The row r, to be stored at i, takes no key of another row.
KeyFree(d, t, i, r) ==
    \A j \in LiveIds(d, t) \ {i} :
        ~(/\ Indexed(t, r) /\ Indexed(t, d[t][j])
          /\ \A f \in Unique[t] : d[t][j][f] = r[f])

\* The rows that refer to row i of table t.
Children(d, t, i) ==
    {c \in UNION {{u} \X LiveIds(d, u) : u \in Tables} :
        \E p \in Parents[c[1]] : p[2] = t /\ d[c[1]][c[2]][p[1]] = i}

-----------------------------------------------------------------------------
(* Calls.  The body of an update, set, is a record of columns; the server  *)
(* writes those that its UPDATE statements name.                           *)

Insert(t, r) == [op |-> "insert", table |-> t, row |-> r]
Update(t, i, set) == [op |-> "update", table |-> t, id |-> i, set |-> set]
Delete(t, i) == [op |-> "delete", table |-> t, id |-> i]

Writable == [
    users         |-> {"username", "role", "is_active"},
    clients       |-> {"full_name", "is_active"},
    locations     |-> {"name", "is_default"},
    services      |-> {"name", "has_meter"},
    tariffs       |-> {"note", "ended"},
    subscriptions |-> {"note", "connected"},
    periods       |-> {"open"},
    calculations  |-> {"reading", "status", "note"}]

Written(t, r, set) ==
    [f \in DOMAIN r |-> IF f \in DOMAIN set /\ f \in Writable[t] THEN set[f] ELSE r[f]]

FreeIds(d, t, r) ==
    {i \in IdsOf(t) : d[t][i] = New /\ (t = "calculations" => i = <<r.subscription, r.period>>)}
NextId(d, t, r) ==
    CHOOSE i \in FreeIds(d, t, r) : t = "calculations" \/ \A j \in FreeIds(d, t, r) : i <= j

\* Tariffs in force.
InForce(d, s) == {i \in LiveIds(d, "tariffs") : d.tariffs[i].service = s /\ ~d.tariffs[i].ended}

\* An open-ended tariff ends the one in force first.
EndTariff(d, s) ==
    [d EXCEPT !.tariffs = [i \in Ids |-> IF i \in InForce(d, s)
                                         THEN [@[i] EXCEPT !.ended = TRUE] ELSE @[i]]]

\* What an insert does before it stores its row.
Prepared(d, t, r) == IF t = "tariffs" /\ ~r.ended THEN EndTariff(d, r.service) ELSE d

TariffOf(d, s) == CHOOSE i \in InForce(d, d.subscriptions[s].service) : TRUE

\* OpenPeriod writes a calculation for every connected subscription with a tariff in force.
\* Its readings, its amount and the note it takes over are Billing's.
Billable(d, s) ==
    /\ Live(d, "subscriptions", s)
    /\ d.subscriptions[s].connected
    /\ InForce(d, d.subscriptions[s].service) # {}
Generated(d, p) ==
    [d EXCEPT !.calculations = [i \in Ids \X Ids |->
        IF i[2] = p /\ Billable(d, i[1])
        THEN [subscription |-> i[1], period |-> p, tariff |-> TariffOf(d, i[1]),
              reading |-> None, status |-> "pending", note |-> None]
        ELSE @[i]]]

\* A calculation made by hand gets the tariff in force of its subscription's service.
Completed(d, t, r) ==
    IF t = "calculations" THEN [r EXCEPT !.tariff = TariffOf(d, r.subscription)] ELSE r

AcceptedInsert(d, t, r) ==
    /\ FreeIds(d, t, r) # {}
    /\ t = "calculations" =>
           /\ Live(d, "subscriptions", r.subscription)
           /\ InForce(d, d.subscriptions[r.subscription].service) # {}
    /\ Completed(d, t, r) \in Row[t]
    /\ HasParents(d, t, Completed(d, t, r))
    /\ KeyFree(Prepared(d, t, r), t, NextId(d, t, r), r)

Inserted(d, t, r) ==
    LET i == NextId(d, t, r)
        d1 == [Prepared(d, t, r) EXCEPT ![t][i] = Completed(d, t, r)]
    IN  IF t = "periods" THEN Generated(d1, i) ELSE d1

\* An update of a row that is gone reports an error for these tables only.
ReportsMissing == {"locations", "tariffs", "periods", "calculations"}

\* The checks of the repositories: the WHERE of the period and calculation updates, and
\* the count of SetActive.
MayWrite(d, t, i, set) ==
    /\ t = "periods" => set.open # d.periods[i].open
    /\ t = "calculations" => d.periods[d.calculations[i].period].open
    /\ t = "users" /\ "is_active" \in DOMAIN set /\ ~set.is_active =>
           \E u \in LiveIds(d, "users") \ {i} : d.users[u].role = "admin" /\ d.users[u].is_active

\* A location that becomes the default takes the flag from the client's other locations.
OthersCleared(d, t, i, set) ==
    IF t = "locations" /\ set.is_default
    THEN [d EXCEPT !.locations =
             [j \in Ids |-> IF j # i /\ Live(d, t, j) /\ @[j].client = @[i].client
                            THEN [@[j] EXCEPT !.is_default = FALSE] ELSE @[j]]]
    ELSE d

AcceptedUpdate(d, t, i, set) ==
    IF Live(d, t, i)
    THEN /\ MayWrite(d, t, i, set)
         /\ Written(t, d[t][i], set) \in Row[t]
         /\ KeyFree(OthersCleared(d, t, i, set), t, i, Written(t, d[t][i], set))
    ELSE t \notin ReportsMissing

Updated(d, t, i, set) ==
    IF Live(d, t, i)
    THEN [OthersCleared(d, t, i, set) EXCEPT ![t][i] = Written(t, d[t][i], set)]
    ELSE d

\* Deleting a client deletes its locations with it; every other reference holds its row.
\* A calculation is never deleted (the check counts the rows of a table nobody creates), and
\* a user with a history, which is refused as well, is Accounts'.
LocationsOf(d, i) == {l \in LiveIds(d, "locations") : d.locations[l].client = i}

\* Mutant: the references to the locations that go with a client hold nothing.
AcceptedDeleteOnly(d, t, i) ==
    /\ t # "calculations"
    /\ t # "clients" => Children(d, t, i) = {}
    /\ t \in ReportsMissing => Live(d, t, i)
AcceptedDelete(d, t, i) ==
    /\ t # "calculations"
    /\ IF t = "clients" THEN \A l \in LocationsOf(d, i) : Children(d, "locations", l) = {}
                        ELSE Children(d, t, i) = {}
    /\ t \in ReportsMissing => Live(d, t, i)

Deleted(d, t, i) ==
    IF ~Live(d, t, i) THEN d
    ELSE IF t = "clients"
    THEN [d EXCEPT !.clients[i] = Gone,
                   !.locations = [l \in Ids |-> IF l \in LocationsOf(d, i) THEN Gone ELSE @[l]]]
    ELSE [d EXCEPT ![t][i] = Gone]

\* A row is accepted only if its columns have values of their types.
Accepted(d, c) ==
    \/ c.op = "insert" /\ AcceptedInsert(d, c.table, c.row)
    \/ c.op = "update" /\ AcceptedUpdate(d, c.table, c.id, c.set)
    \/ c.op = "delete" /\ AcceptedDelete(d, c.table, c.id)

Apply(d, c) ==
    CASE c.op = "insert" -> Inserted(d, c.table, c.row)
      [] c.op = "update" -> Updated(d, c.table, c.id, c.set)
      [] c.op = "delete" -> Deleted(d, c.table, c.id)

-----------------------------------------------------------------------------
(* What every state of the tables satisfies. *)

RegistryOK(d) ==
    /\ DOMAIN d = Tables
    /\ \A t \in Tables : d[t] \in [IdsOf(t) -> Row[t] \cup {New, Gone}]

\* Every row that a row refers to is there.
Resolves(d) == \A t \in Tables : \A i \in LiveIds(d, t) : HasParents(d, t, d[t][i])

\* A calculation is stored under its subscription and its period.
Keyed(d) ==
    \A i \in LiveIds(d, "calculations") :
        d.calculations[i].subscription = i[1] /\ d.calculations[i].period = i[2]
=============================================================================
