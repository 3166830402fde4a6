------------------------------ MODULE Billing ------------------------------
(***************************************************************************)
(* The billing core of billcore: periods, calculations, and the parts of   *)
(* services, subscriptions and tariffs the calculations are computed from. *)
(*                                                                         *)
(* Every write of the server runs in a PostgreSQL transaction opened by    *)
(* db.WithTx, at the default isolation level READ COMMITTED: each          *)
(* statement sees the rows committed when it starts.  The variables        *)
(* periods, calcs, subs, ... hold the COMMITTED rows.  A request           *)
(* whose outcome depends on more than one statement (or on a snapshot      *)
(* taken before it waits for a lock) is carried out by a session, one step *)
(* per statement, with its uncommitted rows and Go locals in gen, edit and *)
(* draft.  A request of one statement is one action, at its commit: the    *)
(* row lock it holds from the statement to the commit only delays others.  *)
(* A refused request changes no row and is a stuttering step.              *)
(***************************************************************************)
EXTENDS Integers, FiniteSets

CONSTANTS
    Sessions,        \* requests of several statements that can be in flight at once
    Subs,            \* subscription ids (SERIAL: never used twice)
    Tariffs,         \* tariff ids (SERIAL)
    Services,        \* the service catalogue
    SubService,      \* the service of a subscription (its Update leaves it alone)
    TariffService,   \* the service of a tariff
    Dates,           \* calendar days, as numbers
    MonthStarts,     \* the days that are the first of a month
    Readings,        \* meter readings, in whole units
    Prices,          \* price_per_unit NUMERIC(12,4), in 1/10000
    Quantities,      \* quantities typed in for a flat-rate service
    Notes,           \* notes of a calculation
    MaxPeriods,      \* bound: how many period ids are drawn
    InitMetered,     \* the services with a meter at the start
    InitSubs,        \* the subscriptions in place at the start
    InitTariffs,     \* the tariffs in place at the start
    Ops,             \* the kinds of request this instance makes
    None             \* SQL NULL, Go nil

PeriodIds == 1..MaxPeriods
PeriodStatuses == {"open", "closed"}
Statuses == {"pending", "paid", "cancelled"}

ASSUME ConstantsAssumption ==
    /\ InitMetered \subseteq Services
    /\ SubService \in [Subs -> Services]
    /\ TariffService \in [Tariffs -> Services]
    /\ Dates \subseteq Nat
    /\ MonthStarts \subseteq Dates
    /\ Readings \subseteq Nat
    /\ Prices \subseteq Nat
    /\ Quantities \subseteq Nat
    /\ MaxPeriods \in Nat
    /\ None \notin Nat

Opt(S) == S \cup {None}
Keys == Subs \X PeriodIds

Period == [start: MonthStarts, status: PeriodStatuses]
\* byHand is no column but history: the quantity was typed in, and no reading has
\* replaced it.
Calc == [tariff: Tariffs, prev: Opt(Readings), curr: Opt(Readings), quantity: Nat,
         amount: Nat, status: Statuses, note: Opt(Notes), byHand: BOOLEAN]
Sub == [state: {"new", "live", "gone"}, disconnected: Opt(Dates), connected: Opt(Dates)]
Tariff == [state: {"new", "active", "ended", "gone"}, price: Prices]

\* The locals and uncommitted rows of an OpenPeriod transaction.
Gen == [pid: Opt(PeriodIds), start: Opt(MonthStarts), todo: SUBSET Subs,
        meters: SUBSET Subs, sub: Opt(Subs), tariff: Opt(Tariffs), price: Opt(Prices),
        note: Opt(Notes), prev: Opt(Readings), rows: [Subs -> Opt(Calc)]]
\* An UPDATE of one calculation whose WHERE clause has been evaluated.
Change == [kind: {"reading"}, prev: Opt(Readings), curr: Readings, price: Prices]
            \cup [kind: {"status"}, status: Statuses]
            \cup [kind: {"note"}, note: Notes]
Edit == [key: Keys, change: Change]
\* A calculation the Create handler has computed and not inserted yet.
Draft == [key: Keys, row: Calc]

\* NULL is no row.
ASSUME NullAssumption == None \notin Period /\ None \notin Calc

ASSUME CatalogueAssumption ==
    /\ InitSubs \in [Subs -> Sub]
    /\ InitTariffs \in [Tariffs -> Tariff]
    /\ \A t, u \in Tariffs :
          /\ InitTariffs[t].state = "active" /\ InitTariffs[u].state = "active"
          /\ TariffService[t] = TariffService[u]
          => t = u

NoGen == [pid |-> None, start |-> None, todo |-> {}, meters |-> {}, sub |-> None,
          tariff |-> None, price |-> None, note |-> None, prev |-> None,
          rows |-> [b \in Subs |-> None]]

GenPhases == {"fetch", "pick", "note", "reading", "insert"}

VARIABLES
    periods,      \* committed rows of billcore.periods
    nextPeriod,   \* the SERIAL of periods
    calcs,        \* committed rows of billcore.calculations, by (subscription, period)
    metered,      \* the rows of billcore.services whose has_meter is TRUE
    subs,         \* committed rows of billcore.subscriptions
    tariffs,      \* committed rows of billcore.tariffs
    pc,           \* the next statement of a session
    gen, edit, draft,
    steady        \* history: what OpenPeriod fetched and has been billable ever since

db == <<periods, nextPeriod, calcs, metered, subs, tariffs>>
vars == <<periods, nextPeriod, calcs, metered, subs, tariffs, pc, gen, edit, draft, steady>>

TypeOK ==
    /\ periods \in [PeriodIds -> Opt(Period)]
    /\ nextPeriod \in 1..(MaxPeriods + 1)
    /\ calcs \in [Keys -> Opt(Calc)]
    /\ metered \subseteq Services
    /\ subs \in [Subs -> Sub]
    /\ tariffs \in [Tariffs -> Tariff]
    /\ pc \in [Sessions -> {"idle", "edit", "create"} \cup GenPhases]
    /\ gen \in [Sessions -> Gen]
    /\ edit \in [Sessions -> Opt(Edit)]
    /\ draft \in [Sessions -> Opt(Draft)]
    /\ steady \in [Sessions -> SUBSET Subs]

Init ==
    /\ periods = [p \in PeriodIds |-> None]
    /\ nextPeriod = 1
    /\ calcs = [k \in Keys |-> None]
    /\ metered = InitMetered
    /\ subs = InitSubs
    /\ tariffs = InitTariffs
    /\ pc = [s \in Sessions |-> "idle"]
    /\ gen = [s \in Sessions |-> NoGen]
    /\ edit = [s \in Sessions |-> None]
    /\ draft = [s \in Sessions |-> None]
    /\ steady = [s \in Sessions |-> {}]

-----------------------------------------------------------------------------
(* The committed rows, as the statements read them. *)

Exists(p) == periods[p] # None
\* Mutant: the status of the period is not part of the WHERE clause.
IsOpenUnchecked(p) == Exists(p)
IsOpen(p) == Exists(p) /\ periods[p].status = "open"
Live(b) == subs[b].state = "live"
\* A row of billcore.tariffs, whatever its valid_to.
InTable(t) == tariffs[t].state \in {"active", "ended"}
ActiveTariffs(b) == {t \in Tariffs : /\ tariffs[t].state = "active"
                                     /\ TariffService[t] = SubService[b]}
HasMeter(b) == SubService[b] \in metered

\* Mutant: a disconnection planned for a later day already excludes.
ConnectedNow(b, start) == Live(b) /\ subs[b].disconnected = None
\* WHERE disconnected_at IS NULL OR disconnected_at > period_start
ConnectedAfter(b, start) ==
    /\ Live(b)
    /\ subs[b].disconnected # None => subs[b].disconnected > start

\* What the month beginning at start should bill: a subscription not yet
\* disconnected on that day, of a service that has a price.
Billable(b, start) ==
    /\ Live(b)
    /\ \A d \in Dates : d <= start => subs[b].disconnected # d
    /\ ActiveTariffs(b) # {}

\* ROUND(quantity * price_per_unit, 2): the price in 1/10000, the amount in 1/100.
\* Go computes it with float64 (math.Round(quantity*price*1e2) / 1e2) when a row is
\* generated or created, SQL with numeric when a reading is entered; they agree
\* unless the product falls on half a cent, which the instances avoid.
Amount(quantity, price) == (quantity * price + 50) \div 100

\* GREATEST(0, curr - COALESCE(prev, 0))
Consumed(prev, curr) ==
    LET from == IF prev = None THEN 0 ELSE prev
    IN  IF curr > from THEN curr - from ELSE 0

\* ORDER BY period_start DESC LIMIT 1, over periods that hold a row of b.
Latest(P) == {p \in P : \A q \in P : periods[q].start <= periods[p].start}
PeriodsOf(b) == {p \in PeriodIds : Exists(p) /\ calcs[<<b, p>>] # None}
\* Mutant: the latest note, whether or not its period is an earlier one.
LastNoteAnywhere(b, start) ==
    LET P == Latest(PeriodsOf(b))
    IN  IF P = {} THEN None ELSE calcs[<<b, CHOOSE p \in P : TRUE>>].note
LastNote(b, start) ==
    LET P == Latest({p \in PeriodsOf(b) : periods[p].start < start})
    IN  IF P = {} THEN None ELSE calcs[<<b, CHOOSE p \in P : TRUE>>].note
\* Mutant: the latest calculation, also when its reading is still missing.
LastReadingEntered(b) ==
    LET P == Latest(PeriodsOf(b))
    IN  IF P = {} THEN None ELSE calcs[<<b, CHOOSE p \in P : TRUE>>].curr
LastReading(b) ==
    LET P == Latest({p \in PeriodsOf(b) : calcs[<<b, p>>].curr # None})
    IN  IF P = {} THEN None ELSE calcs[<<b, CHOOSE p \in P : TRUE>>].curr

\* Mutant: the foreign key check takes no lock on the subscription.
NoKeyShareSub(b) == FALSE
\* The rows an uncommitted OpenPeriod has inserted keep a FOR KEY SHARE lock
\* on the subscription and the tariff they refer to.
KeyShareSub(b) == \E s \in Sessions : gen[s].rows[b] # None
KeyShareTariff(t) ==
    \E s \in Sessions, b \in Subs : gen[s].rows[b] # None /\ gen[s].rows[b].tariff = t

\* History: what stays billable, after this step, for the OpenPeriod of each session.
KeepSteady == steady' = [s \in Sessions |-> {b \in steady[s] : Billable(b, gen[s].start)'}]

-----------------------------------------------------------------------------
(* PeriodService.OpenPeriod: one transaction, one step per statement. *)

\* Mutant: only committed periods are looked at, as a SELECT before the INSERT would.
MonthCommitted(start) == \E p \in PeriodIds : Exists(p) /\ periods[p].start = start
\* UNIQUE(period_start): a committed row of the month is an error, an
\* uncommitted one makes the INSERT wait.
MonthTaken(start) ==
    \/ \E p \in PeriodIds : Exists(p) /\ periods[p].start = start
    \/ \E r \in Sessions : gen[r].start = start

\* INSERT INTO periods, the first statement of the transaction.
OpenPeriod(s, start) ==
    /\ "open" \in Ops
    /\ pc[s] = "idle"
    /\ nextPeriod <= MaxPeriods
    /\ ~MonthTaken(start)
    /\ nextPeriod' = nextPeriod + 1
    /\ gen' = [gen EXCEPT ![s] = [NoGen EXCEPT !.pid = nextPeriod, !.start = start]]
    /\ pc' = [pc EXCEPT ![s] = "fetch"]
    /\ UNCHANGED <<periods, calcs, metered, subs, tariffs, edit, draft, steady>>

\* SELECT ... has_meter ... FROM subscriptions JOIN services: what it says of a meter
\* goes for the whole generation.
FetchSubscriptions(s) ==
    /\ pc[s] = "fetch"
    /\ LET fetched == {b \in Subs : ConnectedAfter(b, gen[s].start)}
       IN  gen' = [gen EXCEPT ![s].todo = fetched,
                              ![s].meters = {b \in fetched : HasMeter(b)}]
    /\ steady' = [steady EXCEPT ![s] = {b \in Subs : Billable(b, gen[s].start)}]
    /\ pc' = [pc EXCEPT ![s] = "pick"]
    /\ UNCHANGED <<db, edit, draft>>

\* SELECT id, price_per_unit FROM tariffs: no active tariff skips the subscription.
PickTariff(s, b) ==
    /\ pc[s] = "pick"
    /\ b \in gen[s].todo
    /\ \/ /\ ActiveTariffs(b) = {}
          /\ gen' = [gen EXCEPT ![s].todo = @ \ {b}]
          /\ UNCHANGED pc
       \/ \E t \in ActiveTariffs(b) :
             /\ gen' = [gen EXCEPT ![s].todo = @ \ {b}, ![s].sub = b,
                                   ![s].tariff = t, ![s].price = tariffs[t].price]
             /\ pc' = [pc EXCEPT ![s] = "note"]
    /\ UNCHANGED <<db, edit, draft, steady>>

\* SELECT c.note ... p.period_start < $2 ORDER BY p.period_start DESC LIMIT 1
CopyNote(s) ==
    /\ pc[s] = "note"
    /\ gen' = [gen EXCEPT ![s].note = LastNote(gen[s].sub, gen[s].start)]
    /\ pc' = [pc EXCEPT ![s] = IF gen[s].sub \in gen[s].meters THEN "reading" ELSE "insert"]
    /\ UNCHANGED <<db, edit, draft, steady>>

\* SELECT c.reading_curr ... reading_curr IS NOT NULL ORDER BY p.period_start DESC LIMIT 1
CarryReading(s) ==
    /\ pc[s] = "reading"
    /\ gen' = [gen EXCEPT ![s].prev = LastReading(gen[s].sub)]
    /\ pc' = [pc EXCEPT ![s] = "insert"]
    /\ UNCHANGED <<db, edit, draft, steady>>

\* Mutant: the quantity of a metered row is left NULL until its reading comes.
GeneratedRowNull(g) ==
    [tariff |-> g.tariff, prev |-> g.prev, curr |-> None,
     quantity |-> IF g.sub \in g.meters THEN None ELSE 1,
     amount |-> IF g.sub \in g.meters THEN 0 ELSE Amount(1, g.price),
     status |-> "pending", note |-> g.note, byHand |-> FALSE]

\* The row of a metered service waits for its reading, a flat-rate one is
\* billed at once.
GeneratedRow(g) ==
    LET quantity == IF g.sub \in g.meters THEN 0 ELSE 1
    IN  [tariff |-> g.tariff, prev |-> g.prev, curr |-> None,
         quantity |-> quantity, amount |-> Amount(quantity, g.price),
         status |-> "pending", note |-> g.note, byHand |-> FALSE]

\* The transaction of s ends without a trace.
Rollback(s) ==
    /\ pc' = [pc EXCEPT ![s] = "idle"]
    /\ gen' = [gen EXCEPT ![s] = NoGen]
    /\ edit' = [edit EXCEPT ![s] = None]
    /\ draft' = [draft EXCEPT ![s] = None]
    /\ steady' = [steady EXCEPT ![s] = {}]
    /\ UNCHANGED db

\* INSERT INTO calculations: a subscription or tariff deleted in the meantime
\* violates its foreign key, and the error rolls the whole period back.
InsertGenerated(s) ==
    /\ pc[s] = "insert"
    /\ LET g == gen[s]
       IN  IF Live(g.sub) /\ InTable(g.tariff)
           THEN /\ gen' = [gen EXCEPT
                      ![s] = [NoGen EXCEPT !.pid = g.pid, !.start = g.start, !.todo = g.todo,
                                           !.meters = g.meters,
                                           !.rows = [g.rows EXCEPT ![g.sub] = GeneratedRow(g)]]]
                /\ pc' = [pc EXCEPT ![s] = "pick"]
                /\ UNCHANGED <<db, edit, draft, steady>>
           ELSE Rollback(s)

CommitPeriod(s) ==
    /\ pc[s] = "pick"
    /\ gen[s].todo = {}
    /\ LET g == gen[s]
       IN  /\ periods' = [periods EXCEPT ![g.pid] = [start |-> g.start, status |-> "open"]]
           /\ calcs' = [k \in Keys |-> IF k[2] = g.pid THEN g.rows[k[1]] ELSE calcs[k]]
    /\ pc' = [pc EXCEPT ![s] = "idle"]
    /\ gen' = [gen EXCEPT ![s] = NoGen]
    /\ steady' = [steady EXCEPT ![s] = {}]
    /\ UNCHANGED <<nextPeriod, metered, subs, tariffs, edit, draft>>

-----------------------------------------------------------------------------
(* PeriodRepo: one UPDATE or DELETE each, no row matched is an error. *)

SetPeriodStatus(p, from, to) ==
    /\ Exists(p)
    /\ periods[p].status = from
    /\ periods' = [periods EXCEPT ![p].status = to]
    /\ UNCHANGED <<nextPeriod, calcs, metered, subs, tariffs, pc, gen, edit, draft, steady>>

ClosePeriod(p) == "close" \in Ops /\ SetPeriodStatus(p, "open", "closed")
ReopenPeriod(p) == "reopen" \in Ops /\ SetPeriodStatus(p, "closed", "open")

\* calculations.period_id is ON DELETE RESTRICT.
DeletePeriod(p) ==
    /\ "deletePeriod" \in Ops
    /\ Exists(p)
    /\ \A b \in Subs : calcs[<<b, p>>] = None
    /\ periods' = [periods EXCEPT ![p] = None]
    /\ UNCHANGED <<nextPeriod, calcs, metered, subs, tariffs, pc, gen, edit, draft, steady>>

-----------------------------------------------------------------------------
(* CalculationRepo.UpdateReading, UpdateStatus, UpdateNote: one UPDATE ...   *)
(* FROM periods p WHERE p.status = 'open'.  The WHERE clause and the price   *)
(* are evaluated on the snapshot of the statement; the row is locked, and    *)
(* its new columns computed, when no other transaction holds it.  If that    *)
(* took a wait, the latest version of the calculation is used with the row   *)
(* of periods the snapshot saw: nothing locks the period.                    *)

StartEdit(s, k, change) ==
    /\ pc[s] = "idle"
    /\ calcs[k] # None
    /\ IsOpen(k[2])
    /\ edit' = [edit EXCEPT ![s] = [key |-> k, change |-> change]]
    /\ pc' = [pc EXCEPT ![s] = "edit"]
    /\ UNCHANGED <<db, gen, draft, steady>>

UpdateReading(s, k, prev, curr) ==
    /\ "reading" \in Ops
    /\ calcs[k] # None
    /\ StartEdit(s, k, [kind |-> "reading", prev |-> prev, curr |-> curr,
                        price |-> tariffs[calcs[k].tariff].price])

UpdateStatus(s, k, status) ==
    "status" \in Ops /\ StartEdit(s, k, [kind |-> "status", status |-> status])

UpdateNote(s, k, note) ==
    "note" \in Ops /\ StartEdit(s, k, [kind |-> "note", note |-> note])

\* Mutant: the amount is computed from the reading_prev of the request alone.
WithReadingTorn(row, change) ==
    LET prev == IF change.prev = None THEN row.prev ELSE change.prev
    IN  [row EXCEPT !.prev = prev, !.curr = change.curr, !.byHand = FALSE,
                    !.quantity = Consumed(prev, change.curr),
                    !.amount = Amount(Consumed(change.prev, change.curr), change.price)]
\* reading_prev = COALESCE($1, reading_prev), and what follows from it.
WithReading(row, change) ==
    LET prev == IF change.prev = None THEN row.prev ELSE change.prev
        quantity == Consumed(prev, change.curr)
    IN  [row EXCEPT !.prev = prev, !.curr = change.curr, !.quantity = quantity,
                    !.amount = Amount(quantity, change.price), !.byHand = FALSE]

Apply(row, change) ==
    IF change.kind = "reading" THEN WithReading(row, change)
    ELSE IF change.kind = "status" THEN [row EXCEPT !.status = change.status]
    ELSE [row EXCEPT !.note = change.note]

\* Mutant: the period is checked again before the row is written, and a period
\* closed meanwhile is waited for instead of refused.
WriteEditWhenOpen(s) ==
    /\ pc[s] = "edit"
    /\ IsOpen(edit[s].key[2])
    /\ calcs' = [calcs EXCEPT ![edit[s].key] = Apply(@, edit[s].change)]
    /\ pc' = [pc EXCEPT ![s] = "idle"]
    /\ edit' = [edit EXCEPT ![s] = None]
    /\ UNCHANGED <<periods, nextPeriod, metered, subs, tariffs, gen, draft, steady>>

\* The row is written and the transaction commits.
WriteEdit(s) ==
    /\ pc[s] = "edit"
    /\ LET k == edit[s].key
       IN  calcs' = [calcs EXCEPT ![k] = Apply(@, edit[s].change)]
    /\ pc' = [pc EXCEPT ![s] = "idle"]
    /\ edit' = [edit EXCEPT ![s] = None]
    /\ UNCHANGED <<periods, nextPeriod, metered, subs, tariffs, gen, draft, steady>>

-----------------------------------------------------------------------------
(* CalculationHandler.Create: the tariff is read by GetSubscriptionInfo on   *)
(* the pool, the row inserted later in a transaction of its own.             *)

DraftRow(b, t, prev, curr, typed, note) ==
    LET quantity == IF typed # None THEN typed
                    ELSE IF prev # None /\ curr # None THEN Consumed(prev, curr)
                    ELSE IF HasMeter(b) THEN 0 ELSE 1
    IN  [tariff |-> t, prev |-> prev, curr |-> curr, quantity |-> quantity,
         amount |-> Amount(quantity, tariffs[t].price), status |-> "pending", note |-> note,
         byHand |-> typed # None]

\* A quantity that is sent is taken, whatever the readings and the service say: the
\* page sends one for a service that was flat rate when the page was loaded.
CreateCalculation(s, b, p, prev, curr, typed, note) ==
    /\ "create" \in Ops
    /\ pc[s] = "idle"
    /\ Exists(p)
    /\ Live(b)
    /\ \E t \in ActiveTariffs(b) :
          draft' = [draft EXCEPT ![s] = [key |-> <<b, p>>,
                                         row |-> DraftRow(b, t, prev, curr, typed, note)]]
    /\ pc' = [pc EXCEPT ![s] = "create"]
    /\ UNCHANGED <<db, gen, edit, steady>>

\* INSERT INTO calculations: UNIQUE(subscription_id, period_id) and the three
\* foreign keys decide; the status of the period is not looked at.
InsertCalculation(s) ==
    /\ pc[s] = "create"
    /\ LET d == draft[s]
           k == d.key
       IN  IF calcs[k] = None /\ Exists(k[2]) /\ Live(k[1]) /\ InTable(d.row.tariff)
           THEN /\ calcs' = [calcs EXCEPT ![k] = d.row]
                /\ pc' = [pc EXCEPT ![s] = "idle"]
                /\ draft' = [draft EXCEPT ![s] = None]
                /\ UNCHANGED <<periods, nextPeriod, metered, subs, tariffs, gen, edit, steady>>
           ELSE Rollback(s)

-----------------------------------------------------------------------------
(* SubscriptionRepo. *)

SetSubscription(b, row) ==
    /\ subs' = [subs EXCEPT ![b] = row]
    /\ UNCHANGED <<periods, nextPeriod, calcs, metered, tariffs, pc, gen, edit, draft>>
    /\ KeepSteady

CreateSubscription(b, date) ==
    /\ "subscribe" \in Ops
    /\ subs[b].state = "new"
    /\ SetSubscription(b, [state |-> "live", disconnected |-> None, connected |-> date])

\* CHECK (disconnected_at > connected_at)
Disconnect(b, date) ==
    /\ "disconnect" \in Ops
    /\ Live(b)
    /\ date > subs[b].connected
    /\ SetSubscription(b, [subs[b] EXCEPT !.disconnected = date])

\* ON DELETE RESTRICT; a FOR KEY SHARE lock of an open generation makes it wait.
DeleteSubscription(b) ==
    /\ "unsubscribe" \in Ops
    /\ Live(b)
    /\ ~KeyShareSub(b)
    /\ \A p \in PeriodIds : calcs[<<b, p>>] = None
    /\ SetSubscription(b, [state |-> "gone", disconnected |-> None, connected |-> None])

-----------------------------------------------------------------------------
(* ServiceRepo.  Of a service, only has_meter matters here.                 *)

\* The catalogue may give a service a meter, or take it away, at any time.
UpdateService(v, has_meter) ==
    /\ "service" \in Ops
    /\ metered' = IF has_meter THEN metered \cup {v} ELSE metered \ {v}
    /\ UNCHANGED <<periods, nextPeriod, calcs, subs, tariffs, pc, gen, edit, draft, steady>>

-----------------------------------------------------------------------------
(* ServiceRepo's tariffs, by what they commit.  TariffBook says what that    *)
(* is, and Tariffs shows that the statements of ServiceRepo keep to it.      *)

Book == INSTANCE TariffBook WITH book <- tariffs, InitBook <- InitTariffs

OnlyTariffs ==
    /\ UNCHANGED <<periods, nextPeriod, calcs, metered, subs, pc, gen, edit, draft>>
    /\ KeepSteady

CreateTariff(t, price, state) ==
    /\ "createTariff" \in Ops
    /\ Book!Create(t, price, state)
    /\ OnlyTariffs

UpdateTariff(t, price, state) ==
    /\ "updateTariff" \in Ops
    /\ Book!Amend(t, price, state)
    /\ OnlyTariffs

\* calculations.tariff_id is ON DELETE RESTRICT.
DeleteTariff(t) ==
    /\ "deleteTariff" \in Ops
    /\ ~KeyShareTariff(t)
    /\ \A k \in Keys : calcs[k] # None => calcs[k].tariff # t
    /\ Book!Remove(t)
    /\ OnlyTariffs

-----------------------------------------------------------------------------
\* The client goes away (its context is cancelled), the connection is lost or
\* the server stops: WithTx's deferred Rollback, or the database, ends the
\* transaction.
Abort(s) == "abort" \in Ops /\ pc[s] # "idle" /\ Rollback(s)

GenerationStep(s) ==
    \/ FetchSubscriptions(s)
    \/ \E b \in Subs : PickTariff(s, b)
    \/ CopyNote(s)
    \/ CarryReading(s)
    \/ InsertGenerated(s)
    \/ CommitPeriod(s)

\* What a request does once it has been accepted.
Continue(s) == GenerationStep(s) \/ WriteEdit(s) \/ InsertCalculation(s)

Request(s) ==
    \/ \E start \in MonthStarts : OpenPeriod(s, start)
    \/ \E k \in Keys :
          \/ \E prev \in Opt(Readings), curr \in Readings : UpdateReading(s, k, prev, curr)
          \/ \E status \in Statuses : UpdateStatus(s, k, status)
          \/ \E note \in Notes : UpdateNote(s, k, note)
    \/ \E b \in Subs, p \in PeriodIds, prev, curr \in Opt(Readings),
          typed \in Opt(Quantities), note \in Notes :
             CreateCalculation(s, b, p, prev, curr, typed, note)

ManagePeriods == \E p \in PeriodIds : ClosePeriod(p) \/ ReopenPeriod(p) \/ DeletePeriod(p)

ManageSubscriptions ==
    \E b \in Subs :
       \/ \E date \in Dates : CreateSubscription(b, date) \/ Disconnect(b, date)
       \/ DeleteSubscription(b)

ManageServices ==
    \E v \in Services, has_meter \in BOOLEAN : UpdateService(v, has_meter)

ManageTariffs ==
    \E t \in Tariffs :
       \/ \E price \in Prices, state \in {"active", "ended"} :
             CreateTariff(t, price, state) \/ UpdateTariff(t, price, state)
       \/ DeleteTariff(t)

Next ==
    \/ \E s \in Sessions : Request(s) \/ Continue(s) \/ Abort(s)
    \/ ManagePeriods
    \/ ManageSubscriptions
    \/ ManageServices
    \/ ManageTariffs

Spec == Init /\ [][Next]_vars

\* A statement that the server has sent is executed.
FairSpec == Spec /\ \A s \in Sessions : WF_vars(Continue(s))

-----------------------------------------------------------------------------
(* Safety. *)

\* Referential integrity across requests: a calculation always has its period,
\* its subscription and a tariff of that subscription's own service, whatever
\* deletions raced with its generation or its manual creation.
RowsHaveParents ==
    \A k \in Keys : calcs[k] # None =>
       /\ Exists(k[2])
       /\ Live(k[1])
       /\ InTable(calcs[k].tariff)
       /\ TariffService[calcs[k].tariff] = SubService[k[1]]

\* A month is billed once: two OpenPeriod requests for the same month (a double
\* click, a retry after a lost answer) never both commit, so no subscription
\* has two calculations for one month.
MonthBilledOnce ==
    \A p, q \in PeriodIds :
       Exists(p) /\ Exists(q) /\ periods[p].start = periods[q].start => p = q

AddsUp(row) ==
    /\ \E price \in Prices : row.amount = Amount(row.quantity, price)
    /\ ~row.byHand /\ row.prev # None /\ row.curr # None
       => row.quantity = Consumed(row.prev, row.curr)

\* The columns of a calculation agree however its edits interleave, with each other,
\* with new prices and with a service that gets or loses its meter: the amount is the
\* price of ONE moment times the quantity in the same row, and with both readings the
\* quantity is what was consumed between them, unless it was typed in.
RowsAddUp == \A k \in Keys : calcs[k] # None => AddsUp(calcs[k])

\* Generation is all or nothing: when OpenPeriod commits, every subscription it
\* fetched that has been connected and priced ever since has its calculation.
GenerationComplete ==
    [][\A p \in PeriodIds, s \in Sessions :
          ~Exists(p) /\ Exists(p)' /\ gen[s].pid = p
          => \A b \in steady[s] : calcs'[<<b, p>>] # None]_vars

EarlierPeriods(b, start) ==
    {q \in PeriodIds : /\ Exists(q) /\ periods[q].start < start
                       /\ calcs[<<b, q>>] # None}

\* The note of a generated calculation is that of the subscription's calculation
\* in the nearest earlier period, also when it was cleared there, and in
\* whatever order the months are opened ("if that note was cleared, it stays
\* cleared", period_service.go).
NoteCarriedForward ==
    [][\A p \in PeriodIds, b \in Subs :
          ~Exists(p) /\ Exists(p)' /\ calcs'[<<b, p>>] # None
          => \/ /\ EarlierPeriods(b, periods'[p].start) = {}
                /\ calcs'[<<b, p>>].note = None
             \/ \E q \in EarlierPeriods(b, periods'[p].start) :
                   /\ calcs'[<<b, p>>].note = calcs[<<b, q>>].note
                   /\ \A r \in EarlierPeriods(b, periods'[p].start) :
                         periods[r].start <= periods[q].start]_vars

\* "previous reading is filled from the last period" (USER_GUIDE.md): a month that is
\* opened after all the months with readings of a meter starts from the reading of the
\* nearest of them, also when months without a reading lie in between.  A month that is
\* opened late starts from a later month's reading, as the query has no bound on the month.
ReadingCarriedForward ==
    [][\A p \in PeriodIds, b \in Subs :
          LET read == {q \in PeriodsOf(b) : calcs[<<b, q>>].curr # None}
          IN  ~Exists(p) /\ Exists(p)' /\ calcs'[<<b, p>>] # None
              /\ (\E s \in Sessions : gen[s].pid = p /\ b \in gen[s].meters)
              /\ (\A q \in read : periods[q].start < periods'[p].start)
              => calcs'[<<b, p>>].prev
                    \in IF read = {} THEN {None} ELSE {calcs[<<b, q>>].curr : q \in Latest(read)}]_vars

-----------------------------------------------------------------------------
(* Why the invariants hold: what is true of every open transaction. *)

\* The locals of a session fit the statement it is about to send.
Picked(g) ==
    /\ g.sub \in Subs
    /\ g.tariff \in Tariffs
    /\ g.price \in Prices
    /\ TariffService[g.tariff] = SubService[g.sub]

SessionFits(s) ==
    /\ pc[s] \notin GenPhases => gen[s] = NoGen
    /\ pc[s] \in GenPhases => gen[s].pid \in PeriodIds /\ gen[s].start \in MonthStarts
    /\ pc[s] \in {"note", "reading", "insert"} => Picked(gen[s])
    /\ pc[s] = "edit" => edit[s] \in Edit /\ calcs[edit[s].key] # None
    /\ pc[s] = "create" =>
          /\ draft[s] \in Draft
          /\ TariffService[draft[s].row.tariff] = SubService[draft[s].key[1]]

SessionShape == \A s \in Sessions : SessionFits(s)

\* The month and the id of an uncommitted period are its own.
Claims(s) ==
    /\ gen[s].pid < nextPeriod
    /\ periods[gen[s].pid] = None
    /\ \A p \in PeriodIds : Exists(p) => periods[p].start # gen[s].start
    /\ \A r \in Sessions \ {s} : pc[r] \in GenPhases =>
          gen[r].pid # gen[s].pid /\ gen[r].start # gen[s].start

PendingPeriods ==
    /\ \A p \in PeriodIds : p >= nextPeriod => periods[p] = None
    /\ \A s \in Sessions : pc[s] \in GenPhases => Claims(s)

\* The parents of an uncommitted row cannot be deleted.
PendingRows ==
    \A s \in Sessions, b \in Subs : gen[s].rows[b] # None =>
       /\ Live(b)
       /\ InTable(gen[s].rows[b].tariff)
       /\ TariffService[gen[s].rows[b].tariff] = SubService[b]

BillingInv ==
    /\ TypeOK
    /\ SessionShape
    /\ PendingPeriods
    /\ PendingRows
    /\ RowsHaveParents
    /\ MonthBilledOnce

\* Uncommitted rows, and rows not inserted yet, add up as well.
PendingRowsAddUp ==
    \A s \in Sessions :
       /\ \A b \in Subs : gen[s].rows[b] # None => AddsUp(gen[s].rows[b])
       /\ pc[s] = "create" => AddsUp(draft[s].row)

\* What is still billable has its row, or is waiting for it.
OnTrack(s) ==
    \A b \in steady[s] :
       /\ Billable(b, gen[s].start)
       /\ \/ gen[s].rows[b] # None
          \/ b \in gen[s].todo
          \/ pc[s] # "pick" /\ gen[s].sub = b

GenerationOnTrack ==
    \A s \in Sessions : pc[s] \in GenPhases \ {"fetch"} => OnTrack(s)

LedgerInv ==
    /\ BillingInv
    /\ RowsAddUp
    /\ PendingRowsAddUp
    /\ GenerationOnTrack

\* What a generation has copied from earlier months is what stands there, as long as
\* nobody else writes a calculation meanwhile.
CarriesLatest(s) ==
    /\ pc[s] = "fetch" => gen[s].rows = NoGen.rows
    /\ \A b \in Subs : gen[s].rows[b] # None =>
          /\ gen[s].rows[b].note = LastNote(b, gen[s].start)
          /\ b \in gen[s].meters => gen[s].rows[b].prev = LastReading(b)
    /\ pc[s] \in {"reading", "insert"} => gen[s].note = LastNote(gen[s].sub, gen[s].start)
    /\ pc[s] = "insert" /\ gen[s].sub \in gen[s].meters => gen[s].prev = LastReading(gen[s].sub)

CopiesStand == \A s \in Sessions : CarriesLatest(s)

-----------------------------------------------------------------------------
(* Liveness. *)

Closed(p) == Exists(p) /\ periods[p].status = "closed"

\* A closed period settles: once it stays closed, the calculations it holds
\* eventually change no more (only requests already admitted when it was
\* closed can still write to it, each of them once).
ClosedPeriodsSettle ==
    \A p \in PeriodIds :
       <>[]Closed(p) => <>[][\A b \in Subs : calcs[<<b, p>>] # None
                                => calcs'[<<b, p>>] = calcs[<<b, p>>]]_vars

\* No request waits for ever: every transaction commits or is rolled back.
RequestsComplete ==
    \A s \in Sessions : pc[s] # "idle" ~> pc[s] = "idle"

-----------------------------------------------------------------------------
(* What the documentation says of the program, and the code does not do. *)

\* "Closed periods are locked - calculations cannot be edited" (USER_GUIDE.md).
ClosedMeansLocked ==
    [][\A k \in Keys : Closed(k[2]) /\ calcs[k] # None => calcs'[k] = calcs[k]]_vars
=============================================================================
