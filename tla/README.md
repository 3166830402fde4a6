# A formal model of billcore

billcore is a billing system for utility services: a Go server (`internal/`) over
PostgreSQL, and a Next.js front end (`web/`). This directory holds TLA+ modules that model
its logic, TLC configurations that check them on small instances, and theorems about them
that TLAPS has checked for every instance.

Contents: [inventory](#the-system) · [modules](#the-modules) ·
[the server as actions](#how-the-servers-code-becomes-actions) ·
[the pages as actions](#how-the-pages-become-actions) · [runs](#the-runs) ·
[fairness](#fairness) · [proofs](#the-proofs) ·
[what the runs found](#where-code-and-documents-disagree) ·
[not modelled](#what-is-not-modelled) · [plan](#plan)

## The system

| component | code | state | operations |
|---|---|---|---|
| periods and calculations | `service/period_service.go`, `repository/calculation_repo.go`, `repository/period_repo.go`, `handler/calculation_handler.go` | `periods` (a month, open or closed), `calculations` (one per subscription and period: tariff, readings, quantity, amount, status, note) | OpenPeriod generates a month; Close, Reopen, Delete; UpdateReading, UpdateStatus, UpdateNote; Create by hand; Delete of a calculation (always fails) |
| tariffs | `repository/service_repo.go` | `tariffs` (price, valid_from, valid_to; NULL valid_to = active) | CreateTariff (ends the active one), UpdateTariff, DeleteTariff |
| subscriptions | `repository/subscription_repo.go` | `subscriptions` (location, service, connected_at, disconnected_at) | Create, Update, Disconnect, Delete |
| service catalogue | `repository/service_repo.go` | `services` (name, unit, has_meter, which may change at any time) | Create, Update, Delete |
| clients and locations | `repository/client_repo.go` | `clients`, `locations` (at most one default per client) | Search, Create, Update, Delete; CreateLocation, UpdateLocation, DeleteLocation |
| users, sessions, audit trail | `repository/user_repo.go`, `service/auth_service.go`, `middleware/auth.go`, `000002_add_audit_triggers.up.sql` | `users`, the tokens in the browsers, `created_by`/`updated_by` of seven tables | Login, Create, Update, Block, Unblock, Delete, SetPreferredLanguage, SetPassword; every audited write |
| transactions | `db/db.go` (`WithTx`) | PostgreSQL's uncommitted rows and locks | begin, statements at READ COMMITTED, commit, rollback |
| schema | `000001_create_schema.up.sql` | UNIQUE, CHECK, RESTRICT, CASCADE and SET NULL constraints, the partial unique indexes, two views | — |
| sessions in the browser | `AuthGuard.tsx`, `Header.tsx`, `Sidebar.tsx`, `lib/auth.ts`, `lib/i18n.ts`, `app/login` | localStorage: token, user, language; in each tab: the user shown, the language, what the guard has admitted | sign in, log out, choose a language, go to a page, Back, redirects |
| client pages | `app/clients`, `app/clients/detail`, `app/locations`, `app/subscriptions` | filters, lists, spinner, dialog, page of the list | search, page, filter; create, edit, disconnect, delete |
| administration pages | `app/services`, `app/periods`, `app/users` | lists, unfolded tariff histories, spinner, dialog | create, edit, delete; open, close, reopen a period; block, unblock, password |
| calculations page | `app/calculations/page.tsx` | period, client, location in the URL; rows, options, lock, spinner, dialog | saveCreate, saveEdit, saveStatus, deletion; the effects that fetch |
| requests and dialogs | `lib/api.ts`, `_components/Modal.tsx` | requests under way, the dialog that is open | request, show, close |
| reports | `service/report_service.go`, `app/statistics` | none | balances, latest readings, statistics |
| migrations | `db/migrations.go` | the version and dirty flag of golang-migrate | Version, Force, Up |
| texts, server process, demo data | `lib/i18n.ts`, `cmd/`, `docs/` | configuration | — |

How they interact. A tab sends requests with the token of the localStorage; the middleware takes user and role
from the token and never from the database. A write request runs in one transaction of
`WithTx`, which tells the audit trigger who is writing. OpenPeriod reads subscriptions,
services, tariffs and earlier calculations and writes a period with its calculations; edits
touch calculations of open periods; tariffs, subscriptions and users are changed
independently at any time. Nothing but PostgreSQL coordinates two requests: the server
keeps no state between them, takes no explicit lock and retries nothing. The same is true of
the pages: a handler is an async function, nothing is disabled while it waits, and no answer is
dropped because a newer request is under way. A page shows what its own handlers fetch; nothing tells it
what others write.

So the hard part of this code is between the statements of the server and between the awaits of the
pages. `PROJECT.json` lists the hazards line by line; the main ones are

* a transaction of many statements, each with a snapshot of its own (OpenPeriod,
  CreateTariff, UpdateLocation, UserRepo.Delete, UserRepo.SetActive);
* a WHERE clause evaluated on a snapshot and a row written after a wait (the three updates of
  a calculation);
* a value read in one transaction and used in another (the manual creation of a calculation,
  the claims of a token);
* rows locked one after the other, in no fixed order (UpdateLocation, the deletion of a client);
* months opened in any order, months opened twice, requests that are cancelled halfway;
* dates at a boundary (tariffs that begin on consecutive days);
* answers that come in another order than the requests, saves of several requests of which one
  is refused, lists that are stale when their row is clicked;
* a guard that shows a page before it has looked, and a copy of the user in each component.

What each component owes:

* **periods and calculations**: a month is billed once; a generation is all or nothing and
  leaves out nobody who is billable throughout; the columns of a calculation agree; a
  calculation never loses its period, subscription or tariff; a closed period comes to rest;
  notes and readings come from the nearest earlier month.
* **tariffs**: one active price for each service at any time; a new price follows on the old
  one without a gap or an overlap of days.
* **users**: rights that are taken away are gone in the end; the audit trail names only users that
  exist; a history that is there when a deletion begins is not overlooked. The documents promise more: that the
  last active admin stays and that users with a history do, which the code does not keep ([below](#where-code-and-documents-disagree)).
* **locations**: a client has one default at most, which moves in one step; requests that lock the
  same rows all end.
* **catalogue, clients, subscriptions, schema**: no row refers to a row that is gone.
* **pages**: at rest a page shows what the server has; loading ends; the options of a form are
  the ones that can be saved.
* **sessions in the browser**: what is shown is served; the header names who acts; the menu leads to
  pages; redirects end; the language is the profile's.

## The modules

| module | what it is |
|---|---|
| `TariffBook` | abstract specification of the tariff table: one active price, replaced in one step |
| `Billing` | the billing core: periods, calculations, subscriptions, which services have a meter; uses the tariff table through the actions of `TariffBook` |
| `Tariffs` | ServiceRepo's tariffs statement by statement; implements `TariffBook` (`ImplementsBook`) |
| `LocationBook` | abstract specification of the table of locations: at most one default per client, moved in one step |
| `Locations` | ClientRepo's locations and the deletion of clients row by row, with locks and rings of waiting requests; implements `LocationBook` |
| `Accounts` | users, tokens, the audit trail, the preferred language |
| `Registry` | the whole server, one call at a time: eight tables, their keys and references, the checks of the repositories |
| `Browser` | a tab: handlers between their awaits, requests, answers, dialogs; EXTENDS `Registry` |
| `ClientPages`, `AdminPages`, `CalculationsPage` | the handlers of the pages, each an action over `Browser` |
| `WebPages` | opening pages and links, other users, the specification and its properties |
| `WebSession` | localStorage, guard, menu, login, language; the router's groups of roles |
| `MCBilling`, `MCTariffs`, `MCLocations`, `MCAccounts`, `MCWebPages`, `MCWebSession` | the small instances that the `.cfg` files choose from |
| `BillingProofs`, `BillingLedgerProofs`, `TariffsProofs`, `LocationsProofs`, `AccountsProofs`, `WebPagesProofs`, `RestProofs`, `WebSessionProofs` | the theorems |

Three compositions:

* *Billing over Tariffs*, by contract. Billing changes tariffs with `Book!Create`,
  `Book!Amend` and `Book!Remove`, where `Book` is TariffBook on its own variable `tariffs`,
  and adds what the references between the tables ask for. Tariffs is checked, and proved, to
  take only steps of the same TariffBook: what OpenPeriod sees of a tariff change is one step
  although CreateTariff takes five statements.
* *Pages over the server*. WebPages runs the handlers against Registry: `Execute` and `Reply` are the only
  steps that touch `db`, apart from `Elsewhere`, which is everybody else. Registry is coarser than
  Billing, Tariffs, Locations and Accounts, and has tables they do without; it promises nothing about what happens
  between two statements, and they promise nothing about pages.
  A request that one of them refuses after a wait, or that the deadlock detector ends, is a `Refuse` to a page.
* *Session over pages*. WebSession knows a page by the calls its handlers make (`Calls`), which are those of the
  page modules, and asks the groups of the router (`Allowed`) whether they are served.

## How the server's code becomes actions

**Committed rows and sessions.** In Billing, Tariffs, Locations and Accounts the table variables (`periods`, `calcs`, `subs`, `tariffs`,
`locs`, `clients`, `users`, `records`) hold the *committed* rows, because that is all another READ COMMITTED
statement can see. A request whose outcome depends on more than one statement is carried by a
session: `pc` names its next statement, and its Go locals and uncommitted rows are in a
record (`gen`, `edit`, `draft` in Billing, `req` in Tariffs and Accounts, `tx` in
Locations). One step is one
statement. A request of a single statement (ClosePeriod, Disconnect, UpdateTariff, ...) is
one action, at its commit: the row lock it holds between statement and commit can only delay
others, and a delay is an interleaving that the model has anyway. A request that is refused
changes no row; it is a stuttering step, or `Rollback` when a session was under way.

**Locks and constraints**, taken from the schema:

| PostgreSQL | in the models |
|---|---|
| UNIQUE (period_start) and an uncommitted row | `MonthTaken`: the INSERT waits; a committed month refuses it |
| foreign key check of an uncommitted row | `KeyShareSub`, `KeyShareTariff`, `KeyShareUser`, `KeepsLocation`, `KeepsClient`: the parent cannot be deleted until the end of the transaction |
| ON DELETE RESTRICT | guards of DeletePeriod, DeleteSubscription, DeleteTariff; `Children` in Registry |
| ON DELETE CASCADE of locations | `LockClient` and `TakeRow` in Locations; `Deleted` in Registry |
| ON DELETE SET NULL of created_by and updated_by | FinishDelete; it is an UPDATE, so the audit trigger fires and stamps the row with the admin who deletes |
| row lock of an uncommitted UPDATE | `RowLocked`; `mine` in Locations |
| a ring of waiting transactions | `BreakRing` in Locations |
| partial unique index idx_tariffs_one_active | `IndexLocked` (wait), `IndexAdmits` (refuse); the one of locations `Claims` and `IndexAdmits`; both `Indexed` in Registry |
| UNIQUE of the other tables | `KeyFree` in Registry |
| WHERE clause evaluated again after a wait | EndPrevious in Tariffs |
| UPDATE ... FROM periods | WriteEdit in Billing: the row is computed on the latest version of the calculation, with the period and the price of the statement's snapshot, as nothing locks the period |

**Billing.** `OpenPeriod` is the INSERT of the period, `FetchSubscriptions` the list,
`PickTariff`, `CopyNote`, `CarryReading`, `InsertGenerated` the statements for one
subscription, `CommitPeriod` the commit. Subscriptions are taken in any order: the query has
no ORDER BY. `steady` is a history variable: the subscriptions that OpenPeriod fetched and
that have been billable ever since; no guard reads it. `metered` are the services whose `has_meter` is true, which
`UpdateService` changes at any time; a generation goes by what it has fetched (`gen[s].meters`), a creation by hand by what
GetSubscriptionInfo reads. A quantity that a request sends is taken whatever the service is by then: the page sends it for a service that was
flat rate when the page was loaded, together with the readings 0 and 0. `byHand`, no column but history, marks such a row until a reading
replaces its quantity; no guard reads it either. Calculations are identified by
(subscription, period), which UNIQUE and the fact that no calculation can be deleted allow.
`UpdateReading`, `UpdateStatus`, `UpdateNote` evaluate the WHERE clause, `WriteEdit` writes.
`CreateCalculation` is GetSubscriptionInfo and the computation of the handler,
`InsertCalculation` the INSERT; neither reads the status of the period, as the code does not.

**Tariffs.** `CreateTariff` receives the request; `CheckTimeline` is the SELECT and the
comparison of dates, `FindPrevious` the snapshot of the UPDATE, `EndPrevious` its row lock and
second look, `InsertTariff` the INSERT, `CommitTariff` the commit. `today` is the date of the
server, which `Midnight` moves.

**Locations.** A transaction is a record of what it does next (`at`) and of the rows it has locked or inserted
(`mine`); what it writes to them is known from the request and appears at `Commit`. `UpdateLocation` has read the client's id;
`FindOthers` is the snapshot of the UPDATE that clears the other defaults, `TakeRow` its next row, `WriteOwn` the UPDATE
of the row itself, `EnterIndex` its entry in the partial unique index. `CreateLocation` goes through `EnterIndex` and
`CheckParent`; `DeleteLocation` has counted the subscriptions and goes through `TakeRow` and `CheckSubscriptions`, as the deletion
of a client does after `LockClient`. `Subscribe` is the INSERT of a subscription, which `TakeKey` lets in. `WaitsFor` says which
transactions a statement has to wait for, and `Runs` that there are none. The rows of a statement are met in any
order, since PostgreSQL promises none. A request that has waited goes on as soon as the row is free: the queue in which several of them would wait
for one row is not modelled, which is why `DeadlocksMoveDefaults` speaks of two requests that wait for each other.

**Accounts.** A browser has one token and at most one request in flight. `Login`/`FinishLogin`
are the read of the user and the moment the browser stores the token; `Block`/`FinishBlock`
the count and the UPDATE of SetActive; `Delete`/`CheckHistory`/`FinishDelete` the seven counts
(`NTables` here) and the DELETE; `Write`/`CommitWrite` any audited write. `standing` is a history variable: the rows
that have named the user of a deletion ever since it began; no guard reads it.

**Registry.** `db` maps each table to a function from ids to rows, `New` or `Gone`: a SERIAL id is
never used twice. A call (`Insert`, `Update`, `Delete`) is a record; `Accepted` says whether the repositories and
the schema let it through and `Apply` what it does, with everything that goes with it: the tariff that a new
one ends, the calculations that a new period brings, the default flag that other locations lose, the
locations that go with a client. A call that is not accepted leaves no trace, since it ran in
one transaction.

**Abstractions of data.** Dates are numbers, of which `MonthStarts` begin a month; Registry has no dates but
the months of the periods. Amounts
are integers: a price in 1/10000, an amount in 1/100, rounded half up by `Amount`. Go rounds
products of binary floats and SQL exact decimals; they can differ when a product falls on
half a cent, so the instances use prices and quantities that never do. Notes, readings,
tariffs and users are model values or small sets. The empty note is a note, since clearing is
a behaviour of its own. A SERIAL id is drawn by the transaction that commits or rolls back with it;
an id drawn by a refused INSERT is not used up in the model, which only makes the bound
on ids go further.

## How the pages become actions

**Handlers.** A handler runs from a click to its first await, then from answer to answer. `job[k]` holds
what is left of handler k as a sequence of steps: the writes it waits for (`calls`), the reads
it waits for (`asks`), and what its continuation does to the page (the dialog it closes, the
spinner it switches, the lists it fills). A request goes through three events, in any order
with those of other handlers: the server executes it (`Execute`, `Reply`), its answer is delivered and the
continuation runs (`Deliver`), or it fails: `Refuse` is the server's no, `Fail` a lost request or a lost answer, whose
writes may still be executed later. A handler that fails ends in its catch and finally (`Caught`).

**Clicks.** Each action of a page module is a handler up to its first await, under the conditions for
which its button is rendered: `Reachable` (no dialog covers the page), `InTable` (and it is not loading), `InDialog`. A closure
keeps the values it was created with, so the requests are fixed when the steps are written down,
with the row the dialog was opened for; `Asked` are the requests worked out from an earlier answer. Effects that depend on a
filter are begun by the click that changes it, and effects that depend on an answer are later steps
of the job that receives it.

**Leaving a page.** `Visit` opens another page with a fresh state (`Opened`, `Mounted`). What is under way goes on: `Abandoned` keeps
the handlers that write and forgets the reads, whose answers nobody looks at.

**Trouble.** `trouble` counts clicks while something is under way, lost requests, saves that the server refuses halfway, and the writes of other
users; it bounds concurrency and nothing else reads it but `Calm`, which says that there has been none. `RestShowsServer` is stated for calm behaviours:
two fetches at once, or a lost request, may leave an old answer on the page, and so does a new service whose first tariff is
refused because its date was left empty (`services/page.tsx:94`): the service is created, its page does not fetch it, and saving again meets
UNIQUE (name). TLC finds that state as soon as such a refusal is not counted; no document promises otherwise. What holds in spite of
trouble is stated without it (`NoOrphans`, `SpinnerEnds`, `TypeOK`).

**The session.** `store` is the localStorage; `Hydrate`, `Effects` and `Go` are what React and the router do
without being asked: mounting below the language provider, the effects after a render with a new
path, and a redirect that is carried out later. `tab.ready` is the state of AuthGuard, which is never reset as long as the
document lives; `tab.admitted` is a history variable, the token with which the guard let the path through, read
by properties only. `OtherTab` signs in and out behind the tab's back. `ChangeRole` is an administrator's edit, which also
writes the default language, as the page sends none (`user_repo.go:113`).

**Abstractions.** The reads of one Promise.all are answered at one moment, and so are awaited reads with no
effect between them. A form is filled in at the moment it is submitted. Dialogs are left by their buttons. Lists are ordered
by id. The user waits for redirects. Success and error messages are left out, and with them the
difference between a refusal and a loss as the user reads it. The filter of clients by status is
left out: it is a second search text.

## The runs

Passing runs: TLC explores every reachable state of the instance.

| run | instance | states | what it shows |
|---|---|---|---|
| `billing_generation` | 1 generation at a time, 2 subscriptions (metered, and flat rate, which may come later), 3 tariffs, 2 months, 4 dates, 2 period ids | 913,132 | TypeOK; `RowsHaveParents`, `GenerationComplete` while subscriptions and tariffs come, end, are deleted and replaced between the statements |
| `billing_requests` | 2 sessions, 1 metered subscription, the same month twice, close, reopen, readings, statuses, 2 prices, creation by hand with and without a quantity, cancellation | 348,540 | `MonthBilledOnce`, `RowsAddUp`, and the liveness properties `RequestsComplete` and `ClosedPeriodsSettle` |
| `billing_notes` | 1 subscription whose service gets and loses its meter, 3 months opened in any order, 2 readings entered or left out, 2 notes | 3,205,454 | `NoteCarriedForward`, `ReadingCarriedForward`, and `RowsAddUp` over rows generated with and without a meter |
| `tariffs_table` | 2 creations at once, edits, deletions, cancellation, 3 tariffs, 4 days | 357,760 | TypeOK, `OneActive`, `NewPriceFollowsOn`, `PriceNeverLapses`, and the refinement `ImplementsBook` |
| `locations_table` | 2 requests at once, 2 clients, 4 locations (3 of them asked about, 1 of them to be created), a subscription | 198,164 | TypeOK, `OneDefault`, `LocationsKept`, `DeadlocksMoveDefaults`, the refinement `ImplementsBook`, and the liveness property `RequestsEnd` |
| `accounts_rights` | 2 admins, one of them still to be created, 2 browsers, 2 tables with a row each: every request, statement by statement, with cancellation | 1,092,964 | TypeOK, `AuthorsExist`, `StandingHistoryKept`, `RevocationTakesHold` (liveness) |
| `web_pages` | all pages, 2 handlers at once, 1 save, 2 troubles, 3 ids of each table, lists of clients of 1 row | 651,168 | TypeOK, `NoOrphans`, `RestShowsServer`, and the liveness property `SpinnerEnds` |
| `web_session` | 1 user with changing roles, 2 tokens, 1 step back, other tabs | 810,642 | TypeOK, `AdmittedPagesServed`, `ShownUserCalls`, `MenuIsAdmitted`, and the liveness property `RedirectsSettle` |

Four more runs, `billing_close`, `accounts_last_admin`, `web_options` and `web_language`, violate what a document says: see [below](#where-code-and-documents-disagree).

The bounds. Two sessions are enough for every conflict in this code: a session waits for, or
overtakes, one other transaction at a time, and the constraints at stake (UNIQUE, the
partial index, a row lock) concern pairs of rows. Two months show order, three show "the
nearest earlier" as against "the earliest" or "the latest". Two subscriptions let one of
them be picked before and one after a change of the catalogue. In `billing_requests` there is one month and
two period ids, so that the month can be asked for twice at once and opened again after a cancellation. One reading is enough there, since a request may leave it out or
send it as the previous one, and two prices, since a row must not mix those of two moments. That the columns agree whatever the meter of the service was when
a row came into being is checked by `billing_notes`, where it comes and goes; for both at once, it is the theorem `RowsAlwaysAddUp`. In `locations_table` one client has the three locations that requests are about, of which two are there from the
start, so that two moves of the default can lock them in opposite orders; the default of the other client must stay where
it is. A ring of two requests is what two sessions can make. In `billing_notes` there is one subscription, since neither a note nor a reading is taken from
another one; two readings and two notes, so that the wrong month's can be told from the right one's; and one session, the hypothesis that `NotesCarried` and `ReadingsCarried` make explicit. In `tariffs_table` four days leave room for a tariff that is replaced, for one that begins a
day too early, and for edits on either side of it; with a fifth day the run takes more than five minutes and
shows nothing new. `accounts_rights` needs two tables, since a write has to commit to a table
Delete has been through and a row of a later table has to be stamped anew; and two browsers, so that the deletion of one meets the
writes, the blocks and the deletions of the other. It begins with one admin, as the schema does.

In `web_pages` three ids leave, beside the two rows a table begins with, one to be created; the two locations are one
whose subscription is billed and one whose subscription is not, so that deletions of both outcomes and a saved
calculation happen. A behaviour has one handler that writes, begun on any page and from any dialog, and two
troubles: enough for a list that is stale because of somebody else and a request that is lost on top, or for two reads that
overtake each other after a click. With a second save the run takes far more than five minutes; handlers that write do not share
state but the page, which the two reads of one page do as well. `web_session` has one user whose role changes and two tokens,
so that one document sees two sessions with different rights; two users differ in nothing the model reads but
their roles. Its language is a constant of the instance: `web_language` varies it. The theorems below lift the refinements, the action properties and all invariants of these runs to all values of these
constants, `RestShowsServer` for every page but that of the services.

Each property has a mutant in `PROJECT.json`: a plausible slip in the code, defined next to the
operator it would change and marked `Mutant`, with which TLC finds the property violated.
Some are worth knowing: `KeyShareSub` and `KeyShareUser` replaced by FALSE show that referential
integrity hangs on the lock that the foreign key check takes, not on anything in the Go code.
`RowLocked` replaced by FALSE shows the same of the tariff table and the row lock of an UPDATE.
`LastReadingEntered` takes the last reading that was entered in place of the last month's, and
`AcceptedDeleteOnly` forgets the references that hold a client's locations.

Deadlock is checked wherever the system does not come to rest by itself. `CHECK_DEADLOCK FALSE`
is given, with its reason in the `.cfg`, where all ids of the instance have been used up, where all
locations are gone, in a run of Accounts in which all admins can be gone, and for pages, which stay as they are while nobody clicks.

`NoteCarriedForward` and `ReadingCarriedForward` hold when nobody writes a calculation while a month is generated: a note
that is written then comes too late for it, and TLC finds that with two sessions. No document says what should happen. `NotesCarried` and `ReadingsCarried` prove
that this is the only way to miss one.

## Fairness

`Billing!FairSpec` asks WF of `Continue(s)`: a statement that has been sent and is not waiting for
a lock is executed. That is PostgreSQL's progress, and no session waits for a cycle of locks in
Billing, as the run shows. Nothing is assumed of people: requests may never come, and `Abort` is never
required. `Accounts!FairSpec` asks WF of `Continue(c)`, for the same reason, and of `Expire(c)`: a token has
an expiry of 24 hours (`auth_service.go`), and time passes.

`Locations!FairSpec` asks SF of `Continue(s)`, as one request after the other may take a row for which another one
waits, and PostgreSQL gives it to the one that has waited; and WF of `BreakRing(s)`, the deadlock detector, which looks
after `deadlock_timeout`. Without the second, `RequestsEnd` fails at once.

`WebPages!FairSpec` asks WF of `Network(k)`, for each handler under way: its request is answered, or refused, or
lost, and the browser runs the continuation. Clicks and other users are not fair.
`WebSession!FairSpec` asks WF of `Hydrate \/ Effects \/ Go`: the browser renders, runs effects and carries out
redirects by itself. Liveness stays with TLC; TLAPS does not prove it.

## The proofs

All for arbitrary constants that satisfy the named assumptions: any number of sessions,
subscriptions, tariffs, months, users, tables, rows, handlers and tokens.

| theorem | module | statement |
|---|---|---|
| `TypeCorrect` | BillingProofs | `Spec => []TypeOK` |
| `ParentsExist` | BillingProofs | `Spec => []RowsHaveParents` |
| `OnePeriodPerMonth` | BillingProofs | `Spec => []MonthBilledOnce` |
| `RowsAlwaysAddUp` | BillingLedgerProofs | `Spec => []RowsAddUp` |
| `GenerationIsComplete` | BillingLedgerProofs | `Spec => GenerationComplete` |
| `NotesCarried`, `ReadingsCarried` | BillingLedgerProofs | `Spec /\ [][GenerationUndisturbed]_vars` implies `NoteCarriedForward` and `ReadingCarriedForward` |
| `SequentialMonths` | BillingLedgerProofs | with one session `Spec` implies both |
| `TariffTypes` | TariffsProofs | `Spec => []TypeOK` |
| `OnePrice` | TariffsProofs | `Spec => []OneActive` |
| `TableImplementsBook` | TariffsProofs | `Spec => ImplementsBook`: a refinement |
| `PricesFollowOn` | TariffsProofs | `Spec => NewPriceFollowsOn` |
| `NoLapse` | TariffsProofs | `Spec => PriceNeverLapses` |
| `LocationTypes` | LocationsProofs | `Spec => []TypeOK` |
| `OneDefaultEver` | LocationsProofs | `Spec => []OneDefault` |
| `ReferencesStay` | LocationsProofs | `Spec => []LocationsKept` |
| `DeadlocksOnlyOfMoves` | LocationsProofs | `Spec => []DeadlocksMoveDefaults` |
| `TableImplementsLocationBook` | LocationsProofs | `Spec => ImplementsBook`: a refinement |
| `AccountTypes` | AccountsProofs | `Spec => []TypeOK` |
| `AuditNamesUsers` | AccountsProofs | `Spec => []AuthorsExist` |
| `DeletionSeesStanding` | AccountsProofs | `Spec => StandingHistoryKept` |
| `TablesStayOK` | WebPagesProofs | `Spec => []TablesOK`: types and references of the tables |
| `NoOrphansEver` | WebPagesProofs | `Spec => []NoOrphans` |
| `PageTypes` | WebPagesProofs | `Spec => []TypeOK` |
| `PagesShowServer` | RestProofs | `Spec => [](On("services") \/ RestShowsServer)` |
| `SessionTypeOK` | WebSessionProofs | `Spec => []TypeOK` |
| `PagesAreServed` | WebSessionProofs | `Spec => []AdmittedPagesServed` |
| `HeaderNamesCaller` | WebSessionProofs | `Spec => []ShownUserCalls` |
| `MenuLeadsSomewhere` | WebSessionProofs | `Spec => []MenuIsAdmitted` |

Assumptions: `ConstantsAssumption`, `NullAssumption` and `CatalogueAssumption` (Billing),
`TariffsAssumption` and `InitialTariffsAssumption` (Tariffs), `LocationsAssumption`, `AccountsAssumption`,
`RequestAssumption` and `InitialUsersAssumption` (Accounts), `RegistryAssumption`, `BrowserAssumption`, `WebPagesAssumption`,
`WebSessionAssumption`: the constants have their types, NULL is none of the
values, and the rows in place at the start satisfy the constraints of the schema. There are finitely many ids, and at least one handler
can be under way; a calculation is stored under its subscription and its period (`Keyed`); a link that hands over a client is on a
page that knows one. TLC evaluates them in every run.

One hypothesis is more than that. `GenerationUndisturbed` is a condition on single steps: while a month is generated, nobody else writes a
calculation. With one session it always holds, which the corollary proves from `Spec` alone; with more, TLC refutes
`NoteCarriedForward` and `ReadingCarriedForward` without it. Nothing of the kind is assumed of the accounts: `DeletionSeesStanding` holds for any
number of browsers and any interleaving.

The arguments.

* *BillingInv*. `RowsHaveParents` is not inductive: CommitPeriod publishes rows that were checked
  when they were inserted, many steps earlier. What has to be added is that the parents of an
  uncommitted row cannot go (`PendingRows`, from the KEY SHARE locks), that the locals of a
  session fit the statement it will send next (`SessionShape`), and, for `MonthBilledOnce`, that the
  month and the id of an uncommitted period are nobody else's (`PendingPeriods`, from
  UNIQUE and the SERIAL).
* *LedgerInv* adds that rows which are not committed, or only computed, add up as well
  (`PendingRowsAddUp`), whatever meter their service has by now, since `AddsUp` asks the row alone (`byHand`); and that what is still billable has its row, is being
  worked on, or is still to come (`GenerationOnTrack`). At the commit nothing is to come any
  more, hence `GenerationComplete`: `BornByCommit` shows that a period appears in no other step.
* *CopiesStand*. For the notes and the readings: what a generation has copied or inserted is still what its subscription had
  last (`CarriesLatest`), for the meters of the moment of its fetch. Opening, closing and deleting periods, and every change of the catalogue, keep it; that nobody deletes the
  earlier period is the RESTRICT of `calculations`. The latest earlier month exists because months are naturals below
  the one that is opened (`LatestExists`).
* *TableInv*. Two active tariffs could only come from two transactions at once. A session
  that has ended a row holds its lock and knows it to be the active one (`Ending`); a session
  that has inserted an active row found no other one outside what it ended (`CreateFits`), and no
  two sessions hold the index for one service (`Apart`). With it each commit is `Book!Create`, each edit
  `Book!Amend`, each deletion `Book!Remove`, and every other step leaves the table as it was.
  `NewPriceFollowsOn` follows from the dates in `Ending`: the row that was ended covers exactly the days
  before the new one begins, and if nothing was ended the history was empty (`NoPriceNoHistory`).
* *LocInv*. What a commit makes true was looked at many steps before. `Fits` says what a transaction knows at each of its
  statements: a new row has its client, an entry of the index has no rival outside what the
  transaction holds, a deletion of a client has every location of it in hand or still to come. `Apart` says what two
  transactions cannot have at once: a row, an entry of the index for one client, a client that one deletes and the other
  inserts into, a location that one deletes and the other subscribes to. A statement only has to show that it waits for
  whoever `Apart` speaks of (`OwnStepKeeps`). Each commit is then one step of `Book`; and of the requests that can
  wait while they hold something, `WhoBlocks` leaves the moves of a default and the deletion of a client.
* *AuditInv*. A stamp is written at the commit of a write whose author was checked at its
  statement: the author of an uncommitted write cannot be deleted meanwhile (`WritersLive`, from the KEY
  SHARE lock on users).
* *DeletionInv* adds `StandingAhead`: a row that has named the user of a deletion all along belongs to a table that is still to be
  counted. Counting its table finds it and ends the request; every other step either leaves the stamp or takes the row out of `standing`. When the
  DELETE comes no table is left, hence no such row. That SET NULL of one deletion changes stamps while another one counts is the step to look at
  (`StandingChange`).
* *TablesOK*. References are inductive once the tables have their types. There is one
  lemma for each kind of call: an insert stores a row whose parents `AcceptedInsert` has looked up, or
  a month of calculations whose parents `Billable` has; an update writes no column that refers to anything, and what it
  takes from other rows refers to nothing either (`SameReferencesResolve`); a delete is accepted only
  for a row without `Children`, or for a client whose locations have none. That a click changes no table
  (`UserSendsLater`) leaves `Execute` and `Elsewhere`, which apply accepted calls.
* *PageInv* gives every list the shape of its answers, every step of a handler the shape of a request, and the offset of the clients
  a stronger one than its type: it is a multiple of the page size, so that going back from a page that is not the first never gets below
  zero. That the calculations page finds a latest period to preselect is an induction over the finite set of periods' months.
* *RestInv*. `RestShowsServer` speaks of a page at rest, which nothing but the whole program of each handler brings about. What is inductive is that
  every list a page promises is either what the server would answer now (`Fresh`) or will be filled by a step of a handler under way
  (`Coming`). It needs to be known of the handlers (`StepFits`) that each read is one the page still promises, with the filters
  of now and not of the click; of a save (`SendFits`) that every list its tables can change is fetched by a later step of the same
  handler (`Ahead`), the others being of tables that the call leaves alone; and that a save which is refused was the only request of its step, so that nothing has
  changed, or could not be refused at all (`Sure`: the up to three updates of one calculation in an open period, which is
  why `Keyed` is needed). Each page adds what its effects rely on (`PageFits`): the client whose details are shown exists, the list of clients has one
  handler at a time, an edited calculation belongs to an open period. The services page is left out of `RestInv`: its answers are merged into
  two lists, and a new service with its tariff is a save of two steps.
* *SessionInv*. The three claims about an admitted page need to know what the guard saw then: the
  token in `tab.admitted` names a role that may be on the page, once the effects have run (`Admission`), and the localStorage
  never has a token without the user it was issued to (`StoreMatches`). A logout that left the user behind would break the second;
  a header that reads the user once would break the first.

Only model-checked: the liveness properties and ENABLED (beyond the prover), and `RestShowsServer` on the services page. No
RECURSIVE operator is used and no induction over data is needed.

## Where code and documents disagree

Each is a run in which TLC violates a property that quotes the document, and a finding in
`PROJECT.json`.

| run | the document says | the code does |
|---|---|---|
| `billing_close` (`ClosedMeansLocked`) | closed periods are locked (USER_GUIDE.md:217) | an edit admitted before the Close is written after it; it ends there (`ClosedPeriodsSettle`) |
| `accounts_last_admin` (`LastAdminNotBlocked`) | the last active admin cannot be blocked (USER_GUIDE.md:319) | SetActive counts the other active admins and updates in a second statement, without a lock on what it counted: two admins who block each other both pass |
| `web_options` (`OptionsAreNew`) | subscriptions that are already calculated are hidden (USER_GUIDE.md:264) | the effect that works out the options runs twice when the page is opened for a client, the first time without the calculations; nothing drops the older chain of fetches if it ends last |
| `web_language` (`ProfileLanguageApplied`) | the language of the profile is applied after login (README.md:67) | neither the answer of the login nor the page has it; the tab goes on with its own |

Others were met while modelling. The models have each of them, and no run is spent on it: most show in a single line of code.

* A calculation can be created by hand in a closed period, against the comment at `calculation_handler.go:26`.
* The previous reading comes from the latest month that has one, not from the previous period
  (USER_GUIDE.md:211): a month opened late starts from a later month's reading (`period_service.go:136`).
* A user with a history can be deleted, against USER_GUIDE.md:327: the seven counts and the DELETE are statements of their own
  (`user_repo.go:194`), so a row written after its table was counted goes unnoticed, and SET NULL takes its author away. What the counts do ensure is
  `StandingHistoryKept`.
* A new service whose first tariff is refused stays, without a tariff and unseen by the page, which says that saving failed
  (`services/page.tsx:94`).
* UserRepo.Update writes the default language over the user's choice, as the page sends none (`user_repo.go:118`).
* CreateTariff accepts a valid_from on the day after the active tariff began and then fails on
  CHECK (valid_to > valid_from) (`service_repo.go:136`).
* A tariff of a later day becomes the one with valid_to NULL at once, which `domain/service.go:19` calls "currently active",
  and OpenPeriod bills at it.
* The status of a calculation cannot be changed once its period is closed (`calculation_repo.go:257`), which USER_GUIDE.md:258
  describes and the page offers.
* With a location chosen, the options for a new calculation leave out only what that location shows (`calculations/page.tsx:118`).
* The help texts of the deletions promise more than RESTRICT allows (`i18n.ts:114`, `i18n.ts:149`).

## What is not modelled

* Reports and the statistics page: read-only queries whose results no handler uses. No document says more of
  them than what the SQL does.
* Migrations: what golang-migrate does between Version, Force and Up, and which locks it takes, is not in this
  repository.
* Three or more requests in one ring over locations: the queue for a row, as said above.
* Passwords, names other than keys, e-mail addresses, meter numbers, dates in forms, prices on pages: data that no
  property tells apart.
* PeriodRepo.Create, which nothing calls, and CalculationRepo.Delete, which always fails:
  it counts the rows of `billcore.payments`, and no migration creates that table. The pages send it and are refused.
* Escape and a click beside a dialog: Bootstrap hides it without telling React.
* Wording, layout, translations, logging, configuration, static files, the connection pool.
* Binary floating point, and the limits of NUMERIC(12,2).
* Requests that no page sends, such as an admin who blocks or deletes himself.

## Plan

Done: TariffBook, Billing, Tariffs, LocationBook, Locations, Accounts; Registry with the pages on it; WebSession; their runs and theorems. What is
left, in order of worth:

1. `RestShowsServer` on the services page: `RestInv` with answers that are merged into a list, with saves of two steps,
   and with the service a dialog was opened for.
2. `Migrations`, once the locks of the library are known.

The list of runs stays short: a run that shows a disagreement gives way to a passing run of more weight.
