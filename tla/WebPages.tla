------------------------------ MODULE WebPages ------------------------------
(***************************************************************************)
(* A browser tab that goes from page to page, the server behind it, and    *)
(* other users of the same server.                                         *)
(***************************************************************************)
EXTENDS CalculationsPage

CONSTANTS
    InitDb,       \* the tables at the start
    StartPages,   \* the pages a behaviour may begin on
    Links,        \* the links that are followed: [from, to, by]
    Others        \* the calls other users make

Pages == {"clients", "locations", "detail", "subscriptions", "services", "periods", "users",
          "calculations"}

\* A client's details are opened for a client.
ASSUME WebPagesAssumption ==
    /\ RegistryOK(InitDb) /\ Resolves(InitDb) /\ Keyed(InitDb)
    /\ StartPages \subseteq Pages
    /\ "detail" \in StartPages => Live(InitDb, "clients", 1)
    /\ \A link \in Links : /\ link.to \in Pages /\ link.by \in {"none", "client", "period"}
                           /\ link.to = "detail" => link.by = "client"
                           /\ link.by = "client" => link.from \in {"clients", "locations", "detail"}
    /\ None \notin Ids /\ None \notin Lists

-----------------------------------------------------------------------------
(* Opening a page. *)

\* useState(true) of loading.
LoadingAtFirst == {"clients", "subscriptions", "services", "periods", "users"}

\* The effects of the first render.
Mounted(page, sel) ==
    LET locations == IF sel.client = None THEN <<>> ELSE << <<ReloadLocations(sel.client)>> >>
    IN  CASE page = "clients" -> << <<LoadClients(sel)>> >>
          [] page = "locations" ->
                << <<Load({All("clients")})>> >>
                \o (IF sel.client = None THEN <<>>
                    ELSE << <<Spinning(ReloadLocations(sel.client))>> >>)
          [] page = "detail" -> <<LoadDetail(sel.client)>>
          [] page = "subscriptions" -> locations \o << <<LoadSubscriptions>> >>
          [] page = "services" -> <<LoadServices>>
          [] page = "periods" -> << <<LoadPeriods>> >>
          [] page = "users" -> << <<LoadUsers>> >>
          [] page = "calculations" ->
                << <<Load({All("periods"), All("clients")}), Spinning(Then("calculations")),
                     Then("options")>> >>
                \o (IF sel.client = None THEN <<>>
                    ELSE << <<Load({LocationsOfClient(sel.client)} \cup Unbilled(sel, Nothing))>> >>)
                \o (IF sel.period = None THEN <<>> ELSE <<SpinCalculations(sel)>>)

Opened(page, sel) ==
    [page |-> page, sel |-> sel, list |-> Blank, dlg |-> None,
     busy |-> page \in LoadingAtFirst
              \/ \E n \in DOMAIN Mounted(page, sel) : Head(Mounted(page, sel)[n]).spin]

Idle == [k \in Slots |-> NoJob]

\* What is under way goes on without its page: only its writes still matter.
Writes(j) == \E n \in DOMAIN j.steps : j.steps[n].calls # {}
Abandoned ==
    [k \in Slots |-> IF job[k] # NoJob /\ Writes(job[k]) THEN [job[k] EXCEPT !.here = FALSE]
                    ELSE NoJob]

Open(page, sel) ==
    /\ Len(Mounted(page, sel)) <= Cardinality({k \in Slots : Abandoned[k] = NoJob})
    /\ ui' = Opened(page, sel)
    /\ job' = Begun(Abandoned, Mounted(page, sel))
    /\ trouble' = trouble + IF Abandoned = Idle THEN 0 ELSE 1
    /\ trouble' <= MaxTrouble
    /\ UNCHANGED <<db, saves>>

\* The client or the period a link hands over.
Handed(link) ==
    CASE link.by = "none" -> {NoFilter}
      [] link.by = "client" ->
            {[NoFilter EXCEPT !.client = c] :
                c \in IF link.from = "clients" THEN Shown("clients") ELSE {ui.sel.client} \ {None}}
      [] link.by = "period" -> {[NoFilter EXCEPT !.period = p] : p \in Shown("periods")}

Visit ==
    \E link \in Links :
        /\ Reachable(link.from)
        /\ link.by # "none" => ~ui.busy
        /\ \E sel \in Handed(link) : Open(link.to, sel)

Init ==
    /\ db = InitDb
    /\ \E page \in StartPages :
        LET sel == [NoFilter EXCEPT !.client = IF page = "detail" THEN 1 ELSE None]
        IN  /\ ui = Opened(page, sel)
            /\ job = Begun(Idle, Mounted(page, sel))
    /\ trouble = 0
    /\ saves = 0

Network(k) == Execute(k) \/ Reply(k) \/ Deliver(k) \/ Refuse(k) \/ Fail(k)

User ==
    \/ ClientsPage \/ LocationsPage \/ DetailPage \/ SubscriptionsPage
    \/ ServicesPage \/ PeriodsPage \/ UsersPage \/ BillPage
    \/ Cancel \/ Visit

Next ==
    \/ User
    \/ \E k \in Slots : Network(k)
    \/ Elsewhere(Others)

Spec == Init /\ [][Next]_vars

\* A request is answered or it fails, and the browser then runs what waits for it; nothing
\* makes the user, or others, do anything.
FairSpec == Spec /\ \A k \in Slots : WF_vars(Network(k))

-----------------------------------------------------------------------------
(* Properties. *)

\* Every state has the shape the declarations give it: tables of typed rows, a page with its
\* filters, lists and dialog, and handlers with something left to do.  The offset of the
\* clients never gets below zero, whatever is clicked in whatever order.
TypeOK ==
    /\ RegistryOK(db)
    /\ ui.page \in Pages
    /\ ui.sel \in [client : Opt(Ids), location : Opt(Ids), period : Opt(Ids), service : Opt(Ids),
                   search : Opt(Texts), offset : Nat]
    /\ DOMAIN ui.list = Lists
    /\ ui.busy \in BOOLEAN
    /\ ui.dlg # None => ui.dlg.id \in Opt(IdsOf(IF On("calculations") THEN "calculations" ELSE "any"))
    /\ \A k \in Slots : job[k] # NoJob => job[k].steps # <<>> /\ job[k].here \in BOOLEAN
    /\ trouble \in Nat
    /\ saves \in 0..MaxSaves

\* Whatever the pages send, from lists that may be stale by then and with other users writing
\* in between, no row of the server is left referring to a row that is gone: the repositories
\* and the schema refuse every deletion that would do so.
NoOrphans == Resolves(db)

\* The requests whose answers the page promises to show, with its filters and the tables d.
Promised(d, page) ==
    LET sel == page.sel
        locations == IF sel.client = None THEN {} ELSE {LocationsOfClient(sel.client)}
    IN  CASE page.page = "clients" -> ClientQueries(sel)
          [] page.page = "locations" -> {All("clients")} \cup locations
          [] page.page = "detail" ->
                DetailQueries(sel.client)
                \cup {Query("subscriptions", "subscriptions", "client", sel.client)}
          [] page.page = "subscriptions" ->
                {All("subscriptions"), All("clients"), All("services")} \cup locations
          [] page.page = "services" ->
                {All("services"), Query("active", "tariffs", "inForce", LiveIds(d, "services")),
                 Query("tariffs", "tariffs", "history", DOMAIN page.list["tariffs"])}
          [] page.page = "periods" -> {All("periods")}
          [] page.page = "users" -> {All("users")}
          [] page.page = "calculations" ->
                {All("periods"), All("clients")} \cup locations \cup Bill(sel)

\* Without trouble, when every handler has ended, the page shows what the server would answer
\* now, after accepted and after refused writes alike: each handler reloads all that its
\* writes change, also in a second list of the page, with the filters the user has set.
RestShowsServer ==
    Calm /\ AtRest => \A q \in Promised(db, ui) : ui.list[q.list] = Answer(db, q)

\* "Loading" is never shown for good: every path through the handlers that switch it on, also
\* when one of their requests is refused or lost, or several of them overlap, switches it off.
SpinnerEnds == ui.busy ~> ~ui.busy

\* docs/USER_GUIDE.md: "Select the subscription from the dropdown (already-calculated
\* subscriptions are hidden)".  Without trouble and at rest, no subscription offered for a new
\* calculation has one in the period chosen.  Two effects of the page write the options, one
\* of them before the calculations have arrived, and the last answer stays.
OptionsAreNew ==
    Calm /\ AtRest /\ On("calculations") /\ OnPeriod =>
        \A s \in Shown("options") : ~Live(db, "calculations", <<s, ui.sel.period>>)
=============================================================================
