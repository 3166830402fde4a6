---------------------------- MODULE ClientPages -----------------------------
(***************************************************************************)
(* The pages about clients: the list of clients, a client's details, the   *)
(* locations and the subscriptions.  Each handler is an action.            *)
(***************************************************************************)
EXTENDS Browser

\* The row of a list that a button of its row belongs to.
Shown(list) == DOMAIN ui.list[list]
Held(list, i) == ui.list[list][i]

-----------------------------------------------------------------------------
(* Clients: search and paging. *)

ClientQueries(sel) ==
    {Query("clients", "clients", "search", sel), Query("matching", "clients", "matching", sel)}
LoadClients(sel) == Spinning(Load(ClientQueries(sel)))

\* useCallback and useEffect: the page loads whenever an applied filter changes.
Refilter(sel) ==
    /\ sel # ui.sel
    /\ Click([ui EXCEPT !.sel = sel], << <<LoadClients(sel)>> >>)

ApplySearch ==
    /\ Reachable("clients")
    /\ \E text \in Opt(Texts) : Refilter([ui.sel EXCEPT !.search = text, !.offset = 0])

Total == Cardinality(Shown("matching"))
\* Mutant: the button is not disabled on the first page.
PreviousPageAlways ==
    /\ InTable("clients")
    /\ Total > PageSize
    /\ Refilter([ui.sel EXCEPT !.offset = @ - PageSize])
PreviousPage ==
    /\ InTable("clients")
    /\ Total > PageSize /\ ui.sel.offset > 0
    /\ Refilter([ui.sel EXCEPT !.offset = @ - PageSize])
NextPage ==
    /\ InTable("clients")
    /\ Total > PageSize /\ ui.sel.offset + Cardinality(Shown("clients")) < Total
    /\ Refilter([ui.sel EXCEPT !.offset = @ + PageSize])

\* New clients and old ones share a dialog.
OpenCreateClient == Reachable("clients") /\ Show(Dialog("client", None, None))
OpenEditClient ==
    InTable("clients") /\ \E i \in Shown("clients") : Show(Dialog("client", i, None))
OpenDeleteClient ==
    InTable("clients") /\ \E i \in Shown("clients") : Show(Dialog("delete", i, None))

\* The account number can be typed into a new client only, the status of a client only later.
ClientForm(isEdit) ==
    IF isEdit THEN [full_name : Texts, is_active : BOOLEAN]
    ELSE [account_number : Texts, full_name : Texts, is_active : {TRUE}]

\* save, in its two forms.
CreateClient ==
    /\ InDialog("clients", "client") /\ ui.dlg.id = None
    /\ \E form \in ClientForm(FALSE) :
        Submit(<<Send({Insert("clients", form)}, "client"), LoadClients(ui.sel)>>)
SaveClient ==
    /\ InDialog("clients", "client") /\ ui.dlg.id # None
    /\ \E form \in ClientForm(TRUE) :
        Submit(<<Send({Update("clients", ui.dlg.id, form)}, "client"), LoadClients(ui.sel)>>)
DeleteClient ==
    /\ InDialog("clients", "delete")
    /\ Submit(<<Send({Delete("clients", ui.dlg.id)}, "delete"), LoadClients(ui.sel)>>)

ClientsPage ==
    \/ ApplySearch \/ PreviousPage \/ NextPage
    \/ OpenCreateClient \/ OpenEditClient \/ OpenDeleteClient
    \/ CreateClient \/ SaveClient \/ DeleteClient

-----------------------------------------------------------------------------
(* Locations of the client chosen in the filter. *)

ReloadLocations(c) == Load({LocationsOfClient(c)})

\* setClient and the effect on clientId: no client, no rows.
ChooseClient ==
    /\ Reachable("locations")
    /\ \E c \in Shown("clients") \cup {None} :
        /\ c # ui.sel.client
        /\ LET page == [ui EXCEPT !.sel.client = c]
           IN  IF c = None
               THEN Click([page EXCEPT !.list["locations"] = Nothing], <<>>)
               ELSE Click(page, << <<Spinning(ReloadLocations(c))>> >>)

OnClient == ui.sel.client # None
\* The header's button and the link of the empty table.
OpenCreateLocation ==
    /\ Reachable("locations") /\ OnClient
    /\ Show(Dialog("create", None, None))
OpenEditLocation ==
    /\ InTable("locations") /\ OnClient
    /\ \E i \in Shown("locations") : Show(Dialog("edit", i, None))
OpenDeleteLocation ==
    /\ InTable("locations") /\ OnClient
    /\ \E i \in Shown("locations") : Show(Dialog("delete", i, None))

LocationForm == [name : Texts, is_default : BOOLEAN]
NewLocation(form) == Insert("locations", form @@ [client |-> ui.sel.client])

CreateLocation ==
    /\ InDialog("locations", "create") /\ OnClient
    /\ \E form \in LocationForm :
        Submit(<<Send({NewLocation(form)}, "create"), ReloadLocations(ui.sel.client)>>)
SaveLocation ==
    /\ InDialog("locations", "edit")
    /\ \E form \in LocationForm :
        Submit(<<Send({Update("locations", ui.dlg.id, form)}, "edit"),
                 ReloadLocations(ui.sel.client)>>)
DeleteLocation ==
    /\ InDialog("locations", "delete")
    /\ Submit(<<Send({Delete("locations", ui.dlg.id)}, "delete"),
                ReloadLocations(ui.sel.client)>>)

LocationsPage ==
    \/ ChooseClient \/ OpenCreateLocation \/ OpenEditLocation \/ OpenDeleteLocation
    \/ CreateLocation \/ SaveLocation \/ DeleteLocation

-----------------------------------------------------------------------------
(* A client's details.  The balance, the pending rows and the history are  *)
(* three views of the client's calculations.                               *)

DetailQueries(c) ==
    {Query("clients", "clients", "one", c), LocationsOfClient(c), All("services"),
     Query("calculations", "calculations", "client", c)}
LoadDetail(c) == <<Load(DetailQueries(c)), Then("subscriptions")>>

\* Until the first load has come back the page shows nothing to click.
Detailed == Reachable("detail") /\ Shown("clients") # {}

OpenAddLocation == Detailed /\ Show(Dialog("location", None, None))
OpenChangeLocation ==
    Detailed /\ \E i \in Shown("locations") : Show(Dialog("location", i, None))
OpenSubscribe ==
    Detailed /\ \E l \in Shown("locations") : Show(Dialog("subscribe", l, None))
\* The table of subscriptions is only there when the client has locations.
OpenDisconnectHere ==
    /\ Detailed /\ Shown("locations") # {}
    /\ \E s \in Shown("subscriptions") :
        Held("subscriptions", s).connected /\ Show(Dialog("disconnect", s, None))
OpenUnsubscribe ==
    /\ Detailed /\ Shown("locations") # {}
    /\ \E s \in Shown("subscriptions") : Show(Dialog("delete", s, None))

\* The services offered are the ones last fetched.
Subscription(l, s, note) == [location |-> l, service |-> s, note |-> note, connected |-> TRUE]
SubscriptionForm(locations) ==
    {Subscription(l, s, note) : l \in locations, s \in Shown("services"), note \in Opt(Notes)}

\* saveLocation: an edit when a location is being edited, else a new one of this client.
SaveDetailLocation ==
    /\ InDialog("detail", "location")
    /\ \E form \in LocationForm :
        LET call == IF ui.dlg.id # None THEN Update("locations", ui.dlg.id, form)
                    ELSE NewLocation(form)
        IN  Submit(<<Send({call}, "location")>> \o LoadDetail(ui.sel.client))
Subscribe ==
    /\ InDialog("detail", "subscribe")
    /\ \E form \in SubscriptionForm({ui.dlg.id}) :
        Submit(<<Send({Insert("subscriptions", form)}, "subscribe")>> \o LoadDetail(ui.sel.client))
DisconnectHere ==
    /\ InDialog("detail", "disconnect")
    /\ Submit(<<Send({Update("subscriptions", ui.dlg.id, [connected |-> FALSE])}, "disconnect")>>
              \o LoadDetail(ui.sel.client))
Unsubscribe ==
    /\ InDialog("detail", "delete")
    /\ Submit(<<Send({Delete("subscriptions", ui.dlg.id)}, "delete")>> \o LoadDetail(ui.sel.client))

DetailPage ==
    \/ OpenAddLocation \/ OpenChangeLocation \/ OpenSubscribe \/ OpenDisconnectHere
    \/ OpenUnsubscribe \/ SaveDetailLocation \/ Subscribe \/ DisconnectHere \/ Unsubscribe

-----------------------------------------------------------------------------
(* Subscriptions of everybody, filtered in the browser. *)

LoadSubscriptions == Finally(Load({All("subscriptions"), All("clients"), All("services")}))

\* The effect on filterClient, and the one that resets the location with it.
FilterBy(c, page) ==
    /\ c # ui.sel.client
    /\ LET filtered == [page EXCEPT !.sel.client = c, !.sel.location = None]
       IN  IF c = None
           THEN Click([filtered EXCEPT !.list["locations"] = Nothing], <<>>)
           ELSE Click(filtered, << <<ReloadLocations(c)>> >>)
FilterClient ==
    /\ Reachable("subscriptions")
    /\ \E c \in Shown("clients") \cup {None} : FilterBy(c, ui)
FilterLocation ==
    /\ Reachable("subscriptions") /\ OnClient /\ Shown("locations") # {}
    /\ \E l \in Shown("locations") \cup {None} :
        /\ l # ui.sel.location
        /\ Click([ui EXCEPT !.sel.location = l], <<>>)
\* The client in the create dialog is the filter of the page.
ChooseClientInForm ==
    /\ InDialog("subscriptions", "create")
    /\ \E c \in Shown("clients") \cup {None} : FilterBy(c, ui)

\* The rows of the table.
Filtered ==
    {s \in Shown("subscriptions") :
        /\ OnClient => Held("subscriptions", s).location \in Shown("locations")
        /\ ui.sel.location \in {None, Held("subscriptions", s).location}}

OpenCreateSubscription == Reachable("subscriptions") /\ Show(Dialog("create", None, None))
OpenEditSubscription ==
    InTable("subscriptions") /\ \E s \in Filtered : Show(Dialog("edit", s, None))
OpenDisconnect ==
    /\ InTable("subscriptions")
    /\ \E s \in Filtered : Held("subscriptions", s).connected /\ Show(Dialog("disconnect", s, None))
OpenDeleteSubscription ==
    InTable("subscriptions") /\ \E s \in Filtered : Show(Dialog("delete", s, None))

\* The locations offered are the ones last fetched.
CreateSubscription ==
    /\ InDialog("subscriptions", "create")
    /\ \E form \in SubscriptionForm(Shown("locations")) :
        Submit(<<Send({Insert("subscriptions", form)}, "create"), LoadSubscriptions>>)
SaveSubscription ==
    /\ InDialog("subscriptions", "edit")
    /\ \E form \in [note : Opt(Notes)] :
        Submit(<<Send({Update("subscriptions", ui.dlg.id, form)}, "edit"), LoadSubscriptions>>)
Disconnect ==
    /\ InDialog("subscriptions", "disconnect")
    /\ Submit(<<Send({Update("subscriptions", ui.dlg.id, [connected |-> FALSE])}, "disconnect"),
                LoadSubscriptions>>)
DeleteSubscription ==
    /\ InDialog("subscriptions", "delete")
    /\ Submit(<<Send({Delete("subscriptions", ui.dlg.id)}, "delete"), LoadSubscriptions>>)

SubscriptionsPage ==
    \/ FilterClient \/ FilterLocation \/ ChooseClientInForm
    \/ OpenCreateSubscription \/ OpenEditSubscription \/ OpenDisconnect \/ OpenDeleteSubscription
    \/ CreateSubscription \/ SaveSubscription \/ Disconnect \/ DeleteSubscription
=============================================================================
