----------------------------- MODULE AdminPages -----------------------------
(***************************************************************************)
(* The pages for managers and administrators: services with their tariffs, *)
(* periods, and users.  Each handler is an action.                         *)
(***************************************************************************)
EXTENDS ClientPages

CONSTANT Me   \* the user who is logged in

-----------------------------------------------------------------------------
(* Services and tariffs. *)

\* load: the services, then the tariff in force of each.
\* Mutant: the spinner is left on when the list of services does not come.
LoadServicesUnguarded == <<Load({All("services")}), Finally(Then("active"))>>
LoadServices == <<IfFailed(Load({All("services")})), Finally(Then("active"))>>

Tariffs(list, by, s) == [Query(list, "tariffs", by, {s}) EXCEPT !.merge = TRUE]
LoadHistory(s) == Load({Tariffs("tariffs", "history", s)})
\* Mutant: the tariff in force, shown in the row of the service, is not fetched again.
RefreshHistory(s) == Load({Tariffs("tariffs", "history", s)})
\* refreshTariffs: one answer is put into both lists.
RefreshTariffs(s) == Load({Tariffs("tariffs", "history", s), Tariffs("active", "inForce", s)})

\* The history of a service is fetched the first time it is unfolded.
ToggleExpand ==
    /\ InTable("services")
    /\ \E s \in Shown("services") :
        LET page == [ui EXCEPT !.sel.service = IF @ = s THEN None ELSE s]
        IN  Click(page, IF page.sel.service = None \/ s \in Shown("tariffs") THEN <<>>
                        ELSE << <<LoadHistory(s)>> >>)

\* New services and old ones share a dialog.
OpenCreateService == Reachable("services") /\ Show(Dialog("service", None, None))
OpenEditService ==
    InTable("services") /\ \E s \in Shown("services") : Show(Dialog("service", s, None))
OpenDeleteService ==
    InTable("services") /\ \E s \in Shown("services") : Show(Dialog("delete", s, None))

ServiceForm == [name : Texts, has_meter : BOOLEAN]
\* A new service may be given its first tariff, whose service has no id yet.  One whose date
\* is left empty, so that it is neither in force nor ended, is sent as well.
FirstTariff == [service : {None}, note : Opt(Notes), ended : {FALSE, None}]

\* saveSvc: an edit, or a new service and then, in a second request, its first tariff.
SaveService ==
    /\ InDialog("services", "service") /\ ui.dlg.id # None
    /\ \E form \in ServiceForm :
        Submit(<<Send({Update("services", ui.dlg.id, form)}, "service")>> \o LoadServices)
CreateService ==
    /\ InDialog("services", "service") /\ ui.dlg.id = None
    /\ \E form \in ServiceForm, tariff \in Opt(FirstTariff) :
        LET service == Insert("services", form)
        IN  Submit((IF tariff = None THEN <<Send({service}, "service")>>
                    ELSE <<Send({service}, None), Send({Insert("tariffs", tariff)}, "service")>>)
                   \o LoadServices)
DeleteService ==
    /\ InDialog("services", "delete")
    /\ Submit(<<Send({Delete("services", ui.dlg.id)}, "delete")>> \o LoadServices)

\* The dialog of a tariff remembers the service, and the tariff if one is edited.
OpenCreateTariff ==
    InTable("services") /\ \E s \in Shown("services") : Show(Dialog("tariff", None, s))
Unfolded ==
    IF ui.sel.service \in Shown("services") \cap Shown("tariffs")
    THEN ui.list["tariffs"][ui.sel.service] ELSE Nothing
OpenEditTariff ==
    /\ InTable("services")
    /\ \E i \in DOMAIN Unfolded : Show(Dialog("tariff", i, Unfolded[i].service))
OpenDeleteTariff ==
    /\ InTable("services")
    /\ \E i \in DOMAIN Unfolded : Show(Dialog("deleteTariff", i, None))

TariffForm == [note : Opt(Notes), ended : BOOLEAN]

\* saveTariff: the dialog closes when the tariffs have been fetched again.
SaveTariff ==
    /\ InDialog("services", "tariff")
    /\ \E form \in TariffForm :
        LET call == IF ui.dlg.id # None THEN Update("tariffs", ui.dlg.id, form)
                    ELSE Insert("tariffs", form @@ [service |-> ui.dlg.row])
        IN  Submit(<<Send({call}, None),
                     [RefreshTariffs(ui.dlg.row) EXCEPT !.close = "tariff"]>>)
\* confirmTariffDelete finds the service of the tariff among the histories it has.
ServiceOf(i) ==
    {s \in Shown("tariffs") : i \in DOMAIN ui.list["tariffs"][s]}
DeleteTariff ==
    /\ InDialog("services", "deleteTariff")
    /\ LET delete == Send({Delete("tariffs", ui.dlg.id)}, "deleteTariff")
       IN  IF ServiceOf(ui.dlg.id) = {} THEN Submit(<<delete>>)
           ELSE \E s \in ServiceOf(ui.dlg.id) : Submit(<<delete, RefreshTariffs(s)>>)

ServicesPage ==
    \/ ToggleExpand \/ OpenCreateService \/ OpenEditService \/ OpenDeleteService
    \/ SaveService \/ CreateService \/ DeleteService
    \/ OpenCreateTariff \/ OpenEditTariff \/ OpenDeleteTariff \/ SaveTariff \/ DeleteTariff

-----------------------------------------------------------------------------
(* Periods. *)

LoadPeriods == Finally(Load({All("periods")}))

OpenOpenPeriod == Reachable("periods") /\ Show(Dialog("open", None, None))
OpenClosePeriod ==
    /\ InTable("periods")
    /\ \E p \in Shown("periods") : Held("periods", p).open /\ Show(Dialog("close", p, None))
OpenDeletePeriod ==
    InTable("periods") /\ \E p \in Shown("periods") : Show(Dialog("delete", p, None))

OpenPeriod ==
    /\ InDialog("periods", "open")
    /\ \E month \in Months :
        Submit(<<Send({Insert("periods", [month |-> month, open |-> TRUE])}, "open"), LoadPeriods>>)
ClosePeriod ==
    /\ InDialog("periods", "close")
    /\ Submit(<<Send({Update("periods", ui.dlg.id, [open |-> FALSE])}, "close"), LoadPeriods>>)
\* The row's button; it asks for no confirmation.
ReopenPeriod ==
    /\ InTable("periods")
    /\ \E p \in Shown("periods") :
        /\ ~Held("periods", p).open
        /\ Submit(<<Send({Update("periods", p, [open |-> TRUE])}, None), LoadPeriods>>)
DeletePeriod ==
    /\ InDialog("periods", "delete")
    /\ Submit(<<Send({Delete("periods", ui.dlg.id)}, "delete"), LoadPeriods>>)

PeriodsPage ==
    \/ OpenOpenPeriod \/ OpenClosePeriod \/ OpenDeletePeriod
    \/ OpenPeriod \/ ClosePeriod \/ ReopenPeriod \/ DeletePeriod

-----------------------------------------------------------------------------
(* Users.  Passwords are left out: changing one alters nothing that is     *)
(* shown, and the page does not load again.                                *)

LoadUsers == Finally(Load({All("users")}))

OpenCreateUser == Reachable("users") /\ Show(Dialog("create", None, None))
OpenEditUser == InTable("users") /\ \E u \in Shown("users") : Show(Dialog("edit", u, None))
OpenPassword == InTable("users") /\ \E u \in Shown("users") : Show(Dialog("password", u, None))
\* The buttons to block and to delete are disabled in the row of the user who is logged in.
OthersShown == Shown("users") \ {Me}
OpenDeleteUser == InTable("users") /\ \E u \in OthersShown : Show(Dialog("delete", u, None))

UserForm == [username : Texts, role : Roles]

CreateUser ==
    /\ InDialog("users", "create")
    /\ \E form \in UserForm :
        Submit(<<Send({Insert("users", form @@ [is_active |-> TRUE])}, "create"), LoadUsers>>)
SaveUser ==
    /\ InDialog("users", "edit")
    /\ \E form \in UserForm :
        Submit(<<Send({Update("users", ui.dlg.id, form)}, "edit"), LoadUsers>>)
ChangePassword ==
    /\ InDialog("users", "password")
    /\ Submit(<<Send({Update("users", ui.dlg.id, Nothing)}, "password")>>)
\* toggleBlock: what it asks for depends on the row that is shown.
ToggleBlock ==
    /\ InTable("users")
    /\ \E u \in OthersShown :
        Submit(<<Send({Update("users", u, [is_active |-> ~Held("users", u).is_active])}, None),
                 LoadUsers>>)
DeleteUser ==
    /\ InDialog("users", "delete")
    /\ Submit(<<Send({Delete("users", ui.dlg.id)}, "delete"), LoadUsers>>)

UsersPage ==
    \/ OpenCreateUser \/ OpenEditUser \/ OpenPassword \/ OpenDeleteUser
    \/ CreateUser \/ SaveUser \/ ChangePassword \/ ToggleBlock \/ DeleteUser
=============================================================================
