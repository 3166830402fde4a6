-------------------------- MODULE CalculationsPage --------------------------
(***************************************************************************)
(* The page on which readings are entered and calculations are marked as   *)
(* paid.  Period, client and location are parameters of its URL.  The list *)
(* of periods is fetched once; whether the page is locked depends on it.   *)
(* The subscriptions offered for a new calculation are worked out again    *)
(* whenever the calculations or the client change.                         *)
(***************************************************************************)
EXTENDS AdminPages

\* The fetch of the calculations, with the effect that follows every new list.
ReloadCalculations(sel) == IF Bill(sel) = {} THEN <<>> ELSE <<Load(Bill(sel)), Then("options")>>
SpinCalculations(sel) == <<Spinning(Load(Bill(sel))), Then("options")>>

\* The effects run with the calculations that are shown, not with those being fetched.
OptionsNow(sel) == Unbilled(sel, ui.list["calculations"])
OptionsEffect(sel, asks) == IF asks = {} THEN <<>> ELSE << <<Load(asks)>> >>

\* setParam, for each parameter, and the effects that depend on it.
ChoosePeriod ==
    /\ Reachable("calculations")
    /\ \E p \in Shown("periods") \cup {None} :
        /\ p # ui.sel.period
        /\ LET page == [ui EXCEPT !.sel.period = p]
           IN  IF p # None THEN Click(page, <<SpinCalculations(page.sel)>>)
               ELSE Click([page EXCEPT !.list["calculations"] = Nothing],
                          OptionsEffect(page.sel, Unbilled(page.sel, Nothing)))
ChooseBilled ==
    /\ Reachable("calculations")
    /\ \E c \in Shown("clients") \cup {None} :
        /\ c # ui.sel.client
        /\ LET page == [ui EXCEPT !.sel.client = c, !.sel.location = None,
                                  !.list["locations"] = IF c = None THEN Nothing ELSE @,
                                  !.list["options"] = IF c = None THEN Nothing ELSE @]
           IN  Click(page,
                     (IF c = None THEN <<>>
                      ELSE << <<Load({LocationsOfClient(c)} \cup OptionsNow(page.sel))>> >>)
                     \o (IF ui.sel.period = None THEN <<>> ELSE <<SpinCalculations(page.sel)>>))
ChooseLocation ==
    /\ Reachable("calculations") /\ OnClient /\ Shown("locations") # {}
    /\ \E l \in Shown("locations") \cup {None} :
        /\ l # ui.sel.location
        /\ LET page == [ui EXCEPT !.sel.location = l]
           IN  Click(page, IF ui.sel.period = None THEN <<>> ELSE <<SpinCalculations(page.sel)>>)

OnPeriod == ui.sel.period # None
Locked == ui.sel.period \in Shown("periods") /\ ~Held("periods", ui.sel.period).open

\* The header, and the buttons of a row, which depend on the lock.
OpenCreateCalculation ==
    /\ Reachable("calculations") /\ OnPeriod /\ ~Locked
    /\ Show(Dialog("create", None, None))
OpenEditCalculation ==
    /\ InTable("calculations") /\ OnPeriod /\ ~Locked
    /\ \E i \in Shown("calculations") : Show(Dialog("edit", i, Held("calculations", i)))
OpenDeleteCalculation ==
    /\ InTable("calculations") /\ OnPeriod /\ ~Locked
    /\ \E i \in Shown("calculations") : Show(Dialog("delete", i, None))
OpenStatus ==
    /\ InTable("calculations") /\ OnPeriod /\ Locked
    /\ \E i \in Shown("calculations") : Show(Dialog("status", i, None))

\* The tariff and the amount of a new calculation are the server's.
CalculationForm ==
    [subscription : Shown("options"), period : {ui.sel.period}, tariff : {None},
     reading : Opt(Readings), status : {"pending"}, note : Opt(Notes)]

CreateCalculation ==
    /\ InDialog("calculations", "create") /\ OnPeriod
    /\ \E form \in CalculationForm :
        Submit(<<Send({Insert("calculations", form)}, "create")>> \o ReloadCalculations(ui.sel))
DeleteCalculation ==
    /\ InDialog("calculations", "delete")
    /\ Submit(<<Send({Delete("calculations", ui.dlg.id)}, "delete")>> \o ReloadCalculations(ui.sel))

EditForm == [reading : Opt(Readings), status : Statuses, note : Opt(Notes)]

\* saveEdit: up to three updates at once, for what differs from the row as it was opened.
Edited(was, form) ==
    (IF was.has_meter /\ form.reading # None THEN {"reading"} ELSE {})
    \cup {f \in {"status", "note"} : form[f] # was[f]}
SaveEdit ==
    /\ InDialog("calculations", "edit")
    /\ \E form \in EditForm :
        LET calls == {Update("calculations", ui.dlg.id, [g \in {f} |-> form[f]]) :
                         f \in Edited(ui.dlg.row, form)}
        IN  Submit(<<Send(calls, "edit")>> \o ReloadCalculations(ui.sel))
SaveStatus ==
    /\ InDialog("calculations", "status")
    /\ \E form \in [status : Statuses] :
        Submit(<<Send({Update("calculations", ui.dlg.id, form)}, "status")>>
               \o ReloadCalculations(ui.sel))

BillPage ==
    \/ ChoosePeriod \/ ChooseBilled \/ ChooseLocation
    \/ OpenCreateCalculation \/ OpenEditCalculation \/ OpenDeleteCalculation \/ OpenStatus
    \/ CreateCalculation \/ DeleteCalculation \/ SaveEdit \/ SaveStatus
=============================================================================
