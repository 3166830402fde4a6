----------------------------- MODULE MCBilling -----------------------------
(***************************************************************************)
(* Small instances of Billing: a subscription that starts metered (water), *)
(* and one at a flat rate (net), whose service has a second tariff to come.*)
(* Each cfg chooses which of them, and which requests, take part.          *)
(***************************************************************************)
EXTENDS Billing, TLC

CONSTANTS s1, s2, water, net, waterTariff, netTariff, netTariff2

MCServices == {"water", "net"}
MCSubService == [b \in Subs |-> IF b = water THEN "water" ELSE "net"]
MCTariffService == [t \in Tariffs |-> IF t = waterTariff THEN "water" ELSE "net"]

\* Days 2 and 4 are the first of a month; days 1 and 3 lie before and between them.
MCDates == 1..4
MCMonthStarts == {2, 4}

Connected == [state |-> "live", disconnected |-> None, connected |-> 1]
NotYet == [state |-> "new", disconnected |-> None, connected |-> None]
AllConnected == [b \in Subs |-> Connected]
NetComesLater == [b \in Subs |-> IF b = net THEN NotYet ELSE Connected]
MCInitTariffs ==
    [t \in Tariffs |-> [state |-> IF t = netTariff2 THEN "new" ELSE "active", price |-> 160]]

NoteSymmetry == Permutations(Notes)

\* Requests that meet OpenPeriod while it generates.
CatalogueOps == {"open", "deletePeriod", "subscribe", "disconnect", "unsubscribe",
                 "createTariff", "updateTariff", "deleteTariff", "abort"}
\* Everything a session can be busy with, the same month asked for twice included, and
\* the price changes that meet it.
SessionOps == {"open", "close", "reopen", "reading", "status", "create", "updateTariff", "abort"}
CloseOps == {"open", "close", "status"}
\* Months opened in any order by one operator, who enters readings and notes of a meter
\* that comes and goes.
MonthOps == {"open", "note", "reading", "service"}
=============================================================================
