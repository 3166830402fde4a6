----------------------------- MODULE TariffBook -----------------------------
(***************************************************************************)
(* What the tariff table of billcore promises to the rest of the system:   *)
(* each service has at most one active price, and a new active price takes *)
(* the place of the previous one in the step in which it appears.  The     *)
(* billing core uses the table through these actions (Billing), the        *)
(* statements of ServiceRepo implement them (Tariffs).                     *)
(***************************************************************************)
CONSTANTS
    Tariffs,         \* tariff ids (SERIAL: never used twice)
    TariffService,   \* the service of a tariff
    Prices,          \* price_per_unit
    InitBook         \* the tariffs in place at the start

VARIABLE book

\* valid_to is NULL in an active row and a date in an ended one.
Rows == {"active", "ended"}
Entry == [state: {"new", "gone"} \cup Rows, price: Prices]

TypeOK == book \in [Tariffs -> Entry]

Init == book = InitBook

InTable(t) == book[t].state \in Rows
ActiveOf(v) == {t \in Tariffs : book[t].state = "active" /\ TariffService[t] = v}

\* CreateTariff with valid_to NULL replaces the active tariff; otherwise it
\* adds a row of the past.
Create(t, price, state) ==
    /\ book[t].state = "new"
    /\ book' = [u \in Tariffs |->
          IF u = t THEN [state |-> state, price |-> price]
          ELSE IF state = "active" /\ u \in ActiveOf(TariffService[t])
               THEN [book[u] EXCEPT !.state = "ended"]
               ELSE book[u]]

\* UpdateTariff overwrites the row in place; it can end the active tariff, and
\* make another one active when there is none.
Amend(t, price, state) ==
    /\ InTable(t)
    /\ state = "active" => ActiveOf(TariffService[t]) \subseteq {t}
    /\ book' = [book EXCEPT ![t] = [state |-> state, price |-> price]]

Remove(t) ==
    /\ InTable(t)
    /\ book' = [book EXCEPT ![t].state = "gone"]

Next ==
    \E t \in Tariffs :
       \/ \E price \in Prices, state \in Rows : Create(t, price, state) \/ Amend(t, price, state)
       \/ Remove(t)

Spec == Init /\ [][Next]_book
=============================================================================
