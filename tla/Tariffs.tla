------------------------------- MODULE Tariffs -------------------------------
(***************************************************************************)
(* The tariffs of ServiceRepo, statement by statement.  CreateTariff reads *)
(* the active tariff, compares dates in Go, ends the active tariff and     *)
(* inserts the new one: several statements of one transaction at READ      *)
(* COMMITTED, kept apart by the lock on the row they update and by the     *)
(* partial unique index idx_tariffs_one_active.  The variable tariffs      *)
(* holds the committed rows, req the locals and uncommitted effects of the *)
(* CreateTariff a session is busy with.  UpdateTariff and DeleteTariff are *)
(* one statement each, and one action.  A refused request changes no row.  *)
(***************************************************************************)
EXTENDS Integers

CONSTANTS
    Sessions,        \* requests that can be in flight at once
    Tariffs,         \* tariff ids (SERIAL; an id refused at the INSERT is drawn again here)
    Services,        \* the service catalogue
    TariffService,   \* the service of a tariff
    Prices,          \* price_per_unit
    LastDay,         \* bound: days are numbered up to it
    InitTariffs,     \* the tariffs in place at the start
    None             \* SQL NULL, Go nil

Days == 1..LastDay
Opt(S) == S \cup {None}

Tariff == [state: {"new", "live", "gone"}, price: Prices, from: Days, to: Opt(Days)]

\* What CreateTariff inserts, the row its UPDATE has found, and the row it has
\* ended.
Create == [id: Tariffs, price: Prices, from: Days, to: Opt(Days),
           target: Opt(Tariffs), ended: Opt(Tariffs)]

ASSUME TariffsAssumption ==
    /\ TariffService \in [Tariffs -> Services]
    /\ LastDay \in Nat \ {0}
    /\ None \notin Nat /\ None \notin Tariffs /\ None \notin Create

ASSUME InitialTariffsAssumption ==
    /\ InitTariffs \in [Tariffs -> Tariff]
    /\ \A t \in Tariffs : InitTariffs[t].state = "live" /\ InitTariffs[t].to # None
                             => InitTariffs[t].to > InitTariffs[t].from
    /\ \A t, u \in Tariffs :
          /\ InitTariffs[t].state = "live" /\ InitTariffs[t].to = None
          /\ InitTariffs[u].state = "live" /\ InitTariffs[u].to = None
          /\ TariffService[t] = TariffService[u]
          => t = u

VARIABLES
    tariffs,   \* committed rows of billcore.tariffs
    today,     \* the server's date
    pc,        \* the next statement of a session
    req        \* its CreateTariff

vars == <<tariffs, today, pc, req>>

TypeOK ==
    /\ tariffs \in [Tariffs -> Tariff]
    /\ today \in Days
    /\ pc \in [Sessions -> {"idle", "check", "end", "lock", "insert", "commit"}]
    /\ req \in [Sessions -> Opt(Create)]
    /\ \A s \in Sessions : pc[s] = "idle" <=> req[s] = None

Init ==
    /\ tariffs = InitTariffs
    /\ today = 1
    /\ pc = [s \in Sessions |-> "idle"]
    /\ req = [s \in Sessions |-> None]

-----------------------------------------------------------------------------
Live(t) == tariffs[t].state = "live"
Active(t) == Live(t) /\ tariffs[t].to = None
ActiveOf(v) == {t \in Tariffs : Active(t) /\ TariffService[t] = v}
ServiceOf(s) == TariffService[req[s].id]

\* CHECK (valid_to IS NULL OR valid_to > valid_from)
DatesCheck(from, to) == to # None => to > from

\* Mutant: the previous tariff ends on the day the new one begins.
SameDay(from) == from
\* valid_to = $2::date - INTERVAL '1 day'
DayBefore(from) == from - 1

\* Mutant: two requests that end the same tariff do not wait for each other.
NoRowLock(t) == FALSE
\* An uncommitted UPDATE holds its row.
RowLocked(t) == \E r \in Sessions : req[r] # None /\ req[r].ended = t
\* The partial unique index makes a second active row of v wait for a
\* transaction that has ended or inserted one.
HoldsIndex(r) ==
    req[r] # None /\ (req[r].ended # None \/ (pc[r] = "commit" /\ req[r].to = None))
IndexLocked(v) == \E r \in Sessions : HoldsIndex(r) /\ ServiceOf(r) = v

\* Mutant: only what is committed counts.
OneRow(v, others) == TRUE
\* idx_tariffs_one_active admits one more active row of v.
IndexAdmits(v, others) == ActiveOf(v) \subseteq others

-----------------------------------------------------------------------------
(* ServiceRepo.CreateTariff. *)

\* Mutant: the rollback leaves the locals of the request behind.
RollbackOnly(s) ==
    /\ pc' = [pc EXCEPT ![s] = "idle"]
    /\ UNCHANGED <<tariffs, today, req>>
Rollback(s) ==
    /\ pc' = [pc EXCEPT ![s] = "idle"]
    /\ req' = [req EXCEPT ![s] = None]
    /\ UNCHANGED <<tariffs, today>>

\* With a valid_to the INSERT is all there is to do.
CreateTariff(s, t, price, from, to) ==
    /\ pc[s] = "idle"
    /\ tariffs[t].state = "new"
    /\ \A r \in Sessions : req[r] # None => req[r].id # t
    /\ req' = [req EXCEPT ![s] = [id |-> t, price |-> price, from |-> from, to |-> to,
                                  target |-> None, ended |-> None]]
    /\ pc' = [pc EXCEPT ![s] = IF to = None THEN "check" ELSE "insert"]
    /\ UNCHANGED <<tariffs, today>>

\* What the Go code asks of the new valid_from.
Accepted(from, activeFrom) == from >= today /\ from > activeFrom

\* SELECT valid_from ... valid_to IS NULL, then the comparison of dates.
CheckTimeline(s) ==
    /\ pc[s] = "check"
    /\ IF ActiveOf(ServiceOf(s)) = {}
       THEN /\ pc' = [pc EXCEPT ![s] = "insert"]
            /\ UNCHANGED <<tariffs, today, req>>
       ELSE \E a \in ActiveOf(ServiceOf(s)) :
               IF Accepted(req[s].from, tariffs[a].from)
               THEN /\ pc' = [pc EXCEPT ![s] = "end"]
                    /\ UNCHANGED <<tariffs, today, req>>
               ELSE Rollback(s)

\* UPDATE ... WHERE valid_to IS NULL: the snapshot of the statement names the row.
FindPrevious(s) ==
    /\ pc[s] = "end"
    /\ \/ /\ ActiveOf(ServiceOf(s)) = {}
          /\ pc' = [pc EXCEPT ![s] = "insert"]
          /\ UNCHANGED req
       \/ \E a \in ActiveOf(ServiceOf(s)) :
             /\ req' = [req EXCEPT ![s].target = a]
             /\ pc' = [pc EXCEPT ![s] = "lock"]
    /\ UNCHANGED <<tariffs, today>>

\* Mutant: the UPDATE is committed on its own.
EndPreviousAtOnce(s) ==
    /\ pc[s] = "lock"
    /\ LET a == req[s].target
       IN  /\ ~RowLocked(a)
           /\ tariffs' = IF Active(a) /\ DatesCheck(tariffs[a].from, DayBefore(req[s].from))
                         THEN [tariffs EXCEPT ![a].to = DayBefore(req[s].from)]
                         ELSE tariffs
    /\ pc' = [pc EXCEPT ![s] = "insert"]
    /\ UNCHANGED <<today, req>>
\* The row is locked once nobody else holds it, the WHERE clause evaluated
\* again on its latest version, and the CHECK applied to the new one.
EndPrevious(s) ==
    /\ pc[s] = "lock"
    /\ LET a == req[s].target
       IN  /\ ~RowLocked(a)
           /\ IF ~Active(a)
              THEN /\ pc' = [pc EXCEPT ![s] = "insert"]
                   /\ UNCHANGED <<tariffs, today, req>>
              ELSE IF DatesCheck(tariffs[a].from, DayBefore(req[s].from))
              THEN /\ req' = [req EXCEPT ![s].ended = a]
                   /\ pc' = [pc EXCEPT ![s] = "insert"]
                   /\ UNCHANGED <<tariffs, today>>
              ELSE Rollback(s)

InsertTariff(s) ==
    /\ pc[s] = "insert"
    /\ LET q == req[s]
       IN  /\ q.to = None /\ q.ended = None => ~IndexLocked(ServiceOf(s))
           /\ IF /\ DatesCheck(q.from, q.to)
                 /\ q.to = None => IndexAdmits(ServiceOf(s), {q.ended})
              THEN /\ pc' = [pc EXCEPT ![s] = "commit"]
                   /\ UNCHANGED <<tariffs, today, req>>
              ELSE Rollback(s)

CommitTariff(s) ==
    /\ pc[s] = "commit"
    /\ LET q == req[s]
       IN  tariffs' = [t \in Tariffs |->
              IF t = q.id THEN [state |-> "live", price |-> q.price, from |-> q.from, to |-> q.to]
              ELSE IF t = q.ended THEN [tariffs[t] EXCEPT !.to = DayBefore(q.from)]
              ELSE tariffs[t]]
    /\ pc' = [pc EXCEPT ![s] = "idle"]
    /\ req' = [req EXCEPT ![s] = None]
    /\ UNCHANGED today

-----------------------------------------------------------------------------
\* ServiceRepo.UpdateTariff: the columns are overwritten, no dates are compared.
UpdateTariff(t, price, from, to) ==
    /\ Live(t)
    /\ ~RowLocked(t)
    /\ DatesCheck(from, to)
    /\ to = None => /\ ~IndexLocked(TariffService[t])
                    /\ IndexAdmits(TariffService[t], {t})
    /\ tariffs' = [tariffs EXCEPT ![t] = [state |-> "live", price |-> price,
                                          from |-> from, to |-> to]]
    /\ UNCHANGED <<today, pc, req>>

\* ServiceRepo.DeleteTariff; Billing says when a calculation keeps the tariff.
DeleteTariff(t) ==
    /\ Live(t)
    /\ ~RowLocked(t)
    /\ tariffs' = [tariffs EXCEPT ![t].state = "gone"]
    /\ UNCHANGED <<today, pc, req>>

\* The request is cancelled or its connection lost.
Abort(s) == pc[s] # "idle" /\ Rollback(s)

Midnight ==
    /\ today < LastDay
    /\ today' = today + 1
    /\ UNCHANGED <<tariffs, pc, req>>

Continue(s) ==
    \/ CheckTimeline(s)
    \/ FindPrevious(s)
    \/ EndPrevious(s)
    \/ InsertTariff(s)
    \/ CommitTariff(s)

Edit(t) ==
    \/ \E price \in Prices, from \in Days, to \in Opt(Days) : UpdateTariff(t, price, from, to)
    \/ DeleteTariff(t)

Next ==
    \/ \E s \in Sessions :
          \/ \E t \in Tariffs, price \in Prices, from \in Days, to \in Opt(Days) :
                CreateTariff(s, t, price, from, to)
          \/ Continue(s)
          \/ Abort(s)
    \/ \E t \in Tariffs : Edit(t)
    \/ Midnight

Spec == Init /\ [][Next]_vars

-----------------------------------------------------------------------------
(* Properties. *)

\* A service never has two active tariffs, however creations, edits and
\* deletions of tariffs interleave: OpenPeriod reads one price.
OneActive ==
    \A t, u \in Tariffs :
       Active(t) /\ Active(u) /\ TariffService[t] = TariffService[u] => t = u

Covers(t, day) == /\ Live(t)
                  /\ tariffs[t].from <= day
                  /\ tariffs[t].to # None => day <= tariffs[t].to

\* From the first tariff of v on, every day has one price; the last day to look
\* at lies beyond all dates, where only an active tariff counts.
OnePricePerDay(v) ==
    \A day \in 1..(LastDay + 1) :
       LET mine == {t \in Tariffs : Live(t) /\ TariffService[t] = v}
       IN  (\E t \in mine : tariffs[t].from <= day)
           => \E t \in mine : \A u \in mine : Covers(u, day) <=> u = t

\* Changing a price as the guide says ("do not edit the existing tariff - add a
\* new one") keeps the history of prices a partition of time, whatever edits,
\* deletions and other new tariffs are under way meanwhile: the tariff of the
\* past ends on the day before the new one begins.
NewPriceFollowsOn ==
    [][\A s \in Sessions, v \in Services :
          CommitTariff(s) /\ req[s].to = None /\ ServiceOf(s) = v /\ OnePricePerDay(v)
          => OnePricePerDay(v)']_vars

\* Replacing a price never leaves the service without one, not for a moment and
\* not when the request is refused or cancelled halfway: an OpenPeriod that
\* looks in between would skip the subscriptions of the service.
PriceNeverLapses ==
    [][(\E s \in Sessions : pc'[s] # pc[s])
       => \A v \in Services : ActiveOf(v) # {} => ActiveOf(v)' # {}]_vars

\* The table as the rest of the system sees it.
Entry(t) ==
    [state |-> IF ~Live(t) THEN tariffs[t].state
               ELSE IF Active(t) THEN "active" ELSE "ended",
     price |-> tariffs[t].price]
InitEntry(t) ==
    [state |-> IF InitTariffs[t].state # "live" THEN InitTariffs[t].state
               ELSE IF InitTariffs[t].to = None THEN "active" ELSE "ended",
     price |-> InitTariffs[t].price]

Table == [t \in Tariffs |-> Entry(t)]
InitTable == [t \in Tariffs |-> InitEntry(t)]

Book == INSTANCE TariffBook WITH book <- Table, InitBook <- InitTable

\* The statements of ServiceRepo implement TariffBook: whatever they interleave
\* with, the table goes through whole creations, edits and deletions.
ImplementsBook == Book!Spec

-----------------------------------------------------------------------------
(* Why OneActive holds: what is true of every CreateTariff in flight. *)

\* The row a session has ended is the active one, and it alone holds it.
Ending(s) ==
    req[s].ended # None =>
       /\ pc[s] \in {"insert", "commit"}
       /\ req[s].to = None
       /\ Active(req[s].ended)
       /\ TariffService[req[s].ended] = ServiceOf(s)
       /\ tariffs[req[s].ended].from < DayBefore(req[s].from)

CreateFits(s) ==
    /\ tariffs[req[s].id].state = "new"
    /\ pc[s] \in {"check", "end", "lock"} => req[s].to = None
    /\ pc[s] = "lock" => /\ req[s].target \in Tariffs
                         /\ TariffService[req[s].target] = ServiceOf(s)
    /\ Ending(s)
    /\ pc[s] = "commit" =>
          /\ DatesCheck(req[s].from, req[s].to)
          /\ req[s].to = None => IndexAdmits(ServiceOf(s), {req[s].ended})

Apart(r, s) ==
    /\ req[r].id # req[s].id
    /\ HoldsIndex(r) /\ HoldsIndex(s) => ServiceOf(r) # ServiceOf(s)

TableInv ==
    /\ TypeOK
    /\ OneActive
    /\ \A s \in Sessions : req[s] # None => CreateFits(s)
    /\ \A r, s \in Sessions : r # s /\ req[r] # None /\ req[s] # None => Apart(r, s)

=============================================================================
