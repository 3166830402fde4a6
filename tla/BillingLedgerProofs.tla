------------------------ MODULE BillingLedgerProofs ------------------------
(***************************************************************************)
(* What the calculations say: their columns add up, and a generation       *)
(* leaves out nothing it should bill.                                      *)
(***************************************************************************)
EXTENDS BillingProofs, FiniteSetTheorems

-----------------------------------------------------------------------------
(* The columns of a row. *)

\* A generated row is billed at the price that was read for it.
LEMMA GeneratedAddsUp ==
    ASSUME NEW g \in Gen, Picked(g)
    PROVE  AddsUp(GeneratedRow(g))
BY DEF AddsUp, GeneratedRow, Picked

\* An edit computes quantity and amount from the readings it leaves in the row.
LEMMA AppliedAddsUp ==
    ASSUME NEW row \in Calc, AddsUp(row), NEW change \in Change
    PROVE  AddsUp(Apply(row, change))
<1>1. CASE change.kind = "reading"
    <2> DEFINE prev == IF change.prev = None THEN row.prev ELSE change.prev
               q == Consumed(prev, change.curr)
               new == [row EXCEPT !.prev = prev, !.curr = change.curr,
                                  !.quantity = q, !.amount = Amount(q, change.price),
                                  !.byHand = FALSE]
    <2>1. change.price \in Prices
        BY <1>1 DEF Change
    <2>2. Apply(row, change) = new
        BY <1>1 DEF Apply, WithReading
    <2> HIDE DEF prev
    <2>3. /\ new.prev = prev /\ new.curr = change.curr /\ new.quantity = q /\ ~new.byHand
          /\ new.amount = Amount(q, change.price)
        BY DEF Calc
    <2> HIDE DEF new
    <2> QED
        BY <2>1, <2>2, <2>3 DEF AddsUp
<1>2. CASE change.kind # "reading"
    <2>1. /\ Apply(row, change).prev = row.prev
          /\ Apply(row, change).curr = row.curr
          /\ Apply(row, change).quantity = row.quantity
          /\ Apply(row, change).amount = row.amount
          /\ Apply(row, change).byHand = row.byHand
        BY <1>2 DEF Apply, Calc
    <2> QED
        BY <2>1 DEF AddsUp
<1> QED
    BY <1>1, <1>2

\* The Create handler computes the quantity from both readings unless it was typed in.
LEMMA DraftAddsUp ==
    ASSUME TypeOK, NEW b \in Subs, NEW t \in Tariffs, NEW prev, NEW curr, NEW typed, NEW note
    PROVE  AddsUp(DraftRow(b, t, prev, curr, typed, note))
<1>1. tariffs[t].price \in Prices
    BY DEF TypeOK, Tariff
<1> QED
    BY <1>1 DEF AddsUp, DraftRow

AddUp == RowsAddUp /\ PendingRowsAddUp

\* A step that writes no calculation and computes no new one.
LEMMA SameRowsAddUp ==
    ASSUME AddUp, calcs' = calcs,
           \A s \in Sessions : gen'[s].rows = gen[s].rows \/ gen'[s] = NoGen,
           \A s \in Sessions : pc'[s] = "create" => pc[s] = "create" /\ draft'[s] = draft[s]
    PROVE  AddUp'
<1>1. RowsAddUp'
    BY DEF AddUp, RowsAddUp, AddsUp, Amount, Consumed
<1>2. ASSUME NEW s \in Sessions, NEW b \in Subs, gen'[s].rows[b] # None
      PROVE  AddsUp(gen'[s].rows[b])
    BY <1>2 DEF AddUp, PendingRowsAddUp, NoGen
<1>3. ASSUME NEW s \in Sessions, pc'[s] = "create"
      PROVE  AddsUp(draft'[s].row)
    BY <1>3 DEF AddUp, PendingRowsAddUp
<1>4. PendingRowsAddUp'
    BY <1>2, <1>3 DEF PendingRowsAddUp, AddsUp, Amount, Consumed
<1> QED
    BY <1>1, <1>4 DEF AddUp

LEMMA RollbackAddsUp ==
    ASSUME BillingInv, AddUp, NEW s \in Sessions, Rollback(s)
    PROVE  AddUp'
<1>1. /\ calcs' = calcs /\ gen' = [gen EXCEPT ![s] = NoGen]
      /\ pc' = [pc EXCEPT ![s] = "idle"] /\ draft' = [draft EXCEPT ![s] = None]
    BY DEF Rollback, db
<1>2. \A r \in Sessions : /\ gen'[r] = IF r = s THEN NoGen ELSE gen[r]
                          /\ pc'[r] = IF r = s THEN "idle" ELSE pc[r]
                          /\ draft'[r] = IF r = s THEN None ELSE draft[r]
    BY <1>1 DEF BillingInv, TypeOK
<1> QED
    BY <1>1, <1>2, SameRowsAddUp

\* The row an OpenPeriod inserts.
LEMMA InsertGeneratedAddsUp ==
    ASSUME BillingInv, AddUp, NEW s \in Sessions, InsertGenerated(s)
    PROVE  AddUp'
<1> DEFINE o == gen[s]
           row == GeneratedRow(o)
<1>1. CASE Live(o.sub) /\ InTable(o.tariff)
    <2> DEFINE g == [NoGen EXCEPT !.pid = o.pid, !.start = o.start, !.todo = o.todo,
                                  !.meters = o.meters,
                                  !.rows = [o.rows EXCEPT ![o.sub] = row]]
    <2>1. /\ pc[s] = "insert" /\ gen' = [gen EXCEPT ![s] = g]
          /\ pc' = [pc EXCEPT ![s] = "pick"] /\ calcs' = calcs /\ draft' = draft
        BY <1>1 DEF InsertGenerated, db
    <2>2. Picked(o) /\ o \in Gen
        BY <2>1, OldGen DEF BillingInv, SessionShape, SessionFits
    <2>3. AddsUp(row)
        BY <2>2, GeneratedAddsUp
    <2> HIDE DEF row
    <2>4. \A b \in Subs : g.rows[b] = IF b = o.sub THEN row ELSE o.rows[b]
        BY <2>2 DEF Gen, NoGen, Picked
    <2> HIDE DEF g
    <2>5. \A r \in Sessions : /\ gen'[r] = IF r = s THEN g ELSE gen[r]
                              /\ pc'[r] = IF r = s THEN "pick" ELSE pc[r]
        BY <2>1 DEF BillingInv, TypeOK
    <2>6. ASSUME NEW r \in Sessions, NEW b \in Subs, gen'[r].rows[b] # None
          PROVE  AddsUp(gen'[r].rows[b])
        BY <2>3, <2>4, <2>5, <2>6 DEF AddUp, PendingRowsAddUp
    <2>7. ASSUME NEW r \in Sessions, pc'[r] = "create"
          PROVE  AddsUp(draft[r].row)
        BY <2>5, <2>7 DEF AddUp, PendingRowsAddUp
    <2>8. PendingRowsAddUp'
        BY <2>1, <2>6, <2>7 DEF PendingRowsAddUp, AddsUp, Amount, Consumed
    <2>9. RowsAddUp'
        BY <2>1 DEF AddUp, RowsAddUp, AddsUp, Amount, Consumed
    <2> QED
        BY <2>8, <2>9 DEF AddUp
<1>2. CASE ~(Live(o.sub) /\ InTable(o.tariff))
    BY <1>2, RollbackAddsUp DEF InsertGenerated
<1> QED
    BY <1>1, <1>2

\* The rows a commit makes visible added up before.
LEMMA CommitPeriodAddsUp ==
    ASSUME BillingInv, AddUp, NEW s \in Sessions, CommitPeriod(s)
    PROVE  AddUp'
<1>1. /\ gen' = [gen EXCEPT ![s] = NoGen] /\ pc' = [pc EXCEPT ![s] = "idle"]
      /\ calcs' = [k \in Keys |-> IF k[2] = gen[s].pid THEN gen[s].rows[k[1]] ELSE calcs[k]]
      /\ draft' = draft
    BY DEF CommitPeriod
<1>2. \A r \in Sessions : /\ gen'[r] = IF r = s THEN NoGen ELSE gen[r]
                          /\ pc'[r] = IF r = s THEN "idle" ELSE pc[r]
    BY <1>1 DEF BillingInv, TypeOK
<1>3. ASSUME NEW k \in Keys, calcs'[k] # None
      PROVE  AddsUp(calcs'[k])
    <2>1. k[1] \in Subs
        BY DEF Keys
    <2> QED
        BY <1>1, <1>3, <2>1 DEF AddUp, RowsAddUp, PendingRowsAddUp
<1>4. RowsAddUp'
    BY <1>3 DEF RowsAddUp, AddsUp, Amount, Consumed
<1>5. ASSUME NEW r \in Sessions, NEW b \in Subs, gen'[r].rows[b] # None
      PROVE  AddsUp(gen'[r].rows[b])
    BY <1>2, <1>5 DEF AddUp, PendingRowsAddUp, NoGen
<1>6. ASSUME NEW r \in Sessions, pc'[r] = "create"
      PROVE  AddsUp(draft[r].row)
    BY <1>2, <1>6 DEF AddUp, PendingRowsAddUp
<1>7. PendingRowsAddUp'
    BY <1>1, <1>5, <1>6 DEF PendingRowsAddUp, AddsUp, Amount, Consumed
<1> QED
    BY <1>4, <1>7 DEF AddUp

LEMMA WriteEditAddsUp ==
    ASSUME BillingInv, AddUp, NEW s \in Sessions, WriteEdit(s)
    PROVE  AddUp'
<1> DEFINE k == edit[s].key
           row == Apply(calcs[k], edit[s].change)
<1>1. /\ pc[s] = "edit" /\ calcs' = [calcs EXCEPT ![k] = row]
      /\ pc' = [pc EXCEPT ![s] = "idle"] /\ gen' = gen /\ draft' = draft
    BY DEF WriteEdit
<1>2. k \in Keys /\ edit[s].change \in Change /\ calcs[k] # None
    BY <1>1 DEF BillingInv, SessionShape, SessionFits, Edit
<1>3. calcs[k] \in Calc /\ k[1] \in Subs
    BY <1>2 DEF BillingInv, TypeOK, Opt, Keys
<1>4. AddsUp(row)
    BY <1>2, <1>3, AppliedAddsUp DEF AddUp, RowsAddUp
<1> HIDE DEF row, k
<1>5. \A j \in Keys : calcs'[j] = IF j = k THEN row ELSE calcs[j]
    BY <1>1 DEF BillingInv, TypeOK
<1>6. ASSUME NEW j \in Keys, calcs'[j] # None
      PROVE  AddsUp(calcs'[j])
    BY <1>4, <1>5, <1>6 DEF AddUp, RowsAddUp
<1>7. RowsAddUp'
    BY <1>6 DEF RowsAddUp, AddsUp, Amount, Consumed
<1>8. \A r \in Sessions : pc'[r] = "create" => pc[r] = "create"
    BY <1>1 DEF BillingInv, TypeOK
<1>9. PendingRowsAddUp'
    BY <1>1, <1>8 DEF AddUp, PendingRowsAddUp, AddsUp, Amount, Consumed
<1> QED
    BY <1>7, <1>9 DEF AddUp

LEMMA CreateCalculationAddsUp ==
    ASSUME BillingInv, AddUp, NEW s \in Sessions, NEW b \in Subs, NEW p \in PeriodIds,
           NEW prev \in Opt(Readings), NEW curr \in Opt(Readings),
           NEW typed \in Opt(Quantities), NEW note \in Notes,
           CreateCalculation(s, b, p, prev, curr, typed, note)
    PROVE  AddUp'
<1>1. PICK t \in ActiveTariffs(b) :
         draft' = [draft EXCEPT ![s] = [key |-> <<b, p>>,
                                        row |-> DraftRow(b, t, prev, curr, typed, note)]]
    BY DEF CreateCalculation
<1> DEFINE d == [key |-> <<b, p>>, row |-> DraftRow(b, t, prev, curr, typed, note)]
<1>2. /\ t \in Tariffs
      /\ pc' = [pc EXCEPT ![s] = "create"] /\ calcs' = calcs /\ gen' = gen
    BY DEF CreateCalculation, ActiveTariffs, db
<1>3. AddsUp(d.row)
    <2>1. AddsUp(DraftRow(b, t, prev, curr, typed, note))
        BY <1>2, DraftAddsUp DEF BillingInv
    <2> QED
        BY <2>1
<1>4. draft' = [draft EXCEPT ![s] = d]
    BY <1>1
<1> HIDE DEF d
<1>5. \A r \in Sessions : /\ pc'[r] = IF r = s THEN "create" ELSE pc[r]
                          /\ draft'[r] = IF r = s THEN d ELSE draft[r]
    BY <1>2, <1>4 DEF BillingInv, TypeOK
<1>6. ASSUME NEW r \in Sessions, pc'[r] = "create"
      PROVE  AddsUp(draft'[r].row)
    BY <1>3, <1>5, <1>6 DEF AddUp, PendingRowsAddUp
<1>7. PendingRowsAddUp'
    BY <1>2, <1>6 DEF AddUp, PendingRowsAddUp, AddsUp, Amount, Consumed
<1>8. RowsAddUp'
    BY <1>2 DEF AddUp, RowsAddUp, AddsUp, Amount, Consumed
<1> QED
    BY <1>7, <1>8 DEF AddUp

LEMMA InsertCalculationAddsUp ==
    ASSUME BillingInv, AddUp, NEW s \in Sessions, InsertCalculation(s)
    PROVE  AddUp'
<1> DEFINE d == draft[s]
           k == d.key
           ok == calcs[k] = None /\ Exists(k[2]) /\ Live(k[1]) /\ InTable(d.row.tariff)
<1>1. CASE ~ok
    BY <1>1, RollbackAddsUp DEF InsertCalculation
<1>2. CASE ok
    <2>1. /\ pc[s] = "create" /\ calcs' = [calcs EXCEPT ![k] = d.row]
          /\ pc' = [pc EXCEPT ![s] = "idle"] /\ draft' = [draft EXCEPT ![s] = None] /\ gen' = gen
        BY <1>2 DEF InsertCalculation
    <2>2. AddsUp(d.row)
        BY <2>1 DEF AddUp, PendingRowsAddUp
    <2> HIDE DEF d, k
    <2>3. /\ \A r \in Sessions : /\ pc'[r] = IF r = s THEN "idle" ELSE pc[r]
                                 /\ draft'[r] = IF r = s THEN None ELSE draft[r]
          /\ \A j \in Keys : calcs'[j] = IF j = k THEN d.row ELSE calcs[j]
        BY <2>1 DEF BillingInv, TypeOK
    <2>4. ASSUME NEW j \in Keys, calcs'[j] # None
          PROVE  AddsUp(calcs'[j])
        BY <2>2, <2>3, <2>4 DEF AddUp, RowsAddUp
    <2>5. RowsAddUp'
        BY <2>4 DEF RowsAddUp, AddsUp, Amount, Consumed
    <2>6. PendingRowsAddUp'
        BY <2>1, <2>3 DEF AddUp, PendingRowsAddUp, AddsUp, Amount, Consumed
    <2> QED
        BY <2>5, <2>6 DEF AddUp
<1> QED
    BY <1>1, <1>2

\* What a session does keeps every row, committed or to come, adding up.
LEMMA SessionAddsUp ==
    ASSUME BillingInv, AddUp, NEW s \in Sessions, Request(s) \/ Continue(s) \/ Abort(s)
    PROVE  AddUp'
<1>1. /\ pc \in [Sessions -> {"idle", "edit", "create"} \cup GenPhases]
      /\ gen \in [Sessions -> Gen]
    BY DEF BillingInv, TypeOK
<1>2. ASSUME NEW start \in MonthStarts, OpenPeriod(s, start)
      PROVE  AddUp'
    <2>1. /\ calcs' = calcs /\ draft' = draft /\ pc' = [pc EXCEPT ![s] = "fetch"]
          /\ gen' = [gen EXCEPT ![s] = [NoGen EXCEPT !.pid = nextPeriod, !.start = start]]
          /\ pc[s] = "idle"
        BY <1>2 DEF OpenPeriod
    <2>2. gen[s].rows = NoGen.rows
        BY <2>1 DEF BillingInv, SessionShape, SessionFits, GenPhases
    <2>3. \A r \in Sessions : gen'[r].rows = gen[r].rows
        BY <1>1, <2>1, <2>2 DEF NoGen
    <2> QED
        BY <1>1, <2>1, <2>3, SameRowsAddUp
<1>3. ASSUME NEW k, NEW change, StartEdit(s, k, change)
      PROVE  AddUp'
    BY <1>1, <1>3, SameRowsAddUp DEF StartEdit, db
<1>4. CASE FetchSubscriptions(s)
    BY <1>1, <1>4, SameRowsAddUp DEF FetchSubscriptions, db, Gen
<1>5. ASSUME NEW b \in Subs, PickTariff(s, b)
      PROVE  AddUp'
    <2>1. \A r \in Sessions : gen'[r].rows = gen[r].rows /\ (pc'[r] = "create" => pc[r] = "create")
        <3>1. CASE gen' = [gen EXCEPT ![s].todo = @ \ {b}] /\ UNCHANGED pc
            BY <1>1, <3>1 DEF Gen
        <3>2. ASSUME NEW t,
                     gen' = [gen EXCEPT ![s].todo = @ \ {b}, ![s].sub = b,
                                        ![s].tariff = t, ![s].price = tariffs[t].price],
                     pc' = [pc EXCEPT ![s] = "note"]
              PROVE  \A r \in Sessions : /\ gen'[r].rows = gen[r].rows
                                         /\ pc'[r] = "create" => pc[r] = "create"
            <4>1. gen[s] \in Gen
                BY <1>1
            <4>2. gen'[s].rows = gen[s].rows
                BY <1>1, <3>2, <4>1 DEF Gen
            <4>3. \A r \in Sessions \ {s} : gen'[r] = gen[r]
                BY <1>1, <3>2
            <4> QED
                BY <1>1, <3>2, <4>2, <4>3
        <3> QED
            BY <1>5, <3>1, <3>2 DEF PickTariff
    <2> QED
        BY <1>5, <2>1, SameRowsAddUp DEF PickTariff, db
<1>6. CASE CopyNote(s)
    <2>1. \A r \in Sessions : gen'[r].rows = gen[r].rows /\ (pc'[r] = "create" => pc[r] = "create")
        BY <1>1, <1>6 DEF CopyNote, Gen
    <2> QED
        BY <1>6, <2>1, SameRowsAddUp DEF CopyNote, db
<1>7. CASE CarryReading(s)
    <2>1. \A r \in Sessions : gen'[r].rows = gen[r].rows /\ (pc'[r] = "create" => pc[r] = "create")
        BY <1>1, <1>7 DEF CarryReading, Gen
    <2> QED
        BY <1>7, <2>1, SameRowsAddUp DEF CarryReading, db
<1>8. CASE Request(s)
    BY <1>2, <1>3, <1>8, CreateCalculationAddsUp
    DEF Request, UpdateReading, UpdateStatus, UpdateNote
<1>9. CASE Continue(s)
    BY <1>4, <1>5, <1>6, <1>7, <1>9, InsertGeneratedAddsUp, CommitPeriodAddsUp,
       WriteEditAddsUp, InsertCalculationAddsUp DEF Continue, GenerationStep
<1>10. CASE Abort(s)
    BY <1>10, RollbackAddsUp DEF Abort
<1> QED
    BY <1>8, <1>9, <1>10

\* Nothing else writes a calculation.
LEMMA NextAddsUp ==
    ASSUME BillingInv, AddUp, [Next]_vars
    PROVE  AddUp'
<1>1. CASE \E s \in Sessions : Request(s) \/ Continue(s) \/ Abort(s)
    BY <1>1, SessionAddsUp
<1>2. CASE UNCHANGED <<calcs, gen, pc, draft>>
    BY <1>2, SameRowsAddUp
<1>3. ManagePeriods => UNCHANGED <<calcs, gen, pc, draft>>
    BY DEF ManagePeriods, ClosePeriod, ReopenPeriod, SetPeriodStatus, DeletePeriod
<1>4. ManageSubscriptions => UNCHANGED <<calcs, gen, pc, draft>>
    BY DEF ManageSubscriptions, CreateSubscription, Disconnect, DeleteSubscription, SetSubscription
<1>5. ManageTariffs => UNCHANGED <<calcs, gen, pc, draft>>
    BY DEF ManageTariffs, CreateTariff, UpdateTariff, DeleteTariff, OnlyTariffs
<1>6. ManageServices => UNCHANGED <<calcs, gen, pc, draft>>
    BY DEF ManageServices, UpdateService
<1> QED
    BY <1>1, <1>2, <1>3, <1>4, <1>5, <1>6 DEF Next, vars

-----------------------------------------------------------------------------
(* What a generation leaves out. *)

\* Should-be-billed implies fetched.
LEMMA BillableFetched ==
    ASSUME TypeOK, NEW b \in Subs, NEW start \in MonthStarts, Billable(b, start)
    PROVE  ConnectedAfter(b, start)
<1>1. subs[b].disconnected \in Opt(Dates)
    BY DEF TypeOK, Sub
<1>2. ASSUME subs[b].disconnected # None
      PROVE  subs[b].disconnected > start
    <2>1. subs[b].disconnected \in Dates
        BY <1>1, <1>2 DEF Opt
    <2>2. ~(subs[b].disconnected <= start)
        BY <2>1 DEF Billable
    <2>3. subs[b].disconnected \in Nat /\ start \in Nat
        BY <2>1, ConstantsAssumption
    <2> QED
        BY <2>2, <2>3
<1> QED
    BY <1>2 DEF Billable, ConnectedAfter

\* A step that leaves the catalogue and the generations at work alone.
LEMMA SameOnTrack ==
    ASSUME GenerationOnTrack, subs' = subs, tariffs' = tariffs,
           \A r \in Sessions : pc'[r] \in GenPhases \ {"fetch"} =>
              pc'[r] = pc[r] /\ gen'[r] = gen[r] /\ steady'[r] = steady[r]
    PROVE  GenerationOnTrack'
BY DEF GenerationOnTrack, OnTrack, Billable, Live, ActiveTariffs

\* What a step leaves of every session but s.
OthersStay(s) ==
    \A r \in Sessions \ {s} : gen'[r] = gen[r] /\ pc'[r] = pc[r] /\ steady'[r] = steady[r]

\* A step of one generation.
LEMMA StepOnTrack ==
    ASSUME GenerationOnTrack, subs' = subs, tariffs' = tariffs,
           NEW s \in Sessions, OthersStay(s),
           \A b \in steady'[s] :
              /\ Billable(b, gen'[s].start)
              /\ \/ gen'[s].rows[b] # None
                 \/ b \in gen'[s].todo
                 \/ pc'[s] # "pick" /\ gen'[s].sub = b
    PROVE  GenerationOnTrack'
<1>1. OnTrack(s)'
    BY DEF OnTrack, Billable, Live, ActiveTariffs
<1>2. ASSUME NEW r \in Sessions \ {s}, pc'[r] \in GenPhases \ {"fetch"}
      PROVE  OnTrack(r)'
    BY <1>2 DEF OthersStay, GenerationOnTrack, OnTrack, Billable, Live, ActiveTariffs
<1> QED
    BY <1>1, <1>2 DEF GenerationOnTrack

LEMMA FetchOnTrack ==
    ASSUME BillingInv, GenerationOnTrack, NEW s \in Sessions, FetchSubscriptions(s)
    PROVE  GenerationOnTrack'
<1> DEFINE todo == {b \in Subs : ConnectedAfter(b, gen[s].start)}
           meters == {b \in todo : HasMeter(b)}
<1>1. /\ pc[s] = "fetch" /\ gen' = [gen EXCEPT ![s].todo = todo, ![s].meters = meters]
      /\ steady' = [steady EXCEPT ![s] = {b \in Subs : Billable(b, gen[s].start)}]
      /\ pc' = [pc EXCEPT ![s] = "pick"] /\ subs' = subs /\ tariffs' = tariffs
    BY DEF FetchSubscriptions, db
<1>2. TypeOK /\ gen[s] \in Gen /\ gen[s].start \in MonthStarts
    BY <1>1, OldGen DEF BillingInv, SessionShape, SessionFits, GenPhases
<1>3. \A b \in {c \in Subs : Billable(c, gen[s].start)} :
         Billable(b, gen[s].start) /\ b \in todo
    BY <1>2, BillableFetched
<1> HIDE DEF todo, meters
<1>4. /\ gen'[s].start = gen[s].start /\ gen'[s].todo = todo
      /\ steady'[s] = {b \in Subs : Billable(b, gen[s].start)}
      /\ OthersStay(s)
    BY <1>1, <1>2 DEF TypeOK, Gen, OthersStay
<1> QED
    BY <1>1, <1>3, <1>4, StepOnTrack

\* A subscription that is still billable is never skipped.
LEMMA PickOnTrack ==
    ASSUME BillingInv, GenerationOnTrack, NEW s \in Sessions, NEW b \in Subs, PickTariff(s, b)
    PROVE  GenerationOnTrack'
<1>1. pc[s] = "pick" /\ subs' = subs /\ tariffs' = tariffs /\ steady' = steady
    BY DEF PickTariff, db
<1>2. TypeOK /\ gen[s] \in Gen
    BY <1>1, OldGen DEF BillingInv
<1>3. \A c \in steady[s] : /\ Billable(c, gen[s].start)
                           /\ gen[s].rows[c] # None \/ c \in gen[s].todo
    BY <1>1 DEF GenerationOnTrack, OnTrack, GenPhases
<1>4. CASE ActiveTariffs(b) = {} /\ gen' = [gen EXCEPT ![s].todo = @ \ {b}] /\ UNCHANGED pc
    <2>1. /\ gen'[s].start = gen[s].start /\ gen'[s].rows = gen[s].rows
          /\ gen'[s].todo = gen[s].todo \ {b} /\ OthersStay(s)
        BY <1>1, <1>2, <1>4 DEF TypeOK, Gen, OthersStay
    <2>2. b \notin steady[s]
        BY <1>3, <1>4 DEF Billable
    <2> QED
        BY <1>1, <1>3, <2>1, <2>2, StepOnTrack
<1>5. ASSUME NEW t \in ActiveTariffs(b),
             gen' = [gen EXCEPT ![s].todo = @ \ {b}, ![s].sub = b,
                                ![s].tariff = t, ![s].price = tariffs[t].price],
             pc' = [pc EXCEPT ![s] = "note"]
      PROVE  GenerationOnTrack'
    <2>1. gen'[s] = [gen[s] EXCEPT !.todo = @ \ {b}, !.sub = b,
                                   !.tariff = t, !.price = tariffs[t].price]
        BY <1>2, <1>5 DEF TypeOK
    <2>2. /\ gen'[s].start = gen[s].start /\ gen'[s].rows = gen[s].rows
          /\ gen'[s].todo = gen[s].todo \ {b} /\ gen'[s].sub = b
        BY <1>2, <2>1 DEF Gen
    <2>3. pc'[s] # "pick" /\ OthersStay(s)
        BY <1>1, <1>2, <1>5 DEF TypeOK, OthersStay
    <2> QED
        BY <1>1, <1>3, <2>2, <2>3, StepOnTrack
<1> QED
    BY <1>4, <1>5 DEF PickTariff

LEMMA ReadOnTrack ==
    ASSUME BillingInv, GenerationOnTrack, NEW s \in Sessions, CopyNote(s) \/ CarryReading(s)
    PROVE  GenerationOnTrack'
<1>1. /\ pc[s] \in {"note", "reading"} /\ subs' = subs /\ tariffs' = tariffs
      /\ steady' = steady
    BY DEF CopyNote, CarryReading, db
<1>2. TypeOK /\ gen[s] \in Gen
    BY <1>1, OldGen DEF BillingInv
<1>3. \A c \in steady[s] : /\ Billable(c, gen[s].start)
                           /\ \/ gen[s].rows[c] # None
                              \/ c \in gen[s].todo
                              \/ gen[s].sub = c
    BY <1>1 DEF GenerationOnTrack, OnTrack, GenPhases
<1>4. /\ gen'[s].start = gen[s].start /\ gen'[s].rows = gen[s].rows
      /\ gen'[s].todo = gen[s].todo /\ gen'[s].sub = gen[s].sub
      /\ pc'[s] # "pick" /\ OthersStay(s)
    BY <1>1, <1>2 DEF CopyNote, CarryReading, TypeOK, Gen, OthersStay
<1> QED
    BY <1>1, <1>3, <1>4, StepOnTrack

\* A generated row is not NULL, so its subscription has its calculation.
LEMMA InsertOnTrack ==
    ASSUME BillingInv, GenerationOnTrack, NEW s \in Sessions, InsertGenerated(s)
    PROVE  GenerationOnTrack'
<1> DEFINE g == gen[s]
           ok == Live(g.sub) /\ InTable(g.tariff)
           new == [NoGen EXCEPT !.pid = g.pid, !.start = g.start, !.todo = g.todo,
                                !.meters = g.meters,
                                !.rows = [g.rows EXCEPT ![g.sub] = GeneratedRow(g)]]
<1>1. pc[s] = "insert" /\ TypeOK /\ g \in Gen /\ Picked(g)
    BY OldGen DEF InsertGenerated, BillingInv, SessionShape, SessionFits, GenPhases
<1>2. CASE ~ok
    <2>1. Rollback(s)
        BY <1>2 DEF InsertGenerated
    <2> QED
        BY <1>1, <2>1, SameOnTrack DEF Rollback, TypeOK, db, GenPhases
<1>3. CASE ok
    <2>1. /\ gen' = [gen EXCEPT ![s] = new] /\ pc' = [pc EXCEPT ![s] = "pick"]
          /\ subs' = subs /\ tariffs' = tariffs /\ steady' = steady
        BY <1>3 DEF InsertGenerated, db
    <2>2. GeneratedRow(g) # None
        BY <1>1, NullAssumption, GeneratedRowType DEF Picked
    <2>3. /\ new.start = g.start /\ new.todo = g.todo
          /\ new.rows[g.sub] # None
          /\ \A c \in Subs : g.rows[c] # None => new.rows[c] # None
        BY <1>1, <2>2 DEF NoGen, Gen, Picked
    <2> HIDE DEF new
    <2>4. gen'[s] = new /\ OthersStay(s)
        BY <1>1, <2>1 DEF TypeOK, OthersStay
    <2>5. \A c \in steady[s] : c \in Subs
        BY <1>1 DEF TypeOK
    <2>6. \A c \in steady[s] : /\ Billable(c, g.start)
                               /\ g.rows[c] # None \/ c \in g.todo \/ g.sub = c
        BY <1>1 DEF GenerationOnTrack, OnTrack, GenPhases
    <2> QED
        BY <2>1, <2>3, <2>4, <2>5, <2>6, StepOnTrack
<1> QED
    BY <1>2, <1>3

\* A change of the catalogue: what it stops being billable leaves steady.
LEMMA CatalogueOnTrack ==
    ASSUME TypeOK, GenerationOnTrack, UNCHANGED <<pc, gen>>, KeepSteady
    PROVE  GenerationOnTrack'
<1>1. \A s \in Sessions : steady'[s] = {b \in steady[s] : Billable(b, gen[s].start)'}
    BY DEF KeepSteady
<1>2. ASSUME NEW s \in Sessions, pc'[s] \in GenPhases \ {"fetch"}
      PROVE  OnTrack(s)'
    <2>1. OnTrack(s)
        BY <1>2 DEF GenerationOnTrack
    <2>2. ASSUME NEW b \in steady'[s]
          PROVE  /\ Billable(b, gen[s].start)'
                 /\ \/ gen'[s].rows[b] # None
                    \/ b \in gen'[s].todo
                    \/ pc'[s] # "pick" /\ gen'[s].sub = b
        BY <1>1, <2>1, <2>2 DEF OnTrack
    <2> QED
        BY <2>2 DEF OnTrack
<1> QED
    BY <1>2 DEF GenerationOnTrack

\* What a session does keeps every generation on track.
LEMMA SessionOnTrack ==
    ASSUME BillingInv, GenerationOnTrack, NEW s \in Sessions, Request(s) \/ Continue(s) \/ Abort(s)
    PROVE  GenerationOnTrack'
<1>1. /\ pc \in [Sessions -> {"idle", "edit", "create"} \cup GenPhases]
      /\ gen \in [Sessions -> Gen]
      /\ steady \in [Sessions -> SUBSET Subs]
    BY DEF BillingInv, TypeOK
\* s ends up outside a generation, or at its first statement.
<1>2. ASSUME NEW phase, phase \notin GenPhases \ {"fetch"}, subs' = subs, tariffs' = tariffs,
             pc' = [pc EXCEPT ![s] = phase],
             \A r \in Sessions \ {s} : gen'[r] = gen[r] /\ steady'[r] = steady[r]
      PROVE  GenerationOnTrack'
    BY <1>1, <1>2, SameOnTrack
<1>3. "idle" \notin GenPhases /\ "edit" \notin GenPhases /\ "create" \notin GenPhases
    BY DEF GenPhases
<1>4. ASSUME NEW start \in MonthStarts, OpenPeriod(s, start)
      PROVE  GenerationOnTrack'
    BY <1>1, <1>2, <1>4 DEF OpenPeriod
<1>5. ASSUME NEW k, NEW change, StartEdit(s, k, change)
      PROVE  GenerationOnTrack'
    BY <1>2, <1>3, <1>5 DEF StartEdit, db
<1>6. ASSUME NEW b \in Subs, NEW p \in PeriodIds, NEW prev, NEW curr, NEW typed, NEW note,
             CreateCalculation(s, b, p, prev, curr, typed, note)
      PROVE  GenerationOnTrack'
    BY <1>2, <1>3, <1>6 DEF CreateCalculation, db
<1>7. ASSUME Rollback(s)
      PROVE  GenerationOnTrack'
    BY <1>1, <1>2, <1>3, <1>7 DEF Rollback, db
<1>8. CASE CommitPeriod(s)
    BY <1>1, <1>2, <1>3, <1>8 DEF CommitPeriod
<1>9. CASE WriteEdit(s)
    BY <1>2, <1>3, <1>9 DEF WriteEdit
<1>10. CASE InsertCalculation(s)
    BY <1>2, <1>3, <1>7, <1>10 DEF InsertCalculation
<1>11. CASE Request(s)
    BY <1>4, <1>5, <1>6, <1>11 DEF Request, UpdateReading, UpdateStatus, UpdateNote
<1>12. CASE Continue(s)
    BY <1>8, <1>9, <1>10, <1>12, FetchOnTrack, PickOnTrack, ReadOnTrack, InsertOnTrack
    DEF Continue, GenerationStep
<1>13. CASE Abort(s)
    BY <1>7, <1>13 DEF Abort
<1> QED
    BY <1>11, <1>12, <1>13

LEMMA NextOnTrack ==
    ASSUME BillingInv, GenerationOnTrack, [Next]_vars
    PROVE  GenerationOnTrack'
<1>1. CASE \E s \in Sessions : Request(s) \/ Continue(s) \/ Abort(s)
    BY <1>1, SessionOnTrack
<1>2. CASE ManagePeriods \/ ManageServices \/ UNCHANGED vars
    BY <1>2, SameOnTrack
    DEF ManagePeriods, ClosePeriod, ReopenPeriod, SetPeriodStatus, DeletePeriod,
        ManageServices, UpdateService, vars
<1>3. CASE ManageSubscriptions
    BY <1>3, CatalogueOnTrack
    DEF BillingInv, ManageSubscriptions, CreateSubscription, Disconnect, DeleteSubscription,
        SetSubscription
<1>4. CASE ManageTariffs
    BY <1>4, CatalogueOnTrack
    DEF BillingInv, ManageTariffs, CreateTariff, UpdateTariff, DeleteTariff, OnlyTariffs
<1> QED
    BY <1>1, <1>2, <1>3, <1>4 DEF Next

-----------------------------------------------------------------------------
LEMMA InitLedger == Init => LedgerInv
<1> SUFFICES ASSUME Init
             PROVE  LedgerInv
    OBVIOUS
<1>1. RowsAddUp /\ PendingRowsAddUp /\ GenerationOnTrack
    BY DEF Init, RowsAddUp, PendingRowsAddUp, GenerationOnTrack, NoGen, GenPhases
<1> QED
    BY <1>1, InitInv DEF LedgerInv

\* LedgerInv is inductive.
LEMMA LedgerInvariant == Spec => []LedgerInv
<1>1. Init => LedgerInv
    BY InitLedger
<1>2. LedgerInv /\ [Next]_vars => LedgerInv'
    BY NextInv, NextAddsUp, NextOnTrack DEF LedgerInv, AddUp
<1> QED
    BY <1>1, <1>2, PTL DEF Spec

\* The amount, the quantity and the readings of a calculation always agree,
\* however the edits of several operators and changes of its tariff interleave.
THEOREM RowsAlwaysAddUp == Spec => []RowsAddUp
<1>1. LedgerInv => RowsAddUp
    BY DEF LedgerInv
<1> QED
    BY <1>1, LedgerInvariant, PTL

\* Only the commit of its own generation brings a period into existence.
LEMMA BornByCommit ==
    ASSUME BillingInv, [Next]_vars, NEW p \in PeriodIds, ~Exists(p), Exists(p)'
    PROVE  \E r \in Sessions : CommitPeriod(r) /\ gen[r].pid = p
<1>1. periods[p] = None /\ periods'[p] # None /\ periods \in [PeriodIds -> Opt(Period)]
    BY DEF Exists, BillingInv, TypeOK
<1>2. periods' # periods
    BY <1>1
<1>3. ~(ManageSubscriptions \/ ManageServices \/ ManageTariffs \/ UNCHANGED vars)
    BY <1>2 DEF ManageSubscriptions, CreateSubscription, Disconnect, DeleteSubscription,
       SetSubscription, ManageServices, UpdateService, ManageTariffs, CreateTariff, UpdateTariff,
       DeleteTariff, OnlyTariffs, vars
<1>4. ~ManagePeriods
    <2>1. ASSUME NEW q \in PeriodIds, NEW from, NEW to, SetPeriodStatus(q, from, to)
          PROVE  FALSE
        <3>1. q # p /\ periods' = [periods EXCEPT ![q].status = to]
            BY <1>1, <2>1 DEF SetPeriodStatus, Exists
        <3> QED
            BY <1>1, <3>1
    <2>2. ASSUME NEW q \in PeriodIds, DeletePeriod(q)
          PROVE  FALSE
        BY <1>1, <2>2 DEF DeletePeriod
    <2> QED
        BY <2>1, <2>2 DEF ManagePeriods, ClosePeriod, ReopenPeriod
<1>5. ASSUME NEW s \in Sessions, Request(s) \/ Continue(s) \/ Abort(s)
      PROVE  CommitPeriod(s)
    <2>1. ~Request(s)
        BY <1>2 DEF Request, OpenPeriod, UpdateReading, UpdateStatus, UpdateNote, StartEdit,
           CreateCalculation, db
    <2>2. ~Rollback(s)
        BY <1>2 DEF Rollback, db
    <2>3. ~Abort(s)
        BY <2>2 DEF Abort
    <2>4. ~InsertGenerated(s)
        BY <1>2, <2>2 DEF InsertGenerated, db
    <2>5. ~InsertCalculation(s)
        BY <1>2, <2>2 DEF InsertCalculation
    <2> QED
        BY <1>2, <1>5, <2>1, <2>3, <2>4, <2>5 DEF Continue, GenerationStep, FetchSubscriptions,
           PickTariff, CopyNote, CarryReading, WriteEdit, db
<1>6. PICK r \in Sessions : CommitPeriod(r)
    BY <1>2, <1>3, <1>4, <1>5 DEF Next
<1>7. gen[r].pid = p
    BY <1>1, <1>6 DEF CommitPeriod
<1> QED
    BY <1>6, <1>7

\* The period that is committed is that of no other session.
LEMMA OwnPeriod ==
    ASSUME BillingInv, NEW r \in Sessions, CommitPeriod(r), NEW s \in Sessions,
           gen[s].pid = gen[r].pid
    PROVE  s = r
<1>1. pc[r] \in GenPhases
    BY DEF CommitPeriod, GenPhases
<1>2. gen[s].pid # None
    BY <1>1, ConstantsAssumption DEF BillingInv, SessionShape, SessionFits, PeriodIds
<1>3. pc[s] \in GenPhases
    BY <1>2 DEF BillingInv, SessionShape, SessionFits, NoGen
<1> QED
    BY <1>1, <1>3 DEF BillingInv, PendingPeriods, Claims

\* A committed generation holds the calculation of every subscription it
\* fetched that was billable all along.
LEMMA CommitComplete ==
    ASSUME LedgerInv, NEW s \in Sessions, CommitPeriod(s), NEW b \in steady[s]
    PROVE  calcs'[<<b, gen[s].pid>>] # None
<1>1. /\ pc[s] = "pick" /\ gen[s].todo = {}
      /\ calcs' = [k \in Keys |-> IF k[2] = gen[s].pid THEN gen[s].rows[k[1]] ELSE calcs[k]]
    BY DEF CommitPeriod
<1>2. gen[s].rows[b] # None
    BY <1>1 DEF LedgerInv, GenerationOnTrack, OnTrack, GenPhases
<1>3. <<b, gen[s].pid>> \in Keys
    BY <1>1 DEF LedgerInv, BillingInv, TypeOK, SessionShape, SessionFits, GenPhases, Keys
<1> QED
    BY <1>1, <1>2, <1>3

\* Generation is all or nothing: a period comes into existence together with
\* the calculation of every subscription that was due one.
THEOREM GenerationIsComplete == Spec => GenerationComplete
<1>1. ASSUME LedgerInv, [Next]_vars,
             NEW p \in PeriodIds, NEW s \in Sessions, ~Exists(p), Exists(p)', gen[s].pid = p,
             NEW b \in steady[s]
      PROVE  calcs'[<<b, p>>] # None
    <2>1. PICK r \in Sessions : CommitPeriod(r) /\ gen[r].pid = p
        BY <1>1, BornByCommit DEF LedgerInv
    <2>2. s = r
        BY <1>1, <2>1, OwnPeriod DEF LedgerInv
    <2> QED
        BY <1>1, <2>1, <2>2, CommitComplete
<1>2. LedgerInv /\ [Next]_vars
      => [\A p \in PeriodIds, s \in Sessions :
             ~Exists(p) /\ Exists(p)' /\ gen[s].pid = p
             => \A b \in steady[s] : calcs'[<<b, p>>] # None]_vars
    BY <1>1
<1> QED
    BY <1>2, LedgerInvariant, PTL DEF Spec, GenerationComplete

-----------------------------------------------------------------------------
(* What a generation copies from earlier months.                             *)

\* There is a latest one among finitely many periods.
LEMMA LatestExists ==
    ASSUME NEW P \in SUBSET PeriodIds, P # {}, \A p \in P : periods[p].start \in Nat
    PROVE  Latest(P) # {}
<1> DEFINE R == StrictSubsetOrdering(P)
           T == {U \in FiniteSubsetsOf(P) : U # {} /\ Latest(U) = {}}
<1>1. IsWellFoundedOn(R, FiniteSubsetsOf(P))
    BY FS_StrictSubsetOrderingWellFounded
<1>2. P \in FiniteSubsetsOf(P)
    <2>1. IsFiniteSet(PeriodIds)
        BY FS_Interval, ConstantsAssumption DEF PeriodIds
    <2> QED
        BY <2>1, FS_Subset DEF FiniteSubsetsOf
<1> SUFFICES ASSUME T # {}
             PROVE  FALSE
    BY <1>2
<1> HIDE DEF R
<1>3. PICK U \in T : \A V \in T : ~(<<V, U>> \in R)
    <2> T \subseteq FiniteSubsetsOf(P)
        OBVIOUS
    <2> HIDE DEF T
    <2> QED
        BY <1>1, WFMin
<1>4. U \subseteq P /\ IsFiniteSet(U) /\ Latest(U) = {}
    BY DEF FiniteSubsetsOf
<1>5. PICK x \in U : TRUE
    OBVIOUS
<1> DEFINE V == U \ {x}
<1>6. V \in FiniteSubsetsOf(P) /\ <<V, U>> \in R
    BY <1>4, FS_RemoveElement, FS_Subset DEF FiniteSubsetsOf, R, StrictSubsetOrdering
<1>7. V # {}
    BY <1>4 DEF Latest
<1>8. PICK y \in V : \A z \in V : periods[z].start <= periods[y].start
    BY <1>3, <1>6, <1>7 DEF Latest
<1>9. \A z \in U : periods[z].start \in Nat
    BY <1>4
<1>10. CASE periods[x].start <= periods[y].start
    <2>1. y \in Latest(U)
        BY <1>8, <1>10 DEF Latest
    <2> QED
        BY <1>4, <2>1
<1>11. CASE ~(periods[x].start <= periods[y].start)
    <2>1. \A z \in U : periods[z].start <= periods[x].start
        BY <1>8, <1>9, <1>11
    <2> QED
        BY <1>4, <2>1 DEF Latest
<1> QED
    BY <1>10, <1>11

\* A period keeps its month.
LEMMA StartStays ==
    ASSUME BillingInv, [Next]_vars, NEW p \in PeriodIds, Exists(p), Exists(p)'
    PROVE  periods'[p].start = periods[p].start
<1>1. periods[p] \in Period /\ periods \in [PeriodIds -> Opt(Period)]
    BY DEF BillingInv, TypeOK, Exists, Opt
<1>2. ASSUME NEW q \in PeriodIds, NEW from, NEW to, SetPeriodStatus(q, from, to)
      PROVE  periods'[p].start = periods[p].start
    BY <1>1, <1>2 DEF SetPeriodStatus, Period
<1>3. ASSUME NEW q \in PeriodIds, DeletePeriod(q)
      PROVE  periods'[p].start = periods[p].start
    BY <1>1, <1>3 DEF DeletePeriod, Exists
<1>4. ASSUME NEW s \in Sessions, CommitPeriod(s)
      PROVE  periods'[p].start = periods[p].start
    <2>1. gen[s].pid # p
        BY <1>4 DEF CommitPeriod, BillingInv, PendingPeriods, Claims, GenPhases, Exists
    <2> QED
        BY <1>1, <1>4, <2>1 DEF CommitPeriod
<1>5. CASE periods' = periods
    BY <1>5
<1>6. CASE ManagePeriods
    BY <1>2, <1>3, <1>6 DEF ManagePeriods, ClosePeriod, ReopenPeriod
<1>7. ManageSubscriptions \/ ManageServices \/ ManageTariffs \/ UNCHANGED vars
      => periods' = periods
    BY DEF ManageSubscriptions, CreateSubscription, Disconnect, DeleteSubscription,
       SetSubscription, ManageServices, UpdateService, ManageTariffs, CreateTariff, UpdateTariff,
       DeleteTariff, OnlyTariffs, vars
<1>8. ASSUME NEW s \in Sessions, Request(s) \/ Continue(s) \/ Abort(s), ~CommitPeriod(s)
      PROVE  periods' = periods
    <2>1. Request(s) => periods' = periods
        BY DEF Request, OpenPeriod, UpdateReading, UpdateStatus, UpdateNote, StartEdit,
           CreateCalculation, db
    <2>2. Rollback(s) => periods' = periods
        BY DEF Rollback, db
    <2>3. InsertGenerated(s) \/ InsertCalculation(s) \/ Abort(s) => periods' = periods
        BY <2>2 DEF InsertGenerated, InsertCalculation, Abort, db
    <2> QED
        BY <1>8, <2>1, <2>3 DEF Continue, GenerationStep, FetchSubscriptions, PickTariff, CopyNote,
           CarryReading, WriteEdit, db
<1> QED
    BY <1>4, <1>5, <1>6, <1>7, <1>8 DEF Next

\* The queries of a generation answer the same as long as no calculation is written.
LEMMA CopiesStay ==
    ASSUME BillingInv, [Next]_vars, calcs' = calcs, NEW b \in Subs, NEW start
    PROVE  LastNote(b, start)' = LastNote(b, start) /\ LastReading(b)' = LastReading(b)
<1>1. BillingInv'
    BY NextInv
<1>2. ASSUME NEW p \in PeriodIds, calcs[<<b, p>>] # None
      PROVE  Exists(p) /\ Exists(p)' /\ periods'[p].start = periods[p].start
    <2>1. <<b, p>> \in Keys
        BY DEF Keys
    <2>2. Exists(p) /\ Exists(p)'
        BY <1>1, <1>2, <2>1 DEF BillingInv, RowsHaveParents
    <2> QED
        BY <2>2, StartStays
<1>3. PeriodsOf(b)' = PeriodsOf(b)
    BY <1>2 DEF PeriodsOf
<1>4. \A p \in PeriodsOf(b) : p \in PeriodIds /\ periods'[p].start = periods[p].start
    BY <1>2 DEF PeriodsOf
<1> DEFINE P == {p \in PeriodsOf(b) : periods[p].start < start}
           Q == {p \in PeriodsOf(b) : calcs[<<b, p>>].curr # None}
<1>5. P' = P /\ Q' = Q
    BY <1>3, <1>4
<1> DEFINE L == Latest(P)
           M == Latest(Q)
<1>6. L' = L /\ M' = M
    BY <1>3, <1>4, <1>5 DEF Latest
<1>7. /\ LastNote(b, start) = IF L = {} THEN None ELSE calcs[<<b, CHOOSE p \in L : TRUE>>].note
      /\ LastReading(b) = IF M = {} THEN None ELSE calcs[<<b, CHOOSE p \in M : TRUE>>].curr
    BY DEF LastNote, LastReading
<1>8. /\ LastNote(b, start)' = IF L' = {} THEN None ELSE calcs'[<<b, CHOOSE p \in L' : TRUE>>].note
      /\ LastReading(b)' = IF M' = {} THEN None ELSE calcs'[<<b, CHOOSE p \in M' : TRUE>>].curr
    BY DEF LastNote, LastReading
<1> HIDE DEF L, M
<1> QED
    BY <1>6, <1>7, <1>8

\* No calculation is written while a month is generated, but by its own commit.
GenerationUndisturbed ==
    \A s \in Sessions : pc[s] \in GenPhases /\ calcs' # calcs => CommitPeriod(s)

\* A session that is not at work has copied nothing.
LEMMA NothingCopied ==
    ASSUME NEW s \in Sessions, gen'[s] = NoGen, pc'[s] \notin {"reading", "insert"}
    PROVE  CarriesLatest(s)'
BY DEF CarriesLatest, NoGen

\* What has been inserted stays as it was copied, while nothing is written.
LEMMA RowsStay ==
    ASSUME BillingInv, CopiesStand, [Next]_vars, calcs' = calcs, NEW s \in Sessions,
           gen'[s].rows = gen[s].rows, gen'[s].start = gen[s].start,
           gen'[s].meters = gen[s].meters, NEW b \in Subs,
           gen'[s].rows[b] # None
    PROVE  /\ gen'[s].rows[b].note = LastNote(b, gen[s].start)'
           /\ b \in gen'[s].meters => gen'[s].rows[b].prev = LastReading(b)'
<1>1. /\ gen[s].rows[b].note = LastNote(b, gen[s].start)
      /\ b \in gen[s].meters => gen[s].rows[b].prev = LastReading(b)
    BY DEF CopiesStand, CarriesLatest
<1> DEFINE start == gen[s].start
<1>2. LastReading(b)' = LastReading(b)
    BY CopiesStay
<1>3. PICK m : m = gen[s].start /\ m = gen'[s].start
    OBVIOUS
<1>4. LastNote(b, m)' = LastNote(b, m)
    BY CopiesStay
<1> QED
    BY <1>1, <1>2, <1>3, <1>4

\* What is copied next to what has been inserted, while nothing is written.
LEMMA CopyStays ==
    ASSUME BillingInv, CopiesStand, [Next]_vars, calcs' = calcs, NEW s \in Sessions,
           gen'[s].rows = gen[s].rows, gen'[s].start = gen[s].start,
           gen'[s].meters = gen[s].meters, pc'[s] = "fetch" => pc[s] = "fetch",
           pc'[s] \in {"reading", "insert"} =>
              gen'[s].sub \in Subs /\ gen'[s].note = LastNote(gen'[s].sub, gen[s].start),
           pc'[s] = "insert" /\ gen'[s].sub \in gen'[s].meters => gen'[s].prev = LastReading(gen'[s].sub)
    PROVE  CarriesLatest(s)'
<1>1. PICK m, b : m = gen[s].start /\ m = gen'[s].start /\ b = gen'[s].sub
    OBVIOUS
<1>2. b \in Subs => LastNote(b, m)' = LastNote(b, m) /\ LastReading(b)' = LastReading(b)
    BY CopiesStay
<1>3. pc'[s] \in {"reading", "insert"} => gen'[s].note = LastNote(gen[s].sub, gen[s].start)'
    BY <1>1, <1>2
<1>4. pc'[s] = "insert" /\ gen'[s].sub \in gen'[s].meters => gen'[s].prev = LastReading(gen[s].sub)'
    BY <1>1, <1>2
<1>5. ASSUME NEW d \in Subs, gen'[s].rows[d] # None
      PROVE  /\ gen'[s].rows[d].note = LastNote(d, gen[s].start)'
             /\ d \in gen'[s].meters => gen'[s].rows[d].prev = LastReading(d)'
    BY <1>5, RowsStay
<1>6. pc'[s] = "fetch" => gen'[s].rows = NoGen.rows
    BY DEF CopiesStand, CarriesLatest
<1>7. NoGen' = NoGen
    BY DEF NoGen
<1>8. (pc[s] = "fetch" => gen[s].rows = NoGen.rows)'
    BY <1>6, <1>7
<1> QED
    BY <1>3, <1>4, <1>5, <1>8 DEF CarriesLatest

\* The row that is inserted is the copy that was made of the earlier months.
LEMMA InsertCopies ==
    ASSUME BillingInv, CopiesStand, [Next]_vars, NEW s \in Sessions, InsertGenerated(s)
    PROVE  CarriesLatest(s)'
<1> DEFINE o == gen[s]
           row == GeneratedRow(o)
<1>1. CASE Live(o.sub) /\ InTable(o.tariff)
    <2> DEFINE g == [NoGen EXCEPT !.pid = o.pid, !.start = o.start, !.todo = o.todo,
                                  !.meters = o.meters,
                                  !.rows = [o.rows EXCEPT ![o.sub] = row]]
    <2>1. /\ pc[s] = "insert" /\ gen' = [gen EXCEPT ![s] = g]
          /\ pc' = [pc EXCEPT ![s] = "pick"] /\ calcs' = calcs
        BY <1>1 DEF InsertGenerated, db
    <2>2. Picked(o) /\ o \in Gen
        BY <2>1, OldGen DEF BillingInv, SessionShape, SessionFits
    <2>3. row.note = o.note /\ row.prev = o.prev
        BY DEF GeneratedRow
    <2>4. /\ o.note = LastNote(o.sub, o.start)
          /\ o.sub \in o.meters => o.prev = LastReading(o.sub)
        BY <2>1 DEF CopiesStand, CarriesLatest
    <2> HIDE DEF row
    <2>5. /\ \A b \in Subs : g.rows[b] = IF b = o.sub THEN row ELSE o.rows[b]
          /\ g.start = o.start /\ g.meters = o.meters /\ o.sub \in Subs
        BY <2>2 DEF Gen, NoGen, Picked
    <2> HIDE DEF g
    <2>6. gen'[s] = g /\ pc'[s] = "pick"
        BY <2>1 DEF BillingInv, TypeOK
    <2>7. PICK m : m = gen[s].start /\ m = gen'[s].start
        BY <2>5, <2>6
    <2>8. ASSUME NEW b \in Subs, gen'[s].rows[b] # None
          PROVE  /\ gen'[s].rows[b].note = LastNote(b, gen[s].start)'
                 /\ b \in gen'[s].meters => gen'[s].rows[b].prev = LastReading(b)'
        <3>1. LastNote(b, m)' = LastNote(b, m) /\ LastReading(b)' = LastReading(b)
            BY <2>1, CopiesStay
        <3>2. /\ gen'[s].rows[b].note = LastNote(b, m)
              /\ b \in gen'[s].meters => gen'[s].rows[b].prev = LastReading(b)
            <4>1. CASE b = o.sub
                BY <2>3, <2>4, <2>5, <2>6, <2>7, <4>1
            <4>2. CASE b # o.sub
                BY <2>5, <2>6, <2>7, <2>8, <4>2 DEF CopiesStand, CarriesLatest
            <4> QED
                BY <4>1, <4>2
        <3> QED
            BY <2>7, <3>1, <3>2
    <2> QED
        BY <2>6, <2>8 DEF CarriesLatest
<1>2. CASE ~(Live(o.sub) /\ InTable(o.tariff))
    <2>1. gen'[s] = NoGen /\ pc'[s] = "idle"
        BY <1>2 DEF InsertGenerated, Rollback, BillingInv, TypeOK
    <2> QED
        BY <2>1, NothingCopied
<1> QED
    BY <1>1, <1>2

\* The statements of a generation copy what stands in the nearest months.
LEMMA GenerationCopies ==
    ASSUME BillingInv, CopiesStand, [Next]_vars, NEW s \in Sessions, GenerationStep(s)
    PROVE  CarriesLatest(s)'
<1>1. /\ pc \in [Sessions -> {"idle", "edit", "create"} \cup GenPhases]
      /\ gen \in [Sessions -> Gen] /\ gen[s] \in Gen
    BY DEF BillingInv, TypeOK
<1>2. CASE FetchSubscriptions(s)
    <2>1. /\ gen'[s].rows = gen[s].rows /\ gen'[s].start = gen[s].start /\ pc'[s] = "pick"
          /\ calcs' = calcs
        BY <1>1, <1>2 DEF FetchSubscriptions, Gen, db
    <2>2. gen[s].rows = NoGen.rows
        BY <1>2 DEF FetchSubscriptions, CopiesStand, CarriesLatest
    <2>3. \A b \in Subs : gen'[s].rows[b] = None
        BY <2>1, <2>2 DEF NoGen
    <2> QED
        BY <2>1, <2>3 DEF CarriesLatest
<1>3. ASSUME NEW b \in Subs, PickTariff(s, b)
      PROVE  CarriesLatest(s)'
    <2>1. CASE gen' = [gen EXCEPT ![s].todo = @ \ {b}] /\ UNCHANGED pc
        <3>1. /\ gen'[s].rows = gen[s].rows /\ gen'[s].start = gen[s].start /\ pc'[s] = "pick"
              /\ gen'[s].meters = gen[s].meters /\ calcs' = calcs
            BY <1>1, <1>3, <2>1 DEF PickTariff, Gen, db
        <3> QED
            BY <3>1, CopyStays
    <2>2. ASSUME NEW t,
                 gen' = [gen EXCEPT ![s].todo = @ \ {b}, ![s].sub = b,
                                    ![s].tariff = t, ![s].price = tariffs[t].price],
                 pc' = [pc EXCEPT ![s] = "note"]
          PROVE  CarriesLatest(s)'
        <3>1. gen'[s].rows = gen[s].rows /\ gen'[s].start = gen[s].start /\ pc'[s] = "note"
              /\ gen'[s].meters = gen[s].meters
            BY <1>1, <2>2 DEF Gen
        <3>2. calcs' = calcs
            BY <1>3 DEF PickTariff, db
        <3> QED
            BY <3>1, <3>2, CopyStays
    <2> QED
        BY <1>3, <2>1, <2>2 DEF PickTariff
<1>4. CASE CopyNote(s)
    <2>1. /\ gen'[s].rows = gen[s].rows /\ gen'[s].start = gen[s].start
          /\ gen'[s].meters = gen[s].meters
          /\ gen'[s].sub = gen[s].sub /\ gen'[s].note = LastNote(gen[s].sub, gen[s].start)
        BY <1>1, <1>4 DEF CopyNote, Gen
    <2>2. /\ pc'[s] = IF gen[s].sub \in gen[s].meters THEN "reading" ELSE "insert"
          /\ calcs' = calcs
        BY <1>1, <1>4 DEF CopyNote, db
    <2>3. gen[s].sub \in Subs
        BY <1>4 DEF CopyNote, BillingInv, SessionShape, SessionFits, Picked
    <2> QED
        BY <2>1, <2>2, <2>3, CopyStays
<1>5. CASE CarryReading(s)
    <2>1. /\ gen'[s].rows = gen[s].rows /\ gen'[s].start = gen[s].start
          /\ gen'[s].meters = gen[s].meters
          /\ gen'[s].sub = gen[s].sub /\ gen'[s].note = gen[s].note
          /\ gen'[s].prev = LastReading(gen[s].sub)
        BY <1>1, <1>5 DEF CarryReading, Gen
    <2>2. gen[s].sub \in Subs /\ gen[s].note = LastNote(gen[s].sub, gen[s].start)
        BY <1>5 DEF CarryReading, BillingInv, SessionShape, SessionFits, Picked, CopiesStand,
           CarriesLatest
    <2>3. calcs' = calcs /\ pc'[s] = "insert"
        BY <1>1, <1>5 DEF CarryReading, db
    <2> QED
        BY <2>1, <2>2, <2>3, CopyStays
<1>6. CASE CommitPeriod(s)
    <2>1. gen'[s] = NoGen /\ pc'[s] = "idle"
        BY <1>1, <1>6 DEF CommitPeriod
    <2> QED
        BY <2>1, NothingCopied
<1> QED
    BY <1>2, <1>3, <1>4, <1>5, <1>6, InsertCopies DEF GenerationStep

\* A session at work takes its next step, or none.
LEMMA WhoseStep ==
    ASSUME BillingInv, [Next]_vars, NEW s \in Sessions
    PROVE  \/ pc'[s] \notin GenPhases
           \/ gen'[s] = gen[s] /\ pc'[s] = pc[s]
           \/ \E start \in MonthStarts : OpenPeriod(s, start)
           \/ GenerationStep(s)
<1>1. /\ pc \in [Sessions -> {"idle", "edit", "create"} \cup GenPhases]
      /\ gen \in [Sessions -> Gen]
    BY DEF BillingInv, TypeOK
<1> DEFINE Elsewhere == gen'[s] = gen[s] /\ pc'[s] = pc[s]
<1>2. CASE UNCHANGED <<gen, pc>>
    BY <1>2
<1>3. ManagePeriods \/ ManageSubscriptions \/ ManageServices \/ ManageTariffs
      \/ UNCHANGED vars
      => UNCHANGED <<gen, pc>>
    BY DEF ManagePeriods, ClosePeriod, ReopenPeriod, SetPeriodStatus, DeletePeriod,
       ManageSubscriptions, CreateSubscription, Disconnect, DeleteSubscription, SetSubscription,
       ManageServices, UpdateService, ManageTariffs, CreateTariff, UpdateTariff, DeleteTariff,
       OnlyTariffs, vars
<1>4. ASSUME NEW r \in Sessions, r # s, Request(r) \/ Continue(r) \/ Abort(r)
      PROVE  Elsewhere
    <2>1. Rollback(r) => Elsewhere
        BY <1>1, <1>4 DEF Rollback
    <2>2. Request(r) => Elsewhere
        BY <1>1, <1>4 DEF Request, OpenPeriod, UpdateReading, UpdateStatus, UpdateNote, StartEdit,
           CreateCalculation
    <2>3. InsertGenerated(r) \/ InsertCalculation(r) \/ Abort(r) => Elsewhere
        BY <1>1, <1>4, <2>1 DEF InsertGenerated, InsertCalculation, Abort
    <2>4. FetchSubscriptions(r) \/ CopyNote(r) \/ CarryReading(r) \/ CommitPeriod(r)
          \/ WriteEdit(r) => Elsewhere
        BY <1>1, <1>4 DEF FetchSubscriptions, CopyNote, CarryReading, CommitPeriod, WriteEdit
    <2>5. ASSUME NEW b \in Subs, PickTariff(r, b)
          PROVE  Elsewhere
        BY <1>1, <1>4, <2>5 DEF PickTariff
    <2> QED
        BY <1>4, <2>2, <2>3, <2>4, <2>5 DEF Continue, GenerationStep
<1>5. CASE Request(s) \/ Continue(s) \/ Abort(s)
    <2>1. ASSUME NEW k, NEW change, StartEdit(s, k, change)
          PROVE  pc'[s] \notin GenPhases
        BY <1>1, <2>1 DEF StartEdit, GenPhases
    <2>2. Rollback(s) \/ WriteEdit(s) => pc'[s] \notin GenPhases
        BY <1>1 DEF Rollback, WriteEdit, GenPhases
    <2>3. InsertCalculation(s) \/ Abort(s) => pc'[s] \notin GenPhases
        BY <1>1, <2>2 DEF InsertCalculation, Abort, GenPhases
    <2>4. ASSUME NEW b \in Subs, NEW p \in PeriodIds, NEW prev \in Opt(Readings),
                 NEW curr \in Opt(Readings), NEW typed \in Opt(Quantities), NEW note \in Notes,
                 CreateCalculation(s, b, p, prev, curr, typed, note)
          PROVE  pc'[s] \notin GenPhases
        BY <1>1, <2>4 DEF CreateCalculation, GenPhases
    <2> QED
        BY <1>5, <2>1, <2>2, <2>3, <2>4
        DEF Request, UpdateReading, UpdateStatus, UpdateNote, Continue
<1> QED
    BY <1>2, <1>3, <1>4, <1>5 DEF Next

\* CopiesStand is preserved while no calculation is written.
LEMMA NextCopies ==
    ASSUME BillingInv, CopiesStand, [Next]_vars, GenerationUndisturbed
    PROVE  CopiesStand'
<1> SUFFICES ASSUME NEW s \in Sessions
             PROVE  CarriesLatest(s)'
    BY DEF CopiesStand
<1>1. CASE pc'[s] \notin GenPhases
    <2>1. gen'[s] = NoGen
        BY <1>1, NextInv DEF BillingInv, SessionShape, SessionFits
    <2> QED
        BY <1>1, <2>1, NothingCopied DEF GenPhases
<1>2. CASE gen'[s] = gen[s] /\ pc'[s] = pc[s] /\ pc[s] \in GenPhases
    <2>1. ~CommitPeriod(s)
        BY <1>2 DEF CommitPeriod, BillingInv, TypeOK, GenPhases
    <2>2. calcs' = calcs
        BY <1>2, <2>1 DEF GenerationUndisturbed
    <2>3. pc[s] \in {"reading", "insert"} => gen[s].sub \in Subs
        BY DEF BillingInv, SessionShape, SessionFits, Picked
    <2> QED
        BY <1>2, <2>2, <2>3, CopyStays DEF CopiesStand, CarriesLatest
<1>3. ASSUME NEW start \in MonthStarts, OpenPeriod(s, start)
      PROVE  CarriesLatest(s)'
    <2>1. gen'[s].rows = NoGen.rows /\ pc'[s] = "fetch"
        BY <1>3 DEF OpenPeriod, BillingInv, TypeOK, NoGen
    <2> QED
        BY <2>1 DEF CarriesLatest, NoGen
<1> QED
    BY <1>1, <1>2, <1>3, WhoseStep, GenerationCopies

\* The row of a subscription in a month that has just been committed.
LEMMA CommittedCopy ==
    ASSUME BillingInv, CopiesStand, [Next]_vars, NEW p \in PeriodIds, NEW b \in Subs,
           ~Exists(p), Exists(p)', calcs'[<<b, p>>] # None
    PROVE  /\ calcs'[<<b, p>>].note = LastNote(b, periods'[p].start)
           /\ (\E r \in Sessions : gen[r].pid = p /\ b \in gen[r].meters)
              => calcs'[<<b, p>>].prev = LastReading(b)
<1>1. PICK s \in Sessions : CommitPeriod(s) /\ gen[s].pid = p
    BY BornByCommit
<1>2. periods'[p].start = gen[s].start
    BY <1>1 DEF CommitPeriod, BillingInv, TypeOK
<1>3. calcs'[<<b, p>>] = gen[s].rows[b]
    BY <1>1 DEF CommitPeriod, Keys
<1>4. ASSUME NEW r \in Sessions, gen[r].pid = p
      PROVE  r = s
    BY <1>1, <1>4, OwnPeriod
<1> QED
    BY <1>2, <1>3, <1>4 DEF CopiesStand, CarriesLatest

\* At the start nothing has been copied.
LEMMA InitCopies == Init => CopiesStand
BY DEF Init, CopiesStand, CarriesLatest, NoGen

\* Periods that hold a row of b exist, and so have a month.
LEMMA MonthsOfRows ==
    ASSUME TypeOK, NEW b \in Subs
    PROVE  \A p \in PeriodsOf(b) : p \in PeriodIds /\ periods[p].start \in Nat
BY ConstantsAssumption DEF TypeOK, PeriodsOf, Exists, Opt, Period

\* The first query: the note of the nearest earlier month, or none.
LEMMA NoteOfNearest ==
    ASSUME TypeOK, NEW b \in Subs, NEW start
    PROVE  \/ EarlierPeriods(b, start) = {} /\ LastNote(b, start) = None
           \/ \E q \in EarlierPeriods(b, start) :
                 /\ LastNote(b, start) = calcs[<<b, q>>].note
                 /\ \A r \in EarlierPeriods(b, start) : periods[r].start <= periods[q].start
<1> DEFINE P == {p \in PeriodsOf(b) : periods[p].start < start}
           L == Latest(P)
<1>1. P = EarlierPeriods(b, start)
    BY DEF EarlierPeriods, PeriodsOf
<1>2. LastNote(b, start) = IF L = {} THEN None ELSE calcs[<<b, CHOOSE p \in L : TRUE>>].note
    BY DEF LastNote
<1>3. CASE P = {}
    <2>1. L = {}
        BY <1>3 DEF Latest
    <2> QED
        BY <1>1, <1>2, <1>3, <2>1
<1>4. CASE P # {}
    <2>1. L # {}
        BY <1>4, MonthsOfRows, LatestExists
    <2>2. PICK q \in L : LastNote(b, start) = calcs[<<b, q>>].note
        BY <1>2, <2>1
    <2>3. q \in P /\ \A r \in P : periods[r].start <= periods[q].start
        BY <2>2 DEF Latest
    <2> QED
        BY <1>1, <2>2, <2>3
<1> QED
    BY <1>3, <1>4

\* The second query: the reading of the latest month that has one, or none.
LEMMA ReadingOfLatest ==
    ASSUME TypeOK, NEW b \in Subs
    PROVE  LET read == {q \in PeriodsOf(b) : calcs[<<b, q>>].curr # None}
           IN  LastReading(b) \in IF read = {} THEN {None}
                                  ELSE {calcs[<<b, q>>].curr : q \in Latest(read)}
<1> DEFINE read == {q \in PeriodsOf(b) : calcs[<<b, q>>].curr # None}
           L == Latest(read)
<1>1. LastReading(b) = IF L = {} THEN None ELSE calcs[<<b, CHOOSE p \in L : TRUE>>].curr
    BY DEF LastReading
<1>2. CASE read = {}
    <2>1. L = {}
        BY <1>2 DEF Latest
    <2> QED
        BY <1>1, <1>2, <2>1
<1>3. CASE read # {}
    <2>1. L # {}
        BY <1>3, MonthsOfRows, LatestExists
    <2> HIDE DEF L
    <2>2. PICK q \in L : LastReading(b) = calcs[<<b, q>>].curr
        BY <1>1, <2>1
    <2>3. LastReading(b) \in {calcs[<<b, r>>].curr : r \in L}
        BY <2>2
    <2> QED
        BY <1>3, <2>3 DEF L
<1> QED
    BY <1>2, <1>3

\* What a generation has copied stands, in every state of a behaviour in which nobody
\* else writes a calculation meanwhile.
LEMMA CopiesInvariant == Spec /\ [][GenerationUndisturbed]_vars => [](BillingInv /\ CopiesStand)
<1>1. Init => CopiesStand
    BY InitCopies
<1>2. BillingInv /\ CopiesStand /\ [Next]_vars /\ [GenerationUndisturbed]_vars => CopiesStand'
    <2>1. UNCHANGED vars => GenerationUndisturbed
        BY DEF vars, GenerationUndisturbed
    <2> QED
        BY <2>1, NextCopies
<1> QED
    BY <1>1, <1>2, BillingInvariant, PTL DEF Spec

\* The note of a generated calculation is that of the nearest earlier month that has a
\* calculation of the subscription, cleared or not, however many months are opened and in
\* whatever order, unless somebody writes a calculation while the month is generated.
THEOREM NotesCarried == Spec /\ [][GenerationUndisturbed]_vars => NoteCarriedForward
<1>1. ASSUME BillingInv, CopiesStand, [Next]_vars, NEW p \in PeriodIds, NEW b \in Subs,
             ~Exists(p), Exists(p)', calcs'[<<b, p>>] # None
      PROVE  \/ /\ EarlierPeriods(b, periods'[p].start) = {}
                /\ calcs'[<<b, p>>].note = None
             \/ \E q \in EarlierPeriods(b, periods'[p].start) :
                   /\ calcs'[<<b, p>>].note = calcs[<<b, q>>].note
                   /\ \A r \in EarlierPeriods(b, periods'[p].start) :
                         periods[r].start <= periods[q].start
    <2>1. PICK start : start = periods'[p].start
        OBVIOUS
    <2>2. calcs'[<<b, p>>].note = LastNote(b, start)
        BY <1>1, <2>1, CommittedCopy
    <2> QED
        BY <1>1, <2>1, <2>2, NoteOfNearest DEF BillingInv
<1>2. BillingInv /\ CopiesStand /\ [Next]_vars
      => [\A p \in PeriodIds, b \in Subs :
             ~Exists(p) /\ Exists(p)' /\ calcs'[<<b, p>>] # None
             => \/ /\ EarlierPeriods(b, periods'[p].start) = {}
                   /\ calcs'[<<b, p>>].note = None
                \/ \E q \in EarlierPeriods(b, periods'[p].start) :
                      /\ calcs'[<<b, p>>].note = calcs[<<b, q>>].note
                      /\ \A r \in EarlierPeriods(b, periods'[p].start) :
                            periods[r].start <= periods[q].start]_vars
    BY <1>1
<1> QED
    BY <1>2, CopiesInvariant, PTL DEF Spec, NoteCarriedForward

\* A generated calculation of a meter starts from the reading of the latest month that
\* has one, over months without a reading, unless somebody writes a calculation while
\* the month is generated.
THEOREM ReadingsCarried == Spec /\ [][GenerationUndisturbed]_vars => ReadingCarriedForward
<1>1. ASSUME BillingInv, CopiesStand, [Next]_vars, NEW p \in PeriodIds, NEW b \in Subs,
             ~Exists(p), Exists(p)', calcs'[<<b, p>>] # None,
             \E s \in Sessions : gen[s].pid = p /\ b \in gen[s].meters
      PROVE  LET read == {q \in PeriodsOf(b) : calcs[<<b, q>>].curr # None}
             IN  calcs'[<<b, p>>].prev
                    \in IF read = {} THEN {None} ELSE {calcs[<<b, q>>].curr : q \in Latest(read)}
    BY <1>1, CommittedCopy, ReadingOfLatest DEF BillingInv
<1>2. BillingInv /\ CopiesStand /\ [Next]_vars
      => [\A p \in PeriodIds, b \in Subs :
             LET read == {q \in PeriodsOf(b) : calcs[<<b, q>>].curr # None}
             IN  ~Exists(p) /\ Exists(p)' /\ calcs'[<<b, p>>] # None
                 /\ (\E s \in Sessions : gen[s].pid = p /\ b \in gen[s].meters)
                 /\ (\A q \in read : periods[q].start < periods'[p].start)
                 => calcs'[<<b, p>>].prev
                       \in IF read = {} THEN {None}
                           ELSE {calcs[<<b, q>>].curr : q \in Latest(read)}]_vars
    BY <1>1
<1> QED
    BY <1>2, CopiesInvariant, PTL DEF Spec, ReadingCarriedForward

\* With one session there is nobody else: notes and readings are carried forward when
\* requests come one after the other, whatever happens to periods, tariffs and
\* subscriptions while a month is generated.
COROLLARY SequentialMonths ==
    ASSUME \A r, s \in Sessions : r = s
    PROVE  Spec => NoteCarriedForward /\ ReadingCarriedForward
<1>1. ASSUME BillingInv, [Next]_vars
      PROVE  GenerationUndisturbed
    <2> SUFFICES ASSUME NEW s \in Sessions, pc[s] \in GenPhases, calcs' # calcs
                 PROVE  CommitPeriod(s)
        BY DEF GenerationUndisturbed
    <2>1. ~(ManagePeriods \/ ManageSubscriptions \/ ManageServices \/ ManageTariffs
             \/ UNCHANGED vars)
        BY DEF ManagePeriods, ClosePeriod, ReopenPeriod, SetPeriodStatus, DeletePeriod,
           ManageSubscriptions, CreateSubscription, Disconnect, DeleteSubscription,
           SetSubscription, ManageServices, UpdateService, ManageTariffs, CreateTariff,
           UpdateTariff, DeleteTariff, OnlyTariffs, vars
    <2>2. Request(s) \/ Continue(s) \/ Abort(s)
        BY <1>1, <2>1 DEF Next
    <2>3. ~Request(s)
        BY DEF Request, OpenPeriod, UpdateReading, UpdateStatus, UpdateNote, StartEdit,
           CreateCalculation, db
    <2>4. ~Rollback(s)
        BY DEF Rollback, db
    <2>5. ~(Abort(s) \/ InsertGenerated(s) \/ InsertCalculation(s) \/ WriteEdit(s))
        BY <2>4 DEF Abort, InsertGenerated, InsertCalculation, WriteEdit, GenPhases, db
    <2> QED
        BY <2>2, <2>3, <2>5 DEF Continue, GenerationStep, FetchSubscriptions, PickTariff, CopyNote,
           CarryReading, db
<1> QED
    BY <1>1, BillingInvariant, NotesCarried, ReadingsCarried, PTL DEF Spec
=============================================================================
