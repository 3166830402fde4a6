--------------------------- MODULE BillingProofs ---------------------------
(***************************************************************************)
(* Type correctness, referential integrity and the uniqueness of a month,  *)
(* for any number of sessions, subscriptions, tariffs and periods.         *)
(***************************************************************************)
EXTENDS Billing, TLAPS

-----------------------------------------------------------------------------
(* What the operators of the model return. *)

\* The rounded amount of non-negative numbers is one.
LEMMA AmountNat ==
    ASSUME NEW q \in Nat, NEW p \in Nat
    PROVE  Amount(q, p) \in Nat
<1>1. q * p \in Nat
    OBVIOUS
<1>2. \A n \in Nat : (n + 50) \div 100 \in Nat
    OBVIOUS
<1> QED
    BY <1>1, <1>2 DEF Amount

\* A consumption is never negative.
LEMMA ConsumedNat ==
    ASSUME NEW prev \in Opt(Nat), NEW curr \in Nat
    PROVE  Consumed(prev, curr) \in Nat
BY DEF Consumed, Opt

\* A transaction without uncommitted rows is well formed.
LEMMA NoGenType == NoGen \in Gen
BY DEF NoGen, Gen, Opt

\* The note copied from an earlier period is a note or NULL.
LEMMA LastNoteType ==
    ASSUME TypeOK, NEW b \in Subs, NEW start
    PROVE  LastNote(b, start) \in Opt(Notes)
<1> DEFINE P == Latest({p \in PeriodsOf(b) : periods[p].start < start})
           p == CHOOSE x \in P : TRUE
<1>1. CASE P = {}
    BY <1>1 DEF LastNote, Opt
<1>2. CASE P # {}
    <2>1. p \in P
        BY <1>2
    <2>2. p \in PeriodIds /\ calcs[<<b, p>>] # None
        BY <2>1 DEF Latest, PeriodsOf
    <2>3. calcs[<<b, p>>] \in Calc
        BY <2>2 DEF TypeOK, Keys, Opt
    <2> QED
        BY <1>2, <2>3 DEF LastNote, Calc
<1> QED
    BY <1>1, <1>2

\* The reading carried over is a reading or NULL.
LEMMA LastReadingType ==
    ASSUME TypeOK, NEW b \in Subs
    PROVE  LastReading(b) \in Opt(Readings)
<1> DEFINE P == Latest({p \in PeriodsOf(b) : calcs[<<b, p>>].curr # None})
           p == CHOOSE x \in P : TRUE
<1>1. CASE P = {}
    BY <1>1 DEF LastReading, Opt
<1>2. CASE P # {}
    <2>1. p \in P
        BY <1>2
    <2>2. p \in PeriodIds /\ calcs[<<b, p>>] # None
        BY <2>1 DEF Latest, PeriodsOf
    <2>3. calcs[<<b, p>>] \in Calc
        BY <2>2 DEF TypeOK, Keys, Opt
    <2> QED
        BY <1>2, <2>3 DEF LastReading, Calc
<1> QED
    BY <1>1, <1>2

\* A generated row is a row.
LEMMA GeneratedRowType ==
    ASSUME NEW g \in Gen, g.tariff \in Tariffs, g.price \in Prices
    PROVE  GeneratedRow(g) \in Calc
<1>1. /\ g.prev \in Opt(Readings)
      /\ g.note \in Opt(Notes)
    BY DEF Gen
<1>2. None \in Opt(Readings)
    BY DEF Opt
<1>3. Amount(0, g.price) \in Nat /\ Amount(1, g.price) \in Nat
    BY AmountNat, ConstantsAssumption
<1> QED
    BY <1>1, <1>2, <1>3 DEF GeneratedRow, Calc, Statuses

\* An edited row is a row.
LEMMA ApplyType ==
    ASSUME NEW row \in Calc, NEW change \in Change
    PROVE  Apply(row, change) \in Calc
<1>1. CASE change \in [kind: {"reading"}, prev: Opt(Readings), curr: Readings, price: Prices]
    <2> DEFINE prev == IF change.prev = None THEN row.prev ELSE change.prev
               q == Consumed(prev, change.curr)
    <2>1. prev \in Opt(Readings)
        BY <1>1 DEF Calc
    <2>2. prev \in Opt(Nat) /\ change.curr \in Nat /\ change.price \in Nat
        BY <1>1, <2>1, ConstantsAssumption DEF Opt
    <2>3. q \in Nat
        BY <2>2, ConsumedNat
    <2>4. Amount(q, change.price) \in Nat
        BY <2>2, <2>3, AmountNat
    <2>5. change.curr \in Opt(Readings)
        BY <1>1 DEF Opt
    <2>6. Apply(row, change) = [row EXCEPT !.prev = prev, !.curr = change.curr,
                                           !.quantity = q, !.amount = Amount(q, change.price),
                                           !.byHand = FALSE]
        BY <1>1 DEF Apply, WithReading
    <2> HIDE DEF prev, q
    <2> QED
        BY <2>1, <2>3, <2>4, <2>5, <2>6 DEF Calc
<1>2. CASE change \in [kind: {"status"}, status: Statuses]
    BY <1>2 DEF Apply, Calc
<1>3. CASE change \in [kind: {"note"}, note: Notes]
    BY <1>3 DEF Apply, Calc, Opt
<1> QED
    BY <1>1, <1>2, <1>3 DEF Change

\* The row of the Create handler is a row.
LEMMA DraftRowType ==
    ASSUME TypeOK, NEW b \in Subs, NEW t \in Tariffs, NEW prev \in Opt(Readings),
           NEW curr \in Opt(Readings), NEW typed \in Opt(Quantities), NEW note \in Notes
    PROVE  DraftRow(b, t, prev, curr, typed, note) \in Calc
<1> DEFINE q == IF typed # None THEN typed
                ELSE IF prev # None /\ curr # None THEN Consumed(prev, curr)
                ELSE IF HasMeter(b) THEN 0 ELSE 1
<1>1. prev # None /\ curr # None => Consumed(prev, curr) \in Nat
    BY ConsumedNat, ConstantsAssumption DEF Opt
<1>2. q \in Nat
    BY <1>1, ConstantsAssumption DEF Opt
<1>3. tariffs[t].price \in Nat
    BY ConstantsAssumption DEF TypeOK, Tariff
<1>4. Amount(q, tariffs[t].price) \in Nat
    BY <1>2, <1>3, AmountNat
<1> HIDE DEF q
<1>5. note \in Opt(Notes)
    BY DEF Opt
<1>6. DraftRow(b, t, prev, curr, typed, note)
        = [tariff |-> t, prev |-> prev, curr |-> curr, quantity |-> q,
           amount |-> Amount(q, tariffs[t].price), status |-> "pending", note |-> note,
           byHand |-> typed # None]
    BY DEF DraftRow, q
<1> QED
    BY <1>2, <1>4, <1>5, <1>6 DEF Calc, Statuses

-----------------------------------------------------------------------------
(* Every step preserves BillingInv. *)

\* The catalogue in place at the start, and no session at work.
LEMMA InitInv == Init => BillingInv
<1> SUFFICES ASSUME Init PROVE BillingInv
    OBVIOUS
<1> USE ConstantsAssumption, CatalogueAssumption DEF Init
<1>1. TypeOK
    BY NoGenType DEF TypeOK, PeriodIds, Keys, Opt, GenPhases
<1>2. SessionShape
    BY DEF SessionShape, SessionFits, GenPhases
<1>3. PendingPeriods
    BY DEF PendingPeriods, Claims, GenPhases
<1>4. PendingRows
    BY DEF PendingRows, NoGen
<1>5. RowsHaveParents /\ MonthBilledOnce
    BY DEF RowsHaveParents, MonthBilledOnce, Exists
<1> QED
    BY <1>1, <1>2, <1>3, <1>4, <1>5 DEF BillingInv

\* A transaction that ends without a trace.
LEMMA RollbackInv ==
    ASSUME BillingInv, NEW s \in Sessions, Rollback(s)
    PROVE  BillingInv'
<1> USE DEF Rollback, db
<1>1. TypeOK'
    BY NoGenType DEF BillingInv, TypeOK, Opt
<1>2. SessionShape'
    BY DEF BillingInv, TypeOK, SessionShape, SessionFits, GenPhases
<1>3. PendingPeriods'
    BY DEF BillingInv, TypeOK, PendingPeriods, Claims, GenPhases, Exists
<1>4. PendingRows'
    BY DEF BillingInv, TypeOK, PendingRows, NoGen, Live, InTable
<1>5. RowsHaveParents' /\ MonthBilledOnce'
    BY DEF BillingInv, RowsHaveParents, MonthBilledOnce, Exists, Live, InTable
<1> QED
    BY <1>1, <1>2, <1>3, <1>4, <1>5 DEF BillingInv

\* The INSERT of a period claims its month and its id.
LEMMA OpenPeriodInv ==
    ASSUME BillingInv, NEW s \in Sessions, NEW start \in MonthStarts, OpenPeriod(s, start)
    PROVE  BillingInv'
<1> DEFINE g == [NoGen EXCEPT !.pid = nextPeriod, !.start = start]
<1>1. nextPeriod \in PeriodIds /\ nextPeriod' \in 1..(MaxPeriods + 1)
    BY ConstantsAssumption DEF OpenPeriod, BillingInv, TypeOK, PeriodIds
<1>2. g \in Gen /\ g.pid = nextPeriod /\ g.start = start /\ \A b \in Subs : g.rows[b] = None
    BY <1>1 DEF NoGen, Gen, Opt
<1>3. gen' = [gen EXCEPT ![s] = g] /\ gen \in [Sessions -> Gen]
    BY DEF OpenPeriod, BillingInv, TypeOK
<1> HIDE DEF g
<1>u. /\ periods' = periods /\ calcs' = calcs /\ metered' = metered /\ subs' = subs /\ tariffs' = tariffs
      /\ nextPeriod' = nextPeriod + 1
      /\ pc' = [pc EXCEPT ![s] = "fetch"] /\ pc \in [Sessions -> {"idle", "edit", "create"} \cup GenPhases]
      /\ ~MonthTaken(start)
    BY DEF OpenPeriod, BillingInv, TypeOK
<1>o. \A r \in Sessions : gen'[r] = IF r = s THEN g ELSE gen[r]
    BY <1>3
<1>4. TypeOK'
    BY <1>1, <1>2, <1>3 DEF OpenPeriod, BillingInv, TypeOK, GenPhases
<1>5. SessionShape'
    BY <1>1, <1>2, <1>3 DEF OpenPeriod, BillingInv, TypeOK, SessionShape, SessionFits, GenPhases
<1>6. PendingPeriods'
    <2>1. \A r \in Sessions : pc'[r] = IF r = s THEN "fetch" ELSE pc[r]
        BY <1>u
    <2>2. nextPeriod \in Nat
        BY <1>1 DEF PeriodIds
    <2>3. \A p \in PeriodIds : p \in Nat
        BY DEF PeriodIds
    <2>4. \A r \in Sessions : pc[r] \in GenPhases => gen[r].pid \in PeriodIds
        BY DEF BillingInv, SessionShape, SessionFits
    <2>5. \A r \in Sessions : gen[r].start # start
        BY <1>u DEF MonthTaken
    <2>6. \A p \in PeriodIds : Exists(p) => periods[p].start # start
        BY <1>u DEF MonthTaken
    <2>7. \A p \in PeriodIds : p >= nextPeriod => periods[p] = None
        BY DEF BillingInv, PendingPeriods, Claims
    <2>8. \A p \in PeriodIds : p >= nextPeriod' => periods'[p] = None
        BY <1>u, <2>2, <2>3, <2>7
    <2>9. ASSUME NEW q \in Sessions, pc'[q] \in GenPhases
          PROVE  Claims(q)'
        <3>1. \A x \in Sessions : pc[x] \in GenPhases => Claims(x)
            BY DEF BillingInv, PendingPeriods
        <3>2. CASE q = s
            BY <3>1, <3>2, <1>1, <1>2, <1>u, <1>o, <2>1, <2>2, <2>3, <2>4, <2>5, <2>6, <2>7
            DEF Exists, Claims
        <3>3. CASE q # s
            <4>1. pc[q] \in GenPhases /\ gen'[q] = gen[q] /\ Claims(q)
                BY <3>1, <3>3, <2>9, <2>1, <1>o
            <4>2. gen[q].pid < nextPeriod' /\ periods'[gen[q].pid] = None
                BY <4>1, <1>u, <2>2, <2>3, <2>4 DEF Claims
            <4>3. \A p \in PeriodIds : Exists(p)' => periods'[p].start # gen[q].start
                BY <4>1, <1>u DEF Exists, Claims
            <4>4. ASSUME NEW r \in Sessions \ {q}, pc'[r] \in GenPhases
                  PROVE  gen'[r].pid # gen[q].pid /\ gen'[r].start # gen[q].start
                <5>1. CASE r = s
                    BY <5>1, <1>1, <1>2, <1>o, <4>1, <2>2, <2>3, <2>4, <2>5 DEF Claims
                <5>2. CASE r # s
                    BY <5>2, <4>4, <4>1, <1>o, <2>1 DEF Claims
                <5> QED
                    BY <5>1, <5>2
            <4> QED
                BY <4>1, <4>2, <4>3, <4>4 DEF Claims
        <3> QED
            BY <3>2, <3>3
    <2> QED
        BY <2>8, <2>9 DEF PendingPeriods
<1>7. PendingRows'
    BY <1>2, <1>o, <1>u DEF BillingInv, PendingRows, Live, InTable
<1>8. RowsHaveParents' /\ MonthBilledOnce'
    BY DEF OpenPeriod, BillingInv, RowsHaveParents, MonthBilledOnce, Exists, Live, InTable
<1> QED
    BY <1>4, <1>5, <1>6, <1>7, <1>8 DEF BillingInv

\* The locals of an OpenPeriod between two statements: what is claimed stays
\* claimed, and the uncommitted rows have their parents.
Continues(s, g) ==
    /\ g \in Gen
    /\ g.pid = gen[s].pid
    /\ g.start = gen[s].start
    /\ \A b \in Subs : g.rows[b] # None =>
          /\ Live(b)
          /\ InTable(g.rows[b].tariff)
          /\ TariffService[g.rows[b].tariff] = SubService[b]

\* A statement of OpenPeriod that commits nothing keeps the claim on the month.
LEMMA LocalStepInv ==
    ASSUME BillingInv, NEW s \in Sessions, NEW g, Continues(s, g), NEW phase \in GenPhases,
           phase \in {"note", "reading", "insert"} => Picked(g),
           pc[s] \in GenPhases, pc' = [pc EXCEPT ![s] = phase], gen' = [gen EXCEPT ![s] = g],
           steady' \in [Sessions -> SUBSET Subs], UNCHANGED <<db, edit, draft>>
    PROVE  BillingInv'
<1> USE DEF Continues, Picked
<1>1. /\ periods' = periods /\ nextPeriod' = nextPeriod /\ calcs' = calcs
      /\ metered' = metered /\ subs' = subs /\ tariffs' = tariffs /\ edit' = edit /\ draft' = draft
    BY DEF db
<1>2. /\ gen \in [Sessions -> Gen]
      /\ pc \in [Sessions -> {"idle", "edit", "create"} \cup GenPhases]
    BY DEF BillingInv, TypeOK
<1>3. \A r \in Sessions : /\ gen'[r] = IF r = s THEN g ELSE gen[r]
                          /\ pc'[r] = IF r = s THEN phase ELSE pc[r]
    BY <1>2
<1>4. TypeOK'
    BY <1>1, <1>2 DEF BillingInv, TypeOK
<1>5. SessionShape'
    <2> SUFFICES ASSUME NEW r \in Sessions PROVE SessionFits(r)'
        BY DEF SessionShape
    <2>1. CASE r = s
        BY <1>1, <2>1, <1>3 DEF BillingInv, SessionShape, SessionFits, GenPhases
    <2>2. CASE r # s
        BY <1>1, <2>2, <1>3 DEF BillingInv, SessionShape, SessionFits, Picked
    <2> QED
        BY <2>1, <2>2
<1>6. PendingPeriods'
    BY <1>1, <1>3 DEF BillingInv, PendingPeriods, Claims, Exists
<1>7. PendingRows'
    BY <1>1, <1>3 DEF BillingInv, PendingRows, Live, InTable
<1>8. RowsHaveParents' /\ MonthBilledOnce'
    BY <1>1 DEF BillingInv, RowsHaveParents, MonthBilledOnce, Exists, Live, InTable
<1> QED
    BY <1>4, <1>5, <1>6, <1>7, <1>8 DEF BillingInv

\* A statement that only reads leaves the uncommitted rows as they are.
LEMMA ReadContinues ==
    ASSUME BillingInv, NEW s \in Sessions, NEW g \in Gen,
           g.pid = gen[s].pid, g.start = gen[s].start, g.rows = gen[s].rows
    PROVE  Continues(s, g)
BY DEF BillingInv, PendingRows, Continues
LEMMA OldGen ==
    ASSUME BillingInv, NEW s \in Sessions
    PROVE  gen[s] \in Gen
BY DEF BillingInv, TypeOK

LEMMA FetchInv ==
    ASSUME BillingInv, NEW s \in Sessions, FetchSubscriptions(s)
    PROVE  BillingInv'
<1> DEFINE todo == {b \in Subs : ConnectedAfter(b, gen[s].start)}
           meters == {b \in todo : HasMeter(b)}
           g == [gen[s] EXCEPT !.todo = todo, !.meters = meters]
<1>1. todo \in SUBSET Subs /\ meters \in SUBSET Subs
    OBVIOUS
<1> HIDE DEF todo, meters
<1>2. g \in Gen /\ g.pid = gen[s].pid /\ g.start = gen[s].start /\ g.rows = gen[s].rows
    BY <1>1, OldGen DEF Gen
<1>3. gen' = [gen EXCEPT ![s] = g]
    BY DEF FetchSubscriptions, todo, meters
<1>4. steady' \in [Sessions -> SUBSET Subs]
    BY DEF FetchSubscriptions, BillingInv, TypeOK
<1>5. pc[s] = "fetch" /\ pc' = [pc EXCEPT ![s] = "pick"] /\ UNCHANGED <<db, edit, draft>>
    BY DEF FetchSubscriptions
<1> HIDE DEF g
<1>6. Continues(s, g)
    BY <1>2, ReadContinues
<1>7. "pick" \in GenPhases /\ "fetch" \in GenPhases
    BY DEF GenPhases
<1> QED
    BY <1>3, <1>4, <1>5, <1>6, <1>7, LocalStepInv

LEMMA PickInv ==
    ASSUME BillingInv, NEW s \in Sessions, NEW b \in Subs, PickTariff(s, b)
    PROVE  BillingInv'
<1>1. /\ pc[s] = "pick" /\ UNCHANGED <<db, edit, draft, steady>>
      /\ steady' \in [Sessions -> SUBSET Subs]
      /\ pc \in [Sessions -> {"idle", "edit", "create"} \cup GenPhases]
    BY DEF PickTariff, BillingInv, TypeOK
<1>2. CASE /\ gen' = [gen EXCEPT ![s].todo = @ \ {b}]
           /\ UNCHANGED pc
    <2> DEFINE g == [gen[s] EXCEPT !.todo = @ \ {b}]
    <2>1. g \in Gen /\ g.pid = gen[s].pid /\ g.start = gen[s].start /\ g.rows = gen[s].rows
        BY OldGen DEF Gen
    <2>2. gen' = [gen EXCEPT ![s] = g]
        BY <1>2
    <2>3. pc' = [pc EXCEPT ![s] = "pick"]
        BY <1>1, <1>2
    <2> HIDE DEF g
    <2>4. Continues(s, g) /\ "pick" \in GenPhases
        BY <2>1, ReadContinues DEF GenPhases
    <2> QED
        BY <1>1, <2>2, <2>3, <2>4, LocalStepInv
<1>3. ASSUME NEW t \in ActiveTariffs(b),
             gen' = [gen EXCEPT ![s].todo = @ \ {b}, ![s].sub = b,
                                ![s].tariff = t, ![s].price = tariffs[t].price],
             pc' = [pc EXCEPT ![s] = "note"]
      PROVE  BillingInv'
    <2> DEFINE g == [gen[s] EXCEPT !.todo = @ \ {b}, !.sub = b,
                                   !.tariff = t, !.price = tariffs[t].price]
    <2>1. t \in Tariffs /\ TariffService[t] = SubService[b]
        BY DEF ActiveTariffs
    <2>2. tariffs[t].price \in Prices
        BY <2>1 DEF BillingInv, TypeOK, Tariff
    <2>3. /\ g \in Gen /\ g.pid = gen[s].pid /\ g.start = gen[s].start /\ g.rows = gen[s].rows
          /\ g.sub = b /\ g.tariff = t /\ g.price = tariffs[t].price
        BY <2>1, <2>2, OldGen DEF Gen, Opt
    <2>4. gen' = [gen EXCEPT ![s] = g]
        BY <1>3
    <2> HIDE DEF g
    <2>5. Continues(s, g) /\ Picked(g)
        BY <2>1, <2>2, <2>3, ReadContinues DEF Picked
    <2>6. "note" \in GenPhases /\ "pick" \in GenPhases
        BY DEF GenPhases
    <2> QED
        BY <1>1, <1>3, <2>4, <2>5, <2>6, LocalStepInv
<1> QED
    BY <1>2, <1>3 DEF PickTariff

LEMMA CopyNoteInv ==
    ASSUME BillingInv, NEW s \in Sessions, CopyNote(s)
    PROVE  BillingInv'
<1> DEFINE note == LastNote(gen[s].sub, gen[s].start)
           g == [gen[s] EXCEPT !.note = note]
           phase == IF gen[s].sub \in gen[s].meters THEN "reading" ELSE "insert"
<1>1. pc[s] = "note" /\ UNCHANGED <<db, edit, draft, steady>>
    BY DEF CopyNote
<1>2. Picked(gen[s]) /\ TypeOK
    BY <1>1 DEF BillingInv, SessionShape, SessionFits, Picked
<1>3. note \in Opt(Notes)
    BY <1>2, LastNoteType DEF Picked
<1>4. gen' = [gen EXCEPT ![s] = g] /\ pc' = [pc EXCEPT ![s] = phase]
    BY DEF CopyNote
<1>5. steady' \in [Sessions -> SUBSET Subs]
    BY <1>1, <1>2 DEF TypeOK
<1> HIDE DEF note
<1>6. /\ g \in Gen /\ g.pid = gen[s].pid /\ g.start = gen[s].start /\ g.rows = gen[s].rows
      /\ g.sub = gen[s].sub /\ g.tariff = gen[s].tariff /\ g.price = gen[s].price
    BY <1>3, OldGen DEF Gen
<1> HIDE DEF g
<1>7. Continues(s, g) /\ Picked(g)
    BY <1>2, <1>6, ReadContinues DEF Picked
<1>8. phase \in GenPhases /\ "note" \in GenPhases
    BY DEF GenPhases
<1> HIDE DEF phase
<1> QED
    BY <1>1, <1>4, <1>5, <1>7, <1>8, LocalStepInv

LEMMA CarryReadingInv ==
    ASSUME BillingInv, NEW s \in Sessions, CarryReading(s)
    PROVE  BillingInv'
<1> DEFINE prev == LastReading(gen[s].sub)
           g == [gen[s] EXCEPT !.prev = prev]
<1>1. pc[s] = "reading" /\ UNCHANGED <<db, edit, draft, steady>>
    BY DEF CarryReading
<1>2. Picked(gen[s]) /\ TypeOK
    BY <1>1 DEF BillingInv, SessionShape, SessionFits, Picked
<1>3. prev \in Opt(Readings)
    BY <1>2, LastReadingType DEF Picked
<1>4. gen' = [gen EXCEPT ![s] = g] /\ pc' = [pc EXCEPT ![s] = "insert"]
    BY DEF CarryReading
<1>5. steady' \in [Sessions -> SUBSET Subs]
    BY <1>1, <1>2 DEF TypeOK
<1> HIDE DEF prev
<1>6. /\ g \in Gen /\ g.pid = gen[s].pid /\ g.start = gen[s].start /\ g.rows = gen[s].rows
      /\ g.sub = gen[s].sub /\ g.tariff = gen[s].tariff /\ g.price = gen[s].price
    BY <1>3, OldGen DEF Gen
<1> HIDE DEF g
<1>7. Continues(s, g) /\ Picked(g)
    BY <1>2, <1>6, ReadContinues DEF Picked
<1>8. "insert" \in GenPhases /\ "reading" \in GenPhases
    BY DEF GenPhases
<1> QED
    BY <1>1, <1>4, <1>5, <1>7, <1>8, LocalStepInv

\* The foreign keys are checked before the row counts as inserted.
LEMMA InsertGeneratedInv ==
    ASSUME BillingInv, NEW s \in Sessions, InsertGenerated(s)
    PROVE  BillingInv'
<1>1. CASE ~(Live(gen[s].sub) /\ InTable(gen[s].tariff))
    BY <1>1, RollbackInv DEF InsertGenerated
<1>2. CASE Live(gen[s].sub) /\ InTable(gen[s].tariff)
    <2> DEFINE o == gen[s]
               row == GeneratedRow(o)
               g == [NoGen EXCEPT !.pid = o.pid, !.start = o.start, !.todo = o.todo,
                                  !.meters = o.meters,
                                  !.rows = [o.rows EXCEPT ![o.sub] = row]]
    <2>1. /\ pc[s] = "insert" /\ UNCHANGED <<db, edit, draft, steady>>
          /\ gen' = [gen EXCEPT ![s] = g] /\ pc' = [pc EXCEPT ![s] = "pick"]
        BY <1>2 DEF InsertGenerated
    <2>2. Picked(o) /\ o \in Gen
        BY <2>1, OldGen DEF BillingInv, SessionShape, SessionFits, Picked
    <2>3. row \in Calc /\ row.tariff = o.tariff
        BY <2>2, GeneratedRowType DEF Picked, GeneratedRow
    <2> HIDE DEF row
    <2>4. /\ g \in Gen /\ g.pid = o.pid /\ g.start = o.start
          /\ \A b \in Subs : g.rows[b] = IF b = o.sub THEN row ELSE o.rows[b]
        BY <2>2, <2>3 DEF Gen, NoGen, Opt, Picked
    <2> HIDE DEF g
    <2>5. Continues(s, o)
        BY <2>2, ReadContinues
    <2>6. Continues(s, g)
        BY <1>2, <2>2, <2>3, <2>4, <2>5 DEF Continues, Picked
    <2>7. steady' \in [Sessions -> SUBSET Subs]
        BY <2>1 DEF BillingInv, TypeOK
    <2>8. "insert" \in GenPhases /\ "pick" \in GenPhases
        BY DEF GenPhases
    <2> QED
        BY <2>1, <2>6, <2>7, <2>8, LocalStepInv
<1> QED
    BY <1>1, <1>2

\* The rows become visible with their period, and with the parents they had.
LEMMA CommitPeriodInv ==
    ASSUME BillingInv, NEW s \in Sessions, CommitPeriod(s)
    PROVE  BillingInv'
<1> DEFINE g == gen[s]
<1>1. /\ pc[s] = "pick" /\ g \in Gen
      /\ periods' = [periods EXCEPT ![g.pid] = [start |-> g.start, status |-> "open"]]
      /\ calcs' = [k \in Keys |-> IF k[2] = g.pid THEN g.rows[k[1]] ELSE calcs[k]]
      /\ pc' = [pc EXCEPT ![s] = "idle"] /\ gen' = [gen EXCEPT ![s] = NoGen]
      /\ steady' = [steady EXCEPT ![s] = {}]
      /\ nextPeriod' = nextPeriod /\ metered' = metered /\ subs' = subs /\ tariffs' = tariffs
      /\ edit' = edit /\ draft' = draft
    BY OldGen DEF CommitPeriod
<1>2. /\ g.pid \in PeriodIds /\ g.start \in MonthStarts
      /\ g.pid < nextPeriod /\ periods[g.pid] = None
      /\ \A p \in PeriodIds : Exists(p) => periods[p].start # g.start
    BY <1>1 DEF BillingInv, SessionShape, SessionFits, PendingPeriods, Claims, GenPhases
<1>3. TypeOK
    BY DEF BillingInv
<1>4. \A p \in PeriodIds : periods'[p] = IF p = g.pid THEN [start |-> g.start, status |-> "open"]
                                         ELSE periods[p]
    BY <1>1, <1>3 DEF TypeOK
<1>5. \A k \in Keys : /\ k[1] \in Subs /\ k[2] \in PeriodIds
                        /\ calcs'[k] = IF k[2] = g.pid THEN g.rows[k[1]] ELSE calcs[k]
    BY <1>1 DEF Keys
<1>f. periods'[g.pid] # None
    BY <1>2, <1>4, NullAssumption DEF Period, PeriodStatuses
<1>k. \A k \in Keys : calcs[k] # None => k[2] # g.pid
    BY <1>2 DEF BillingInv, RowsHaveParents, Exists
<1> HIDE DEF g
<1>6. \A r \in Sessions : /\ gen'[r] = IF r = s THEN NoGen ELSE gen[r]
                          /\ pc'[r] = IF r = s THEN "idle" ELSE pc[r]
    BY <1>1, <1>3 DEF TypeOK
<1>7. TypeOK'
    <2>1. periods' \in [PeriodIds -> Opt(Period)]
        BY <1>1, <1>2, <1>3 DEF TypeOK, Opt, Period, PeriodStatuses
    <2>2. calcs' \in [Keys -> Opt(Calc)]
        BY <1>1, <1>3 DEF TypeOK, Gen, Keys
    <2> QED
        BY <2>1, <2>2, <1>1, <1>3, NoGenType DEF TypeOK
<1>8. SessionShape'
    <2> SUFFICES ASSUME NEW r \in Sessions PROVE SessionFits(r)'
        BY DEF SessionShape
    <2>1. CASE r = s
        BY <2>1, <1>6 DEF GenPhases, SessionFits
    <2>2. CASE r # s
        <3>1. pc[r] = "edit" => edit[r].key \in Keys
            BY DEF BillingInv, SessionShape, SessionFits, Edit
        <3> QED
            BY <1>1, <2>2, <3>1, <1>5, <1>6, <1>k DEF BillingInv, SessionShape, SessionFits, Picked
    <2> QED
        BY <2>1, <2>2
<1>9. PendingPeriods'
    <2>1. \A p \in PeriodIds : p >= nextPeriod => periods'[p] = None
        BY <1>2, <1>3, <1>4, ConstantsAssumption DEF BillingInv, PendingPeriods, Claims, PeriodIds, TypeOK
    <2>2. ASSUME NEW q \in Sessions, pc'[q] \in GenPhases
          PROVE  Claims(q)'
        <3>1. q # s /\ pc[q] \in GenPhases /\ gen'[q] = gen[q] /\ pc[s] \in GenPhases
            BY <2>2, <1>1, <1>6 DEF GenPhases
        <3>2. /\ gen[q].pid < nextPeriod /\ periods[gen[q].pid] = None
              /\ \A p \in PeriodIds : Exists(p) => periods[p].start # gen[q].start
              /\ \A r \in Sessions \ {q} : pc[r] \in GenPhases =>
                    gen[r].pid # gen[q].pid /\ gen[r].start # gen[q].start
            BY <3>1 DEF BillingInv, PendingPeriods, Claims
        <3>3. gen[q].pid \in PeriodIds /\ gen[q].pid # g.pid /\ gen[q].start # g.start
            BY <3>1, <3>2 DEF BillingInv, SessionShape, SessionFits, g
        <3>4. periods'[gen[q].pid] = None
            BY <3>2, <3>3, <1>4
        <3>5. \A p \in PeriodIds : Exists(p)' => periods'[p].start # gen[q].start
            BY <3>2, <3>3, <1>4 DEF Exists
        <3>6. \A r \in Sessions \ {q} : pc'[r] \in GenPhases =>
                 gen'[r].pid # gen[q].pid /\ gen'[r].start # gen[q].start
            BY <3>2, <1>6 DEF GenPhases
        <3> QED
            BY <3>1, <3>2, <3>4, <3>5, <3>6, <1>1 DEF Claims
    <2> QED
        BY <2>1, <2>2, <1>1 DEF PendingPeriods
<1>10. PendingRows'
    BY <1>1, <1>6 DEF BillingInv, PendingRows, Live, InTable, NoGen
<1>11. RowsHaveParents'
    <2> SUFFICES ASSUME NEW k \in Keys, calcs'[k] # None
                 PROVE  /\ Exists(k[2])'
                        /\ Live(k[1])'
                        /\ InTable(calcs[k].tariff)'
                        /\ TariffService[calcs'[k].tariff] = SubService[k[1]]
        BY DEF RowsHaveParents
    <2>1. CASE k[2] = g.pid
        BY <2>1, <1>1, <1>5, <1>f DEF BillingInv, PendingRows, Exists, Live, InTable, g
    <2>2. CASE k[2] # g.pid
        BY <2>2, <1>1, <1>4, <1>5 DEF BillingInv, RowsHaveParents, Exists, Live, InTable
    <2> QED
        BY <2>1, <2>2
<1>12. MonthBilledOnce'
    BY <1>1, <1>2, <1>4 DEF BillingInv, MonthBilledOnce, Exists
<1> QED
    BY <1>7, <1>8, <1>9, <1>10, <1>11, <1>12 DEF BillingInv

\* An UPDATE whose WHERE clause holds goes on to write its row.
LEMMA StartEditInv ==
    ASSUME BillingInv, NEW s \in Sessions, NEW k \in Keys, NEW change \in Change,
           StartEdit(s, k, change)
    PROVE  BillingInv'
<1> DEFINE e == [key |-> k, change |-> change]
<1>1. /\ pc[s] = "idle" /\ calcs[k] # None /\ UNCHANGED <<db, gen, draft, steady>>
      /\ pc' = [pc EXCEPT ![s] = "edit"] /\ edit' = [edit EXCEPT ![s] = e]
    BY DEF StartEdit
<1>2. e \in Edit /\ e.key = k
    BY DEF Edit
<1> HIDE DEF e
<1>3. /\ periods' = periods /\ nextPeriod' = nextPeriod /\ calcs' = calcs /\ gen' = gen
      /\ metered' = metered /\ subs' = subs /\ tariffs' = tariffs /\ draft' = draft /\ steady' = steady
    BY <1>1 DEF db
<1>4. \A r \in Sessions : /\ pc'[r] = IF r = s THEN "edit" ELSE pc[r]
                          /\ edit'[r] = IF r = s THEN e ELSE edit[r]
    BY <1>1 DEF BillingInv, TypeOK
<1>5. TypeOK'
    BY <1>1, <1>2, <1>3 DEF BillingInv, TypeOK, Opt
<1>6. SessionShape'
    <2> SUFFICES ASSUME NEW r \in Sessions PROVE SessionFits(r)'
        BY DEF SessionShape
    <2> QED
        BY <1>1, <1>2, <1>3, <1>4 DEF BillingInv, SessionShape, SessionFits, GenPhases, Picked
<1>7. PendingPeriods'
    BY <1>1, <1>3, <1>4 DEF BillingInv, PendingPeriods, Claims, Exists, GenPhases
<1>8. PendingRows' /\ RowsHaveParents' /\ MonthBilledOnce'
    BY <1>3 DEF BillingInv, PendingRows, RowsHaveParents, MonthBilledOnce, Exists, Live, InTable
<1> QED
    BY <1>5, <1>6, <1>7, <1>8 DEF BillingInv

\* An edit leaves the tariff of its row alone.
LEMMA ApplyTariff ==
    ASSUME NEW row \in Calc, NEW change \in Change
    PROVE  Apply(row, change).tariff = row.tariff
BY DEF Apply, WithReading, Calc

LEMMA WriteEditInv ==
    ASSUME BillingInv, NEW s \in Sessions, WriteEdit(s)
    PROVE  BillingInv'
<1> DEFINE k == edit[s].key
           row == Apply(calcs[k], edit[s].change)
<1>1. /\ pc[s] = "edit" /\ calcs' = [calcs EXCEPT ![k] = row]
      /\ pc' = [pc EXCEPT ![s] = "idle"] /\ edit' = [edit EXCEPT ![s] = None]
      /\ periods' = periods /\ nextPeriod' = nextPeriod /\ gen' = gen
      /\ metered' = metered /\ subs' = subs /\ tariffs' = tariffs /\ draft' = draft /\ steady' = steady
    BY DEF WriteEdit
<1>2. k \in Keys /\ edit[s].change \in Change /\ calcs[k] # None
    BY <1>1 DEF BillingInv, SessionShape, SessionFits, Edit
<1>3. TypeOK
    BY DEF BillingInv
<1>4. calcs[k] \in Calc
    BY <1>2, <1>3 DEF TypeOK, Opt
<1>5. row \in Calc /\ row # None /\ row.tariff = calcs[k].tariff
    BY <1>2, <1>4, ApplyType, ApplyTariff, NullAssumption
<1> HIDE DEF row, k
<1>6. /\ \A r \in Sessions : /\ pc'[r] = IF r = s THEN "idle" ELSE pc[r]
                             /\ edit'[r] = IF r = s THEN None ELSE edit[r]
      /\ \A j \in Keys : calcs'[j] = IF j = k THEN row ELSE calcs[j]
    BY <1>1, <1>3 DEF TypeOK
<1>7. TypeOK'
    BY <1>1, <1>3, <1>5 DEF TypeOK, Opt
<1>8. SessionShape'
    <2> SUFFICES ASSUME NEW r \in Sessions PROVE SessionFits(r)'
        BY DEF SessionShape
    <2>1. pc[r] = "edit" => edit[r].key \in Keys
        BY DEF BillingInv, SessionShape, SessionFits, Edit
    <2> QED
        BY <2>1, <1>1, <1>5, <1>6 DEF BillingInv, SessionShape, SessionFits, GenPhases, Picked
<1>9. PendingPeriods'
    BY <1>1, <1>6 DEF BillingInv, PendingPeriods, Claims, Exists, GenPhases
<1>10. PendingRows' /\ MonthBilledOnce'
    BY <1>1 DEF BillingInv, PendingRows, MonthBilledOnce, Exists, Live, InTable
<1>11. RowsHaveParents'
    BY <1>1, <1>2, <1>5, <1>6 DEF BillingInv, RowsHaveParents, Exists, Live, InTable
<1> QED
    BY <1>7, <1>8, <1>9, <1>10, <1>11 DEF BillingInv

\* The Create handler reads a tariff of the subscription's service.
LEMMA CreateCalculationInv ==
    ASSUME BillingInv, NEW s \in Sessions, NEW b \in Subs, NEW p \in PeriodIds,
           NEW prev \in Opt(Readings), NEW curr \in Opt(Readings),
           NEW typed \in Opt(Quantities), NEW note \in Notes,
           CreateCalculation(s, b, p, prev, curr, typed, note)
    PROVE  BillingInv'
<1>1. PICK t \in ActiveTariffs(b) :
         draft' = [draft EXCEPT ![s] = [key |-> <<b, p>>,
                                        row |-> DraftRow(b, t, prev, curr, typed, note)]]
    BY DEF CreateCalculation
<1> DEFINE d == [key |-> <<b, p>>, row |-> DraftRow(b, t, prev, curr, typed, note)]
<1>2. /\ t \in Tariffs /\ TariffService[t] = SubService[b]
      /\ pc[s] = "idle" /\ pc' = [pc EXCEPT ![s] = "create"]
      /\ periods' = periods /\ nextPeriod' = nextPeriod /\ calcs' = calcs /\ gen' = gen
      /\ metered' = metered /\ subs' = subs /\ tariffs' = tariffs /\ edit' = edit /\ steady' = steady
    BY DEF CreateCalculation, ActiveTariffs, db
<1>3. DraftRow(b, t, prev, curr, typed, note) \in Calc
    BY <1>2, DraftRowType DEF BillingInv
<1>4. d \in Draft /\ TariffService[d.row.tariff] = SubService[d.key[1]]
    BY <1>2, <1>3 DEF Draft, Keys, DraftRow
<1>5. draft' = [draft EXCEPT ![s] = d]
    BY <1>1
<1> HIDE DEF d
<1>6. \A r \in Sessions : /\ pc'[r] = IF r = s THEN "create" ELSE pc[r]
                          /\ draft'[r] = IF r = s THEN d ELSE draft[r]
    BY <1>2, <1>5 DEF BillingInv, TypeOK
<1>7. TypeOK'
    BY <1>2, <1>4, <1>5 DEF BillingInv, TypeOK, Opt
<1>8. SessionShape'
    <2> SUFFICES ASSUME NEW r \in Sessions PROVE SessionFits(r)'
        BY DEF SessionShape
    <2> QED
        BY <1>2, <1>4, <1>6 DEF BillingInv, SessionShape, SessionFits, GenPhases, Picked
<1>9. PendingPeriods'
    BY <1>2, <1>6 DEF BillingInv, PendingPeriods, Claims, Exists, GenPhases
<1>10. PendingRows' /\ RowsHaveParents' /\ MonthBilledOnce'
    BY <1>2 DEF BillingInv, PendingRows, RowsHaveParents, MonthBilledOnce, Exists, Live, InTable
<1> QED
    BY <1>7, <1>8, <1>9, <1>10 DEF BillingInv

LEMMA InsertCalculationInv ==
    ASSUME BillingInv, NEW s \in Sessions, InsertCalculation(s)
    PROVE  BillingInv'
<1> DEFINE d == draft[s]
           k == d.key
<1>1. CASE ~(calcs[k] = None /\ Exists(k[2]) /\ Live(k[1]) /\ InTable(d.row.tariff))
    BY <1>1, RollbackInv DEF InsertCalculation
<1>2. CASE calcs[k] = None /\ Exists(k[2]) /\ Live(k[1]) /\ InTable(d.row.tariff)
    <2>1. /\ pc[s] = "create" /\ calcs' = [calcs EXCEPT ![k] = d.row]
          /\ pc' = [pc EXCEPT ![s] = "idle"] /\ draft' = [draft EXCEPT ![s] = None]
          /\ periods' = periods /\ nextPeriod' = nextPeriod /\ gen' = gen
          /\ metered' = metered /\ subs' = subs /\ tariffs' = tariffs /\ edit' = edit /\ steady' = steady
        BY <1>2 DEF InsertCalculation
    <2>2. /\ d \in Draft /\ TariffService[d.row.tariff] = SubService[k[1]]
        BY <2>1 DEF BillingInv, SessionShape, SessionFits
    <2>3. k \in Keys /\ d.row \in Calc /\ d.row # None
        BY <2>2, NullAssumption DEF Draft
    <2> HIDE DEF d, k
    <2>4. /\ \A r \in Sessions : /\ pc'[r] = IF r = s THEN "idle" ELSE pc[r]
                                 /\ draft'[r] = IF r = s THEN None ELSE draft[r]
          /\ \A j \in Keys : calcs'[j] = IF j = k THEN d.row ELSE calcs[j]
        BY <2>1 DEF BillingInv, TypeOK
    <2>5. TypeOK'
        BY <2>1, <2>3 DEF BillingInv, TypeOK, Opt
    <2>6. SessionShape'
        <3> SUFFICES ASSUME NEW r \in Sessions PROVE SessionFits(r)'
            BY DEF SessionShape
        <3>1. pc[r] = "edit" => edit[r].key \in Keys
            BY DEF BillingInv, SessionShape, SessionFits, Edit
        <3> QED
            BY <3>1, <2>1, <2>3, <2>4 DEF BillingInv, SessionShape, SessionFits, GenPhases, Picked
    <2>7. PendingPeriods'
        BY <2>1, <2>4 DEF BillingInv, PendingPeriods, Claims, Exists, GenPhases
    <2>8. PendingRows' /\ MonthBilledOnce'
        BY <2>1 DEF BillingInv, PendingRows, MonthBilledOnce, Exists, Live, InTable
    <2>9. RowsHaveParents'
        BY <1>2, <2>1, <2>2, <2>3, <2>4 DEF BillingInv, RowsHaveParents, Exists, Live, InTable
    <2> QED
        BY <2>5, <2>6, <2>7, <2>8, <2>9 DEF BillingInv
<1> QED
    BY <1>1, <1>2

\* Closing and reopening keep the month of the period.
LEMMA SetPeriodStatusInv ==
    ASSUME BillingInv, NEW p \in PeriodIds, NEW from, NEW to \in PeriodStatuses,
           SetPeriodStatus(p, from, to)
    PROVE  BillingInv'
<1> DEFINE row == [periods[p] EXCEPT !.status = to]
<1>1. /\ Exists(p) /\ periods' = [periods EXCEPT ![p] = row]
      /\ nextPeriod' = nextPeriod /\ calcs' = calcs /\ metered' = metered /\ subs' = subs /\ tariffs' = tariffs
      /\ pc' = pc /\ gen' = gen /\ edit' = edit /\ draft' = draft /\ steady' = steady
    BY DEF SetPeriodStatus
<1>2. TypeOK
    BY DEF BillingInv
<1>3. row \in Period /\ row.start = periods[p].start /\ row # None
    BY <1>1, <1>2, NullAssumption DEF TypeOK, Exists, Opt, Period
<1> HIDE DEF row
<1>4. \A q \in PeriodIds : periods'[q] = IF q = p THEN row ELSE periods[q]
    BY <1>1, <1>2 DEF TypeOK
<1>5. \A q \in PeriodIds : /\ Exists(q)' = Exists(q)
                           /\ Exists(q) => periods'[q].start = periods[q].start
    BY <1>1, <1>3, <1>4 DEF Exists
<1>6. TypeOK'
    BY <1>1, <1>2, <1>3 DEF TypeOK, Opt
<1>7. SessionShape'
    BY <1>1 DEF BillingInv, SessionShape, SessionFits, Picked
<1>8. PendingPeriods'
    <2>1. \A s \in Sessions : pc[s] \in GenPhases => Claims(s) /\ gen[s].pid \in PeriodIds
        BY DEF BillingInv, SessionShape, SessionFits, PendingPeriods
    <2>2. \A s \in Sessions : pc[s] \in GenPhases => Claims(s)'
        BY <2>1, <1>1, <1>4, <1>5 DEF Claims, Exists
    <2>3. \A q \in PeriodIds : q >= nextPeriod => periods'[q] = None
        BY <1>1, <1>4 DEF BillingInv, PendingPeriods, Exists
    <2> QED
        BY <1>1, <2>2, <2>3 DEF PendingPeriods
<1>9. PendingRows'
    BY <1>1 DEF BillingInv, PendingRows, Live, InTable
<1>10. RowsHaveParents'
    BY <1>1, <1>5 DEF BillingInv, RowsHaveParents, Live, InTable, Keys
<1>11. MonthBilledOnce'
    BY <1>5 DEF BillingInv, MonthBilledOnce
<1> QED
    BY <1>6, <1>7, <1>8, <1>9, <1>10, <1>11 DEF BillingInv

\* Only a period without calculations is deleted.
LEMMA DeletePeriodInv ==
    ASSUME BillingInv, NEW p \in PeriodIds, DeletePeriod(p)
    PROVE  BillingInv'
<1>1. /\ Exists(p) /\ periods' = [periods EXCEPT ![p] = None]
      /\ \A b \in Subs : calcs[<<b, p>>] = None
      /\ nextPeriod' = nextPeriod /\ calcs' = calcs /\ metered' = metered /\ subs' = subs /\ tariffs' = tariffs
      /\ pc' = pc /\ gen' = gen /\ edit' = edit /\ draft' = draft /\ steady' = steady
    BY DEF DeletePeriod
<1>2. TypeOK
    BY DEF BillingInv
<1>4. \A q \in PeriodIds : periods'[q] = IF q = p THEN None ELSE periods[q]
    BY <1>1, <1>2 DEF TypeOK
<1>5. \A k \in Keys : k = <<k[1], k[2]>> /\ k[1] \in Subs /\ k[2] \in PeriodIds
    BY DEF Keys
<1>6. TypeOK'
    BY <1>1, <1>2 DEF TypeOK, Opt
<1>7. SessionShape'
    BY <1>1 DEF BillingInv, SessionShape, SessionFits, Picked
<1>8. PendingPeriods'
    <2>1. \A s \in Sessions : pc[s] \in GenPhases => Claims(s) /\ gen[s].pid \in PeriodIds
        BY DEF BillingInv, SessionShape, SessionFits, PendingPeriods
    <2>2. \A s \in Sessions : pc[s] \in GenPhases => Claims(s)'
        BY <2>1, <1>1, <1>4 DEF Claims, Exists
    <2>3. \A q \in PeriodIds : q >= nextPeriod => periods'[q] = None
        BY <1>1, <1>4 DEF BillingInv, PendingPeriods
    <2> QED
        BY <1>1, <2>2, <2>3 DEF PendingPeriods
<1>9. PendingRows'
    BY <1>1 DEF BillingInv, PendingRows, Live, InTable
<1>10. RowsHaveParents'
    BY <1>1, <1>4, <1>5 DEF BillingInv, RowsHaveParents, Exists, Live, InTable
<1>11. MonthBilledOnce'
    BY <1>4 DEF BillingInv, MonthBilledOnce, Exists
<1> QED
    BY <1>6, <1>7, <1>8, <1>9, <1>10, <1>11 DEF BillingInv

\* A change of the catalogue that keeps every parent of a row, committed or
\* not, keeps the invariant.
LEMMA CatalogueInv ==
    ASSUME BillingInv, UNCHANGED <<periods, nextPeriod, calcs, metered, pc, gen, edit, draft>>, KeepSteady,
           subs' \in [Subs -> Sub], tariffs' \in [Tariffs -> Tariff],
           \A b \in Subs : Live(b) /\ ~Live(b)' =>
              /\ \A p \in PeriodIds : calcs[<<b, p>>] = None
              /\ ~KeyShareSub(b),
           \A t \in Tariffs : InTable(t) /\ ~InTable(t)' =>
              /\ \A k \in Keys : calcs[k] # None => calcs[k].tariff # t
              /\ ~KeyShareTariff(t)
    PROVE  BillingInv'
<1>1. TypeOK
    BY DEF BillingInv
<1>2. TypeOK'
    BY <1>1 DEF TypeOK, KeepSteady
<1>3. SessionShape'
    BY DEF BillingInv, SessionShape, SessionFits, Picked
<1>4. PendingPeriods' /\ MonthBilledOnce'
    BY DEF BillingInv, PendingPeriods, Claims, MonthBilledOnce, Exists
<1>5. PendingRows'
    <2> SUFFICES ASSUME NEW s \in Sessions, NEW b \in Subs, gen[s].rows[b] # None
                 PROVE  /\ Live(b)'
                        /\ InTable(gen[s].rows[b].tariff)'
                        /\ TariffService[gen[s].rows[b].tariff] = SubService[b]
        BY DEF PendingRows
    <2>1. /\ Live(b) /\ InTable(gen[s].rows[b].tariff)
          /\ TariffService[gen[s].rows[b].tariff] = SubService[b]
        BY DEF BillingInv, PendingRows
    <2>2. gen[s].rows[b].tariff \in Tariffs
        BY <1>1 DEF TypeOK, Gen, Opt, Calc
    <2>3. KeyShareSub(b) /\ KeyShareTariff(gen[s].rows[b].tariff)
        BY DEF KeyShareSub, KeyShareTariff
    <2>4. InTable(gen[s].rows[b].tariff)'
        BY <2>1, <2>2, <2>3 DEF InTable
    <2> QED
        BY <2>1, <2>3, <2>4
<1>6. RowsHaveParents'
    <2> SUFFICES ASSUME NEW k \in Keys, calcs[k] # None
                 PROVE  /\ Live(k[1])'
                        /\ InTable(calcs[k].tariff)'
        BY DEF BillingInv, RowsHaveParents, Exists
    <2>1. k = <<k[1], k[2]>> /\ k[1] \in Subs /\ k[2] \in PeriodIds
        BY DEF Keys
    <2>2. Live(k[1]) /\ InTable(calcs[k].tariff)
        BY DEF BillingInv, RowsHaveParents
    <2>3. calcs[k].tariff \in Tariffs
        BY <1>1 DEF TypeOK, Opt, Calc
    <2>4. InTable(calcs[k].tariff)'
        BY <2>2, <2>3 DEF InTable
    <2> QED
        BY <2>1, <2>2, <2>4
<1> QED
    BY <1>2, <1>3, <1>4, <1>5, <1>6 DEF BillingInv

LEMMA SubscriptionsInv ==
    ASSUME BillingInv, ManageSubscriptions
    PROVE  BillingInv'
<1>1. PICK b \in Subs : \/ \E date \in Dates : CreateSubscription(b, date) \/ Disconnect(b, date)
                        \/ DeleteSubscription(b)
    BY DEF ManageSubscriptions
<1>2. subs \in [Subs -> Sub] /\ tariffs \in [Tariffs -> Tariff]
    BY DEF BillingInv, TypeOK
<1> DEFINE keep(row) == /\ row \in Sub
                        /\ SetSubscription(b, row)
                        /\ row.state # "live" /\ Live(b) =>
                              /\ \A p \in PeriodIds : calcs[<<b, p>>] = None
                              /\ ~KeyShareSub(b)
<1>3. ASSUME NEW row, keep(row)
      PROVE  BillingInv'
    <2>1. /\ subs' = [subs EXCEPT ![b] = row] /\ tariffs' = tariffs /\ KeepSteady
          /\ UNCHANGED <<periods, nextPeriod, calcs, metered, pc, gen, edit, draft>>
        BY <1>3 DEF SetSubscription
    <2>2. subs' \in [Subs -> Sub] /\ tariffs' \in [Tariffs -> Tariff]
        BY <1>2, <1>3, <2>1
    <2>3. \A c \in Subs : Live(c) /\ ~Live(c)' =>
             /\ \A p \in PeriodIds : calcs[<<c, p>>] = None
             /\ ~KeyShareSub(c)
        BY <1>2, <1>3, <2>1 DEF Live
    <2>4. \A t \in Tariffs : InTable(t)' = InTable(t)
        BY <2>1 DEF InTable
    <2> QED
        BY <2>1, <2>2, <2>3, <2>4, CatalogueInv
<1>4. ASSUME NEW date \in Dates, CreateSubscription(b, date)
      PROVE  keep([state |-> "live", disconnected |-> None, connected |-> date])
    BY <1>4 DEF CreateSubscription, Sub, Opt, Live
<1>5. ASSUME NEW date \in Dates, Disconnect(b, date)
      PROVE  keep([subs[b] EXCEPT !.disconnected = date])
    BY <1>2, <1>5 DEF Disconnect, Sub, Opt, Live
<1>6. ASSUME DeleteSubscription(b)
      PROVE  keep([state |-> "gone", disconnected |-> None, connected |-> None])
    BY <1>6 DEF DeleteSubscription, Sub, Opt
<1> HIDE DEF keep
<1> QED
    BY <1>1, <1>3, <1>4, <1>5, <1>6

\* A meter given or taken away touches no row of the ledger.
LEMMA ServicesInv ==
    ASSUME BillingInv, ManageServices
    PROVE  BillingInv'
<1>1. PICK v \in Services, has_meter \in BOOLEAN : UpdateService(v, has_meter)
    BY DEF ManageServices
<1>2. metered' \subseteq Services
    BY <1>1 DEF UpdateService, BillingInv, TypeOK
<1>3. UNCHANGED <<periods, nextPeriod, calcs, subs, tariffs, pc, gen, edit, draft, steady>>
    BY <1>1 DEF UpdateService
<1>4. TypeOK'
    BY <1>2, <1>3 DEF BillingInv, TypeOK
<1> QED
    BY <1>3, <1>4 DEF BillingInv, SessionShape, SessionFits, Picked, PendingPeriods, Claims,
       PendingRows, RowsHaveParents, MonthBilledOnce, Exists, Live, InTable

LEMMA TariffsInv ==
    ASSUME BillingInv, ManageTariffs
    PROVE  BillingInv'
<1>1. PICK t \in Tariffs :
         \/ \E price \in Prices, state \in {"active", "ended"} :
               CreateTariff(t, price, state) \/ UpdateTariff(t, price, state)
         \/ DeleteTariff(t)
    BY DEF ManageTariffs
<1>2. subs \in [Subs -> Sub] /\ tariffs \in [Tariffs -> Tariff]
    BY DEF BillingInv, TypeOK
<1>3. ASSUME NEW rows \in [Tariffs -> Tariff], tariffs' = rows, OnlyTariffs,
             \A u \in Tariffs : InTable(u) /\ rows[u].state \notin {"active", "ended"} =>
                /\ \A k \in Keys : calcs[k] # None => calcs[k].tariff # u
                /\ ~KeyShareTariff(u)
      PROVE  BillingInv'
    <2>1. /\ subs' = subs /\ tariffs' = rows /\ KeepSteady
          /\ UNCHANGED <<periods, nextPeriod, calcs, metered, pc, gen, edit, draft>>
        BY <1>3 DEF OnlyTariffs
    <2>2. \A c \in Subs : Live(c)' = Live(c)
        BY <2>1 DEF Live
    <2>3. \A u \in Tariffs : InTable(u) /\ ~InTable(u)' =>
             /\ \A k \in Keys : calcs[k] # None => calcs[k].tariff # u
             /\ ~KeyShareTariff(u)
        BY <1>3, <2>1 DEF InTable
    <2> QED
        BY <1>2, <2>1, <2>2, <2>3, CatalogueInv
<1>4. ASSUME NEW price \in Prices, NEW state \in {"active", "ended"}, CreateTariff(t, price, state)
      PROVE  BillingInv'
    <2> DEFINE rows == [u \in Tariffs |->
                 IF u = t THEN [state |-> state, price |-> price]
                 ELSE IF state = "active" /\ u \in Book!ActiveOf(TariffService[t])
                      THEN [tariffs[u] EXCEPT !.state = "ended"]
                      ELSE tariffs[u]]
    <2>1. rows \in [Tariffs -> Tariff]
        BY <1>2 DEF Tariff
    <2>2. \A u \in Tariffs : InTable(u) => rows[u].state \in {"active", "ended"}
        BY <1>2 DEF InTable, Tariff
    <2>3. tariffs' = rows /\ OnlyTariffs
        BY <1>4 DEF CreateTariff, Book!Create
    <2> HIDE DEF rows
    <2> QED
        BY <1>3, <2>1, <2>2, <2>3
<1>5. ASSUME NEW price \in Prices, NEW state \in {"active", "ended"}, UpdateTariff(t, price, state)
      PROVE  BillingInv'
    <2> DEFINE rows == [tariffs EXCEPT ![t] = [state |-> state, price |-> price]]
    <2>1. rows \in [Tariffs -> Tariff]
        BY <1>2 DEF Tariff
    <2>2. \A u \in Tariffs : InTable(u) => rows[u].state \in {"active", "ended"}
        BY <1>2 DEF InTable, Tariff
    <2>3. tariffs' = rows /\ OnlyTariffs
        BY <1>5 DEF UpdateTariff, Book!Amend
    <2> HIDE DEF rows
    <2> QED
        BY <1>3, <2>1, <2>2, <2>3
<1>6. ASSUME DeleteTariff(t)
      PROVE  BillingInv'
    <2> DEFINE rows == [tariffs EXCEPT ![t].state = "gone"]
    <2>1. rows \in [Tariffs -> Tariff]
        BY <1>2 DEF Tariff
    <2>2. \A u \in Tariffs : InTable(u) /\ u # t => rows[u].state \in {"active", "ended"}
        BY <1>2 DEF InTable
    <2>3. /\ tariffs' = rows /\ OnlyTariffs /\ ~KeyShareTariff(t)
          /\ \A k \in Keys : calcs[k] # None => calcs[k].tariff # t
        BY <1>6 DEF DeleteTariff, Book!Remove
    <2> HIDE DEF rows
    <2> QED
        BY <1>3, <2>1, <2>2, <2>3
<1> QED
    BY <1>1, <1>4, <1>5, <1>6

\* A step of a session keeps the invariant.
LEMMA SessionInv ==
    ASSUME BillingInv, NEW s \in Sessions, Request(s) \/ Continue(s) \/ Abort(s)
    PROVE  BillingInv'
<1>1. ASSUME NEW start \in MonthStarts, OpenPeriod(s, start)
      PROVE  BillingInv'
    BY <1>1, OpenPeriodInv
<1>2. ASSUME NEW k \in Keys, NEW prev \in Opt(Readings), NEW curr \in Readings,
             UpdateReading(s, k, prev, curr)
      PROVE  BillingInv'
    <2> DEFINE change == [kind |-> "reading", prev |-> prev, curr |-> curr,
                          price |-> tariffs[calcs[k].tariff].price]
    <2>1. calcs[k] \in Calc
        BY <1>2 DEF UpdateReading, BillingInv, TypeOK, Opt
    <2>2. tariffs[calcs[k].tariff].price \in Prices
        BY <2>1 DEF BillingInv, TypeOK, Calc, Tariff
    <2>3. change \in Change
        BY <2>2 DEF Change
    <2>4. StartEdit(s, k, change)
        BY <1>2 DEF UpdateReading
    <2> HIDE DEF change
    <2> QED
        BY <2>3, <2>4, StartEditInv
<1>3. ASSUME NEW k \in Keys, NEW status \in Statuses, UpdateStatus(s, k, status)
      PROVE  BillingInv'
    <2>1. [kind |-> "status", status |-> status] \in Change
        BY DEF Change
    <2> QED
        BY <1>3, <2>1, StartEditInv DEF UpdateStatus
<1>4. ASSUME NEW k \in Keys, NEW note \in Notes, UpdateNote(s, k, note)
      PROVE  BillingInv'
    <2>1. [kind |-> "note", note |-> note] \in Change
        BY DEF Change
    <2> QED
        BY <1>4, <2>1, StartEditInv DEF UpdateNote
<1>5. CASE Request(s)
    BY <1>1, <1>2, <1>3, <1>4, <1>5, CreateCalculationInv DEF Request
<1>6. CASE Continue(s)
    BY <1>6, FetchInv, PickInv, CopyNoteInv, CarryReadingInv, InsertGeneratedInv,
       CommitPeriodInv, WriteEditInv, InsertCalculationInv DEF Continue, GenerationStep
<1>7. CASE Abort(s)
    BY <1>7, RollbackInv DEF Abort
<1> QED
    BY <1>5, <1>6, <1>7

\* BillingInv is inductive.
LEMMA NextInv ==
    ASSUME BillingInv, [Next]_vars
    PROVE  BillingInv'
<1>1. CASE \E s \in Sessions : Request(s) \/ Continue(s) \/ Abort(s)
    BY <1>1, SessionInv
<1>2. CASE ManagePeriods
    <2>1. "open" \in PeriodStatuses /\ "closed" \in PeriodStatuses
        BY DEF PeriodStatuses
    <2> QED
        BY <1>2, <2>1, SetPeriodStatusInv, DeletePeriodInv
        DEF ManagePeriods, ClosePeriod, ReopenPeriod
<1>3. CASE ManageSubscriptions
    BY <1>3, SubscriptionsInv
<1>4. CASE ManageServices
    BY <1>4, ServicesInv
<1>5. CASE ManageTariffs
    BY <1>5, TariffsInv
<1>6. CASE UNCHANGED vars
    BY <1>6 DEF vars, BillingInv, TypeOK, SessionShape, SessionFits, Picked, PendingPeriods, Claims,
       PendingRows, RowsHaveParents, MonthBilledOnce, Exists, Live, InTable
<1> QED
    BY <1>1, <1>2, <1>3, <1>4, <1>5, <1>6 DEF Next

LEMMA BillingInvariant == Spec => []BillingInv
<1>1. Init => BillingInv
    BY InitInv
<1>2. BillingInv /\ [Next]_vars => BillingInv'
    BY NextInv
<1> QED
    BY <1>1, <1>2, PTL DEF Spec

-----------------------------------------------------------------------------
\* Every row of the database and every local of a request keeps its type.
THEOREM TypeCorrect == Spec => []TypeOK
<1>1. BillingInv => TypeOK
    BY DEF BillingInv
<1> QED
    BY <1>1, BillingInvariant, PTL

\* A calculation always has its period, its subscription and a tariff of the
\* subscription's own service.
THEOREM ParentsExist == Spec => []RowsHaveParents
<1>1. BillingInv => RowsHaveParents
    BY DEF BillingInv
<1> QED
    BY <1>1, BillingInvariant, PTL

\* No month is ever billed by two periods.
THEOREM OnePeriodPerMonth == Spec => []MonthBilledOnce
<1>1. BillingInv => MonthBilledOnce
    BY DEF BillingInv
<1> QED
    BY <1>1, BillingInvariant, PTL
=============================================================================
