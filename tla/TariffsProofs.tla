--------------------------- MODULE TariffsProofs ---------------------------
(***************************************************************************)
(* A service has one active tariff, for any number of CreateTariff         *)
(* requests, edits and deletions in flight, and the statements of          *)
(* ServiceRepo implement TariffBook.  TableInv is the inductive invariant: *)
(* at most one session at a time has touched the active row of a service,  *)
(* and it is the one that will replace it.                                 *)
(***************************************************************************)
EXTENDS Tariffs, TLAPS

Phases == {"idle", "check", "end", "lock", "insert", "commit"}

LEMMA InitHolds == Init => TableInv
<1> SUFFICES ASSUME Init
             PROVE  TableInv
    OBVIOUS
<1>1. TypeOK
    BY TariffsAssumption, InitialTariffsAssumption DEF Init, TypeOK, Days, Opt
<1>2. OneActive
    BY InitialTariffsAssumption DEF Init, OneActive, Active, Live
<1>3. \A s \in Sessions : req[s] = None
    BY DEF Init
<1> QED
    BY <1>1, <1>2, <1>3 DEF TableInv

\* A step that changes the request of one session only.
LEMMA OneSession ==
    ASSUME TableInv, NEW s \in Sessions, NEW phase \in Phases, NEW q \in Opt(Create),
           pc' = [pc EXCEPT ![s] = phase], req' = [req EXCEPT ![s] = q],
           UNCHANGED <<tariffs, today>>,
           phase = "idle" <=> q = None,
           q # None => CreateFits(s)',
           \A r \in Sessions \ {s} : q # None /\ req[r] # None => Apart(r, s)' /\ Apart(s, r)'
    PROVE  TableInv'
<1>1. /\ pc'[s] = phase /\ req'[s] = q
      /\ \A r \in Sessions \ {s} : pc'[r] = pc[r] /\ req'[r] = req[r]
    BY DEF TableInv, TypeOK
<1>2. TypeOK'
    BY <1>1 DEF TableInv, TypeOK, Phases
<1>3. OneActive'
    BY DEF TableInv, OneActive, Active, Live
<1>4. ASSUME NEW r \in Sessions, req'[r] # None
      PROVE  CreateFits(r)'
    <2>1. CASE r = s
        BY <1>1, <1>4, <2>1
    <2>2. CASE r # s
        BY <1>1, <1>4, <2>2
        DEF TableInv, CreateFits, Ending, Active, Live, ServiceOf, IndexAdmits, ActiveOf
    <2> QED
        BY <2>1, <2>2
<1>5. ASSUME NEW r \in Sessions, NEW t \in Sessions, r # t, req'[r] # None, req'[t] # None
      PROVE  Apart(r, t)'
    <2>1. CASE r = s
        BY <1>1, <1>5, <2>1
    <2>2. CASE t = s
        BY <1>1, <1>5, <2>2
    <2>3. CASE r # s /\ t # s
        <3>1. req[r] # None /\ req[t] # None
            BY <1>1, <1>5, <2>3
        <3>2. Apart(r, t)
            BY <1>5, <3>1 DEF TableInv
        <3> QED
            BY <1>1, <2>3, <3>2 DEF Apart, HoldsIndex, ServiceOf
    <2> QED
        BY <2>1, <2>2, <2>3
<1> QED
    BY <1>2, <1>3, <1>4, <1>5 DEF TableInv

LEMMA RollbackInv ==
    ASSUME TableInv, NEW s \in Sessions, Rollback(s)
    PROVE  TableInv'
<1>1. "idle" \in Phases /\ None \in Opt(Create)
    BY DEF Phases, Opt
<1>2. pc' = [pc EXCEPT ![s] = "idle"] /\ req' = [req EXCEPT ![s] = None]
      /\ UNCHANGED <<tariffs, today>>
    BY DEF Rollback
<1> QED
    BY <1>1, <1>2, OneSession

\* A session moves on without touching the table or its locals.
LEMMA PhaseInv ==
    ASSUME TableInv, NEW s \in Sessions, NEW phase \in Phases \ {"idle", "commit", "lock"},
           pc[s] # "idle", pc' = [pc EXCEPT ![s] = phase], UNCHANGED <<tariffs, today, req>>,
           req[s].ended # None => phase = "insert",
           phase # "insert" => req[s].to = None
    PROVE  TableInv'
<1>1. /\ req[s] # None /\ req[s] \in Opt(Create) /\ req' = [req EXCEPT ![s] = req[s]]
      /\ pc'[s] = phase
    BY DEF TableInv, TypeOK
<1>2. CreateFits(s) /\ phase \notin {"lock", "commit"}
    BY <1>1 DEF TableInv
<1>3. CreateFits(s)'
    BY <1>1, <1>2 DEF CreateFits, Ending, Active, Live, ServiceOf
<1>4. ASSUME NEW r \in Sessions \ {s}, req[r] # None
      PROVE  Apart(r, s)' /\ Apart(s, r)'
    <2>1. Apart(r, s) /\ Apart(s, r)
        BY <1>1, <1>4 DEF TableInv
    <2>2. pc'[r] = pc[r] /\ (HoldsIndex(s)' => HoldsIndex(s)) /\ (HoldsIndex(r)' <=> HoldsIndex(r))
        BY <1>1, <1>2, <1>4 DEF HoldsIndex, TableInv, TypeOK
    <2> QED
        BY <2>1, <2>2 DEF Apart, ServiceOf
<1> QED
    BY <1>1, <1>3, <1>4, OneSession

LEMMA CreateInv ==
    ASSUME TableInv, NEW s \in Sessions, NEW t \in Tariffs, NEW price \in Prices,
           NEW from \in Days, NEW to \in Opt(Days), CreateTariff(s, t, price, from, to)
    PROVE  TableInv'
<1> DEFINE q == [id |-> t, price |-> price, from |-> from, to |-> to,
                 target |-> None, ended |-> None]
           phase == IF to = None THEN "check" ELSE "insert"
<1>1. q \in Create /\ q # None /\ phase \in {"check", "insert"} /\ phase \in Phases
    BY TariffsAssumption DEF Create, Opt, Phases
<1>2. /\ pc' = [pc EXCEPT ![s] = phase] /\ req' = [req EXCEPT ![s] = q]
      /\ tariffs[t].state = "new"
      /\ \A r \in Sessions : req[r] # None => req[r].id # t
      /\ UNCHANGED <<tariffs, today>>
    BY DEF CreateTariff
<1>3. q.id = t /\ q.to = to /\ q.ended = None /\ (phase = "check" => to = None)
    OBVIOUS
<1> HIDE DEF q, phase
<1>4. req'[s] = q /\ pc'[s] = phase
    BY <1>2 DEF TableInv, TypeOK
<1>5. CreateFits(s)'
    BY <1>1, <1>2, <1>3, <1>4 DEF CreateFits, Ending
<1>6. ASSUME NEW r \in Sessions \ {s}, req[r] # None
      PROVE  Apart(r, s)' /\ Apart(s, r)'
    <2>1. req'[r] = req[r] /\ req[r].id # t /\ ~HoldsIndex(s)'
        BY <1>1, <1>2, <1>3, <1>4, <1>6 DEF HoldsIndex, TableInv, TypeOK
    <2> QED
        BY <1>3, <1>4, <2>1 DEF Apart
<1> QED
    BY <1>1, <1>2, <1>5, <1>6, OneSession DEF Opt

\* The SELECT of the active tariff and the comparison of dates.
LEMMA CheckInv ==
    ASSUME TableInv, NEW s \in Sessions, CheckTimeline(s)
    PROVE  TableInv'
<1>1. /\ pc[s] = "check" /\ req[s] # None /\ req[s] \in Create
      /\ CreateFits(s) /\ req[s].to = None /\ req[s].ended = None
    BY DEF CheckTimeline, TableInv, TypeOK, Opt, CreateFits, Ending
<1>2. ASSUME NEW phase \in {"insert", "end"}, pc' = [pc EXCEPT ![s] = phase],
             UNCHANGED <<tariffs, today, req>>
      PROVE  TableInv'
    BY <1>1, <1>2, PhaseInv DEF Phases
<1>3. CASE Rollback(s)
    BY <1>3, RollbackInv
<1> QED
    BY <1>2, <1>3 DEF CheckTimeline

LEMMA FindInv ==
    ASSUME TableInv, NEW s \in Sessions, FindPrevious(s)
    PROVE  TableInv'
<1>1. /\ pc[s] = "end" /\ req[s] # None /\ req[s] \in Create
      /\ CreateFits(s) /\ req[s].to = None /\ req[s].ended = None
    BY DEF FindPrevious, TableInv, TypeOK, Opt, CreateFits, Ending
<1>2. CASE pc' = [pc EXCEPT ![s] = "insert"] /\ UNCHANGED <<tariffs, today, req>>
    BY <1>1, <1>2, PhaseInv DEF Phases
<1>3. ASSUME NEW a \in ActiveOf(ServiceOf(s)), req' = [req EXCEPT ![s].target = a],
             pc' = [pc EXCEPT ![s] = "lock"], UNCHANGED <<tariffs, today>>
      PROVE  TableInv'
    <2> DEFINE q == [req[s] EXCEPT !.target = a]
    <2>1. a \in Tariffs /\ TariffService[a] = ServiceOf(s)
        BY <1>3 DEF ActiveOf
    <2>2. /\ q \in Create /\ q.id = req[s].id /\ q.to = None /\ q.ended = None /\ q.target = a
          /\ req' = [req EXCEPT ![s] = q]
        BY <1>1, <1>3, <2>1 DEF Create, Opt
    <2>3. q # None
        BY <2>2, TariffsAssumption
    <2> HIDE DEF q
    <2>4. req'[s] = q /\ pc'[s] = "lock"
        BY <1>3, <2>2 DEF TableInv, TypeOK
    <2>5. CreateFits(s)'
        BY <1>1, <1>3, <2>1, <2>2, <2>4 DEF CreateFits, Ending, ServiceOf
    <2>6. ASSUME NEW r \in Sessions \ {s}, req[r] # None
          PROVE  Apart(r, s)' /\ Apart(s, r)'
        <3>1. req'[r] = req[r] /\ ~HoldsIndex(s)'
            BY <1>3, <2>2, <2>4 DEF HoldsIndex, TableInv, TypeOK
        <3>2. req[r].id # req[s].id
            BY <1>1, <2>6 DEF TableInv, Apart
        <3> QED
            BY <2>2, <2>4, <3>1, <3>2 DEF Apart
    <2> QED
        BY <1>3, <2>2, <2>3, <2>5, <2>6, OneSession DEF Opt, Phases
<1> QED
    BY <1>2, <1>3 DEF FindPrevious

\* The UPDATE takes the lock on the active row: no other session holds one of
\* this service, because it would have ended the same row or found none active.
LEMMA EndInv ==
    ASSUME TableInv, NEW s \in Sessions, EndPrevious(s)
    PROVE  TableInv'
<1> DEFINE a == req[s].target
<1>1. /\ pc[s] = "lock" /\ req[s] # None /\ req[s] \in Create
      /\ CreateFits(s) /\ req[s].to = None /\ req[s].ended = None
      /\ a \in Tariffs /\ TariffService[a] = ServiceOf(s) /\ ~RowLocked(a)
    BY DEF EndPrevious, TableInv, TypeOK, Opt, CreateFits, Ending
<1>2. CASE pc' = [pc EXCEPT ![s] = "insert"] /\ UNCHANGED <<tariffs, today, req>>
    BY <1>1, <1>2, PhaseInv DEF Phases
<1>3. CASE Rollback(s)
    BY <1>3, RollbackInv
<1>4. ASSUME Active(a), DatesCheck(tariffs[a].from, DayBefore(req[s].from)),
             req' = [req EXCEPT ![s].ended = a],
             pc' = [pc EXCEPT ![s] = "insert"], UNCHANGED <<tariffs, today>>
      PROVE  TableInv'
    <2> DEFINE q == [req[s] EXCEPT !.ended = a]
    <2>1. /\ q \in Create /\ q.id = req[s].id /\ q.to = None /\ q.ended = a
          /\ q.from = req[s].from /\ req' = [req EXCEPT ![s] = q]
        BY <1>1, <1>4 DEF Create, Opt
    <2>2. q # None
        BY <2>1, TariffsAssumption
    <2>3. tariffs[a].from < DayBefore(req[s].from)
        <3>1. req[s].from \in Nat \ {0} /\ tariffs[a].from \in Nat
            BY <1>1, TariffsAssumption DEF TableInv, TypeOK, Tariff, Create, Days
        <3>2. DayBefore(req[s].from) # None => DayBefore(req[s].from) > tariffs[a].from
            BY <1>4 DEF DatesCheck
        <3>3. DayBefore(req[s].from) \in Nat
            BY <3>1 DEF DayBefore
        <3> QED
            BY <3>1, <3>2, <3>3, TariffsAssumption
    <2> HIDE DEF q, a
    <2>4. req'[s] = q /\ pc'[s] = "insert"
        BY <1>4, <2>1 DEF TableInv, TypeOK
    <2>5. CreateFits(s)'
        BY <1>1, <1>4, <2>1, <2>3, <2>4 DEF CreateFits, Ending, ServiceOf, Active, Live
    <2>6. ASSUME NEW r \in Sessions \ {s}, req[r] # None
          PROVE  Apart(r, s)' /\ Apart(s, r)'
        <3>1. req'[r] = req[r] /\ pc'[r] = pc[r] /\ ServiceOf(s)' = ServiceOf(s)
            BY <1>4, <2>1, <2>4 DEF TableInv, TypeOK, ServiceOf
        <3>2. req[r].id # req[s].id /\ CreateFits(r)
            BY <1>1, <2>6 DEF TableInv, Apart
        <3>3. HoldsIndex(r) => ServiceOf(r) # ServiceOf(s)
            <4>1. SUFFICES ASSUME HoldsIndex(r), ServiceOf(r) = ServiceOf(s)
                           PROVE  FALSE
                OBVIOUS
            <4>2. req[r].ended # a
                BY <1>1, <2>6 DEF RowLocked
            <4>3. a \in ActiveOf(ServiceOf(r))
                BY <1>1, <1>4, <4>1 DEF ActiveOf
            <4>4. CASE req[r].ended # None
                <5>1. req[r].ended \in Tariffs
                    BY <2>6, <4>4 DEF TableInv, TypeOK, Opt, Create
                <5> QED
                    BY <1>1, <1>4, <3>2, <4>1, <4>2, <4>4, <5>1
                    DEF TableInv, OneActive, CreateFits, Ending
            <4>5. CASE req[r].ended = None
                BY <3>2, <4>1, <4>2, <4>3, <4>5 DEF HoldsIndex, CreateFits, IndexAdmits
            <4> QED
                BY <4>4, <4>5
        <3> QED
            BY <2>1, <2>4, <3>1, <3>2, <3>3 DEF Apart, HoldsIndex, ServiceOf
    <2> QED
        BY <1>4, <2>1, <2>2, <2>5, <2>6, OneSession DEF Opt, Phases
<1> QED
    BY <1>2, <1>3, <1>4 DEF EndPrevious

\* The unique index lets one new active row of a service through at a time.
LEMMA InsertInv ==
    ASSUME TableInv, NEW s \in Sessions, InsertTariff(s)
    PROVE  TableInv'
<1> DEFINE q == req[s]
<1>1. /\ pc[s] = "insert" /\ q # None /\ q \in Create /\ CreateFits(s)
      /\ q.to = None /\ q.ended = None => ~IndexLocked(ServiceOf(s))
    BY DEF InsertTariff, TableInv, TypeOK, Opt
<1>2. CASE Rollback(s)
    BY <1>2, RollbackInv
<1>3. ASSUME DatesCheck(q.from, q.to), q.to = None => IndexAdmits(ServiceOf(s), {q.ended}),
             pc' = [pc EXCEPT ![s] = "commit"], UNCHANGED <<tariffs, today, req>>
      PROVE  TableInv'
    <2>1. req' = [req EXCEPT ![s] = q] /\ req'[s] = q /\ pc'[s] = "commit"
        BY <1>3 DEF TableInv, TypeOK
    <2>2. CreateFits(s)'
        BY <1>1, <1>3, <2>1
        DEF CreateFits, Ending, ServiceOf, Active, Live, IndexAdmits, ActiveOf
    <2>3. ASSUME NEW r \in Sessions \ {s}, req[r] # None
          PROVE  Apart(r, s)' /\ Apart(s, r)'
        <3>1. Apart(r, s) /\ Apart(s, r) /\ pc'[r] = pc[r] /\ UNCHANGED req
            BY <1>1, <1>3, <2>3 DEF TableInv, TypeOK
        <3>2. HoldsIndex(s)' /\ q.ended = None /\ HoldsIndex(r) => ServiceOf(r) # ServiceOf(s)
            BY <1>1, <2>1 DEF HoldsIndex, IndexLocked
        <3> QED
            BY <2>1, <3>1, <3>2, <1>1 DEF Apart, HoldsIndex, ServiceOf
    <2> QED
        BY <1>1, <1>3, <2>1, <2>2, <2>3, OneSession DEF Opt, Phases
<1> QED
    BY <1>2, <1>3 DEF InsertTariff

-----------------------------------------------------------------------------
(* The commit, and the requests of one statement. *)

\* An edit of a row that no session holds: the requests in flight still fit.
LEMMA RowInv ==
    ASSUME TableInv, NEW t \in Tariffs, NEW row \in Tariff, Live(t), ~RowLocked(t),
           tariffs' = [tariffs EXCEPT ![t] = row], UNCHANGED <<today, pc, req>>,
           row.state # "new",
           row.state = "live" /\ row.to = None =>
              ~IndexLocked(TariffService[t]) /\ IndexAdmits(TariffService[t], {t})
    PROVE  TableInv'
<1>1. TypeOK'
    BY DEF TableInv, TypeOK
<1>2. /\ tariffs'[t] = row
      /\ \A u \in Tariffs \ {t} : tariffs'[u] = tariffs[u]
    BY DEF TableInv, TypeOK
<1>3. \A u \in Tariffs \ {t} : Active(u)' = Active(u)
    BY <1>2 DEF Active, Live
<1>4. Active(t)' => \A u \in Tariffs \ {t} : Active(u) => TariffService[u] # TariffService[t]
    BY <1>2 DEF Active, Live, IndexAdmits, ActiveOf
<1>5. OneActive'
    BY <1>3, <1>4 DEF TableInv, OneActive
<1>6. ASSUME NEW s \in Sessions, req[s] # None
      PROVE  CreateFits(s)'
    <2>1. CreateFits(s) /\ req[s] \in Create
        BY <1>6 DEF TableInv, TypeOK, Opt
    <2>2. req[s].id # t /\ req[s].id \in Tariffs
        BY <2>1 DEF CreateFits, Live, Create
    <2>3. req[s].ended # t
        BY <1>6 DEF RowLocked
    <2>4. Ending(s)'
        <3>1. req[s].ended # None => req[s].ended \in Tariffs
            BY <2>1 DEF Create, Opt
        <3> QED
            BY <1>2, <1>3, <2>1, <2>3, <3>1 DEF CreateFits, Ending, ServiceOf
    <2>5. pc[s] = "commit" /\ req[s].to = None => IndexAdmits(ServiceOf(s), {req[s].ended})'
        <3>1. SUFFICES ASSUME pc[s] = "commit", req[s].to = None,
                              NEW u \in Tariffs, Active(u)', TariffService[u] = ServiceOf(s)
                       PROVE  u = req[s].ended
            BY DEF IndexAdmits, ActiveOf, ServiceOf
        <3>2. u # t
            BY <1>2, <1>6, <3>1 DEF Active, Live, IndexLocked, HoldsIndex
        <3> QED
            BY <1>3, <2>1, <3>1, <3>2 DEF CreateFits, IndexAdmits, ActiveOf
    <2> QED
        BY <1>2, <2>1, <2>2, <2>4, <2>5 DEF CreateFits, ServiceOf
<1>7. ASSUME NEW r \in Sessions, NEW s \in Sessions, r # s, req[r] # None, req[s] # None
      PROVE  Apart(r, s)'
    BY <1>7 DEF TableInv, Apart, HoldsIndex, ServiceOf
<1> QED
    BY <1>1, <1>5, <1>6, <1>7 DEF TableInv

LEMMA EditInv ==
    ASSUME TableInv, NEW t \in Tariffs, Edit(t)
    PROVE  TableInv'
<1>1. ASSUME NEW price \in Prices, NEW from \in Days, NEW to \in Opt(Days),
             UpdateTariff(t, price, from, to)
      PROVE  TableInv'
    <2> DEFINE row == [state |-> "live", price |-> price, from |-> from, to |-> to]
    <2>1. row \in Tariff
        BY DEF Tariff
    <2> QED
        BY <1>1, <2>1, RowInv DEF UpdateTariff
<1>2. CASE DeleteTariff(t)
    <2> DEFINE row == [tariffs[t] EXCEPT !.state = "gone"]
    <2>1. row \in Tariff /\ row.state = "gone"
        BY DEF TableInv, TypeOK, Tariff
    <2>2. tariffs' = [tariffs EXCEPT ![t] = row]
        BY <1>2 DEF DeleteTariff
    <2> HIDE DEF row
    <2> QED
        BY <1>2, <2>1, <2>2, RowInv DEF DeleteTariff
<1> QED
    BY <1>1, <1>2 DEF Edit

\* What the commit of a session does to the table.
LEMMA CommitTable ==
    ASSUME TableInv, NEW s \in Sessions, CommitTariff(s)
    PROVE  LET q == req[s] IN
           /\ q \in Create /\ q # None /\ CreateFits(s) /\ pc[s] = "commit"
           /\ q.ended # q.id
           /\ tariffs'[q.id] = [state |-> "live", price |-> q.price, from |-> q.from, to |-> q.to]
           /\ q.ended # None =>
                 /\ q.ended \in Tariffs
                 /\ tariffs'[q.ended] = [tariffs[q.ended] EXCEPT !.to = DayBefore(q.from)]
                 /\ DayBefore(q.from) \in Days
           /\ \A t \in Tariffs \ {q.id, q.ended} : tariffs'[t] = tariffs[t]
           /\ tariffs' \in [Tariffs -> Tariff]
<1> DEFINE q == req[s]
<1>1. q \in Create /\ q # None /\ CreateFits(s) /\ pc[s] = "commit"
    BY DEF CommitTariff, TableInv, TypeOK, Opt
<1>2. tariffs' = [t \in Tariffs |->
              IF t = q.id THEN [state |-> "live", price |-> q.price, from |-> q.from, to |-> q.to]
              ELSE IF t = q.ended THEN [tariffs[t] EXCEPT !.to = DayBefore(q.from)]
              ELSE tariffs[t]]
    BY DEF CommitTariff
<1>3. q.id \in Tariffs /\ q.price \in Prices /\ q.from \in Days /\ q.to \in Opt(Days)
      /\ q.ended \in Opt(Tariffs)
    BY <1>1 DEF Create
<1>4. q.ended # q.id
    BY <1>1, <1>3, TariffsAssumption DEF CreateFits, Ending, Active, Live
<1>5. q.ended # None => q.ended \in Tariffs /\ DayBefore(q.from) \in Days
    <2>1. SUFFICES ASSUME q.ended # None
                   PROVE  q.ended \in Tariffs /\ DayBefore(q.from) \in Days
        OBVIOUS
    <2>2. q.ended \in Tariffs /\ tariffs[q.ended].from \in Days
          /\ tariffs[q.ended].from < DayBefore(q.from)
        BY <1>1, <1>3, <2>1 DEF TableInv, TypeOK, Tariff, Opt, CreateFits, Ending
    <2> QED
        BY <1>3, <2>2, TariffsAssumption DEF DayBefore, Days
<1> HIDE DEF q
<1>6. tariffs' \in [Tariffs -> Tariff]
    <2>1. ASSUME NEW t \in Tariffs
          PROVE  tariffs'[t] \in Tariff
        <3>1. tariffs[t] \in Tariff
            BY DEF TableInv, TypeOK
        <3>2. CASE t = q.id
            BY <1>2, <1>3, <3>2 DEF Tariff
        <3>3. CASE t # q.id /\ t = q.ended
            <4>1. tariffs'[t] = [tariffs[t] EXCEPT !.to = DayBefore(q.from)]
                BY <1>2, <3>3
            <4>2. DayBefore(q.from) \in Opt(Days)
                BY <1>5, <3>3, TariffsAssumption DEF Opt
            <4> QED
                BY <3>1, <4>1, <4>2 DEF Tariff
        <3>4. CASE t # q.id /\ t # q.ended
            BY <1>2, <3>1, <3>4
        <3> QED
            BY <3>2, <3>3, <3>4
    <2> QED
        BY <1>2, <2>1
<1> QED
    BY <1>1, <1>2, <1>3, <1>4, <1>5, <1>6 DEF q

LEMMA CommitInv ==
    ASSUME TableInv, NEW s \in Sessions, CommitTariff(s)
    PROVE  TableInv'
<1> DEFINE q == req[s]
<1>1. /\ q \in Create /\ q # None /\ CreateFits(s) /\ pc[s] = "commit" /\ q.ended # q.id
      /\ tariffs'[q.id] = [state |-> "live", price |-> q.price, from |-> q.from, to |-> q.to]
      /\ q.ended # None =>
            /\ q.ended \in Tariffs
            /\ tariffs'[q.ended] = [tariffs[q.ended] EXCEPT !.to = DayBefore(q.from)]
            /\ DayBefore(q.from) \in Days
      /\ \A t \in Tariffs \ {q.id, q.ended} : tariffs'[t] = tariffs[t]
      /\ tariffs' \in [Tariffs -> Tariff]
    BY CommitTable
<1>2. pc' = [pc EXCEPT ![s] = "idle"] /\ req' = [req EXCEPT ![s] = None] /\ today' = today
    BY DEF CommitTariff
<1>3. q.id \in Tariffs /\ TariffService[q.id] = ServiceOf(s)
    BY <1>1 DEF Create, ServiceOf
<1>4. q.ended # None => TariffService[q.ended] = ServiceOf(s) /\ q.to = None
    BY <1>1 DEF CreateFits, Ending
<1>5. q.to = None => IndexAdmits(ServiceOf(s), {q.ended})
    BY <1>1 DEF CreateFits
<1> HIDE DEF q
<1>6. TypeOK'
    BY <1>1, <1>2 DEF TableInv, TypeOK, Opt
<1>7. ASSUME NEW t \in Tariffs, t = q.ended
      PROVE  ~Active(t)'
    <2>1. q.ended # None /\ tariffs[t] \in Tariff
        BY <1>7, TariffsAssumption DEF TableInv, TypeOK
    <2>2. tariffs'[t].to = DayBefore(q.from) /\ DayBefore(q.from) # None
        BY <1>1, <1>7, <2>1, TariffsAssumption DEF Tariff, Days
    <2> QED
        BY <2>2 DEF Active
<1>8. \A t \in Tariffs \ {q.id, q.ended} : Active(t)' = Active(t)
    BY <1>1 DEF Active, Live
<1>9. ASSUME NEW t \in Tariffs, NEW u \in Tariffs, t = q.id, u # t, Active(t)', Active(u)'
      PROVE  TariffService[u] # TariffService[t]
    <2>1. q.to = None
        BY <1>1, <1>9 DEF Active
    <2>2. u # q.ended
        BY <1>7, <1>9
    <2>3. Active(u)
        BY <1>8, <1>9, <2>2
    <2> QED
        BY <1>3, <1>5, <1>9, <2>1, <2>2, <2>3 DEF IndexAdmits, ActiveOf
<1>10. OneActive'
    <2>1. ASSUME NEW t \in Tariffs, NEW u \in Tariffs, Active(t)', Active(u)',
                 TariffService[t] = TariffService[u], t # u
          PROVE  FALSE
        <3>1. t # q.id /\ u # q.id
            BY <1>9, <2>1
        <3>2. t # q.ended /\ u # q.ended
            BY <1>7, <2>1
        <3>3. Active(t) /\ Active(u)
            BY <1>8, <2>1, <3>1, <3>2
        <3> QED
            BY <2>1, <3>3 DEF TableInv, OneActive
    <2> QED
        BY <2>1 DEF OneActive
<1>11. ASSUME NEW r \in Sessions, req'[r] # None
       PROVE  r # s /\ req'[r] = req[r] /\ pc'[r] = pc[r] /\ CreateFits(r) /\ Apart(r, s) /\ Apart(s, r)
    BY <1>1, <1>2, <1>11 DEF TableInv, TypeOK, q
<1>12. ASSUME NEW r \in Sessions, req'[r] # None
       PROVE  CreateFits(r)'
    <2>1. /\ r # s /\ req'[r] = req[r] /\ pc'[r] = pc[r] /\ CreateFits(r) /\ req[r] # None
          /\ req[r].id # q.id
          /\ HoldsIndex(r) /\ HoldsIndex(s) => ServiceOf(r) # ServiceOf(s)
        BY <1>11, <1>12 DEF Apart, q
    <2>2. req[r] \in Create /\ req[r].id \in Tariffs /\ req[r].ended \in Opt(Tariffs)
        BY <1>12, <2>1 DEF TableInv, TypeOK, Opt, Create
    <2>3. q.ended # None => HoldsIndex(s)
        BY <1>1 DEF HoldsIndex, q
    <2>4. req[r].id # q.ended
        BY <1>1, <2>1, <2>2, TariffsAssumption DEF CreateFits, Ending, Active, Live, q
    <2>5. req[r].ended # None =>
             /\ req[r].ended \in Tariffs /\ req[r].ended # q.ended /\ req[r].ended # q.id
        <3>1. SUFFICES ASSUME req[r].ended # None
                       PROVE  /\ req[r].ended \in Tariffs
                              /\ req[r].ended # q.ended /\ req[r].ended # q.id
            OBVIOUS
        <3>2. req[r].ended \in Tariffs /\ HoldsIndex(r)
            BY <2>1, <2>2, <3>1 DEF Opt, HoldsIndex
        <3>3. Active(req[r].ended) /\ TariffService[req[r].ended] = ServiceOf(r)
            BY <2>1, <3>1 DEF CreateFits, Ending
        <3>4. req[r].ended # q.ended
            BY <1>4, <2>1, <2>3, <3>1, <3>2, <3>3
        <3>5. tariffs[q.id].state = "new"
            BY <1>1 DEF CreateFits, q
        <3> QED
            BY <3>2, <3>3, <3>4, <3>5 DEF Active, Live
    <2>6. tariffs'[req[r].id] = tariffs[req[r].id]
          /\ (req[r].ended # None => tariffs'[req[r].ended] = tariffs[req[r].ended])
        BY <1>1, <2>1, <2>2, <2>4, <2>5
    <2>7. Ending(r)'
        BY <2>1, <2>6 DEF CreateFits, Ending, ServiceOf, Active, Live
    <2>8. pc[r] = "commit" /\ req[r].to = None => IndexAdmits(ServiceOf(r), {req[r].ended})'
        <3>1. SUFFICES ASSUME pc[r] = "commit", req[r].to = None,
                              NEW t \in Tariffs, Active(t)', TariffService[t] = ServiceOf(r)
                       PROVE  t = req[r].ended
            BY <2>1 DEF IndexAdmits, ActiveOf, ServiceOf
        <3>2. HoldsIndex(r)
            BY <2>1, <3>1 DEF HoldsIndex
        <3>3. t # q.ended
            BY <1>7, <3>1
        <3>4. t # q.id
            <4>1. SUFFICES ASSUME t = q.id
                           PROVE  FALSE
                OBVIOUS
            <4>2. q.to = None
                BY <1>1, <3>1, <4>1 DEF Active
            <4>3. HoldsIndex(s)
                BY <1>1, <4>2 DEF HoldsIndex, q
            <4> QED
                BY <1>3, <2>1, <3>1, <3>2, <4>1, <4>3
        <3>5. Active(t)
            BY <1>8, <3>1, <3>3, <3>4
        <3> QED
            BY <2>1, <3>1, <3>5 DEF CreateFits, IndexAdmits, ActiveOf
    <2> QED
        BY <2>1, <2>6, <2>7, <2>8 DEF CreateFits, ServiceOf
<1>13. ASSUME NEW r \in Sessions, NEW t \in Sessions, r # t, req'[r] # None, req'[t] # None
       PROVE  Apart(r, t)'
    BY <1>11, <1>13 DEF TableInv, Apart, HoldsIndex, ServiceOf
<1> QED
    BY <1>6, <1>10, <1>12, <1>13 DEF TableInv

\* TableInv is inductive.
LEMMA TableInvariant == Spec => []TableInv
<1>1. ASSUME TableInv, [Next]_vars
      PROVE  TableInv'
    <2>1. CASE UNCHANGED vars
        BY <1>1, <2>1 DEF vars, TableInv, TypeOK, OneActive, CreateFits, Ending, Apart, HoldsIndex,
           IndexAdmits, ActiveOf, Active, Live, ServiceOf
    <2>2. ASSUME NEW s \in Sessions, NEW t \in Tariffs, NEW price \in Prices, NEW from \in Days,
                 NEW to \in Opt(Days), CreateTariff(s, t, price, from, to)
          PROVE  TableInv'
        BY <1>1, <2>2, CreateInv
    <2>3. ASSUME NEW s \in Sessions, Continue(s)
          PROVE  TableInv'
        BY <1>1, <2>3, CheckInv, FindInv, EndInv, InsertInv, CommitInv DEF Continue
    <2>4. ASSUME NEW s \in Sessions, Abort(s)
          PROVE  TableInv'
        BY <1>1, <2>4, RollbackInv DEF Abort
    <2>5. ASSUME NEW t \in Tariffs, Edit(t)
          PROVE  TableInv'
        BY <1>1, <2>5, EditInv
    <2>6. CASE Midnight
        <3>1. TypeOK'
            BY <1>1, <2>6, TariffsAssumption DEF Midnight, TableInv, TypeOK, Days
        <3> QED
            BY <1>1, <2>6, <3>1 DEF Midnight, TableInv, OneActive, CreateFits, Ending, Apart,
               HoldsIndex, IndexAdmits, ActiveOf, Active, Live, ServiceOf
    <2> QED
        BY <1>1, <2>1, <2>2, <2>3, <2>4, <2>5, <2>6 DEF Next
<1> QED
    BY <1>1, InitHolds, PTL DEF Spec

\* The rows and the requests under way keep their types, and a session has a
\* request exactly while it is busy.
THEOREM TariffTypes == Spec => []TypeOK
<1>1. TableInv => TypeOK
    BY DEF TableInv
<1> QED
    BY <1>1, TableInvariant, PTL

\* A service never has two active tariffs, for any number of requests in flight.
THEOREM OnePrice == Spec => []OneActive
<1>1. TableInv => OneActive
    BY DEF TableInv
<1> QED
    BY <1>1, TableInvariant, PTL

-----------------------------------------------------------------------------
(* The refinement: a step of ServiceRepo is a step of TariffBook, or changes *)
(* nothing that TariffBook sees.                                             *)

LEMMA StutterEntry ==
    ASSUME UNCHANGED tariffs
    PROVE  UNCHANGED Table
BY DEF Table, Entry, Active, Live

LEMMA BookActiveOf ==
    ASSUME TypeOK, NEW v
    PROVE  Book!ActiveOf(v) = ActiveOf(v)
<1>1. \A t \in Tariffs : Table[t].state = "active" <=> Active(t)
    BY DEF TypeOK, Table, Entry, Active, Live, Tariff
<1> QED
    BY <1>1 DEF Book!ActiveOf, ActiveOf

\* The row of CommitTariff is the step Create of the table.
LEMMA CommitStep ==
    ASSUME TableInv, NEW s \in Sessions, CommitTariff(s)
    PROVE  Book!Next
<1> DEFINE q == req[s]
           state == IF q.to = None THEN "active" ELSE "ended"
<1>1. /\ q \in Create /\ q # None /\ CreateFits(s) /\ pc[s] = "commit" /\ q.ended # q.id
      /\ tariffs'[q.id] = [state |-> "live", price |-> q.price, from |-> q.from, to |-> q.to]
      /\ q.ended # None =>
            /\ q.ended \in Tariffs
            /\ tariffs'[q.ended] = [tariffs[q.ended] EXCEPT !.to = DayBefore(q.from)]
            /\ DayBefore(q.from) \in Days
      /\ \A t \in Tariffs \ {q.id, q.ended} : tariffs'[t] = tariffs[t]
      /\ tariffs' \in [Tariffs -> Tariff]
    BY CommitTable
<1>2. q.id \in Tariffs /\ q.price \in Prices /\ state \in Book!Rows /\ TypeOK
    BY <1>1 DEF Create, Book!Rows, TableInv
<1>3. Table[q.id].state = "new"
    BY <1>1, <1>2 DEF CreateFits, Table, Entry, Live
<1>4. q.ended # None => Active(q.ended) /\ TariffService[q.ended] = ServiceOf(s) /\ q.to = None
    BY <1>1 DEF CreateFits, Ending
<1>5. q.to = None => ActiveOf(ServiceOf(s)) \subseteq {q.ended}
    BY <1>1 DEF CreateFits, IndexAdmits
<1>6. Book!ActiveOf(TariffService[q.id]) = ActiveOf(ServiceOf(s))
    BY <1>2, BookActiveOf DEF ServiceOf
<1> HIDE DEF q
<1>7. ASSUME NEW u \in Tariffs
      PROVE  Table'[u] = IF u = q.id THEN [state |-> state, price |-> q.price]
                         ELSE IF state = "active" /\ u \in ActiveOf(ServiceOf(s))
                              THEN [Table[u] EXCEPT !.state = "ended"]
                              ELSE Table[u]
    <2>1. CASE u = q.id
        BY <1>1, <2>1 DEF Table, Entry, Active, Live
    <2>2. CASE u # q.id /\ u = q.ended
        <3>1. q.ended # None /\ tariffs[u] \in Tariff
            BY <2>2, TariffsAssumption DEF TableInv, TypeOK
        <3>2. Active(u) /\ u \in ActiveOf(ServiceOf(s)) /\ state = "active"
            BY <1>4, <2>2, <3>1 DEF ActiveOf
        <3>3. tariffs'[u] = [tariffs[u] EXCEPT !.to = DayBefore(q.from)] /\ DayBefore(q.from) # None
            BY <1>1, <2>2, <3>1, TariffsAssumption DEF Days
        <3>4. Table'[u] = [state |-> "ended", price |-> tariffs[u].price]
            BY <3>1, <3>2, <3>3 DEF Table, Entry, Active, Live, Tariff
        <3> QED
            BY <2>2, <3>1, <3>2, <3>4 DEF Table, Entry
    <2>3. CASE u # q.id /\ u # q.ended
        <3>1. Table'[u] = Table[u]
            BY <1>1, <2>3 DEF Table, Entry, Active, Live
        <3>2. ~(state = "active" /\ u \in ActiveOf(ServiceOf(s)))
            BY <1>5, <2>3
        <3> QED
            BY <2>3, <3>1, <3>2
    <2> QED
        BY <2>1, <2>2, <2>3
<1>8. Book!Create(q.id, q.price, state)
    BY <1>3, <1>6, <1>7 DEF Book!Create, Table
<1> QED
    BY <1>2, <1>8 DEF Book!Next

\* UpdateTariff is the step Amend, DeleteTariff the step Remove.
LEMMA EditStep ==
    ASSUME TableInv, NEW t \in Tariffs, Edit(t)
    PROVE  Book!Next
<1>1. TypeOK
    BY DEF TableInv
<1>2. ASSUME NEW price \in Prices, NEW from \in Days, NEW to \in Opt(Days),
             UpdateTariff(t, price, from, to)
      PROVE  Book!Next
    <2> DEFINE state == IF to = None THEN "active" ELSE "ended"
    <2>1. /\ Live(t)
          /\ to = None => IndexAdmits(TariffService[t], {t})
          /\ tariffs' = [tariffs EXCEPT ![t] = [state |-> "live", price |-> price,
                                                from |-> from, to |-> to]]
        BY <1>2 DEF UpdateTariff
    <2>2. Book!InTable(t)
        BY <2>1 DEF Book!InTable, Book!Rows, Table, Entry, Active
    <2>3. state = "active" => Book!ActiveOf(TariffService[t]) \subseteq {t}
        BY <1>1, <2>1, BookActiveOf DEF IndexAdmits
    <2>4. ASSUME NEW u \in Tariffs
          PROVE  Table'[u] = IF u = t THEN [state |-> state, price |-> price] ELSE Table[u]
        <3>1. u = t => tariffs'[u] = [state |-> "live", price |-> price, from |-> from, to |-> to]
            BY <1>1, <2>1 DEF TypeOK
        <3>2. u # t => tariffs'[u] = tariffs[u]
            BY <1>1, <2>1 DEF TypeOK
        <3> QED
            BY <3>1, <3>2 DEF Table, Entry, Active, Live
    <2>5. Table' = [Table EXCEPT ![t] = [state |-> state, price |-> price]]
        BY <2>4 DEF Table
    <2>6. Book!Amend(t, price, state) /\ state \in Book!Rows
        BY <2>2, <2>3, <2>5 DEF Book!Amend, Book!Rows
    <2> QED
        BY <1>2, <2>6 DEF Book!Next
<1>3. CASE DeleteTariff(t)
    <2>1. Live(t) /\ tariffs' = [tariffs EXCEPT ![t].state = "gone"]
        BY <1>3 DEF DeleteTariff
    <2>2. Book!InTable(t)
        BY <2>1 DEF Book!InTable, Book!Rows, Table, Entry, Active
    <2>3. ASSUME NEW u \in Tariffs
          PROVE  Table'[u] = IF u = t THEN [Table[u] EXCEPT !.state = "gone"] ELSE Table[u]
        <3>1. u = t => tariffs'[u].state = "gone" /\ tariffs'[u].price = tariffs[u].price
            BY <1>1, <2>1 DEF TypeOK, Tariff
        <3>2. u # t => tariffs'[u] = tariffs[u]
            BY <1>1, <2>1 DEF TypeOK
        <3> QED
            BY <3>1, <3>2 DEF Table, Entry, Active, Live
    <2>4. Table' = [Table EXCEPT ![t].state = "gone"]
        BY <2>3 DEF Table
    <2> QED
        BY <2>2, <2>4 DEF Book!Remove, Book!Next
<1> QED
    BY <1>2, <1>3 DEF Edit

\* ServiceRepo implements TariffBook, for any number of requests in flight and
\* any bound on days: a tariff is replaced in one step, although CreateTariff
\* takes five, because the effects of a transaction appear at its commit.
THEOREM TableImplementsBook == Spec => ImplementsBook
<1>1. Init => Book!Init
    BY DEF Init, Book!Init, Table, InitTable, Entry, InitEntry, Active, Live
<1>2. ASSUME TableInv, [Next]_vars
      PROVE  [Book!Next]_Table
    <2>1. CASE UNCHANGED tariffs
        BY <2>1, StutterEntry
    <2>2. ASSUME NEW s \in Sessions, CommitTariff(s)
          PROVE  Book!Next
        BY <1>2, <2>2, CommitStep
    <2>3. ASSUME NEW t \in Tariffs, Edit(t)
          PROVE  Book!Next
        BY <1>2, <2>3, EditStep
    <2> QED
        BY <1>2, <2>1, <2>2, <2>3 DEF Next, vars, Continue, CreateTariff, CheckTimeline, FindPrevious,
           EndPrevious, InsertTariff, Abort, Midnight, Rollback
<1> QED
    BY <1>1, <1>2, TableInvariant, PTL DEF Spec, ImplementsBook, Book!Spec

-----------------------------------------------------------------------------
(* The history of prices. *)

\* A history without a tariff in force, as no creation without a valid_to ever
\* leaves it, covers no day beyond all dates: it is empty.
LEMMA NoPriceNoHistory ==
    ASSUME TypeOK, NEW v, OnePricePerDay(v), ActiveOf(v) = {},
           NEW t \in Tariffs, TariffService[t] = v
    PROVE  ~Live(t)
<1>1. SUFFICES ASSUME Live(t)
               PROVE  FALSE
    OBVIOUS
<1> DEFINE mine == {x \in Tariffs : Live(x) /\ TariffService[x] = v}
           last == LastDay + 1
<1>2. last \in 1..(LastDay + 1) /\ \A d \in Days : d < last
    BY TariffsAssumption DEF Days
<1>3. t \in mine /\ tariffs[t].from <= last
    <2>1. tariffs[t].from \in Days
        BY DEF TypeOK, Tariff
    <2> QED
        BY <1>1, <1>2, <2>1, TariffsAssumption DEF Days
<1>4. PICK a \in mine : Covers(a, last)
    BY <1>2, <1>3 DEF OnePricePerDay
<1>5. tariffs[a].to \in Opt(Days) /\ Live(a)
    BY DEF TypeOK, Tariff
<1>6. tariffs[a].to = None
    BY <1>2, <1>4, <1>5, TariffsAssumption DEF Covers, Opt, Days
<1> QED
    BY <1>5, <1>6 DEF ActiveOf, Active

\* What a commit does to one tariff on one day.
LEMMA CommitCovers ==
    ASSUME TableInv, NEW s \in Sessions, CommitTariff(s), req[s].to = None,
           NEW t \in Tariffs, NEW day \in 1..(LastDay + 1)
    PROVE  /\ t = req[s].id =>
                 /\ ~Live(t) /\ Live(t)' /\ tariffs'[t].from = req[s].from
                 /\ Covers(t, day)' <=> req[s].from <= day
           /\ t = req[s].ended =>
                 /\ Active(t) /\ Live(t) /\ Live(t)' /\ tariffs'[t].from = tariffs[t].from
                 /\ tariffs[t].from < req[s].from
                 /\ Covers(t, day) <=> tariffs[t].from <= day
                 /\ Covers(t, day)' <=> tariffs[t].from <= day /\ day < req[s].from
           /\ t \notin {req[s].id, req[s].ended} =>
                 Live(t)' = Live(t) /\ tariffs'[t] = tariffs[t] /\ Covers(t, day)' = Covers(t, day)
<1> DEFINE q == req[s]
<1>1. /\ q \in Create /\ CreateFits(s) /\ q.ended # q.id
      /\ tariffs'[q.id] = [state |-> "live", price |-> q.price, from |-> q.from, to |-> q.to]
      /\ q.ended # None =>
            /\ q.ended \in Tariffs
            /\ tariffs'[q.ended] = [tariffs[q.ended] EXCEPT !.to = DayBefore(q.from)]
            /\ DayBefore(q.from) \in Days
      /\ \A u \in Tariffs \ {q.id, q.ended} : tariffs'[u] = tariffs[u]
    BY CommitTable
<1>2. q.to = None /\ q.from \in Nat /\ day \in Nat /\ tariffs[t] \in Tariff
    BY <1>1, TariffsAssumption DEF Create, Days, TableInv, TypeOK
<1>3. tariffs[q.id].state = "new"
    BY <1>1 DEF CreateFits
<1>4. q.ended # None => Active(q.ended) /\ tariffs[q.ended].from < DayBefore(q.from)
    BY <1>1 DEF CreateFits, Ending
<1> HIDE DEF q
<1>5. ASSUME t = q.id
      PROVE  /\ ~Live(t) /\ Live(t)' /\ tariffs'[t].from = q.from
             /\ Covers(t, day)' <=> q.from <= day
    BY <1>1, <1>2, <1>3, <1>5 DEF Live, Covers
<1>6. ASSUME t = q.ended
      PROVE  /\ Active(t) /\ Live(t) /\ Live(t)' /\ tariffs'[t].from = tariffs[t].from
             /\ tariffs[t].from < q.from
             /\ Covers(t, day) <=> tariffs[t].from <= day
             /\ Covers(t, day)' <=> tariffs[t].from <= day /\ day < q.from
    <2>1. q.ended # None
        BY <1>6, TariffsAssumption
    <2>2. Active(t) /\ tariffs[t].to = None /\ tariffs[t].state = "live" /\ tariffs[t].from \in Nat
          /\ tariffs[t].from < q.from - 1
        BY <1>2, <1>4, <1>6, <2>1, TariffsAssumption DEF Active, Live, Tariff, Days, DayBefore
    <2>3. /\ tariffs'[t].state = "live" /\ tariffs'[t].from = tariffs[t].from
          /\ tariffs'[t].to = q.from - 1 /\ tariffs'[t].to # None
        BY <1>1, <1>2, <1>6, <2>1, <2>2, TariffsAssumption DEF Tariff, DayBefore, Days
    <2> QED
        BY <1>2, <2>2, <2>3 DEF Live, Covers
<1>7. ASSUME t \notin {q.id, q.ended}
      PROVE  Live(t)' = Live(t) /\ tariffs'[t] = tariffs[t] /\ Covers(t, day)' = Covers(t, day)
    BY <1>1, <1>7 DEF Live, Covers
<1> QED
    BY <1>5, <1>6, <1>7 DEF q

LEMMA CommitFollowsOn ==
    ASSUME TableInv, NEW s \in Sessions, CommitTariff(s), req[s].to = None,
           NEW v \in Services, ServiceOf(s) = v, OnePricePerDay(v)
    PROVE  OnePricePerDay(v)'
<1>1. req[s] \in Create /\ CreateFits(s) /\ pc[s] = "commit" /\ TypeOK
    BY CommitTable DEF TableInv
<1>2. PICK new \in Tariffs : new = req[s].id /\ TariffService[new] = v
    BY <1>1 DEF Create, ServiceOf
<1>3. PICK from \in Days : from = req[s].from
    BY <1>1 DEF Create
<1>4. PICK old \in Opt(Tariffs) : old = req[s].ended
    BY <1>1 DEF Create
<1>5. ActiveOf(v) \subseteq {old} /\ (old # None => old \in ActiveOf(v))
    BY <1>1, <1>4 DEF CreateFits, Ending, IndexAdmits, ActiveOf, Opt, Create
<1> DEFINE Mine(t) == Live(t) /\ TariffService[t] = v
<1>6. ASSUME NEW t \in Tariffs, NEW day \in 1..(LastDay + 1)
      PROVE  /\ t = new =>
                   /\ ~Mine(t) /\ Mine(t)' /\ tariffs'[t].from = from
                   /\ Covers(t, day)' <=> from <= day
             /\ t = old =>
                   /\ Mine(t) /\ Mine(t)' /\ tariffs'[t].from = tariffs[t].from
                   /\ tariffs[t].from < from
                   /\ Covers(t, day) <=> tariffs[t].from <= day
                   /\ Covers(t, day)' <=> tariffs[t].from <= day /\ day < from
             /\ t \notin {new, old} =>
                   /\ Mine(t)' = Mine(t) /\ tariffs'[t].from = tariffs[t].from
                   /\ Covers(t, day)' = Covers(t, day)
    <2>1. t = old => TariffService[t] = v
        BY <1>5, TariffsAssumption DEF ActiveOf
    <2> QED
        BY <1>2, <1>3, <1>4, <2>1, CommitCovers
<1>7. \A t \in Tariffs : tariffs[t].from \in Int
    BY <1>1, TariffsAssumption DEF TypeOK, Tariff, Days
<1>8. from \in Int /\ LastDay \in Int
    BY TariffsAssumption DEF Days
<1>9. ASSUME NEW day \in 1..(LastDay + 1), NEW t \in Tariffs, Mine(t), tariffs[t].from <= day
      PROVE  \E a \in Tariffs : Mine(a) /\ \A u \in Tariffs : Mine(u) => (Covers(u, day) <=> u = a)
    BY <1>9 DEF OnePricePerDay
<1>10. ASSUME NEW day \in 1..(LastDay + 1), NEW t \in Tariffs, Mine(t)', tariffs'[t].from <= day
       PROVE  \E a \in Tariffs :
                 Mine(a)' /\ \A u \in Tariffs : Mine(u)' => (Covers(u, day)' <=> u = a)
    <2>1. CASE from <= day /\ old # None
        <3>1. old \in Tariffs /\ Mine(old) /\ tariffs[old].from <= day /\ Covers(old, day)
            BY <1>4, <1>6, <1>7, <1>8, <2>1 DEF Opt
        <3>2. PICK a \in Tariffs : \A u \in Tariffs : Mine(u) => (Covers(u, day) <=> u = a)
            BY <1>9, <3>1
        <3>3. ASSUME NEW u \in Tariffs, Mine(u)', u # new
              PROVE  ~Covers(u, day)'
            BY <1>6, <1>7, <1>8, <2>1, <3>1, <3>2, <3>3
        <3>4. Mine(new)' /\ Covers(new, day)'
            BY <1>6, <2>1
        <3> QED
            BY <3>3, <3>4
    <2>2. CASE from <= day /\ old = None
        <3>1. ASSUME NEW u \in Tariffs, Mine(u)
              PROVE  FALSE
            BY <1>1, <1>5, <2>2, <3>1, NoPriceNoHistory, TariffsAssumption DEF ActiveOf
        <3>2. ASSUME NEW u \in Tariffs, Mine(u)'
              PROVE  u = new
            BY <1>6, <2>2, <3>1, <3>2
        <3>3. Mine(new)' /\ Covers(new, day)'
            BY <1>6, <2>2
        <3> QED
            BY <3>2, <3>3
    <2>3. CASE day < from
        <3>1. t # new
            BY <1>6, <1>8, <1>10, <2>3
        <3>2. Mine(t) /\ tariffs[t].from <= day
            BY <1>6, <1>10, <3>1
        <3>3. PICK a \in Tariffs :
                 Mine(a) /\ \A u \in Tariffs : Mine(u) => (Covers(u, day) <=> u = a)
            BY <1>9, <3>2
        <3>4. a # new /\ Mine(a)'
            BY <1>6, <3>3
        <3>5. ASSUME NEW u \in Tariffs, Mine(u)'
              PROVE  Covers(u, day)' <=> u = a
            <4>1. CASE u = new
                BY <1>6, <1>8, <2>3, <3>4, <4>1
            <4>2. CASE u # new /\ u = old
                BY <1>6, <2>3, <3>3, <4>2
            <4>3. CASE u \notin {new, old}
                BY <1>6, <3>3, <3>5, <4>3
            <4> QED
                BY <4>1, <4>2, <4>3
        <3> QED
            BY <3>4, <3>5
    <2> QED
        BY <1>8, <2>1, <2>2, <2>3
<1> QED
    BY <1>10 DEF OnePricePerDay

\* A new price follows on the old one, for any number of requests in flight and
\* any dates: if every day had one price before, every day has one price now.
THEOREM PricesFollowOn == Spec => NewPriceFollowsOn
<1>1. ASSUME TableInv, [Next]_vars
      PROVE  [\A s \in Sessions, v \in Services :
                 CommitTariff(s) /\ req[s].to = None /\ ServiceOf(s) = v /\ OnePricePerDay(v)
                 => OnePricePerDay(v)']_vars
    BY <1>1, CommitFollowsOn
<1> QED
    BY <1>1, TableInvariant, PTL DEF Spec, NewPriceFollowsOn

LEMMA CommitKeepsPrice ==
    ASSUME TableInv, NEW s \in Sessions, CommitTariff(s), NEW v \in Services, ActiveOf(v) # {}
    PROVE  ActiveOf(v)' # {}
<1> DEFINE q == req[s]
<1>1. /\ q \in Create /\ CreateFits(s)
      /\ tariffs'[q.id] = [state |-> "live", price |-> q.price, from |-> q.from, to |-> q.to]
      /\ \A u \in Tariffs \ {q.id, q.ended} : tariffs'[u] = tariffs[u]
    BY CommitTable
<1>2. q.id \in Tariffs /\ tariffs[q.id].state = "new" /\ TariffService[q.id] = ServiceOf(s)
    BY <1>1 DEF Create, CreateFits, ServiceOf
<1>3. PICK a \in Tariffs : Active(a) /\ TariffService[a] = v
    BY DEF ActiveOf
<1>4. a = q.ended => q.to = None /\ v = ServiceOf(s)
    BY <1>1, <1>3, TariffsAssumption DEF CreateFits, Ending
<1> HIDE DEF q
<1>5. CASE a = q.ended
    <2>1. PICK t \in Tariffs : t = q.id
        BY <1>2
    <2>2. tariffs'[t].state = "live" /\ tariffs'[t].to = None /\ TariffService[t] = v
        BY <1>1, <1>2, <1>4, <1>5, <2>1
    <2> QED
        BY <2>2 DEF ActiveOf, Active, Live
<1>6. CASE a # q.ended
    <2>1. tariffs'[a] = tariffs[a]
        BY <1>1, <1>2, <1>3, <1>6 DEF Active, Live
    <2> QED
        BY <1>3, <2>1 DEF ActiveOf, Active, Live
<1> QED
    BY <1>5, <1>6

\* A service that has a price has one at every moment of its replacement.
THEOREM NoLapse == Spec => PriceNeverLapses
<1>1. ASSUME TableInv, [Next]_vars
      PROVE  [(\E s \in Sessions : pc'[s] # pc[s])
              => \A v \in Services : ActiveOf(v) # {} => ActiveOf(v)' # {}]_vars
    <2>1. SUFFICES ASSUME Next, pc' # pc, NEW v \in Services, ActiveOf(v) # {}
                   PROVE  ActiveOf(v)' # {}
        BY <1>1
    <2>2. CASE UNCHANGED tariffs
        BY <2>1, <2>2 DEF ActiveOf, Active, Live
    <2>3. ASSUME NEW s \in Sessions, CommitTariff(s)
          PROVE  ActiveOf(v)' # {}
        BY <1>1, <2>1, <2>3, CommitKeepsPrice
    <2> QED
        BY <2>1, <2>2, <2>3 DEF Next, Edit, UpdateTariff, DeleteTariff, Continue, CreateTariff,
           CheckTimeline, FindPrevious, EndPrevious, InsertTariff, Abort, Midnight, Rollback
<1> QED
    BY <1>1, TableInvariant, PTL DEF Spec, PriceNeverLapses
=============================================================================
