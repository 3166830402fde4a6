----------------------------- MODULE RestProofs ------------------------------
(***************************************************************************)
(* What a page shows when nothing is under way: RestShowsServer.           *)
(*                                                                         *)
(* RestInv says it of every state without trouble: each list the page      *)
(* promises shows what the server would answer, or a handler is under way  *)
(* that will fill it, and what the handlers still read is what the page    *)
(* promises with the filters it has now.  Each click, link, answer and     *)
(* refusal keeps it, page by page and step by step.                        *)
(***************************************************************************)
EXTENDS WebPagesProofs

-----------------------------------------------------------------------------
(* What a page at rest shows.  d stands for the tables, u for the page,    *)
(* and jobs for the handlers.                                              *)

Here(jobs) == {k \in Slots : jobs[k] # NoJob}
Fresh(d, u, q) == u.list[q.list] = Answer(d, q)

\* The lists that a step will fill.
Fills(s) == IF s.next = None THEN {q.list : q \in s.asks} ELSE {s.next}
Coming(jobs, q) == \E k \in Here(jobs) : \E n \in DOMAIN jobs[k].steps : q.list \in Fills(jobs[k].steps[n])

\* The answers to the reads of a step.
Replies(d, asks) == [l \in {q.list : q \in asks} |-> Answer(d, CHOOSE q \in asks : q.list = l)]

\* The details ask for the subscriptions of the locations they have just been told of.
Located(d, u, a) ==
    /\ u.page = "detail"
    /\ a = Query("subscriptions", "subscriptions", "locations", LocationsOf(d, u.sel.client))

\* A read is promised, or it is about the options.
Wanted(d, u, a) ==
    /\ ~a.merge
    /\ a \in Promised(d, u) \/ (a.list = "options" /\ a.by = "unbilled")

\* A step that is worked out from answers comes after the reads it needs.
Followed(u, steps, n) ==
    \/ /\ u.page = "detail" /\ steps[n].next = "subscriptions" /\ n = Len(steps)
       /\ LocationsOfClient(u.sel.client) \in steps[n - 1].asks
    \/ steps[n].next = "options" /\ n = Len(steps)
    \/ /\ u.page = "calculations" /\ steps[n].next = "calculations" /\ Len(steps) = n + 1
       /\ steps[n + 1].next = "options"

StepFits(d, u, steps, n) ==
    LET s == steps[n]
    IN  /\ \A a \in s.asks : Wanted(d, u, a) \/ (n = 1 /\ Located(d, u, a))
        /\ s.calls # {} => n = 1 /\ s.asks = {}
        /\ s.next = None => n = 1 \/ s.asks # {}
        /\ s.next # None => n # 1 /\ s.asks = {} /\ Followed(u, steps, n)
        /\ u.page = "calculations" /\ (\E a \in s.asks : a.list = "periods") =>
               n = 1 /\ Len(steps) = 3 /\ steps[2].next = "calculations"

\* The tables that the forms of a page write, and those that change with them.
Forms == [clients |-> {"clients"}, locations |-> {"locations"},
          detail |-> {"locations", "subscriptions"}, subscriptions |-> {"subscriptions"},
          periods |-> {"periods"}, users |-> {"users"}, calculations |-> {"calculations"}]
Touched(u) ==
    Forms[u.page] \cup (IF u.page = "clients" THEN {"locations"} ELSE {})
                  \cup (IF u.page = "periods" THEN {"calculations"} ELSE {})

Ahead(steps, q) == \E n \in DOMAIN steps : n # 1 /\ q.list \in Fills(steps[n])
Untouched(u, q) ==
    /\ q.table \notin Touched(u)
    /\ q.by = "all" \/ q = LocationsOfClient(u.sel.client)

\* The server accepts every edit of a calculation while its period is open.
Editable(d, i) == Live(d, "calculations", i) /\ d.periods[i[2]].open
Sure(d, u, c) ==
    /\ u.page = "calculations" /\ c.op = "update" /\ Editable(d, c.id)
    /\ \A r \in Row["calculations"] : Written("calculations", r, c.set) \in Row["calculations"]
NoEffect(c) == c.op = "update" /\ c.table = "users" /\ c.set = Nothing

SendFits(d, u, steps) ==
    LET calls == steps[1].calls
    IN  /\ \A c \in calls : c.table \in Forms[u.page]
        /\ \/ \A c \in calls : NoEffect(c)
           \/ \A q \in Promised(d, u) : Ahead(steps, q) \/ Untouched(u, q)
        /\ \/ (\E c \in calls : calls = {c}) /\ \A q \in Promised(d, u) : Fresh(d, u, q)
           \/ \A c \in calls : Sure(d, u, c)

Handler(d, u, jobs, k) ==
    LET steps == jobs[k].steps
    IN  /\ jobs[k].here
        /\ jobs[k].got # None => jobs[k].got = Replies(d, steps[1].asks)
        /\ \A n \in DOMAIN steps : StepFits(d, u, steps, n)
        /\ steps[1].calls # {} => Here(jobs) = {k} /\ jobs[k].got = None /\ SendFits(d, u, steps)

\* The client of the page is there; the list of clients is loading, or covered by a dialog,
\* as long as a handler is under way; what is edited may be edited.
PageFits(d, u, jobs) ==
    /\ u.page = "locations" => /\ u.sel.client = None \/ Live(d, "clients", u.sel.client)
                               /\ u.dlg # None => u.sel.client # None
    /\ u.page = "detail" => Live(d, "clients", u.sel.client)
    /\ u.page = "clients" =>
          \A k \in Here(jobs) :
              /\ Here(jobs) = {k}
              /\ \/ u.busy /\ Len(jobs[k].steps) = 1
                 \/ u.dlg # None /\ Len(jobs[k].steps) = 2 /\ jobs[k].steps[2].spin
    /\ u.page = "calculations" /\ u.dlg # None /\ u.dlg.name = "edit" => Editable(d, u.dlg.id)

Plain(d, u, jobs) ==
    /\ \A k \in Here(jobs) : Handler(d, u, jobs, k)
    /\ \A q \in Promised(d, u) : Fresh(d, u, q) \/ Coming(jobs, q)
    /\ PageFits(d, u, jobs)

RestInv == Keyed(db) /\ (Calm /\ ~On("services") => Plain(db, ui, job))

-----------------------------------------------------------------------------
(* Which tables a call writes, and where it stores a calculation. *)

\* A call writes its own table; a client takes its locations along, and a period brings its
\* calculations.
LEMMA OnlyTouched ==
    ASSUME NEW d, RegistryOK(d), NEW c, Accepted(d, c), NEW u \in Tables, u # c.table,
           ~(c.table = "clients" /\ u = "locations"), ~(c.table = "periods" /\ u = "calculations")
    PROVE  Apply(d, c)[u] = d[u]
<1>1. DOMAIN d = Tables BY DEF RegistryOK
<1>2. CASE c.op = "insert"
  <2> DEFINE t == c.table
             r == c.row
             d0 == Prepared(d, t, r)
             i == NextId(d, t, r)
             d1 == [d0 EXCEPT ![t][i] = Completed(d, t, r)]
  <2>1. d0[u] = d[u] /\ DOMAIN d0 = Tables
    BY <1>1 DEF Prepared, EndTariff
  <2> HIDE DEF d0
  <2>2. d1[u] = d[u] /\ DOMAIN d1 = Tables BY <2>1
  <2>3. Apply(d, c) = IF t = "periods" THEN Generated(d1, i) ELSE d1
    BY <1>2 DEF Apply, Inserted, d0
  <2> HIDE DEF d1
  <2>4. t = "periods" => Generated(d1, i)[u] = d[u] BY <2>2 DEF Generated
  <2> QED BY <2>2, <2>3, <2>4
<1>3. CASE c.op = "update"
  <2> DEFINE t == c.table
             d0 == OthersCleared(d, t, c.id, c.set)
  <2>1. d0[u] = d[u] /\ DOMAIN d0 = Tables BY <1>1 DEF OthersCleared
  <2> HIDE DEF d0
  <2>2. Apply(d, c) = d \/ Apply(d, c) = [d0 EXCEPT ![t][c.id] = Written(t, d[t][c.id], c.set)]
    BY <1>3 DEF Apply, Updated, d0
  <2> QED BY <2>1, <2>2
<1>4. CASE c.op = "delete" BY <1>1, <1>4 DEF Apply, Deleted
<1> QED BY <1>2, <1>3, <1>4 DEF Accepted

\* A calculation stays under its subscription and its period.
LEMMA ApplyKeepsKeys ==
    ASSUME NEW d, RegistryOK(d), Keyed(d), NEW c, Accepted(d, c)
    PROVE  Keyed(Apply(d, c))
<1> DEFINE K(row, i) == row.subscription = i[1] /\ row.period = i[2]
<1>1. DOMAIN d = Tables /\ \A i \in Ids \X Ids : d["calculations"][i] \notin {New, Gone} => K(d["calculations"][i], i)
  BY DEF Keyed, LiveIds, Live, IdsOf, RegistryOK
<1>2. SUFFICES ASSUME NEW i \in Ids \X Ids, Apply(d, c)["calculations"][i] \notin {New, Gone}
               PROVE  K(Apply(d, c)["calculations"][i], i)
  BY DEF Keyed, LiveIds, Live, IdsOf
<1>3. CASE c.table # "periods" /\ c.table # "calculations"
  <2>1. Apply(d, c)["calculations"] = d["calculations"] BY <1>3, OnlyTouched DEF Tables
  <2> QED BY <1>1, <1>2, <2>1
<1>4. CASE c.table = "periods"
  <2>1. CASE c.op = "insert"
    <3> DEFINE n == NextId(d, "periods", c.row)
               d1 == [d EXCEPT !["periods"][n] = c.row]
    <3>1. Apply(d, c) = Generated(d1, n)
      BY <1>4, <2>1 DEF Apply, Inserted, Prepared, Completed
    <3>2. d1["calculations"] = d["calculations"] /\ DOMAIN d1 = Tables BY <1>1
    <3> HIDE DEF d1, n
    <3>3. \/ Generated(d1, n)["calculations"][i] = d["calculations"][i]
          \/ K(Generated(d1, n)["calculations"][i], i)
      BY <3>2 DEF Generated, Tables
    <3> QED BY <1>1, <1>2, <3>1, <3>3
  <2>2. CASE c.op = "update"
    <3>1. Apply(d, c)["calculations"] = d["calculations"]
      BY <1>1, <1>4, <2>2 DEF Apply, Updated, OthersCleared
    <3> QED BY <1>1, <1>2, <3>1
  <2>3. CASE c.op = "delete"
    <3>1. Apply(d, c)["calculations"] = d["calculations"]
      BY <1>1, <1>4, <2>3 DEF Apply, Deleted
    <3> QED BY <1>1, <1>2, <3>1
  <2> QED BY <2>1, <2>2, <2>3 DEF Accepted
<1>5. CASE c.table = "calculations"
  <2>0. "calculations" \in Tables /\ DOMAIN d["calculations"] = Ids \X Ids
    BY DEF RegistryOK, Tables, IdsOf
  <2>1. CASE c.op = "insert"
    <3> DEFINE r == c.row
               n == NextId(d, "calculations", r)
               row == Completed(d, "calculations", r)
    <3>1. n \in FreeIds(d, "calculations", r)
      BY <1>5, <2>1 DEF Accepted, AcceptedInsert, NextId
    <3>2. n = <<r.subscription, r.period>> BY <3>1 DEF FreeIds
    <3>3. row \in Row["calculations"]
      BY <1>5, <2>1 DEF Accepted, AcceptedInsert
    <3>4. row = [r EXCEPT !.tariff = TariffOf(d, r.subscription)] BY DEF Completed
    <3>5. DOMAIN row = DOMAIN r BY <3>4
    <3>6. {"subscription", "period"} \subseteq DOMAIN row BY <3>3 DEF Row
    <3>7. row.subscription = r.subscription /\ row.period = r.period BY <3>4, <3>5, <3>6
    <3>8. Apply(d, c) = [d EXCEPT !["calculations"][n] = row]
      BY <1>5, <2>1 DEF Apply, Inserted, Prepared
    <3> HIDE DEF n, row
    <3>9. Apply(d, c)["calculations"][i] = IF i = n THEN row ELSE d["calculations"][i]
      BY <3>8, <1>1, <2>0
    <3> QED BY <1>1, <1>2, <3>2, <3>7, <3>9
  <2>2. CASE c.op = "update"
    <3> DEFINE row == Written("calculations", d["calculations"][c.id], c.set)
    <3>1. CASE Live(d, "calculations", c.id)
      <4>1. Apply(d, c) = [d EXCEPT !["calculations"][c.id] = row]
        BY <1>5, <2>2, <3>1 DEF Apply, Updated, OthersCleared
      <4>2. d["calculations"][c.id] \in Row["calculations"] BY <3>1, LiveRow DEF Tables
      <4>3. row.subscription = d["calculations"][c.id].subscription
            /\ row.period = d["calculations"][c.id].period
        BY <4>2 DEF Written, Writable, Row
      <4> HIDE DEF row
      <4>4. Apply(d, c)["calculations"][i] = IF i = c.id THEN row ELSE d["calculations"][i]
        BY <4>1, <1>1, <2>0
      <4> QED BY <1>1, <1>2, <4>3, <4>4, <3>1 DEF Live, IdsOf
    <3>2. CASE ~Live(d, "calculations", c.id)
      BY <1>1, <1>2, <1>5, <2>2, <3>2 DEF Apply, Updated
    <3> QED BY <3>1, <3>2
  <2>3. CASE c.op = "delete" BY <1>5, <2>3 DEF Accepted, AcceptedDelete
  <2> QED BY <2>1, <2>2, <2>3 DEF Accepted
<1> QED BY <1>3, <1>4, <1>5

-----------------------------------------------------------------------------
(* Handlers that begin on a page at rest.                                  *)

\* The free slots are numbered one after the other.
LEMMA RanksAll ==
    ASSUME NEW F \in SUBSET Nat, IsFiniteSet(F)
    PROVE  /\ \A j, k \in F : Cardinality({i \in F : i <= j}) = Cardinality({i \in F : i <= k}) => j = k
           /\ \A r \in 1..Cardinality(F) : \E k \in F : Cardinality({i \in F : i <= k}) = r
<1> DEFINE upTo(k) == {i \in F : i <= k}
           rank(k) == Cardinality(upTo(k))
           f == [k \in F |-> rank(k)]
           n == Cardinality(F)
<1>1. \A k \in F : IsFiniteSet(upTo(k)) /\ rank(k) \in Nat \ {0} /\ rank(k) <= n
  <2> SUFFICES ASSUME NEW k \in F
               PROVE  IsFiniteSet(upTo(k)) /\ rank(k) \in Nat \ {0} /\ rank(k) <= n
    OBVIOUS
  <2>1. upTo(k) \subseteq F OBVIOUS
  <2> HIDE DEF upTo
  <2>2. IsFiniteSet(upTo(k)) /\ rank(k) <= n BY <2>1, FS_Subset
  <2>3. rank(k) \in Nat \ {0} BY RankPositive DEF upTo
  <2> QED BY <2>2, <2>3
<1>2. ASSUME NEW j \in F, NEW k \in F, j < k PROVE rank(j) # rank(k)
  <2>1. upTo(j) \subseteq upTo(k) /\ upTo(j) # upTo(k)
    <3>1. j \in Nat /\ k \in Nat OBVIOUS
    <3>2. k \in upTo(k) /\ k \notin upTo(j) BY <3>1, <1>2
    <3>3. \A i \in upTo(j) : i \in upTo(k)
      <4> SUFFICES ASSUME NEW i \in F, i <= j PROVE i <= k OBVIOUS
      <4>1. i \in Nat OBVIOUS
      <4> QED BY <4>1, <3>1, <1>2
    <3> HIDE DEF upTo
    <3> QED BY <3>2, <3>3
  <2>2. IsFiniteSet(upTo(k)) BY <1>1
  <2> HIDE DEF upTo
  <2>3. Cardinality(upTo(j)) < Cardinality(upTo(k)) \/ upTo(j) = upTo(k)
    BY <2>1, <2>2, FS_Subset, FS_CardinalityType
  <2>4. Cardinality(upTo(j)) \in Nat /\ Cardinality(upTo(k)) \in Nat
    BY <2>1, <2>2, FS_Subset, FS_CardinalityType
  <2> QED BY <2>1, <2>3, <2>4
<1> HIDE DEF rank
<1>3. \A j, k \in F : rank(j) = rank(k) => j = k
  <2> SUFFICES ASSUME NEW j \in F, NEW k \in F, rank(j) = rank(k) PROVE j = k OBVIOUS
  <2>1. j \in Nat /\ k \in Nat OBVIOUS
  <2>2. ~(j < k) /\ ~(k < j) BY <1>2
  <2> QED BY <2>1, <2>2
<1>4. n \in Nat BY FS_CardinalityType
<1>5. f \in Injection(F, 1..n)
  <2> HIDE DEF n
  <2>1. ASSUME NEW k \in F PROVE rank(k) \in 1..n
    <3>1. rank(k) \in Nat /\ rank(k) # 0 /\ rank(k) <= n BY <1>1
    <3> QED BY <3>1, <1>4
  <2> QED BY <1>3, <2>1 DEF Injection, IsInjective
<1>6. IsFiniteSet(1..n) /\ Cardinality(1..n) = n BY <1>4, FS_Interval
<1>7. f \in Surjection(F, 1..n) BY <1>5, <1>6, FS_Injection
<1>8. \A r \in 1..n : \E k \in F : rank(k) = r BY <1>7 DEF Surjection
<1> QED BY <1>3, <1>8 DEF rank

\* The handlers of a click on a page at rest: each runs a program, each program is run, and
\* one alone is run by one handler.
LEMMA BegunAll ==
    ASSUME NEW programs, ProgramsOK(programs), NEW old, \A k \in Slots : old[k] = NoJob,
           NEW jobs, jobs = Begun(old, programs)
    PROVE  /\ \A k \in Here(jobs) : \E r \in DOMAIN programs : jobs[k] = NewJob(programs[r])
           /\ Len(programs) <= Cardinality(Slots) =>
                  \A r \in DOMAIN programs : \E k \in Here(jobs) : jobs[k] = NewJob(programs[r])
           /\ Len(programs) = 1 => \A k \in Here(jobs) : Here(jobs) = {k}
<1> DEFINE rank(k) == Cardinality({j \in Slots : j <= k})
           n == Len(programs)
<1>1. PICK S : programs \in Seq(S) /\ \A p \in S : ProgramOK(p) BY DEF ProgramsOK
<1>2. n \in Nat /\ DOMAIN programs = 1..n BY <1>1, LenProperties
<1>3. \A r \in 1..n : NewJob(programs[r]) # NoJob
  <2>1. \A p : p # <<>> => NewJob(p) # NoJob BY DEF NewJob, NoJob
  <2>2. \A r \in 1..n : ProgramOK(programs[r]) BY <1>1, ElementOfSeq
  <2> QED BY <2>1, <2>2 DEF ProgramOK
<1>4. jobs = [k \in Slots |-> IF rank(k) <= n THEN NewJob(programs[rank(k)]) ELSE NoJob]
  <2>1. {k \in Slots : old[k] = NoJob} = Slots OBVIOUS
  <2> DEFINE B == [k \in Slots |-> IF k \in Slots /\ rank(k) <= n THEN NewJob(programs[rank(k)])
                                   ELSE old[k]]
  <2>3. jobs = B BY <2>1 DEF Begun
  <2> HIDE DEF rank, n
  <2> QED BY <2>3
<1>5. \A k \in Slots : rank(k) \in Nat \ {0}
  <2>1. Slots \in SUBSET Nat BY BrowserAssumption
  <2> QED BY <2>1, RankPositive
<1>6. /\ \A j, k \in Slots : rank(j) = rank(k) => j = k
      /\ \A r \in 1..Cardinality(Slots) : \E k \in Slots : rank(k) = r
  BY BrowserAssumption, RanksAll
<1> HIDE DEF rank, n
<1>7. Here(jobs) = {k \in Slots : rank(k) <= n}
  <2>1. \A k \in Slots : rank(k) <= n => rank(k) \in 1..n BY <1>2, <1>5
  <2> QED BY <2>1, <1>3, <1>4 DEF Here
<1>8. \A k \in Here(jobs) : rank(k) \in 1..n /\ jobs[k] = NewJob(programs[rank(k)])
  BY <1>2, <1>4, <1>5, <1>7
<1>9. ASSUME n <= Cardinality(Slots), NEW r \in 1..n
      PROVE  \E k \in Here(jobs) : jobs[k] = NewJob(programs[r])
  <2>1. Cardinality(Slots) \in Nat BY BrowserAssumption, FS_CardinalityType
  <2>2. r \in 1..Cardinality(Slots) BY <1>2, <1>9, <2>1
  <2>3. PICK k \in Slots : rank(k) = r BY <1>6, <2>2
  <2>4. k \in Here(jobs) BY <1>2, <1>7, <2>3
  <2> QED BY <1>8, <2>3, <2>4
<1>10. ASSUME n = 1, NEW k \in Here(jobs) PROVE Here(jobs) = {k}
  <2>1. \A j \in Here(jobs) : j \in Slots /\ rank(j) = 1 BY <1>5, <1>7, <1>10
  <2> QED BY <1>6, <1>10, <2>1
<1> QED BY <1>2, <1>8, <1>9, <1>10 DEF n

\* The spinner and the dialog of a page do not matter to what it promises.
LEMMA SameView ==
    ASSUME NEW d, NEW u, NEW v, v.page = u.page, v.sel = u.sel, v.list = u.list
    PROVE  /\ Promised(d, v) = Promised(d, u)
           /\ \A q : Fresh(d, v, q) = Fresh(d, u, q)
           /\ \A steps, n : StepFits(d, v, steps, n) = StepFits(d, u, steps, n)
           /\ \A steps : SendFits(d, v, steps) = SendFits(d, u, steps)
<1>1. Promised(d, v) = Promised(d, u) BY DEF Promised
<1>2. \A q : Fresh(d, v, q) = Fresh(d, u, q) BY DEF Fresh
<1>3. \A steps, n : StepFits(d, v, steps, n) = StepFits(d, u, steps, n)
  BY <1>1 DEF StepFits, Wanted, Located, Followed
<1>4. \A steps : SendFits(d, v, steps) = SendFits(d, u, steps)
  BY <1>1, <1>2 DEF SendFits, Untouched, Touched, Sure
<1> QED BY <1>1, <1>2, <1>3, <1>4

\* Handlers that begin on a page at rest.
LEMMA BegunShows ==
    ASSUME NEW d, NEW u, NEW programs, ProgramsOK(programs),
           Len(programs) <= Cardinality(Slots),
           NEW old, \A k \in Slots : old[k] = NoJob, NEW jobs, jobs = Begun(old, programs),
           \A r \in DOMAIN programs : \A n \in DOMAIN programs[r] : StepFits(d, u, programs[r], n),
           \A r \in DOMAIN programs :
               programs[r][1].calls # {} => Len(programs) = 1 /\ SendFits(d, u, programs[r]),
           \A q \in Promised(d, u) :
               \/ Fresh(d, u, q)
               \/ \E r \in DOMAIN programs : \E n \in DOMAIN programs[r] : q.list \in Fills(programs[r][n])
    PROVE  /\ \A k \in Here(jobs) : Handler(d, u, jobs, k)
           /\ \A q \in Promised(d, u) : Fresh(d, u, q) \/ Coming(jobs, q)
<1>1. /\ \A k \in Here(jobs) : \E r \in DOMAIN programs : jobs[k] = NewJob(programs[r])
      /\ \A r \in DOMAIN programs : \E k \in Here(jobs) : jobs[k] = NewJob(programs[r])
      /\ Len(programs) = 1 => \A k \in Here(jobs) : Here(jobs) = {k}
  BY BegunAll
<1>2. \A p : NewJob(p).steps = p /\ NewJob(p).here /\ NewJob(p).got = None BY DEF NewJob
<1>3. ASSUME NEW k \in Here(jobs) PROVE Handler(d, u, jobs, k)
  <2>1. PICK r \in DOMAIN programs : jobs[k] = NewJob(programs[r]) BY <1>1
  <2> QED BY <1>1, <1>2, <2>1 DEF Handler
<1>4. ASSUME NEW q \in Promised(d, u) PROVE Fresh(d, u, q) \/ Coming(jobs, q)
  BY <1>1, <1>2 DEF Coming
<1> QED BY <1>3, <1>4

\* A click that goes with no trouble is made on a page at rest.
LEMMA ClickAtRest ==
    ASSUME PageInv, NEW page, NEW programs, Click(page, programs), Calm'
    PROVE  /\ Calm /\ \A k \in Slots : job[k] = NoJob
           /\ Here(job) = {}
           /\ UNCHANGED db
           /\ job' = Begun(job, programs)
           /\ Len(programs) <= Cardinality(Slots)
<1>1. trouble \in Nat BY BrowserAssumption DEF PageInv
<1>2. Calm /\ AtRest BY <1>1 DEF Calm, Click
<1> QED BY <1>2 DEF Click, Begin, AtRest, Free, Here

\* What a page at rest knows when it is clicked.
LEMMA RestKnows ==
    ASSUME RestInv, Calm, ~On("services"), Here(job) = {}
    PROVE  /\ Keyed(db) /\ PageFits(db, ui, job)
           /\ \A q \in Promised(db, ui) : Fresh(db, ui, q)
BY DEF RestInv, Plain, Coming, On

\* Handlers that a form begins on a page at rest.
LEMMA SubmitShows ==
    ASSUME PageInv, RestInv, Calm', ~On("services"), NEW steps, ProgramOK(steps), Submit(steps),
           \A n \in DOMAIN steps : StepFits(db, ui, steps, n),
           steps[1].calls # {} => SendFits(db, ui, steps),
           On("clients") => ui.dlg # None /\ Len(steps) = 2 /\ steps[2].spin
    PROVE  RestInv'
<1> DEFINE programs == <<steps>>
<1>1. Click(ui, programs) BY DEF Submit
<1>2. ProgramsOK(programs) BY LoadsAlone
<1>3. Len(programs) = 1 /\ DOMAIN programs = {1} /\ programs[1] = steps OBVIOUS
<1> HIDE DEF programs
<1>4. /\ Calm /\ \A k \in Slots : job[k] = NoJob
      /\ Here(job) = {} /\ UNCHANGED db
      /\ job' = Begun(job, programs) /\ Len(programs) <= Cardinality(Slots)
  BY <1>1, ClickAtRest
<1>5. Keyed(db) /\ PageFits(db, ui, job) /\ \A q \in Promised(db, ui) : Fresh(db, ui, q)
  BY <1>4, RestKnows
<1>6. ui'.page = ui.page /\ ui'.sel = ui.sel /\ ui'.list = ui.list /\ ui'.dlg = ui.dlg
  BY <1>1 DEF Click, PageInv, UiOK
<1>7. /\ Promised(db, ui') = Promised(db, ui)
      /\ \A q : Fresh(db, ui', q) = Fresh(db, ui, q)
      /\ \A n : StepFits(db, ui', steps, n) = StepFits(db, ui, steps, n)
      /\ SendFits(db, ui', steps) = SendFits(db, ui, steps)
  BY <1>6, SameView
<1>8. /\ \A k \in Here(job') : Handler(db, ui', job', k)
      /\ \A q \in Promised(db, ui') : Fresh(db, ui', q) \/ Coming(job', q)
  <2>1. \A q \in Promised(db, ui') : Fresh(db, ui', q) BY <1>5, <1>7
  <2>2. \A r \in DOMAIN programs : \A n \in DOMAIN programs[r] : StepFits(db, ui', programs[r], n)
    BY <1>3, <1>7
  <2>3. \A r \in DOMAIN programs :
            programs[r][1].calls # {} => Len(programs) = 1 /\ SendFits(db, ui', programs[r])
    BY <1>3, <1>7
  <2> QED BY <1>2, <1>4, <2>1, <2>2, <2>3, BegunShows
<1>9. PageFits(db, ui', job')
  <2>1. \A k \in Here(job') : Here(job') = {k} /\ job'[k].steps = steps
    <3>1. \A k \in Here(job') : Here(job') = {k} /\ \E r \in DOMAIN programs : job'[k] = NewJob(programs[r])
      BY <1>2, <1>3, <1>4, BegunAll
    <3>2. NewJob(steps).steps = steps BY DEF NewJob
    <3> QED BY <1>3, <3>1, <3>2
  <2> QED BY <1>5, <1>6, <2>1 DEF PageFits, On
<1> QED BY <1>4, <1>5, <1>8, <1>9 DEF RestInv, Plain

\* A dialog that opens or closes on a page at rest.
LEMMA DialogShows ==
    ASSUME PageInv, RestInv, Calm', ~On("services"), NEW dlg, Click([ui EXCEPT !.dlg = dlg], <<>>),
           dlg # None /\ On("locations") => ui.sel.client # None,
           dlg # None /\ On("calculations") /\ dlg.name = "edit" => Editable(db, dlg.id)
    PROVE  RestInv'
<1>1. /\ Calm /\ \A k \in Slots : job[k] = NoJob
      /\ Here(job) = {} /\ UNCHANGED db
      /\ job' = Begun(job, <<>>)
  BY ClickAtRest
<1>2. Keyed(db) /\ PageFits(db, ui, job) /\ \A q \in Promised(db, ui) : Fresh(db, ui, q)
  BY <1>1, RestKnows
<1>3. ui'.page = ui.page /\ ui'.sel = ui.sel /\ ui'.list = ui.list /\ ui'.dlg = dlg
  BY DEF Click, PageInv, UiOK
<1>4. Here(job') = {}
  <2>1. ProgramsOK(<<>>) /\ DOMAIN <<>> = {} BY LoadsAlone
  <2> QED BY <1>1, <2>1, BegunAll
<1>5. Promised(db, ui') = Promised(db, ui) /\ \A q : Fresh(db, ui', q) = Fresh(db, ui, q)
  BY <1>3, SameView
<1>6. PageFits(db, ui', job') BY <1>2, <1>3, <1>4 DEF PageFits, On
<1> QED BY <1>1, <1>2, <1>4, <1>5, <1>6 DEF RestInv, Plain

-----------------------------------------------------------------------------
(* Programs: what the steps of a handler read and fill.                    *)

\* A step that reads what the page promises, or the options.
ReadFits(d, u, s) ==
    /\ s.calls = {} /\ s.next = None /\ s.asks # {}
    /\ \A a \in s.asks : Wanted(d, u, a)
    /\ u.page = "calculations" => \A a \in s.asks : a.list # "periods"

\* A step that works out its reads from those of the step s.
ThenFits(u, s, t) ==
    /\ t.calls = {} /\ t.asks = {}
    /\ \/ t.next = "options"
       \/ /\ t.next = "subscriptions" /\ u.page = "detail"
          /\ LocationsOfClient(u.sel.client) \in s.asks

\* The programs of the pages but for the mount of the calculations.
LEMMA ProgramsFit ==
    ASSUME NEW d, NEW u
    PROVE  /\ \A s : ReadFits(d, u, s) => \A n \in DOMAIN <<s>> : StepFits(d, u, <<s>>, n)
           /\ \A s, t : ReadFits(d, u, s) /\ ThenFits(u, s, t) =>
                  \A n \in DOMAIN <<s, t>> : StepFits(d, u, <<s, t>>, n)
           /\ \A w : w.asks = {} /\ w.next = None => \A n \in DOMAIN <<w>> : StepFits(d, u, <<w>>, n)
           /\ \A w, s : w.asks = {} /\ w.next = None /\ ReadFits(d, u, s) =>
                  \A n \in DOMAIN <<w, s>> : StepFits(d, u, <<w, s>>, n)
           /\ \A w, s, t : w.asks = {} /\ w.next = None /\ ReadFits(d, u, s) /\ ThenFits(u, s, t) =>
                  \A n \in DOMAIN <<w, s, t>> : StepFits(d, u, <<w, s, t>>, n)
<1> "options" # None /\ "subscriptions" # None BY WebPagesAssumption DEF Lists
<1>1. ASSUME NEW s, ReadFits(d, u, s) PROVE \A n \in DOMAIN <<s>> : StepFits(d, u, <<s>>, n)
  BY <1>1 DEF ReadFits, StepFits
<1>2. ASSUME NEW s, NEW t, ReadFits(d, u, s), ThenFits(u, s, t)
      PROVE  \A n \in DOMAIN <<s, t>> : StepFits(d, u, <<s, t>>, n)
  BY <1>2 DEF ReadFits, ThenFits, StepFits, Followed
<1>3. ASSUME NEW w, w.asks = {}, w.next = None PROVE \A n \in DOMAIN <<w>> : StepFits(d, u, <<w>>, n)
  BY <1>3 DEF StepFits
<1>4. ASSUME NEW w, NEW s, w.asks = {}, w.next = None, ReadFits(d, u, s)
      PROVE  \A n \in DOMAIN <<w, s>> : StepFits(d, u, <<w, s>>, n)
  BY <1>4 DEF ReadFits, StepFits
<1>5. ASSUME NEW w, NEW s, NEW t, w.asks = {}, w.next = None, ReadFits(d, u, s), ThenFits(u, s, t)
      PROVE  \A n \in DOMAIN <<w, s, t>> : StepFits(d, u, <<w, s, t>>, n)
  BY <1>5 DEF ReadFits, ThenFits, StepFits, Followed
<1> QED BY <1>1, <1>2, <1>3, <1>4, <1>5

\* What the steps are made of.
LEMMA StepParts ==
    /\ \A calls, dialog : LET s == Send(calls, dialog)
                          IN  s.calls = calls /\ s.asks = {} /\ s.next = None
    /\ \A asks : \A s \in {Load(asks), Spinning(Load(asks)), Finally(Load(asks))} :
           s.calls = {} /\ s.asks = asks /\ s.next = None
    /\ \A asks : Spinning(Load(asks)).spin
    /\ \A name : \A s \in {Then(name), Spinning(Then(name))} :
           s.calls = {} /\ s.asks = {} /\ s.next = name
BY DEF Send, Load, Spinning, Finally, Then, Step

\* A step before two others.
LEMMA ConsTwo == \A a, b, c : <<a>> \o <<b, c>> = <<a, b, c>>
<1> SUFFICES ASSUME NEW a, NEW b, NEW c PROVE <<a>> \o <<b, c>> = <<a, b, c>> OBVIOUS
<1> DEFINE S == {a, b, c}
  p == <<a>>
  q == <<b, c>>
  r == <<a, b, c>>
  m == p \o q
<1>1. p \in Seq(S) /\ q \in Seq(S) /\ r \in Seq(S) /\ Len(p) = 1 /\ Len(q) = 2 /\ Len(r) = 3 OBVIOUS
<1>2. p[1] = a /\ q[1] = b /\ q[2] = c /\ r[1] = a /\ r[2] = b /\ r[3] = c OBVIOUS
<1> HIDE DEF S, p, q, r
<1>3. /\ m \in Seq(S) /\ Len(m) = Len(p) + Len(q)
      /\ \A i \in 1..Len(p) + Len(q) : m[i] = IF i <= Len(p) THEN p[i] ELSE q[i - Len(p)]
  BY <1>1, ConcatProperties, Zenon
<1> HIDE DEF m
<1>4. Len(m) = 3 /\ m[1] = p[1] /\ m[2] = q[1] /\ m[3] = q[2] BY <1>1, <1>3
<1>5. \A i \in 1..3 : m[i] = r[i] BY <1>2, <1>4
<1>6. m = r BY <1>1, <1>3, <1>4, <1>5, SeqEqual
<1> QED BY <1>6 DEF m, p, q, r

\* A click that changes filters or begins to read.
LEMMA ClickShows ==
    ASSUME PageInv, RestInv, Calm', ~On("services"), NEW page, DOMAIN page = DOMAIN ui, page.page = ui.page,
           NEW programs, ProgramsOK(programs), Click(page, programs),
           \A r \in DOMAIN programs : \A n \in DOMAIN programs[r] : StepFits(db, page, programs[r], n),
           \A r \in DOMAIN programs : programs[r][1].calls = {},
           \A q \in Promised(db, page) :
               \/ Fresh(db, page, q)
               \/ \E r \in DOMAIN programs : \E n \in DOMAIN programs[r] : q.list \in Fills(programs[r][n]),
           PageFits(db, ui', job')
    PROVE  RestInv'
<1>1. /\ Calm /\ \A k \in Slots : job[k] = NoJob
      /\ Here(job) = {} /\ UNCHANGED db
      /\ job' = Begun(job, programs) /\ Len(programs) <= Cardinality(Slots)
  BY ClickAtRest
<1>2. Keyed(db) BY DEF RestInv
<1>3. ui'.page = page.page /\ ui'.sel = page.sel /\ ui'.list = page.list
  BY DEF Click, PageInv, UiOK
<1>4. /\ Promised(db, ui') = Promised(db, page)
      /\ \A q : Fresh(db, ui', q) = Fresh(db, page, q)
      /\ \A steps, n : StepFits(db, ui', steps, n) = StepFits(db, page, steps, n)
  BY <1>3, SameView
<1>5. /\ \A k \in Here(job') : Handler(db, ui', job', k)
      /\ \A q \in Promised(db, ui') : Fresh(db, ui', q) \/ Coming(job', q)
  <2>1. \A r \in DOMAIN programs : \A n \in DOMAIN programs[r] : StepFits(db, ui', programs[r], n)
    BY <1>4
  <2>2. \A q \in Promised(db, ui') :
          \/ Fresh(db, ui', q)
          \/ \E r \in DOMAIN programs : \E n \in DOMAIN programs[r] : q.list \in Fills(programs[r][n])
    BY <1>4
  <2> QED BY <1>1, <2>1, <2>2, BegunShows
<1> QED BY <1>1, <1>2, <1>5 DEF RestInv, Plain

\* A form sends one call, and loads what the call may have changed.
LEMMA SaveShows ==
    ASSUME PageInv, RestInv, Calm', ~On("services"), NEW call, NEW dialog, NEW s, StepOK(s),
           Submit(<<Send({call}, dialog), s>>), call.table \in Forms[ui.page],
           ReadFits(db, ui, s),
           \A q \in Promised(db, ui) : q.list \in Fills(s) \/ Untouched(ui, q),
           On("clients") => ui.dlg # None /\ s.spin
    PROVE  RestInv'
<1> DEFINE w == Send({call}, dialog)
           steps == <<w, s>>
<1>1. w.calls = {call} /\ w.asks = {} /\ w.next = None BY StepParts
<1>2. StepOK(w) BY StepKinds
<1> HIDE DEF w
<1>3. ProgramOK(steps) BY <1>2, MoreSteps
<1>4. \A n \in DOMAIN steps : StepFits(db, ui, steps, n) BY <1>1, ProgramsFit
<1>5. \A q \in Promised(db, ui) : Fresh(db, ui, q)
  BY ClickAtRest, RestKnows DEF Submit
<1>6. Len(steps) = 2 /\ steps[1] = w /\ steps[2] = s /\ DOMAIN steps = 1..2 OBVIOUS
<1>7. Submit(steps) BY DEF w
<1> HIDE DEF steps
<1>8. \A q \in Promised(db, ui) : Ahead(steps, q) \/ Untouched(ui, q) BY <1>6 DEF Ahead
<1>9. SendFits(db, ui, steps) BY <1>1, <1>5, <1>6, <1>8 DEF SendFits
<1> QED BY <1>3, <1>4, <1>6, <1>7, <1>9, SubmitShows

\* The same with reads that depend on the first ones.
LEMMA SaveThenShows ==
    ASSUME PageInv, RestInv, Calm', ~On("services"), ~On("clients"), NEW calls, NEW dialog,
           NEW s, StepOK(s), NEW t, StepOK(t),
           Submit(<<Send(calls, dialog), s, t>>), \A c \in calls : c.table \in Forms[ui.page],
           (\E c \in calls : calls = {c}) \/ \A c \in calls : Sure(db, ui, c),
           ReadFits(db, ui, s), ThenFits(ui, s, t),
           \A q \in Promised(db, ui) : q.list \in Fills(s) \/ q.list \in Fills(t) \/ Untouched(ui, q)
    PROVE  RestInv'
<1> DEFINE w == Send(calls, dialog)
           steps == <<w, s, t>>
<1>1. w.calls = calls /\ w.asks = {} /\ w.next = None BY StepParts
<1>2. StepOK(w) BY StepKinds
<1>3. Submit(steps) OBVIOUS
<1> HIDE DEF w
<1>4. ProgramOK(steps)
  <2>1. <<w>> \o <<s, t>> = <<w, s, t>> BY ConsTwo
  <2>2. ProgramOK(<<w>> \o <<s, t>>) BY <1>2, MoreSteps
  <2> QED BY <2>1, <2>2
<1>5. \A n \in DOMAIN steps : StepFits(db, ui, steps, n) BY <1>1, ProgramsFit
<1>6. \A q \in Promised(db, ui) : Fresh(db, ui, q)
  BY ClickAtRest, RestKnows DEF Submit
<1>7. steps[1] = w /\ steps[2] = s /\ steps[3] = t /\ DOMAIN steps = 1..3 OBVIOUS
<1> HIDE DEF steps
<1>8. \A q \in Promised(db, ui) : Ahead(steps, q) \/ Untouched(ui, q) BY <1>7 DEF Ahead
<1>9. SendFits(db, ui, steps) BY <1>1, <1>6, <1>7, <1>8 DEF SendFits
<1> QED BY <1>3, <1>4, <1>5, <1>9, SubmitShows

\* A read of what is promised, or of the options, in one step.
LEMMA LoadReads ==
    ASSUME NEW d, NEW u, NEW asks, asks # {}, \A a \in asks : Wanted(d, u, a),
           u.page = "calculations" => \A a \in asks : a.list # "periods",
           NEW s \in {Load(asks), Spinning(Load(asks)), Finally(Load(asks))}
    PROVE  ReadFits(d, u, s) /\ Fills(s) = {q.list : q \in asks}
<1>1. s.calls = {} /\ s.asks = asks /\ s.next = None BY StepParts
<1> QED BY <1>1 DEF ReadFits, Fills

\* No read of the pages but those of tariffs is merged into what is shown.
LEMMA NotMerged == ASSUME NEW list, NEW table, NEW by, NEW of PROVE ~Query(list, table, by, of).merge
BY DEF Query

\* The loads of the pages fetch all that the forms of the page may have changed.
LEMMA PageLoads ==
    ASSUME NEW d, NEW u
    PROVE  /\ u.page = "clients" =>
                  LET s == LoadClients(u.sel)
                  IN  ReadFits(d, u, s) /\ s.spin /\ \A q \in Promised(d, u) : q.list \in Fills(s)
           /\ u.page = "locations" /\ u.sel.client # None =>
                  \A s \in {ReloadLocations(u.sel.client), Spinning(ReloadLocations(u.sel.client))} :
                      /\ ReadFits(d, u, s)
                      /\ \A q \in Promised(d, u) : q.list \in Fills(s) \/ q = All("clients")
                      /\ \A q \in Promised(d, u) : q.list \in Fills(s) \/ Untouched(u, q)
           /\ u.page = "subscriptions" =>
                  /\ ReadFits(d, u, LoadSubscriptions)
                  /\ \A q \in Promised(d, u) : q.list \in Fills(LoadSubscriptions) \/ Untouched(u, q)
           /\ u.page = "periods" =>
                  /\ ReadFits(d, u, LoadPeriods)
                  /\ \A q \in Promised(d, u) : q.list \in Fills(LoadPeriods)
           /\ u.page = "users" =>
                  /\ ReadFits(d, u, LoadUsers)
                  /\ \A q \in Promised(d, u) : q.list \in Fills(LoadUsers)
<1>1. ASSUME u.page = "clients"
      PROVE  LET s == LoadClients(u.sel)
             IN  ReadFits(d, u, s) /\ s.spin /\ \A q \in Promised(d, u) : q.list \in Fills(s)
  <2> DEFINE asks == ClientQueries(u.sel)
             s == LoadClients(u.sel)
  <2>1. Promised(d, u) = asks BY <1>1 DEF Promised
  <2>2. asks # {} /\ \A a \in asks : ~a.merge BY NotMerged DEF ClientQueries
  <2>3. s = Spinning(Load(asks)) BY DEF LoadClients
  <2> HIDE DEF asks, s
  <2>4. \A a \in asks : Wanted(d, u, a) BY <2>1, <2>2 DEF Wanted
  <2>5. ReadFits(d, u, s) /\ Fills(s) = {q.list : q \in asks} BY <1>1, <2>2, <2>3, <2>4, LoadReads
  <2> QED BY <2>1, <2>3, <2>5, StepParts DEF s
<1>2. ASSUME u.page = "locations", u.sel.client # None, NEW s,
             s = ReloadLocations(u.sel.client) \/ s = Spinning(ReloadLocations(u.sel.client))
      PROVE  /\ ReadFits(d, u, s)
             /\ \A q \in Promised(d, u) : q.list \in Fills(s) \/ q = All("clients")
             /\ \A q \in Promised(d, u) : q.list \in Fills(s) \/ Untouched(u, q)
  <2> DEFINE a == LocationsOfClient(u.sel.client)
             asks == {a}
  <2>1. Promised(d, u) = {All("clients"), a} BY <1>2 DEF Promised
  <2>2. ~a.merge BY NotMerged DEF LocationsOfClient
  <2>3. s = Load(asks) \/ s = Spinning(Load(asks)) BY <1>2 DEF ReloadLocations
  <2>4. Wanted(d, u, a) BY <2>1, <2>2 DEF Wanted
  <2> HIDE DEF a
  <2>5. asks # {} /\ \A q \in asks : Wanted(d, u, q) BY <2>4
  <2>6. Untouched(u, All("clients"))
    BY <1>2 DEF Untouched, All, Query, Touched, Forms
  <2>7. Promised(d, u) = {All("clients")} \cup asks BY <2>1
  <2> HIDE DEF asks
  <2>8. s \in {Load(asks), Spinning(Load(asks)), Finally(Load(asks))} BY <2>3
  <2>9. u.page = "calculations" => \A q \in asks : q.list # "periods" BY <1>2
  <2>10. ReadFits(d, u, s) /\ Fills(s) = {q.list : q \in asks} BY <2>5, <2>8, <2>9, LoadReads
  <2> QED BY <2>6, <2>7, <2>10
<1>3. ASSUME u.page = "subscriptions"
      PROVE  /\ ReadFits(d, u, LoadSubscriptions)
             /\ \A q \in Promised(d, u) : q.list \in Fills(LoadSubscriptions) \/ Untouched(u, q)
  <2> DEFINE asks == {All("subscriptions"), All("clients"), All("services")}
             a == LocationsOfClient(u.sel.client)
  <2>1. asks \subseteq Promised(d, u) /\ Promised(d, u) \subseteq asks \cup {a} BY <1>3 DEF Promised
  <2>2. asks # {} /\ \A q \in asks : ~q.merge BY NotMerged DEF All
  <2>3. LoadSubscriptions = Finally(Load(asks)) BY DEF LoadSubscriptions
  <2>4. Untouched(u, a) BY <1>3 DEF Untouched, LocationsOfClient, Query, Touched, Forms
  <2> HIDE DEF asks, a
  <2>5. \A q \in asks : Wanted(d, u, q) BY <2>1, <2>2 DEF Wanted
  <2>6. ReadFits(d, u, LoadSubscriptions) /\ Fills(LoadSubscriptions) = {q.list : q \in asks}
    BY <1>3, <2>2, <2>3, <2>5, LoadReads
  <2> QED BY <2>1, <2>4, <2>6
<1>4. ASSUME NEW t, NEW s, s = Finally(Load({All(t)})), Promised(d, u) = {All(t)}, u.page # "calculations"
      PROVE  ReadFits(d, u, s) /\ \A q \in Promised(d, u) : q.list \in Fills(s)
  <2> DEFINE a == All(t)
             asks == {a}
  <2>1. ~a.merge BY NotMerged DEF All
  <2>2. s = Finally(Load(asks)) /\ Promised(d, u) = asks BY <1>4
  <2> HIDE DEF a
  <2>3. Wanted(d, u, a) BY <2>1, <2>2 DEF Wanted
  <2>4. asks # {} /\ \A q \in asks : Wanted(d, u, q) BY <2>3
  <2> HIDE DEF asks
  <2>5. s \in {Load(asks), Spinning(Load(asks)), Finally(Load(asks))} BY <2>2
  <2>6. u.page = "calculations" => \A q \in asks : q.list # "periods" BY <1>4
  <2>7. ReadFits(d, u, s) /\ Fills(s) = {q.list : q \in asks} BY <2>4, <2>5, <2>6, LoadReads
  <2> QED BY <2>2, <2>7
<1>5. u.page = "periods" => ReadFits(d, u, LoadPeriods) /\ \A q \in Promised(d, u) : q.list \in Fills(LoadPeriods)
  BY <1>4 DEF LoadPeriods, Promised
<1>6. u.page = "users" => ReadFits(d, u, LoadUsers) /\ \A q \in Promised(d, u) : q.list \in Fills(LoadUsers)
  BY <1>4 DEF LoadUsers, Promised
<1> QED BY <1>1, <1>2, <1>3, <1>5, <1>6

\* A dialog that opens.
LEMMA ShowShows ==
    ASSUME PageInv, RestInv, Calm', ~On("services"), NEW name, NEW id, NEW row,
           Show(Dialog(name, id, row)),
           On("locations") => OnClient,
           On("calculations") /\ name = "edit" => Editable(db, id)
    PROVE  RestInv'
<1> DEFINE dlg == Dialog(name, id, row)
<1>1. dlg.name = name /\ dlg.id = id BY DEF Dialog
<1>2. Click([ui EXCEPT !.dlg = dlg], <<>>) BY DEF Show
<1> HIDE DEF dlg
<1> QED BY <1>1, <1>2, DialogShows DEF OnClient

-----------------------------------------------------------------------------
(* The pages, one lemma each.                                              *)

\* A list that is shown at rest holds what is live.
LEMMA ShownLive ==
    ASSUME NEW d, NEW u, NEW q, Fresh(d, u, q), q.by \notin {"history", "inForce"},
           q.by = "search" => q.table = "clients", q.by = "bill" => q.table = "calculations"
    PROVE  DOMAIN u.list[q.list] \subseteq LiveIds(d, q.table)
<1> DEFINE found == {i \in LiveIds(d, q.table) : Selects(d, q, i)}
<1>1. u.list[q.list] = Answer(d, q) BY DEF Fresh
<1>2. CASE q.by = "search"
  <2>1. Answer(d, q) = Rows(d, "clients", Window(found, q.of.offset)) BY <1>2 DEF Answer
  <2>2. Window(found, q.of.offset) \subseteq found BY DEF Window
  <2>3. DOMAIN Rows(d, "clients", Window(found, q.of.offset)) = Window(found, q.of.offset) BY DEF Rows
  <2> QED BY <1>1, <2>1, <2>2, <2>3
<1>3. CASE q.by = "bill"
  <2>1. DOMAIN Answer(d, q) = found BY <1>3 DEF Answer
  <2> QED BY <1>1, <2>1
<1>4. CASE q.by \notin {"search", "bill"}
  <2>1. Answer(d, q) = Rows(d, q.table, found) BY <1>4 DEF Answer
  <2>2. DOMAIN Rows(d, q.table, found) = found BY DEF Rows
  <2> QED BY <1>1, <2>1, <2>2
<1> QED BY <1>2, <1>3, <1>4

\* The handlers of the clients page.
LEMMA ClientsPageShows == ASSUME PageInv, RestInv, Calm', ClientsPage PROVE RestInv'
<1>1. On("clients") /\ ~On("services") /\ ~On("locations") /\ ~On("calculations")
  BY DEF ClientsPage, ApplySearch, PreviousPage, NextPage, OpenCreateClient, OpenEditClient,
         OpenDeleteClient, CreateClient, SaveClient, DeleteClient, InTable, Reachable, InDialog, On
<1>2. CASE ApplySearch \/ PreviousPage \/ NextPage
  <2>1. PICK sel : Refilter(sel) BY <1>2 DEF ApplySearch, PreviousPage, NextPage
  <2> DEFINE s == LoadClients(sel)
             p == <<s>>
             programs == <<p>>
             page == [ui EXCEPT !.sel = sel]
  <2>2. Click(page, programs) BY <2>1 DEF Refilter
  <2>3. DOMAIN page = DOMAIN ui /\ "busy" \in DOMAIN page /\ page.page = "clients" /\ page.sel = sel
    BY <1>1 DEF PageInv, UiOK, On
  <2> HIDE DEF page
  <2>4. ReadFits(db, page, s) /\ s.spin /\ \A q \in Promised(db, page) : q.list \in Fills(s)
    BY <2>3, PageLoads
  <2>5. StepOK(s) BY Loads
  <2> HIDE DEF s
  <2>6. ProgramsOK(programs) BY <2>5, LoadsAlone
  <2>7. \A n \in DOMAIN p : StepFits(db, page, p, n) BY <2>4, ProgramsFit
  <2>8. Len(p) = 1 /\ DOMAIN p = {1} /\ p[1] = s /\ Head(p) = s OBVIOUS
  <2> HIDE DEF p
  <2>9. Len(programs) = 1 /\ DOMAIN programs = {1} /\ programs[1] = p OBVIOUS
  <2> HIDE DEF programs
  <2>10. /\ \A k \in Slots : job[k] = NoJob
         /\ job' = Begun(job, programs) /\ Len(programs) <= Cardinality(Slots)
    BY <2>2, ClickAtRest
  <2>11. \A k \in Here(job') : Here(job') = {k} /\ Len(job'[k].steps) = 1
    <3>1. \A k \in Here(job') : Here(job') = {k} /\ \E r \in DOMAIN programs : job'[k] = NewJob(programs[r])
      BY <2>6, <2>9, <2>10, BegunAll
    <3>2. NewJob(p).steps = p BY DEF NewJob
    <3> QED BY <2>8, <2>9, <3>1, <3>2
  <2>12. ui'.page = "clients" /\ ui'.busy
    <3> DEFINE on == page.busy \/ \E n \in DOMAIN programs : Head(programs[n]).spin
    <3>1. on BY <2>4, <2>8, <2>9
    <3>2. ui' = [page EXCEPT !.busy = on] BY <2>2 DEF Click
    <3> HIDE DEF on
    <3> QED BY <2>3, <3>1, <3>2
  <2>13. PageFits(db, ui', job') BY <2>11, <2>12 DEF PageFits
  <2>14. page.page = ui.page BY <1>1, <2>3 DEF On
  <2>15. \A r \in DOMAIN programs : \A n \in DOMAIN programs[r] : StepFits(db, page, programs[r], n)
    BY <2>7, <2>9
  <2>16. \A r \in DOMAIN programs : programs[r][1].calls = {} BY <2>4, <2>8, <2>9 DEF ReadFits
  <2>17. \A q \in Promised(db, page) :
          \E r \in DOMAIN programs : \E n \in DOMAIN programs[r] : q.list \in Fills(programs[r][n])
    BY <2>4, <2>8, <2>9
  <2> QED BY <1>1, <2>2, <2>3, <2>6, <2>13, <2>14, <2>15, <2>16, <2>17, ClickShows
<1>3. CASE OpenCreateClient \/ OpenEditClient \/ OpenDeleteClient
  BY <1>1, <1>3, ShowShows DEF OpenCreateClient, OpenEditClient, OpenDeleteClient
<1>4. ASSUME NEW call, call.table = "clients", NEW dialog, ui.dlg # None,
             Submit(<<Send({call}, dialog), LoadClients(ui.sel)>>)
      PROVE  RestInv'
  <2> DEFINE s == LoadClients(ui.sel)
  <2>1. ReadFits(db, ui, s) /\ s.spin /\ \A q \in Promised(db, ui) : q.list \in Fills(s)
    BY <1>1, PageLoads DEF On
  <2>2. StepOK(s) BY Loads
  <2>3. call.table \in Forms[ui.page] BY <1>1, <1>4 DEF Forms, On
  <2> HIDE DEF s
  <2> QED BY <1>1, <1>4, <2>1, <2>2, <2>3, SaveShows DEF s
<1>5. CASE CreateClient \/ SaveClient \/ DeleteClient
  <2>1. \A t, r, i : Insert(t, r).table = t /\ Update(t, i, r).table = t /\ Delete(t, i).table = t
    BY DEF Insert, Update, Delete
  <2>2. CASE CreateClient BY <1>4, <2>1, <2>2 DEF CreateClient, InDialog
  <2>3. CASE SaveClient BY <1>4, <2>1, <2>3 DEF SaveClient, InDialog
  <2>4. CASE DeleteClient BY <1>4, <2>1, <2>4 DEF DeleteClient, InDialog
  <2> QED BY <1>5, <2>2, <2>3, <2>4
<1> QED BY <1>2, <1>3, <1>5 DEF ClientsPage

\* Where clicks on filters begin handlers: no dialog is open that PageFits is about.
Filters(d, u) ==
    /\ u.page \in {"locations", "subscriptions", "calculations"}
    /\ u.page # "subscriptions" => u.dlg = None
    /\ u.page = "locations" => u.sel.client = None \/ Live(d, "clients", u.sel.client)

\* A filter that is set, and what begins to be read.
LEMMA FilterShows ==
    ASSUME PageInv, RestInv, Calm', NEW page, DOMAIN page = DOMAIN ui, page.page = ui.page,
           Filters(db, page),
           NEW programs, ProgramsOK(programs), Click(page, programs),
           \A r \in DOMAIN programs : \A n \in DOMAIN programs[r] : StepFits(db, page, programs[r], n),
           \A r \in DOMAIN programs : programs[r][1].calls = {},
           \A q \in Promised(db, page) :
               \/ Fresh(db, page, q)
               \/ \E r \in DOMAIN programs : \E n \in DOMAIN programs[r] : q.list \in Fills(programs[r][n])
    PROVE  RestInv'
<1>1. ~On("services") BY DEF Filters, On
<1>2. ui'.page = page.page /\ ui'.sel = page.sel /\ ui'.dlg = page.dlg
  BY DEF Click, PageInv, UiOK
<1>3. PageFits(db, ui', job') BY <1>2 DEF PageFits, Filters
<1> QED BY <1>1, <1>3, ClickShows

\* With nothing to read, and with one read.
LEMMA FilterFew ==
    ASSUME PageInv, RestInv, Calm', NEW page, DOMAIN page = DOMAIN ui, page.page = ui.page,
           Filters(db, page)
    PROVE  /\ Click(page, <<>>) /\ (\A q \in Promised(db, page) : Fresh(db, page, q)) => RestInv'
           /\ \A s : /\ StepOK(s) /\ ReadFits(db, page, s) /\ Click(page, << <<s>> >>)
                     /\ \A q \in Promised(db, page) : Fresh(db, page, q) \/ q.list \in Fills(s)
                     => RestInv'
<1>1. ASSUME Click(page, <<>>), \A q \in Promised(db, page) : Fresh(db, page, q) PROVE RestInv'
  <2> DEFINE programs == <<>>
  <2>1. ProgramsOK(programs) /\ DOMAIN programs = {} BY LoadsAlone
  <2>2. Click(page, programs) BY <1>1
  <2> HIDE DEF programs
  <2> QED BY <1>1, <2>1, <2>2, FilterShows
<1>2. ASSUME NEW s, StepOK(s), ReadFits(db, page, s), Click(page, << <<s>> >>),
             \A q \in Promised(db, page) : Fresh(db, page, q) \/ q.list \in Fills(s)
      PROVE  RestInv'
  <2> DEFINE p == <<s>>
             programs == <<p>>
  <2>1. ProgramsOK(programs) BY <1>2, LoadsAlone
  <2>2. \A n \in DOMAIN p : StepFits(db, page, p, n) BY <1>2, ProgramsFit
  <2>3. DOMAIN p = {1} /\ p[1] = s OBVIOUS
  <2>4. Click(page, programs) BY <1>2
  <2> HIDE DEF p
  <2>5. DOMAIN programs = {1} /\ programs[1] = p OBVIOUS
  <2> HIDE DEF programs
  <2>6. \A r \in DOMAIN programs : \A n \in DOMAIN programs[r] : StepFits(db, page, programs[r], n)
    BY <2>2, <2>5
  <2>7. \A r \in DOMAIN programs : programs[r][1].calls = {} BY <1>2, <2>3, <2>5 DEF ReadFits
  <2>8. \A q \in Promised(db, page) :
          \/ Fresh(db, page, q)
          \/ \E r \in DOMAIN programs : \E n \in DOMAIN programs[r] : q.list \in Fills(programs[r][n])
    BY <1>2, <2>3, <2>5
  <2> QED BY <2>1, <2>4, <2>6, <2>7, <2>8, FilterShows
<1> QED BY <1>1, <1>2

\* What is shown of a table that is promised as a whole is live.
LEMMA ShownAll ==
    ASSUME PageInv, RestInv, Calm', NEW page, NEW programs, Click(page, programs), ~On("services"),
           NEW t, All(t) \in Promised(db, ui)
    PROVE  Shown(t) \subseteq LiveIds(db, t)
<1> DEFINE q == All(t)
<1>1. Fresh(db, ui, q) BY ClickAtRest, RestKnows
<1>2. q.list = t /\ q.table = t /\ q.by = "all" BY DEF All, Query
<1> HIDE DEF q
<1> QED BY <1>1, <1>2, ShownLive DEF Shown

\* The handlers of the locations page.
LEMMA LocationsPageShows == ASSUME PageInv, RestInv, Calm', LocationsPage PROVE RestInv'
<1>1. On("locations") /\ ~On("services") /\ ~On("clients") /\ ~On("calculations")
  BY DEF LocationsPage, ChooseClient, OpenCreateLocation, OpenEditLocation, OpenDeleteLocation,
         CreateLocation, SaveLocation, DeleteLocation, InTable, Reachable, InDialog, On
<1>2. CASE ChooseClient
  <2>1. PICK c \in Shown("clients") \cup {None} :
          LET page == [ui EXCEPT !.sel.client = c]
          IN  IF c = None THEN Click([page EXCEPT !.list["locations"] = Nothing], <<>>)
              ELSE Click(page, << <<Spinning(ReloadLocations(c))>> >>)
    BY <1>2 DEF ChooseClient
  <2>2. ui.dlg = None BY <1>2 DEF ChooseClient, Reachable
  <2>3. ui.list["clients"] = Answer(db, All("clients"))
    <3>1. All("clients") \in Promised(db, ui) BY <1>1 DEF Promised, On
    <3>2. Fresh(db, ui, All("clients")) BY <1>1, <2>1, <3>1, ClickAtRest, RestKnows
    <3> QED BY <3>2 DEF Fresh, All, Query
  <2>4. c \in Shown("clients") => Live(db, "clients", c)
    <3>1. All("clients") \in Promised(db, ui) BY <1>1 DEF Promised, On
    <3>2. Shown("clients") \subseteq LiveIds(db, "clients") BY <1>1, <2>1, <3>1, ShownAll
    <3> QED BY <3>2 DEF LiveIds
  <2>5. CASE c = None
    <3> DEFINE page == [[ui EXCEPT !.sel.client = c] EXCEPT !.list["locations"] = Nothing]
    <3>1. Click(page, <<>>) BY <2>1, <2>5
    <3>2. /\ DOMAIN page = DOMAIN ui /\ page.page = "locations" /\ page.dlg = None
          /\ page.sel.client = None /\ page.list["clients"] = ui.list["clients"]
      BY <1>1, <2>2, <2>5 DEF PageInv, UiOK, SelOK, On, Lists
    <3> HIDE DEF page
    <3>3. Promised(db, page) = {All("clients")} BY <3>2 DEF Promised
    <3>4. Fresh(db, page, All("clients")) BY <2>3, <3>2 DEF Fresh, All, Query
    <3>5. Filters(db, page) BY <3>2 DEF Filters
    <3> QED BY <1>1, <3>1, <3>2, <3>3, <3>4, <3>5, FilterFew DEF On
  <2>6. CASE c # None
    <3> DEFINE page == [ui EXCEPT !.sel.client = c]
               s == Spinning(ReloadLocations(c))
    <3>1. Click(page, << <<s>> >>) BY <2>1, <2>6
    <3>2. /\ DOMAIN page = DOMAIN ui /\ page.page = "locations" /\ page.dlg = None
          /\ page.sel.client = c /\ page.list = ui.list
      BY <1>1, <2>2 DEF PageInv, UiOK, SelOK, On
    <3> HIDE DEF page
    <3>3. ReadFits(db, page, s) /\ \A q \in Promised(db, page) : q.list \in Fills(s) \/ q = All("clients")
      BY <2>6, <3>2, PageLoads
    <3>4. StepOK(s) BY Loads
    <3> HIDE DEF s
    <3>5. Fresh(db, page, All("clients")) BY <2>3, <3>2 DEF Fresh, All, Query
    <3>6. Filters(db, page) BY <2>4, <2>6, <3>2 DEF Filters
    <3> QED BY <1>1, <3>1, <3>2, <3>3, <3>4, <3>5, <3>6, FilterFew DEF On
  <2> QED BY <2>5, <2>6
<1>3. CASE OpenCreateLocation \/ OpenEditLocation \/ OpenDeleteLocation
  BY <1>1, <1>3, ShowShows DEF OpenCreateLocation, OpenEditLocation, OpenDeleteLocation
<1>4. ASSUME NEW call, call.table = "locations", NEW dialog, ui.dlg # None,
             Submit(<<Send({call}, dialog), ReloadLocations(ui.sel.client)>>)
      PROVE  RestInv'
  <2> DEFINE s == ReloadLocations(ui.sel.client)
  <2>1. ui.sel.client # None
    BY <1>1, <1>4, ClickAtRest, RestKnows DEF Submit, PageFits, On
  <2>2. ReadFits(db, ui, s) /\ \A q \in Promised(db, ui) : q.list \in Fills(s) \/ Untouched(ui, q)
    BY <1>1, <2>1, PageLoads DEF On
  <2>3. StepOK(s) BY Loads
  <2>4. call.table \in Forms[ui.page] BY <1>1, <1>4 DEF Forms, On
  <2> HIDE DEF s
  <2> QED BY <1>1, <1>4, <2>2, <2>3, <2>4, SaveShows DEF s
<1>5. CASE CreateLocation \/ SaveLocation \/ DeleteLocation
  <2>1. \A t, r, i : Insert(t, r).table = t /\ Update(t, i, r).table = t /\ Delete(t, i).table = t
    BY DEF Insert, Update, Delete
  <2>2. CASE CreateLocation BY <1>4, <2>1, <2>2 DEF CreateLocation, InDialog, NewLocation
  <2>3. CASE SaveLocation BY <1>4, <2>1, <2>3 DEF SaveLocation, InDialog
  <2>4. CASE DeleteLocation BY <1>4, <2>1, <2>4 DEF DeleteLocation, InDialog
  <2> QED BY <1>5, <2>2, <2>3, <2>4
<1> QED BY <1>2, <1>3, <1>5 DEF LocationsPage

\* The tables that the calls write.
LEMMA CallTables ==
    \A t, r, i : Insert(t, r).table = t /\ Update(t, i, r).table = t /\ Delete(t, i).table = t
BY DEF Insert, Update, Delete

\* The filter on the client.
LEMMA FilterByShows ==
    ASSUME PageInv, RestInv, Calm', On("subscriptions"), NEW c, FilterBy(c, ui)
    PROVE  RestInv'
<1> DEFINE all == {All("subscriptions"), All("clients"), All("services")}
           filtered == [ui EXCEPT !.sel.client = c, !.sel.location = None]
           emptied == [filtered EXCEPT !.list["locations"] = Nothing]
           s == ReloadLocations(c)
<1>1. IF c = None THEN Click(emptied, <<>>) ELSE Click(filtered, << <<s>> >>)
  BY DEF FilterBy
<1>2. \A q \in all : Fresh(db, ui, q) /\ q.list # "locations" /\ q.list \in Lists
  <2>1. \A q \in all : q \in Promised(db, ui) BY DEF Promised, On
  <2>2. \A q \in Promised(db, ui) : Fresh(db, ui, q) BY <1>1, ClickAtRest, RestKnows DEF On
  <2>3. \A q \in all : q.list # "locations" /\ q.list \in Lists BY DEF All, Query, Lists
  <2> QED BY <2>1, <2>2, <2>3
<1>3. /\ DOMAIN filtered = DOMAIN ui /\ filtered.page = "subscriptions"
      /\ filtered.sel.client = c /\ filtered.list = ui.list
  BY DEF PageInv, UiOK, SelOK, On
<1>4. /\ DOMAIN emptied = DOMAIN ui /\ emptied.page = "subscriptions" /\ emptied.sel.client = c
      /\ \A l \in Lists : l # "locations" => emptied.list[l] = ui.list[l]
  BY <1>3 DEF PageInv, UiOK
<1>5. StepOK(s) BY Loads
<1> HIDE DEF filtered, emptied, all
<1>6. CASE c = None
  <2>1. Promised(db, emptied) = all BY <1>4, <1>6 DEF Promised, all
  <2>2. \A q \in all : Fresh(db, emptied, q) BY <1>2, <1>4 DEF Fresh
  <2>3. Filters(db, emptied) BY <1>4 DEF Filters
  <2> QED BY <1>1, <1>4, <1>6, <2>1, <2>2, <2>3, FilterFew DEF On
<1>7. CASE c # None
  <2> DEFINE a == LocationsOfClient(c)
             asks == {a}
  <2>1. Promised(db, filtered) = all \cup asks BY <1>3, <1>7 DEF Promised, all
  <2>2. \A q \in all : Fresh(db, filtered, q) BY <1>2, <1>3 DEF Fresh
  <2>3. ~a.merge BY NotMerged DEF LocationsOfClient
  <2>4. asks # {} /\ \A q \in asks : Wanted(db, filtered, q) BY <2>1, <2>3 DEF Wanted
  <2>5. s = Load(asks) BY DEF ReloadLocations
  <2> HIDE DEF asks
  <2>6. s \in {Load(asks), Spinning(Load(asks)), Finally(Load(asks))} BY <2>5
  <2>7. ReadFits(db, filtered, s) /\ Fills(s) = {q.list : q \in asks}
    BY <1>3, <2>4, <2>6, LoadReads
  <2>8. \A q \in Promised(db, filtered) : Fresh(db, filtered, q) \/ q.list \in Fills(s)
    BY <2>1, <2>2, <2>7
  <2>9. Filters(db, filtered) BY <1>3 DEF Filters
  <2> HIDE DEF s
  <2> QED BY <1>1, <1>3, <1>5, <1>7, <2>7, <2>8, <2>9, FilterFew DEF On
<1> QED BY <1>6, <1>7

\* The handlers of the subscriptions page.
LEMMA SubscriptionsPageShows == ASSUME PageInv, RestInv, Calm', SubscriptionsPage PROVE RestInv'
<1>1. On("subscriptions") /\ ~On("services") /\ ~On("clients") /\ ~On("calculations") /\ ~On("locations")
  BY DEF SubscriptionsPage, FilterClient, FilterLocation, ChooseClientInForm, OpenCreateSubscription,
         OpenEditSubscription, OpenDisconnect, OpenDeleteSubscription, CreateSubscription,
         SaveSubscription, Disconnect, DeleteSubscription, InTable, Reachable, InDialog, On
<1>2. CASE FilterClient \/ ChooseClientInForm
  BY <1>1, <1>2, FilterByShows DEF FilterClient, ChooseClientInForm
<1>3. CASE FilterLocation
  <2>1. PICK l : Click([ui EXCEPT !.sel.location = l], <<>>) BY <1>3 DEF FilterLocation
  <2> DEFINE page == [ui EXCEPT !.sel.location = l]
  <2>2. /\ DOMAIN page = DOMAIN ui /\ page.page = "subscriptions"
        /\ page.sel.client = ui.sel.client /\ page.list = ui.list
    BY <1>1 DEF PageInv, UiOK, SelOK, On
  <2> HIDE DEF page
  <2>3. Promised(db, page) = Promised(db, ui) BY <1>1, <2>2 DEF Promised, On
  <2>4. \A q \in Promised(db, ui) : Fresh(db, ui, q) BY <1>1, <2>1, ClickAtRest, RestKnows
  <2>5. \A q \in Promised(db, page) : Fresh(db, page, q) BY <2>2, <2>3, <2>4 DEF Fresh
  <2>6. Filters(db, page) BY <2>2 DEF Filters
  <2> QED BY <1>1, <2>1, <2>2, <2>5, <2>6, FilterFew DEF On, page
<1>4. CASE OpenCreateSubscription \/ OpenEditSubscription \/ OpenDisconnect \/ OpenDeleteSubscription
  BY <1>1, <1>4, ShowShows
     DEF OpenCreateSubscription, OpenEditSubscription, OpenDisconnect, OpenDeleteSubscription
<1>5. ASSUME NEW call, call.table = "subscriptions", NEW dialog,
             Submit(<<Send({call}, dialog), LoadSubscriptions>>)
      PROVE  RestInv'
  <2> DEFINE s == LoadSubscriptions
  <2>1. ReadFits(db, ui, s) /\ \A q \in Promised(db, ui) : q.list \in Fills(s) \/ Untouched(ui, q)
    BY <1>1, PageLoads DEF On
  <2>2. StepOK(s) BY Loads
  <2>3. call.table \in Forms[ui.page] BY <1>1, <1>5 DEF Forms, On
  <2> HIDE DEF s
  <2> QED BY <1>1, <1>5, <2>1, <2>2, <2>3, SaveShows DEF s
<1>6. CASE CreateSubscription \/ SaveSubscription \/ Disconnect \/ DeleteSubscription
  <2>1. CASE CreateSubscription BY <1>5, <2>1, CallTables DEF CreateSubscription
  <2>2. CASE SaveSubscription BY <1>5, <2>2, CallTables DEF SaveSubscription
  <2>3. CASE Disconnect BY <1>5, <2>3, CallTables DEF Disconnect
  <2>4. CASE DeleteSubscription BY <1>5, <2>4, CallTables DEF DeleteSubscription
  <2> QED BY <1>6, <2>1, <2>2, <2>3, <2>4
<1> QED BY <1>2, <1>3, <1>4, <1>6 DEF SubscriptionsPage

\* The handlers of the periods page.
LEMMA PeriodsPageShows == ASSUME PageInv, RestInv, Calm', PeriodsPage PROVE RestInv'
<1>1. On("periods") /\ ~On("services") /\ ~On("clients") /\ ~On("calculations") /\ ~On("locations")
  BY DEF PeriodsPage, OpenOpenPeriod, OpenClosePeriod, OpenDeletePeriod, OpenPeriod, ClosePeriod,
         ReopenPeriod, DeletePeriod, InTable, Reachable, InDialog, On
<1>2. CASE OpenOpenPeriod \/ OpenClosePeriod \/ OpenDeletePeriod
  BY <1>1, <1>2, ShowShows DEF OpenOpenPeriod, OpenClosePeriod, OpenDeletePeriod
<1>3. ASSUME NEW call, call.table = "periods", NEW dialog,
             Submit(<<Send({call}, dialog), LoadPeriods>>)
      PROVE  RestInv'
  <2> DEFINE s == LoadPeriods
  <2>1. ReadFits(db, ui, s) /\ \A q \in Promised(db, ui) : q.list \in Fills(s)
    BY <1>1, PageLoads DEF On
  <2>2. StepOK(s) BY Loads
  <2>3. call.table \in Forms[ui.page] BY <1>1, <1>3 DEF Forms, On
  <2> HIDE DEF s
  <2> QED BY <1>1, <1>3, <2>1, <2>2, <2>3, SaveShows DEF s
<1>4. CASE OpenPeriod \/ ClosePeriod \/ ReopenPeriod \/ DeletePeriod
  <2>1. CASE OpenPeriod BY <1>3, <2>1, CallTables DEF OpenPeriod
  <2>2. CASE ClosePeriod BY <1>3, <2>2, CallTables DEF ClosePeriod
  <2>3. CASE ReopenPeriod BY <1>3, <2>3, CallTables DEF ReopenPeriod
  <2>4. CASE DeletePeriod BY <1>3, <2>4, CallTables DEF DeletePeriod
  <2> QED BY <1>4, <2>1, <2>2, <2>3, <2>4
<1> QED BY <1>2, <1>4 DEF PeriodsPage

\* The handlers of the users page; a password changes nothing that is shown.
LEMMA UsersPageShows == ASSUME PageInv, RestInv, Calm', UsersPage PROVE RestInv'
<1>1. On("users") /\ ~On("services") /\ ~On("clients") /\ ~On("calculations") /\ ~On("locations")
  BY DEF UsersPage, OpenCreateUser, OpenEditUser, OpenPassword, OpenDeleteUser, CreateUser, SaveUser,
         ChangePassword, ToggleBlock, DeleteUser, InTable, Reachable, InDialog, On
<1>2. CASE OpenCreateUser \/ OpenEditUser \/ OpenPassword \/ OpenDeleteUser
  BY <1>1, <1>2, ShowShows DEF OpenCreateUser, OpenEditUser, OpenPassword, OpenDeleteUser
<1>3. ASSUME NEW call, call.table = "users", NEW dialog,
             Submit(<<Send({call}, dialog), LoadUsers>>)
      PROVE  RestInv'
  <2> DEFINE s == LoadUsers
  <2>1. ReadFits(db, ui, s) /\ \A q \in Promised(db, ui) : q.list \in Fills(s)
    BY <1>1, PageLoads DEF On
  <2>2. StepOK(s) BY Loads
  <2>3. call.table \in Forms[ui.page] BY <1>1, <1>3 DEF Forms, On
  <2> HIDE DEF s
  <2> QED BY <1>1, <1>3, <2>1, <2>2, <2>3, SaveShows DEF s
<1>4. CASE CreateUser \/ SaveUser \/ ToggleBlock \/ DeleteUser
  <2>1. CASE CreateUser BY <1>3, <2>1, CallTables DEF CreateUser
  <2>2. CASE SaveUser BY <1>3, <2>2, CallTables DEF SaveUser
  <2>3. CASE ToggleBlock BY <1>3, <2>3, CallTables DEF ToggleBlock
  <2>4. CASE DeleteUser BY <1>3, <2>4, CallTables DEF DeleteUser
  <2> QED BY <1>4, <2>1, <2>2, <2>3, <2>4
<1>5. CASE ChangePassword
  <2> DEFINE call == Update("users", ui.dlg.id, Nothing)
             w == Send({call}, "password")
             steps == <<w>>
  <2>1. Submit(steps) BY <1>5 DEF ChangePassword
  <2>2. w.calls = {call} /\ w.asks = {} /\ w.next = None BY StepParts
  <2>3. StepOK(w) BY StepKinds
  <2>4. call.table \in Forms[ui.page] /\ NoEffect(call)
    BY <1>1, CallTables DEF Forms, On, NoEffect, Update
  <2> HIDE DEF w, call
  <2>5. ProgramOK(steps) BY <2>3, OneStep
  <2>6. \A n \in DOMAIN steps : StepFits(db, ui, steps, n) BY <2>2, ProgramsFit
  <2>7. steps[1] = w OBVIOUS
  <2> HIDE DEF steps
  <2>8. \A q \in Promised(db, ui) : Fresh(db, ui, q)
    BY <1>1, <2>1, ClickAtRest, RestKnows DEF Submit
  <2>9. SendFits(db, ui, steps) BY <2>2, <2>4, <2>7, <2>8 DEF SendFits
  <2> QED BY <1>1, <2>1, <2>5, <2>6, <2>9, SubmitShows
<1> QED BY <1>2, <1>4, <1>5 DEF UsersPage

\* Programs that only read, and the lists they fill.
Reading(d, u, programs) ==
    /\ ProgramsOK(programs)
    /\ \A r \in DOMAIN programs :
           /\ programs[r][1].calls = {}
           /\ \A n \in DOMAIN programs[r] : StepFits(d, u, programs[r], n)
FillsOne(programs, list) ==
    \E r \in DOMAIN programs : \E n \in DOMAIN programs[r] : list \in Fills(programs[r][n])

\* The programs of several effects.
LEMMA ReadingMore ==
    ASSUME NEW d, NEW u
    PROVE  /\ Reading(d, u, <<>>)
           /\ \A p : /\ ProgramOK(p) /\ p[1].calls = {}
                     /\ \A n \in DOMAIN p : StepFits(d, u, p, n)
                     => /\ Reading(d, u, <<p>>)
                        /\ \A l : \A n \in DOMAIN p : l \in Fills(p[n]) => FillsOne(<<p>>, l)
           /\ \A P, Q : Reading(d, u, P) /\ Reading(d, u, Q) =>
                  /\ Reading(d, u, P \o Q)
                  /\ \A l : FillsOne(P, l) \/ FillsOne(Q, l) => FillsOne(P \o Q, l)
<1>1. Reading(d, u, <<>>)
  <2> DEFINE P == <<>>
  <2>1. ProgramsOK(P) /\ DOMAIN P = {} BY LoadsAlone
  <2> HIDE DEF P
  <2>2. Reading(d, u, P) BY <2>1 DEF Reading
  <2> QED BY <2>2 DEF P
<1>2. ASSUME NEW p, ProgramOK(p), p[1].calls = {}, \A n \in DOMAIN p : StepFits(d, u, p, n)
      PROVE  /\ Reading(d, u, <<p>>)
             /\ \A l : \A n \in DOMAIN p : l \in Fills(p[n]) => FillsOne(<<p>>, l)
  <2> DEFINE P == <<p>>
  <2>1. ProgramsOK(P) BY <1>2, LoadsAlone
  <2>2. DOMAIN P = {1} /\ P[1] = p OBVIOUS
  <2> HIDE DEF P
  <2>3. Reading(d, u, P) BY <1>2, <2>1, <2>2 DEF Reading
  <2>4. \A l : \A n \in DOMAIN p : l \in Fills(p[n]) => FillsOne(P, l) BY <2>2 DEF FillsOne
  <2> QED BY <2>3, <2>4 DEF P
<1>3. ASSUME NEW P, NEW Q, Reading(d, u, P), Reading(d, u, Q)
      PROVE  /\ Reading(d, u, P \o Q)
             /\ \A l : FillsOne(P, l) \/ FillsOne(Q, l) => FillsOne(P \o Q, l)
  <2> DEFINE R == P \o Q
             m == Len(P)
             n == Len(Q)
  <2>1. ProgramsOK(R) BY <1>3, ProgramsFew DEF Reading
  <2>2. PICK S : P \in Seq(S) BY <1>3 DEF Reading, ProgramsOK
  <2>3. PICK T : Q \in Seq(T) BY <1>3 DEF Reading, ProgramsOK
  <2>4. P \in Seq(S \cup T) /\ Q \in Seq(S \cup T) BY <2>2, <2>3, SeqMonotonic
  <2>5. /\ R \in Seq(S \cup T) /\ Len(R) = m + n
        /\ \A i \in 1..m + n : R[i] = IF i <= m THEN P[i] ELSE Q[i - m]
    BY <2>4, ConcatProperties, Zenon
  <2>6. m \in Nat /\ n \in Nat /\ DOMAIN P = 1..m /\ DOMAIN Q = 1..n /\ DOMAIN R = 1..m + n
    BY <2>4, <2>5, LenProperties
  <2> HIDE DEF R, m, n
  <2>7. \A i \in DOMAIN R : (\E r \in DOMAIN P : R[i] = P[r]) \/ (\E r \in DOMAIN Q : R[i] = Q[r])
    <3> SUFFICES ASSUME NEW i \in 1..m + n
                 PROVE  (\E r \in DOMAIN P : R[i] = P[r]) \/ (\E r \in DOMAIN Q : R[i] = Q[r])
      BY <2>6
    <3>1. CASE i <= m BY <2>5, <2>6, <3>1
    <3>2. CASE ~(i <= m)
      <4>1. i - m \in 1..n BY <2>6, <3>2
      <4> QED BY <2>5, <2>6, <3>2, <4>1
    <3> QED BY <3>1, <3>2
  <2>8. \A r \in DOMAIN P : r \in DOMAIN R /\ R[r] = P[r] BY <2>5, <2>6
  <2>9. \A r \in DOMAIN Q : \E i \in DOMAIN R : R[i] = Q[r]
    <3> SUFFICES ASSUME NEW r \in 1..n PROVE \E i \in 1..m + n : R[i] = Q[r] BY <2>6
    <3> DEFINE i == m + r
    <3>1. i \in 1..m + n /\ ~(i <= m) /\ i - m = r BY <2>6
    <3> HIDE DEF i
    <3>2. R[i] = Q[r] BY <2>5, <3>1
    <3> QED BY <3>1, <3>2
  <2>10. Reading(d, u, R) BY <1>3, <2>1, <2>7 DEF Reading
  <2>11. ASSUME NEW l, FillsOne(P, l) \/ FillsOne(Q, l) PROVE FillsOne(R, l)
    BY <2>8, <2>9, <2>11 DEF FillsOne
  <2> QED BY <2>10, <2>11 DEF R
<1> QED BY <1>1, <1>2, <1>3

\* One step, and two, as programs that only read.
LEMMA ReadingOne ==
    ASSUME NEW d, NEW u, NEW s, StepOK(s), ReadFits(d, u, s)
    PROVE  /\ Reading(d, u, << <<s>> >>)
           /\ \A l \in Fills(s) : FillsOne(<< <<s>> >>, l)
           /\ \A t : StepOK(t) /\ ThenFits(u, s, t) =>
                  /\ Reading(d, u, << <<s, t>> >>)
                  /\ \A l : l \in Fills(s) \/ l \in Fills(t) => FillsOne(<< <<s, t>> >>, l)
<1>1. Reading(d, u, << <<s>> >>) /\ \A l \in Fills(s) : FillsOne(<< <<s>> >>, l)
  <2> DEFINE p == <<s>>
  <2>1. ProgramOK(p) BY OneStep
  <2>2. \A n \in DOMAIN p : StepFits(d, u, p, n) BY ProgramsFit
  <2>3. DOMAIN p = {1} /\ p[1] = s OBVIOUS
  <2> HIDE DEF p
  <2>4. p[1].calls = {} BY <2>3 DEF ReadFits
  <2>5. Reading(d, u, <<p>>) /\ \A l : \A n \in DOMAIN p : l \in Fills(p[n]) => FillsOne(<<p>>, l)
    BY <2>1, <2>2, <2>4, ReadingMore
  <2> QED BY <2>3, <2>5 DEF p
<1>2. ASSUME NEW t, StepOK(t), ThenFits(u, s, t)
      PROVE  /\ Reading(d, u, << <<s, t>> >>)
             /\ \A l : l \in Fills(s) \/ l \in Fills(t) => FillsOne(<< <<s, t>> >>, l)
  <2> DEFINE p == <<s, t>>
  <2>1. ProgramOK(p) BY <1>2, MoreSteps
  <2>2. \A n \in DOMAIN p : StepFits(d, u, p, n) BY <1>2, ProgramsFit
  <2>3. DOMAIN p = {1, 2} /\ p[1] = s /\ p[2] = t
    <3>1. Len(p) = 2 /\ DOMAIN p = 1..2 OBVIOUS
    <3>2. 1..2 = {1, 2} OBVIOUS
    <3> QED BY <3>1, <3>2
  <2> HIDE DEF p
  <2>4. p[1].calls = {} BY <2>3 DEF ReadFits
  <2>5. Reading(d, u, <<p>>) /\ \A l : \A n \in DOMAIN p : l \in Fills(p[n]) => FillsOne(<<p>>, l)
    BY <2>1, <2>2, <2>4, ReadingMore
  <2> QED BY <2>3, <2>5 DEF p
<1> QED BY <1>1, <1>2

\* A filter that is set, with whatever begins to be read.
LEMMA FilterReads ==
    ASSUME PageInv, RestInv, Calm', NEW page, DOMAIN page = DOMAIN ui, page.page = ui.page,
           Filters(db, page), NEW programs, Reading(db, page, programs), Click(page, programs),
           \A q \in Promised(db, page) : Fresh(db, page, q) \/ FillsOne(programs, q.list)
    PROVE  RestInv'
BY FilterShows DEF Reading, FillsOne

\* The handlers of a client's details.
LEMMA DetailPageShows == ASSUME PageInv, RestInv, Calm', DetailPage PROVE RestInv'
<1>1. On("detail") /\ ~On("services") /\ ~On("clients") /\ ~On("calculations") /\ ~On("locations")
  BY DEF DetailPage, OpenAddLocation, OpenChangeLocation, OpenSubscribe, OpenDisconnectHere,
         OpenUnsubscribe, SaveDetailLocation, Subscribe, DisconnectHere, Unsubscribe,
         Detailed, Reachable, InDialog, On
<1>2. CASE OpenAddLocation \/ OpenChangeLocation \/ OpenSubscribe \/ OpenDisconnectHere \/ OpenUnsubscribe
  BY <1>1, <1>2, ShowShows
     DEF OpenAddLocation, OpenChangeLocation, OpenSubscribe, OpenDisconnectHere, OpenUnsubscribe
<1>3. ASSUME NEW call, call.table \in {"locations", "subscriptions"}, NEW dialog,
             Submit(<<Send({call}, dialog)>> \o LoadDetail(ui.sel.client))
      PROVE  RestInv'
  <2> DEFINE asks == DetailQueries(ui.sel.client)
             s == Load(asks)
             t == Then("subscriptions")
             calls == {call}
  <2>1. Submit(<<Send(calls, dialog), s, t>>) BY <1>3, ConsTwo DEF LoadDetail
  <2>2. Promised(db, ui) = asks \cup {Query("subscriptions", "subscriptions", "client", ui.sel.client)}
    BY <1>1 DEF Promised, On
  <2>3. asks # {} /\ LocationsOfClient(ui.sel.client) \in asks /\ \A a \in asks : ~a.merge
    BY NotMerged DEF DetailQueries, LocationsOfClient, All
  <2>4. StepOK(s) /\ StepOK(t) BY StepKinds, QueryKinds
  <2>5. t.calls = {} /\ t.asks = {} /\ t.next = "subscriptions" /\ s.asks = asks BY StepParts
  <2>6. \A c \in calls : c.table \in Forms[ui.page] BY <1>1, <1>3 DEF Forms, On
  <2>7. \E c \in calls : calls = {c} OBVIOUS
  <2>8. Query("subscriptions", "subscriptions", "client", ui.sel.client).list = "subscriptions" BY DEF Query
  <2> HIDE DEF asks, s, t, calls
  <2>9. \A a \in asks : Wanted(db, ui, a) BY <2>2, <2>3 DEF Wanted
  <2>10. ReadFits(db, ui, s) /\ Fills(s) = {q.list : q \in asks}
    BY <1>1, <2>3, <2>9, LoadReads DEF s, On
  <2>11. ThenFits(ui, s, t) BY <1>1, <2>3, <2>5 DEF ThenFits, On
  <2>12. Fills(t) = {"subscriptions"} BY <2>5, WebPagesAssumption DEF Fills, Lists
  <2>13. \A q \in Promised(db, ui) : q.list \in Fills(s) \/ q.list \in Fills(t)
    BY <2>2, <2>8, <2>10, <2>12
  <2> QED BY <1>1, <2>1, <2>4, <2>6, <2>7, <2>10, <2>11, <2>13, SaveThenShows
<1>4. CASE SaveDetailLocation
  <2>1. PICK call : call.table = "locations" /\ Submit(<<Send({call}, "location")>> \o LoadDetail(ui.sel.client))
    BY <1>4, CallTables DEF SaveDetailLocation, NewLocation
  <2> QED BY <1>3, <2>1
<1>5. CASE Subscribe BY <1>3, <1>5, CallTables DEF Subscribe
<1>6. CASE DisconnectHere BY <1>3, <1>6, CallTables DEF DisconnectHere
<1>7. CASE Unsubscribe BY <1>3, <1>7, CallTables DEF Unsubscribe
<1> QED BY <1>2, <1>4, <1>5, <1>6, <1>7 DEF DetailPage

\* What the calculations page reads.
LEMMA BillReads ==
    ASSUME NEW d, NEW u, u.page = "calculations"
    PROVE  /\ Promised(d, u) = {All("periods"), All("clients")}
                  \cup (IF u.sel.client = None THEN {} ELSE {LocationsOfClient(u.sel.client)})
                  \cup Bill(u.sel)
           /\ \A q \in Bill(u.sel) : q.list = "calculations" /\ q.table = "calculations" /\ ~q.merge
                                     /\ q.by = "bill" /\ q.of.period = u.sel.period
           /\ \A sel, calcs : \A q \in Unbilled(sel, calcs) :
                  q.list = "options" /\ q.by = "unbilled" /\ ~q.merge
           /\ LET q == LocationsOfClient(u.sel.client)
              IN  q.list = "locations" /\ q.table = "locations" /\ ~q.merge /\ q.by = "client"
           /\ \A t : LET q == All(t) IN q.list = t /\ q.table = t /\ q.by = "all" /\ ~q.merge
BY DEF Promised, Bill, Unbilled, LocationsOfClient, All, Query

\* The fetch of the calculations, and the options after it.
LEMMA SpinReads ==
    ASSUME NEW d, NEW u, u.page = "calculations", u.sel.period # None
    PROVE  /\ Reading(d, u, <<SpinCalculations(u.sel)>>)
           /\ \A q \in Bill(u.sel) : FillsOne(<<SpinCalculations(u.sel)>>, q.list)
<1> DEFINE asks == Bill(u.sel)
           s == Spinning(Load(asks))
           t == Then("options")
<1>1. asks # {} BY DEF Bill
<1>2. asks \subseteq Promised(d, u) /\ \A q \in asks : q.list = "calculations" /\ ~q.merge BY BillReads
<1>3. \A q \in asks : QueryOK(q) BY QueryKinds
<1>4. StepOK(s) /\ StepOK(t) BY <1>3, StepKinds
<1>5. t.calls = {} /\ t.asks = {} /\ t.next = "options" BY StepParts
<1>6. SpinCalculations(u.sel) = <<s, t>> BY DEF SpinCalculations
<1> HIDE DEF asks, t
<1>7. \A q \in asks : Wanted(d, u, q) /\ q.list # "periods" BY <1>2 DEF Wanted
<1>8. ReadFits(d, u, s) /\ Fills(s) = {q.list : q \in asks} BY <1>1, <1>7, LoadReads
<1>9. ThenFits(u, s, t) BY <1>5 DEF ThenFits
<1> HIDE DEF s
<1>10. Reading(d, u, << <<s, t>> >>) /\ \A l \in Fills(s) : FillsOne(<< <<s, t>> >>, l)
  BY <1>4, <1>8, <1>9, ReadingOne
<1> QED BY <1>6, <1>8, <1>10 DEF asks

\* A form of the calculations page.
LEMMA BillFormShows ==
    ASSUME PageInv, RestInv, Calm', On("calculations"), NEW calls, NEW dialog,
           Submit(<<Send(calls, dialog)>> \o ReloadCalculations(ui.sel)),
           \A c \in calls : c.table = "calculations",
           (\E c \in calls : calls = {c}) \/ \A c \in calls : Sure(db, ui, c)
    PROVE  RestInv'
<1>1. ~On("services") /\ ~On("clients") BY DEF On
<1>2. \A c \in calls : c.table \in Forms[ui.page] BY DEF Forms, On
<1>3. \A q \in Promised(db, ui) : q \in Bill(ui.sel) \/ Untouched(ui, q)
  <2>1. "periods" \notin Touched(ui) /\ "clients" \notin Touched(ui) /\ "locations" \notin Touched(ui)
    BY DEF Touched, Forms, On
  <2>2. Untouched(ui, All("periods")) /\ Untouched(ui, All("clients"))
        /\ Untouched(ui, LocationsOfClient(ui.sel.client))
    BY <2>1, BillReads DEF Untouched, On
  <2> QED BY <2>2, BillReads DEF On
<1>4. CASE Bill(ui.sel) = {}
  <2> DEFINE w == Send(calls, dialog)
             steps == <<w>>
  <2>1. Submit(steps)
    <3>1. w \in {w} /\ <<w>> \in Seq({w}) OBVIOUS
    <3>2. <<w>> \o <<>> = <<w>> BY <3>1, ConcatEmptySeq
    <3> QED BY <1>4, <3>2 DEF ReloadCalculations
  <2>2. w.calls = calls /\ w.asks = {} /\ w.next = None BY StepParts
  <2>3. StepOK(w) BY StepKinds
  <2> HIDE DEF w
  <2>4. ProgramOK(steps) BY <2>3, OneStep
  <2>5. \A n \in DOMAIN steps : StepFits(db, ui, steps, n) BY <2>2, ProgramsFit
  <2>6. steps[1] = w OBVIOUS
  <2> HIDE DEF steps
  <2>7. \A q \in Promised(db, ui) : Fresh(db, ui, q)
    BY <1>1, <2>1, ClickAtRest, RestKnows DEF Submit
  <2>8. SendFits(db, ui, steps) BY <1>2, <1>3, <1>4, <2>2, <2>6, <2>7 DEF SendFits
  <2> QED BY <1>1, <2>1, <2>4, <2>5, <2>8, SubmitShows
<1>5. CASE Bill(ui.sel) # {}
  <2> DEFINE asks == Bill(ui.sel)
             s == Load(asks)
             t == Then("options")
  <2>1. Submit(<<Send(calls, dialog), s, t>>) BY <1>5, ConsTwo DEF ReloadCalculations
  <2>2. asks \subseteq Promised(db, ui) /\ \A q \in asks : q.list = "calculations" /\ ~q.merge
    BY BillReads DEF On
  <2>3. StepOK(s) /\ StepOK(t) BY StepKinds, QueryKinds
  <2>4. t.calls = {} /\ t.asks = {} /\ t.next = "options" BY StepParts
  <2>5. \A q \in Promised(db, ui) : q \in asks \/ Untouched(ui, q) BY <1>3
  <2>6. asks # {} BY <1>5
  <2> HIDE DEF asks, t
  <2>7. \A a \in asks : Wanted(db, ui, a) /\ a.list # "periods" BY <2>2 DEF Wanted
  <2>8. ReadFits(db, ui, s) /\ Fills(s) = {q.list : q \in asks} BY <2>6, <2>7, LoadReads
  <2>9. ThenFits(ui, s, t) BY <2>4 DEF ThenFits
  <2> HIDE DEF s
  <2>10. \A q \in Promised(db, ui) : q.list \in Fills(s) \/ Untouched(ui, q) BY <2>5, <2>8
  <2> QED BY <1>1, <1>2, <2>1, <2>3, <2>8, <2>9, <2>10, SaveThenShows
<1> QED BY <1>4, <1>5

\* A calculation stays well typed when the reading, the status or the note is written.
LEMMA EditOfRow ==
    ASSUME NEW r \in Row["calculations"], NEW f \in {"reading", "status", "note"}, NEW v,
           f = "reading" => v \in Opt(Readings),
           f = "status" => v \in Statuses,
           f = "note" => v \in Opt(Notes)
    PROVE  Written("calculations", r, [g \in {f} |-> v]) \in Row["calculations"]
<1> DEFINE set == [g \in {f} |-> v]
           w == Written("calculations", r, set)
<1>1. Row["calculations"] =
        [subscription: Ids, period: Ids, tariff: Ids, reading: Opt(Readings),
         status: Statuses, note: Opt(Notes)]
  BY DEF Row
<1>2. w = [g \in DOMAIN r |-> IF g = f THEN v ELSE r[g]] BY DEF Written, Writable
<1>4. CASE f = "reading"
  <2>1. w = [r EXCEPT !.reading = v] BY <1>2, <1>4
  <2> QED BY <1>1, <1>4, <2>1
<1>5. CASE f = "status"
  <2>1. w = [r EXCEPT !.status = v] BY <1>2, <1>5
  <2> QED BY <1>1, <1>5, <2>1
<1>6. CASE f = "note"
  <2>1. w = [r EXCEPT !.note = v] BY <1>2, <1>6
  <2> QED BY <1>1, <1>6, <2>1
<1> QED BY <1>4, <1>5, <1>6

\* What may be edited on an open calculation at rest may still be when its form is sent.
LEMMA EditShows == ASSUME PageInv, RestInv, Calm', SaveEdit PROVE RestInv'
<1>1. On("calculations") /\ ui.dlg # None /\ ui.dlg.name = "edit" BY DEF SaveEdit, InDialog
<1>2. PICK form \in EditForm :
        LET calls == {Update("calculations", ui.dlg.id, [g \in {f} |-> form[f]]) : f \in Edited(ui.dlg.row, form)}
        IN  Submit(<<Send(calls, "edit")>> \o ReloadCalculations(ui.sel))
  BY DEF SaveEdit
<1> DEFINE call(f) == Update("calculations", ui.dlg.id, [g \in {f} |-> form[f]])
           calls == {call(f) : f \in Edited(ui.dlg.row, form)}
<1>3. Submit(<<Send(calls, "edit")>> \o ReloadCalculations(ui.sel)) BY <1>2
<1>4. Editable(db, ui.dlg.id)
  BY <1>1, <1>3, ClickAtRest, RestKnows DEF Submit, PageFits, On
<1>5. /\ form["reading"] \in Opt(Readings) /\ form["status"] \in Statuses
      /\ form["note"] \in Opt(Notes)
  BY DEF EditForm
<1>6. Edited(ui.dlg.row, form) \subseteq {"reading", "status", "note"} BY DEF Edited
<1>7. ASSUME NEW f \in {"reading", "status", "note"} PROVE Sure(db, ui, call(f))
  <2> DEFINE set == [g \in {f} |-> form[f]]
             c == Update("calculations", ui.dlg.id, set)
  <2>1. \A r \in Row["calculations"] : Written("calculations", r, set) \in Row["calculations"]
    BY <1>5, <1>7, EditOfRow
  <2> HIDE DEF set
  <2>2. c.op = "update" /\ c.id = ui.dlg.id /\ c.set = set BY DEF Update
  <2>3. Sure(db, ui, c) BY <1>1, <1>4, <2>1, <2>2 DEF Sure, On
  <2> QED BY <2>3 DEF set
<1>8. \A f : call(f).table = "calculations" BY CallTables
<1> HIDE DEF call
<1>9. \A c \in calls : c.table = "calculations" /\ Sure(db, ui, c) BY <1>6, <1>7, <1>8
<1> HIDE DEF calls
<1> QED BY <1>1, <1>3, <1>9, BillFormShows

\* The filters of the calculations page: what they do not read is shown already.
LEMMA BillFilters ==
    ASSUME PageInv, RestInv, Calm', On("calculations"), NEW page, DOMAIN page = DOMAIN ui,
           page.page = ui.page, page.dlg = None, NEW programs, Click(page, programs),
           Reading(db, page, programs),
           page.list["periods"] = ui.list["periods"], page.list["clients"] = ui.list["clients"],
           page.sel.client # None =>
               \/ page.sel.client = ui.sel.client /\ page.list["locations"] = ui.list["locations"]
               \/ FillsOne(programs, "locations"),
           page.sel.period # None => FillsOne(programs, "calculations")
    PROVE  RestInv'
<1>1. \A q \in Promised(db, ui) : Fresh(db, ui, q)
  BY ClickAtRest, RestKnows DEF On
<1>2. page.page = "calculations" /\ ui.page = "calculations" BY DEF On
<1>3. Fresh(db, page, All("periods")) /\ Fresh(db, page, All("clients"))
  BY <1>1, <1>2, BillReads DEF Fresh
<1>4. ASSUME page.sel.client # None
      PROVE  LET q == LocationsOfClient(page.sel.client)
             IN  Fresh(db, page, q) \/ FillsOne(programs, q.list)
  BY <1>1, <1>2, <1>4, BillReads DEF Fresh
<1>5. \A q \in Bill(page.sel) : FillsOne(programs, q.list)
  <2>1. Bill(page.sel) # {} => page.sel.period # None BY DEF Bill
  <2> QED BY <1>2, <2>1, BillReads
<1>6. \A q \in Promised(db, page) : Fresh(db, page, q) \/ FillsOne(programs, q.list)
  BY <1>2, <1>3, <1>4, <1>5, BillReads
<1>7. Filters(db, page) BY <1>2 DEF Filters
<1> QED BY <1>6, <1>7, FilterReads

\* The effects that read: the options, the locations with them, and the calculations.
LEMMA EffectReads ==
    ASSUME NEW d, NEW u, u.page = "calculations"
    PROVE  /\ \A sel, calcs : Reading(d, u, OptionsEffect(sel, Unbilled(sel, calcs)))
           /\ \A sel, calcs : u.sel.client # None =>
                  LET programs == << <<Load({LocationsOfClient(u.sel.client)} \cup Unbilled(sel, calcs))>> >>
                  IN  Reading(d, u, programs) /\ FillsOne(programs, "locations")
           /\ u.sel.period # None =>
                  LET programs == <<SpinCalculations(u.sel)>>
                  IN  Reading(d, u, programs) /\ FillsOne(programs, "calculations")
<1>1. ASSUME NEW asks, asks # {}, \A q \in asks : Wanted(d, u, q) /\ q.list # "periods" /\ QueryOK(q)
      PROVE  LET programs == << <<Load(asks)>> >>
             IN  Reading(d, u, programs) /\ \A q \in asks : FillsOne(programs, q.list)
  <2> DEFINE s == Load(asks)
  <2>1. StepOK(s) BY <1>1, StepKinds
  <2>2. ReadFits(d, u, s) /\ Fills(s) = {q.list : q \in asks} BY <1>1, LoadReads
  <2> HIDE DEF s
  <2>3. Reading(d, u, << <<s>> >>) /\ \A l \in Fills(s) : FillsOne(<< <<s>> >>, l) BY <2>1, <2>2, ReadingOne
  <2> QED BY <2>2, <2>3 DEF s
<1>2. ASSUME NEW sel, NEW calcs PROVE \A q \in Unbilled(sel, calcs) : Wanted(d, u, q) /\ q.list # "periods" /\ QueryOK(q)
  BY BillReads, QueryKinds DEF Wanted
<1>3. ASSUME NEW sel, NEW calcs PROVE Reading(d, u, OptionsEffect(sel, Unbilled(sel, calcs)))
  <2> DEFINE asks == Unbilled(sel, calcs)
  <2>1. \A q \in asks : Wanted(d, u, q) /\ q.list # "periods" /\ QueryOK(q) BY <1>2
  <2> HIDE DEF asks
  <2>2. Reading(d, u, OptionsEffect(sel, asks))
    <3>1. CASE asks = {}
      <4>1. OptionsEffect(sel, asks) = <<>> BY <3>1 DEF OptionsEffect
      <4>2. Reading(d, u, <<>>) BY ReadingMore
      <4> QED BY <4>1, <4>2
    <3>2. CASE asks # {}
      <4>1. OptionsEffect(sel, asks) = << <<Load(asks)>> >> BY <3>2 DEF OptionsEffect
      <4>2. Reading(d, u, << <<Load(asks)>> >>) BY <1>1, <2>1, <3>2
      <4> QED BY <4>1, <4>2
    <3> QED BY <3>1, <3>2
  <2> QED BY <2>2 DEF asks
<1>4. ASSUME NEW sel, NEW calcs, u.sel.client # None
      PROVE  LET programs == << <<Load({LocationsOfClient(u.sel.client)} \cup Unbilled(sel, calcs))>> >>
             IN  Reading(d, u, programs) /\ FillsOne(programs, "locations")
  <2> DEFINE a == LocationsOfClient(u.sel.client)
             asks == {a} \cup Unbilled(sel, calcs)
  <2>1. a.list = "locations" /\ ~a.merge /\ a \in Promised(d, u) /\ QueryOK(a)
    BY <1>4, BillReads, QueryKinds
  <2> HIDE DEF a
  <2>2. Wanted(d, u, a) BY <2>1 DEF Wanted
  <2>3. a \in asks /\ \A q \in asks : Wanted(d, u, q) /\ q.list # "periods" /\ QueryOK(q)
    BY <1>2, <2>1, <2>2
  <2> HIDE DEF asks
  <2>4. LET programs == << <<Load(asks)>> >>
        IN  Reading(d, u, programs) /\ FillsOne(programs, "locations")
    BY <1>1, <2>1, <2>3
  <2> QED BY <2>4 DEF asks, a
<1>5. ASSUME u.sel.period # None
      PROVE  LET programs == <<SpinCalculations(u.sel)>>
             IN  Reading(d, u, programs) /\ FillsOne(programs, "calculations")
  <2>1. \E q \in Bill(u.sel) : TRUE BY <1>5 DEF Bill
  <2> QED BY <1>5, <2>1, SpinReads, BillReads
<1> QED BY <1>3, <1>4, <1>5

\* The period is chosen, the client, or the location.
LEMMA BillChooses ==
    ASSUME PageInv, RestInv, Calm', ChoosePeriod \/ ChooseBilled \/ ChooseLocation
    PROVE  RestInv'
<1>1. On("calculations") /\ ui.dlg = None
  BY DEF ChoosePeriod, ChooseBilled, ChooseLocation, Reachable
<1>2. CASE ChoosePeriod
  <2>1. PICK p \in Shown("periods") \cup {None} :
          LET page == [ui EXCEPT !.sel.period = p]
          IN  IF p # None THEN Click(page, <<SpinCalculations(page.sel)>>)
              ELSE Click([page EXCEPT !.list["calculations"] = Nothing],
                         OptionsEffect(page.sel, Unbilled(page.sel, Nothing)))
    BY <1>2 DEF ChoosePeriod
  <2> DEFINE page == [ui EXCEPT !.sel.period = p]
             emptied == [page EXCEPT !.list["calculations"] = Nothing]
  <2>2. /\ DOMAIN page = DOMAIN ui /\ page.page = ui.page /\ page.dlg = None
        /\ page.sel.client = ui.sel.client /\ page.sel.period = p /\ page.list = ui.list
    BY <1>1 DEF PageInv, UiOK, SelOK
  <2>3. /\ DOMAIN emptied = DOMAIN ui /\ emptied.page = ui.page /\ emptied.dlg = None
        /\ emptied.sel = page.sel
        /\ \A l \in Lists : l # "calculations" => emptied.list[l] = ui.list[l]
    BY <2>2 DEF PageInv, UiOK
  <2>4. IF p # None THEN Click(page, <<SpinCalculations(page.sel)>>)
        ELSE Click(emptied, OptionsEffect(page.sel, Unbilled(page.sel, Nothing)))
    BY <2>1
  <2> HIDE DEF page, emptied
  <2>5. CASE p # None
    <3> DEFINE programs == <<SpinCalculations(page.sel)>>
    <3>1. Reading(db, page, programs) /\ FillsOne(programs, "calculations")
      BY <1>1, <2>2, <2>5, EffectReads DEF On
    <3>2. Click(page, programs) BY <2>4, <2>5
    <3> HIDE DEF programs
    <3> QED BY <1>1, <2>2, <3>1, <3>2, BillFilters
  <2>6. CASE p = None
    <3> DEFINE programs == OptionsEffect(page.sel, Unbilled(page.sel, Nothing))
    <3>1. Reading(db, emptied, programs) BY <1>1, <2>3, EffectReads DEF On
    <3>2. Click(emptied, programs) BY <2>4, <2>6
    <3>3. emptied.sel.period = None BY <2>2, <2>3, <2>6
    <3>4. emptied.sel.client = ui.sel.client BY <2>2, <2>3
    <3>5. /\ emptied.list["periods"] = ui.list["periods"] /\ emptied.list["clients"] = ui.list["clients"]
          /\ emptied.list["locations"] = ui.list["locations"]
      BY <2>3 DEF Lists
    <3> HIDE DEF programs
    <3> QED BY <1>1, <2>3, <3>1, <3>2, <3>3, <3>4, <3>5, BillFilters
  <2> QED BY <2>5, <2>6
<1>3. CASE ChooseBilled
  <2> DEFINE page(c) == [ui EXCEPT !.sel.client = c, !.sel.location = None,
                                   !.list["locations"] = IF c = None THEN Nothing ELSE @,
                                   !.list["options"] = IF c = None THEN Nothing ELSE @]
             first(c) == IF c = None THEN <<>>
                         ELSE << <<Load({LocationsOfClient(c)} \cup OptionsNow(page(c).sel))>> >>
             second(c) == IF ui.sel.period = None THEN <<>> ELSE <<SpinCalculations(page(c).sel)>>
  <2>1. PICK c \in Shown("clients") \cup {None} : Click(page(c), first(c) \o second(c)) BY <1>3 DEF ChooseBilled
  <2> DEFINE v == page(c)
  <2>2. /\ DOMAIN v = DOMAIN ui /\ v.page = ui.page /\ v.dlg = None
        /\ v.sel.client = c /\ v.sel.period = ui.sel.period
        /\ v.list["periods"] = ui.list["periods"] /\ v.list["clients"] = ui.list["clients"]
    BY <1>1 DEF PageInv, UiOK, SelOK, Lists
  <2>3. first(c) = IF c = None THEN <<>>
                   ELSE << <<Load({LocationsOfClient(c)} \cup Unbilled(v.sel, ui.list["calculations"]))>> >>
    BY DEF OptionsNow
  <2>4. second(c) = IF v.sel.period = None THEN <<>> ELSE <<SpinCalculations(v.sel)>>
    BY <2>2
  <2> DEFINE P == first(c)
             Q == second(c)
             R == P \o Q
  <2>5. Click(v, R) BY <2>1
  <2> HIDE DEF page, first, second
  <2> HIDE DEF v
  <2>6. Reading(db, v, P) /\ (c # None => FillsOne(P, "locations"))
    <3>1. CASE c = None BY <2>3, <3>1, ReadingMore
    <3>2. CASE c # None
      <4> DEFINE p == << <<Load({LocationsOfClient(v.sel.client)} \cup Unbilled(v.sel, ui.list["calculations"]))>> >>
      <4>1. Reading(db, v, p) /\ FillsOne(p, "locations") BY <1>1, <2>2, <3>2, EffectReads DEF On
      <4>2. P = p BY <2>2, <2>3, <3>2
      <4> QED BY <4>1, <4>2
    <3> QED BY <3>1, <3>2
  <2>7. Reading(db, v, Q) /\ (v.sel.period # None => FillsOne(Q, "calculations"))
    <3>1. CASE v.sel.period = None BY <2>4, <3>1, ReadingMore
    <3>2. CASE v.sel.period # None BY <1>1, <2>2, <2>4, <3>2, EffectReads DEF On
    <3> QED BY <3>1, <3>2
  <2> HIDE DEF P, Q
  <2>8. /\ Reading(db, v, R)
        /\ \A l : FillsOne(P, l) \/ FillsOne(Q, l) => FillsOne(R, l)
    BY <2>6, <2>7, ReadingMore
  <2> HIDE DEF R
  <2> QED BY <1>1, <2>2, <2>5, <2>6, <2>7, <2>8, BillFilters
<1>4. CASE ChooseLocation
  <2>1. PICK l : Click([ui EXCEPT !.sel.location = l],
                       IF ui.sel.period = None THEN <<>>
                       ELSE <<SpinCalculations([ui EXCEPT !.sel.location = l].sel)>>)
    BY <1>4 DEF ChooseLocation
  <2> DEFINE page == [ui EXCEPT !.sel.location = l]
             programs == IF ui.sel.period = None THEN <<>> ELSE <<SpinCalculations(page.sel)>>
  <2>2. Click(page, programs) BY <2>1
  <2>3. /\ DOMAIN page = DOMAIN ui /\ page.page = ui.page /\ page.dlg = None
        /\ page.sel.client = ui.sel.client /\ page.sel.period = ui.sel.period /\ page.list = ui.list
    BY <1>1 DEF PageInv, UiOK, SelOK
  <2> HIDE DEF page
  <2>4. Reading(db, page, programs) /\ (page.sel.period # None => FillsOne(programs, "calculations"))
    <3>1. CASE ui.sel.period = None BY <2>3, <3>1, ReadingMore
    <3>2. CASE ui.sel.period # None BY <1>1, <2>3, <3>2, EffectReads DEF On
    <3> QED BY <3>1, <3>2
  <2> HIDE DEF programs
  <2> QED BY <1>1, <2>2, <2>3, <2>4, BillFilters
<1> QED BY <1>2, <1>3, <1>4

\* What the calculations page at rest offers to edit may be edited: the row is there, it is in
\* the period chosen, and the page is not locked.
LEMMA OfferedEditable ==
    ASSUME PageInv, RestInv, Calm, On("calculations"), Here(job) = {}, OnPeriod, ~Locked,
           NEW i \in Shown("calculations")
    PROVE  Editable(db, i)
<1>1. Keyed(db) /\ \A q \in Promised(db, ui) : Fresh(db, ui, q) BY RestKnows DEF On
<1>2. PICK q \in Bill(ui.sel) : TRUE BY DEF Bill, OnPeriod
<1>3. /\ q.list = "calculations" /\ q.table = "calculations" /\ q.by = "bill"
      /\ q.of.period = ui.sel.period /\ Fresh(db, ui, q)
  BY <1>1, BillReads DEF On
<1>4. Live(db, "calculations", i)
  <2>1. Shown("calculations") \subseteq LiveIds(db, "calculations") BY <1>3, ShownLive DEF Shown
  <2> QED BY <2>1 DEF LiveIds
<1>5. i[2] = ui.sel.period
  <2>1. DOMAIN Answer(db, q) = {j \in LiveIds(db, "calculations") : Selects(db, q, j)}
    BY <1>3 DEF Answer
  <2>2. Selects(db, q, i) BY <1>3, <2>1 DEF Fresh, Shown
  <2> QED BY <1>3, <2>2 DEF Selects
<1>6. Live(db, "periods", i[2])
  <2>1. HasParents(db, "calculations", db["calculations"][i])
    BY <1>4 DEF PageInv, Resolves, LiveIds, Live, Tables
  <2>2. <<"period", "periods">> \in Parents["calculations"] BY DEF Parents
  <2>3. Live(db, "periods", db["calculations"][i]["period"])
    BY <2>1, <2>2 DEF HasParents
  <2>4. db["calculations"][i]["period"] = i[2] BY <1>1, <1>4 DEF Keyed, LiveIds, Live
  <2> QED BY <2>3, <2>4
<1>7. db.periods[i[2]].open
  <2> DEFINE a == All("periods")
  <2>1. a.list = "periods" /\ a.table = "periods" /\ a.by = "all" /\ Fresh(db, ui, a)
    BY <1>1, BillReads DEF On
  <2> HIDE DEF a
  <2>2. ui.list["periods"] = Rows(db, "periods", {p \in LiveIds(db, "periods") : Selects(db, a, p)})
    BY <2>1 DEF Fresh, Answer
  <2>3. ui.list["periods"] = [p \in LiveIds(db, "periods") |-> db["periods"][p]]
    BY <2>1, <2>2 DEF Rows, Selects
  <2>4. i[2] \in LiveIds(db, "periods") BY <1>6 DEF LiveIds, Live
  <2> QED BY <1>5, <2>3, <2>4 DEF Locked, Shown, Held
<1> QED BY <1>4, <1>7 DEF Editable

\* The handlers of the calculations page.
LEMMA BillPageShows == ASSUME PageInv, RestInv, Calm', BillPage PROVE RestInv'
<1>1. On("calculations") /\ ~On("services") /\ ~On("clients") /\ ~On("locations")
  BY DEF BillPage, ChoosePeriod, ChooseBilled, ChooseLocation, OpenCreateCalculation,
         OpenEditCalculation, OpenDeleteCalculation, OpenStatus, CreateCalculation,
         DeleteCalculation, SaveEdit, SaveStatus, InTable, Reachable, InDialog, On
<1>2. CASE OpenCreateCalculation \/ OpenDeleteCalculation \/ OpenStatus
  <2>1. "create" # "edit" /\ "delete" # "edit" /\ "status" # "edit" OBVIOUS
  <2> QED BY <1>1, <1>2, <2>1, ShowShows DEF OpenCreateCalculation, OpenDeleteCalculation, OpenStatus
<1>3. CASE OpenEditCalculation
  <2>1. PICK i \in Shown("calculations") : Show(Dialog("edit", i, Held("calculations", i)))
    BY <1>3 DEF OpenEditCalculation
  <2>2. Calm /\ Here(job) = {} BY <2>1, ClickAtRest DEF Show
  <2>3. Editable(db, i) BY <1>1, <1>3, <2>2, OfferedEditable DEF OpenEditCalculation
  <2> QED BY <1>1, <2>1, <2>3, ShowShows
<1>4. ASSUME NEW call, call.table = "calculations", NEW dialog,
             Submit(<<Send({call}, dialog)>> \o ReloadCalculations(ui.sel))
      PROVE  RestInv'
  <2> DEFINE calls == {call}
  <2>1. (\E c \in calls : calls = {c}) /\ \A c \in calls : c.table = "calculations" BY <1>4
  <2>2. Submit(<<Send(calls, dialog)>> \o ReloadCalculations(ui.sel)) BY <1>4
  <2> HIDE DEF calls
  <2> QED BY <1>1, <2>1, <2>2, BillFormShows
<1>5. CASE CreateCalculation BY <1>4, <1>5, CallTables DEF CreateCalculation
<1>6. CASE DeleteCalculation BY <1>4, <1>6, CallTables DEF DeleteCalculation
<1>7. CASE SaveStatus BY <1>4, <1>7, CallTables DEF SaveStatus
<1> QED BY <1>2, <1>3, <1>5, <1>6, <1>7, BillChooses, EditShows DEF BillPage

-----------------------------------------------------------------------------
(* Dialogs that are left, and pages that open.                             *)

\* A dialog that is left.
LEMMA CancelShows == ASSUME PageInv, RestInv, Calm', ~On("services"), Cancel PROVE RestInv'
<1>1. Click([ui EXCEPT !.dlg = None], <<>>) BY DEF Cancel
<1> QED BY <1>1, DialogShows

\* The first fetch of the calculations page: the periods, then what depends on the one chosen.
LEMMA FirstReads ==
    ASSUME NEW d, NEW u, u.page = "calculations"
    PROVE  LET programs == << <<Load({All("periods"), All("clients")}), Spinning(Then("calculations")),
                                 Then("options")>> >>
           IN  /\ Reading(d, u, programs)
               /\ FillsOne(programs, "periods") /\ FillsOne(programs, "clients")
               /\ FillsOne(programs, "calculations")
<1> DEFINE asks == {All("periods"), All("clients")}
           a == Load(asks)
           b == Spinning(Then("calculations"))
           c == Then("options")
<1>1. /\ a.calls = {} /\ a.asks = asks /\ a.next = None
      /\ b.calls = {} /\ b.asks = {} /\ b.next = "calculations"
      /\ c.calls = {} /\ c.asks = {} /\ c.next = "options"
  BY StepParts
<1>2. StepOK(a) /\ StepOK(b) /\ StepOK(c) BY StepKinds, QueryKinds
<1>3. asks # {} /\ \A q \in asks : Wanted(d, u, q) BY BillReads DEF Wanted
<1>4. {q.list : q \in asks} = {"periods", "clients"} BY BillReads
<1> HIDE DEF asks, a, b, c
<1>5. "options" # None /\ "calculations" # None BY WebPagesAssumption DEF Lists
<1>6. /\ Fills(a) = {"periods", "clients"}
      /\ Fills(b) = {"calculations"}
  BY <1>1, <1>4, <1>5 DEF Fills
<1> DEFINE p == <<a, b, c>>
<1>7. ProgramOK(p)
  <2>1. <<a>> \o <<b, c>> = <<a, b, c>> BY ConsTwo
  <2>2. ProgramOK(<<a>> \o <<b, c>>) BY <1>2, MoreSteps
  <2> QED BY <2>1, <2>2
<1>8. Len(p) = 3 /\ DOMAIN p = 1..3 /\ p[1] = a /\ p[2] = b /\ p[3] = c OBVIOUS
<1> HIDE DEF p
<1>9. StepFits(d, u, p, 1) BY <1>1, <1>3, <1>5, <1>8 DEF StepFits
<1>10. StepFits(d, u, p, 2) BY <1>1, <1>5, <1>8 DEF StepFits, Followed
<1>11. StepFits(d, u, p, 3) BY <1>1, <1>5, <1>8 DEF StepFits, Followed
<1>12. \A n \in DOMAIN p : StepFits(d, u, p, n)
  <2>1. 1..3 = {1, 2, 3} OBVIOUS
  <2> QED BY <1>8, <1>9, <1>10, <1>11, <2>1
<1>13. Reading(d, u, <<p>>) /\ \A l : \A n \in DOMAIN p : l \in Fills(p[n]) => FillsOne(<<p>>, l)
  BY <1>1, <1>7, <1>8, <1>12, ReadingMore
<1>14. 1 \in DOMAIN p /\ 2 \in DOMAIN p BY <1>8
<1>15. FillsOne(<<p>>, "periods") /\ FillsOne(<<p>>, "clients") /\ FillsOne(<<p>>, "calculations")
  BY <1>6, <1>8, <1>13, <1>14
<1> QED BY <1>13, <1>15 DEF p, a, b, c, asks

\* The locations of the client, if one is chosen.
LEMMA ClientReads ==
    ASSUME NEW d, NEW u, u.page \in {"locations", "subscriptions"}, NEW s, StepOK(s),
           s = ReloadLocations(u.sel.client) \/ s = Spinning(ReloadLocations(u.sel.client)),
           NEW programs, programs = IF u.sel.client = None THEN <<>> ELSE << <<s>> >>
    PROVE  /\ Reading(d, u, programs)
           /\ u.sel.client # None => FillsOne(programs, "locations")
<1>1. CASE u.sel.client = None BY <1>1, ReadingMore
<1>2. CASE u.sel.client # None
  <2> DEFINE a == LocationsOfClient(u.sel.client)
             asks == {a}
  <2>1. a \in Promised(d, u) BY <1>2 DEF Promised
  <2>2. ~a.merge /\ a.list = "locations" BY DEF LocationsOfClient, Query
  <2>3. s = Load(asks) \/ s = Spinning(Load(asks)) BY DEF ReloadLocations
  <2> HIDE DEF a
  <2>4. asks # {} /\ \A q \in asks : Wanted(d, u, q) BY <2>1, <2>2 DEF Wanted
  <2>5. "locations" \in {q.list : q \in asks} BY <2>2
  <2> HIDE DEF asks
  <2>6. s \in {Load(asks), Spinning(Load(asks)), Finally(Load(asks))} BY <2>3
  <2>7. u.page # "calculations" OBVIOUS
  <2>8. ReadFits(d, u, s) /\ Fills(s) = {q.list : q \in asks} BY <2>4, <2>6, <2>7, LoadReads
  <2>9. Reading(d, u, << <<s>> >>) /\ \A l \in Fills(s) : FillsOne(<< <<s>> >>, l)
    BY <2>8, ReadingOne
  <2> QED BY <1>2, <2>5, <2>8, <2>9
<1> QED BY <1>1, <1>2

\* A page that opens reads all that it promises.
LEMMA MountReads ==
    ASSUME NEW d, NEW page \in Pages, page # "services", NEW sel,
           NEW u, u.page = page, u.sel = sel
    PROVE  /\ Reading(d, u, Mounted(page, sel))
           /\ \A q \in Promised(d, u) : FillsOne(Mounted(page, sel), q.list)
<1>1. CASE page = "clients"
  <2> DEFINE s == LoadClients(sel)
  <2>1. ReadFits(d, u, s) /\ \A q \in Promised(d, u) : q.list \in Fills(s) BY <1>1, PageLoads
  <2>2. StepOK(s) BY Loads
  <2>3. Mounted(page, sel) = << <<s>> >> BY <1>1 DEF Mounted
  <2> HIDE DEF s
  <2> QED BY <2>1, <2>2, <2>3, ReadingOne
<1>2. CASE page = "locations"
  <2> DEFINE a == All("clients")
             asks == {a}
             s == Load(asks)
             t == Spinning(ReloadLocations(sel.client))
             P == << <<s>> >>
             Q == IF sel.client = None THEN <<>> ELSE << <<t>> >>
             R == P \o Q
  <2>1. Mounted(page, sel) = R BY <1>2 DEF Mounted
  <2>2. a \in Promised(d, u) /\ ~a.merge /\ a.list = "clients" /\ QueryOK(a)
    BY <1>2, QueryKinds DEF Promised, All, Query
  <2>3. \A q \in Promised(d, u) : q = a \/ (u.sel.client # None /\ q.list = "locations")
    BY <1>2 DEF Promised, LocationsOfClient, Query
  <2> HIDE DEF a
  <2>4. asks # {} /\ (\A q \in asks : Wanted(d, u, q)) /\ (\A q \in asks : QueryOK(q)) BY <2>2 DEF Wanted
  <2>5. "clients" \in {q.list : q \in asks} BY <2>2
  <2>6. StepOK(t) BY Loads
  <2> HIDE DEF asks
  <2>7. StepOK(s) BY <2>4, StepKinds
  <2>8. ReadFits(d, u, s) /\ Fills(s) = {q.list : q \in asks} BY <1>2, <2>4, LoadReads
  <2> HIDE DEF s, t
  <2>9. Reading(d, u, P) /\ FillsOne(P, "clients") BY <2>5, <2>7, <2>8, ReadingOne
  <2>10. Reading(d, u, Q) /\ (u.sel.client # None => FillsOne(Q, "locations"))
    BY <1>2, <2>6, ClientReads DEF t
  <2> HIDE DEF P, Q
  <2>11. Reading(d, u, R) /\ \A l : FillsOne(P, l) \/ FillsOne(Q, l) => FillsOne(R, l)
    BY <2>9, <2>10, ReadingMore
  <2> HIDE DEF R
  <2> QED BY <2>1, <2>2, <2>3, <2>9, <2>10, <2>11
<1>3. CASE page = "detail"
  <2> DEFINE asks == DetailQueries(sel.client)
             s == Load(asks)
             t == Then("subscriptions")
  <2>1. Mounted(page, sel) = << <<s, t>> >> BY <1>3 DEF Mounted, LoadDetail
  <2>2. Promised(d, u) = asks \cup {Query("subscriptions", "subscriptions", "client", sel.client)}
    BY <1>3 DEF Promised
  <2>3. asks # {} /\ LocationsOfClient(sel.client) \in asks /\ \A a \in asks : ~a.merge
    BY NotMerged DEF DetailQueries, LocationsOfClient, All
  <2>4. StepOK(s) /\ StepOK(t) BY StepKinds, QueryKinds
  <2>5. t.calls = {} /\ t.asks = {} /\ t.next = "subscriptions" /\ s.asks = asks BY StepParts
  <2>6. Query("subscriptions", "subscriptions", "client", sel.client).list = "subscriptions" BY DEF Query
  <2> HIDE DEF asks, s, t
  <2>7. \A a \in asks : Wanted(d, u, a) BY <2>2, <2>3 DEF Wanted
  <2>8. ReadFits(d, u, s) /\ Fills(s) = {q.list : q \in asks}
    BY <1>3, <2>3, <2>7, LoadReads DEF s
  <2>9. ThenFits(u, s, t) BY <1>3, <2>3, <2>5 DEF ThenFits
  <2>10. Fills(t) = {"subscriptions"} BY <2>5, WebPagesAssumption DEF Fills, Lists
  <2>11. \A q \in Promised(d, u) : q.list \in Fills(s) \/ q.list \in Fills(t)
    BY <2>2, <2>6, <2>8, <2>10
  <2>12. /\ Reading(d, u, << <<s, t>> >>)
         /\ \A l : l \in Fills(s) \/ l \in Fills(t) => FillsOne(<< <<s, t>> >>, l)
    BY <2>4, <2>8, <2>9, ReadingOne
  <2> QED BY <2>1, <2>11, <2>12
<1>4. CASE page = "subscriptions"
  <2> DEFINE s == LoadSubscriptions
             t == ReloadLocations(sel.client)
             P == IF sel.client = None THEN <<>> ELSE << <<t>> >>
             Q == << <<s>> >>
             R == P \o Q
  <2>1. Mounted(page, sel) = R BY <1>4 DEF Mounted
  <2>2. StepOK(s) /\ StepOK(t) BY Loads
  <2>3. ReadFits(d, u, s) /\ \A q \in {All("subscriptions"), All("clients"), All("services")} : q.list \in Fills(s)
    <3> DEFINE asks == {All("subscriptions"), All("clients"), All("services")}
    <3>1. ReadFits(d, u, s) BY <1>4, PageLoads
    <3>2. s.next = None /\ s.asks = asks BY DEF LoadSubscriptions, Finally, Load, Step
    <3>3. Fills(s) = {q.list : q \in asks} BY <3>2 DEF Fills
    <3> QED BY <3>1, <3>3
  <2>4. \A q \in Promised(d, u) : \/ q \in {All("subscriptions"), All("clients"), All("services")}
                                  \/ u.sel.client # None /\ q.list = "locations"
    BY <1>4 DEF Promised, LocationsOfClient, Query
  <2> HIDE DEF s, t
  <2>5. Reading(d, u, Q) /\ \A l \in Fills(s) : FillsOne(Q, l) BY <2>2, <2>3, ReadingOne
  <2>6. Reading(d, u, P) /\ (u.sel.client # None => FillsOne(P, "locations"))
    BY <1>4, <2>2, ClientReads DEF t
  <2> HIDE DEF P, Q
  <2>7. Reading(d, u, R) /\ \A l : FillsOne(P, l) \/ FillsOne(Q, l) => FillsOne(R, l)
    BY <2>5, <2>6, ReadingMore
  <2> HIDE DEF R
  <2> QED BY <2>1, <2>3, <2>4, <2>5, <2>6, <2>7
<1>5. CASE page = "periods"
  <2> DEFINE s == LoadPeriods
  <2>1. ReadFits(d, u, s) /\ \A q \in Promised(d, u) : q.list \in Fills(s) BY <1>5, PageLoads
  <2>2. StepOK(s) BY Loads
  <2>3. Mounted(page, sel) = << <<s>> >> BY <1>5 DEF Mounted
  <2> HIDE DEF s
  <2> QED BY <2>1, <2>2, <2>3, ReadingOne
<1>6. CASE page = "users"
  <2> DEFINE s == LoadUsers
  <2>1. ReadFits(d, u, s) /\ \A q \in Promised(d, u) : q.list \in Fills(s) BY <1>6, PageLoads
  <2>2. StepOK(s) BY Loads
  <2>3. Mounted(page, sel) = << <<s>> >> BY <1>6 DEF Mounted
  <2> HIDE DEF s
  <2> QED BY <2>1, <2>2, <2>3, ReadingOne
<1>7. CASE page = "calculations"
  <2> DEFINE P == << <<Load({All("periods"), All("clients")}), Spinning(Then("calculations")),
                       Then("options")>> >>
             U == << <<Load({LocationsOfClient(u.sel.client)} \cup Unbilled(sel, Nothing))>> >>
             Q == IF sel.client = None THEN <<>> ELSE U
             B == <<SpinCalculations(u.sel)>>
             T == IF sel.period = None THEN <<>> ELSE B
             R == P \o Q
  <2>1. Mounted(page, sel) = R \o T BY <1>7 DEF Mounted
  <2>2. /\ Reading(d, u, P) /\ FillsOne(P, "periods") /\ FillsOne(P, "clients")
        /\ FillsOne(P, "calculations")
    BY <1>7, FirstReads
  <2>3. u.sel.client # None => Reading(d, u, U) /\ FillsOne(U, "locations") BY <1>7, EffectReads
  <2>4. u.sel.period # None => Reading(d, u, B) BY <1>7, EffectReads
  <2> HIDE DEF P, U, B
  <2>5. Reading(d, u, <<>>) BY ReadingMore
  <2>6. Reading(d, u, Q) /\ (sel.client # None => FillsOne(Q, "locations")) BY <2>3, <2>5
  <2>7. Reading(d, u, T) BY <2>4, <2>5
  <2> HIDE DEF Q, T
  <2>8. Reading(d, u, R) /\ \A l : FillsOne(P, l) \/ FillsOne(Q, l) => FillsOne(R, l)
    BY <2>2, <2>6, ReadingMore
  <2> HIDE DEF R
  <2>9. Reading(d, u, R \o T) /\ \A l : FillsOne(R, l) => FillsOne(R \o T, l)
    BY <2>7, <2>8, ReadingMore
  <2>10. \A q \in Promised(d, u) : q.list \in {"periods", "clients", "calculations"}
                                   \/ (sel.client # None /\ q.list = "locations")
    BY <1>7, BillReads
  <2> QED BY <2>1, <2>2, <2>6, <2>8, <2>9, <2>10
<1> QED BY <1>1, <1>2, <1>3, <1>4, <1>5, <1>6, <1>7 DEF Pages

\* A page that opens.
LEMMA OpenedShows ==
    ASSUME NEW d, NEW page \in Pages, page # "services", NEW sel,
           page = "detail" => Live(d, "clients", sel.client),
           page = "locations" => sel.client = None \/ Live(d, "clients", sel.client),
           Len(Mounted(page, sel)) <= Cardinality(Slots),
           NEW old, \A k \in Slots : old[k] = NoJob
    PROVE  Plain(d, Opened(page, sel), Begun(old, Mounted(page, sel)))
<1> DEFINE u == Opened(page, sel)
           programs == Mounted(page, sel)
           jobs == Begun(old, programs)
<1>1. /\ u.page = page /\ u.sel = sel /\ u.dlg = None
      /\ page = "clients" => u.busy
  BY DEF Opened, LoadingAtFirst
<1> HIDE DEF u
<1>2. /\ Reading(d, u, programs)
      /\ \A q \in Promised(d, u) : FillsOne(programs, q.list)
  BY <1>1, MountReads
<1>3. page = "clients" => programs = << <<LoadClients(sel)>> >> BY DEF Mounted
<1>4. Len(programs) <= Cardinality(Slots) OBVIOUS
<1> HIDE DEF programs
<1>5. ProgramsOK(programs) BY <1>2 DEF Reading
<1>6. /\ \A k \in Here(jobs) : Handler(d, u, jobs, k)
      /\ \A q \in Promised(d, u) : Fresh(d, u, q) \/ Coming(jobs, q)
  BY <1>2, <1>4, <1>5, BegunShows DEF Reading, FillsOne
<1>7. ASSUME page = "clients", NEW k \in Here(jobs)
      PROVE  Here(jobs) = {k} /\ u.busy /\ Len(jobs[k].steps) = 1
  <2> DEFINE p == <<LoadClients(sel)>>
  <2>1. programs = <<p>> BY <1>3, <1>7
  <2>2. Len(p) = 1 OBVIOUS
  <2> HIDE DEF p
  <2>3. Len(programs) = 1 /\ DOMAIN programs = {1} /\ programs[1] = p BY <2>1
  <2>4. Here(jobs) = {k} /\ \E r \in DOMAIN programs : jobs[k] = NewJob(programs[r])
    BY <1>5, <1>7, <2>3, BegunAll
  <2>5. NewJob(p).steps = p BY DEF NewJob
  <2> QED BY <1>1, <1>7, <2>2, <2>3, <2>4, <2>5
<1>8. PageFits(d, u, jobs) BY <1>1, <1>7 DEF PageFits
<1> QED BY <1>6, <1>8 DEF Plain, u, programs

\* A link that is followed from a page at rest.
LEMMA VisitShows == ASSUME PageInv, RestInv, Calm', Visit PROVE RestInv'
<1>1. PICK link \in Links : /\ Reachable(link.from)
                            /\ link.by # "none" => ~ui.busy
                            /\ \E sel \in Handed(link) : Open(link.to, sel)
  BY DEF Visit
<1>2. PICK sel \in Handed(link) : Open(link.to, sel) BY <1>1
<1>3. /\ link.to \in Pages /\ link.by \in {"none", "client", "period"}
      /\ link.to = "detail" => link.by = "client"
      /\ link.by = "client" => link.from \in {"clients", "locations", "detail"}
  BY WebPagesAssumption
<1>4. Calm /\ Abandoned = Idle /\ UNCHANGED db
  <2>1. trouble \in Nat BY BrowserAssumption DEF PageInv
  <2> QED BY <1>2, <2>1 DEF Open, Calm
<1>5. Keyed(db) BY DEF RestInv
<1>6. \A k \in Slots : Abandoned[k] = NoJob BY <1>4 DEF Idle
<1>7. Len(Mounted(link.to, sel)) <= Cardinality(Slots)
  <2>1. {k \in Slots : Abandoned[k] = NoJob} = Slots BY <1>6
  <2> QED BY <1>2, <2>1 DEF Open
<1>8. ui' = Opened(link.to, sel) /\ job' = Begun(Abandoned, Mounted(link.to, sel))
  BY <1>2 DEF Open
<1>9. sel.client = None \/ Live(db, "clients", sel.client)
  <2>1. CASE link.by = "none"
    <3>1. sel = NoFilter BY <1>2, <2>1 DEF Handed
    <3> QED BY <3>1 DEF NoFilter
  <2>2. CASE link.by = "client"
    <3>1. PICK c \in IF link.from = "clients" THEN Shown("clients") ELSE {ui.sel.client} \ {None} :
            sel = [NoFilter EXCEPT !.client = c]
      BY <1>2, <2>2 DEF Handed
    <3>2. sel.client = c BY <3>1 DEF NoFilter
    <3>3. Plain(db, ui, job) BY <1>1, <1>3, <1>4, <2>2 DEF RestInv, Reachable, On
    <3>4. CASE link.from = "clients"
      <4>1. On("clients") /\ ui.dlg = None /\ ~ui.busy BY <1>1, <2>2, <3>4 DEF Reachable
      <4>2. Here(job) = {} BY <3>3, <4>1 DEF Plain, PageFits, On
      <4> DEFINE q == Query("clients", "clients", "search", ui.sel)
      <4>3. q \in Promised(db, ui) BY <4>1 DEF Promised, On, ClientQueries
      <4>4. q.by = "search" /\ q.table = "clients" /\ q.list = "clients" BY DEF Query
      <4> HIDE DEF q
      <4>5. Fresh(db, ui, q) BY <4>2, <4>3, <3>3 DEF Plain, Coming
      <4>6. Shown("clients") \subseteq LiveIds(db, "clients") BY <4>4, <4>5, ShownLive DEF Shown
      <4> QED BY <3>1, <3>2, <3>4, <4>6 DEF LiveIds
    <3>5. CASE link.from = "locations" \/ link.from = "detail"
      <4>1. c = ui.sel.client /\ c # None BY <3>1, <3>5
      <4>2. On("locations") \/ On("detail") BY <1>1, <3>5 DEF Reachable
      <4> QED BY <3>2, <3>3, <4>1, <4>2 DEF Plain, PageFits, On
    <3> QED BY <1>3, <2>2, <3>4, <3>5
  <2>3. CASE link.by = "period"
    <3>1. PICK p : sel = [NoFilter EXCEPT !.period = p] BY <1>2, <2>3 DEF Handed
    <3> QED BY <3>1 DEF NoFilter
  <2> QED BY <1>3, <2>1, <2>2, <2>3
<1>10. link.to = "detail" => Live(db, "clients", sel.client)
  <2>1. ASSUME link.to = "detail" PROVE sel.client # None
    <3>1. PICK c \in IF link.from = "clients" THEN Shown("clients") ELSE {ui.sel.client} \ {None} :
            sel = [NoFilter EXCEPT !.client = c]
      BY <1>2, <1>3, <2>1 DEF Handed
    <3>2. sel.client = c BY <3>1 DEF NoFilter
    <3>3. c # None BY <3>1, ShownOK, WebPagesAssumption
    <3> QED BY <3>2, <3>3
  <2> QED BY <1>9, <2>1
<1>11. CASE link.to # "services"
  <2>1. Plain(db, ui', job') BY <1>3, <1>6, <1>7, <1>8, <1>9, <1>10, <1>11, OpenedShows
  <2> QED BY <1>4, <1>5, <2>1 DEF RestInv
<1>12. CASE link.to = "services"
  <2>1. ui'.page = "services" BY <1>8, <1>12 DEF Opened
  <2> QED BY <1>4, <1>5, <2>1 DEF RestInv, On
<1> QED BY <1>11, <1>12

\* The first page that is opened.
LEMMA InitShows == Init => RestInv
<1> SUFFICES ASSUME Init PROVE RestInv OBVIOUS
<1>1. PICK page \in StartPages :
        LET sel == [NoFilter EXCEPT !.client = IF page = "detail" THEN 1 ELSE None]
        IN  /\ ui = Opened(page, sel)
            /\ job = Begun(Idle, Mounted(page, sel))
  BY DEF Init
<1> DEFINE sel == [NoFilter EXCEPT !.client = IF page = "detail" THEN 1 ELSE None]
<1>2. db = InitDb BY DEF Init
<1>3. Keyed(db) BY <1>2, WebPagesAssumption
<1>4. page \in Pages /\ (page = "detail" => Live(db, "clients", 1)) BY <1>2, WebPagesAssumption
<1>5. /\ sel.client = IF page = "detail" THEN 1 ELSE None
      /\ sel.period = None
  BY DEF NoFilter
<1>6. ui = Opened(page, sel) /\ job = Begun(Idle, Mounted(page, sel)) BY <1>1
<1> HIDE DEF sel
<1>7. CASE page # "services"
  <2>1. Len(Mounted(page, sel)) = 1
    <3>1. \A p : Len(<<p>>) = 1 OBVIOUS
    <3>2. \A p : <<p>> \o <<>> = <<p>>
      <4> SUFFICES ASSUME NEW p PROVE <<p>> \o <<>> = <<p>> OBVIOUS
      <4>1. <<p>> \in Seq({p}) OBVIOUS
      <4> QED BY <4>1, ConcatEmptySeq
    <3>3. \A p : <<>> \o <<p>> = <<p>>
      <4> SUFFICES ASSUME NEW p PROVE <<>> \o <<p>> = <<p>> OBVIOUS
      <4>1. <<p>> \in Seq({p}) OBVIOUS
      <4> QED BY <4>1, ConcatEmptySeq
    <3>4. CASE page = "clients"
      <4>1. Mounted(page, sel) = << <<LoadClients(sel)>> >> BY <3>4 DEF Mounted
      <4> QED BY <3>1, <4>1
    <3>5. CASE page = "locations"
      <4>1. Mounted(page, sel) = << <<Load({All("clients")})>> >> \o <<>> BY <1>5, <3>5 DEF Mounted
      <4> QED BY <3>1, <3>2, <4>1
    <3>6. CASE page = "detail"
      <4>1. Mounted(page, sel) = <<LoadDetail(sel.client)>> BY <3>6 DEF Mounted
      <4> QED BY <3>1, <4>1
    <3>7. CASE page = "subscriptions"
      <4>1. Mounted(page, sel) = <<>> \o << <<LoadSubscriptions>> >> BY <1>5, <3>7 DEF Mounted
      <4> QED BY <3>1, <3>3, <4>1
    <3>8. CASE page = "periods"
      <4>1. Mounted(page, sel) = << <<LoadPeriods>> >> BY <3>8 DEF Mounted
      <4> QED BY <3>1, <4>1
    <3>9. CASE page = "users"
      <4>1. Mounted(page, sel) = << <<LoadUsers>> >> BY <3>9 DEF Mounted
      <4> QED BY <3>1, <4>1
    <3>10. CASE page = "calculations"
      <4> DEFINE p == <<Load({All("periods"), All("clients")}), Spinning(Then("calculations")),
                         Then("options")>>
      <4>1. Mounted(page, sel) = (<<p>> \o <<>>) \o <<>> BY <1>5, <3>10 DEF Mounted
      <4> HIDE DEF p
      <4>2. Mounted(page, sel) = <<p>> BY <3>2, <4>1
      <4> QED BY <3>1, <4>2
    <3> QED BY <1>4, <1>7, <3>4, <3>5, <3>6, <3>7, <3>8, <3>9, <3>10 DEF Pages
  <2>2. 1 <= Cardinality(Slots)
    <3>1. Cardinality(Slots) \in Nat /\ Cardinality(Slots) # 0
      BY BrowserAssumption, FS_CardinalityType, FS_EmptySet
    <3> QED BY <3>1
  <2>3. \A k \in Slots : Idle[k] = NoJob BY DEF Idle
  <2>4. Len(Mounted(page, sel)) <= Cardinality(Slots) BY <2>1, <2>2
  <2>5. Plain(db, ui, job) BY <1>4, <1>5, <1>6, <1>7, <2>3, <2>4, OpenedShows
  <2> QED BY <1>3, <2>5 DEF RestInv
<1>8. CASE page = "services"
  <2>1. ui.page = "services" BY <1>6, <1>8 DEF Opened
  <2> QED BY <1>3, <2>1 DEF RestInv, On
<1> QED BY <1>7, <1>8

-----------------------------------------------------------------------------
(* Queries and answers.                                                    *)

\* The pages but the services promise the same whatever the tables hold.
LEMMA PromisedFixed ==
    ASSUME NEW u, u.page # "services", NEW d, NEW e
    PROVE  Promised(d, u) = Promised(e, u)
BY DEF Promised

\* The queries that are promised are of these kinds, one for each list.
LEMMA PromisedKinds ==
    ASSUME NEW d, NEW u, u.page \in Pages, u.page # "services", NEW q \in Promised(d, u)
    PROVE  /\ q.list \in Lists /\ q.list # "options" /\ ~q.merge
           /\ q.by = "one" => u.page = "detail" /\ q.table = "clients" /\ q.of = u.sel.client
           /\ \A p \in Promised(d, u) : p.list = q.list => p = q
<1>1. \A list, table, by, of :
        LET r == Query(list, table, by, of)
        IN  r.list = list /\ r.table = table /\ r.by = by /\ r.of = of /\ ~r.merge
  BY DEF Query
<1>2. \A t : LET r == All(t) IN r.list = t /\ r.by = "all" /\ ~r.merge BY <1>1 DEF All
<1>3. \A c : LET r == LocationsOfClient(c) IN r.list = "locations" /\ r.by = "client" /\ ~r.merge
  BY <1>1 DEF LocationsOfClient
<1> DEFINE locations == LocationsOfClient(u.sel.client)
<1>4. CASE u.page = "clients"
  <2> DEFINE a == Query("clients", "clients", "search", u.sel)
             b == Query("matching", "clients", "matching", u.sel)
  <2>1. Promised(d, u) = {a, b} BY <1>4 DEF Promised, ClientQueries
  <2>2. a.list = "clients" /\ b.list = "matching" /\ a.by = "search" /\ b.by = "matching" /\ ~a.merge /\ ~b.merge
    BY <1>1
  <2> HIDE DEF a, b
  <2> QED BY <2>1, <2>2 DEF Lists
<1>5. CASE u.page = "locations"
  <2>1. Promised(d, u) \subseteq {All("clients"), locations} BY <1>5 DEF Promised
  <2> QED BY <1>2, <1>3, <2>1 DEF Lists
<1>6. CASE u.page = "detail"
  <2> DEFINE a == Query("clients", "clients", "one", u.sel.client)
             b == Query("calculations", "calculations", "client", u.sel.client)
             s == Query("subscriptions", "subscriptions", "client", u.sel.client)
  <2>1. Promised(d, u) = {a, locations, All("services"), b, s} BY <1>6 DEF Promised, DetailQueries
  <2>2. /\ a.list = "clients" /\ a.table = "clients" /\ a.by = "one" /\ a.of = u.sel.client /\ ~a.merge
        /\ b.list = "calculations" /\ b.by = "client" /\ ~b.merge
        /\ s.list = "subscriptions" /\ s.by = "client" /\ ~s.merge
    BY <1>1
  <2> HIDE DEF a, b, s
  <2> QED BY <1>2, <1>3, <1>6, <2>1, <2>2 DEF Lists
<1>7. CASE u.page = "subscriptions"
  <2>1. Promised(d, u) \subseteq {All("subscriptions"), All("clients"), All("services"), locations}
    BY <1>7 DEF Promised
  <2> QED BY <1>2, <1>3, <2>1 DEF Lists
<1>8. CASE u.page = "periods"
  <2>1. Promised(d, u) = {All("periods")} BY <1>8 DEF Promised
  <2> QED BY <1>2, <2>1 DEF Lists
<1>9. CASE u.page = "users"
  <2>1. Promised(d, u) = {All("users")} BY <1>9 DEF Promised
  <2> QED BY <1>2, <2>1 DEF Lists
<1>10. CASE u.page = "calculations"
  <2> DEFINE b == Query("calculations", "calculations", "bill",
                        [period |-> u.sel.period, client |-> u.sel.client, location |-> u.sel.location])
  <2>1. Promised(d, u) \subseteq {All("periods"), All("clients"), locations, b}
    BY <1>10 DEF Promised, Bill
  <2>2. b.list = "calculations" /\ b.by = "bill" /\ ~b.merge BY <1>1
  <2> HIDE DEF b
  <2> QED BY <1>2, <1>3, <2>1, <2>2 DEF Lists
<1> QED BY <1>4, <1>5, <1>6, <1>7, <1>8, <1>9, <1>10 DEF Pages

\* The subscriptions at the locations of a client are the client's subscriptions.
LEMMA SameSubscriptions ==
    ASSUME NEW d, Resolves(d), NEW c
    PROVE  Answer(d, Query("subscriptions", "subscriptions", "locations", LocationsOf(d, c)))
             = Answer(d, Query("subscriptions", "subscriptions", "client", c))
<1> DEFINE a == Query("subscriptions", "subscriptions", "locations", LocationsOf(d, c))
           b == Query("subscriptions", "subscriptions", "client", c)
           A == {i \in LiveIds(d, "subscriptions") : Selects(d, a, i)}
           B == {i \in LiveIds(d, "subscriptions") : Selects(d, b, i)}
<1>1. /\ a.list = "subscriptions" /\ a.table = "subscriptions" /\ a.by = "locations" /\ a.of = LocationsOf(d, c)
      /\ b.list = "subscriptions" /\ b.table = "subscriptions" /\ b.by = "client" /\ b.of = c
  BY DEF Query
<1> HIDE DEF a, b
<1>2. Answer(d, a) = Rows(d, "subscriptions", A) /\ Answer(d, b) = Rows(d, "subscriptions", B)
  BY <1>1 DEF Answer
<1>3. ASSUME NEW i \in LiveIds(d, "subscriptions") PROVE Selects(d, a, i) <=> Selects(d, b, i)
  <2>1. Live(d, "locations", d["subscriptions"][i]["location"])
    <3>1. HasParents(d, "subscriptions", d["subscriptions"][i]) BY DEF Resolves, Tables
    <3>2. <<"location", "locations">> \in Parents["subscriptions"] BY DEF Parents
    <3> QED BY <3>1, <3>2 DEF HasParents
  <2>2. d.subscriptions[i].location \in LiveIds(d, "locations") BY <2>1 DEF LiveIds, Live
  <2>3. Selects(d, a, i) <=> d.subscriptions[i].location \in LocationsOf(d, c) BY <1>1 DEF Selects
  <2>4. Selects(d, b, i) <=> d.locations[d.subscriptions[i].location].client = c
    BY <1>1 DEF Selects, ClientOf
  <2> QED BY <2>2, <2>3, <2>4 DEF LocationsOf
<1>4. A = B BY <1>3
<1> QED BY <1>2, <1>4 DEF a, b

\* What is read for a list that shows a promised query is the answer to that query.
LEMMA OneAnswer ==
    ASSUME NEW d, Resolves(d), NEW u, u.page \in Pages, u.page # "services",
           NEW q \in Promised(d, u), NEW a, Wanted(d, u, a) \/ Located(d, u, a), a.list = q.list
    PROVE  Answer(d, a) = Answer(d, q)
<1>1. CASE Wanted(d, u, a) BY <1>1, PromisedKinds DEF Wanted
<1>2. CASE Located(d, u, a)
  <2> DEFINE b == Query("subscriptions", "subscriptions", "client", u.sel.client)
  <2>1. u.page = "detail" /\ a = Query("subscriptions", "subscriptions", "locations", LocationsOf(d, u.sel.client))
    BY <1>2 DEF Located
  <2>2. a.list = "subscriptions" BY <2>1 DEF Query
  <2>3. b \in Promised(d, u) BY <2>1 DEF Promised
  <2>4. b.list = "subscriptions" BY DEF Query
  <2>5. q = b BY <2>2, <2>3, <2>4, PromisedKinds
  <2>6. Answer(d, a) = Answer(d, b) BY <2>1, SameSubscriptions
  <2> QED BY <2>5, <2>6
<1> QED BY <1>1, <1>2

\* A page that asks for no row that may be missing is answered.
LEMMA AsksAnswerable ==
    ASSUME NEW d, NEW u, u.page \in Pages, u.page # "services", u.page = "detail" => Live(d, "clients", u.sel.client),
           NEW a, Wanted(d, u, a) \/ Located(d, u, a)
    PROVE  Answerable(d, a) /\ ~a.merge
<1>1. CASE Wanted(d, u, a)
  <2>1. a.by = "one" => u.page = "detail" /\ a.table = "clients" /\ a.of = u.sel.client
    BY <1>1, PromisedKinds DEF Wanted
  <2> QED BY <1>1, <2>1 DEF Answerable, Wanted
<1>2. CASE Located(d, u, a) BY <1>2 DEF Located, Query, Answerable
<1> QED BY <1>1, <1>2

\* A query of tables that a call does not touch has the same answer after it.
LEMMA SameAnswer ==
    ASSUME NEW d, NEW e, NEW q, e[q.table] = d[q.table],
           q.by = "all" \/ \E c : q = LocationsOfClient(c)
    PROVE  Answer(e, q) = Answer(d, q)
<1>1. LiveIds(e, q.table) = LiveIds(d, q.table) BY DEF LiveIds, Live
<1>2. CASE q.by = "all"
  <2>1. \A f : Answer(f, q) = Rows(f, q.table, {i \in LiveIds(f, q.table) : Selects(f, q, i)})
    BY <1>2 DEF Answer
  <2>2. \A f, i : Selects(f, q, i) BY <1>2 DEF Selects
  <2>3. \A S : Rows(e, q.table, S) = Rows(d, q.table, S) BY DEF Rows
  <2> QED BY <1>1, <2>1, <2>2, <2>3
<1>3. CASE \E c : q = LocationsOfClient(c)
  <2>1. PICK c : q = LocationsOfClient(c) BY <1>3
  <2>2. q.by = "client" /\ q.table = "locations" /\ q.of = c BY <2>1 DEF LocationsOfClient, Query
  <2>3. \A f : Answer(f, q) = Rows(f, q.table, {i \in LiveIds(f, q.table) : Selects(f, q, i)})
    BY <2>2 DEF Answer
  <2>4. \A f, i : Selects(f, q, i) = (f["locations"][i].client = c) BY <2>2 DEF Selects, ClientOf
  <2>5. \A S : Rows(e, q.table, S) = Rows(d, q.table, S) BY DEF Rows
  <2>6. \A i : Selects(e, q, i) = Selects(d, q, i) BY <2>2, <2>4
  <2> QED BY <1>1, <2>3, <2>5, <2>6
<1> QED BY <1>2, <1>3

\* A calculation that may be edited still may be after a call on calculations.
LEMMA EditableStays ==
    ASSUME NEW d, RegistryOK(d), NEW c, c.table = "calculations", Accepted(d, c), NEW i, Editable(d, i)
    PROVE  Editable(Apply(d, c), i)
<1> DEFINE e == Apply(d, c)
<1>1. e["periods"] = d["periods"]
  BY OnlyTouched DEF Tables
<1>2. Live(d, "calculations", i) /\ i \in Ids \X Ids /\ d["calculations"][i] \notin {New, Gone}
  BY DEF Editable, Live, IdsOf
<1>3. DOMAIN d = Tables /\ DOMAIN d["calculations"] = Ids \X Ids BY DEF RegistryOK, Tables, IdsOf
<1>4. "calculations" \in Tables BY DEF Tables
<1>5. New \notin Row["calculations"] /\ Gone \notin Row["calculations"]
  BY <1>4, RegistryAssumption
<1>6. CASE c.op = "insert"
  <2> DEFINE n == NextId(d, "calculations", c.row)
             row == Completed(d, "calculations", c.row)
  <2>1. row \in Row["calculations"] BY <1>6 DEF Accepted, AcceptedInsert
  <2>2. e = [d EXCEPT !["calculations"][n] = row] BY <1>6 DEF Apply, Inserted, Prepared
  <2> HIDE DEF n, row
  <2>3. e["calculations"][i] = IF i = n THEN row ELSE d["calculations"][i] BY <1>2, <1>3, <1>4, <2>2
  <2> QED BY <1>1, <1>2, <1>5, <2>1, <2>3 DEF Editable, Live, IdsOf
<1>7. CASE c.op = "update"
  <2> DEFINE row == Written("calculations", d["calculations"][c.id], c.set)
  <2>1. CASE Live(d, "calculations", c.id)
    <3>1. row \in Row["calculations"] BY <1>7, <2>1 DEF Accepted, AcceptedUpdate
    <3>2. e = [d EXCEPT !["calculations"][c.id] = row] BY <1>7, <2>1 DEF Apply, Updated, OthersCleared
    <3> HIDE DEF row
    <3>3. e["calculations"][i] = IF i = c.id THEN row ELSE d["calculations"][i] BY <1>2, <1>3, <1>4, <3>2
    <3> QED BY <1>1, <1>2, <1>5, <3>1, <3>3 DEF Editable, Live, IdsOf
  <2>2. CASE ~Live(d, "calculations", c.id)
    <3>1. e = d BY <1>7, <2>2 DEF Apply, Updated
    <3> QED BY <3>1
  <2> QED BY <2>1, <2>2
<1>8. CASE c.op = "delete" BY <1>8 DEF Accepted, AcceptedDelete
<1> HIDE DEF e
<1> QED BY <1>6, <1>7, <1>8 DEF Accepted

\* The server accepts what is sure.
LEMMA SureAccepted ==
    ASSUME NEW d, RegistryOK(d), Keyed(d), NEW u, NEW c, c.table = "calculations", Sure(d, u, c)
    PROVE  Accepted(d, c)
<1> DEFINE i == c.id
           r == d["calculations"][i]
           w == Written("calculations", r, c.set)
<1>1. c.op = "update" /\ Live(d, "calculations", i) /\ d["periods"][i[2]].open
  BY DEF Sure, Editable
<1>2. i \in Ids \X Ids /\ i \in LiveIds(d, "calculations") BY <1>1 DEF Live, LiveIds, IdsOf
<1>3. r \in Row["calculations"] BY <1>1, LiveRow DEF Tables
<1>4. w \in Row["calculations"] BY <1>3 DEF Sure
<1>5. r.subscription = i[1] /\ r.period = i[2] BY <1>2 DEF Keyed
<1>6. w.subscription = r.subscription /\ w.period = r.period
  BY <1>3 DEF Written, Writable, Row
<1>7. MayWrite(d, "calculations", i, c.set) BY <1>1, <1>5 DEF MayWrite
<1> HIDE DEF w
<1>8. KeyFree(d, "calculations", i, w)
  <2> SUFFICES ASSUME NEW j \in LiveIds(d, "calculations") \ {i},
                      \A f \in Unique["calculations"] : d["calculations"][j][f] = w[f]
               PROVE  FALSE
    BY DEF KeyFree
  <2>1. d["calculations"][j].subscription = w.subscription /\ d["calculations"][j].period = w.period
    BY DEF Unique
  <2>2. d["calculations"][j].subscription = j[1] /\ d["calculations"][j].period = j[2] BY DEF Keyed
  <2>3. j \in Ids \X Ids BY DEF LiveIds, IdsOf
  <2>4. j[1] = i[1] /\ j[2] = i[2] BY <1>5, <1>6, <2>1, <2>2
  <2>5. j = i BY <1>2, <2>3, <2>4
  <2> QED BY <2>5
<1>9. AcceptedUpdate(d, "calculations", i, c.set)
  BY <1>1, <1>4, <1>7, <1>8 DEF AcceptedUpdate, OthersCleared, w
<1> QED BY <1>1, <1>9 DEF Accepted

\* A call without effect leaves the users as they are.
LEMMA EffectOf ==
    ASSUME NEW d, RegistryOK(d), NEW c, NoEffect(c)
    PROVE  Apply(d, c)["users"] = d["users"]
<1>1. c.op = "update" /\ c.table = "users" /\ c.set = Nothing BY DEF NoEffect
<1>2. CASE ~Live(d, "users", c.id) BY <1>1, <1>2 DEF Apply, Updated
<1>3. CASE Live(d, "users", c.id)
  <2> DEFINE r == d["users"][c.id]
  <2>1. r \in Row["users"] BY <1>3, LiveRow DEF Tables
  <2>2. DOMAIN Nothing = {} BY DEF Nothing
  <2>3. Written("users", r, Nothing) = [f \in DOMAIN r |-> r[f]] BY <2>2 DEF Written
  <2>4. [f \in DOMAIN r |-> r[f]] = r BY <2>1 DEF Row
  <2>5. Apply(d, c) = [d EXCEPT !["users"][c.id] = r]
    BY <1>1, <1>3, <2>3, <2>4 DEF Apply, Updated, OthersCleared
  <2>6. d["users"] \in [Ids -> Row["users"] \cup {New, Gone}] /\ "users" \in DOMAIN d
    BY DEF RegistryOK, Tables, IdsOf
  <2>7. [d["users"] EXCEPT ![c.id] = r] = d["users"] BY <2>6
  <2> QED BY <2>5, <2>6, <2>7
<1> QED BY <1>2, <1>3

-----------------------------------------------------------------------------
(* The network.                                                            *)

\* A handler that waits, on a page without trouble.
LEMMA WaitingFits ==
    ASSUME PageInv, RestInv, Calm, ~On("services"), NEW k \in Slots, Waiting(k)
    PROVE  /\ Keyed(db) /\ PageFits(db, ui, job)
           /\ \A q \in Promised(db, ui) : Fresh(db, ui, q) \/ Coming(job, q)
           /\ \A i \in Here(job) : Handler(db, ui, job, i)
           /\ ui.page \in Pages /\ ui.page # "services"
           /\ k \in Here(job)
           /\ JobOK(job[k]) /\ ProgramOK(job[k].steps) /\ StepOK(job[k].steps[1])
           /\ Len(job[k].steps) \in Nat /\ DOMAIN job[k].steps = 1..Len(job[k].steps)
           /\ 1 \in DOMAIN job[k].steps
           /\ StepFits(db, ui, job[k].steps, 1)
<1>1. Keyed(db) /\ Plain(db, ui, job) BY DEF RestInv
<1>2. ui.page \in Pages /\ ui.page # "services" BY DEF PageInv, UiOK, On
<1>3. k \in Here(job) BY DEF Here, Waiting
<1>4. JobOK(job[k]) /\ ProgramOK(job[k].steps) /\ StepOK(job[k].steps[1]) /\ job[k].steps # <<>>
  BY CurrentOK DEF Current
<1>5. /\ Len(job[k].steps) \in Nat /\ DOMAIN job[k].steps = 1..Len(job[k].steps)
      /\ 1 \in DOMAIN job[k].steps
  <2> DEFINE steps == job[k].steps
  <2>1. PICK S : steps \in Seq(S) BY <1>4 DEF ProgramOK
  <2>2. steps # <<>> BY <1>4
  <2> HIDE DEF steps
  <2>3. Len(steps) \in Nat /\ DOMAIN steps = 1..Len(steps) /\ Len(steps) # 0
    BY <2>1, <2>2, LenProperties, EmptySeq
  <2>4. 1 \in DOMAIN steps BY <2>3
  <2> QED BY <2>3, <2>4 DEF steps
<1>6. Handler(db, ui, job, k) BY <1>1, <1>3 DEF Plain
<1>7. StepFits(db, ui, job[k].steps, 1) BY <1>5, <1>6 DEF Handler
<1> QED BY <1>1, <1>2, <1>3, <1>4, <1>5, <1>7 DEF Plain

\* left is what the handler has to do when some of its calls have been executed.
FewerCalls(steps, left) ==
    /\ Len(steps) \in Nat /\ DOMAIN steps = 1..Len(steps) /\ steps[1].calls # {}
    /\ DOMAIN left = DOMAIN steps /\ Len(left) = Len(steps)
    /\ \A n \in DOMAIN steps : /\ left[n].asks = steps[n].asks /\ left[n].next = steps[n].next
                               /\ n # 1 => left[n].calls = steps[n].calls

\* The steps of a handler that sends fill the same lists with fewer calls left.
LEMMA FewerFill ==
    ASSUME NEW steps, NEW left, FewerCalls(steps, left)
    PROVE  /\ \A n \in DOMAIN left : Fills(left[n]) = Fills(steps[n])
           /\ \A q : Ahead(left, q) = Ahead(steps, q)
<1>1. \A n \in DOMAIN left : Fills(left[n]) = Fills(steps[n]) BY DEF Fills, FewerCalls
<1>2. \A q : Ahead(left, q) = Ahead(steps, q) BY <1>1 DEF Ahead, FewerCalls
<1> QED BY <1>1, <1>2

\* The steps of a handler that sends fit with other tables too, and with fewer calls left.
LEMMA FewerFit ==
    ASSUME NEW steps, NEW left, FewerCalls(steps, left), NEW d, NEW e, NEW u, u.page # "services",
           \A n \in DOMAIN steps : StepFits(d, u, steps, n)
    PROVE  \A n \in DOMAIN left : StepFits(e, u, left, n)
<1>1. \A a : Wanted(e, u, a) = Wanted(d, u, a) BY PromisedFixed DEF Wanted
<1>2. ASSUME NEW n \in DOMAIN left, n # 1 PROVE StepFits(e, u, left, n)
  <2> USE DEF FewerCalls
  <2>1. StepFits(d, u, steps, n) BY <1>2
  <2>2. n - 1 \in DOMAIN steps BY <1>2
  <2>3. Len(steps) = n + 1 => n + 1 \in DOMAIN steps BY <1>2
  <2>4. left[n].next = steps[n].next /\ left[n].asks = steps[n].asks /\ left[n].calls = steps[n].calls
    BY <1>2
  <2>5. left[n - 1].asks = steps[n - 1].asks BY <2>2
  <2>6. Len(steps) = n + 1 => left[n + 1].next = steps[n + 1].next BY <2>3
  <2>7. Followed(u, steps, n) => Followed(u, left, n)
    BY <2>4, <2>5, <2>6 DEF Followed
  <2> QED BY <1>1, <1>2, <2>1, <2>4, <2>7 DEF StepFits
<1>3. ASSUME 1 \in DOMAIN left PROVE StepFits(e, u, left, 1)
  <2> USE DEF FewerCalls
  <2>1. StepFits(d, u, steps, 1) BY <1>3
  <2>2. steps[1].asks = {} /\ steps[1].next = None BY <2>1 DEF StepFits
  <2>3. left[1].asks = {} /\ left[1].next = None BY <1>3, <2>2
  <2> QED BY <2>3 DEF StepFits
<1> QED BY <1>2, <1>3

\* What is shown or coming stays so when the server executes a call of a form.
LEMMA ExecuteShows ==
    ASSUME PageInv, RestInv, Calm, ~On("services"), NEW k \in Slots, Execute(k)
    PROVE  RestInv'
<1> DEFINE steps == job[k].steps
<1>1. Waiting(k) BY DEF Execute
<1>2. /\ Keyed(db) /\ PageFits(db, ui, job)
      /\ \A q \in Promised(db, ui) : Fresh(db, ui, q) \/ Coming(job, q)
      /\ \A i \in Here(job) : Handler(db, ui, job, i)
      /\ ui.page \in Pages /\ ui.page # "services" /\ k \in Here(job)
      /\ JobOK(job[k]) /\ StepOK(steps[1])
      /\ Len(steps) \in Nat /\ DOMAIN steps = 1..Len(steps) /\ 1 \in DOMAIN steps
  BY <1>1, WaitingFits
<1>3. PICK call \in steps[1].calls : LET c == Filled(call, job[k].made) IN
        /\ Accepted(db, c) /\ db' = Apply(db, c)
        /\ job' = [job EXCEPT ![k].steps[1].calls = @ \ {call},
                              ![k].made = IF c.op = "insert" THEN NextId(db, c.table, c.row) ELSE @]
  BY DEF Execute, Current
<1>4. /\ job[k].here /\ Here(job) = {k} /\ job[k].got = None /\ SendFits(db, ui, steps)
      /\ \A n \in DOMAIN steps : StepFits(db, ui, steps, n)
  BY <1>2, <1>3 DEF Handler
<1>5. call.table \in Forms[ui.page] BY <1>3, <1>4 DEF SendFits
<1>6. Filled(call, job[k].made) = call
  <2>1. call.table # "tariffs" BY <1>2, <1>5 DEF Forms, Pages
  <2> QED BY <2>1 DEF Filled
<1> DEFINE made == IF call.op = "insert" THEN NextId(db, call.table, call.row) ELSE job[k].made
           first == [steps[1] EXCEPT !.calls = @ \ {call}]
           left == [steps EXCEPT ![1] = first]
           j == [job[k] EXCEPT !.steps = left, !.made = made]
<1>7. Accepted(db, call) /\ db' = Apply(db, call) BY <1>3, <1>6
<1>8. job' = [job EXCEPT ![k] = j] BY <1>2, <1>3, <1>6 DEF PageInv, JobOK
<1>9. /\ first.calls = steps[1].calls \ {call} /\ first.asks = steps[1].asks
      /\ first.next = steps[1].next /\ first.spin = steps[1].spin
  BY <1>2 DEF StepOK
<1>10. /\ DOMAIN left = DOMAIN steps /\ Len(left) = Len(steps) /\ left[1] = first
       /\ \A n \in DOMAIN steps : n # 1 => left[n] = steps[n]
  <2>1. PICK S : steps \in Seq(S) BY <1>1, CurrentOK DEF ProgramOK
  <2> HIDE DEF first, steps
  <2>2. DOMAIN left = DOMAIN steps /\ left[1] = first /\ \A n \in DOMAIN steps : n # 1 => left[n] = steps[n]
    BY <1>2
  <2> DEFINE T == S \cup {first}
  <2>3. steps \in Seq(T) /\ first \in T BY <2>1, SeqMonotonic
  <2>4. Len(left) = Len(steps) BY <1>2, <2>3, ExceptSeq
  <2> QED BY <2>2, <2>4
<1>11. j.steps = left /\ j.here = job[k].here /\ j.got = job[k].got BY <1>2 DEF JobOK
<1> HIDE DEF j, left, first, made
<1>12. Here(job') = {k} /\ job'[k] = j
  <2>1. PageInv' BY ExecuteKeeps
  <2>2. job'[k] = j /\ \A i \in Slots : i # k => job'[i] = job[i] BY <1>8 DEF PageInv
  <2>3. j # NoJob
    <3>1. NoJob.steps = <<>> BY DEF NoJob
    <3>2. DOMAIN left # {} BY <1>2, <1>10
    <3>3. DOMAIN <<>> = {} OBVIOUS
    <3> QED BY <1>11, <3>1, <3>2, <3>3
  <2> QED BY <1>4, <2>2, <2>3 DEF Here
<1>13. /\ \A n \in DOMAIN left : StepFits(db', ui, left, n)
       /\ \A n \in DOMAIN left : Fills(left[n]) = Fills(steps[n])
       /\ \A q : Ahead(left, q) = Ahead(steps, q)
  <2>1. \A n \in DOMAIN steps : left[n].asks = steps[n].asks /\ left[n].next = steps[n].next
    BY <1>9, <1>10
  <2>2. \A n \in DOMAIN steps : n # 1 => left[n].calls = steps[n].calls BY <1>10
  <2>3. steps[1].calls # {} BY <1>3
  <2>4. FewerCalls(steps, left)
    <3> HIDE DEF steps
    <3> QED BY <1>2, <1>10, <2>1, <2>2, <2>3 DEF FewerCalls
  <2> DEFINE e == db'
  <2> HIDE DEF steps, e
  <2>5. \A n \in DOMAIN left : StepFits(e, ui, left, n) BY <1>2, <1>4, <2>4, FewerFit
  <2>6. \A n \in DOMAIN left : StepFits(db', ui, left, n) BY <2>5 DEF e
  <2> QED BY <2>4, <2>6, FewerFill
<1>14. Promised(db', ui) = Promised(db, ui) BY <1>2, PromisedFixed
<1>15. \A u \in Tables : u \notin Touched(ui) => db'[u] = db[u]
  <2> SUFFICES ASSUME NEW u \in Tables, u \notin Touched(ui) PROVE db'[u] = db[u] OBVIOUS
  <2>1. u # call.table BY <1>5 DEF Touched
  <2>2. ~(call.table = "clients" /\ u = "locations")
    BY <1>2, <1>5 DEF Touched, Forms, Pages
  <2>3. ~(call.table = "periods" /\ u = "calculations")
    BY <1>2, <1>5 DEF Touched, Forms, Pages
  <2> QED BY <1>7, <2>1, <2>2, <2>3, OnlyTouched DEF PageInv
<1>16. ui.page = "calculations" => \A i : Editable(db, i) => Editable(db', i)
  BY <1>5, <1>7, EditableStays DEF PageInv, Forms
<1>17. ASSUME left[1].calls # {} PROVE SendFits(db', ui, left)
  <2>1. left[1].calls \subseteq steps[1].calls /\ ~ \E c \in steps[1].calls : steps[1].calls = {c}
    BY <1>3, <1>9, <1>10, <1>17
  <2>2. \A c \in steps[1].calls : Sure(db, ui, c) BY <1>4, <2>1 DEF SendFits
  <2>3. \A c \in steps[1].calls : Sure(db', ui, c) BY <1>16, <2>2 DEF Sure
  <2> HIDE DEF steps
  <2> QED BY <1>4, <1>13, <1>14, <2>1, <2>3 DEF SendFits
<1>18. Handler(db', ui, job', k) BY <1>4, <1>11, <1>12, <1>13, <1>17 DEF Handler
<1>19. \A q : Coming(job, q) => Coming(job', q)
  BY <1>4, <1>10, <1>11, <1>12, <1>13 DEF Coming
<1>20. ASSUME NEW q \in Promised(db, ui) PROVE Fresh(db', ui, q) \/ Coming(job', q)
  <2>1. CASE \A c \in steps[1].calls : NoEffect(c)
    <3>1. NoEffect(call) BY <1>3, <2>1
    <3>2. db'["users"] = db["users"] BY <1>7, <3>1, EffectOf DEF PageInv
    <3>3. ui.page = "users" BY <1>2, <1>5, <3>1 DEF NoEffect, Forms, Pages
    <3>4. q = All("users") BY <3>3 DEF Promised
    <3>5. q.table = "users" /\ q.by = "all" BY <3>4 DEF All, Query
    <3>6. Answer(db', q) = Answer(db, q) BY <3>2, <3>5, SameAnswer
    <3>7. Fresh(db, ui, q) \/ Coming(job', q) BY <1>2, <1>19
    <3> QED BY <3>6, <3>7 DEF Fresh
  <2>2. CASE Ahead(steps, q)
    <3>1. Ahead(left, q) BY <1>13, <2>2
    <3> QED BY <1>11, <1>12, <3>1 DEF Ahead, Coming
  <2>3. CASE Untouched(ui, q)
    <3>1. q.table \in Tables
      <4>1. CASE q.by = "all"
        <5>1. \A t : All(t).table = t BY DEF All, Query
        <5>2. LocationsOfClient(ui.sel.client).table = "locations" BY DEF LocationsOfClient, Query
        <5>3. \A list, table, by, of : Query(list, table, by, of).table = table BY DEF Query
        <5> QED BY <1>2, <5>1, <5>2, <5>3
                DEF Promised, Tables, Pages, ClientQueries, DetailQueries, Bill
      <4>2. CASE q = LocationsOfClient(ui.sel.client) BY <4>2 DEF LocationsOfClient, Query, Tables
      <4> QED BY <2>3, <4>1, <4>2 DEF Untouched
    <3>2. db'[q.table] = db[q.table] BY <1>15, <2>3, <3>1 DEF Untouched
    <3>3. Answer(db', q) = Answer(db, q) BY <2>3, <3>2, SameAnswer DEF Untouched
    <3> QED BY <1>2, <1>19, <3>3 DEF Fresh
  <2> QED BY <1>4, <2>1, <2>2, <2>3 DEF SendFits
<1>21. PageFits(db', ui, job')
  <2>1. ui.page \in {"locations", "detail"} => \A c : Live(db, "clients", c) => Live(db', "clients", c)
    <3>1. ui.page \in {"locations", "detail"} => "clients" \notin Touched(ui) BY DEF Touched, Forms
    <3>2. "clients" \in Tables BY DEF Tables
    <3> QED BY <1>15, <3>1, <3>2 DEF Live
  <2>2. Len(left) = 2 => 2 \in DOMAIN steps BY <1>2, <1>10
  <2>3. Len(left) = 2 => left[2] = steps[2] BY <1>10, <2>2
  <2>4. ASSUME ui.page = "clients"
        PROVE  /\ Here(job') = {k}
               /\ \/ ui.busy /\ Len(j.steps) = 1
                  \/ ui.dlg # None /\ Len(j.steps) = 2 /\ j.steps[2].spin
    BY <1>2, <1>4, <1>10, <1>11, <1>12, <2>3, <2>4 DEF PageFits
  <2> QED BY <1>2, <1>12, <1>16, <2>1, <2>4 DEF PageFits
<1>22. Keyed(db') BY <1>2, <1>7, ApplyKeepsKeys DEF PageInv
<1>23. UNCHANGED ui BY DEF Execute
<1> HIDE DEF steps
<1> QED BY <1>12, <1>14, <1>18, <1>20, <1>21, <1>22, <1>23 DEF RestInv, Plain

\* A handler whose steps are not over is one that is under way.
LEMMA StillHere ==
    ASSUME PageInv, NEW k \in Slots, Waiting(k), NEW j, j.steps # <<>>, job' = [job EXCEPT ![k] = j]
    PROVE  /\ Here(job') = Here(job)
           /\ job'[k] = j /\ \A i \in Slots : i # k => job'[i] = job[i]
<1>1. job'[k] = j /\ \A i \in Slots : i # k => job'[i] = job[i] BY DEF PageInv
<1>2. j # NoJob BY DEF NoJob
<1> QED BY <1>1, <1>2 DEF Here, Waiting

\* An answer on its way changes nothing that is shown or coming.
LEMMA ReplyShows ==
    ASSUME PageInv, RestInv, Calm, ~On("services"), NEW k \in Slots, Reply(k)
    PROVE  RestInv'
<1> DEFINE asks == job[k].steps[1].asks
           j == [job[k] EXCEPT !.got = Replies(db, asks)]
<1>1. Waiting(k) /\ asks # {} BY DEF Reply, Current
<1>2. /\ Keyed(db) /\ PageFits(db, ui, job)
      /\ \A q \in Promised(db, ui) : Fresh(db, ui, q) \/ Coming(job, q)
      /\ \A i \in Here(job) : Handler(db, ui, job, i)
      /\ k \in Here(job) /\ JobOK(job[k]) /\ job[k].steps # <<>> /\ StepFits(db, ui, job[k].steps, 1)
  BY <1>1, WaitingFits, CurrentOK
<1>3. job' = [job EXCEPT ![k] = j] BY <1>2 DEF Reply, Replies, Current, PageInv, JobOK
<1>4. /\ j.steps = job[k].steps /\ j.here = job[k].here /\ j.got = Replies(db, asks)
  BY <1>2 DEF JobOK
<1>5. job[k].steps[1].calls = {} BY <1>1, <1>2 DEF StepFits
<1> HIDE DEF j
<1>6. Here(job') = Here(job) /\ job'[k] = j /\ \A i \in Slots : i # k => job'[i] = job[i]
  BY <1>1, <1>2, <1>3, <1>4, StillHere
<1>7. \A i \in Here(job) : job'[i].steps = job[i].steps BY <1>4, <1>6 DEF Here
<1>8. UNCHANGED <<db, ui>> BY DEF Reply
<1>9. ASSUME NEW i \in Here(job') PROVE Handler(db, ui, job', i)
  <2>1. CASE i = k BY <1>2, <1>4, <1>5, <1>6, <2>1 DEF Handler
  <2>2. CASE i # k
    <3>1. job'[i] = job[i] /\ Handler(db, ui, job, i) BY <1>2, <1>6, <2>2 DEF Here
    <3> QED BY <1>6, <3>1 DEF Handler
  <2> QED BY <2>1, <2>2
<1>10. \A q : Coming(job, q) => Coming(job', q) BY <1>6, <1>7 DEF Coming
<1>11. PageFits(db, ui, job') BY <1>2, <1>6, <1>7 DEF PageFits
<1> QED BY <1>2, <1>8, <1>9, <1>10, <1>11 DEF RestInv, Plain

\* What a form sends is complete.
LEMMA FilledCalls ==
    ASSUME NEW u, u.page \in Pages, u.page # "services", NEW steps, SendFits(db, u, steps),
           NEW call \in steps[1].calls, NEW made
    PROVE  Filled(call, made) = call /\ call.table \in Forms[u.page]
<1>1. call.table \in Forms[u.page] BY DEF SendFits
<1>2. call.table # "tariffs" BY <1>1 DEF Forms, Pages
<1> QED BY <1>1, <1>2 DEF Filled

\* A call that is refused was the only one, and nothing had to change.
LEMMA RefuseShows ==
    ASSUME PageInv, RestInv, Calm, ~On("services"), NEW k \in Slots, Refuse(k)
    PROVE  RestInv'
<1> DEFINE steps == job[k].steps
<1>1. Waiting(k) /\ UNCHANGED db BY DEF Refuse, Caught
<1>2. /\ Keyed(db) /\ PageFits(db, ui, job)
      /\ \A q \in Promised(db, ui) : Fresh(db, ui, q) \/ Coming(job, q)
      /\ Handler(db, ui, job, k) /\ StepFits(db, ui, steps, 1)
      /\ ui.page \in Pages /\ ui.page # "services" /\ 1 \in DOMAIN steps
  BY <1>1, WaitingFits
<1>3. ~ \E q \in steps[1].asks : ~Answerable(db, q)
  <2> SUFFICES ASSUME NEW q \in steps[1].asks PROVE Answerable(db, q) OBVIOUS
  <2>1. Wanted(db, ui, q) \/ Located(db, ui, q) BY <1>2 DEF StepFits
  <2>2. ui.page = "detail" => Live(db, "clients", ui.sel.client) BY <1>2 DEF PageFits
  <2> QED BY <1>2, <2>1, <2>2, AsksAnswerable
<1>4. PICK call \in steps[1].calls :
          ~Accepted(db, Filled(call, job[k].made)) /\ Caught(k, steps[1].calls \ {call})
  BY <1>3 DEF Refuse, Current
<1>5. Here(job) = {k} /\ SendFits(db, ui, steps) BY <1>2, <1>4 DEF Handler
<1>6. Filled(call, job[k].made) = call /\ call.table \in Forms[ui.page] BY <1>2, <1>5, FilledCalls
<1>7. ~Sure(db, ui, call)
  <2> SUFFICES ASSUME Sure(db, ui, call) PROVE FALSE OBVIOUS
  <2>1. call.table = "calculations" BY <1>6 DEF Sure, Forms
  <2> QED BY <1>2, <1>4, <1>6, <2>1, SureAccepted DEF PageInv
<1>8. steps[1].calls = {call} /\ \A q \in Promised(db, ui) : Fresh(db, ui, q)
  BY <1>5, <1>7 DEF SendFits
<1>9. job' = [job EXCEPT ![k] = NoJob] BY <1>4, <1>8 DEF Caught
<1>10. Here(job') = {} BY <1>5, <1>9 DEF Here, PageInv
<1>11. ui'.page = ui.page /\ ui'.sel = ui.sel /\ ui'.list = ui.list /\ ui'.dlg = ui.dlg
  BY <1>4 DEF Caught, PageInv, UiOK
<1>12. Promised(db, ui') = Promised(db, ui) /\ \A q : Fresh(db, ui', q) = Fresh(db, ui, q)
  BY <1>11, SameView
<1>13. PageFits(db, ui', job') BY <1>2, <1>10, <1>11 DEF PageFits
<1> QED BY <1>1, <1>2, <1>8, <1>10, <1>12, <1>13 DEF RestInv, Plain

\* What the second step of a handler reads.
Reads(steps, got, sel) == IF steps[2].next = None THEN steps[2].asks ELSE Asked(steps[2].next, got, sel)

\* What is left of a handler when its first step is over.
LEMMA RestIs ==
    ASSUME NEW steps, ProgramOK(steps), NEW got, NEW sel, NEW rest, rest = Rest(steps, got, sel),
           NEW asks, asks = Reads(steps, got, sel)
    PROVE  /\ Len(steps) \in Nat \ {0} /\ DOMAIN steps = 1..Len(steps)
           /\ Len(steps) = 1 => rest = <<>>
           /\ rest = <<>> /\ Len(steps) # 1 => steps[2].calls = {} /\ asks = {}
           /\ rest # <<>> =>
                  /\ Len(steps) # 1 /\ (steps[2].calls # {} \/ asks # {})
                  /\ Len(rest) = Len(steps) - 1 /\ DOMAIN rest = 1..(Len(steps) - 1)
                  /\ rest[1].calls = steps[2].calls /\ rest[1].asks = asks /\ rest[1].next = None
                  /\ rest[1].spin = steps[2].spin /\ Head(rest) = rest[1]
                  /\ \A n \in 2..(Len(steps) - 1) : rest[n] = steps[n + 1]
<1> DEFINE L == Len(steps)
           S == {steps[n] : n \in DOMAIN steps}
           s == steps[2]
           first == [s EXCEPT !.asks = asks, !.next = None]
           p == <<first>>
           more == SubSeq(steps, 3, L)
           m == p \o more
<1>1. steps \in Seq(S) /\ L \in Nat \ {0} /\ DOMAIN steps = 1..L
  BY LenProperties, EmptySeq DEF ProgramOK
<1>2. CASE L = 1 BY <1>1, <1>2 DEF Rest
<1>3. CASE L # 1
  <2>1. rest = IF s.calls = {} /\ asks = {} THEN <<>> ELSE m BY <1>3 DEF Rest, Reads
  <2>2. L \in Nat /\ L >= 2 /\ 2 \in DOMAIN steps BY <1>1, <1>3
  <2>3. StepOK(s) BY <2>2 DEF ProgramOK
  <2>4. /\ first.calls = s.calls /\ first.asks = asks /\ first.next = None /\ first.spin = s.spin
    BY <2>3 DEF StepOK
  <2> DEFINE T == S \cup {first}
  <2>5. p \in Seq(T) /\ Len(p) = 1 /\ p[1] = first OBVIOUS
  <2> HIDE DEF first, S, L, p
  <2>6. /\ more \in Seq(T) /\ Len(more) = L - 2 /\ \A i \in 1..(L - 2) : more[i] = steps[i + 2]
    <3>1. \A i \in 3..L : steps[i] \in T BY <1>1, ElementOfSeq DEF L
    <3>2. 3 \in Int /\ L \in Int BY <2>2
    <3>3. /\ more \in Seq(T)
          /\ Len(more) = IF 3 <= L THEN L - 3 + 1 ELSE 0
          /\ \A i \in 1..L - 3 + 1 : more[i] = steps[3 + i - 1]
      BY <3>1, <3>2, SubSeqProperties
    <3> HIDE DEF more
    <3>4. Len(more) = L - 2 BY <2>2, <3>3
    <3>5. \A i \in 1..(L - 2) : more[i] = steps[i + 2]
      <4> SUFFICES ASSUME NEW i \in 1..(L - 2) PROVE more[i] = steps[i + 2] OBVIOUS
      <4>1. i \in 1..L - 3 + 1 /\ 3 + i - 1 = i + 2 BY <2>2
      <4> QED BY <3>3, <4>1
    <3> QED BY <3>3, <3>4, <3>5
  <2> HIDE DEF more, T
  <2>7. /\ m \in Seq(T) /\ Len(m) = Len(p) + Len(more)
        /\ \A i \in 1..Len(p) + Len(more) : m[i] = IF i <= Len(p) THEN p[i] ELSE more[i - Len(p)]
    BY <2>5, <2>6, ConcatProperties, Zenon
  <2> HIDE DEF m
  <2>8. Len(m) = L - 1 /\ DOMAIN m = 1..(L - 1) BY <2>2, <2>5, <2>6, <2>7, LenProperties
  <2>9. m[1] = first BY <2>2, <2>5, <2>6, <2>7
  <2>10. \A n \in 2..(L - 1) : m[n] = steps[n + 1]
    <3> SUFFICES ASSUME NEW n \in 2..(L - 1) PROVE m[n] = steps[n + 1] OBVIOUS
    <3>1. m[n] = more[n - 1] BY <2>2, <2>5, <2>6, <2>7
    <3>2. n - 1 \in 1..(L - 2) /\ (n - 1) + 2 = n + 1 BY <2>2
    <3> QED BY <2>6, <3>1, <3>2
  <2>11. m # <<>> /\ Head(m) = m[1]
    <3>1. m # <<>> BY <2>2, <2>7, <2>8, EmptySeq
    <3> QED BY <2>7, <3>1, HeadTailProperties
  <2>12. L # 1 BY <1>3
  <2> QED BY <1>1, <2>1, <2>4, <2>8, <2>9, <2>10, <2>11, <2>12 DEF L
<1> QED BY <1>1, <1>2, <1>3

\* got are the answers to the reads asks.
Answers(d, asks, got) ==
    /\ DOMAIN got = {q.list : q \in asks}
    /\ \A l \in DOMAIN got : \E a \in asks : a.list = l /\ got[l] = Answer(d, a)

\* What a handler has received are the answers to its reads.
LEMMA GotIs ==
    ASSUME NEW k \in Slots, Answered(k), Handler(db, ui, job, k)
    PROVE  Answers(db, Current(k).asks, Received(k))
<1> USE DEF Answers
<1> DEFINE asks == Current(k).asks
<1>1. CASE job[k].got = None
  <2>1. asks = {} /\ Received(k) = Nothing BY <1>1 DEF Answered, Received
  <2>2. DOMAIN Nothing = {} BY DEF Nothing
  <2> QED BY <2>1, <2>2
<1>2. CASE job[k].got # None
  <2>1. Received(k) = Replies(db, asks) BY <1>2 DEF Handler, Received, Current
  <2>2. \A l \in {q.list : q \in asks} :
            LET a == CHOOSE q \in asks : q.list = l IN a \in asks /\ a.list = l
    OBVIOUS
  <2> HIDE DEF asks
  <2>3. /\ DOMAIN Replies(db, asks) = {q.list : q \in asks}
        /\ \A l \in {q.list : q \in asks} : Replies(db, asks)[l] = Answer(db, CHOOSE q \in asks : q.list = l)
    BY DEF Replies
  <2> QED BY <2>1, <2>2, <2>3 DEF asks
<1> QED BY <1>1, <1>2

\* A page that promises more has the same use for the steps of its handlers.
LEMMA MoreFits ==
    ASSUME NEW d, NEW u, NEW v, v.page = u.page, v.sel.client = u.sel.client,
           Promised(d, u) \subseteq Promised(d, v), NEW steps, NEW n, StepFits(d, u, steps, n)
    PROVE  StepFits(d, v, steps, n)
<1>1. \A a : Wanted(d, u, a) => Wanted(d, v, a) BY DEF Wanted
<1>2. \A a : Located(d, u, a) => Located(d, v, a) BY DEF Located
<1>3. Followed(u, steps, n) => Followed(v, steps, n) BY DEF Followed
<1> QED BY <1>1, <1>2, <1>3 DEF StepFits

\* The period that the calculations page chooses makes it promise the bill of that period.
LEMMA ChosenFits ==
    ASSUME UiOK(ui), ui.page # "services", NEW got, NEW v, v.page = ui.page,
           v.sel = Preselected(ui.sel, got), NEW d
    PROVE  /\ v.sel.client = ui.sel.client
           /\ Promised(d, ui) \subseteq Promised(d, v)
           /\ ui.page = "calculations" => Bill(v.sel) \subseteq Promised(d, v)
           /\ \A q \in Promised(d, v) :
                  \/ q \in Promised(d, ui)
                  \/ q \in Bill(v.sel) /\ ui.page = "calculations" /\ "periods" \in DOMAIN got
<1>1. CASE v.sel = ui.sel
  <2>1. Promised(d, v) = Promised(d, ui) BY <1>1 DEF Promised
  <2>2. ui.page = "calculations" => Bill(v.sel) \subseteq Promised(d, v) BY DEF Promised
  <2> QED BY <1>1, <2>1, <2>2
<1>2. CASE v.sel # ui.sel
  <2>1. ui.page = "calculations" /\ "periods" \in DOMAIN got /\ ui.sel.period = None
    BY <1>2 DEF Preselected, On
  <2>2. v.sel.client = ui.sel.client BY <1>2, <2>1 DEF Preselected, UiOK, SelOK
  <2>3. Bill(ui.sel) = {} BY <2>1 DEF Bill
  <2>4. Promised(d, v) = Promised(d, ui) \cup Bill(v.sel) BY <2>1, <2>2, <2>3 DEF Promised
  <2> QED BY <2>1, <2>2, <2>4
<1> QED BY <1>1, <1>2

\* What the second step of a handler reads, as the answers to the first work it out.
LEMMA NextReads ==
    ASSUME NEW d, Resolves(d), NEW v, v.page \in Pages, v.page # "services",
           v.page = "calculations" => Bill(v.sel) \subseteq Promised(d, v),
           NEW steps, \A n \in DOMAIN steps : StepFits(d, v, steps, n), {1, 2} \subseteq DOMAIN steps,
           NEW got, Answers(d, steps[1].asks, got),
           NEW asks, asks = Reads(steps, got, v.sel)
    PROVE  /\ steps[2].calls = {}
           /\ \A a \in asks : /\ Wanted(d, v, a) \/ Located(d, v, a)
                              /\ v.page = "calculations" => a.list # "periods"
           /\ steps[2].next # None => \A a \in asks : a.list = steps[2].next
           /\ asks = {} => \/ steps[2].next = "options" /\ Len(steps) = 2
                           \/ /\ steps[2].next = "calculations" /\ v.page = "calculations" /\ Bill(v.sel) = {}
                              /\ Len(steps) = 3 /\ steps[3].next = "options"
<1> DEFINE s == steps[2]
<1>1. /\ s.calls = {} /\ \A a \in s.asks : Wanted(d, v, a)
      /\ s.next = None => s.asks # {}
      /\ s.next # None => s.asks = {} /\ Followed(v, steps, 2)
      /\ v.page = "calculations" => \A a \in s.asks : a.list # "periods"
  <2>1. StepFits(d, v, steps, 2) BY DEF StepFits
  <2> QED BY <2>1 DEF StepFits
<1>2. CASE s.next = None BY <1>1, <1>2 DEF Reads
<1>3. CASE s.next # None
  <2>1. CASE v.page = "detail" /\ s.next = "subscriptions" /\ LocationsOfClient(v.sel.client) \in steps[1].asks
    <3> DEFINE c == v.sel.client
               q == LocationsOfClient(c)
    <3>1. q.list = "locations" /\ q.table = "locations" /\ q.by = "client" /\ q.of = c
      BY DEF LocationsOfClient, Query
    <3>2. q \in Promised(d, v) BY <2>1 DEF Promised, DetailQueries
    <3> HIDE DEF q
    <3>3. "locations" \in DOMAIN got BY <2>1, <3>1 DEF q, Answers
    <3>4. PICK a \in steps[1].asks : a.list = "locations" /\ got["locations"] = Answer(d, a)
      BY <3>3 DEF Answers
    <3>5. Wanted(d, v, a) \/ Located(d, v, a)
      <4>1. StepFits(d, v, steps, 1) OBVIOUS
      <4> QED BY <4>1 DEF StepFits
    <3>6. Answer(d, a) = Answer(d, q) BY <3>1, <3>2, <3>4, <3>5, OneAnswer
    <3>7. DOMAIN Answer(d, q) = LocationsOf(d, c)
      <4>1. {i \in LiveIds(d, "locations") : Selects(d, q, i)} = LocationsOf(d, c)
        BY <3>1 DEF Selects, ClientOf, LocationsOf
      <4> QED BY <3>1, <4>1 DEF Answer, Rows
    <3>8. asks = {Query("subscriptions", "subscriptions", "locations", LocationsOf(d, c))}
      BY <1>3, <2>1, <3>4, <3>6, <3>7 DEF Asked, Reads
    <3>9. \A b \in asks : Located(d, v, b) BY <2>1, <3>8 DEF Located
    <3>10. \A b \in asks : b.list = "subscriptions" BY <3>8 DEF Query
    <3> QED BY <1>1, <2>1, <3>8, <3>9, <3>10
  <2>2. CASE s.next = "options" /\ Len(steps) = 2
    <3>1. asks = Unbilled(v.sel, got["calculations"]) BY <1>3, <2>2 DEF Asked, Reads
    <3>2. \A a \in asks : a.list = "options" /\ a.by = "unbilled" /\ ~a.merge BY <3>1 DEF Unbilled, Query
    <3> QED BY <1>1, <2>2, <3>2 DEF Wanted
  <2>3. CASE s.next = "calculations" /\ v.page = "calculations" /\ Len(steps) = 3 /\ steps[3].next = "options"
    <3>1. asks = Bill(v.sel) BY <1>3, <2>3 DEF Asked, Reads
    <3>2. \A a \in asks : a.list = "calculations" /\ ~a.merge BY <3>1 DEF Bill, Query
    <3>3. asks \subseteq Promised(d, v) BY <2>3, <3>1
    <3> QED BY <1>1, <2>3, <3>1, <3>2, <3>3 DEF Wanted
  <2>4. Followed(v, steps, 2) BY <1>1, <1>3
  <2>5. 2 - 1 = 1 /\ 2 + 1 = 3 OBVIOUS
  <2> QED BY <2>1, <2>2, <2>3, <2>4, <2>5 DEF Followed
<1> QED BY <1>2, <1>3

\* All steps of a handler fit.
AllFit(d, u, steps) == \A n \in DOMAIN steps : StepFits(d, u, steps, n)

\* rest still fills the lists that steps would have filled.
StillFills(v, steps, rest) ==
    \A q : /\ Ahead(steps, q) /\ q.list # "options"
           /\ v.page = "calculations" /\ q.list = "calculations" => Bill(v.sel) # {}
           => rest # <<>> /\ \E n \in DOMAIN rest : q.list \in Fills(rest[n])

\* What is left of a handler fits, and fills what it would have filled.
LEMMA RestFits ==
    ASSUME NEW d, Resolves(d), NEW v, v.page \in Pages, v.page # "services",
           v.page = "calculations" => Bill(v.sel) \subseteq Promised(d, v),
           NEW steps, ProgramOK(steps), AllFit(d, v, steps),
           NEW got, Answers(d, steps[1].asks, got),
           NEW rest, rest = Rest(steps, got, v.sel)
    PROVE  /\ rest # <<>> => /\ rest[1].calls = {}
                             /\ AllFit(d, v, rest)
           /\ StillFills(v, steps, rest)
<1> USE DEF AllFit, StillFills
<1> DEFINE L == Len(steps)
           asks == Reads(steps, got, v.sel)
<1>1. /\ L \in Nat \ {0} /\ DOMAIN steps = 1..L
      /\ L = 1 => rest = <<>>
      /\ rest = <<>> /\ L # 1 => steps[2].calls = {} /\ asks = {}
      /\ rest # <<>> =>
             /\ L # 1 /\ (steps[2].calls # {} \/ asks # {})
             /\ Len(rest) = L - 1 /\ DOMAIN rest = 1..(L - 1)
             /\ rest[1].calls = steps[2].calls /\ rest[1].asks = asks /\ rest[1].next = None
             /\ rest[1].spin = steps[2].spin /\ Head(rest) = rest[1]
             /\ \A n \in 2..(L - 1) : rest[n] = steps[n + 1]
  <2>1. asks = Reads(steps, got, v.sel) OBVIOUS
  <2> HIDE DEF asks
  <2> QED BY <2>1, RestIs
<1>2. CASE L = 1
  <2>1. DOMAIN steps = {1} BY <1>1, <1>2
  <2> QED BY <1>1, <1>2, <2>1 DEF Ahead
<1>3. CASE L # 1
  <2>1. {1, 2} \subseteq DOMAIN steps
    <3> HIDE DEF L
    <3> QED BY <1>1, <1>3
  <2>2. /\ steps[2].calls = {}
        /\ \A a \in asks : /\ Wanted(d, v, a) \/ Located(d, v, a)
                           /\ v.page = "calculations" => a.list # "periods"
        /\ steps[2].next # None => \A a \in asks : a.list = steps[2].next
        /\ asks = {} => \/ steps[2].next = "options" /\ L = 2
                        \/ /\ steps[2].next = "calculations" /\ v.page = "calculations" /\ Bill(v.sel) = {}
                           /\ L = 3 /\ steps[3].next = "options"
    BY <2>1, NextReads
  <2>3. steps[2].next = None => asks = steps[2].asks BY DEF Reads
  <2>4. "options" # None BY WebPagesAssumption DEF Lists
  <2> HIDE DEF L, asks
  <2>5. ASSUME rest # <<>> PROVE rest[1].calls = {} /\ \A n \in DOMAIN rest : StepFits(d, v, rest, n)
    <3>1. StepFits(d, v, rest, 1) BY <1>1, <2>2, <2>5 DEF StepFits
    <3>2. ASSUME NEW n \in 2..(L - 1) PROVE StepFits(d, v, rest, n)
      <4>1. n + 1 \in DOMAIN steps /\ n + 1 # 1 /\ n # 1 /\ n - 1 \in 1..(L - 1) BY <1>1, <3>2
      <4>2. StepFits(d, v, steps, n + 1) BY <4>1
      <4>3. rest[n] = steps[n + 1] BY <1>1, <2>5
      <4>4. ASSUME NEW a \in steps[n].asks PROVE a \in rest[n - 1].asks
        <5>1. CASE n = 2
          <6>1. StepFits(d, v, steps, 2) BY <2>1
          <6>2. steps[2].next = None BY <4>4, <5>1, <6>1 DEF StepFits
          <6> QED BY <1>1, <2>3, <2>5, <4>4, <5>1, <6>2
        <5>2. CASE n # 2
          <6>1. n - 1 \in 2..(L - 1) /\ (n - 1) + 1 = n BY <1>1, <5>2
          <6>2. rest[n - 1] = steps[n] BY <1>1, <2>5, <6>1
          <6> QED BY <4>4, <6>2
        <5> QED BY <5>1, <5>2
      <4>5. Followed(v, steps, n + 1) => Followed(v, rest, n)
        <5>1. (n + 1) - 1 = n /\ (n + 1 = L <=> n = L - 1) /\ (L = (n + 1) + 1 <=> L - 1 = n + 1)
          BY <1>1
        <5>2. L = (n + 1) + 1 => rest[n + 1] = steps[(n + 1) + 1]
          <6> SUFFICES ASSUME L = (n + 1) + 1 PROVE rest[n + 1] = steps[(n + 1) + 1] OBVIOUS
          <6>1. n + 1 \in 2..(L - 1) BY <1>1
          <6> QED BY <1>1, <2>5, <6>1
        <5> QED BY <1>1, <2>5, <4>3, <4>4, <5>1, <5>2 DEF Followed, L
      <4> QED BY <4>1, <4>2, <4>3, <4>5 DEF StepFits
    <3>3. \A n \in DOMAIN rest : n = 1 \/ n \in 2..(L - 1) BY <1>1, <2>5
    <3> QED BY <1>1, <2>2, <2>5, <3>1, <3>2, <3>3
  <2>6. ASSUME NEW q, Ahead(steps, q), q.list # "options",
               v.page = "calculations" /\ q.list = "calculations" => Bill(v.sel) # {}
        PROVE  rest # <<>> /\ \E n \in DOMAIN rest : q.list \in Fills(rest[n])
    <3>1. PICK n \in DOMAIN steps : n # 1 /\ q.list \in Fills(steps[n]) BY <2>6 DEF Ahead
    <3>2. asks # {}
      <4> SUFFICES ASSUME asks = {} PROVE FALSE OBVIOUS
      <4>1. CASE steps[2].next = "options" /\ L = 2
        <5>1. n = 2 BY <1>1, <3>1, <4>1
        <5> QED BY <2>4, <2>6, <3>1, <4>1, <5>1 DEF Fills
      <4>2. CASE /\ steps[2].next = "calculations" /\ v.page = "calculations" /\ Bill(v.sel) = {}
                 /\ L = 3 /\ steps[3].next = "options"
        <5>1. n = 2 \/ n = 3 BY <1>1, <3>1, <4>2
        <5>2. "calculations" # None BY WebPagesAssumption DEF Lists
        <5> QED BY <2>4, <2>6, <3>1, <4>2, <5>1, <5>2 DEF Fills
      <4> QED BY <2>2, <4>1, <4>2
    <3>3. rest # <<>> BY <1>1, <1>3, <3>2
    <3>4. CASE n = 2
      <4>1. q.list \in {a.list : a \in asks}
        <5>1. CASE steps[2].next = None BY <2>3, <3>1, <3>4, <5>1 DEF Fills
        <5>2. CASE steps[2].next # None
          <6>1. q.list = steps[2].next BY <3>1, <3>4, <5>2 DEF Fills
          <6> QED BY <2>2, <3>2, <5>2, <6>1
        <5> QED BY <5>1, <5>2
      <4>2. 1 \in DOMAIN rest /\ rest[1].next = None /\ rest[1].asks = asks BY <1>1, <3>3
      <4> QED BY <3>3, <4>1, <4>2 DEF Fills
    <3>5. CASE n # 2
      <4>1. n - 1 \in 2..(L - 1) /\ (n - 1) + 1 = n BY <1>1, <3>1, <3>5
      <4>2. n - 1 \in DOMAIN rest /\ rest[n - 1] = steps[n] BY <1>1, <3>3, <4>1
      <4> QED BY <3>1, <3>3, <4>2
    <3> QED BY <3>4, <3>5
  <2> QED BY <2>5, <2>6
<1> QED BY <1>2, <1>3

\* The lists new are the lists old with the answers got, and maybe with other options.
Brought(old, new, asks, got) ==
    \A l \in Lists \ {"options"} :
        /\ l \notin DOMAIN got => new[l] = old[l]
        /\ l \in DOMAIN got /\ (\A q \in asks : ~q.merge) => new[l] = got[l]

\* What the continuation of a handler does to its page.
LEMMA DeliverIs ==
    ASSUME PageInv, NEW k \in Slots, Deliver(k), job[k].here, NEW got, got = Received(k)
    PROVE  /\ Answered(k) /\ Waiting(k) /\ UNCHANGED <<db, trouble>>
           /\ ui'.page = ui.page /\ ui'.sel = Preselected(ui.sel, got)
           /\ ui'.dlg = None \/ ui'.dlg = ui.dlg
           /\ Brought(ui.list, ui'.list, job[k].steps[1].asks, got)
           /\ LET rest == Rest(job[k].steps, got, ui'.sel)
              IN  /\ job' = [job EXCEPT ![k] = IF rest = <<>> THEN NoJob
                                               ELSE [job[k] EXCEPT !.steps = rest, !.got = None]]
                  /\ rest # <<>> /\ Head(rest).spin => ui'.busy
<1> DEFINE j == job[k]
           sel == Preselected(ui.sel, got)
           rest == Rest(j.steps, got, sel)
           s == Head(j.steps)
           lists == Arrived(ui.list, s.asks, got)
           emptied == IF NoOptions(j.steps, sel) THEN [lists EXCEPT !["options"] = Nothing]
                      ELSE lists
           dlg == IF ui.dlg # None /\ ui.dlg.name = s.close THEN None ELSE ui.dlg
           on == (ui.busy /\ s.fin # "always") \/ (rest # <<>> /\ Head(rest).spin)
<1>1. Waiting(k) /\ Answered(k) /\ UNCHANGED <<db, trouble>> BY DEF Deliver
<1>2. s = j.steps[1] BY <1>1, CurrentOK DEF Current
<1>3. ui' = [ui EXCEPT !.list = emptied, !.dlg = dlg, !.busy = on, !.sel = sel]
  BY DEF Deliver, Continued, PageInv, UiOK
<1>4. job' = [job EXCEPT ![k] = IF rest = <<>> THEN NoJob ELSE [j EXCEPT !.steps = rest, !.got = None]]
  BY DEF Deliver
<1>5. \A l \in Lists \ {"options"} :
          /\ l \notin DOMAIN got => emptied[l] = ui.list[l]
          /\ l \in DOMAIN got /\ (\A q \in j.steps[1].asks : ~q.merge) => emptied[l] = got[l]
  <2>1. /\ DOMAIN lists = Lists
        /\ \A l \in Lists :
              lists[l] = IF l \notin DOMAIN got THEN ui.list[l]
                         ELSE IF \E q \in s.asks : q.list = l /\ q.merge THEN Merged(got[l], ui.list[l])
                         ELSE got[l]
    BY DEF Arrived
  <2> HIDE DEF lists
  <2>2. \A l \in Lists \ {"options"} : emptied[l] = lists[l] BY <2>1
  <2> HIDE DEF emptied
  <2> QED BY <1>2, <2>1, <2>2
<1>6. dlg = None \/ dlg = ui.dlg OBVIOUS
<1>7. rest # <<>> /\ Head(rest).spin => on OBVIOUS
<1> HIDE DEF emptied, dlg, on, sel
<1>8. ui'.page = ui.page /\ ui'.sel = sel /\ ui'.list = emptied /\ ui'.dlg = dlg /\ ui'.busy = on
  BY <1>3 DEF PageInv, UiOK
<1> QED BY <1>1, <1>4, <1>5, <1>6, <1>7, <1>8 DEF sel, Brought

\* An answer that arrives is shown, and what it does not bring stays shown or coming.
LEMMA DeliverShows ==
    ASSUME PageInv, RestInv, Calm, ~On("services"), NEW k \in Slots, Deliver(k)
    PROVE  RestInv'
<1> DEFINE steps == job[k].steps
           got == Received(k)
           v == ui'
           rest == Rest(steps, got, v.sel)
           j == [job[k] EXCEPT !.steps = rest, !.got = None]
<1>1. Waiting(k) /\ Answered(k) BY DEF Deliver
<1>2. /\ Keyed(db) /\ PageFits(db, ui, job)
      /\ \A q \in Promised(db, ui) : Fresh(db, ui, q) \/ Coming(job, q)
      /\ \A i \in Here(job) : Handler(db, ui, job, i)
      /\ ui.page \in Pages /\ ui.page # "services" /\ k \in Here(job)
      /\ JobOK(job[k]) /\ ProgramOK(steps) /\ StepFits(db, ui, steps, 1)
      /\ Len(steps) \in Nat /\ DOMAIN steps = 1..Len(steps) /\ 1 \in DOMAIN steps
  BY <1>1, WaitingFits
<1>3. Handler(db, ui, job, k) BY <1>2
<1>4. Answers(db, steps[1].asks, got) BY <1>1, <1>3, GotIs DEF Current
<1>5. \A a \in steps[1].asks : (Wanted(db, ui, a) \/ Located(db, ui, a)) /\ ~a.merge
  <2> SUFFICES ASSUME NEW a \in steps[1].asks PROVE (Wanted(db, ui, a) \/ Located(db, ui, a)) /\ ~a.merge
    OBVIOUS
  <2>1. Wanted(db, ui, a) \/ Located(db, ui, a) BY <1>2 DEF StepFits
  <2>2. ui.page = "detail" => Live(db, "clients", ui.sel.client) BY <1>2 DEF PageFits
  <2> QED BY <1>2, <2>1, <2>2, AsksAnswerable
<1>6. /\ UNCHANGED <<db, trouble>>
      /\ v.page = ui.page /\ v.sel = Preselected(ui.sel, got)
      /\ v.dlg = None \/ v.dlg = ui.dlg
      /\ \A l \in Lists \ {"options"} :
             /\ l \notin DOMAIN got => v.list[l] = ui.list[l]
             /\ l \in DOMAIN got => v.list[l] = got[l]
      /\ job' = [job EXCEPT ![k] = IF rest = <<>> THEN NoJob ELSE j]
      /\ rest # <<>> /\ Head(rest).spin => v.busy
  <2>1. job[k].here BY <1>3 DEF Handler
  <2> DEFINE g == Received(k)
  <2>2. g = Received(k) OBVIOUS
  <2> HIDE DEF g
  <2>3. /\ UNCHANGED <<db, trouble>>
        /\ ui'.page = ui.page /\ ui'.sel = Preselected(ui.sel, g)
        /\ ui'.dlg = None \/ ui'.dlg = ui.dlg
        /\ \A l \in Lists \ {"options"} :
               /\ l \notin DOMAIN g => ui'.list[l] = ui.list[l]
               /\ l \in DOMAIN g => ui'.list[l] = g[l]
    <3>1. \A q \in job[k].steps[1].asks : ~q.merge BY <1>5
    <3>2. /\ UNCHANGED <<db, trouble>>
          /\ ui'.page = ui.page /\ ui'.sel = Preselected(ui.sel, g)
          /\ ui'.dlg = None \/ ui'.dlg = ui.dlg
      BY <2>1, <2>2, DeliverIs
    <3>3. Brought(ui.list, ui'.list, job[k].steps[1].asks, g) BY <2>1, <2>2, DeliverIs
    <3> QED BY <3>1, <3>2, <3>3 DEF Brought
  <2>4. LET r == Rest(job[k].steps, g, ui'.sel)
        IN  /\ job' = [job EXCEPT ![k] = IF r = <<>> THEN NoJob ELSE [job[k] EXCEPT !.steps = r, !.got = None]]
            /\ r # <<>> /\ Head(r).spin => ui'.busy
    BY <2>1, <2>2, DeliverIs
  <2> QED BY <2>3, <2>4 DEF g
<1>7. rest # <<>> => j.steps = rest /\ j.got = None /\ j.here = job[k].here BY <1>2 DEF JobOK
<1> HIDE DEF got, v, rest, j
<1>8. /\ v.sel.client = ui.sel.client
      /\ Promised(db, ui) \subseteq Promised(db, v)
      /\ v.page = "calculations" => Bill(v.sel) \subseteq Promised(db, v)
      /\ \A q \in Promised(db, v) :
             \/ q \in Promised(db, ui)
             \/ q \in Bill(v.sel) /\ v.page = "calculations" /\ "periods" \in DOMAIN got
  BY <1>2, <1>6, ChosenFits DEF PageInv
<1>9. \A p, n : StepFits(db, ui, p, n) => StepFits(db, v, p, n) BY <1>6, <1>8, MoreFits
<1>10. AllFit(db, v, steps) BY <1>3, <1>9 DEF Handler, AllFit
<1>11. /\ rest # <<>> => /\ rest[1].calls = {}
                         /\ AllFit(db, v, rest)
       /\ StillFills(v, steps, rest)
  <2>1. rest = Rest(steps, got, v.sel) BY DEF rest
  <2>2. Resolves(db) BY DEF PageInv
  <2>3. v.page \in Pages /\ v.page # "services" /\ ProgramOK(steps) BY <1>2, <1>6
  <2>4. v.page = "calculations" => Bill(v.sel) \subseteq Promised(db, v) BY <1>8
  <2> HIDE DEF steps
  <2> QED BY ONLY <1>4, <1>10, <2>1, <2>2, <2>3, <2>4, RestFits, ZenonT(60)
<1>12. /\ Here(job') = IF rest = <<>> THEN Here(job) \ {k} ELSE Here(job)
       /\ rest # <<>> => job'[k] = j
       /\ \A i \in Slots : i # k => job'[i] = job[i]
  <2>1. rest # <<>> => j # NoJob BY <1>7 DEF NoJob
  <2>2. job'[k] = (IF rest = <<>> THEN NoJob ELSE j) /\ \A i \in Slots : i # k => job'[i] = job[i]
    BY <1>6 DEF PageInv
  <2> QED BY <1>2, <2>1, <2>2 DEF Here
<1>13. ASSUME NEW i \in Here(job') PROVE Handler(db, v, job', i)
  <2>1. CASE i = k
    <3>1. rest # <<>> /\ job'[i] = j BY <1>12, <1>13, <2>1
    <3> QED BY <1>3, <1>7, <1>11, <3>1 DEF Handler, AllFit
  <2>2. CASE i # k
    <3>1. i \in Here(job) /\ job'[i] = job[i] BY <1>12, <1>13, <2>2 DEF Here
    <3>2. Handler(db, ui, job, i) BY <1>2, <3>1
    <3>3. job[i].steps[1].calls = {} BY <1>2, <2>2, <3>2 DEF Handler
    <3> QED BY <1>9, <3>1, <3>2, <3>3 DEF Handler
  <2> QED BY <2>1, <2>2
<1>14. \A q : (\E i \in Here(job) : i # k /\ \E n \in DOMAIN job[i].steps : q.list \in Fills(job[i].steps[n]))
              => Coming(job', q)
  <2>1. \A i \in Here(job) : i # k => i \in Here(job') /\ job'[i] = job[i] BY <1>12 DEF Here
  <2> QED BY <2>1 DEF Coming
<1>15. \A q : rest # <<>> /\ (\E n \in DOMAIN rest : q.list \in Fills(rest[n])) => Coming(job', q)
  BY <1>2, <1>7, <1>12 DEF Coming
<1>16. ASSUME NEW q \in Promised(db, v) PROVE Fresh(db, v, q) \/ Coming(job', q)
  <2>1. q.list \in Lists /\ q.list # "options" BY <1>2, <1>6, PromisedKinds
  <2>2. ~(q \in Promised(db, ui)) => Ahead(steps, q) /\ Bill(v.sel) # {}
    <3> SUFFICES ASSUME ~(q \in Promised(db, ui)) PROVE Ahead(steps, q) /\ Bill(v.sel) # {} OBVIOUS
    <3>1. q \in Bill(v.sel) /\ v.page = "calculations" /\ "periods" \in DOMAIN got BY <1>8
    <3>2. q.list = "calculations" BY <3>1 DEF Bill, Query
    <3>3. \E a \in steps[1].asks : a.list = "periods" BY <1>4, <3>1 DEF Answers
    <3>4. Len(steps) = 3 /\ steps[2].next = "calculations" BY <1>2, <1>6, <3>1, <3>3 DEF StepFits
    <3>5. "calculations" # None BY WebPagesAssumption DEF Lists
    <3>6. 2 \in DOMAIN steps
      <4> HIDE DEF steps
      <4> QED BY <1>2, <3>4
    <3> QED BY <3>1, <3>2, <3>4, <3>5, <3>6 DEF Ahead, Fills
  <2>3. v.page = "calculations" /\ q.list = "calculations" => Bill(v.sel) # {}
    <3> SUFFICES ASSUME v.page = "calculations", q.list = "calculations" PROVE q \in Bill(v.sel) OBVIOUS
    <3>1. All("periods").list = "periods" /\ All("clients").list = "clients" BY DEF All, Query
    <3>2. \A c : LocationsOfClient(c).list = "locations" BY DEF LocationsOfClient, Query
    <3> QED BY <3>1, <3>2 DEF Promised
  <2>4. Ahead(steps, q) => Coming(job', q) BY <1>11, <1>15, <2>1, <2>3 DEF StillFills
  <2>5. CASE q \notin Promised(db, ui) BY <2>2, <2>4, <2>5
  <2>6. CASE q \in Promised(db, ui) /\ q.list \in DOMAIN got
    <3>1. PICK a \in steps[1].asks : a.list = q.list /\ got[q.list] = Answer(db, a)
      BY <1>4, <2>6 DEF Answers
    <3>2. Answer(db, a) = Answer(db, q) BY <1>2, <1>5, <2>6, <3>1, OneAnswer DEF PageInv
    <3> QED BY <1>6, <2>1, <2>6, <3>1, <3>2 DEF Fresh
  <2>7. CASE q \in Promised(db, ui) /\ q.list \notin DOMAIN got
    <3>1. CASE Fresh(db, ui, q) BY <1>6, <2>1, <2>7, <3>1 DEF Fresh
    <3>2. CASE Coming(job, q)
      <4>1. PICK i \in Here(job) : \E n \in DOMAIN job[i].steps : q.list \in Fills(job[i].steps[n])
        BY <3>2 DEF Coming
      <4>2. CASE i # k BY <1>14, <4>1, <4>2
      <4>3. CASE i = k
        <5>1. PICK n \in DOMAIN steps : q.list \in Fills(steps[n]) BY <4>1, <4>3
        <5>2. n # 1
          <6> SUFFICES ASSUME n = 1 PROVE FALSE OBVIOUS
          <6>1. steps[1].next = None BY <1>2 DEF StepFits
          <6> QED BY <1>4, <2>7, <5>1, <6>1 DEF Fills, Answers
        <5> QED BY <2>4, <5>1, <5>2 DEF Ahead
      <4> QED BY <4>2, <4>3
    <3> QED BY <1>2, <2>7, <3>1, <3>2
  <2> QED BY <2>5, <2>6, <2>7
<1>17. PageFits(db, v, job')
  <2>1. ASSUME v.page = "clients", NEW i \in Here(job')
        PROVE  /\ Here(job') = {i}
               /\ \/ v.busy /\ Len(job'[i].steps) = 1
                  \/ v.dlg # None /\ Len(job'[i].steps) = 2 /\ job'[i].steps[2].spin
    <3>1. /\ Here(job) = {k}
          /\ Len(steps) = 1 \/ (Len(steps) = 2 /\ steps[2].spin)
      BY <1>2, <1>6, <2>1 DEF PageFits
    <3>2. i = k /\ rest # <<>> BY <1>12, <2>1, <3>1
    <3>3. Len(steps) # 1 /\ Len(rest) = Len(steps) - 1 /\ rest[1].spin = steps[2].spin /\ Head(rest) = rest[1]
      <4>1. rest = Rest(steps, got, v.sel) BY DEF rest
      <4> HIDE DEF steps
      <4> DEFINE asks == Reads(steps, got, v.sel)
      <4>2. asks = Reads(steps, got, v.sel) OBVIOUS
      <4> HIDE DEF asks
      <4>3. ProgramOK(steps) BY <1>2
      <4> QED BY ONLY <3>2, <4>1, <4>2, <4>3, RestIs, SMTT(30)
    <3>4. v.busy BY <1>6, <3>1, <3>2, <3>3
    <3>5. Len(rest) = 1 BY <3>1, <3>3
    <3> QED BY <1>7, <1>12, <3>1, <3>2, <3>4, <3>5
  <2> QED BY <1>2, <1>6, <1>8, <2>1 DEF PageFits
<1>18. ui' = v BY DEF v
<1> HIDE DEF steps
<1> QED BY <1>2, <1>6, <1>13, <1>16, <1>17, <1>18 DEF RestInv, Plain

-----------------------------------------------------------------------------
(* All steps.                                                              *)

\* No click of the services page, and no dialog that is left, opens another page.
LEMMA ServicesStay ==
    ASSUME PageInv, ServicesPage \/ Cancel
    PROVE  ui'.page = ui.page
<1>1. \A page, programs : Click(page, programs) /\ "page" \in DOMAIN page => ui'.page = page.page
  BY DEF Click
<1>2. \A steps : Submit(steps) => ui'.page = ui.page BY <1>1 DEF Submit, PageInv, UiOK
<1>3. \A dlg, programs : Click([ui EXCEPT !.dlg = dlg], programs) => ui'.page = ui.page
  <2> SUFFICES ASSUME NEW dlg, NEW programs, Click([ui EXCEPT !.dlg = dlg], programs)
               PROVE  ui'.page = ui.page
    OBVIOUS
  <2> DEFINE page == [ui EXCEPT !.dlg = dlg]
  <2>1. "page" \in DOMAIN page /\ page.page = ui.page /\ Click(page, programs) BY DEF PageInv, UiOK
  <2> HIDE DEF page
  <2> QED BY <1>1, <2>1
<1>4. \A dialog : Show(dialog) => ui'.page = ui.page BY <1>3 DEF Show
<1>5. ToggleExpand => ui'.page = ui.page
  <2> SUFFICES ASSUME ToggleExpand PROVE ui'.page = ui.page OBVIOUS
  <2> DEFINE page(s) == [ui EXCEPT !.sel.service = IF @ = s THEN None ELSE s]
  <2>1. PICK s, programs : Click(page(s), programs) BY DEF ToggleExpand
  <2>2. "page" \in DOMAIN page(s) /\ page(s).page = ui.page BY DEF PageInv, UiOK
  <2> HIDE DEF page
  <2> QED BY <1>1, <2>1, <2>2
<1>6. OpenCreateService \/ OpenEditService \/ OpenDeleteService \/ OpenCreateTariff \/ OpenEditTariff
      \/ OpenDeleteTariff => ui'.page = ui.page
  BY <1>4 DEF OpenCreateService, OpenEditService, OpenDeleteService, OpenCreateTariff, OpenEditTariff,
              OpenDeleteTariff
<1>7. SaveService \/ CreateService \/ DeleteService \/ SaveTariff \/ DeleteTariff => ui'.page = ui.page
  BY <1>2 DEF SaveService, CreateService, DeleteService, SaveTariff, DeleteTariff
<1>8. Cancel => ui'.page = ui.page BY <1>3 DEF Cancel
<1> QED BY <1>5, <1>6, <1>7, <1>8 DEF ServicesPage

\* Nor does the network.
LEMMA NetworkStays ==
    ASSUME PageInv, NEW k \in Slots, Network(k)
    PROVE  ui'.page = ui.page
<1>1. \A late : Caught(k, late) => ui'.page = ui.page BY DEF Caught, PageInv, UiOK
<1>2. CASE Execute(k) \/ Reply(k) BY <1>2 DEF Execute, Reply
<1>3. CASE Deliver(k)
  <2>1. CASE ~job[k].here BY <1>3, <2>1 DEF Deliver
  <2>2. CASE job[k].here
    <3> DEFINE got == Received(k)
    <3>1. got = Received(k) OBVIOUS
    <3> HIDE DEF got
    <3> QED BY <1>3, <2>2, <3>1, DeliverIs
  <2> QED BY <2>1, <2>2
<1>4. CASE Refuse(k) \/ Fail(k) BY <1>1, <1>4 DEF Refuse, Fail
<1> QED BY <1>2, <1>3, <1>4 DEF Network

\* What is shown or coming holds initially, and every step keeps it.
THEOREM RestInvariant == Spec => []RestInv
<1>1. Init => RestInv BY InitShows
<1>2. PageInv /\ RestInv /\ [Next]_vars => RestInv'
  <2> SUFFICES ASSUME PageInv, RestInv, [Next]_vars PROVE RestInv' OBVIOUS
  <2>1. trouble \in Nat BY BrowserAssumption DEF PageInv
  <2>2. Keyed(db) BY DEF RestInv
  <2>3. CASE UNCHANGED db /\ (~Calm' \/ On("services")') BY <2>2, <2>3 DEF RestInv
  <2>4. CASE (\E c : Accepted(db, c) /\ db' = Apply(db, c)) /\ (~Calm' \/ On("services")')
    <3>1. PICK c : Accepted(db, c) /\ db' = Apply(db, c) BY <2>4
    <3>2. Keyed(Apply(db, c)) BY <2>2, <3>1, ApplyKeepsKeys DEF PageInv
    <3> QED BY <2>4, <3>1, <3>2 DEF RestInv
  <2>5. CASE User
    <3>1. UNCHANGED db BY <2>5, UserSendsLater
    <3>2. CASE ~Calm' BY <2>3, <3>1, <3>2
    <3>3. CASE Calm' /\ (ServicesPage \/ Cancel) /\ On("services")
      <4>1. On("services")' BY <3>3, ServicesStay DEF On
      <4> QED BY <2>3, <3>1, <4>1
    <3>4. CASE Calm' /\ Cancel /\ ~On("services") BY <3>4, CancelShows
    <3>5. ServicesPage => On("services")
      BY DEF ServicesPage, ToggleExpand, OpenCreateService, OpenEditService, OpenDeleteService, SaveService,
             CreateService, DeleteService, OpenCreateTariff, OpenEditTariff, OpenDeleteTariff, SaveTariff,
             DeleteTariff, InTable, Reachable, InDialog
    <3> QED BY <2>5, <3>2, <3>3, <3>4, <3>5, ClientsPageShows, LocationsPageShows, DetailPageShows,
               SubscriptionsPageShows, PeriodsPageShows, UsersPageShows, BillPageShows, VisitShows DEF User
  <2>6. ASSUME NEW k \in Slots, Network(k) PROVE RestInv'
    <3>1. CASE Fail(k)
      <4>1. UNCHANGED db /\ ~Calm' BY <2>1, <3>1 DEF Fail, Caught, Calm
      <4> QED BY <2>3, <4>1
    <3>2. CASE ~Fail(k)
      <4>1. Calm' => Calm BY <2>1, <2>6, <3>2 DEF Network, Execute, Reply, Deliver, Refuse, Calm
      <4>2. ui'.page = ui.page BY <2>6, NetworkStays
      <4>3. UNCHANGED db \/ \E c : Accepted(db, c) /\ db' = Apply(db, c)
        BY <2>6, <3>2 DEF Network, Execute, Reply, Deliver, Refuse, Caught
      <4>4. CASE ~Calm \/ On("services") BY <2>3, <2>4, <4>1, <4>2, <4>3, <4>4 DEF On
      <4>5. CASE Calm /\ ~On("services")
        BY <2>6, <3>2, <4>5, ExecuteShows, ReplyShows, DeliverShows, RefuseShows DEF Network
      <4> QED BY <4>4, <4>5
    <3> QED BY <3>1, <3>2
  <2>7. CASE Elsewhere(Others)
    <3>1. ~Calm' /\ \E c : Accepted(db, c) /\ db' = Apply(db, c) BY <2>1, <2>7 DEF Elsewhere, Calm
    <3> QED BY <2>4, <3>1
  <2>8. CASE UNCHANGED vars
    BY <2>8 DEF vars, RestInv, Calm, On
  <2> QED BY <2>5, <2>6, <2>7, <2>8 DEF Next
<1> QED BY <1>1, <1>2, PageInvariant, PTL DEF Spec

\* Without trouble and at rest, each page but that of the services shows what the server would
\* answer now.
THEOREM PagesShowServer == Spec => [](On("services") \/ RestShowsServer)
<1>1. RestInv => On("services") \/ RestShowsServer
  <2> SUFFICES ASSUME RestInv, ~On("services"), Calm, AtRest,
                      NEW q \in Promised(db, ui)
               PROVE  ui.list[q.list] = Answer(db, q)
    BY DEF RestShowsServer
  <2>1. Here(job) = {} BY DEF AtRest, Free, Here
  <2> QED BY <2>1, RestKnows DEF Fresh
<1> QED BY <1>1, RestInvariant, PTL
=============================================================================
