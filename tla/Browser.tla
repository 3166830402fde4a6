------------------------------ MODULE Browser -------------------------------
(***************************************************************************)
(* One tab of the web application: the state React keeps for the page that *)
(* is open, and the handlers that are waiting for the server.              *)
(*                                                                         *)
(* A handler is an async function.  It runs to its first await when the    *)
(* user clicks, and goes on when the answer is delivered; in between the   *)
(* user and the other handlers go on as well, because nothing on a page is *)
(* disabled while it saves or loads.  job holds, for each handler under    *)
(* way, the steps between its remaining awaits.  A step fixes its requests *)
(* when it is written down, with the values its closure has captured.      *)
(*                                                                         *)
(* Abstractions: the reads of one Promise.all, and awaited reads with no   *)
(* effect between them, are answered at one moment.  A form is filled in   *)
(* when it is submitted.  Dialogs are left by their buttons.  Lists are    *)
(* ordered by id.  The texts of error and success messages are left out.   *)
(***************************************************************************)
EXTENDS Registry, Sequences, TLC

CONSTANTS
    Slots,      \* handlers that may be under way at once (bound)
    MaxSaves,   \* handlers that write, in a behaviour (bound)
    MaxTrouble, \* what goes wrong or crosswise, in a behaviour (bound)
    PageSize    \* LIMIT, the rows of one page of the clients

ASSUME BrowserAssumption ==
    /\ Slots \subseteq Nat /\ IsFiniteSet(Slots) /\ Slots # {}
    /\ MaxSaves \in Nat /\ MaxTrouble \in Nat
    /\ PageSize \in Nat \ {0}

VARIABLES
    db,     \* the tables of the server
    ui,     \* the page that is open: filters, lists, spinner and dialog
    job,    \* the handlers under way
    trouble,\* clicks before everything was answered, lost requests, saves that the server refuses
            \* halfway, writes of other users
    saves   \* handlers that write have begun so often

vars == <<db, ui, job, trouble, saves>>

\* Nobody else has written, nothing was lost or left half done, and the user has waited for
\* each answer.
Calm == trouble = 0

Lists == {"users", "clients", "matching", "locations", "services", "active", "tariffs",
          "subscriptions", "periods", "calculations", "options"}
Nothing == <<>>
Blank == [l \in Lists |-> Nothing]

\* Filters and URL parameters.
NoFilter == [client |-> None, location |-> None, period |-> None, service |-> None,
             search |-> None, offset |-> 0]

-----------------------------------------------------------------------------
(* Requests for data.  list is where the answer goes; a merged answer      *)
(* replaces only the entries it has.                                       *)

Query(list, table, by, of) == [list |-> list, table |-> table, by |-> by, of |-> of, merge |-> FALSE]
All(table) == Query(table, table, "all", None)
LocationsOfClient(c) == Query("locations", "locations", "client", c)

ClientOf(d, t, i) ==
    CASE t = "locations" -> d.locations[i].client
      [] t = "subscriptions" -> d.locations[d.subscriptions[i].location].client
      [] t = "calculations" -> d.locations[d.subscriptions[i[1]].location].client

Selects(d, q, i) ==
    CASE q.by = "all" -> TRUE
      [] q.by = "one" -> i = q.of
      [] q.by = "client" -> ClientOf(d, q.table, i) = q.of
      [] q.by = "locations" -> d.subscriptions[i].location \in q.of
      [] q.by \in {"search", "matching"} -> q.of.search \in {None, d.clients[i].full_name}
      [] q.by = "bill" -> /\ i[2] = q.of.period
                          /\ q.of.client \in {None, ClientOf(d, "calculations", i)}
                          /\ q.of.location \in {None, d.subscriptions[i[1]].location}
      [] q.by = "unbilled" -> ClientOf(d, "subscriptions", i) = q.of.client /\ i \notin q.of.billed

Rows(d, t, S) == [i \in S |-> d[t][i]]
\* ORDER BY, OFFSET and LIMIT.
Window(S, offset) ==
    {i \in S : Cardinality({j \in S : j < i}) \in offset..(offset + PageSize - 1)}

Answer(d, q) ==
    LET found == {i \in LiveIds(d, q.table) : Selects(d, q, i)}
        ofService(s) == {i \in LiveIds(d, "tariffs") : d.tariffs[i].service = s}
    IN  CASE q.by = "search" -> Rows(d, "clients", Window(found, q.of.offset))
          [] q.by = "history" -> [s \in q.of |-> Rows(d, "tariffs", ofService(s))]
          [] q.by = "inForce" -> [s \in q.of |-> Rows(d, "tariffs", InForce(d, s))]
          [] q.by = "bill" -> [i \in found |-> d.calculations[i] @@ [has_meter |->
                                   d.services[d.subscriptions[i[1]].service].has_meter]]
          [] OTHER -> Rows(d, q.table, found)

\* Only a row asked for by its id can be missing.
Answerable(d, q) == q.by = "one" => Live(d, q.table, q.of)

\* { ...old, ...new }
Merged(new, old) ==
    [i \in DOMAIN new \cup DOMAIN old |-> IF i \in DOMAIN new THEN new[i] ELSE old[i]]

\* The lists after the answers got have arrived for the queries of a step.
Arrived(lists, asks, got) ==
    [l \in Lists |-> IF l \notin DOMAIN got THEN lists[l]
                     ELSE IF \E q \in asks : q.list = l /\ q.merge THEN Merged(got[l], lists[l])
                     ELSE got[l]]

-----------------------------------------------------------------------------
(* Steps of handlers. *)

\* calls: writes the server has not executed; asks: reads; close: the dialog that the
\* continuation closes; spin: loading is switched on when the step begins; fin: when it is
\* switched off; next: what the rest of the handler asks for, worked out from the answers.
Step == [calls |-> {}, asks |-> {}, close |-> None, spin |-> FALSE, fin |-> "never", next |-> None]

Send(calls, dialog) == [Step EXCEPT !.calls = calls, !.close = dialog]
Load(asks) == [Step EXCEPT !.asks = asks]
Then(name) == [Step EXCEPT !.next = name]
Spinning(step) == [step EXCEPT !.spin = TRUE, !.fin = "always"]
Finally(step) == [step EXCEPT !.fin = "always"]
IfFailed(step) == [step EXCEPT !.fin = "failed"]

\* The calculations of the period chosen, and the subscriptions of the client chosen that
\* have none among calcs.
Bill(sel) ==
    IF sel.period = None THEN {}
    ELSE {Query("calculations", "calculations", "bill",
                [period |-> sel.period, client |-> sel.client, location |-> sel.location])}
Unbilled(sel, calcs) ==
    IF sel.client = None THEN {}
    ELSE {Query("options", "subscriptions", "unbilled",
                [client |-> sel.client, billed |-> {i[1] : i \in DOMAIN calcs}])}

\* What a later step asks for once the answers got have arrived with the filters sel.
Asked(name, got, sel) ==
    CASE name = "active" -> {Query("active", "tariffs", "inForce", DOMAIN got["services"])}
      [] name = "subscriptions" ->
            {Query("subscriptions", "subscriptions", "locations", DOMAIN got["locations"])}
      [] name = "calculations" -> Bill(sel)
      [] name = "options" -> Unbilled(sel, got["calculations"])

NewJob(steps) == [steps |-> steps, got |-> None, made |-> None, here |-> TRUE]
\* What a slot holds when no handler has it.
NoJob == [steps |-> <<>>]
Free == {k \in Slots : job[k] = NoJob}

\* The programs take the first slots that are free among jobs.
Begun(jobs, programs) ==
    LET free == {k \in Slots : jobs[k] = NoJob}
        rank(k) == Cardinality({j \in free : j <= k})
    IN  [k \in Slots |-> IF k \in free /\ rank(k) <= Len(programs) THEN NewJob(programs[rank(k)])
                        ELSE jobs[k]]
Begin(programs) ==
    /\ Len(programs) <= Cardinality(Free)
    /\ job' = Begun(job, programs)

AtRest == Free = Slots

\* A click: the page changes to page and the handlers of programs begin.
Click(page, programs) ==
    /\ Begin(programs)
    /\ ui' = [page EXCEPT !.busy = @ \/ \E n \in DOMAIN programs : Head(programs[n]).spin]
    /\ trouble' = trouble + IF AtRest THEN 0 ELSE 1
    /\ trouble' <= MaxTrouble
    /\ saves' = saves + Cardinality({n \in DOMAIN programs : Head(programs[n]).calls # {}})
    /\ saves' <= MaxSaves
    /\ UNCHANGED db

On(page) == ui.page = page
\* The dialog that is open and the row it was opened for, as it was then.
Dialog(name, id, row) == [name |-> name, id |-> id, row |-> row]
\* A dialog covers the page it belongs to.
Reachable(page) == On(page) /\ ui.dlg = None
\* The table is only there when the page is not loading.
InTable(page) == Reachable(page) /\ ~ui.busy
InDialog(page, name) == On(page) /\ ui.dlg # None /\ ui.dlg.name = name

Show(dialog) == Click([ui EXCEPT !.dlg = dialog], <<>>)
Submit(steps) == Click(ui, <<steps>>)

\* The × and the Cancel button of every dialog.
Cancel ==
    /\ ui.dlg # None
    /\ Click([ui EXCEPT !.dlg = None], <<>>)

-----------------------------------------------------------------------------
(* The network. *)

Current(k) == job[k].steps[1]
Waiting(k) == job[k] # NoJob

\* The id of a row the handler has just created takes the place of None in its next call.
Filled(call, made) ==
    IF call.table = "tariffs" /\ call.op = "insert" /\ call.row.service = None
    THEN [call EXCEPT !.row.service = made] ELSE call

\* The server executes a write.
Execute(k) ==
    /\ Waiting(k)
    /\ \E call \in Current(k).calls :
        LET c == Filled(call, job[k].made)
        IN  /\ Accepted(db, c)
            /\ db' = Apply(db, c)
            /\ job' = [job EXCEPT ![k].steps[1].calls = @ \ {call},
                                  ![k].made = IF c.op = "insert" THEN NextId(db, c.table, c.row) ELSE @]
    /\ UNCHANGED <<ui, trouble, saves>>

\* The server answers the reads of a step.
Reply(k) ==
    /\ Waiting(k)
    /\ Current(k).asks # {} /\ job[k].got = None
    /\ \A q \in Current(k).asks : Answerable(db, q)
    /\ LET asks == Current(k).asks
       IN  job' = [job EXCEPT ![k].got =
                      [l \in {q.list : q \in asks} |-> Answer(db, CHOOSE q \in asks : q.list = l)]]
    /\ UNCHANGED <<db, ui, trouble, saves>>

Answered(k) == Current(k).calls = {} /\ (Current(k).asks # {} => job[k].got # None)
Received(k) == IF job[k].got = None THEN Nothing ELSE job[k].got

\* What the continuation of step s does to the page.
Continued(s, got) ==
    [ui EXCEPT !.list = Arrived(@, s.asks, got),
               !.dlg = IF @ # None /\ @.name = s.close THEN None ELSE @,
               !.busy = @ /\ s.fin # "always"]

\* The rest of a handler whose step has ended: a step that asks for nothing is over at once.
Rest(steps, got, sel) ==
    IF Len(steps) = 1 THEN <<>>
    ELSE LET s == steps[2]
             asks == IF s.next = None THEN s.asks ELSE Asked(s.next, got, sel)
         IN  IF s.calls = {} /\ asks = {} THEN <<>>
             ELSE <<[s EXCEPT !.asks = asks, !.next = None]>> \o SubSeq(steps, 3, Len(steps))

\* Without a period in its URL the calculations page chooses the latest open one, or the latest.
Latest(periods, S) == CHOOSE p \in S : \A q \in S : periods[q].month <= periods[p].month
ChosenPeriod(periods) ==
    LET open == {p \in DOMAIN periods : periods[p].open}
    IN  IF DOMAIN periods = {} THEN None
        ELSE Latest(periods, IF open # {} THEN open ELSE DOMAIN periods)
Preselected(sel, got) ==
    IF On("calculations") /\ "periods" \in DOMAIN got /\ sel.period = None
    THEN [sel EXCEPT !.period = ChosenPeriod(got["periods"])] ELSE sel

\* The calculations page empties the options when no client is chosen.
NoOptions(steps, sel) == Len(steps) = 2 /\ steps[2].next = "options" /\ sel.client = None

\* The continuation runs; it changes the page only if that is still open.
Deliver(k) ==
    /\ Waiting(k)
    /\ Answered(k)
    /\ LET j == job[k]
           got == Received(k)
           sel == IF j.here THEN Preselected(ui.sel, got) ELSE ui.sel
           rest == Rest(j.steps, got, sel)
           page == Continued(Head(j.steps), got)
       IN  /\ job' = [job EXCEPT ![k] = IF rest = <<>> THEN NoJob
                                        ELSE [j EXCEPT !.steps = rest, !.got = None]]
           /\ ui' = IF ~j.here THEN ui
                    ELSE [page EXCEPT
                            !.sel = sel,
                            !.busy = @ \/ (rest # <<>> /\ Head(rest).spin),
                            !.list = IF NoOptions(j.steps, sel)
                                     THEN [@ EXCEPT !["options"] = Nothing] ELSE @]
    /\ UNCHANGED <<db, trouble, saves>>

\* A handler ends in its catch and its finally.  The calls late of the same step, which the
\* server has not executed by then, are executed after that.
Caught(k, late) ==
    /\ job' = [job EXCEPT ![k] = IF late = {} THEN NoJob
                                 ELSE [NewJob(<<Send(late, None)>>)
                                          EXCEPT !.here = FALSE, !.made = job[k].made]]
    /\ ui' = [ui EXCEPT !.busy = @ /\ ~(job[k].here /\ Current(k).fin # "never")]
    /\ UNCHANGED <<db, saves>>

\* The server refuses a write, or the row of a read is not there.  If an earlier request of the
\* same save has created a row, the save ends halfway.
Refuse(k) ==
    /\ Waiting(k)
    /\ \/ /\ \E call \in Current(k).calls :
                 ~Accepted(db, Filled(call, job[k].made)) /\ Caught(k, Current(k).calls \ {call})
          /\ trouble' = trouble + IF job[k].made = None THEN 0 ELSE 1
       \/ /\ job[k].got = None
          /\ \E q \in Current(k).asks : ~Answerable(db, q)
          /\ Caught(k, {})
          /\ UNCHANGED trouble

\* A request or its answer is lost.
Fail(k) ==
    /\ Waiting(k)
    /\ trouble < MaxTrouble
    /\ trouble' = trouble + 1
    /\ \E late \in SUBSET Current(k).calls : Caught(k, late)

\* Somebody else uses the application.
Elsewhere(calls) ==
    /\ trouble < MaxTrouble
    /\ trouble' = trouble + 1
    /\ \E c \in calls : Accepted(db, c) /\ db' = Apply(db, c) /\ db' # db
    /\ UNCHANGED <<ui, job, saves>>
=============================================================================
