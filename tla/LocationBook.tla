---------------------------- MODULE LocationBook ----------------------------
(***************************************************************************)
(* What the table of locations promises to the pages: a client has at most *)
(* one default location, a location that becomes the default takes the flag*)
(* from the others in the same step, and nobody else loses it.             *)
(***************************************************************************)
CONSTANTS
    Locations,      \* location ids (SERIAL: never used twice)
    ClientOf,       \* client_id, which no UPDATE changes
    InitBook        \* the rows in place at the start

VARIABLE book

\* is_default of a row; a new id has no row yet, a gone one no longer.
Flags == {"plain", "default"}

TypeOK == book \in [Locations -> {"new", "gone"} \cup Flags]

Init == book = InitBook

InTable(l) == book[l] \in Flags

\* A new default is refused while the client has one.
Create(l, flag) ==
    /\ book[l] = "new"
    /\ flag = "default" => \A m \in Locations : ClientOf[m] = ClientOf[l] => book[m] # "default"
    /\ book' = [book EXCEPT ![l] = flag]

Update(l, flag) ==
    /\ InTable(l)
    /\ book' = [m \in Locations |->
          IF m = l THEN flag
          ELSE IF flag = "default" /\ InTable(m) /\ ClientOf[m] = ClientOf[l] THEN "plain"
          ELSE book[m]]

Delete(l) ==
    /\ InTable(l)
    /\ book' = [book EXCEPT ![l] = "gone"]

\* ON DELETE CASCADE.
DeleteAll(c) ==
    book' = [m \in Locations |-> IF InTable(m) /\ ClientOf[m] = c THEN "gone" ELSE book[m]]

Next ==
    \/ \E l \in Locations :
          \/ \E flag \in Flags : Create(l, flag) \/ Update(l, flag)
          \/ Delete(l)
    \/ \E l \in Locations : DeleteAll(ClientOf[l])

Spec == Init /\ [][Next]_book
=============================================================================
