----------------------------- MODULE MCWebPages -----------------------------
(***************************************************************************)
(* A small instance of WebPages: a client with two locations, each         *)
(* subscribed to the one service and the first billed in the one period    *)
(* there is, and a second client without locations.  Every table has an id *)
(* to give away.                                                           *)
(***************************************************************************)
EXTENDS WebPages

Table(known) == [i \in Ids |-> IF i \in DOMAIN known THEN known[i] ELSE New]

Location(c, isDefault) == [client |-> c, name |-> "a", is_default |-> isDefault]
Bill1(s) == [subscription |-> s, period |-> 1, tariff |-> 1, reading |-> None,
            status |-> "pending", note |-> None]

MCInitDb == [
    users |-> Table(<<[username |-> "a", role |-> "admin", is_active |-> TRUE],
                      [username |-> "b", role |-> "admin", is_active |-> TRUE]>>),
    clients |-> Table(<<[account_number |-> "a", full_name |-> "a", is_active |-> TRUE],
                        [account_number |-> "b", full_name |-> "a", is_active |-> TRUE]>>),
    locations |-> Table(<<Location(1, TRUE), Location(1, FALSE)>>),
    services |-> Table(<<[name |-> "a", has_meter |-> TRUE]>>),
    tariffs |-> Table(<<[service |-> 1, note |-> None, ended |-> FALSE]>>),
    subscriptions |-> Table(<<Subscription(1, 1, None), Subscription(2, 1, None)>>),
    periods |-> Table(<<[month |-> 1, open |-> TRUE]>>),
    calculations |-> [i \in Ids \X Ids |-> IF i = <<1, 1>> THEN Bill1(1) ELSE New]]

\* Links that hand over a client or a period, and one of the menu.
MCLinks == {[from |-> "clients", to |-> "detail", by |-> "client"],
            [from |-> "clients", to |-> "calculations", by |-> "client"],
            [from |-> "periods", to |-> "calculations", by |-> "period"],
            [from |-> "users", to |-> "periods", by |-> "none"]}

\* A period is closed, a location is deleted, and a service gets a new tariff.
MCOthers == {Update("periods", 1, [open |-> FALSE]),
             Delete("locations", 2),
             Insert("tariffs", [service |-> 1, note |-> None, ended |-> FALSE])}
=============================================================================
