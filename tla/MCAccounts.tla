----------------------------- MODULE MCAccounts -----------------------------
(***************************************************************************)
(* Small instances of Accounts.  Two admins, one of them still to be       *)
(* created, so that the last one can be reached; two audited tables, so    *)
(* that a write can commit to a table Delete has already been through.     *)
(***************************************************************************)
EXTENDS Accounts

CONSTANTS ann, bob, c1, c2, r1, r2

Admin == [state |-> "live", role |-> "admin", active |-> TRUE, lang |-> "en"]
MCInitUsers == [u \in Users |-> Admin]
MCNewUsers == [u \in Users |-> IF u = bob THEN [Admin EXCEPT !.state = "new"] ELSE Admin]
MCTableOf == [r \in Records |-> IF r = r1 THEN 1 ELSE 2]

AllOps == {"write", "block", "unblock", "createUser", "updateUser", "deleteUser", "language",
           "abort"}
BlockOps == {"block"}
=============================================================================
