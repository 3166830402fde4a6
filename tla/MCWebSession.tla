---------------------------- MODULE MCWebSession ----------------------------
(***************************************************************************)
(* A small instance of WebSession: one user, who is given another role now *)
(* and then, so that whoever signs in next may have any of the three; the  *)
(* preferred language is Ukrainian.                                        *)
(***************************************************************************)
EXTENDS WebSession

CONSTANT ann

MCInitAccount == [u \in Users |-> [role |-> "admin", language |-> "uk"]]
=============================================================================
