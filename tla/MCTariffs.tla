------------------------------ MODULE MCTariffs ------------------------------
(***************************************************************************)
(* Small instances of Tariffs: one service with an active tariff from day  *)
(* 1 on, and tariffs to come.                                              *)
(***************************************************************************)
EXTENDS Tariffs, TLC

CONSTANTS s1, s2, t0, t1, t2

MCTariffService == [t \in Tariffs |-> "water"]
MCInitTariffs ==
    [t \in Tariffs |-> [state |-> IF t = t0 THEN "live" ELSE "new",
                        price |-> 160, from |-> 1, to |-> None]]
SessionSymmetry == Permutations(Sessions)
=============================================================================
