---------------------------- MODULE MCLocations ----------------------------
(***************************************************************************)
(* A small instance of Locations: a client with a default location, which  *)
(* has a subscription, a second location and one to be created, and a      *)
(* client with a default location of its own.                              *)
(***************************************************************************)
EXTENDS Locations

CONSTANTS s1, s2, ann, bob, home, shop, barn, flat

MCClientOf == [l \in Locations |-> IF l = flat THEN bob ELSE ann]
MCInitLocs ==
    [l \in Locations |-> CASE l \in {home, flat} -> "default" [] l = shop -> "plain" [] l = barn -> "new"]
=============================================================================
