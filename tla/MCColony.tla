------------------------------ MODULE MCColony -------------------------------
(* The colonies of small worlds for TLC.                                    *)
EXTENDS Colony
CONSTANTS a, b, z
PlayersAlike == Permutations(People)
==============================================================================
