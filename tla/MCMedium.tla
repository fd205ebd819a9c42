------------------------------ MODULE MCMedium ------------------------------
(***************************************************************************)
(* Two stations and two access categories.  Nothing tells the stations     *)
(* apart, nor the clients.                                                 *)
(***************************************************************************)
EXTENDS Medium, TLC

Symmetry == Permutations(Station) \cup Permutations(Client)
=============================================================================
