------------------------------ MODULE MCVhost ------------------------------
(***************************************************************************)
(* Vhost for TLC: queue 0 sends (HWSIM_VQ_TX), queue 1 receives.           *)
(***************************************************************************)
EXTENDS Vhost, TLC

MCNum      == 0 :> 2 @@ 1 :> 1
MCNumSmall == 0 :> 1 @@ 1 :> 1
=============================================================================
