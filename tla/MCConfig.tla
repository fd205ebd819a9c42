------------------------------ MODULE MCConfig ------------------------------
(***************************************************************************)
(* Configurations with two or three stations, of every kind load_config()  *)
(* knows: links in one and in both directions, error probabilities, a      *)
(* static and a moving path loss model, and broken ones.                   *)
(***************************************************************************)
EXTENDS Config

Base ==
    [readable |-> TRUE, ids |-> <<"A", "B">>, enable_interference |-> FALSE,
     type |-> "none", links |-> <<>>, default_prob |-> 2, broken |-> "no",
     moving |-> FALSE, positions |-> <<0, 1>>, directions |-> <<0, 9>>,
     tx_powers |-> <<15, 20>>, model |-> [name |-> "free_space"]]

Log == [name |-> "log_distance", path_loss_exp |-> 3, xg |-> 50]
Itu == [name |-> "itu", nFLOORS |-> 2, LF |-> 3]

MCContent ==
    [ oneway |-> [Base EXCEPT !.type = "snr", !.ids = <<"A", "B", "C">>,
        !.links = <<<<0, 1, 5>>, <<2, 0, 7>>, <<0, 2, 9>>, <<0, 1, 6>>>>],
      prob |-> [Base EXCEPT !.type = "prob", !.links = <<<<1, 0, 4>>>>,
        !.enable_interference = TRUE],
      still |-> [Base EXCEPT !.type = "path_loss", !.model = Itu,
        !.positions = <<0, 18>>],
      moving |-> [Base EXCEPT !.type = "path_loss", !.moving = TRUE,
        !.model = Log],
      unreadable |-> [Base EXCEPT !.readable = FALSE],
      badlink |-> [Base EXCEPT !.type = "snr", !.links = <<<<0, 2, 5>>>>],
      badmodel |-> [Base EXCEPT !.type = "path_loss", !.moving = TRUE,
        !.broken = "late"] ]
=============================================================================
