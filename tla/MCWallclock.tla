---------------------------- MODULE MCWallclock ----------------------------
(***************************************************************************)
(* One periodic job and two jobs of frames, all of one priority.           *)
(***************************************************************************)
EXTENDS Wallclock

MCPriority == [j \in Job |-> 0]
=============================================================================
