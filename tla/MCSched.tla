------------------------------ MODULE MCSched ------------------------------
(* Three jobs, one of them of higher priority, on a few ticks of time.     *)
EXTENDS Sched

CONSTANTS a, b, c

MCPriority == [j \in Job |-> IF j = c THEN 1 ELSE 0]
=============================================================================
