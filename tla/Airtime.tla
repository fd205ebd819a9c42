------------------------------ MODULE Airtime ------------------------------
(***************************************************************************)
(* What the medium promises, without stations, queues and jobs: a slot of  *)
(* airtime starts now or, if there are such, right at the end of the last  *)
(* of all slots of the same or a higher priority that are still held.      *)
(***************************************************************************)
EXTENDS Integers

CONSTANTS Frame, AC, Duration

VARIABLES
    now,
    slots       \* the slots held: [frame, ac, from, to]

vars == <<now, slots>>

Init == now = 0 /\ slots = {}

\* the ends of the slots a new slot of category ac has to respect
Ends(ac) == {x.to : x \in {y \in slots : y.ac <= ac}}

Reserve(f, ac, d) ==
    /\ \A x \in slots : x.frame # f
    /\ \E from \in {now} \cup Ends(ac) :
          /\ from >= now
          /\ \A e \in Ends(ac) : from >= e
          /\ slots' = slots \cup
                {[frame |-> f, ac |-> ac, from |-> from, to |-> from + d]}
    /\ now' = now

\* slots end or are given up while time passes
Release ==
    /\ slots' \subseteq slots
    /\ now' >= now

Next ==
    \/ \E f \in Frame, ac \in AC, d \in Duration : Reserve(f, ac, d)
    \/ Release

Spec == Init /\ [][Next]_vars
=============================================================================
