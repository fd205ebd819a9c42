----------------------------- MODULE MCTransmit -----------------------------
(***************************************************************************)
(* Four stations.  Link 0 -> 1 is just above the noise, links from 2 and 3 *)
(* are as strong as the noise, so that their frames interfere; two such    *)
(* frames lower the signal of the first link below the noise.              *)
(***************************************************************************)
EXTENDS Transmit

MCLink ==
    [a \in 0..3 |-> [b \in 0..3 |->
        CASE a = 0 /\ b = 1 -> 1
          [] a = 0 /\ b = 2 -> 30
          [] OTHER -> 0]]

MCErrorProb == [a \in 0..3 |-> [b \in 0..3 |-> Max({b - 1, 0})]]

Row(s, f(_)) == [signal |-> s, per |-> [k \in 1..12 |-> f(k)]]

\* an ascending file, a file that skips a signal and a descending file
MCPerFiles ==
    LET Fast(k) == IF k > 6 THEN 2 ELSE 1
        Even(k) == k % 2
        Half(k) == 1
    IN  { <<Row(-91, Fast), Row(-90, Even), Row(-89, Half)>>,
          <<Row(-91, Fast), Row(-89, Even)>>,
          <<Row(-90, Fast), Row(-91, Even)>> }

Rate(x, n) == [idx |-> x, count |-> n]

\* the rates of the frames from 0: none, unused, one and several, up to the
\* end of the rate table
Rates ==
    { <<>>, <<Rate(-1, 0)>>, <<Rate(0, 0), Rate(-1, 0)>>,
      <<Rate(4, 3), Rate(0, 2)>>, <<Rate(11, 2), Rate(-1, 0), Rate(0, 3)>>,
      <<Rate(7, 2), Rate(4, 0), Rate(0, 3)>> }

Subject ==
    [src : {0}, dst : {1, 2, Broadcast, Unknown}, fc : {64, 8},
     priority : {0}, len : {24}, freq : {2412, 5180}, tx_rates : Rates]
    \cup
    [src : {0}, dst : {1}, fc : {136, 192}, priority : {1, 5, 7}, len : {1500},
     freq : {2412}, tx_rates : {<<Rate(4, 4), Rate(0, 3)>>}]

\* the frames of the others, too weak for their receiver
Noise ==
    [src : {2, 3}, dst : {0}, fc : {8}, priority : {0}, len : {1500},
     freq : {2412}, tx_rates : {<<Rate(0, 1)>>}]

MCFrames == Subject \cup Noise
=============================================================================
