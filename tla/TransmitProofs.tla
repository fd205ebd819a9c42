--------------------------- MODULE TransmitProofs ---------------------------
(***************************************************************************)
(* Proofs about the transmission of frames: what becomes of a unicast      *)
(* frame, who may drown a frame, the table read from a PER file, and the   *)
(* report and the airtime that the loops of queue_frame() add up.          *)
(***************************************************************************)
EXTENDS Transmit, FiniteSetTheorems, WellFoundedInduction, TLAPS

-----------------------------------------------------------------------------
(* Interference.                                                           *)

(***************************************************************************)
(* The powers of one frame add up to its own: MapThenSumSet on a singleton,*)
(* by giving the function that its recursion defines on {{}, {k}}.         *)
(***************************************************************************)
LEMMA SumOfOne ==
    ASSUME NEW k, dBm_to_milliwatt(intf[k].signal) \in Int
    PROVE  MapThenSumSet(LAMBDA x : dBm_to_milliwatt(intf[x].signal), {k})
              = dBm_to_milliwatt(intf[k].signal)
<1> DEFINE F(x) == dBm_to_milliwatt(intf[x].signal)
           Pick(s) == CHOOSE x \in s : TRUE
           Step(h) == [s \in SUBSET {k} |->
                          IF s = {} THEN 0
                          ELSE F(Pick(s)) + h[s \ {Pick(s)}]]
           g == [s \in SUBSET {k} |-> IF s = {} THEN 0 ELSE F(k)]
           iter == CHOOSE h : h = Step(h)
<1>1. \A s \in SUBSET {k} : s # {} => s = {k}
  OBVIOUS
<1>2. Pick({k}) = k
  OBVIOUS
<1>3. {k} \ {k} = {} /\ {} \in SUBSET {k} /\ {k} \in SUBSET {k} /\ {k} # {}
  OBVIOUS
<1>4. F(k) \in Int
  OBVIOUS
<1>5. g = Step(g)
  <2>1. \A s \in SUBSET {k} : s = {} => Step(g)[s] = g[s]
    BY Zenon
  <2>2. Step(g)[{k}] = F(k) + g[{}]
    BY <1>2, <1>3, Zenon
  <2>3. g[{}] = 0 /\ g[{k}] = F(k)
    BY <1>3, Zenon
  <2>4. F(k) + 0 = F(k)
    <3> HIDE DEF F
    <3> QED BY <1>4
  <2>5. \A s \in SUBSET {k} : Step(g)[s] = g[s]
    BY <1>1, <2>1, <2>2, <2>3, <2>4, Zenon
  <2> QED
    BY <2>5, Zenon
<1>6. iter = Step(iter)
  BY <1>5, Zenon
<1>7. iter[{k}] = F(k) + iter[{}]
  BY <1>6, <1>2, <1>3, Zenon
<1>8. iter[{}] = 0
  BY <1>6, <1>3, Zenon
<1>9. iter[{k}] = F(k)
  <2> HIDE DEF F, iter
  <2> QED BY <1>7, <1>8, <1>4
<1>10. MapThenSumSet(F, {k}) = iter[{k}]
  BY Zenon DEF MapThenSumSet, MapThenFoldSet
<1> QED
  BY <1>9, <1>10, Zenon

(***************************************************************************)
(* A frame no stronger than the noise has at most the power of the noise.  *)
(***************************************************************************)
LEMMA WeakPower ==
    ASSUME NEW signal \in Int, signal <= NOISE_LEVEL
    PROVE  dBm_to_milliwatt(signal) \in 0..1000
<1>1. \A x \in 1..31 : Thousandths[x] \in 0..1000
  BY DEF Thousandths
<1> DEFINE diff == NOISE_LEVEL - signal
<1>2. diff \in Int /\ diff >= 0
  BY DEF NOISE_LEVEL
<1>3. CASE diff >= 31
  BY <1>3, <1>2 DEF dBm_to_milliwatt, NOISE_LEVEL
<1>4. CASE diff < 31
  <2>1. dBm_to_milliwatt(signal) = Thousandths[1 + diff]
    BY <1>4, <1>2 DEF dBm_to_milliwatt
  <2>2. 1 + diff \in 1..31
    BY <1>4, <1>2
  <2> HIDE DEF diff
  <2> QED
    BY <2>1, <2>2, <1>1
<1> QED
  BY <1>2, <1>3, <1>4

\* The offset is a number of decibels.
LEMMA OffsetType ==
    ASSUME NEW c
    PROVE  SignalOffset(c) \in Nat
<1>1. ASSUME NEW power PROVE OffsetOf(power) \in Nat
  <2> DEFINE levels == {1122, 1413, 1778, 2239}
             below == {x \in levels : power >= x}
  <2>1. PICK top \in Int : top = 2239
    OBVIOUS
  <2>2. below \in SUBSET (0..top)
    BY <2>1
  <2>3. IsFiniteSet(below)
    <3> HIDE DEF below
    <3>1. IsFiniteSet(0..top)
      BY FS_Interval
    <3> QED
      BY <3>1, <2>2, FS_Subset
  <2> QED
    BY <2>3, FS_CardinalityType DEF OffsetOf
<1> DEFINE power == MapThenSumSet(LAMBDA k : dBm_to_milliwatt(intf[k].signal), c)
<1>2. SignalOffset(c) = IF power <= 1000 THEN 0 ELSE OffsetOf(power)
  BY DEF SignalOffset
<1>3. OffsetOf(power) \in Nat
  BY <1>1
<1> HIDE DEF power
<1> QED
  BY <1>2, <1>3

\* A single frame that is no stronger than the noise weakens no other.
LEMMA OneIsNotEnough ==
    ASSUME NEW k, intf[k].signal \in Int, intf[k].signal <= NOISE_LEVEL
    PROVE  SignalOffset({k}) = 0
<1>1. dBm_to_milliwatt(intf[k].signal) \in 0..1000
  BY WeakPower
<1> DEFINE power == MapThenSumSet(LAMBDA x : dBm_to_milliwatt(intf[x].signal), {k})
<1>4. dBm_to_milliwatt(intf[k].signal) \in Int
  BY <1>1
<1>2. power = dBm_to_milliwatt(intf[k].signal)
  BY <1>4, SumOfOne, Zenon
<1>3. SignalOffset({k}) = IF power <= 1000 THEN 0 ELSE OffsetOf(power)
  BY DEF SignalOffset
<1> HIDE DEF power
<1> QED
  BY <1>1, <1>2, <1>3
-----------------------------------------------------------------------------
(* The inductive invariant of a frame on the air.                          *)

Sending == pc \in {"rate", "attempt", "end", "queued", "report"}

\* What the steps need of the types; nothing is acknowledged while the loops
\* of queue_frame() run.
Shape ==
    /\ mode \in Modes
    /\ pc \in {"read", "overrun", "idle", "rate", "attempt", "end", "queued",
               "report"}
    /\ Sending => frame \in Frames
    /\ snr \in Int /\ choice \in Draw /\ retries \in Nat
    /\ pc \in {"rate", "attempt"} => is_acked = FALSE

\* Only frames that are no stronger than the noise count as interference.
WeakIntf ==
    /\ DOMAIN intf = Station
    /\ \A k \in Station :
          /\ DOMAIN intf[k] = {"duration", "signal", "prob_col"}
          /\ intf[k].signal \in Int
          /\ intf[k].signal <= NOISE_LEVEL

\* With configured probabilities: the draw is the first one, and no attempt
\* so far was beaten by it.
DrawDecides ==
    mode = "prob" /\ Sending /\ frame.dst \in Station =>
        LET e == ErrorProb[frame.src][frame.dst] IN
        /\ pc \in {"rate", "attempt"} => /\ choice = first_choice
                                         /\ retries > 0 => ~(first_choice > e)
        /\ pc = "attempt" => error_prob = e
        /\ pc \in {"end", "queued"} /\ retries > 0
              => (is_acked <=> first_choice > e)

\* With signal strengths: only a frame above the noise is acknowledged, and
\* such a frame is above CCA_THRESHOLD.
SignalDecides ==
    mode = "snr" /\ Sending /\ frame.dst \in Station =>
        /\ pc = "attempt" /\ snr <= 0 => error_prob = One
        /\ pc \in {"end", "queued"} /\ is_acked => snr > 0
        /\ pc = "report" /\ frame.dst # frame.src
              => receivers = IF is_acked THEN {frame.dst} ELSE {}

FrameInv ==
    Shape /\ WeakIntf /\ InterferenceTakesTwo /\ DrawDecides /\ SignalDecides
-----------------------------------------------------------------------------
(* The inductive invariant of the PER table.                               *)

\* The table holds the first rows of a well-formed file, in their order, and
\* they are about consecutive signals.
RowsRead ==
    LET n == per_matrix_row_num IN
    /\ pc # "overrun"
    /\ per_matrix_signal_min = IF n = 0 THEN 1000 ELSE per_file[1].signal
    /\ \A k \in 1..n : per_file[k].signal = per_file[1].signal + k - 1
    /\ \A k \in 1..n : per_matrix[k - 1] = per_file[k].per

TableInv ==
    /\ pc \in {"read", "overrun"} => mode = "per"
    /\ mode = "per" =>
          /\ per_file \in PerFiles
          /\ per_matrix_row_num \in 0..Len(per_file)
          /\ pc \notin {"read", "overrun"} => per_matrix_row_num = Len(per_file)
          /\ WellFormed(per_file) => RowsRead
-----------------------------------------------------------------------------
(* Every step keeps the invariant of a frame on the air.                   *)

LEMMA FrameInit == Init => FrameInv
<1> SUFFICES ASSUME Init PROVE FrameInv
  OBVIOUS
<1>1. pc \in {"read", "idle"} /\ ~Sending
  BY DEF Init, Sending
<1>2. Shape
  BY <1>1, OneAssumption DEF Init, Shape, Sending, Draw
<1>3. WeakIntf
  BY DEF Init, WeakIntf, NOISE_LEVEL
<1>4. InterferenceTakesTwo
  BY FS_EmptySet DEF Init, InterferenceTakesTwo
<1> QED
  BY <1>1, <1>2, <1>3, <1>4 DEF FrameInv, DrawDecides, SignalDecides

\* A set of stations that weakens a frame has at least two members.
LEMMA LoudTakesTwo ==
    ASSUME WeakIntf, NEW c \in SUBSET Station, SignalOffset(c) > 0
    PROVE  Cardinality(c) # 1
<1> SUFFICES ASSUME Cardinality(c) = 1 PROVE FALSE
  OBVIOUS
<1>1. IsFiniteSet(Station)
  BY FadingAssumption, FS_Interval DEF Station
<1>2. IsFiniteSet(c)
  BY <1>1, FS_Subset
<1>3. PICK k : c = {k}
  BY <1>2, FS_Singleton
<1>4. k \in Station
  BY <1>3
<1>5. SignalOffset({k}) = 0
  BY <1>4, OneIsNotEnough DEF WeakIntf
<1> QED
  BY <1>3, <1>5

\* set_interference_duration() only records frames below CCA_THRESHOLD.
LEMMA AddKeepsWeak ==
    ASSUME WeakIntf, NEW src \in Station, NEW signal \in Int,
           intf' = AddInterference(src, signal)
    PROVE  WeakIntf'
<1>1. CASE Interferes(signal)
  <2>1. signal <= NOISE_LEVEL
    BY <1>1 DEF Interferes, CCA_THRESHOLD, NOISE_LEVEL
  <2>2. intf' = [intf EXCEPT ![src].duration = @ + send_time, ![src].signal = signal]
    BY <1>1 DEF AddInterference
  <2>3. DOMAIN intf' = Station
    BY <2>2 DEF WeakIntf
  <2>4. \A k \in Station : k # src => intf'[k] = intf[k]
    BY <2>2 DEF WeakIntf
  <2>5. /\ DOMAIN intf'[src] = {"duration", "signal", "prob_col"}
        /\ intf'[src].signal = signal
    BY <2>2 DEF WeakIntf
  <2> QED
    BY <2>1, <2>3, <2>4, <2>5 DEF WeakIntf
<1>2. CASE ~Interferes(signal)
  BY <1>2 DEF AddInterference, WeakIntf
<1> QED
  BY <1>1, <1>2

\* A step that leaves what the invariant is about alone keeps it.
LEMMA FrameKept ==
    ASSUME FrameInv, ~Sending',
           pc' \in {"read", "overrun", "idle"},
           UNCHANGED <<mode, snr, choice, retries, loud, intf>>
    PROVE  FrameInv'
BY DEF FrameInv, Shape, WeakIntf, InterferenceTakesTwo, DrawDecides,
       SignalDecides, Sending

LEMMA QueueFrameKeeps ==
    ASSUME FrameInv, NEW f \in Frames, QueueFrame(f)
    PROVE  FrameInv'
<1>1. /\ pc' = "rate" /\ frame' = f /\ retries' = 0 /\ is_acked' = FALSE
      /\ choice' \in Draw /\ first_choice' = choice'
      /\ mode' = mode /\ intf' = intf
  BY DEF QueueFrame
<1>2. snr' \in Int /\ Cardinality(loud') # 1
  <2>1. CASE f.dst \in Station
    <3>1. PICK c \in Collisions(f.src, f.dst), fade \in Fading :
             /\ snr' = get_link_snr(f.src, f.dst) - SignalOffset(c) + fade
             /\ loud' = IF SignalOffset(c) > 0 THEN c ELSE {}
      BY <2>1 DEF QueueFrame
    <3>2. f.src \in Station
      BY LinkAssumption
    <3>3. get_link_snr(f.src, f.dst) \in Int
      BY <3>2, <2>1, LinkAssumption DEF get_link_snr, SNR_DEFAULT
    <3>4. fade \in Int /\ SignalOffset(c) \in Nat
      BY FadingAssumption, OffsetType
    <3>5. c \in SUBSET Station
      BY <3>1 DEF Collisions, Colliding
    <3>6. snr' \in Int
      BY <3>1, <3>3, <3>4
    <3>7. Cardinality(loud') # 1
      <4>1. CASE SignalOffset(c) > 0
        <5>1. Cardinality(c) # 1
          BY <4>1, <3>5, LoudTakesTwo DEF FrameInv
        <5> QED
          BY <5>1, <4>1, <3>1
      <4>2. CASE ~(SignalOffset(c) > 0)
        BY <4>2, <3>1, FS_EmptySet
      <4> QED
        BY <4>1, <4>2
    <3> QED
      BY <3>6, <3>7
  <2>2. CASE f.dst \notin Station
    BY <2>2, FS_EmptySet DEF QueueFrame, SNR_DEFAULT
  <2> QED
    BY <2>1, <2>2
<1>3. Shape'
  BY <1>1, <1>2 DEF FrameInv, Shape
<1>4. WeakIntf'
  BY <1>1 DEF FrameInv, WeakIntf
<1>5. DrawDecides'
  BY <1>1 DEF DrawDecides
<1>6. SignalDecides'
  BY <1>1 DEF SignalDecides
<1> QED
  BY <1>2, <1>3, <1>4, <1>5, <1>6 DEF FrameInv, InterferenceTakesTwo

\* The outer loop either ends unacknowledged or takes the error probability
\* of the next rate: the link's own, or 1.0 at or below the noise.
LEMMA TryRateKeeps ==
    ASSUME FrameInv, TryRate
    PROVE  FrameInv'
<1>1. /\ pc = "rate" /\ pc' \in {"attempt", "end"} /\ is_acked = FALSE
      /\ UNCHANGED <<mode, frame, snr, choice, retries, is_acked, intf,
                     receivers, loud, first_choice>>
  BY DEF TryRate, FrameInv, Shape
<1>2. Shape'
  BY <1>1 DEF FrameInv, Shape, Sending
<1>3. WeakIntf' /\ InterferenceTakesTwo'
  BY <1>1 DEF FrameInv, WeakIntf, InterferenceTakesTwo
<1>4. pc' = "attempt" =>
         error_prob' \in get_error_prob(snr, tx_rates[i].idx, frame.freq,
                                        frame.src, frame.dst)
  BY DEF TryRate
<1>5. DrawDecides'
  <2> SUFFICES ASSUME mode = "prob", frame.dst \in Station
               PROVE  DrawDecides'
    BY <1>1 DEF DrawDecides
  <2>1. pc' = "attempt" => error_prob' = ErrorProb[frame.src][frame.dst]
    BY <1>4 DEF get_error_prob, get_error_prob_from_matrix
  <2> QED
    BY <1>1, <2>1 DEF FrameInv, DrawDecides, Sending
<1>6. SignalDecides'
  <2> SUFFICES ASSUME mode = "snr", frame.dst \in Station
               PROVE  SignalDecides'
    BY <1>1 DEF SignalDecides
  <2>1. pc' = "attempt" /\ snr <= 0 => error_prob' = One
    BY <1>4 DEF get_error_prob, get_error_prob_from_snr
  <2> QED
    BY <1>1, <2>1 DEF SignalDecides
<1> QED
  BY <1>2, <1>3, <1>5, <1>6 DEF FrameInv

\* An attempt at a frame to a station: it is acknowledged and the loops end,
\* or the draw is made again, unless it is fixed.
LEMMA AttemptKeeps ==
    ASSUME FrameInv, Attempt
    PROVE  FrameInv'
<1>1. /\ pc = "attempt" /\ retries \in Nat /\ retries' = retries + 1
      /\ is_acked = FALSE /\ choice \in Draw
      /\ UNCHANGED <<mode, frame, snr, error_prob, intf, receivers, loud,
                     first_choice>>
  BY DEF Attempt, FrameInv, Shape
<1>2. \/ /\ Multicast(frame) /\ is_acked' = TRUE /\ pc' = "end"
         /\ choice' = choice
      \/ /\ choice > error_prob /\ is_acked' = TRUE /\ pc' = "end"
         /\ choice' = choice
      \/ /\ ~(choice > error_prob) /\ is_acked' = is_acked /\ pc' = pc
         /\ choice' \in Redraw
  BY DEF Attempt
<1>3. choice' \in Draw
  BY <1>1, <1>2 DEF Redraw
<1>4. frame.dst \in Station => ~Multicast(frame)
  BY FadingAssumption DEF Station, Multicast, Broadcast
<1>5. Shape'
  BY <1>1, <1>2, <1>3 DEF FrameInv, Shape, Sending
<1>6. WeakIntf' /\ InterferenceTakesTwo'
  BY <1>1 DEF FrameInv, WeakIntf, InterferenceTakesTwo
<1>7. DrawDecides'
  <2> SUFFICES ASSUME mode = "prob", frame.dst \in Station
               PROVE  DrawDecides'
    BY <1>1 DEF DrawDecides
  <2>1. /\ error_prob = ErrorProb[frame.src][frame.dst]
        /\ choice = first_choice
    BY <1>1 DEF FrameInv, DrawDecides, Sending
  <2>2. CASE choice > error_prob /\ is_acked' = TRUE /\ pc' = "end"
    BY <2>1, <2>2, <1>1 DEF DrawDecides
  <2>3. CASE /\ ~(choice > error_prob) /\ is_acked' = is_acked /\ pc' = pc
             /\ choice' \in Redraw
    BY <2>1, <2>3, <1>1 DEF DrawDecides, Redraw
  <2> QED
    BY <1>2, <1>4, <2>2, <2>3
<1>8. SignalDecides'
  <2> SUFFICES ASSUME mode = "snr", frame.dst \in Station
               PROVE  SignalDecides'
    BY <1>1 DEF SignalDecides
  <2>1. snr <= 0 => error_prob = One
    BY <1>1 DEF FrameInv, SignalDecides, Sending
  <2>2. CASE choice > error_prob /\ is_acked' = TRUE /\ pc' = "end"
    <3>1. snr \in Int
      BY DEF FrameInv, Shape
    <3>2. ~(snr <= 0)
      BY <2>1, <2>2, <1>1, OneAssumption DEF Draw
    <3> QED
      BY <3>1, <3>2, <2>2, <1>1 DEF SignalDecides
  <2>3. CASE is_acked' = is_acked /\ pc' = pc
    BY <2>1, <2>3, <1>1 DEF SignalDecides
  <2> QED
    BY <1>2, <1>4, <2>2, <2>3
<1> QED
  BY <1>5, <1>6, <1>7, <1>8 DEF FrameInv

\* The loops go on or end: nothing that the invariant speaks of changes.
LEMMA LoopKeeps ==
    ASSUME FrameInv, RateFailed \/ AttemptsEnd
    PROVE  FrameInv'
<1>1. /\ \/ pc = "attempt" /\ pc' = "rate"
         \/ pc = "end" /\ pc' = "queued"
      /\ UNCHANGED <<mode, frame, snr, choice, error_prob, retries, is_acked,
                     intf, receivers, loud, first_choice>>
  BY DEF RateFailed, AttemptsEnd, loop_vars
<1>2. Shape'
  BY <1>1 DEF FrameInv, Shape, Sending
<1>3. WeakIntf' /\ InterferenceTakesTwo'
  BY <1>1 DEF FrameInv, WeakIntf, InterferenceTakesTwo
<1>4. DrawDecides'
  BY <1>1 DEF FrameInv, DrawDecides, Sending
<1>5. SignalDecides'
  BY <1>1 DEF FrameInv, SignalDecides, Sending
<1> QED
  BY <1>2, <1>3, <1>4, <1>5 DEF FrameInv

\* wmediumd_deliver_frame(): an acknowledged frame is above the threshold.
LEMMA DeliverKeeps ==
    ASSUME FrameInv, DeliverFrame
    PROVE  FrameInv'
<1>1. /\ pc = "queued" /\ pc' = "report" /\ frame \in Frames /\ snr \in Int
      /\ UNCHANGED <<mode, frame, snr, choice, retries, is_acked, loud,
                     first_choice>>
  BY DEF DeliverFrame, FrameInv, Shape, Sending, loop_vars
<1>2. frame.src \in Station /\ snr + NOISE_LEVEL \in Int
  BY <1>1, LinkAssumption DEF NOISE_LEVEL
<1>3. \/ is_acked /\ Multicast(frame) /\ intf' = intf
      \/ DeliverUnicast
      \/ NotDelivered
  BY DEF DeliverFrame, DeliverMulticast
<1>4. WeakIntf'
  <2>1. intf' = intf \/ intf' = AddInterference(frame.src, snr + NOISE_LEVEL)
    BY <1>3 DEF DeliverUnicast, NotDelivered
  <2>2. CASE intf' = intf
    BY <2>2 DEF FrameInv, WeakIntf
  <2>3. CASE intf' = AddInterference(frame.src, snr + NOISE_LEVEL)
    BY <2>3, <1>2, AddKeepsWeak DEF FrameInv
  <2> QED
    BY <2>1, <2>2, <2>3
<1>5. Shape'
  BY <1>1 DEF FrameInv, Shape, Sending
<1>6. InterferenceTakesTwo'
  BY <1>1 DEF FrameInv, InterferenceTakesTwo
<1>7. DrawDecides'
  BY <1>1 DEF DrawDecides
<1>8. SignalDecides'
  <2> SUFFICES ASSUME mode = "snr", frame.dst \in Station, frame.dst # frame.src
               PROVE  receivers' = IF is_acked THEN {frame.dst} ELSE {}
    BY <1>1 DEF SignalDecides
  <2>1. ~Multicast(frame)
    BY FadingAssumption DEF Station, Multicast, Broadcast
  <2>2. CASE DeliverUnicast
    <3>1. is_acked /\ snr > 0
      BY <2>2, <1>1 DEF DeliverUnicast, FrameInv, SignalDecides, Sending
    <3>2. ~Interferes(snr + NOISE_LEVEL)
      BY <3>1, <1>1 DEF Interferes, NOISE_LEVEL, CCA_THRESHOLD
    <3> QED
      BY <3>1, <3>2, <2>2 DEF DeliverUnicast
  <2>3. CASE NotDelivered
    BY <2>3 DEF NotDelivered
  <2> QED
    BY <1>3, <2>1, <2>2, <2>3
<1> QED
  BY <1>4, <1>5, <1>6, <1>7, <1>8 DEF FrameInv

\* wmediumd_intf_update() leaves the signals alone.
LEMMA IntfUpdateKeeps ==
    ASSUME FrameInv, IntfUpdate
    PROVE  FrameInv'
<1>1. UNCHANGED <<mode, pc, frame, snr, choice, error_prob, retries, is_acked,
                  receivers, loud, first_choice>>
  BY DEF IntfUpdate, loop_vars
<1>2. WeakIntf'
  <2>1. intf' = [k \in Station |->
                   [intf[k] EXCEPT !.prob_col = intf[k].duration,
                                   !.duration = 0]]
    BY DEF IntfUpdate
  <2>2. DOMAIN intf' = Station
    BY <2>1
  <2>3. ASSUME NEW k \in Station
        PROVE  DOMAIN intf'[k] = DOMAIN intf[k]
               /\ intf'[k].signal = intf[k].signal
    BY <2>1 DEF FrameInv, WeakIntf
  <2> QED
    BY <2>2, <2>3 DEF FrameInv, WeakIntf
<1>3. Shape' /\ InterferenceTakesTwo'
  BY <1>1 DEF FrameInv, Shape, Sending, InterferenceTakesTwo
<1>4. DrawDecides' /\ SignalDecides'
  BY <1>1 DEF FrameInv, DrawDecides, SignalDecides, Sending
<1> QED
  BY <1>2, <1>3, <1>4 DEF FrameInv

LEMMA FrameStep == FrameInv /\ [Next]_vars => FrameInv'
<1> SUFFICES ASSUME FrameInv, [Next]_vars PROVE FrameInv'
  OBVIOUS
<1>1. CASE ReadRow \/ ReadEnds
  <2>1. /\ pc' \in {"read", "overrun", "idle"}
        /\ UNCHANGED <<mode, snr, choice, retries, loud, intf>>
    BY <1>1 DEF ReadRow, ReadEnds, loop_vars
  <2> QED
    BY <2>1, FrameKept DEF Sending
<1>2. ASSUME NEW f \in Frames, QueueFrame(f) PROVE FrameInv'
  BY <1>2, QueueFrameKeeps
<1>3. CASE TryRate
  BY <1>3, TryRateKeeps
<1>4. CASE Attempt
  BY <1>4, AttemptKeeps
<1>5. CASE RateFailed \/ AttemptsEnd
  BY <1>5, LoopKeeps
<1>6. CASE DeliverFrame
  BY <1>6, DeliverKeeps
<1>7. CASE SendTxInfo
  <2>1. /\ pc' = "idle" /\ snr' = 0 /\ choice' = 0 /\ retries' = 0
        /\ loud' = {} /\ mode' = mode /\ intf' = intf
    BY <1>7 DEF SendTxInfo
  <2>2. Shape' /\ ~Sending'
    BY <2>1, OneAssumption DEF FrameInv, Shape, Sending, Draw
  <2>3. WeakIntf' /\ InterferenceTakesTwo'
    BY <2>1, FS_EmptySet DEF FrameInv, WeakIntf, InterferenceTakesTwo
  <2> QED
    BY <2>2, <2>3 DEF FrameInv, DrawDecides, SignalDecides
<1>8. CASE IntfUpdate
  BY <1>8, IntfUpdateKeeps
<1>9. CASE UNCHANGED vars
  BY <1>9 DEF vars, loop_vars, FrameInv, Shape, WeakIntf, InterferenceTakesTwo,
              DrawDecides, SignalDecides, Sending
<1> QED
  BY <1>1, <1>2, <1>3, <1>4, <1>5, <1>6, <1>7, <1>8, <1>9 DEF Next

LEMMA FrameAlways == Spec => []FrameInv
BY FrameInit, FrameStep, PTL DEF Spec

(***************************************************************************)
(* What becomes of a unicast frame: with configured error probabilities    *)
(* queue_frame() acknowledges it exactly if its one draw beats the link's  *)
(* probability, however many attempts it makes; with signal strengths      *)
(* wmediumd_deliver_frame() delivers it exactly if it was acknowledged.    *)
(***************************************************************************)
THEOREM Outcome == Spec => []OutcomeInv
<1>1. FrameInv => OutcomeInv
  BY DEF FrameInv, DrawDecides, SignalDecides, Sending, OutcomeInv,
         LossAsConfigured, AckedMeansDelivered
<1> QED
  BY <1>1, FrameAlways, PTL

(***************************************************************************)
(* get_signal_offset_by_interference() never weakens a frame for the sake  *)
(* of a single other station, whatever the link strengths and the fading:  *)
(* set_interference_duration() keeps only signals below CCA_THRESHOLD, and *)
(* one of those adds at most the power of the noise.                       *)
(***************************************************************************)
THEOREM DrowningTakesTwo == Spec => []InterferenceTakesTwo
<1>1. FrameInv => InterferenceTakesTwo
  BY DEF FrameInv
<1> QED
  BY <1>1, FrameAlways, PTL
-----------------------------------------------------------------------------
(* Every step keeps the invariant of the PER table.                        *)

LEMMA MinOfTwo ==
    ASSUME NEW a \in Int, NEW b \in Int
    PROVE  Min({a, b}) = IF a <= b THEN a ELSE b
<1> DEFINE m == IF a <= b THEN a ELSE b
<1>1. m \in {a, b} /\ \A y \in {a, b} : m <= y
  OBVIOUS
<1>2. \A x \in {a, b} : (\A y \in {a, b} : x <= y) => x = m
  OBVIOUS
<1> QED
  BY <1>1, <1>2 DEF Min

LEMMA FileType ==
    ASSUME NEW file \in PerFiles
    PROVE  /\ Len(file) \in Nat /\ DOMAIN file = 1..Len(file)
           /\ \A k \in 1..Len(file) :
                 /\ file[k].signal \in Int /\ file[k].signal <= 1000
                 /\ file[k].per \in [1..rate_len -> Probability]
<1>1. file \in Seq(Range(file))
  BY PerFilesAssumption
<1> QED
  BY <1>1, PerFilesAssumption

LEMMA TableInit == Init => TableInv
<1> SUFFICES ASSUME Init PROVE TableInv
  OBVIOUS
<1>1. mode = "per" => per_file \in PerFiles /\ Len(per_file) \in Nat
  BY FileType DEF Init
<1>2. RowsRead
  BY DEF Init, RowsRead
<1> QED
  BY <1>1, <1>2 DEF Init, TableInv

\* One line of read_per_file(): the row lands at the end of the table.
LEMMA ReadRowKeeps ==
    ASSUME TableInv, ReadRow
    PROVE  TableInv'
<1> DEFINE n == per_matrix_row_num
           row == per_file[n + 1]
           at == row.signal - per_matrix_signal_min'
<1>1. /\ pc = "read" /\ mode = "per" /\ mode' = mode
      /\ per_file' = per_file /\ per_file \in PerFiles
      /\ n \in 0..Len(per_file) /\ n < Len(per_file) /\ n' = n + 1
      /\ per_matrix_signal_min' = Min({per_matrix_signal_min, row.signal})
      /\ pc' = IF at > n THEN "overrun" ELSE "read"
  BY DEF ReadRow, TableInv
<1>2. per_matrix' = [k \in 0..n |->
                       CASE k = at -> row.per
                         [] k # at /\ k < n -> per_matrix[k]
                         [] OTHER -> Uninitialized]
  BY DEF ReadRow
<1>3. /\ Len(per_file) \in Nat
      /\ \A k \in 1..Len(per_file) :
            per_file[k].signal \in Int /\ per_file[k].signal <= 1000
  BY <1>1, FileType
<1>4. n \in Nat /\ n + 1 \in 1..Len(per_file)
  BY <1>1, <1>3
<1>5. ASSUME WellFormed(per_file) PROVE RowsRead'
  <2>1. /\ per_matrix_signal_min = IF n = 0 THEN 1000 ELSE per_file[1].signal
        /\ \A k \in 1..n : per_file[k].signal = per_file[1].signal + k - 1
        /\ \A k \in 1..n : per_matrix[k - 1] = per_file[k].per
    BY <1>5, <1>1 DEF TableInv, RowsRead
  <2>2. row.signal = per_file[1].signal + n
    <3>1. CASE n = 0
      BY <3>1, <1>3, <1>4
    <3>2. CASE n > 0
      <4>1. n \in 1..(Len(per_file) - 1) /\ n \in 1..n
        BY <3>2, <1>4, <1>3
      <4>2. per_file[n + 1].signal = per_file[n].signal + 1
        BY <4>1, <1>5 DEF WellFormed
      <4>3. per_file[n].signal = per_file[1].signal + n - 1
        BY <4>1, <2>1
      <4>4. per_file[1].signal \in Int
        BY <1>3, <1>4
      <4> QED
        BY <4>2, <4>3, <4>4, <1>4
    <3> QED
      BY <3>1, <3>2, <1>4
  <2>3. per_file[1].signal \in Int /\ per_file[1].signal <= 1000 /\ row.signal \in Int
    BY <1>3, <1>4
  <2>4. per_matrix_signal_min' = per_file[1].signal
    <3>1. per_matrix_signal_min \in Int
      BY <2>1, <2>3
    <3>2. per_matrix_signal_min' =
             IF per_matrix_signal_min <= row.signal THEN per_matrix_signal_min
             ELSE row.signal
      BY <3>1, <2>3, <1>1, MinOfTwo
    <3> QED
      BY <3>2, <2>1, <2>2, <2>3, <1>4
  <2>5. at = n
    BY <2>2, <2>3, <2>4, <1>4
  <2>6. pc' # "overrun"
    BY <2>5, <1>1, <1>4
  <2>7. ASSUME NEW k \in 1..(n + 1)
        PROVE  /\ per_file[k].signal = per_file[1].signal + k - 1
               /\ per_matrix'[k - 1] = per_file[k].per
    <3>1. CASE k = n + 1
      <4>1. k - 1 = n /\ n \in 0..n
        BY <3>1, <1>4
      <4>2. per_matrix'[n] = row.per
        BY <4>1, <2>5, <1>2
      <4> QED
        BY <3>1, <4>1, <4>2, <2>2, <2>3, <1>4
    <3>2. CASE k # n + 1
      <4>1. k \in 1..n /\ k - 1 \in 0..n /\ k - 1 # n /\ k - 1 < n
        BY <3>2, <1>4
      <4>2. per_matrix'[k - 1] = per_matrix[k - 1]
        BY <4>1, <2>5, <1>2
      <4> QED
        BY <4>1, <4>2, <2>1
    <3> QED
      BY <3>1, <3>2
  <2>8. n' # 0
    BY <1>1, <1>4
  <2> QED
    BY <2>4, <2>6, <2>7, <2>8, <1>1 DEF RowsRead
<1>6. pc' \in {"read", "overrun"}
  BY <1>1
<1>7. n' \in 0..Len(per_file)
  BY <1>1, <1>4
<1> QED
  BY <1>1, <1>5, <1>6, <1>7 DEF TableInv, WellFormed

LEMMA TableStep == TableInv /\ [Next]_vars => TableInv'
<1> SUFFICES ASSUME TableInv, [Next]_vars PROVE TableInv'
  OBVIOUS
<1>1. CASE ReadRow
  BY <1>1, ReadRowKeeps
<1>2. CASE ReadEnds
  BY <1>2 DEF ReadEnds, per_vars, TableInv, RowsRead, WellFormed
<1>3. ASSUME /\ UNCHANGED <<mode, per_vars>>
             /\ pc' = pc \/ (pc \notin {"read", "overrun"}
                             /\ pc' \notin {"read", "overrun"})
      PROVE  TableInv'
  BY <1>3 DEF per_vars, TableInv, RowsRead, WellFormed
<1>4. ASSUME NEW f \in Frames, QueueFrame(f) PROVE TableInv'
  BY <1>4, <1>3 DEF QueueFrame
<1>5. CASE TryRate \/ Attempt \/ RateFailed \/ AttemptsEnd
  BY <1>5, <1>3 DEF TryRate, Attempt, RateFailed, AttemptsEnd
<1>6. CASE DeliverFrame \/ SendTxInfo \/ IntfUpdate \/ UNCHANGED vars
  BY <1>6, <1>3 DEF DeliverFrame, SendTxInfo, IntfUpdate, vars
<1> QED
  BY <1>1, <1>2, <1>4, <1>5, <1>6 DEF Next

LEMMA TableAlways == Spec => []TableInv
BY TableInit, TableStep, PTL DEF Spec

\* get_error_prob_from_per_matrix() by cases, for an index within the band.
IsLookup(at, idx, result) ==
    /\ at < 0 => result = {One}
    /\ at >= per_matrix_row_num => result = {0}
    /\ /\ at \in 0..(per_matrix_row_num - 1)
       /\ per_matrix[at] # Uninitialized
       => result = {per_matrix[at][1 + idx]}

LEMMA LookupCases ==
    ASSUME NEW level, NEW idx, NEW freq, NEW at \in Int,
           RowAt(level + NOISE_LEVEL) = at, per_matrix_row_num \in Nat,
           RateIndex(idx, freq) = idx, ~(idx >= rate_len)
    PROVE  IsLookup(at, idx, get_error_prob_from_per_matrix(level, idx, freq))
<1>1. CASE at < 0
  BY <1>1 DEF get_error_prob_from_per_matrix, IsLookup
<1>2. CASE at >= per_matrix_row_num
  BY <1>2 DEF get_error_prob_from_per_matrix, IsLookup
<1>3. CASE at \in 0..(per_matrix_row_num - 1) /\ per_matrix[at] # Uninitialized
  BY <1>3 DEF get_error_prob_from_per_matrix, IsLookup
<1> QED
  BY <1>1, <1>2, <1>3 DEF IsLookup

\* The reference definition by the same cases.
LEMMA ReferenceCases ==
    ASSUME NEW signal, NEW idx
    PROVE  LET reference == FileErrorProb(signal, idx) IN
           /\ (\A k \in DOMAIN per_file : /\ signal < per_file[k].signal
                                          /\ per_file[k].signal # signal)
              => reference = {One}
           /\ /\ \A k \in DOMAIN per_file : per_file[k].signal # signal
              /\ \E k \in DOMAIN per_file : ~(signal < per_file[k].signal)
              => reference = {0}
           /\ \A m \in DOMAIN per_file :
                 /\ per_file[m].signal = signal
                 /\ \A k \in DOMAIN per_file : per_file[k].signal = signal => k = m
                 => reference = {per_file[m].per[1 + idx]}
<1> DEFINE rows == {k \in DOMAIN per_file : per_file[k].signal = signal}
<1>1. ASSUME \A k \in DOMAIN per_file : per_file[k].signal # signal
      PROVE  FileErrorProb(signal, idx) =
                IF \A k \in DOMAIN per_file : signal < per_file[k].signal
                THEN {One} ELSE {0}
  <2>1. rows = {}
    BY <1>1
  <2> QED
    BY <2>1, Zenon DEF FileErrorProb
<1>2. ASSUME NEW m \in DOMAIN per_file, per_file[m].signal = signal,
             \A k \in DOMAIN per_file : per_file[k].signal = signal => k = m
      PROVE  FileErrorProb(signal, idx) = {per_file[m].per[1 + idx]}
  <2>1. rows = {m}
    BY <1>2
  <2>2. FileErrorProb(signal, idx) = {per_file[k].per[1 + idx] : k \in rows}
    BY <2>1, Zenon DEF FileErrorProb
  <2> HIDE DEF rows
  <2> QED
    BY <2>1, <2>2
<1> QED
  BY <1>1, <1>2, Zenon

LEMMA RowNotEmpty ==
    ASSUME NEW per \in [1..rate_len -> Probability]
    PROVE  per # Uninitialized
<1>1. rate_len = 12
  BY DEF rate_len, rateset
<1>2. 1 \in DOMAIN per
  BY <1>1
<1>3. DOMAIN Uninitialized = {}
  BY DEF Uninitialized
<1> QED
  BY <1>2, <1>3

\* Once a well-formed file is read, the table agrees with the file.
LEMMA LookupFaithful ==
    ASSUME TableInv, pc = "idle", mode = "per", WellFormed(per_file),
           NEW signal \in Int, NEW level, NEW freq, NEW idx,
           level + NOISE_LEVEL = signal,
           RateIndex(idx, freq) = idx, ~(idx >= rate_len),
           Len(per_file) = 0 => signal < per_matrix_signal_min,
           per_matrix_signal_min \in Int
    PROVE  get_error_prob_from_per_matrix(level, idx, freq)
              = FileErrorProb(signal, idx)
<1> DEFINE n == Len(per_file)
           first == per_file[1].signal
           at == signal - per_matrix_signal_min
           result == get_error_prob_from_per_matrix(level, idx, freq)
<1>1. /\ n \in Nat /\ DOMAIN per_file = 1..n
      /\ \A k \in 1..n : /\ per_file[k].signal \in Int
                         /\ per_file[k].per \in [1..rate_len -> Probability]
  BY FileType DEF TableInv
<1>2. /\ per_matrix_row_num = n
      /\ n > 0 => per_matrix_signal_min = first
      /\ \A k \in 1..n : per_file[k].signal = first + k - 1
      /\ \A k \in 1..n : per_matrix[k - 1] = per_file[k].per
  BY <1>1 DEF TableInv, RowsRead
<1>3. at \in Int /\ RowAt(level + NOISE_LEVEL) = at
  BY DEF RowAt
<1>4. /\ at < 0 => result = {One}
      /\ at >= n => result = {0}
      /\ at \in 0..(n - 1) /\ per_matrix[at] # Uninitialized
            => result = {per_matrix[at][1 + idx]}
  <2> HIDE DEF at, n
  <2>1. per_matrix_row_num \in Nat
    BY <1>1, <1>2
  <2>2. IsLookup(at, idx, result)
    BY <2>1, <1>3, LookupCases, Zenon
  <2> HIDE DEF result
  <2> QED
    BY <2>2, <1>2 DEF IsLookup
<1> HIDE DEF result
<1>5. CASE at < 0
  <2>1. \A k \in 1..n : signal < per_file[k].signal /\ per_file[k].signal # signal
    <3> SUFFICES ASSUME NEW k \in 1..n
                 PROVE  signal < per_file[k].signal
      BY <1>1
    <3>1. n > 0 /\ first \in Int /\ per_file[k].signal = first + k - 1
      BY <1>1, <1>2
    <3>2. signal < first
      BY <3>1, <1>5, <1>2
    <3> QED
      BY <3>1, <3>2
  <2>2. FileErrorProb(signal, idx) = {One}
    BY <2>1, <1>1, ReferenceCases
  <2> QED
    BY <2>2, <1>4, <1>5 DEF result
<1>6. CASE at >= n
  <2>1. n > 0
    BY <1>6, <1>1, <1>3
  <2>2. first \in Int /\ signal - first >= n /\ 1 \in 1..n
    BY <2>1, <1>1, <1>2, <1>6
  <2>3. \A k \in 1..n : per_file[k].signal # signal
    <3> SUFFICES ASSUME NEW k \in 1..n, per_file[k].signal = signal
                 PROVE  FALSE
      OBVIOUS
    <3>1. signal = first + k - 1
      BY <1>2
    <3> QED
      BY <3>1, <2>2, <1>1
  <2>4. ~(signal < per_file[1].signal)
    BY <2>2, <2>1, <1>1
  <2>5. FileErrorProb(signal, idx) = {0}
    BY <2>2, <2>3, <2>4, <1>1, ReferenceCases
  <2> QED
    BY <2>5, <1>4, <1>6 DEF result
<1>7. CASE at \in 0..(n - 1)
  <2> DEFINE m == at + 1
  <2>1. n > 0 /\ first \in Int /\ m \in 1..n /\ m - 1 = at
    BY <1>7, <1>1, <1>3
  <2>2. at = signal - first
    BY <2>1, <1>2
  <2>3. m = signal - first + 1
    BY <2>2
  <2> HIDE DEF m, at
  <2>4. per_matrix[at] = per_file[m].per
    BY <2>1, <1>2
  <2>5. per_file[m].per # Uninitialized
    BY <2>1, <1>1, RowNotEmpty
  <2>6. result = {per_file[m].per[1 + idx]}
    BY <2>4, <2>5, <1>4, <1>7
  <2>7. per_file[m].signal = signal
    <3>1. per_file[m].signal = first + m - 1
      BY <2>1, <1>2
    <3> HIDE DEF first
    <3> QED
      BY <3>1, <2>1, <2>3
  <2>8. ASSUME NEW k \in 1..n, per_file[k].signal = signal
        PROVE  k = m
    <3>1. signal = first + k - 1
      BY <2>8, <1>2
    <3> HIDE DEF first
    <3> QED
      BY <3>1, <2>1, <2>3
  <2>9. FileErrorProb(signal, idx) = {per_file[m].per[1 + idx]}
    BY <2>1, <2>7, <2>8, <1>1, ReferenceCases
  <2> QED
    BY <2>6, <2>9 DEF result
<1> QED
  BY <1>1, <1>3, <1>5, <1>6, <1>7

(***************************************************************************)
(* read_per_file() reads a well-formed file, of any length and any signals,*)
(* into its table without writing past its end, and                        *)
(* get_error_prob_from_per_matrix() gives every signal the row of the file *)
(* that is about it.                                                       *)
(***************************************************************************)
THEOREM PerTableFaithful == Spec => []PerFileFaithful
<1>1. TableInv => PerFileFaithful
  <2> SUFFICES ASSUME TableInv PROVE PerFileFaithful
    OBVIOUS
  <2>1. pc = "overrun" => ~WellFormed(per_file)
    BY DEF TableInv, RowsRead
  <2>2. ASSUME pc = "idle", mode = "per", WellFormed(per_file),
               NEW signal \in -95..-85, NEW idx \in 0..(rate_len - 1)
        PROVE  get_error_prob_from_per_matrix(signal - NOISE_LEVEL, idx, 2412)
                  = FileErrorProb(signal, idx)
    <3>1. /\ Len(per_file) \in Nat
          /\ Len(per_file) > 0 => per_file[1].signal \in Int
      BY <2>2, FileType DEF TableInv
    <3>2. /\ Len(per_file) = 0 => signal < per_matrix_signal_min
          /\ per_matrix_signal_min \in Int
      BY <2>2, <3>1 DEF TableInv, RowsRead
    <3>3. signal \in Int /\ (signal - NOISE_LEVEL) + NOISE_LEVEL = signal
      BY DEF NOISE_LEVEL
    <3>4. RateIndex(idx, 2412) = idx /\ ~(idx >= rate_len)
      BY DEF RateIndex, rate_len, rateset
    <3> QED
      BY <2>2, <3>2, <3>3, <3>4, LookupFaithful
  <2> QED
    BY <2>1, <2>2 DEF PerFileFaithful
<1> QED
  BY <1>1, TableAlways, PTL
-----------------------------------------------------------------------------
(* The inductive invariant of the loops in queue_frame().                  *)

\* The table holds rows of the file, or what was never written.
TableTyped ==
    mode = "per" =>
        /\ per_file \in PerFiles
        /\ per_matrix_row_num \in Nat /\ per_matrix_signal_min \in Int
        /\ \A k \in 0..(per_matrix_row_num - 1) :
              \/ per_matrix[k] = Uninitialized
              \/ per_matrix[k] \in [1..rate_len -> Probability]

\* The variables have their types, the window is within its limits.
LoopTyped ==
    /\ tx_rates \in Seq(TxRate) /\ Len(tx_rates) <= TX_MAX_RATES
    /\ i \in 1..(Len(tx_rates) + 1) /\ j \in 0..255
    /\ frame # <<>> => frame \in Frames
    /\ Sending => frame \in Frames
    /\ frame # <<>> => LET ac == frame_select_queue_80211(frame)
                       IN  cw \in cw_min(ac)..cw_max(ac)
    /\ error_prob \in Probability
    /\ send_time \in Nat /\ is_acked \in BOOLEAN /\ receivers \subseteq Station
    /\ \A k \in Station : intf[k].duration \in Nat /\ intf[k].prob_col \in Nat
    /\ sent \in 0..MaxFrames

\* After n rates, and done attempts at the next one: r attempts were made, t is
\* their time and w the window.
Counted(f, rates, n, done, r, t, w) ==
    LET again == Repeats(rates, n) + IF done = 0 THEN 0 ELSE done - 1
        ac == frame_select_queue_80211(f)
        on_air == TimeOnAir(f, rates, n)
                  + IF done = 0 THEN 0 ELSE done * OnAir(f, rates[n + 1])
    IN  /\ r = Attempts(rates, n) + done
        /\ Multicast(f) => t = on_air
        /\ ~Multicast(f) =>
              /\ t = on_air + r * ack_time_usec(f.freq) + Backoffs(ac, again)
              /\ w = Window(ac, again)

Progress(f, rates, n, done) ==
    Counted(f, rates, n, done, retries, send_time, cw)

\* Where the two loops are: every rate before the current one was used up.
LoopInv ==
    /\ pc \in {"rate", "attempt", "end"} =>
          \A k \in 1..(i - 1) : tx_rates[k].idx >= 0
    /\ pc = "rate" => Progress(frame, tx_rates, i - 1, 0)
    /\ pc = "attempt" => /\ i <= Len(tx_rates) /\ tx_rates[i].idx >= 0
                         /\ j <= tx_rates[i].count
                         /\ Progress(frame, tx_rates, i - 1, j)
    /\ pc = "end" /\ is_acked => /\ i <= Len(tx_rates) /\ tx_rates[i].idx >= 0
                                 /\ j < tx_rates[i].count
                                 /\ Progress(frame, tx_rates, i - 1, j + 1)
    /\ pc = "end" /\ ~is_acked => /\ i <= Len(tx_rates) => tx_rates[i].idx < 0
                                  /\ Progress(frame, tx_rates, i - 1, 0)

\* The rates of a probe request that came without any.
ProbeInv ==
    Sending /\ frame_is_probe_req(frame) /\ frame_has_zero_rates(frame.tx_rates) =>
        /\ Len(tx_rates) > 0 => tx_rates[1].idx >= 0
        /\ \A k \in 1..Len(tx_rates) : tx_rates[k].idx <= 7

AccountInv ==
    /\ TableTyped /\ LoopTyped /\ LoopInv /\ ProbeInv
    /\ ReportMatchesAttempts /\ AirtimeOfReport
-----------------------------------------------------------------------------
(* Sums and powers: what a recursion over the first numbers computes.      *)

(***************************************************************************)
(* A search from the front ends: a non-empty set of numbers has a first.   *)
(***************************************************************************)
LEMMA FirstPosition ==
    ASSUME NEW T, T \subseteq Nat, T # {}
    PROVE  \E x \in T : \A y \in T : x <= y
<1>1. PICK x \in T : \A y \in T : ~(<<y, x>> \in OpToRel(<, Nat))
  BY NatLessThanWellFounded, WFMin
<1>2. \A y \in T : ~(y < x)
  BY <1>1 DEF OpToRel
<1> QED
  BY <1>2

(***************************************************************************)
(* Induction up to a bound, for a set instead of a predicate: the smallest *)
(* number outside of it would have a predecessor inside.                   *)
(***************************************************************************)
LEMMA Induct ==
    ASSUME NEW N \in Nat, NEW T, 0 \in T, \A n \in 0..(N - 1) : n \in T => n + 1 \in T
    PROVE  \A n \in 0..N : n \in T
<1> DEFINE Out == {n \in 0..N : n \notin T}
<1>1. SUFFICES ASSUME Out # {} PROVE FALSE
  OBVIOUS
<1>2. Out \subseteq Nat
  OBVIOUS
<1>3. PICK x \in Out : \A y \in Out : x <= y
  <2> HIDE DEF Out
  <2> QED
    BY <1>1, <1>2, FirstPosition
<1>4. x # 0
  BY <1>3
<1>5. x - 1 \in 0..(N - 1) /\ x - 1 \in T
  BY <1>3, <1>4
<1> QED
  BY <1>3, <1>5

(***************************************************************************)
(* A loop that goes from one value of a set to the next defines its        *)
(* values.                                                                 *)
(***************************************************************************)
Steps(step, N, S) == step \in [S \X (1..N) -> S]
Loop(g, N, S, b, step) ==
    g \in [0..N -> S] /\ g[0] = b /\ \A n \in 1..N : g[n] = step[<<g[n - 1], n>>]

LEMMA Recursion ==
    ASSUME NEW N \in Nat, NEW S, NEW b \in S, NEW step, Steps(step, N, S)
    PROVE  \E g : Loop(g, N, S, b, step)
<1>0. step \in [S \X (1..N) -> S]
  BY DEF Steps
<1> DEFINE T == {m \in 0..N : \E g \in [0..m -> S] :
                    g[0] = b /\ \A n \in 1..m : g[n] = step[<<g[n - 1], n>>]}
<1>1. 0 \in T
  <2> DEFINE g == [n \in 0..0 |-> b]
  <2>1. g \in [0..0 -> S] /\ g[0] = b
    OBVIOUS
  <2>2. \A n \in 1..0 : g[n] = step[<<g[n - 1], n>>]
    OBVIOUS
  <2> HIDE DEF g
  <2> QED
    BY <2>1, <2>2
<1>2. ASSUME NEW m \in 0..(N - 1), m \in T PROVE m + 1 \in T
  <2>1. PICK g \in [0..m -> S] :
            g[0] = b /\ \A n \in 1..m : g[n] = step[<<g[n - 1], n>>]
    BY <1>2
  <2> DEFINE h == [n \in 0..(m + 1) |-> IF n <= m THEN g[n] ELSE step[<<g[m], m + 1>>]]
  <2>2. g[m] \in S /\ m + 1 \in 1..N /\ m \in Nat
    BY <2>1
  <2>3. step[<<g[m], m + 1>>] \in S
    BY <2>2, <1>0
  <2>4. h \in [0..(m + 1) -> S]
    BY <2>3
  <2>5. h[0] = b
    BY <2>1
  <2>6. ASSUME NEW n \in 1..(m + 1) PROVE h[n] = step[<<h[n - 1], n>>]
    <3>1. n - 1 \in 0..m /\ h[n - 1] = g[n - 1]
      OBVIOUS
    <3>2. CASE n <= m
      BY <3>2, <3>1, <2>1
    <3>3. CASE n = m + 1
      <4>1. h[n] = step[<<g[m], m + 1>>] /\ n - 1 = m
        BY <3>3, <2>2
      <4> QED
        BY <3>3, <3>1, <4>1
    <3> QED
      BY <3>2, <3>3
  <2> HIDE DEF h
  <2>7. m + 1 \in 0..N
    BY <2>2
  <2> QED
    BY <2>4, <2>5, <2>6, <2>7
<1> HIDE DEF T
<1>3. N \in T
  BY <1>1, <1>2, Induct
<1> QED
  BY <1>3 DEF T, Loop

SumEq(v, n, f) == f = [k \in 0..n |-> IF k = 0 THEN 0 ELSE f[k - 1] + v[k]]
PowEq(n, f) == f = [k \in 0..n |-> IF k = 0 THEN 1 ELSE 2 * f[k - 1]]

\* The recursion of a sum is well defined, and its values are numbers.
LEMMA SumSteps ==
    ASSUME NEW n \in Nat, NEW v \in [1..n -> Int]
    PROVE  \E s \in [0..n -> Int] :
              /\ SumTo(v, n) = s[n] /\ s[0] = 0
              /\ \A k \in 1..n : s[k] = s[k - 1] + v[k]
<1> DEFINE step == [x \in Int \X (1..n) |-> x[1] + v[x[2]]]
<1>1. step \in [Int \X (1..n) -> Int]
  OBVIOUS
<1>2. \A a \in Int, k \in 1..n : step[<<a, k>>] = a + v[k]
  OBVIOUS
<1> HIDE DEF step
<1>3. PICK g : Loop(g, n, Int, 0, step)
  <2>1. Steps(step, n, Int)
    BY <1>1 DEF Steps
  <2>2. 0 \in Int
    OBVIOUS
  <2> QED
    BY <2>1, <2>2, Recursion, Zenon
<1>4. g \in [0..n -> Int] /\ g[0] = 0 /\ \A k \in 1..n : g[k] = g[k - 1] + v[k]
  <2>1. g \in [0..n -> Int] /\ g[0] = 0 /\ \A k \in 1..n : g[k] = step[<<g[k - 1], k>>]
    BY <1>3 DEF Loop
  <2>2. ASSUME NEW k \in 1..n PROVE g[k] = g[k - 1] + v[k]
    <3>1. k - 1 \in 0..n /\ g[k - 1] \in Int
      BY <2>1
    <3> QED
      BY <3>1, <2>1, <1>2
  <2> QED
    BY <2>1, <2>2
<1>5. SumEq(v, n, g)
  <2>1. \A k \in 0..n : g[k] = IF k = 0 THEN 0 ELSE g[k - 1] + v[k]
    BY <1>4
  <2> QED
    BY <2>1, <1>4 DEF SumEq
<1> DEFINE s == CHOOSE h : SumEq(v, n, h)
<1>6. SumEq(v, n, s)
  BY <1>5, Zenon
<1>7. SumTo(v, n) = s[n]
  BY Zenon DEF SumTo, SumEq
<1> HIDE DEF s
<1>8. DOMAIN s = 0..n /\ s[0] = 0 /\ \A k \in 1..n : s[k] = s[k - 1] + v[k]
  BY <1>6 DEF SumEq
<1>9. \A k \in 0..n : k \in {m \in 0..n : s[m] \in Int}
  <2> DEFINE T == {m \in 0..n : s[m] \in Int}
  <2>1. 0 \in T
    BY <1>8
  <2>2. ASSUME NEW k \in 0..(n - 1), k \in T PROVE k + 1 \in T
    <3>1. k + 1 \in 1..n /\ (k + 1) - 1 = k
      OBVIOUS
    <3>2. s[k + 1] = s[k] + v[k + 1]
      BY <3>1, <1>8
    <3> QED
      BY <3>1, <3>2, <2>2
  <2> HIDE DEF T
  <2>3. \A k \in 0..n : k \in T
    BY <2>1, <2>2, Induct
  <2> QED
    BY <2>3 DEF T
<1>10. s = [k \in 0..n |-> s[k]]
  BY <1>6 DEF SumEq
<1>11. s \in [0..n -> Int]
  BY <1>9, <1>10
<1> QED
  BY <1>7, <1>8, <1>11

\* A sum of one number more.
LEMMA SumNext ==
    ASSUME NEW n \in Nat, NEW v \in [1..(n + 1) -> Int], NEW w \in [1..n -> Int],
           \A k \in 1..n : w[k] = v[k]
    PROVE  /\ SumTo(w, n) \in Int
           /\ SumTo(v, n + 1) = SumTo(w, n) + v[n + 1]
<1>1. n + 1 \in Nat
  OBVIOUS
<1>2. PICK s \in [0..(n + 1) -> Int] :
          /\ SumTo(v, n + 1) = s[n + 1] /\ s[0] = 0
          /\ \A k \in 1..(n + 1) : s[k] = s[k - 1] + v[k]
  BY <1>1, SumSteps
<1>3. PICK t \in [0..n -> Int] :
          /\ SumTo(w, n) = t[n] /\ t[0] = 0
          /\ \A k \in 1..n : t[k] = t[k - 1] + w[k]
  BY SumSteps
<1>4. \A k \in 0..n : k \in {m \in 0..n : s[m] = t[m]}
  <2> DEFINE T == {m \in 0..n : s[m] = t[m]}
  <2>1. 0 \in T
    BY <1>2, <1>3
  <2>2. ASSUME NEW k \in 0..(n - 1), k \in T PROVE k + 1 \in T
    <3>1. k + 1 \in 1..n /\ k + 1 \in 1..(n + 1) /\ (k + 1) - 1 = k /\ k + 1 \in 0..n
      OBVIOUS
    <3>2. s[k + 1] = s[k] + v[k + 1] /\ t[k + 1] = t[k] + w[k + 1]
      BY <3>1, <1>2, <1>3
    <3> QED
      BY <3>1, <3>2, <2>2
  <2> HIDE DEF T
  <2>3. \A k \in 0..n : k \in T
    BY <2>1, <2>2, Induct
  <2> QED
    BY <2>3 DEF T
<1>5. s[n] = t[n]
  BY <1>4
<1>6. n + 1 \in 1..(n + 1) /\ (n + 1) - 1 = n
  OBVIOUS
<1>7. s[n + 1] = s[n] + v[n + 1]
  BY <1>6, <1>2
<1> QED
  BY <1>2, <1>3, <1>5, <1>7

LEMMA SumOfNone ==
    ASSUME NEW v \in [1..0 -> Int]
    PROVE  SumTo(v, 0) = 0
<1>1. 0 \in Nat
  OBVIOUS
<1>2. \E s \in [0..0 -> Int] : SumTo(v, 0) = s[0] /\ s[0] = 0
  BY <1>1, SumSteps
<1> QED
  BY <1>2

\* The same for a power of two.
LEMMA PowSteps ==
    ASSUME NEW n \in Nat
    PROVE  \E s \in [0..n -> Nat] :
              /\ TwoTo(n) = s[n] /\ s[0] = 1
              /\ \A k \in 1..n : s[k] = 2 * s[k - 1]
<1> DEFINE step == [x \in Nat \X (1..n) |-> 2 * x[1]]
<1>1. step \in [Nat \X (1..n) -> Nat]
  OBVIOUS
<1>2. \A a \in Nat, k \in 1..n : step[<<a, k>>] = 2 * a
  OBVIOUS
<1> HIDE DEF step
<1>3. PICK g : Loop(g, n, Nat, 1, step)
  <2>1. Steps(step, n, Nat)
    BY <1>1 DEF Steps
  <2>2. 1 \in Nat
    OBVIOUS
  <2> QED
    BY <2>1, <2>2, Recursion, Zenon
<1>4. g \in [0..n -> Nat] /\ g[0] = 1 /\ \A k \in 1..n : g[k] = 2 * g[k - 1]
  <2>1. g \in [0..n -> Nat] /\ g[0] = 1 /\ \A k \in 1..n : g[k] = step[<<g[k - 1], k>>]
    BY <1>3 DEF Loop
  <2>2. ASSUME NEW k \in 1..n PROVE g[k] = 2 * g[k - 1]
    <3>1. k - 1 \in 0..n /\ g[k - 1] \in Nat
      BY <2>1
    <3> QED
      BY <3>1, <2>1, <1>2
  <2> QED
    BY <2>1, <2>2
<1>5. PowEq(n, g)
  <2>1. \A k \in 0..n : g[k] = IF k = 0 THEN 1 ELSE 2 * g[k - 1]
    BY <1>4
  <2> QED
    BY <2>1, <1>4 DEF PowEq
<1> DEFINE s == CHOOSE h : PowEq(n, h)
<1>6. PowEq(n, s)
  BY <1>5, Zenon
<1>7. TwoTo(n) = s[n]
  BY Zenon DEF TwoTo, PowEq
<1> HIDE DEF s
<1>8. DOMAIN s = 0..n /\ s[0] = 1 /\ \A k \in 1..n : s[k] = 2 * s[k - 1]
  BY <1>6 DEF PowEq
<1>9. \A k \in 0..n : k \in {m \in 0..n : s[m] \in Nat}
  <2> DEFINE T == {m \in 0..n : s[m] \in Nat}
  <2>1. 0 \in T
    BY <1>8
  <2>2. ASSUME NEW k \in 0..(n - 1), k \in T PROVE k + 1 \in T
    <3>1. k + 1 \in 1..n /\ (k + 1) - 1 = k
      OBVIOUS
    <3>2. s[k + 1] = 2 * s[k]
      BY <3>1, <1>8
    <3> QED
      BY <3>1, <3>2, <2>2
  <2> HIDE DEF T
  <2>3. \A k \in 0..n : k \in T
    BY <2>1, <2>2, Induct
  <2> QED
    BY <2>3 DEF T
<1>10. s = [k \in 0..n |-> s[k]]
  BY <1>6 DEF PowEq
<1>11. s \in [0..n -> Nat]
  BY <1>9, <1>10
<1> QED
  BY <1>7, <1>8, <1>11

LEMMA TwoToNext ==
    ASSUME NEW n \in Nat
    PROVE  TwoTo(0) = 1 /\ TwoTo(n) \in Nat /\ TwoTo(n + 1) = 2 * TwoTo(n)
<1>1. n + 1 \in Nat /\ 0 \in Nat
  OBVIOUS
<1>2. PICK s \in [0..(n + 1) -> Nat] :
          /\ TwoTo(n + 1) = s[n + 1] /\ s[0] = 1
          /\ \A k \in 1..(n + 1) : s[k] = 2 * s[k - 1]
  BY <1>1, PowSteps
<1>3. PICK t \in [0..n -> Nat] :
          /\ TwoTo(n) = t[n] /\ t[0] = 1
          /\ \A k \in 1..n : t[k] = 2 * t[k - 1]
  BY PowSteps
<1>4. \A k \in 0..n : k \in {m \in 0..n : s[m] = t[m]}
  <2> DEFINE T == {m \in 0..n : s[m] = t[m]}
  <2>1. 0 \in T
    BY <1>2, <1>3
  <2>2. ASSUME NEW k \in 0..(n - 1), k \in T PROVE k + 1 \in T
    <3>1. k + 1 \in 1..n /\ k + 1 \in 1..(n + 1) /\ (k + 1) - 1 = k /\ k + 1 \in 0..n
      OBVIOUS
    <3>2. s[k + 1] = 2 * s[k] /\ t[k + 1] = 2 * t[k]
      BY <3>1, <1>2, <1>3
    <3> QED
      BY <3>1, <3>2, <2>2
  <2> HIDE DEF T
  <2>3. \A k \in 0..n : k \in T
    BY <2>1, <2>2, Induct
  <2> QED
    BY <2>3 DEF T
<1>5. s[n] = t[n]
  BY <1>4
<1>6. n + 1 \in 1..(n + 1) /\ (n + 1) - 1 = n
  OBVIOUS
<1>7. s[n + 1] = 2 * s[n]
  BY <1>6, <1>2
<1>8. TwoTo(0) = 1
  <2>1. \E p \in [0..0 -> Nat] : TwoTo(0) = p[0] /\ p[0] = 1
    BY <1>1, PowSteps
  <2> QED
    BY <2>1
<1> QED
  BY <1>2, <1>3, <1>5, <1>7, <1>8

LEMMA TwoToPositive ==
    ASSUME NEW n \in Nat
    PROVE  TwoTo(n) >= 1
<1>1. PICK s \in [0..n -> Nat] :
          /\ TwoTo(n) = s[n] /\ s[0] = 1
          /\ \A k \in 1..n : s[k] = 2 * s[k - 1]
  BY PowSteps
<1> DEFINE T == {m \in 0..n : s[m] >= 1}
<1>2. 0 \in T
  BY <1>1
<1>3. ASSUME NEW k \in 0..(n - 1), k \in T PROVE k + 1 \in T
  <2>1. k + 1 \in 1..n /\ (k + 1) - 1 = k /\ k + 1 \in 0..n
    OBVIOUS
  <2>2. s[k + 1] = 2 * s[k]
    BY <2>1, <1>1
  <2> QED
    BY <2>1, <2>2, <1>3
<1> HIDE DEF T
<1>4. \A k \in 0..n : k \in T
  BY <1>2, <1>3, Induct
<1> QED
  BY <1>1, <1>4 DEF T
-----------------------------------------------------------------------------
(* What the report and the airtime are made of.                            *)

LEMMA RateTypes ==
    ASSUME NEW r \in TxRate
    PROVE  /\ r.idx \in -128..127 /\ r.count \in 0..255
           /\ r.idx \in Int /\ r.count \in Nat
           /\ r.idx >= 0 => r.idx \in Nat
<1>1. r.idx \in -128..127 /\ r.count \in 0..255
  BY DEF TxRate
<1> QED
  BY <1>1

LEMMA RatesTypes ==
    ASSUME NEW rates \in Seq(TxRate)
    PROVE  /\ Len(rates) \in Nat /\ DOMAIN rates = 1..Len(rates)
           /\ \A k \in 1..Len(rates) :
                 /\ rates[k] \in TxRate
                 /\ rates[k].idx \in -128..127 /\ rates[k].count \in 0..255
                 /\ rates[k].idx \in Int /\ rates[k].count \in Nat
<1>1. Len(rates) \in Nat /\ DOMAIN rates = 1..Len(rates)
  OBVIOUS
<1>2. \A k \in 1..Len(rates) : rates[k] \in TxRate
  OBVIOUS
<1> QED
  BY <1>1, <1>2, RateTypes

LEMMA FrameTypes ==
    ASSUME NEW f \in Frame
    PROVE  /\ f.src \in Station /\ f.len \in Nat /\ f.freq \in Nat
           /\ f.tx_rates \in Seq(TxRate) /\ f # <<>>
<1>1. f.src \in Station /\ f.len \in Nat /\ f.freq \in Nat
  BY DEF Frame
<1>2. f.tx_rates \in Seq(TxRate)
  BY Zenon DEF Frame
<1>3. "src" \in DOMAIN f
  BY DEF Frame
<1>4. DOMAIN <<>> = {}
  OBVIOUS
<1> QED
  BY <1>1, <1>2, <1>3, <1>4

LEMMA Categories ==
    ASSUME NEW f \in Frame
    PROVE  LET ac == frame_select_queue_80211(f) IN
           /\ ac \in 0..3
           /\ cw_min(ac) \in Nat /\ cw_max(ac) \in Nat /\ cw_min(ac) <= cw_max(ac)
<1>1. frame_select_queue_80211(f) \in 0..3
  <2>1. f.priority \in 0..7
    BY DEF Frame
  <2>2. \A x \in 1..8 : ieee802_1d_to_ac[x] \in 0..3
    BY DEF ieee802_1d_to_ac, AC_BE, AC_BK, AC_VI, AC_VO
  <2>3. ieee802_1d_to_ac[1 + f.priority] \in 0..3
    BY <2>1, <2>2
  <2>4. AC_VO \in 0..3 /\ AC_BE \in 0..3
    BY DEF AC_VO, AC_BE
  <2>5. CASE ~frame_is_data(f)
    BY <2>4, <2>5 DEF frame_select_queue_80211, frame_is_data_qos
  <2>6. CASE frame_is_data(f) /\ ~frame_is_data_qos(f)
    BY <2>4, <2>6 DEF frame_select_queue_80211
  <2>7. CASE frame_is_data_qos(f)
    BY <2>3, <2>7 DEF frame_select_queue_80211, frame_is_data_qos
  <2> QED
    BY <2>5, <2>6, <2>7
<1>2. ASSUME NEW ac \in 0..3
      PROVE  cw_min(ac) \in Nat /\ cw_max(ac) \in Nat /\ cw_min(ac) <= cw_max(ac)
  BY DEF cw_min, cw_max
<1> QED
  BY <1>1, <1>2

\* A frame takes some time on the air.
LEMMA Durations ==
    ASSUME NEW f \in Frame
    PROVE  /\ ack_time_usec(f.freq) \in Nat
           /\ \A r \in TxRate : r.idx >= 0 => OnAir(f, r) \in Nat
<1>1. ASSUME NEW idx \in Nat PROVE index_to_rate(idx, f.freq) \in Nat \ {0}
  <2> DEFINE x == RateIndex(idx, f.freq)
  <2>1. x \in Nat
    BY DEF RateIndex, Frame
  <2>2. rate_len = 12
    BY DEF rate_len, rateset
  <2> HIDE DEF x
  <2>3. Min({x, rate_len - 1}) \in 0..11
    BY <2>1, <2>2, MinOfTwo
  <2>4. \A y \in 1..12 : rateset[y] \in Nat \ {0}
    BY DEF rateset
  <2>5. 1 + Min({x, rate_len - 1}) \in 1..12
    BY <2>3
  <2> QED
    BY <2>4, <2>5 DEF index_to_rate, x
<1>2. ASSUME NEW a \in Nat, NEW b \in Nat \ {0} PROVE div_round(a, b) \in Nat
  <2>1. a + b - 1 \in Nat
    OBVIOUS
  <2> QED
    BY <2>1 DEF div_round
<1>3. ASSUME NEW len \in Nat, NEW rate \in Nat \ {0} PROVE pkt_duration(len, rate) \in Nat
  <2>1. (16 + 8 * len + 6) * 10 \in Nat /\ 4 * rate \in Nat \ {0}
    OBVIOUS
  <2>2. div_round((16 + 8 * len + 6) * 10, 4 * rate) \in Nat
    BY <2>1, <1>2
  <2> QED
    BY <2>2 DEF pkt_duration
<1>4. ack_time_usec(f.freq) \in Nat
  <2>1. index_to_rate(0, f.freq) \in Nat \ {0} /\ 14 \in Nat
    BY <1>1
  <2>2. pkt_duration(14, index_to_rate(0, f.freq)) \in Nat
    BY <2>1, <1>3
  <2> QED
    BY <2>2 DEF ack_time_usec, sifs
<1>5. ASSUME NEW r \in TxRate, r.idx >= 0 PROVE OnAir(f, r) \in Nat
  <2>1. r.idx \in Nat /\ f.len \in Nat
    BY <1>5, RateTypes, FrameTypes
  <2>2. pkt_duration(f.len, index_to_rate(r.idx, f.freq)) \in Nat
    BY <2>1, <1>1, <1>3
  <2> QED
    BY <2>2 DEF OnAir, difs, sifs, slot_time
<1> QED
  BY <1>4, <1>5

LEMMA SumOfNats ==
    ASSUME NEW n \in Nat, NEW v \in [1..n -> Nat]
    PROVE  SumTo(v, n) \in Nat
<1>1. v \in [1..n -> Int]
  OBVIOUS
<1>2. PICK s \in [0..n -> Int] :
          /\ SumTo(v, n) = s[n] /\ s[0] = 0
          /\ \A k \in 1..n : s[k] = s[k - 1] + v[k]
  BY <1>1, SumSteps
<1>3. \A k \in 0..n : k \in {m \in 0..n : s[m] \in Nat}
  <2> DEFINE T == {m \in 0..n : s[m] \in Nat}
  <2>1. 0 \in T
    BY <1>2
  <2>2. ASSUME NEW k \in 0..(n - 1), k \in T PROVE k + 1 \in T
    <3>1. k + 1 \in 1..n /\ (k + 1) - 1 = k /\ k + 1 \in 0..n
      OBVIOUS
    <3>2. s[k + 1] = s[k] + v[k + 1]
      BY <3>1, <1>2
    <3> QED
      BY <3>1, <3>2, <2>2
  <2> HIDE DEF T
  <2>3. \A k \in 0..n : k \in T
    BY <2>1, <2>2, Induct
  <2> QED
    BY <2>3 DEF T
<1> QED
  BY <1>2, <1>3

\* The rates that were used end before the first that is not set.
LEMMA UsedLength ==
    ASSUME NEW rates \in Seq(TxRate), NEW n \in 0..Len(rates),
           \A k \in 1..n : rates[k].idx >= 0,
           n < Len(rates) => rates[n + 1].idx < 0
    PROVE  Len(UsedRates(rates)) = n
<1> DEFINE I == {k \in 1..Len(rates) : rates[k].idx < 0}
<1>0. Len(rates) \in Nat /\ \A k \in 1..Len(rates) : rates[k].idx \in Int
  BY RatesTypes
<1>1. ValidRates(rates) = IF I # {} THEN Min(I) ELSE 0
  BY Zenon DEF ValidRates, SelectInSeq
<1>2. CASE n = Len(rates)
  <2>1. I = {}
    BY <1>2, <1>0
  <2>2. ValidRates(rates) = 0
    BY <2>1, <1>1
  <2> QED
    BY <2>2, <1>2 DEF UsedRates
<1>3. CASE n < Len(rates)
  <2>1. n + 1 \in I /\ \A k \in I : n + 1 <= k
    BY <1>3, <1>0
  <2>2. I \subseteq Nat
    OBVIOUS
  <2> HIDE DEF I
  <2>3. Min(I) = n + 1
    <3>1. \A x \in I : (\A y \in I : x <= y) => x = n + 1
      BY <2>1, <2>2
    <3> QED
      BY <2>1, <3>1 DEF Min
  <2>4. ValidRates(rates) = n + 1
    BY <2>1, <2>3, <1>1
  <2>5. UsedRates(rates) = SubSeq(rates, 1, n)
    BY <2>4 DEF UsedRates
  <2> QED
    BY <2>5, <1>3
<1> QED
  BY <1>2, <1>3

\* The first rates: their sums.
LEMMA RateSums ==
    ASSUME NEW f \in Frame, NEW rates \in Seq(TxRate), NEW n \in 0..Len(rates),
           \A k \in 1..n : rates[k].idx >= 0
    PROVE  /\ Attempts(rates, n) \in Nat /\ TimeOnAir(f, rates, n) \in Nat
           /\ Repeats(rates, n) \in Nat
           /\ n = 0 => /\ Attempts(rates, n) = 0 /\ TimeOnAir(f, rates, n) = 0
                       /\ Repeats(rates, n) = 0
<1>0. n \in Nat
  OBVIOUS
<1>1. ASSUME NEW k \in 1..n
      PROVE  /\ rates[k].count \in Nat
             /\ rates[k].count * OnAir(f, rates[k]) \in Nat
             /\ (IF rates[k].count = 0 THEN 0 ELSE rates[k].count - 1) \in Nat
  <2> DEFINE r == rates[k]
  <2>1. r \in TxRate /\ r.idx >= 0
    OBVIOUS
  <2> HIDE DEF r
  <2>2. r.count \in Nat /\ OnAir(f, r) \in Nat
    BY <2>1, Durations, RateTypes
  <2>3. r.count * OnAir(f, r) \in Nat /\ (IF r.count = 0 THEN 0 ELSE r.count - 1) \in Nat
    BY <2>2
  <2> QED
    BY <2>2, <2>3 DEF r
<1> DEFINE A == [k \in 1..n |-> rates[k].count]
           T == [k \in 1..n |-> rates[k].count * OnAir(f, rates[k])]
           R == [k \in 1..n |-> IF rates[k].count = 0 THEN 0 ELSE rates[k].count - 1]
<1>2. A \in [1..n -> Nat] /\ T \in [1..n -> Nat] /\ R \in [1..n -> Nat]
  BY <1>1
<1>3. /\ Attempts(rates, n) = SumTo(A, n) /\ TimeOnAir(f, rates, n) = SumTo(T, n)
      /\ Repeats(rates, n) = SumTo(R, n)
  BY DEF Attempts, TimeOnAir, Repeats
<1> HIDE DEF A, T, R
<1>4. SumTo(A, n) \in Nat /\ SumTo(T, n) \in Nat /\ SumTo(R, n) \in Nat
  BY <1>0, <1>2, SumOfNats
<1>5. ASSUME n = 0 PROVE SumTo(A, n) = 0 /\ SumTo(T, n) = 0 /\ SumTo(R, n) = 0
  <2>1. A \in [1..0 -> Int] /\ T \in [1..0 -> Int] /\ R \in [1..0 -> Int]
    BY <1>2, <1>5
  <2> QED
    BY <2>1, <1>5, SumOfNone
<1> QED
  BY <1>3, <1>4, <1>5

\* One rate more, of a report that agrees with the rates so far.
LEMMA OneMoreRate ==
    ASSUME NEW f \in Frame, NEW rates \in Seq(TxRate), NEW other \in Seq(TxRate),
           NEW n \in Nat, n <= Len(rates), n + 1 <= Len(other),
           \A k \in 1..n : other[k] = rates[k],
           \A k \in 1..(n + 1) : other[k].idx >= 0
    PROVE  /\ Attempts(other, n + 1) = Attempts(rates, n) + other[n + 1].count
           /\ TimeOnAir(f, other, n + 1)
                 = TimeOnAir(f, rates, n) + other[n + 1].count * OnAir(f, other[n + 1])
           /\ Repeats(other, n + 1)
                 = Repeats(rates, n)
                   + IF other[n + 1].count = 0 THEN 0 ELSE other[n + 1].count - 1
<1>1. ASSUME NEW k \in 1..(n + 1)
      PROVE  /\ other[k].count \in Int
             /\ other[k].count * OnAir(f, other[k]) \in Int
             /\ (IF other[k].count = 0 THEN 0 ELSE other[k].count - 1) \in Int
  <2> DEFINE r == other[k]
  <2>1. r \in TxRate /\ r.idx >= 0
    OBVIOUS
  <2> HIDE DEF r
  <2>2. r.count \in Nat /\ OnAir(f, r) \in Nat
    BY <2>1, Durations, RateTypes
  <2>3. r.count * OnAir(f, r) \in Int /\ (IF r.count = 0 THEN 0 ELSE r.count - 1) \in Int
    BY <2>2
  <2> QED
    BY <2>2, <2>3 DEF r
<1> DEFINE C(s, m) == [k \in 1..m |-> s[k].count]
           T(s, m) == [k \in 1..m |-> s[k].count * OnAir(f, s[k])]
           R(s, m) == [k \in 1..m |-> IF s[k].count = 0 THEN 0 ELSE s[k].count - 1]
<1>2. /\ C(other, n + 1) \in [1..(n + 1) -> Int] /\ T(other, n + 1) \in [1..(n + 1) -> Int]
      /\ R(other, n + 1) \in [1..(n + 1) -> Int]
  BY <1>1
<1>3. \A k \in 1..n : k \in 1..(n + 1)
  OBVIOUS
<1>4. /\ C(rates, n) \in [1..n -> Int] /\ T(rates, n) \in [1..n -> Int]
      /\ R(rates, n) \in [1..n -> Int]
  BY <1>1, <1>3
<1>5. /\ \A k \in 1..n : C(rates, n)[k] = C(other, n + 1)[k]
      /\ \A k \in 1..n : T(rates, n)[k] = T(other, n + 1)[k]
      /\ \A k \in 1..n : R(rates, n)[k] = R(other, n + 1)[k]
  BY <1>3
<1>6. n + 1 \in 1..(n + 1)
  OBVIOUS
<1>7. /\ C(other, n + 1)[n + 1] = other[n + 1].count
      /\ T(other, n + 1)[n + 1] = other[n + 1].count * OnAir(f, other[n + 1])
      /\ R(other, n + 1)[n + 1] = IF other[n + 1].count = 0 THEN 0
                                  ELSE other[n + 1].count - 1
  BY <1>6
<1>8. /\ Attempts(other, n + 1) = SumTo(C(other, n + 1), n + 1)
      /\ Attempts(rates, n) = SumTo(C(rates, n), n)
      /\ TimeOnAir(f, other, n + 1) = SumTo(T(other, n + 1), n + 1)
      /\ TimeOnAir(f, rates, n) = SumTo(T(rates, n), n)
      /\ Repeats(other, n + 1) = SumTo(R(other, n + 1), n + 1)
      /\ Repeats(rates, n) = SumTo(R(rates, n), n)
  BY DEF Attempts, TimeOnAir, Repeats
<1> HIDE DEF C, T, R
<1>9. SumTo(C(other, n + 1), n + 1) = SumTo(C(rates, n), n) + C(other, n + 1)[n + 1]
  BY <1>2, <1>4, <1>5, SumNext
<1>10. SumTo(T(other, n + 1), n + 1) = SumTo(T(rates, n), n) + T(other, n + 1)[n + 1]
  BY <1>2, <1>4, <1>5, SumNext
<1>11. SumTo(R(other, n + 1), n + 1) = SumTo(R(rates, n), n) + R(other, n + 1)[n + 1]
  BY <1>2, <1>4, <1>5, SumNext
<1> QED
  BY <1>7, <1>8, <1>9, <1>10, <1>11

\* The window after one backoff more, and the time of the backoffs.
LEMMA WindowNext ==
    ASSUME NEW ac \in 0..3, NEW n \in Nat
    PROVE  /\ Window(ac, 0) = cw_min(ac) /\ Window(ac, n) \in Nat
           /\ Window(ac, n + 1) = Min({2 * Window(ac, n) + 1, cw_max(ac)})
<1> DEFINE a == cw_min(ac)
           m == cw_max(ac)
           p == TwoTo(n)
<1>1. a \in Nat /\ m \in Nat /\ a <= m
  BY DEF cw_min, cw_max
<1>2. p \in Nat /\ TwoTo(n + 1) = 2 * p /\ TwoTo(0) = 1
  BY TwoToNext
<1>3. /\ Window(ac, n) = Min({(a + 1) * p - 1, m})
      /\ Window(ac, n + 1) = Min({(a + 1) * (2 * p) - 1, m})
      /\ Window(ac, 0) = Min({(a + 1) * 1 - 1, m})
  BY <1>2 DEF Window
<1>4. PICK x \in Int : x = (a + 1) * p
  BY <1>1, <1>2
<1>5. (a + 1) * (2 * p) = 2 * x
  <2> HIDE DEF a, p
  <2>1. \A b \in Int, c \in Int : b * (2 * c) = 2 * (b * c)
    OBVIOUS
  <2> QED
    BY <2>1, <1>1, <1>2, <1>4
<1>6. x >= 1
  <2>1. p >= 1
    BY TwoToPositive
  <2> HIDE DEF a, p
  <2>2. \A b \in Nat, c \in Nat : c >= 1 => (b + 1) * c >= 1
    OBVIOUS
  <2> QED
    BY <2>1, <2>2, <1>1, <1>2, <1>4
<1> HIDE DEF a, m, p
<1>7. /\ Window(ac, n) = IF x - 1 <= m THEN x - 1 ELSE m
      /\ Window(ac, n + 1) = IF 2 * x - 1 <= m THEN 2 * x - 1 ELSE m
      /\ Window(ac, 0) = IF a <= m THEN a ELSE m
  <2>1. x - 1 \in Int /\ 2 * x - 1 \in Int /\ m \in Int /\ (a + 1) * 1 - 1 = a /\ a \in Int
    BY <1>1
  <2>2. /\ Min({x - 1, m}) = IF x - 1 <= m THEN x - 1 ELSE m
        /\ Min({2 * x - 1, m}) = IF 2 * x - 1 <= m THEN 2 * x - 1 ELSE m
        /\ Min({a, m}) = IF a <= m THEN a ELSE m
    BY <2>1, MinOfTwo
  <2> QED
    BY <2>1, <2>2, <1>3, <1>4, <1>5
<1>8. Window(ac, n) \in Nat /\ 2 * Window(ac, n) + 1 \in Int
  BY <1>1, <1>6, <1>7
<1>9. Min({2 * Window(ac, n) + 1, m})
         = IF 2 * Window(ac, n) + 1 <= m THEN 2 * Window(ac, n) + 1 ELSE m
  BY <1>1, <1>8, MinOfTwo
<1>10. Window(ac, n + 1) = Min({2 * Window(ac, n) + 1, m})
  BY <1>1, <1>6, <1>7, <1>9
<1>11. Window(ac, 0) = a
  BY <1>1, <1>7
<1> QED
  BY <1>8, <1>10, <1>11 DEF a, m

LEMMA BackoffNext ==
    ASSUME NEW ac \in 0..3, NEW n \in Nat
    PROVE  /\ Backoffs(ac, 0) = 0 /\ Backoffs(ac, n) \in Nat
           /\ Backoffs(ac, n + 1) = Backoffs(ac, n) + (Window(ac, n) * slot_time) \div 2
<1> DEFINE B(k) == (Window(ac, k - 1) * slot_time) \div 2
           v(m) == [k \in 1..m |-> B(k)]
<1>1. ASSUME NEW k \in Nat, k >= 1 PROVE B(k) \in Nat
  <2>1. k - 1 \in Nat
    BY <1>1
  <2>2. Window(ac, k - 1) \in Nat
    BY <2>1, WindowNext
  <2> QED
    BY <2>2 DEF slot_time
<1>2. \A m \in Nat : Backoffs(ac, m) = SumTo(v(m), m)
  BY DEF Backoffs
<1>3. B(n + 1) = (Window(ac, n) * slot_time) \div 2
  <2>1. (n + 1) - 1 = n
    OBVIOUS
  <2> QED
    BY <2>1
<1> HIDE DEF B
<1>4. ASSUME NEW m \in Nat PROVE v(m) \in [1..m -> Nat]
  BY <1>1
<1>5. v(0) \in [1..0 -> Int]
  BY <1>4
<1>6. /\ n + 1 \in Nat /\ v(n) \in [1..n -> Nat] /\ v(n) \in [1..n -> Int]
      /\ v(n + 1) \in [1..(n + 1) -> Int]
  BY <1>1
<1>7. (\A k \in 1..n : v(n)[k] = v(n + 1)[k]) /\ v(n + 1)[n + 1] = B(n + 1)
  OBVIOUS
<1> HIDE DEF v
<1>8. SumTo(v(n + 1), n + 1) = SumTo(v(n), n) + v(n + 1)[n + 1]
  BY <1>6, <1>7, SumNext
<1>9. SumTo(v(n), n) \in Nat
  BY <1>6, SumOfNats
<1>10. SumTo(v(0), 0) = 0
  BY <1>5, SumOfNone
<1> QED
  BY <1>2, <1>3, <1>6, <1>7, <1>8, <1>9, <1>10

\* Before the first attempt.
LEMMA CountStarts ==
    ASSUME NEW f \in Frame, NEW rates \in Seq(TxRate)
    PROVE  Counted(f, rates, 0, 0, 0, 0, cw_min(frame_select_queue_80211(f)))
<1> DEFINE ac == frame_select_queue_80211(f)
<1>1. ac \in 0..3
  BY Categories
<1>2. Attempts(rates, 0) = 0 /\ TimeOnAir(f, rates, 0) = 0 /\ Repeats(rates, 0) = 0
  <2>1. 0 \in 0..Len(rates) /\ \A k \in 1..0 : rates[k].idx >= 0
    OBVIOUS
  <2> QED
    BY <2>1, RateSums
<1> HIDE DEF ac
<1>3. Backoffs(ac, 0) = 0 /\ Window(ac, 0) = cw_min(ac)
  <2>1. 0 \in Nat
    OBVIOUS
  <2> QED
    BY <1>1, <2>1, BackoffNext, WindowNext
<1>4. ack_time_usec(f.freq) \in Nat
  BY Durations
<1> QED
  BY <1>2, <1>3, <1>4 DEF Counted, ac

\* The attempts at a rate are over: the count is what a report with that many
\* attempts at the rate says.
LEMMA CountRate ==
    ASSUME NEW f \in Frame, NEW rates \in Seq(TxRate), NEW other \in Seq(TxRate),
           NEW n \in Nat, n + 1 <= Len(rates), n + 1 <= Len(other),
           \A k \in 1..n : other[k] = rates[k],
           \A k \in 1..(n + 1) : other[k].idx >= 0,
           other[n + 1].idx = rates[n + 1].idx,
           NEW r, NEW t, NEW w,
           Counted(f, rates, n, other[n + 1].count, r, t, w)
    PROVE  Counted(f, other, n + 1, 0, r, t, w)
<1> DEFINE c == other[n + 1].count
           o == OnAir(f, other[n + 1])
           ac == frame_select_queue_80211(f)
           more == IF c = 0 THEN 0 ELSE c - 1
<1>0. n <= Len(rates) /\ n + 1 \in 1..Len(other) /\ n + 1 \in 1..(n + 1)
  BY RatesTypes
<1>1. c \in Nat /\ o \in Nat
  BY <1>0, RatesTypes, Durations
<1>2. o = OnAir(f, rates[n + 1])
  BY DEF OnAir
<1>3. /\ Attempts(other, n + 1) = Attempts(rates, n) + c
      /\ TimeOnAir(f, other, n + 1) = TimeOnAir(f, rates, n) + c * o
      /\ Repeats(other, n + 1) = Repeats(rates, n) + more
  BY <1>0, OneMoreRate
<1>4. \A k \in 1..n : rates[k].idx >= 0
  <2> SUFFICES ASSUME NEW k \in 1..n PROVE rates[k].idx >= 0
    OBVIOUS
  <2>1. k \in 1..(n + 1) /\ other[k] = rates[k]
    OBVIOUS
  <2> QED
    BY <2>1
<1>5. Attempts(rates, n) \in Nat /\ TimeOnAir(f, rates, n) \in Nat /\ Repeats(rates, n) \in Nat
  BY <1>0, <1>4, RateSums, RatesTypes
<1>6. /\ r = Attempts(rates, n) + c
      /\ Multicast(f) => t = TimeOnAir(f, rates, n) + IF c = 0 THEN 0 ELSE c * o
      /\ ~Multicast(f) =>
            /\ t = TimeOnAir(f, rates, n) + (IF c = 0 THEN 0 ELSE c * o)
                   + r * ack_time_usec(f.freq) + Backoffs(ac, Repeats(rates, n) + more)
            /\ w = Window(ac, Repeats(rates, n) + more)
  BY <1>2 DEF Counted
<1>7. (IF c = 0 THEN 0 ELSE c * o) = c * o
  BY <1>1
<1>8. more \in Nat /\ c * o \in Nat
  BY <1>1
<1> HIDE DEF c, o, more, ac
<1>9. /\ Attempts(other, n + 1) + 0 = Attempts(rates, n) + c
      /\ TimeOnAir(f, other, n + 1) + 0 = TimeOnAir(f, rates, n) + c * o
      /\ Repeats(other, n + 1) + 0 = Repeats(rates, n) + more
  BY <1>1, <1>3, <1>5, <1>8
<1> QED
  BY <1>6, <1>7, <1>9 DEF Counted, ac

\* One attempt more: the frame, the acknowledgement, and a backoff unless it
\* is the first of its rate.
LEMMA CountAttempt ==
    ASSUME NEW f \in Frame, NEW rates \in Seq(TxRate), NEW n \in Nat,
           n + 1 <= Len(rates), \A k \in 1..(n + 1) : rates[k].idx >= 0,
           NEW done \in Nat, NEW r, NEW t, NEW w,
           Counted(f, rates, n, done, r, t, w)
    PROVE  LET ac == frame_select_queue_80211(f)
               o == OnAir(f, rates[n + 1])
               b == IF done > 0 THEN (w * slot_time) \div 2 ELSE 0
           IN  /\ Multicast(f) =>
                     Counted(f, rates, n, done + 1, r + 1, t + o, w)
               /\ ~Multicast(f) =>
                     Counted(f, rates, n, done + 1, r + 1,
                             t + o + b + ack_time_usec(f.freq),
                             IF done > 0 THEN Min({2 * w + 1, cw_max(ac)}) ELSE w)
<1> DEFINE ac == frame_select_queue_80211(f)
           o == OnAir(f, rates[n + 1])
           b == IF done > 0 THEN (w * slot_time) \div 2 ELSE 0
           a == ack_time_usec(f.freq)
           again == Repeats(rates, n) + IF done = 0 THEN 0 ELSE done - 1
           x == IF done = 0 THEN 0 ELSE done * o
           T == TimeOnAir(f, rates, n)
           B == Backoffs(ac, again)
           w2 == IF done > 0 THEN Min({2 * w + 1, cw_max(ac)}) ELSE w
<1>0. /\ n \in 0..Len(rates) /\ n + 1 \in 1..Len(rates) /\ n + 1 \in 1..(n + 1)
      /\ \A k \in 1..n : rates[k].idx >= 0
  BY RatesTypes
<1>1. ac \in 0..3 /\ o \in Nat /\ a \in Nat
  BY <1>0, RatesTypes, Durations, Categories
<1>2. Attempts(rates, n) \in Nat /\ T \in Nat /\ Repeats(rates, n) \in Nat
  BY <1>0, RateSums
<1>3. again \in Nat
  BY <1>2
<1>4. /\ r = Attempts(rates, n) + done
      /\ Multicast(f) => t = T + x
      /\ ~Multicast(f) => t = T + x + r * a + B /\ w = Window(ac, again)
  BY DEF Counted
<1>5. r \in Nat
  BY <1>2, <1>4
<1>6. /\ done + 1 # 0 /\ (done + 1) - 1 = done
      /\ again + 1 = Repeats(rates, n) + done \/ done = 0
      /\ done = 0 => again = Repeats(rates, n) + done
  BY <1>2
<1>7. x \in Int /\ (done + 1) * o = x + o
  <2> HIDE DEF o
  <2>1. (done + 1) * o = done * o + o
    BY <1>1
  <2>2. done = 0 => done * o = 0
    BY <1>1
  <2>3. done * o \in Int
    BY <1>1
  <2> QED
    BY <2>1, <2>2, <2>3
<1>8. (r + 1) * a = r * a + a /\ r * a \in Int
  <2> HIDE DEF a
  <2> QED
    BY <1>1, <1>5
<1>9. r + 1 = Attempts(rates, n) + (done + 1)
  BY <1>2, <1>4
<1>10. CASE Multicast(f)
  <2>1. t + o = T + (done + 1) * o
    <3> HIDE DEF o, x, T
    <3> QED
      BY <1>10, <1>1, <1>2, <1>4, <1>7
  <2>2. Counted(f, rates, n, done + 1, r + 1, t + o, w)
    <3> HIDE DEF o
    <3> QED
      BY <2>1, <1>6, <1>9, <1>10 DEF Counted, o, T
  <2> QED
    BY <2>2, <1>10
<1>11. CASE ~Multicast(f)
  <2> DEFINE again2 == Repeats(rates, n) + done
             B2 == Backoffs(ac, again2)
  <2>1. w = Window(ac, again) /\ B \in Nat /\ w \in Nat
    <3> HIDE DEF ac, again
    <3> QED
      BY <1>1, <1>3, <1>4, <1>11, BackoffNext, WindowNext
  <2>2. b \in Int /\ B2 = B + b /\ w2 = Window(ac, again2)
    <3>1. CASE done = 0
      <4>1. again2 = again
        BY <3>1, <1>2
      <4>2. b = 0 /\ w2 = w
        BY <3>1
      <4> HIDE DEF again, again2, b, w2
      <4> QED
        BY <4>1, <4>2, <2>1
    <3>2. CASE done > 0
      <4>1. again2 = again + 1
        BY <3>2, <1>2
      <4>2. b = (w * slot_time) \div 2 /\ w2 = Min({2 * w + 1, cw_max(ac)})
        BY <3>2
      <4>3. b \in Int
        BY <4>2, <2>1 DEF slot_time
      <4> HIDE DEF again, again2, b, w2, ac
      <4>4. /\ Backoffs(ac, again + 1) = B + (Window(ac, again) * slot_time) \div 2
            /\ Window(ac, again + 1) = Min({2 * Window(ac, again) + 1, cw_max(ac)})
        BY <1>1, <1>3, BackoffNext, WindowNext
      <4> QED
        BY <4>1, <4>2, <4>3, <4>4, <2>1
    <3> QED
      BY <3>1, <3>2
  <2>3. t + o + b + a = T + (done + 1) * o + (r + 1) * a + B2
    <3> HIDE DEF o, x, T, b, a, B, B2
    <3>1. t = T + x + r * a + B
      BY <1>4, <1>11
    <3>2. PICK ra \in Int : ra = r * a
      BY <1>8
    <3>3. t = T + x + ra + B
      BY <3>1, <3>2
    <3>4. o \in Int /\ a \in Int /\ T \in Int /\ x \in Int /\ B \in Int /\ b \in Int
      BY <1>1, <1>2, <1>7, <2>1, <2>2
    <3>5. t + o + b + a = T + (x + o) + (ra + a) + (B + b)
      BY <3>3, <3>4
    <3> QED
      BY <3>2, <3>5, <1>7, <1>8, <2>2
  <2>4. Counted(f, rates, n, done + 1, r + 1, t + o + b + a, w2)
    <3> HIDE DEF o, b, w2, a
    <3> QED
      BY <2>2, <2>3, <1>6, <1>9, <1>11 DEF Counted, o, T, a
  <2> QED
    BY <2>4, <1>11
<1> QED
  BY <1>10, <1>11

\* The account of a finished frame is its report.
LEMMA CountEnds ==
    ASSUME NEW f \in Frame, NEW rates \in Seq(TxRate), NEW n \in 0..Len(rates),
           \A k \in 1..n : rates[k].idx >= 0,
           n < Len(rates) => rates[n + 1].idx < 0,
           NEW r, NEW t, NEW w, Counted(f, rates, n, 0, r, t, w)
    PROVE  r = Attempts(rates, Len(UsedRates(rates))) /\ t = Airtime(f, rates)
<1>1. Len(UsedRates(rates)) = n
  BY UsedLength
<1>2. Attempts(rates, n) \in Nat /\ TimeOnAir(f, rates, n) \in Nat /\ Repeats(rates, n) \in Nat
  BY RateSums
<1>3. /\ r = Attempts(rates, n)
      /\ Multicast(f) => t = TimeOnAir(f, rates, n)
      /\ ~Multicast(f) =>
            t = TimeOnAir(f, rates, n) + r * ack_time_usec(f.freq)
                + Backoffs(frame_select_queue_80211(f), Repeats(rates, n))
  BY <1>2 DEF Counted
<1> QED
  BY <1>1, <1>3 DEF Airtime
-----------------------------------------------------------------------------
(* Every step keeps the account.                                           *)

LEMMA FramesTyped ==
    ASSUME NEW f \in Frames
    PROVE  f \in Frame /\ Len(f.tx_rates) <= TX_MAX_RATES
BY FramesAssumption

\* fill_tx_rates(): as many rates as there were, the fastest first.
LEMMA FillTyped ==
    ASSUME NEW rates \in Seq(TxRate), Len(rates) <= TX_MAX_RATES
    PROVE  /\ fill_tx_rates(rates) \in Seq(TxRate)
           /\ Len(fill_tx_rates(rates)) = Len(rates)
           /\ \A k \in 1..Len(rates) : fill_tx_rates(rates)[k].idx \in 4..7
<1> DEFINE n == Len(rates)
<1>1. n \in Nat /\ n <= 4 /\ DOMAIN rates = 1..n
  BY RatesTypes DEF TX_MAX_RATES
<1>2. rate_len - 1 - 4 + 1 = 8
  BY DEF rate_len, rateset
<1>3. Min({rate_len - 1 - 4 + 1, n}) = n
  <2> HIDE DEF n
  <2>1. 8 \in Int /\ n \in Int
    BY <1>1
  <2>2. Min({8, n}) = n
    BY <2>1, <1>1, MinOfTwo
  <2> QED
    BY <2>2, <1>2
<1> DEFINE s == [k \in 1..n |-> IF k <= n THEN [idx |-> 4 + n - k, count |-> 4]
                               ELSE [idx |-> -1, count |-> 0]]
<1>4. fill_tx_rates(rates) = s
  BY <1>1, <1>3 DEF fill_tx_rates
<1> HIDE DEF n
<1>5. ASSUME NEW k \in 1..n PROVE s[k] \in TxRate /\ s[k].idx \in 4..7
  <2>1. s[k] = [idx |-> 4 + n - k, count |-> 4]
    OBVIOUS
  <2>2. 4 + n - k \in 4..7 /\ 4 + n - k \in -128..127 /\ 4 \in 0..255
    BY <1>1
  <2> QED
    BY <2>1, <2>2 DEF TxRate
<1>6. DOMAIN s = 1..n
  OBVIOUS
<1> HIDE DEF s
<1>7. s \in [1..n -> TxRate]
  <2>1. s = [k \in 1..n |-> s[k]]
    BY DEF s
  <2> QED
    BY <2>1, <1>5
<1>8. s \in Seq(TxRate) /\ Len(s) = n
  BY <1>1, <1>7
<1> QED
  BY <1>4, <1>5, <1>8 DEF n

LEMMA NextByte ==
    ASSUME NEW c \in 0..255, NEW x \in Nat, x < c
    PROVE  x + 1 \in 0..255
OBVIOUS

LEMMA Recounted ==
    ASSUME NEW r \in TxRate, NEW c \in 0..255
    PROVE  LET new == [r EXCEPT !.count = c]
           IN  new \in TxRate /\ new.idx = r.idx /\ new.count = c
BY DEF TxRate

\* What the sender is told has the form of the rates.
LEMMA ReportTyped ==
    ASSUME tx_rates \in Seq(TxRate), i \in 1..Len(tx_rates), j \in Nat,
           j < tx_rates[i].count
    PROVE  /\ Report \in Seq(TxRate) /\ Len(Report) = Len(tx_rates)
           /\ \A k \in 1..Len(tx_rates) :
                 /\ k < i => Report[k] = tx_rates[k]
                 /\ k = i => /\ Report[k].idx = tx_rates[i].idx
                             /\ Report[k].count = j + 1
                 /\ k > i => Report[k].idx = -1
<1> DEFINE n == Len(tx_rates)
<1>1. /\ n \in Nat /\ DOMAIN tx_rates = 1..n
      /\ \A k \in 1..n : tx_rates[k] \in TxRate
      /\ i \in 1..n /\ tx_rates[i].count \in 0..255
  BY RatesTypes
<1>2. DOMAIN Report = 1..n
  BY <1>1 DEF Report
<1>3. ASSUME NEW k \in 1..n
      PROVE  /\ k < i => Report[k] = tx_rates[k]
             /\ k = i => Report[k] = [tx_rates[k] EXCEPT !.count = j + 1]
             /\ k > i => Report[k] = [idx |-> -1, count |-> 255]
  <2>1. CASE k < i
    BY <2>1, <1>1 DEF Report
  <2>2. CASE k = i
    BY <2>2, <1>1 DEF Report
  <2>3. CASE k > i
    BY <2>3, <1>1 DEF Report
  <2> QED
    BY <2>1, <2>2, <2>3
<1>4. ASSUME NEW k \in 1..n
      PROVE  /\ Report[k] \in TxRate
             /\ k = i => Report[k].idx = tx_rates[i].idx /\ Report[k].count = j + 1
             /\ k > i => Report[k].idx = -1
  <2>0. i \in Int /\ k \in Int
    BY <1>1
  <2>1. CASE k < i
    <3>1. k # i /\ ~(k > i)
      BY <2>0, <2>1
    <3>2. Report[k] \in TxRate
      BY <2>1, <1>1, <1>3
    <3> QED
      BY <3>1, <3>2
  <2>2. CASE k = i
    <3>1. j + 1 \in 0..255
      BY <1>1, NextByte
    <3>2. tx_rates[i] \in TxRate /\ Report[k] = [tx_rates[i] EXCEPT !.count = j + 1]
      BY <2>2, <1>1, <1>3
    <3>3. ~(k > i)
      BY <2>0, <2>2
    <3> DEFINE new == [tx_rates[i] EXCEPT !.count = j + 1]
    <3>4. new \in TxRate /\ new.idx = tx_rates[i].idx /\ new.count = j + 1
      BY <3>1, <3>2, Recounted
    <3>5. Report[k] = new
      BY <3>2
    <3> HIDE DEF new
    <3> QED
      BY <3>3, <3>4, <3>5
  <2>3. CASE k > i
    <3>1. [idx |-> -1, count |-> 255] \in TxRate
      BY DEF TxRate
    <3>2. k # i
      BY <2>0, <2>3
    <3> DEFINE new == [idx |-> -1, count |-> 255]
    <3>3. Report[k] = new
      BY <2>3, <1>3, Zenon
    <3>4. new.idx = -1
      OBVIOUS
    <3> HIDE DEF new
    <3>5. new \in TxRate
      BY <3>1 DEF new
    <3> QED
      BY <3>2, <3>3, <3>4, <3>5
  <2> QED
    BY <2>0, <2>1, <2>2, <2>3
<1>5. Report = [k \in 1..n |-> Report[k]]
  BY <1>1 DEF Report
<1>6. Report \in Seq(TxRate) /\ Len(Report) = n
  <2> DEFINE s == Report
  <2>1. s = [k \in 1..n |-> s[k]] /\ \A k \in 1..n : s[k] \in TxRate
    BY <1>4, <1>5
  <2> HIDE DEF s
  <2>2. s \in [1..n -> TxRate]
    BY <2>1
  <2> HIDE DEF n
  <2>3. s \in Seq(TxRate) /\ Len(s) = n
    BY <2>2, <1>1
  <2> QED
    BY <2>3 DEF s
<1> QED
  BY <1>3, <1>4, <1>6

\* What the configured probabilities, the table or the formula give is a
\* probability.
LEMMA ProbTyped ==
    ASSUME FrameInv, TableTyped, NEW f \in Frames, NEW idx \in Nat
    PROVE  get_error_prob(snr, idx, f.freq, f.src, f.dst) \subseteq Probability
<1>1. f.src \in Station /\ f.freq \in Nat /\ snr \in Int
  BY FramesTyped, FrameTypes DEF FrameInv, Shape
<1>2. 0 \in Probability /\ One \in Probability
  BY OneAssumption DEF Probability
<1>3. mode \in {"snr", "prob", "per"}
  BY ModesAssumption DEF FrameInv, Shape
<1>4. CASE mode = "snr"
  BY <1>4, <1>2 DEF get_error_prob, get_error_prob_from_snr
<1>5. CASE mode = "prob"
  <2>1. get_error_prob_from_matrix(f.src, f.dst) \in Probability
    BY <1>1, <1>2, ErrorProbAssumption DEF get_error_prob_from_matrix
  <2> QED
    BY <1>5, <2>1 DEF get_error_prob
<1>6. CASE mode = "per"
  <2> DEFINE at == RowAt(snr + NOISE_LEVEL)
             x == RateIndex(idx, f.freq)
             result == get_error_prob_from_per_matrix(snr, idx, f.freq)
  <2>1. per_matrix_row_num \in Nat /\ per_matrix_signal_min \in Int
    BY <1>6 DEF TableTyped
  <2>2. at \in Int
    BY <2>1, <1>1 DEF RowAt, NOISE_LEVEL
  <2>3. x \in Nat /\ rate_len = 12
    BY <1>1 DEF RateIndex, rate_len, rateset
  <2>4. result = CASE at < 0 -> {One}
                   [] at >= per_matrix_row_num -> {0}
                   [] OTHER -> IF x >= rate_len THEN {One}
                               ELSE IF per_matrix[at] = Uninitialized THEN Probability
                               ELSE {per_matrix[at][1 + x]}
    BY DEF get_error_prob_from_per_matrix
  <2> HIDE DEF at, x, result
  <2>5. result \subseteq Probability
    <3>1. CASE at < 0
      BY <3>1, <2>4, <1>2
    <3>2. CASE at >= per_matrix_row_num /\ ~(at < 0)
      BY <3>2, <2>4, <1>2
    <3>3. CASE ~(at < 0) /\ ~(at >= per_matrix_row_num)
      <4>1. at \in 0..(per_matrix_row_num - 1)
        BY <3>3, <2>1, <2>2
      <4>2. \/ per_matrix[at] = Uninitialized
            \/ per_matrix[at] \in [1..rate_len -> Probability]
        BY <4>1, <1>6 DEF TableTyped
      <4>3. result = IF x >= rate_len THEN {One}
                     ELSE IF per_matrix[at] = Uninitialized THEN Probability
                     ELSE {per_matrix[at][1 + x]}
        BY <3>3, <2>4
      <4>4. ~(x >= rate_len) => 1 + x \in 1..rate_len
        BY <2>3
      <4> QED
        BY <4>2, <4>3, <4>4, <1>2
    <3> QED
      BY <3>1, <3>2, <3>3
  <2> QED
    BY <2>5, <1>6 DEF get_error_prob, result
<1> QED
  BY <1>3, <1>4, <1>5, <1>6

LEMMA TableTypedInit == Init => TableTyped
<1> SUFFICES ASSUME Init PROVE TableTyped
  OBVIOUS
<1>1. /\ mode = "per" => per_file \in PerFiles
      /\ per_matrix_row_num = 0 /\ per_matrix_signal_min = 1000
  BY DEF Init
<1>2. \A k : k \notin 0..(0 - 1)
  OBVIOUS
<1> QED
  BY <1>1, <1>2 DEF TableTyped

LEMMA TableTypedStep == TableInv /\ TableTyped /\ [Next]_vars => TableTyped'
<1> SUFFICES ASSUME TableInv, TableTyped, [Next]_vars PROVE TableTyped'
  OBVIOUS
<1>1. CASE ReadRow
  <2> DEFINE n == per_matrix_row_num
             row == per_file[n + 1]
             at == row.signal - per_matrix_signal_min'
  <2>1. /\ mode = "per" /\ mode' = mode /\ per_file' = per_file /\ n < Len(per_file)
        /\ n' = n + 1
        /\ per_matrix_signal_min' = Min({per_matrix_signal_min, row.signal})
    BY <1>1 DEF ReadRow, TableInv
  <2>2. per_matrix' = [k \in 0..n |->
                         CASE k = at -> row.per
                           [] k # at /\ k < n -> per_matrix[k]
                           [] OTHER -> Uninitialized]
    BY <1>1 DEF ReadRow
  <2>3. /\ per_file \in PerFiles /\ n \in Nat /\ per_matrix_signal_min \in Int
        /\ \A k \in 0..(n - 1) : \/ per_matrix[k] = Uninitialized
                                 \/ per_matrix[k] \in [1..rate_len -> Probability]
    BY <2>1 DEF TableTyped
  <2>4. row.signal \in Int /\ row.per \in [1..rate_len -> Probability]
    <3>1. Len(per_file) \in Nat /\ n + 1 \in 1..Len(per_file)
      BY <2>1, <2>3, FileType
    <3> QED
      BY <3>1, <2>3, FileType
  <2>5. per_matrix_signal_min' \in Int
    <3> HIDE DEF row
    <3> QED
      BY <2>1, <2>3, <2>4, MinOfTwo
  <2>6. ASSUME NEW k \in 0..n
        PROVE  \/ per_matrix'[k] = Uninitialized
               \/ per_matrix'[k] \in [1..rate_len -> Probability]
    <3> HIDE DEF row, at
    <3>1. per_matrix'[k] = CASE k = at -> row.per
                             [] k # at /\ k < n -> per_matrix[k]
                             [] OTHER -> Uninitialized
      BY <2>2
    <3>2. CASE k = at
      BY <3>1, <3>2, <2>4
    <3>3. CASE k # at /\ k < n
      <4>1. k \in 0..(n - 1)
        BY <3>3, <2>3
      <4> QED
        BY <3>1, <3>3, <4>1, <2>3
    <3>4. CASE k # at /\ ~(k < n)
      BY <3>1, <3>4
    <3> QED
      BY <3>2, <3>3, <3>4
  <2>7. (n + 1) - 1 = n /\ n + 1 \in Nat
    BY <2>3
  <2> QED
    BY <2>1, <2>3, <2>5, <2>6, <2>7 DEF TableTyped
<1>2. ASSUME UNCHANGED <<mode, per_vars>> PROVE TableTyped'
  BY <1>2 DEF per_vars, TableTyped
<1>3. ASSUME NEW f \in Frames, QueueFrame(f) PROVE TableTyped'
  BY <1>3, <1>2 DEF QueueFrame
<1>4. CASE ReadEnds \/ TryRate \/ Attempt \/ RateFailed \/ AttemptsEnd
  BY <1>4, <1>2 DEF ReadEnds, TryRate, Attempt, RateFailed, AttemptsEnd
<1>5. CASE DeliverFrame \/ SendTxInfo \/ IntfUpdate \/ UNCHANGED vars
  BY <1>5, <1>2 DEF DeliverFrame, SendTxInfo, IntfUpdate, vars
<1> QED
  BY <1>1, <1>3, <1>4, <1>5 DEF Next

\* What a step of the loops needs of the state.
LEMMA AtLoop ==
    ASSUME FrameInv, AccountInv, Sending
    PROVE  /\ frame \in Frames /\ frame \in Frame
           /\ tx_rates \in Seq(TxRate) /\ Len(tx_rates) \in Nat
           /\ Len(tx_rates) <= TX_MAX_RATES
           /\ i \in 1..(Len(tx_rates) + 1) /\ i \in Nat /\ i - 1 \in Nat
           /\ i - 1 <= Len(tx_rates) /\ (i - 1) + 1 = i
           /\ j \in 0..255 /\ j \in Nat /\ retries \in Nat /\ send_time \in Nat
           /\ frame # <<>>
<1>1. /\ frame \in Frames /\ tx_rates \in Seq(TxRate) /\ Len(tx_rates) <= TX_MAX_RATES
      /\ i \in 1..(Len(tx_rates) + 1) /\ j \in 0..255 /\ send_time \in Nat
  BY DEF AccountInv, LoopTyped
<1>2. retries \in Nat
  BY DEF FrameInv, Shape
<1>3. frame \in Frame /\ frame # <<>>
  BY <1>1, FramesTyped, FrameTypes
<1>4. Len(tx_rates) \in Nat
  BY <1>1, RatesTypes
<1>5. i \in Nat /\ i - 1 \in Nat /\ i - 1 <= Len(tx_rates) /\ (i - 1) + 1 = i /\ j \in Nat
  BY <1>1, <1>4
<1> QED
  BY <1>1, <1>2, <1>3, <1>4, <1>5

\* Outside of the loops nothing is being counted.
LEMMA Resting ==
    ASSUME TableTyped', LoopTyped', ProbeInv',
           pc' \notin {"rate", "attempt", "end", "queued"}
    PROVE  AccountInv'
BY DEF AccountInv, LoopInv, ReportMatchesAttempts, AirtimeOfReport

LEMMA AccountInit == Init => AccountInv
<1> SUFFICES ASSUME Init PROVE AccountInv
  OBVIOUS
<1>1. TableTyped
  BY TableTypedInit
<1>2. pc \in {"read", "idle"} /\ ~Sending
  BY DEF Init, Sending
<1>3. LoopTyped
  <2>1. /\ tx_rates = <<>> /\ i = 1 /\ j = 0 /\ frame = <<>> /\ error_prob = 0
        /\ send_time = 0 /\ is_acked = FALSE /\ receivers = {} /\ sent = 0
        /\ intf = [k \in Station |-> [duration |-> 0, signal |-> -200, prob_col |-> 0]]
    BY DEF Init
  <2>2. tx_rates \in Seq(TxRate) /\ Len(tx_rates) = 0
    BY <2>1
  <2>3. \A k \in Station : intf[k].duration \in Nat /\ intf[k].prob_col \in Nat
    BY <2>1
  <2>4. i \in 1..(Len(tx_rates) + 1) /\ j \in 0..255 /\ Len(tx_rates) <= TX_MAX_RATES
    BY <2>1, <2>2 DEF TX_MAX_RATES
  <2>5. error_prob \in Probability /\ sent \in 0..MaxFrames
    BY <2>1, OneAssumption, BoundAssumption DEF Probability
  <2> QED
    BY <1>2, <2>1, <2>2, <2>3, <2>4, <2>5 DEF LoopTyped
<1> QED
  BY <1>1, <1>2, <1>3 DEF AccountInv, LoopInv, ProbeInv, ReportMatchesAttempts,
                          AirtimeOfReport

LEMMA QueueFrameCounts ==
    ASSUME FrameInv, AccountInv, TableTyped', NEW f \in Frames, QueueFrame(f)
    PROVE  AccountInv'
<1> DEFINE ac == frame_select_queue_80211(f)
           filled == frame_is_probe_req(f) /\ frame_has_zero_rates(f.tx_rates)
<1>1. /\ pc' = "rate" /\ frame' = f /\ retries' = 0 /\ send_time' = 0 /\ i' = 1 /\ j' = 0
      /\ is_acked' = FALSE /\ error_prob' = 0 /\ cw' = cw_min(ac) /\ receivers' = {}
      /\ intf' = intf /\ sent < MaxFrames /\ sent' = sent + 1
      /\ tx_rates' = IF filled THEN fill_tx_rates(f.tx_rates) ELSE f.tx_rates
  BY DEF QueueFrame
<1>2. /\ f \in Frame /\ f.tx_rates \in Seq(TxRate) /\ Len(f.tx_rates) <= TX_MAX_RATES
      /\ f # <<>>
  BY FramesTyped, FrameTypes
<1>3. /\ fill_tx_rates(f.tx_rates) \in Seq(TxRate)
      /\ Len(fill_tx_rates(f.tx_rates)) = Len(f.tx_rates)
      /\ \A k \in 1..Len(f.tx_rates) : fill_tx_rates(f.tx_rates)[k].idx \in 4..7
  BY <1>2, FillTyped
<1>4. tx_rates' \in Seq(TxRate) /\ Len(tx_rates') = Len(f.tx_rates) /\ Len(tx_rates') \in Nat
  <2>1. tx_rates' \in Seq(TxRate) /\ Len(tx_rates') = Len(f.tx_rates)
    <3>1. CASE filled
      BY <3>1, <1>1, <1>3
    <3>2. CASE ~filled
      BY <3>2, <1>1, <1>2
    <3> QED
      BY <3>1, <3>2
  <2> QED
    BY <2>1, RatesTypes
<1>5. cw_min(ac) \in Nat /\ cw_max(ac) \in Nat /\ cw_min(ac) <= cw_max(ac)
  BY <1>2, Categories
<1>6. cw' \in cw_min(ac)..cw_max(ac)
  <2> HIDE DEF ac
  <2> QED
    BY <1>1, <1>5
<1>7. LoopTyped'
  <2>1. i' \in 1..(Len(tx_rates') + 1) /\ j' \in 0..255
    BY <1>1, <1>4
  <2>2. error_prob' \in Probability /\ sent' \in 0..MaxFrames
    BY <1>1, OneAssumption, BoundAssumption DEF Probability, AccountInv, LoopTyped
  <2>3. \A k \in Station : intf'[k].duration \in Nat /\ intf'[k].prob_col \in Nat
    BY <1>1 DEF AccountInv, LoopTyped
  <2>4. send_time' \in Nat /\ is_acked' \in BOOLEAN /\ receivers' \subseteq Station
    BY <1>1
  <2>5. Len(tx_rates') <= TX_MAX_RATES
    BY <1>2, <1>4
  <2> QED
    BY <1>1, <1>4, <1>6, <2>1, <2>2, <2>3, <2>4, <2>5 DEF LoopTyped
<1>8. Counted(frame', tx_rates', i' - 1, 0, retries', send_time', cw')
  <2>1. Counted(f, tx_rates', 0, 0, 0, 0, cw_min(ac))
    BY <1>2, <1>4, CountStarts
  <2>2. i' - 1 = 0
    BY <1>1
  <2> HIDE DEF ac
  <2> QED
    BY <2>1, <2>2, <1>1, Zenon
<1>9. LoopInv'
  <2>1. i' - 1 = 0 /\ \A k : k \notin 1..0
    BY <1>1
  <2>2. \A k \in 1..(i' - 1) : tx_rates'[k].idx >= 0
    BY <2>1
  <2> QED
    BY <2>2, <1>1, <1>8 DEF LoopInv, Progress
<1>10. ProbeInv'
  <2> SUFFICES ASSUME filled
               PROVE  /\ Len(tx_rates') > 0 => tx_rates'[1].idx >= 0
                      /\ \A k \in 1..Len(tx_rates') : tx_rates'[k].idx <= 7
    BY <1>1 DEF ProbeInv
  <2>1. \A k \in 1..Len(tx_rates') : tx_rates'[k].idx \in 4..7
    BY <1>1, <1>3, <1>4
  <2>2. Len(tx_rates') > 0 => 1 \in 1..Len(tx_rates')
    BY <1>4
  <2> QED
    BY <2>1, <2>2
<1> QED
  BY <1>1, <1>7, <1>9, <1>10 DEF AccountInv, ReportMatchesAttempts, AirtimeOfReport

LEMMA TryRateCounts ==
    ASSUME FrameInv, AccountInv, TableTyped', TryRate
    PROVE  AccountInv'
<1> DEFINE go == i <= Len(tx_rates) /\ tx_rates[i].idx >= 0
<1>1. /\ pc = "rate" /\ is_acked = FALSE /\ Sending
      /\ UNCHANGED <<frame, tx_rates, i, cw, send_time, retries, is_acked, intf,
                     receivers, sent>>
  BY DEF TryRate, FrameInv, Shape, Sending
<1>2. \/ /\ go /\ pc' = "attempt" /\ j' = 0
         /\ error_prob' \in get_error_prob(snr, tx_rates[i].idx, frame.freq,
                                           frame.src, frame.dst)
      \/ ~go /\ pc' = "end" /\ UNCHANGED <<error_prob, j>>
  BY DEF TryRate
<1>3. /\ frame \in Frames /\ tx_rates \in Seq(TxRate) /\ Len(tx_rates) \in Nat
      /\ i \in 1..(Len(tx_rates) + 1)
  BY <1>1, AtLoop
<1>4. i <= Len(tx_rates) => i \in 1..Len(tx_rates) /\ tx_rates[i].idx \in Int
                            /\ tx_rates[i].count \in Nat
  BY <1>3, RatesTypes
<1>5. error_prob' \in Probability /\ j' \in 0..255
  <2>1. CASE go /\ j' = 0 /\ error_prob' \in get_error_prob(snr, tx_rates[i].idx,
                                               frame.freq, frame.src, frame.dst)
    <3>1. PICK x \in Nat : x = tx_rates[i].idx
      BY <2>1, <1>4
    <3>2. get_error_prob(snr, x, frame.freq, frame.src, frame.dst) \subseteq Probability
      BY <1>3, ProbTyped DEF AccountInv
    <3> QED
      BY <2>1, <3>1, <3>2
  <2>2. CASE UNCHANGED <<error_prob, j>>
    BY <2>2 DEF AccountInv, LoopTyped
  <2> QED
    BY <1>2, <2>1, <2>2
<1>6. LoopTyped' /\ Sending'
  BY <1>1, <1>2, <1>5 DEF AccountInv, LoopTyped, Sending
<1>7. ProbeInv'
  BY <1>1 DEF AccountInv, ProbeInv
<1>8. Progress(frame, tx_rates, i - 1, 0)' /\ \A k \in 1..(i - 1) : tx_rates[k].idx >= 0
  BY <1>1 DEF AccountInv, LoopInv, Progress
<1>9. LoopInv'
  <2>1. CASE go /\ pc' = "attempt" /\ j' = 0
    BY <2>1, <1>1, <1>4, <1>8 DEF LoopInv
  <2>2. CASE ~go /\ pc' = "end"
    <3>1. i <= Len(tx_rates) => tx_rates[i].idx < 0
      BY <2>2, <1>4
    <3> QED
      BY <2>2, <3>1, <1>1, <1>8 DEF LoopInv
  <2> QED
    BY <1>2, <2>1, <2>2
<1> QED
  BY <1>2, <1>6, <1>7, <1>9 DEF AccountInv, ReportMatchesAttempts, AirtimeOfReport

\* The part of the types that the loops leave alone.
LEMMA AttemptTypes ==
    ASSUME FrameInv, AccountInv, Attempt
    PROVE  LET ac == frame_select_queue_80211(frame) IN
           /\ cw' \in cw_min(ac)..cw_max(ac) /\ send_time' \in Nat
           /\ j' \in 0..255 /\ is_acked' \in BOOLEAN
<1> DEFINE ac == frame_select_queue_80211(frame)
           on_air == OnAir(frame, tx_rates[i])
           b == IF j > 0 THEN (cw * slot_time) \div 2 ELSE 0
           a == ack_time_usec(frame.freq)
<1>1. pc = "attempt" /\ Sending /\ is_acked = FALSE
  BY DEF Attempt, FrameInv, Shape, Sending
<1>2. /\ frame \in Frame /\ tx_rates \in Seq(TxRate) /\ Len(tx_rates) \in Nat
      /\ i \in Nat /\ i \in 1..(Len(tx_rates) + 1) /\ j \in Nat /\ j \in 0..255
      /\ send_time \in Nat /\ frame # <<>>
  BY <1>1, AtLoop
<1>3. i \in 1..Len(tx_rates) /\ tx_rates[i].idx >= 0 /\ j < tx_rates[i].count
  BY <1>1, <1>2 DEF AccountInv, LoopInv, Attempt
<1>4. tx_rates[i] \in TxRate /\ tx_rates[i].count \in 0..255
  BY <1>2, <1>3, RatesTypes
<1>5. on_air \in Nat /\ a \in Nat
  BY <1>2, <1>3, <1>4, Durations
<1>6. cw \in cw_min(ac)..cw_max(ac)
  BY <1>2 DEF AccountInv, LoopTyped
<1>7. cw_min(ac) \in Nat /\ cw_max(ac) \in Nat /\ cw_min(ac) <= cw_max(ac)
  BY <1>2, Categories
<1>8. \/ /\ send_time' = send_time + on_air
         /\ is_acked' = TRUE /\ UNCHANGED <<j, cw>>
      \/ /\ send_time' = send_time + on_air + b + a
         /\ cw' = IF j > 0 THEN Min({2 * cw + 1, cw_max(ac)}) ELSE cw
         /\ \/ is_acked' = TRUE /\ j' = j
            \/ j' = j + 1 /\ is_acked' = is_acked
  BY DEF Attempt, Backoff, NextCw
<1> HIDE DEF ac, on_air, a
<1>9. cw \in Nat
  BY <1>6, <1>7
<1>10. b \in Nat
  BY <1>9 DEF slot_time
<1>11. (IF j > 0 THEN Min({2 * cw + 1, cw_max(ac)}) ELSE cw) \in cw_min(ac)..cw_max(ac)
  <2>1. 2 * cw + 1 \in Int /\ cw_max(ac) \in Int
    BY <1>7, <1>9
  <2>2. Min({2 * cw + 1, cw_max(ac)})
           = IF 2 * cw + 1 <= cw_max(ac) THEN 2 * cw + 1 ELSE cw_max(ac)
    BY <2>1, MinOfTwo
  <2> QED
    BY <2>2, <1>6, <1>7, <1>9
<1>12. cw' \in cw_min(ac)..cw_max(ac)
  BY <1>6, <1>8, <1>11
<1> HIDE DEF b
<1>13. send_time' \in Nat
  BY <1>2, <1>5, <1>8, <1>10
<1>14. j + 1 \in 0..255
  BY <1>2, <1>3, <1>4, NextByte
<1>15. j' \in 0..255 /\ is_acked' \in BOOLEAN
  BY <1>1, <1>2, <1>8, <1>14
<1> QED
  BY <1>12, <1>13, <1>15 DEF ac

LEMMA AttemptCounts ==
    ASSUME FrameInv, AccountInv, TableTyped', Attempt
    PROVE  AccountInv'
<1> DEFINE ac == frame_select_queue_80211(frame)
           on_air == OnAir(frame, tx_rates[i])
           b == IF j > 0 THEN (cw * slot_time) \div 2 ELSE 0
           a == ack_time_usec(frame.freq)
<1>1. /\ pc = "attempt" /\ Sending /\ is_acked = FALSE /\ retries' = retries + 1
      /\ UNCHANGED <<frame, tx_rates, i, error_prob, intf, receivers, sent>>
  BY DEF Attempt, FrameInv, Shape, Sending
<1>2. /\ frame \in Frame /\ frame \in Frames /\ tx_rates \in Seq(TxRate)
      /\ Len(tx_rates) \in Nat /\ i \in Nat /\ i \in 1..(Len(tx_rates) + 1) /\ j \in Nat
      /\ i - 1 \in Nat /\ (i - 1) + 1 = i
  BY <1>1, AtLoop
<1>3. /\ i <= Len(tx_rates) /\ tx_rates[i].idx >= 0 /\ j < tx_rates[i].count
      /\ \A k \in 1..(i - 1) : tx_rates[k].idx >= 0
      /\ Counted(frame, tx_rates, i - 1, j, retries, send_time, cw)
  BY <1>1, <1>2 DEF AccountInv, LoopInv, Attempt, Progress
<1>4. tx_rates[i].count \in Nat
  BY <1>2, <1>3, RatesTypes
<1>5. \A k \in 1..((i - 1) + 1) : tx_rates[k].idx >= 0
  <2> SUFFICES ASSUME NEW k \in 1..((i - 1) + 1) PROVE tx_rates[k].idx >= 0
    OBVIOUS
  <2>1. k = i \/ k \in 1..(i - 1)
    BY <1>2
  <2> QED
    BY <2>1, <1>3
<1>6. \/ /\ Multicast(frame) /\ send_time' = send_time + on_air
         /\ is_acked' = TRUE /\ pc' = "end" /\ UNCHANGED <<j, cw>>
      \/ /\ ~Multicast(frame) /\ send_time' = send_time + on_air + b + a
         /\ cw' = IF j > 0 THEN Min({2 * cw + 1, cw_max(ac)}) ELSE cw
         /\ \/ is_acked' = TRUE /\ pc' = "end" /\ j' = j
            \/ j' = j + 1 /\ UNCHANGED <<is_acked, pc>>
  BY DEF Attempt, Backoff, NextCw
<1>7. LoopTyped' /\ Sending'
  <2>1. /\ cw' \in cw_min(ac)..cw_max(ac) /\ send_time' \in Nat
        /\ j' \in 0..255 /\ is_acked' \in BOOLEAN
    BY AttemptTypes
  <2>2. Sending'
    BY <1>1, <1>6 DEF Sending
  <2> QED
    BY <2>1, <2>2, <1>1, <1>2 DEF AccountInv, LoopTyped
<1>8. ProbeInv'
  BY <1>1 DEF AccountInv, ProbeInv
<1>9. Counted(frame', tx_rates', i' - 1, j + 1, retries', send_time', cw')
  <2>1. /\ Multicast(frame) =>
              Counted(frame, tx_rates, i - 1, j + 1, retries + 1, send_time + on_air, cw)
        /\ ~Multicast(frame) =>
              Counted(frame, tx_rates, i - 1, j + 1, retries + 1,
                      send_time + on_air + b + a,
                      IF j > 0 THEN Min({2 * cw + 1, cw_max(ac)}) ELSE cw)
    <3>1. (i - 1) + 1 <= Len(tx_rates)
      BY <1>2, <1>3
    <3>2. on_air = OnAir(frame, tx_rates[(i - 1) + 1])
      BY <1>2
    <3> QED
      BY <3>1, <3>2, <1>2, <1>3, <1>5, CountAttempt
  <2> HIDE DEF on_air, b, a, ac
  <2> QED
    BY <2>1, <1>1, <1>6
<1> HIDE DEF on_air, b, a, ac
<1>10. LoopInv'
  <2>1. CASE is_acked' = TRUE /\ pc' = "end" /\ j' = j
    BY <2>1, <1>1, <1>3, <1>9 DEF LoopInv, Progress
  <2>2. CASE j' = j + 1 /\ UNCHANGED <<is_acked, pc>>
    <3>1. j + 1 <= tx_rates[i].count
      BY <1>2, <1>3, <1>4
    <3> QED
      BY <2>2, <3>1, <1>1, <1>3, <1>9 DEF LoopInv, Progress
  <2> QED
    BY <1>6, <2>1, <2>2
<1>11. pc' # "queued"
  BY <1>1, <1>6
<1> QED
  BY <1>7, <1>8, <1>10, <1>11 DEF AccountInv, ReportMatchesAttempts, AirtimeOfReport

LEMMA RateFailedCounts ==
    ASSUME FrameInv, AccountInv, TableTyped', RateFailed
    PROVE  AccountInv'
<1>1. /\ pc = "attempt" /\ pc' = "rate" /\ Sending /\ Sending' /\ i' = i + 1
      /\ UNCHANGED <<frame, tx_rates, j, cw, error_prob, send_time, retries, is_acked,
                     intf, receivers, sent>>
  BY DEF RateFailed, Sending
<1>2. /\ frame \in Frame /\ frame \in Frames /\ tx_rates \in Seq(TxRate)
      /\ Len(tx_rates) \in Nat /\ i \in Nat /\ i \in 1..(Len(tx_rates) + 1) /\ j \in Nat
      /\ i - 1 \in Nat /\ (i - 1) + 1 = i
  BY <1>1, AtLoop
<1>3. /\ i <= Len(tx_rates) /\ tx_rates[i].idx >= 0 /\ j <= tx_rates[i].count
      /\ j >= tx_rates[i].count /\ \A k \in 1..(i - 1) : tx_rates[k].idx >= 0
      /\ Counted(frame, tx_rates, i - 1, j, retries, send_time, cw)
  BY <1>1 DEF AccountInv, LoopInv, RateFailed, Progress
<1>4. tx_rates[i].count \in Nat
  BY <1>2, <1>3, RatesTypes
<1>5. j = tx_rates[i].count
  BY <1>2, <1>3, <1>4
<1>6. \A k \in 1..((i - 1) + 1) : tx_rates[k].idx >= 0
  <2> SUFFICES ASSUME NEW k \in 1..((i - 1) + 1) PROVE tx_rates[k].idx >= 0
    OBVIOUS
  <2>1. k = i \/ k \in 1..(i - 1)
    BY <1>2
  <2> QED
    BY <2>1, <1>3
<1>7. Counted(frame, tx_rates, (i - 1) + 1, 0, retries, send_time, cw)
  <2>1. (i - 1) + 1 <= Len(tx_rates)
    BY <1>2, <1>3
  <2>2. Counted(frame, tx_rates, i - 1, tx_rates[(i - 1) + 1].count, retries, send_time, cw)
    BY <1>2, <1>3, <1>5
  <2> QED
    BY <2>1, <2>2, <1>2, <1>6, CountRate
<1>8. i' - 1 = (i - 1) + 1 /\ i' \in 1..(Len(tx_rates) + 1)
  BY <1>1, <1>2, <1>3
<1>9. LoopTyped'
  BY <1>1, <1>2, <1>8 DEF AccountInv, LoopTyped
<1>10. ProbeInv'
  BY <1>1 DEF AccountInv, ProbeInv
<1>11. LoopInv'
  BY <1>1, <1>6, <1>7, <1>8 DEF LoopInv, Progress
<1> QED
  BY <1>1, <1>9, <1>10, <1>11 DEF AccountInv, ReportMatchesAttempts, AirtimeOfReport

\* The account of an acknowledged frame is that of its report.
LEMMA AckedReport ==
    ASSUME FrameInv, AccountInv, pc = "end", is_acked
    PROVE  /\ Report \in Seq(TxRate) /\ Len(Report) = Len(tx_rates)
           /\ \A k \in 1..Len(tx_rates) : Report[k].idx <= tx_rates[k].idx \/ Report[k].idx = -1
           /\ Len(tx_rates) > 0 => Report[1].idx = tx_rates[1].idx
           /\ retries = Attempts(Report, Len(UsedRates(Report)))
           /\ send_time = Airtime(frame, Report)
<1>1. /\ frame \in Frame /\ tx_rates \in Seq(TxRate)
      /\ Len(tx_rates) \in Nat /\ i \in Nat /\ i \in 1..(Len(tx_rates) + 1) /\ j \in Nat
      /\ i - 1 \in Nat /\ (i - 1) + 1 = i
  BY AtLoop DEF Sending
<1>2. /\ i <= Len(tx_rates) /\ tx_rates[i].idx >= 0 /\ j < tx_rates[i].count
      /\ \A k \in 1..(i - 1) : tx_rates[k].idx >= 0
      /\ Counted(frame, tx_rates, i - 1, j + 1, retries, send_time, cw)
  BY DEF AccountInv, LoopInv, Progress
<1>3. i \in 1..Len(tx_rates)
  BY <1>1, <1>2
<1> DEFINE other == Report
<1>4. /\ other \in Seq(TxRate) /\ Len(other) = Len(tx_rates)
      /\ \A k \in 1..Len(tx_rates) :
            /\ k < i => other[k] = tx_rates[k]
            /\ k = i => other[k].idx = tx_rates[i].idx /\ other[k].count = j + 1
            /\ k > i => other[k].idx = -1
  BY <1>1, <1>2, <1>3, ReportTyped
<1> HIDE DEF other
<1>5. \A k \in 1..(i - 1) : other[k] = tx_rates[k]
  <2> SUFFICES ASSUME NEW k \in 1..(i - 1) PROVE other[k] = tx_rates[k]
    OBVIOUS
  <2>1. k \in 1..Len(tx_rates) /\ k < i
    BY <1>1, <1>3
  <2> QED
    BY <2>1, <1>4
<1>6. \A k \in 1..i : other[k].idx >= 0
  <2> SUFFICES ASSUME NEW k \in 1..i PROVE other[k].idx >= 0
    OBVIOUS
  <2>1. k = i \/ k \in 1..(i - 1)
    BY <1>1
  <2> QED
    BY <2>1, <1>2, <1>3, <1>4, <1>5
<1>7. Counted(frame, other, (i - 1) + 1, 0, retries, send_time, cw)
  <2>1. (i - 1) + 1 <= Len(tx_rates) /\ (i - 1) + 1 <= Len(other)
    BY <1>1, <1>2, <1>4
  <2>2. other[(i - 1) + 1].count = j + 1 /\ other[(i - 1) + 1].idx = tx_rates[(i - 1) + 1].idx
    BY <1>1, <1>3, <1>4
  <2>3. \A k \in 1..((i - 1) + 1) : other[k].idx >= 0
    BY <1>1, <1>6
  <2>4. Counted(frame, tx_rates, i - 1, other[(i - 1) + 1].count, retries, send_time, cw)
    BY <1>2, <2>2
  <2> QED
    BY <2>1, <2>2, <2>3, <2>4, <1>1, <1>4, <1>5, CountRate
<1>8. retries = Attempts(other, Len(UsedRates(other))) /\ send_time = Airtime(frame, other)
  <2>1. Counted(frame, other, i, 0, retries, send_time, cw)
    BY <1>1, <1>7
  <2>2. i < Len(other) => other[i + 1].idx < 0
    <3> SUFFICES ASSUME i < Len(other) PROVE other[i + 1].idx < 0
      OBVIOUS
    <3>1. i + 1 \in 1..Len(tx_rates) /\ i + 1 > i
      BY <1>1, <1>4
    <3> QED
      BY <3>1, <1>4
  <2>3. i \in 0..Len(other)
    BY <1>1, <1>2, <1>4
  <2> QED
    BY <2>1, <2>2, <2>3, <1>1, <1>4, <1>6, CountEnds
<1>9. ASSUME NEW k \in 1..Len(tx_rates)
      PROVE  other[k].idx <= tx_rates[k].idx \/ other[k].idx = -1
  <2>1. tx_rates[k].idx \in Int
    BY <1>1, RatesTypes
  <2>2. k < i \/ k = i \/ k > i
    BY <1>1
  <2> QED
    BY <2>1, <2>2, <1>4
<1>10. Len(tx_rates) > 0 => other[1].idx = tx_rates[1].idx
  <2>1. 1 \in 1..Len(tx_rates) /\ (1 < i \/ 1 = i)
    BY <1>1, <1>3
  <2> QED
    BY <2>1, <1>4
<1> QED
  BY <1>4, <1>8, <1>9, <1>10 DEF other

\* The account of a frame that was never acknowledged is that of its rates.
LEMMA LostReport ==
    ASSUME FrameInv, AccountInv, pc = "end", ~is_acked
    PROVE  /\ retries = Attempts(tx_rates, Len(UsedRates(tx_rates)))
           /\ send_time = Airtime(frame, tx_rates)
<1>1. /\ frame \in Frame /\ tx_rates \in Seq(TxRate)
      /\ Len(tx_rates) \in Nat /\ i \in Nat
      /\ i - 1 \in Nat /\ (i - 1) + 1 = i /\ i - 1 <= Len(tx_rates)
  BY AtLoop DEF Sending
<1>2. /\ i <= Len(tx_rates) => tx_rates[i].idx < 0
      /\ \A k \in 1..(i - 1) : tx_rates[k].idx >= 0
      /\ Counted(frame, tx_rates, i - 1, 0, retries, send_time, cw)
  BY DEF AccountInv, LoopInv, Progress
<1>3. i - 1 \in 0..Len(tx_rates)
  BY <1>1
<1>4. i - 1 < Len(tx_rates) => tx_rates[(i - 1) + 1].idx < 0
  BY <1>1, <1>2
<1> QED
  BY <1>1, <1>2, <1>3, <1>4, CountEnds

LEMMA AttemptsEndCounts ==
    ASSUME FrameInv, AccountInv, TableTyped', AttemptsEnd
    PROVE  AccountInv'
<1>1. /\ pc = "end" /\ pc' = "queued" /\ Sending /\ Sending'
      /\ UNCHANGED <<frame, i, j, cw, error_prob, send_time, retries, is_acked,
                     intf, receivers, sent>>
      /\ tx_rates' = IF is_acked THEN Report ELSE tx_rates
  BY DEF AttemptsEnd, Sending, loop_vars
<1>2. tx_rates \in Seq(TxRate) /\ Len(tx_rates) \in Nat
  BY <1>1, AtLoop
<1>3. /\ tx_rates' \in Seq(TxRate) /\ Len(tx_rates') = Len(tx_rates)
      /\ \A k \in 1..Len(tx_rates) : tx_rates'[k].idx <= tx_rates[k].idx \/ tx_rates'[k].idx = -1
      /\ Len(tx_rates) > 0 => tx_rates'[1].idx = tx_rates[1].idx
      /\ retries = Attempts(tx_rates', Len(UsedRates(tx_rates')))
      /\ send_time = Airtime(frame, tx_rates')
  <2>1. CASE is_acked
    <3>1. tx_rates' = Report
      BY <1>1, <2>1
    <3> QED
      BY <1>1, <2>1, <3>1, AckedReport
  <2>2. CASE ~is_acked
    <3>1. tx_rates' = tx_rates
      BY <1>1, <2>2
    <3>2. \A k \in 1..Len(tx_rates) : tx_rates[k].idx \in Int
      BY <1>2, RatesTypes
    <3>3. \A k \in 1..Len(tx_rates) : tx_rates[k].idx <= tx_rates[k].idx
      BY <3>2
    <3> QED
      BY <1>1, <1>2, <2>2, <3>1, <3>3, LostReport
  <2> QED
    BY <2>1, <2>2
<1>4. LoopTyped'
  BY <1>1, <1>3 DEF AccountInv, LoopTyped
<1>5. ProbeInv'
  <2> SUFFICES ASSUME frame_is_probe_req(frame), frame_has_zero_rates(frame.tx_rates)
               PROVE  /\ Len(tx_rates') > 0 => tx_rates'[1].idx >= 0
                      /\ \A k \in 1..Len(tx_rates') : tx_rates'[k].idx <= 7
    BY <1>1 DEF ProbeInv
  <2>1. /\ Len(tx_rates) > 0 => tx_rates[1].idx >= 0
        /\ \A k \in 1..Len(tx_rates) : tx_rates[k].idx <= 7
    BY <1>1 DEF AccountInv, ProbeInv
  <2>2. \A k \in 1..Len(tx_rates) : tx_rates[k].idx \in Int /\ tx_rates'[k].idx \in Int
    BY <1>2, <1>3, RatesTypes
  <2>3. ASSUME NEW k \in 1..Len(tx_rates) PROVE tx_rates'[k].idx <= 7
    BY <2>1, <2>2, <1>3
  <2> QED
    BY <2>1, <2>3, <1>3
<1>6. LoopInv'
  BY <1>1 DEF LoopInv
<1>7. ReportMatchesAttempts' /\ AirtimeOfReport'
  BY <1>1, <1>3 DEF ReportMatchesAttempts, AirtimeOfReport
<1> QED
  BY <1>4, <1>5, <1>6, <1>7 DEF AccountInv

LEMMA DeliverCounts ==
    ASSUME FrameInv, AccountInv, TableTyped', DeliverFrame
    PROVE  AccountInv'
<1>1. /\ pc = "queued" /\ pc' = "report" /\ Sending /\ Sending'
      /\ UNCHANGED <<frame, tx_rates, i, j, cw, error_prob, send_time, is_acked, sent>>
      /\ DeliverMulticast \/ DeliverUnicast \/ NotDelivered
  BY DEF DeliverFrame, Sending, loop_vars
<1>2. /\ send_time \in Nat /\ receivers \subseteq Station
      /\ DOMAIN intf = Station
      /\ \A k \in Station : /\ DOMAIN intf[k] = {"duration", "signal", "prob_col"}
                            /\ intf[k].duration \in Nat /\ intf[k].prob_col \in Nat
  BY DEF AccountInv, LoopTyped, FrameInv, WeakIntf
<1>3. ASSUME NEW src \in Station, NEW signal
      PROVE  \A k \in Station : /\ AddInterference(src, signal)[k].duration \in Nat
                                /\ AddInterference(src, signal)[k].prob_col \in Nat
  <2>1. CASE ~Interferes(signal)
    BY <1>2, <2>1 DEF AddInterference
  <2>2. CASE Interferes(signal)
    <3> DEFINE new == [intf[src] EXCEPT !.duration = @ + send_time, !.signal = signal]
    <3>1. AddInterference(src, signal) = [intf EXCEPT ![src] = new]
      BY <2>2 DEF AddInterference
    <3>2. new.duration = intf[src].duration + send_time /\ new.prob_col = intf[src].prob_col
      BY <1>2
    <3>3. new.duration \in Nat /\ new.prob_col \in Nat
      BY <1>2, <3>2
    <3> HIDE DEF new
    <3> QED
      BY <1>2, <3>1, <3>3
  <2> QED
    BY <2>1, <2>2
<1>4. frame.src \in Station
  BY <1>1, AtLoop, FrameTypes
<1>5. /\ receivers' \subseteq Station
      /\ \A k \in Station : intf'[k].duration \in Nat /\ intf'[k].prob_col \in Nat
  <2>1. CASE DeliverMulticast
    BY <2>1, <1>2 DEF DeliverMulticast
  <2>2. CASE DeliverUnicast
    <3>1. CASE frame.dst \notin Station \ {frame.src}
      BY <2>2, <3>1, <1>2 DEF DeliverUnicast
    <3>2. CASE frame.dst \in Station \ {frame.src}
      <4>1. /\ intf' = AddInterference(frame.src, snr + NOISE_LEVEL)
            /\ receivers' = {} \/ receivers' = {frame.dst}
        BY <2>2, <3>2 DEF DeliverUnicast
      <4> QED
        BY <4>1, <3>2, <1>3, <1>4
    <3> QED
      BY <3>1, <3>2
  <2>3. CASE NotDelivered
    BY <2>3, <1>3, <1>4 DEF NotDelivered
  <2> QED
    BY <1>1, <2>1, <2>2, <2>3
<1>6. LoopTyped'
  BY <1>1, <1>5 DEF AccountInv, LoopTyped
<1>7. ProbeInv'
  BY <1>1 DEF AccountInv, ProbeInv
<1> QED
  BY <1>1, <1>6, <1>7, Resting

LEMMA SendTxInfoCounts ==
    ASSUME FrameInv, AccountInv, TableTyped', SendTxInfo
    PROVE  AccountInv'
<1>1. /\ pc' = "idle" /\ ~Sending' /\ frame' = <<>> /\ tx_rates' = <<>> /\ i' = 1 /\ j' = 0
      /\ error_prob' = 0 /\ send_time' = 0 /\ is_acked' = FALSE /\ receivers' = {}
      /\ UNCHANGED <<intf, sent>>
  BY DEF SendTxInfo, Sending
<1>2. tx_rates' \in Seq(TxRate) /\ Len(tx_rates') = 0
  BY <1>1
<1>3. i' \in 1..(Len(tx_rates') + 1) /\ j' \in 0..255 /\ Len(tx_rates') <= TX_MAX_RATES
  BY <1>1, <1>2 DEF TX_MAX_RATES
<1>4. error_prob' \in Probability
  BY <1>1, OneAssumption DEF Probability
<1>5. LoopTyped'
  BY <1>1, <1>2, <1>3, <1>4 DEF AccountInv, LoopTyped
<1>6. ProbeInv'
  BY <1>1 DEF ProbeInv
<1> QED
  BY <1>1, <1>5, <1>6, Resting

LEMMA IntfUpdateCounts ==
    ASSUME FrameInv, AccountInv, TableTyped', IntfUpdate
    PROVE  AccountInv'
<1>1. /\ UNCHANGED <<pc, frame, tx_rates, i, j, cw, error_prob, send_time, retries,
                     is_acked, receivers, sent>>
      /\ intf' = [k \in Station |->
                    [intf[k] EXCEPT !.prob_col = intf[k].duration, !.duration = 0]]
  BY DEF IntfUpdate, loop_vars
<1>2. ASSUME NEW k \in Station
      PROVE  intf'[k].duration \in Nat /\ intf'[k].prob_col \in Nat
  <2>1. DOMAIN intf[k] = {"duration", "signal", "prob_col"} /\ intf[k].duration \in Nat
    BY DEF FrameInv, WeakIntf, AccountInv, LoopTyped
  <2>2. intf'[k] = [intf[k] EXCEPT !.prob_col = intf[k].duration, !.duration = 0]
    BY <1>1
  <2>3. intf'[k].duration = 0 /\ intf'[k].prob_col = intf[k].duration
    BY <2>1, <2>2
  <2> QED
    BY <2>1, <2>3
<1>3. LoopTyped' /\ (Sending' <=> Sending)
  BY <1>1, <1>2 DEF AccountInv, LoopTyped, Sending
<1>4. LoopInv'
  BY <1>1 DEF AccountInv, LoopInv, Progress
<1>5. ProbeInv'
  BY <1>1, <1>3 DEF AccountInv, ProbeInv
<1>6. ReportMatchesAttempts' /\ AirtimeOfReport'
  BY <1>1 DEF AccountInv, ReportMatchesAttempts, AirtimeOfReport
<1> QED
  BY <1>3, <1>4, <1>5, <1>6 DEF AccountInv

LEMMA ReadCounts ==
    ASSUME FrameInv, AccountInv, TableTyped', ReadRow \/ ReadEnds
    PROVE  AccountInv'
<1>1. /\ pc = "read" /\ pc' \in {"read", "overrun", "idle"} /\ ~Sending'
      /\ UNCHANGED <<frame, tx_rates, i, j, cw, error_prob, send_time, is_acked, intf,
                     receivers, sent>>
  BY DEF ReadRow, ReadEnds, Sending, loop_vars
<1>2. LoopTyped'
  BY <1>1 DEF AccountInv, LoopTyped
<1>3. ProbeInv'
  BY <1>1 DEF ProbeInv
<1> QED
  BY <1>1, <1>2, <1>3, Resting

LEMMA AccountStep == FrameInv /\ TableInv /\ AccountInv /\ [Next]_vars => AccountInv'
<1> SUFFICES ASSUME FrameInv, TableInv, AccountInv, [Next]_vars PROVE AccountInv'
  OBVIOUS
<1>1. TableTyped'
  BY TableTypedStep DEF AccountInv
<1>2. ASSUME NEW f \in Frames, QueueFrame(f) PROVE AccountInv'
  BY <1>1, <1>2, QueueFrameCounts
<1>3. CASE TryRate
  BY <1>1, <1>3, TryRateCounts
<1>4. CASE Attempt
  BY <1>1, <1>4, AttemptCounts
<1>5. CASE RateFailed
  BY <1>1, <1>5, RateFailedCounts
<1>6. CASE AttemptsEnd
  BY <1>1, <1>6, AttemptsEndCounts
<1>7. CASE DeliverFrame
  BY <1>1, <1>7, DeliverCounts
<1>8. CASE SendTxInfo
  BY <1>1, <1>8, SendTxInfoCounts
<1>9. CASE IntfUpdate
  BY <1>1, <1>9, IntfUpdateCounts
<1>10. CASE ReadRow \/ ReadEnds
  BY <1>1, <1>10, ReadCounts
<1>11. CASE UNCHANGED vars
  <2>1. UNCHANGED <<pc, frame, tx_rates, i, j, cw, error_prob, send_time, retries,
                    is_acked, receivers, sent, intf>>
    BY <1>11 DEF vars, loop_vars
  <2>2. LoopTyped' /\ LoopInv' /\ ProbeInv'
    BY <2>1 DEF AccountInv, LoopTyped, LoopInv, ProbeInv, Progress, Sending
  <2>3. ReportMatchesAttempts' /\ AirtimeOfReport'
    BY <2>1 DEF AccountInv, ReportMatchesAttempts, AirtimeOfReport
  <2> QED
    BY <1>1, <2>2, <2>3 DEF AccountInv
<1> QED
  BY <1>2, <1>3, <1>4, <1>5, <1>6, <1>7, <1>8, <1>9, <1>10, <1>11 DEF Next

LEMMA AccountAlways == Spec => []AccountInv
BY AccountInit, AccountStep, FrameAlways, TableAlways, PTL DEF Spec

\* The rates that a probe request was given exist in either band.
LEMMA ProbeRates ==
    ASSUME FrameInv, AccountInv
    PROVE  ProbesGetRates
<1> SUFFICES ASSUME pc \in {"attempt", "queued"}, frame_is_probe_req(frame),
                    frame_has_zero_rates(frame.tx_rates), Len(tx_rates) > 0
             PROVE  /\ UsedRates(tx_rates) # <<>>
                    /\ \A k \in DOMAIN UsedRates(tx_rates) :
                          RateIndex(tx_rates[k].idx, frame.freq) < rate_len
  BY DEF ProbesGetRates
<1>1. Sending
  BY DEF Sending
<1>2. frame \in Frame /\ tx_rates \in Seq(TxRate) /\ Len(tx_rates) \in Nat
  BY <1>1, AtLoop
<1>3. tx_rates[1].idx >= 0 /\ \A k \in 1..Len(tx_rates) : tx_rates[k].idx <= 7
  BY <1>1 DEF AccountInv, ProbeInv
<1>4. \A k \in 1..Len(tx_rates) : tx_rates[k].idx \in Int
  BY <1>2, RatesTypes
<1>5. ASSUME NEW k \in 1..Len(tx_rates)
      PROVE  RateIndex(tx_rates[k].idx, frame.freq) < rate_len
  <2>1. tx_rates[k].idx \in Int /\ tx_rates[k].idx <= 7 /\ rate_len = 12
    BY <1>3, <1>4 DEF rate_len, rateset
  <2> QED
    BY <2>1 DEF RateIndex
<1> DEFINE I == {k \in 1..Len(tx_rates) : tx_rates[k].idx < 0}
           v == ValidRates(tx_rates)
<1>6. v = IF I # {} THEN Min(I) ELSE 0
  BY Zenon DEF ValidRates, SelectInSeq
<1>7. v = 0 \/ v \in 2..Len(tx_rates)
  <2>1. CASE I = {}
    BY <2>1, <1>6
  <2>2. CASE I # {}
    <3>1. I \subseteq Nat
      OBVIOUS
    <3>2. PICK x \in I : \A y \in I : x <= y
      <4> HIDE DEF I
      <4> QED
        BY <2>2, <3>1, FirstPosition
    <3>3. Min(I) \in I
      <4> HIDE DEF I
      <4> QED
        BY <3>2 DEF Min
    <3>4. 1 \notin I
      <4>1. ~(tx_rates[1].idx < 0)
        <5>1. 1 \in 1..Len(tx_rates)
          BY <1>2
        <5> QED
          BY <5>1, <1>3, <1>4
      <4> QED
        BY <4>1
    <3>5. v \in I /\ v # 1
      <4> HIDE DEF I, v
      <4> QED
        BY <2>2, <3>3, <3>4, <1>6
    <3> QED
      BY <3>5, <1>2
  <2> QED
    BY <2>1, <2>2
<1>8. UsedRates(tx_rates) = IF v = 0 THEN tx_rates ELSE SubSeq(tx_rates, 1, v - 1)
  BY DEF UsedRates
<1> HIDE DEF v
<1>9. CASE v = 0
  <2>1. UsedRates(tx_rates) = tx_rates /\ DOMAIN tx_rates = 1..Len(tx_rates)
    BY <1>2, <1>8, <1>9, RatesTypes
  <2>2. tx_rates # <<>>
    BY <1>2
  <2> QED
    BY <2>1, <2>2, <1>5
<1>10. CASE v \in 2..Len(tx_rates)
  <2>1. UsedRates(tx_rates) = SubSeq(tx_rates, 1, v - 1)
    BY <1>8, <1>10, <1>2
  <2>2. v - 1 \in 1..Len(tx_rates)
    BY <1>2, <1>10
  <2>3. Len(SubSeq(tx_rates, 1, v - 1)) = v - 1 /\ DOMAIN SubSeq(tx_rates, 1, v - 1) = 1..(v - 1)
    BY <1>2, <2>2
  <2>4. \A k \in 1..(v - 1) : k \in 1..Len(tx_rates)
    BY <1>2, <2>2
  <2>5. SubSeq(tx_rates, 1, v - 1) # <<>>
    BY <2>2, <2>3
  <2> QED
    BY <2>1, <2>3, <2>4, <2>5, <1>5
<1> QED
  BY <1>7, <1>9, <1>10

(***************************************************************************)
(* What queue_frame() tells the sender is what it did: however its loops   *)
(* end, the counts of the reported rates are the attempts that were made,  *)
(* the time that delays every later frame is the airtime of these rates    *)
(* with the window doubled at every backoff up to its limit, and a probe   *)
(* request without rates gets some that exist, for every set of frames,    *)
(* links, probabilities and PER files.                                     *)
(***************************************************************************)
THEOREM ReportFaithful == Spec => []ReportInv
<1>1. FrameInv /\ AccountInv => ReportInv
  <2> SUFFICES ASSUME FrameInv, AccountInv PROVE ReportInv
    OBVIOUS
  <2>1. /\ tx_rates \in Seq(TxRate) /\ i \in 1..(Len(tx_rates) + 1) /\ j \in 0..255
        /\ frame # <<>> => LET ac == frame_select_queue_80211(frame)
                           IN  cw \in cw_min(ac)..cw_max(ac)
        /\ error_prob \in Probability /\ send_time \in Nat /\ is_acked \in BOOLEAN
        /\ receivers \subseteq Station
        /\ \A k \in Station : intf[k].duration \in Nat /\ intf[k].prob_col \in Nat
        /\ sent \in 0..MaxFrames
    BY DEF AccountInv, LoopTyped
  <2>2. \A k \in DOMAIN tx_rates :
           tx_rates[k].idx \in -128..127 /\ tx_rates[k].count \in 0..255
    <3>1. DOMAIN tx_rates = 1..Len(tx_rates)
      BY <2>1, RatesTypes
    <3>2. ASSUME NEW k \in DOMAIN tx_rates
          PROVE  tx_rates[k].idx \in -128..127 /\ tx_rates[k].count \in 0..255
      <4>1. k \in 1..Len(tx_rates)
        BY <3>1, Zenon
      <4>2. tx_rates[k] \in TxRate
        BY <2>1, <4>1, RatesTypes
      <4> QED
        BY <4>2, RateTypes
    <3> QED
      BY <3>2
  <2>3. TypeOK
    BY <2>1, <2>2 DEF TypeOK, FrameInv, Shape
  <2>4. ProbesGetRates
    BY ProbeRates
  <2> QED
    BY <2>3, <2>4 DEF ReportInv, AccountInv
<1> QED
  BY <1>1, FrameAlways, AccountAlways, PTL
=============================================================================
