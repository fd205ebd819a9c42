------------------------------ MODULE Transmit ------------------------------
(***************************************************************************)
(* What happens to one frame after another on the air: queue_frame() tries *)
(* the frame at each of its rates until an attempt is acknowledged, adds   *)
(* up the airtime and rewrites the rates into a report of the attempts;    *)
(* wmediumd_deliver_frame() decides who receives it; frames too weak to be *)
(* received count as interference, which weakens later frames.             *)
(*                                                                         *)
(* Error probabilities and random draws are counted in parts of One, the   *)
(* probability 1.0.  The packet error rate that get_error_prob_from_snr()  *)
(* computes in floating point may be any of Probability, its cut-offs are  *)
(* exact.  A sequence has its first element at 1 where C counts from 0.    *)
(* Every column of a row of intf is written together and the diagonal is   *)
(* never read, so intf has one entry per sending station.                  *)
(***************************************************************************)
EXTENDS Integers, Sequences, SequencesExt, FiniteSetsExt

CONSTANTS
    NumStas,        \* ctx->num_stas
    Frames,         \* the frames the clients may send
    Link,           \* snr_matrix: Link[sender][receiver]
    ErrorProb,      \* error_prob_matrix
    PerFiles,       \* the PER files, each a sequence of rows
    Modes,          \* where error probabilities come from: "snr", "prob", "per"
    Interference,   \* ifaces.enable_interference
    Fading,         \* what get_fading_signal() may return
    One,            \* the probability 1.0
    MaxFrames       \* bound: the number of frames sent

ASSUME ModesAssumption == Modes \subseteq {"snr", "prob", "per"}
ASSUME OneAssumption == One \in Nat \ {0}
ASSUME FadingAssumption == NumStas \in Nat /\ Fading \subseteq Int
ASSUME BoundAssumption == MaxFrames \in Nat

VARIABLES
    mode,           \* ctx->get_error_prob
    per_file,       \* the file given with -x
    per_matrix, per_matrix_row_num, per_matrix_signal_min,
    pc,             \* "read", "idle", "rate", "attempt", "end",
                    \* "queued", "report"
    frame,          \* the frame as it was sent
    tx_rates,       \* frame->tx_rates
    snr,            \* frame->signal is this above the noise
    i, j, cw, choice, error_prob, send_time, retries, is_acked,
    intf,           \* ctx->intf, by sending station
    receivers,      \* the stations that got the last frame
    loud,           \* history: the stations that drowned the current frame
    first_choice,   \* history: the first draw for the current frame
    sent

per_vars == <<per_file, per_matrix, per_matrix_row_num, per_matrix_signal_min>>
loop_vars == <<i, j, cw, choice, error_prob, send_time, retries, is_acked>>
vars == <<mode, per_vars, pc, frame, tx_rates, snr, loop_vars, intf,
          receivers, loud, first_choice, sent>>

Station == 0..(NumStas - 1)
Broadcast == -1     \* a destination address that is a group address
Unknown == -2       \* a destination address that no station has
Multicast(f) == f.dst = Broadcast

ASSUME LinkAssumption ==
    /\ \A a, b \in Station : Link[a][b] \in Int
    /\ \A f \in Frames : f.src \in Station

Probability == 0..One
Draw == 0..(One - 1)        \* drand48() is below 1.0

\* load_config() refuses other error probabilities
ASSUME ErrorProbAssumption == \A a, b \in Station : ErrorProb[a][b] \in Probability

\* struct hwsim_tx_rate; struct frame has room for TX_MAX_RATES of them
TX_MAX_RATES == 4
TxRate == [idx : -128..127, count : 0..255]
Frame == [src : Station, dst : Station \cup {Broadcast, Unknown}, fc : 0..255,
          priority : 0..7, len : Nat, freq : Nat, tx_rates : Seq(TxRate)]

\* the kernel (mac80211_hwsim) sends no more rates than fit; the daemon copies
\* no more, but believes the count it was sent
ASSUME FramesAssumption ==
    Frames \subseteq Frame /\ \A f \in Frames : Len(f.tx_rates) <= TX_MAX_RATES

Uninitialized == <<>>       \* a row of the table that was never written

NOISE_LEVEL == -91
CCA_THRESHOLD == -90
SNR_DEFAULT == 30
-----------------------------------------------------------------------------
(* The rate table and the time a frame takes, in microseconds.             *)

\* rateset, in units of 100 kbps
rateset == <<10, 20, 55, 110, 60, 90, 120, 180, 240, 360, 480, 540>>
rate_len == Len(rateset)

\* the position in the rate table, which has no CCK rates at 5 GHz
RateIndex(idx, freq) == IF freq > 5000 THEN idx + 4 ELSE idx

index_to_rate(idx, freq) ==
    rateset[1 + Min({RateIndex(idx, freq), rate_len - 1})]

div_round(a, b) == (a + b - 1) \div b
pkt_duration(len, rate) ==
    16 + 4 + 4 * div_round((16 + 8 * len + 6) * 10, 4 * rate)

slot_time == 9
sifs == 16
difs == 2 * slot_time + sifs
OnAir(f, r) == difs + pkt_duration(f.len, index_to_rate(r.idx, f.freq))
ack_time_usec(freq) == pkt_duration(14, index_to_rate(0, freq)) + sifs
-----------------------------------------------------------------------------
(* What the frame header says.                                             *)

Bit(byte, b) == (byte \div b) % 2 = 1
Type(f) == (f.fc \div 4) % 4
frame_is_data(f) == Type(f) = 2
frame_is_data_qos(f) == frame_is_data(f) /\ Bit(f.fc, 128)
\* true of every management frame with this bit, deauthentication included
frame_is_probe_req(f) == Type(f) = 0 /\ Bit(f.fc, 64)

AC_VO == 0
AC_VI == 1
AC_BE == 2
AC_BK == 3
ieee802_1d_to_ac ==
    <<AC_BE, AC_BK, AC_BK, AC_BE, AC_VI, AC_VI, AC_VO, AC_VO>>

frame_select_queue_80211(f) ==
    CASE ~frame_is_data(f) -> AC_VO
      [] frame_is_data(f) /\ ~frame_is_data_qos(f) -> AC_BE
      [] frame_is_data_qos(f) -> ieee802_1d_to_ac[1 + f.priority]

\* station_init_queues()
cw_min(ac) == <<3, 7, 15, 15>>[1 + ac]
cw_max(ac) == <<7, 15, 1023, 1023>>[1 + ac]

\* the rates before the first one that is not set
ValidRates(rates) ==
    SelectInSeq(rates, LAMBDA r : r.idx < 0)
UsedRates(rates) ==
    IF ValidRates(rates) = 0 THEN rates
    ELSE SubSeq(rates, 1, ValidRates(rates) - 1)

frame_has_zero_rates(rates) ==
    \A k \in DOMAIN UsedRates(rates) : rates[k].count = 0

\* the 6 Mbps rate and up, the fastest first
fill_tx_rates(rates) ==
    LET rate_count == Min({rate_len - 1 - 4 + 1, Len(rates)})
    IN  [k \in DOMAIN rates |->
            IF k <= rate_count THEN [idx |-> 4 + rate_count - k, count |-> 4]
            ELSE [idx |-> -1, count |-> 0]]
-----------------------------------------------------------------------------
(* The PER file: one row per signal strength, one column per rate.         *)

\* every row that is read has a value for each rate; a signal is in dBm, far
\* below the 1000 at which read_per_file() starts its minimum
ASSUME PerFilesAssumption ==
    \A file \in PerFiles :
        /\ file \in Seq(Range(file))
        /\ \A k \in DOMAIN file :
              /\ file[k].signal \in Int /\ file[k].signal <= 1000
              /\ file[k].per \in [1..rate_len -> Probability]

\* mutant: the rows of the table are counted from one
RowAtShifted(signal) == signal - per_matrix_signal_min + 1
RowAt(signal) == signal - per_matrix_signal_min

\* One line of read_per_file(): the table grows by a row, the values go where
\* the signal says, and past the end of the table if it skips one.
ReadRow ==
    /\ pc = "read"
    /\ per_matrix_row_num < Len(per_file)
    /\ LET row == per_file[per_matrix_row_num + 1]
           at == row.signal - per_matrix_signal_min'
       IN  /\ per_matrix_signal_min' = Min({per_matrix_signal_min, row.signal})
           /\ per_matrix_row_num' = per_matrix_row_num + 1
           /\ per_matrix' =
                 [k \in 0..per_matrix_row_num |->
                     CASE k = at -> row.per
                       [] k # at /\ k < per_matrix_row_num -> per_matrix[k]
                       [] OTHER -> Uninitialized]
           /\ pc' = IF at > per_matrix_row_num THEN "overrun" ELSE "read"
    /\ UNCHANGED <<mode, per_file, frame, tx_rates, snr, loop_vars, intf,
                   receivers, loud, first_choice, sent>>

\* the end of the file
ReadEnds ==
    /\ pc = "read"
    /\ per_matrix_row_num = Len(per_file)
    /\ pc' = "idle"
    /\ UNCHANGED <<mode, per_vars, frame, tx_rates, snr, loop_vars, intf,
                   receivers, loud, first_choice, sent>>

get_error_prob_from_per_matrix(level, idx, freq) ==
    LET signal_idx == RowAt(level + NOISE_LEVEL) IN
    CASE signal_idx < 0 -> {One}
      [] signal_idx >= per_matrix_row_num -> {0}
      [] OTHER -> IF RateIndex(idx, freq) >= rate_len THEN {One}
                  ELSE IF per_matrix[signal_idx] = Uninitialized
                  THEN Probability
                  ELSE {per_matrix[signal_idx][1 + RateIndex(idx, freq)]}

get_error_prob_from_snr(level, idx, freq) ==
    IF level <= 0 \/ RateIndex(idx, freq) >= rate_len THEN {One}
    ELSE Probability

\* dst is NULL for group addresses and for addresses no station has
get_error_prob_from_matrix(src, dst) ==
    IF dst \notin Station THEN 0 ELSE ErrorProb[src][dst]

get_error_prob(level, idx, freq, src, dst) ==
    CASE mode = "snr" -> get_error_prob_from_snr(level, idx, freq)
      [] mode = "per" -> get_error_prob_from_per_matrix(level, idx, freq)
      [] mode = "prob" -> {get_error_prob_from_matrix(src, dst)}

\* get_link_snr_default() when the error probabilities are given
get_link_snr(src, dst) == IF mode = "prob" THEN SNR_DEFAULT ELSE Link[src][dst]
-----------------------------------------------------------------------------
(* Interference: powers are in thousandths of the noise power.             *)

\* 10^(-d/10) for d = 0..30, in thousandths
Thousandths ==
    <<1000, 794, 631, 501, 398, 316, 251, 200, 158, 126, 100, 79, 63, 50, 40,
      32, 25, 20, 16, 13, 10, 8, 6, 5, 4, 3, 3, 2, 2, 1, 1>>

dBm_to_milliwatt(signal) ==
    LET intf_diff == NOISE_LEVEL - signal IN
    CASE intf_diff >= 31 -> 1
      [] intf_diff \in 0..30 -> Thousandths[1 + intf_diff]
      [] intf_diff \in -30..-1 -> 1000000 \div Thousandths[1 - intf_diff]
      [] intf_diff <= -31 -> 1000000

\* milliwatt_to_dBm(), rounded, up to the power of two such stations
OffsetOf(power) ==
    Cardinality({x \in {1122, 1413, 1778, 2239} : power >= x})

\* The stations that may collide with a frame from src to dst, and those that
\* have to: they sent for the whole of the last interval
Colliding(src, dst) ==
    {k \in Station \ {src, dst} : intf[k].prob_col > 0}
Collisions(src, dst) ==
    IF ~Interference THEN {{}}
    ELSE {c \in SUBSET Colliding(src, dst) :
            \A k \in Colliding(src, dst) : intf[k].prob_col >= 10000 => k \in c}

SignalOffset(c) ==
    LET power == MapThenSumSet(LAMBDA k : dBm_to_milliwatt(intf[k].signal), c)
    IN  IF power <= 1000 THEN 0 ELSE OffsetOf(power)

\* mutant: strong frames interfere as well
InterferesAlways(signal) == Interference
\* set_interference_duration() takes the frame
Interferes(signal) == Interference /\ signal < CCA_THRESHOLD

AddInterference(src, signal) ==
    IF Interferes(signal)
    THEN [intf EXCEPT ![src].duration = @ + send_time, ![src].signal = signal]
    ELSE intf

\* wmediumd_intf_update()
IntfUpdate ==
    /\ Interference
    /\ pc \in {"idle", "queued"}
    /\ intf' = [k \in Station |->
                  [intf[k] EXCEPT !.prob_col = intf[k].duration,
                                  !.duration = 0]]
    /\ UNCHANGED <<mode, per_vars, pc, frame, tx_rates, snr, loop_vars,
                   receivers, loud, first_choice, sent>>
-----------------------------------------------------------------------------
(* queue_frame(): the attempts.                                            *)

QueueFrame(f) ==
    /\ pc = "idle"
    /\ sent < MaxFrames
    /\ sent' = sent + 1
    /\ frame' = f
    /\ IF f.dst \in Station
       THEN \E c \in Collisions(f.src, f.dst), fade \in Fading :
               /\ snr' = get_link_snr(f.src, f.dst) - SignalOffset(c) + fade
               /\ loud' = IF SignalOffset(c) > 0 THEN c ELSE {}
       ELSE snr' = SNR_DEFAULT /\ loud' = {}
    /\ tx_rates' = IF frame_is_probe_req(f) /\ frame_has_zero_rates(f.tx_rates)
                   THEN fill_tx_rates(f.tx_rates) ELSE f.tx_rates
    /\ choice' \in Draw
    /\ first_choice' = choice'
    /\ i' = 1 /\ j' = 0 /\ retries' = 0 /\ send_time' = 0
    /\ is_acked' = FALSE
    /\ error_prob' = 0
    /\ cw' = cw_min(frame_select_queue_80211(f))
    /\ pc' = "rate"
    /\ receivers' = {}
    /\ UNCHANGED <<mode, per_vars, intf>>

\* the outer loop: take the next rate, if there is one
TryRate ==
    /\ pc = "rate"
    /\ IF i <= Len(tx_rates) /\ tx_rates[i].idx >= 0
       THEN /\ error_prob' \in get_error_prob(snr, tx_rates[i].idx, frame.freq,
                                              frame.src, frame.dst)
            /\ j' = 0
            /\ pc' = "attempt"
       ELSE pc' = "end" /\ UNCHANGED <<error_prob, j>>
    /\ UNCHANGED <<mode, per_vars, frame, tx_rates, snr, i, cw, choice,
                   send_time, retries, is_acked, intf, receivers, loud,
                   first_choice, sent>>

\* mutant: the window starts again with every rate
BackoffReset == IF j = 1 THEN cw_min(frame_select_queue_80211(frame)) ELSE cw
\* the contention window the backoff before attempt j uses
Backoff == cw

NextCw(ac) == Min({2 * Backoff + 1, cw_max(ac)})

\* mutant: draws again even if the random value is fixed
RedrawAlways == Draw
\* use_fixed_random_value()
Redraw == IF mode = "prob" THEN {choice} ELSE Draw

\* the inner loop: one attempt
Attempt ==
    /\ pc = "attempt"
    /\ j < tx_rates[i].count
    /\ retries' = retries + 1
    /\ LET ac == frame_select_queue_80211(frame)
           on_air == OnAir(frame, tx_rates[i])
           backoff == IF j > 0 THEN (Backoff * slot_time) \div 2 ELSE 0
       IN  IF Multicast(frame)
           THEN /\ send_time' = send_time + on_air
                /\ is_acked' = TRUE
                /\ pc' = "end"
                /\ UNCHANGED <<j, cw, choice>>
           ELSE /\ send_time' = send_time + on_air + backoff
                                + ack_time_usec(frame.freq)
                /\ cw' = IF j > 0 THEN NextCw(ac) ELSE cw
                /\ IF choice > error_prob
                   THEN /\ is_acked' = TRUE
                        /\ pc' = "end"
                        /\ UNCHANGED <<j, choice>>
                   ELSE /\ choice' \in Redraw
                        /\ j' = j + 1
                        /\ UNCHANGED <<is_acked, pc>>
    /\ UNCHANGED <<mode, per_vars, frame, tx_rates, snr, i, error_prob, intf,
                   receivers, loud, first_choice, sent>>

RateFailed ==
    /\ pc = "attempt"
    /\ j >= tx_rates[i].count
    /\ i' = i + 1
    /\ pc' = "rate"
    /\ UNCHANGED <<mode, per_vars, frame, tx_rates, snr, j, cw, choice,
                   error_prob, send_time, retries, is_acked, intf, receivers,
                   loud, first_choice, sent>>

\* what the sender is told: the rates up to the one that got through
Report ==
    [k \in DOMAIN tx_rates |->
        CASE k < i -> tx_rates[k]
          [] k = i -> [tx_rates[k] EXCEPT !.count = j + 1]
          [] k > i -> [idx |-> -1, count |-> 255]]

AttemptsEnd ==
    /\ pc = "end"
    /\ tx_rates' = IF is_acked THEN Report ELSE tx_rates
    /\ pc' = "queued"
    /\ UNCHANGED <<mode, per_vars, frame, snr, loop_vars, intf, receivers,
                   loud, first_choice, sent>>
-----------------------------------------------------------------------------
(* wmediumd_deliver_frame(): who receives the frame.                       *)

\* A receiver of a multicast frame: strong enough and, after interference, lucky
MayReceive(k) ==
    \E fade \in Fading, c \in Collisions(frame.src, k) :
       LET level == get_link_snr(frame.src, k) + fade IN
       /\ level + NOISE_LEVEL >= CCA_THRESHOLD
       /\ ~Interferes(level + NOISE_LEVEL)
       /\ \E p \in get_error_prob(level - SignalOffset(c), tx_rates[1].idx,
                                  frame.freq, frame.src, k) :
             \E d \in Draw : d > p

MayMiss(k) ==
    \E fade \in Fading, c \in Collisions(frame.src, k) :
       LET level == get_link_snr(frame.src, k) + fade IN
       \/ level + NOISE_LEVEL < CCA_THRESHOLD
       \/ Interferes(level + NOISE_LEVEL)
       \/ \E p \in get_error_prob(level - SignalOffset(c), tx_rates[1].idx,
                                  frame.freq, frame.src, k) :
             \E d \in Draw : d <= p

DeliverMulticast ==
    /\ is_acked /\ Multicast(frame)
    /\ receivers' \in SUBSET {k \in Station \ {frame.src} : MayReceive(k)}
    /\ \A k \in Station \ {frame.src} : k \notin receivers' => MayMiss(k)
    /\ intf' = intf

DeliverUnicast ==
    /\ is_acked /\ ~Multicast(frame)
    /\ IF frame.dst \notin Station \ {frame.src}
       THEN UNCHANGED <<receivers, intf>>
       ELSE /\ intf' = AddInterference(frame.src, snr + NOISE_LEVEL)
            /\ receivers' = IF Interferes(snr + NOISE_LEVEL) THEN {}
                            ELSE {frame.dst}

NotDelivered ==
    /\ ~is_acked
    /\ intf' = AddInterference(frame.src, snr + NOISE_LEVEL)
    /\ receivers' = {}

DeliverFrame ==
    /\ pc = "queued"
    /\ DeliverMulticast \/ DeliverUnicast \/ NotDelivered
    /\ pc' = "report"
    /\ UNCHANGED <<mode, per_vars, frame, tx_rates, snr, loop_vars, loud,
                   first_choice, sent>>

\* send_tx_info_frame_nl() and free()
SendTxInfo ==
    /\ pc = "report"
    /\ pc' = "idle"
    /\ frame' = <<>> /\ tx_rates' = <<>> /\ snr' = 0
    /\ i' = 1 /\ j' = 0 /\ cw' = 0 /\ choice' = 0 /\ error_prob' = 0
    /\ send_time' = 0 /\ retries' = 0 /\ is_acked' = FALSE
    /\ receivers' = {} /\ loud' = {} /\ first_choice' = 0
    /\ UNCHANGED <<mode, per_vars, intf, sent>>
-----------------------------------------------------------------------------
Init ==
    /\ mode \in Modes
    /\ per_file \in IF mode = "per" THEN PerFiles ELSE {<<>>}
    /\ per_matrix = <<>>
    /\ per_matrix_row_num = 0
    /\ per_matrix_signal_min = 1000
    /\ pc = IF mode = "per" THEN "read" ELSE "idle"
    /\ frame = <<>> /\ tx_rates = <<>> /\ snr = 0
    /\ i = 1 /\ j = 0 /\ cw = 0 /\ choice = 0 /\ error_prob = 0
    /\ send_time = 0 /\ retries = 0 /\ is_acked = FALSE
    /\ receivers = {} /\ loud = {} /\ first_choice = 0
    /\ intf = [k \in Station |->
                 [duration |-> 0, signal |-> -200, prob_col |-> 0]]
    /\ sent = 0

Next ==
    \/ ReadRow \/ ReadEnds
    \/ \E f \in Frames : QueueFrame(f)
    \/ TryRate \/ Attempt \/ RateFailed \/ AttemptsEnd
    \/ DeliverFrame \/ SendTxInfo
    \/ IntfUpdate

Spec == Init /\ [][Next]_vars
-----------------------------------------------------------------------------
(* Properties.                                                             *)

\* The fields stay in the ranges their C types and the tables give them: the
\* window of a queue never leaves its limits.
TypeOK ==
    /\ mode \in Modes
    /\ pc \in {"read", "overrun", "idle", "rate", "attempt", "end", "queued",
              "report"}
    /\ \A k \in DOMAIN tx_rates :
          tx_rates[k].idx \in -128..127 /\ tx_rates[k].count \in 0..255
    /\ i \in 1..(Len(tx_rates) + 1) /\ j \in 0..255
    /\ frame # <<>> => LET ac == frame_select_queue_80211(frame)
                       IN  cw \in cw_min(ac)..cw_max(ac)
    /\ choice \in Draw /\ error_prob \in Probability
    /\ send_time \in Nat /\ retries \in Nat /\ is_acked \in BOOLEAN
    /\ snr \in Int /\ receivers \subseteq Station
    /\ \A k \in Station :
          intf[k].duration \in Nat /\ intf[k].prob_col \in Nat
    /\ sent \in 0..MaxFrames

\* the sum of the first n numbers
SumTo(v, n) ==
    LET s[k \in 0..n] == IF k = 0 THEN 0 ELSE s[k - 1] + v[k]
    IN  s[n]

\* the attempts at the first n rates, the time they take on the air, and how
\* many of them are not the first of their rate
Attempts(rates, n) == SumTo([k \in 1..n |-> rates[k].count], n)
TimeOnAir(f, rates, n) ==
    SumTo([k \in 1..n |-> rates[k].count * OnAir(f, rates[k])], n)
Repeats(rates, n) ==
    SumTo([k \in 1..n |-> IF rates[k].count = 0 THEN 0 ELSE rates[k].count - 1], n)

\* The report that goes back to the sender (HWSIM_ATTR_TX_INFO) accounts for
\* every attempt the loops of queue_frame() made, whichever of the two loops
\* ended and however: the counts of the rates that were used add up to it.
ReportMatchesAttempts ==
    pc = "queued" => retries = Attempts(tx_rates, Len(UsedRates(tx_rates)))

\* the window of an access category, n times doubled
TwoTo(n) ==
    LET p[k \in 0..n] == IF k = 0 THEN 1 ELSE 2 * p[k - 1]
    IN  p[n]
Window(ac, n) == Min({(cw_min(ac) + 1) * TwoTo(n) - 1, cw_max(ac)})
Backoffs(ac, n) ==
    SumTo([k \in 1..n |-> (Window(ac, k - 1) * slot_time) \div 2], n)

\* Reference definition of the airtime, from the report alone: every attempt
\* takes its distributed interframe space and the frame; a frame that is to be
\* acknowledged also takes the acknowledgement and, for every attempt that is
\* not the first of its rate, a backoff.  The n-th backoff of the frame uses
\* the n times doubled window, whatever rate it is made at.
Airtime(f, rates) ==
    LET used == Len(UsedRates(rates))
    IN  IF Multicast(f) THEN TimeOnAir(f, rates, used)
        ELSE TimeOnAir(f, rates, used)
             + Attempts(rates, used) * ack_time_usec(f.freq)
             + Backoffs(frame_select_queue_80211(f), Repeats(rates, used))

\* The airtime that queue_frame() adds up in its loops, and that delays every
\* later frame, is the airtime of the report it sends to the sender.
AirtimeOfReport ==
    pc = "queued" => send_time = Airtime(frame, tx_rates)

\* With configured error probabilities the random value of a frame is fixed
\* (use_fixed_random_value()), so the loss of the frame has the configured
\* probability however many attempts it makes: it is acknowledged exactly if
\* the one draw beats the link's probability.
LossAsConfigured ==
    pc = "queued" /\ mode = "prob" /\ frame.dst \in Station /\ retries > 0
        => (is_acked <=> first_choice > ErrorProb[frame.src][frame.dst])

\* A unicast frame that is reported as acknowledged is delivered, and one that
\* is not is not: the threshold below which a signal is only interference
\* (CCA_THRESHOLD) never cuts off a frame whose SNR let an attempt succeed.
AckedMeansDelivered ==
    pc = "report" /\ mode = "snr" /\ frame.dst \in Station \ {frame.src}
        => receivers = IF is_acked THEN {frame.dst} ELSE {}

\* What becomes of a unicast frame: in the mode of configured probabilities
\* its one draw decides, in the mode of signal strengths the acknowledgement
\* and the delivery agree.
OutcomeInv == LossAsConfigured /\ AckedMeansDelivered

\* A probe request that came without rates is sent: fill_tx_rates() gives it
\* rates that exist in its band, so that its error probability is not 1.0 for
\* the mere index.
ProbesGetRates ==
    pc \in {"attempt", "queued"} /\ frame_is_probe_req(frame)
       /\ frame_has_zero_rates(frame.tx_rates) /\ Len(tx_rates) > 0
        => /\ UsedRates(tx_rates) # <<>>
           /\ \A k \in DOMAIN UsedRates(tx_rates) :
                 RateIndex(tx_rates[k].idx, frame.freq) < rate_len

\* What the sender is told is what was done: the report, the airtime and the
\* rates that were used agree in every run of the two loops, and the window
\* of every backoff is within its limits.
ReportInv ==
    TypeOK /\ ReportMatchesAttempts /\ AirtimeOfReport /\ ProbesGetRates

\* A PER file with one row per signal, in ascending order, like
\* tests/signal_table_ieee80211ax.
WellFormed(file) ==
    \A k \in 1..(Len(file) - 1) : file[k + 1].signal = file[k].signal + 1

\* Reference definition of the error probability at a signal, from the file
\* alone: that of the row about the signal; a weaker signal than all rows
\* always fails, a stronger one never does.
FileErrorProb(signal, idx) ==
    LET rows == {k \in DOMAIN per_file : per_file[k].signal = signal}
    IN  IF rows # {} THEN {per_file[k].per[1 + idx] : k \in rows}
        ELSE IF \A k \in DOMAIN per_file : signal < per_file[k].signal
        THEN {One} ELSE {0}

\* A well-formed PER file is read into its table without writing past its end,
\* and every signal gets the row of the file that is about it.
PerFileFaithful ==
    /\ pc = "overrun" => ~WellFormed(per_file)
    /\ pc = "idle" /\ mode = "per" /\ WellFormed(per_file) =>
          \A signal \in -95..-85, idx \in 0..(rate_len - 1) :
             get_error_prob_from_per_matrix(signal - NOISE_LEVEL, idx, 2412)
                = FileErrorProb(signal, idx)

\* Interference takes at least two: a frame is drowned only if two stations
\* other than its sender and receiver sent frames below the threshold, since
\* such a frame is never stronger than the noise.
InterferenceTakesTwo ==
    Cardinality(loud) # 1

\* What config.c:75 says of get_error_prob_from_matrix(): "dst is multicast.
\* returned value will not be used."  It is also called, and its 0.0 compared
\* with the draw, for a frame to an address that no station has.
NoDestinationIsMulticast ==
    pc = "attempt" /\ mode = "prob" /\ frame.dst \notin Station
        => Multicast(frame)
=============================================================================
